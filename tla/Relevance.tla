------------------------------ MODULE Relevance ------------------------------
(***************************************************************************)
(* Taiwan and AI relevance: the two engines that cmd/migrate uses, and the *)
(* two keyword loops the pipeline coordinator has in their place.          *)
(***************************************************************************)
EXTENDS Signals

OfficialDomains ==
    {"twse.com.tw", "tpex.org.tw", "taifex.com.tw", "cwa.gov.tw", "moi.gov.tw",
     "moea.gov.tw", "moj.gov.tw", "ly.gov.tw", "judicial.gov.tw", "data.gov.tw", "gov.tw"}
GovernmentAgencies ==
    {"cwa", "moi", "moea", "mol", "mof", "pcc", "ly", "judicial yuan", "data.gov.tw", "gov.tw"}
FinancialKeywords == {"twse", "tpex", "taifex", "tdcc", "finmind", "fugle"}
DatasetKeywords == {"lvr", "land.moi.gov.tw"}
TaiwanKeywords == {"taiwan", "taiwanese", "tw", "taipei"}
LanguageKeywords == {"zh-tw", "traditional chinese", "taiwan mandarin", "tocfl"}
CompanyKeywords == {"shopline"}

\* TaiwanRelevanceEngine.Score: nothing caps the sum.
TaiwanScore(p) ==
      40 * (Hits(At(p, "url"), OfficialDomains) + Hits(At(p, "homepage"), OfficialDomains)
            + HitsInEach(RuntimeEndpoints(p), OfficialDomains)
            + HitsInEach(At(p, "sources"), GovernmentAgencies))
    + 35 * HitsInEach(At(p, "sources"), FinancialKeywords)
    + 30 * HitsInEach(At(p, "sources"), DatasetKeywords)
    + 20 * HitsInEach(At(p, "topics"), TaiwanKeywords)
    + 15 * Hits(At(p, "language"), LanguageKeywords)
    + 15 * (Hits(At(p, "name"), CompanyKeywords) + HitsInEach(At(p, "topics"), CompanyKeywords))
    + 5 * Hits(At(p, "desc"), TaiwanKeywords)

CoreAIKeywords ==
    {"ai", "artificial intelligence", "llm", "large language model", "generative ai",
     "genai", "machine learning", "deep learning"}
AgentKeywords == {"agent", "agentic", "ai agent", "ai assistant", "autonomous agent"}
RAGKeywords == {"rag", "retrieval", "embedding", "vector", "vector database", "semantic search"}
LLMProviderKeywords ==
    {"claude", "chatgpt", "gemini", "openai", "anthropic", "cohere", "mistral", "llama"}
MCPKeywords == {"mcp", "model context protocol", "tool calling", "function calling", "ai workflow"}
FrameworkKeywords ==
    {"langchain", "llamaindex", "autogen", "crewai", "semantic kernel", "langgraph"}
PackagePatterns ==
    {"@modelcontextprotocol/", "langchain", "llamaindex", "openai", "anthropic",
     "google-generativeai"}

\* AIRelevanceEngine.Score
AIScore(p) ==
    LET topics == At(p, "topics") IN
      10 * (HitsInEach(topics, CoreAIKeywords) + HitsInEach(topics, LLMProviderKeywords))
    + 15 * (HitsInEach(topics, AgentKeywords) + HitsInEach(topics, RAGKeywords))
    + 20 * HitsInEach(topics, MCPKeywords)
    + 25 * HitsInEach(topics, FrameworkKeywords)
    + 5 * Hits(At(p, "desc"), CoreAIKeywords)
    + 10 * Hits(At(p, "desc") \cup topics, PackagePatterns)
    + 20 * HitsInEach(At(p, "sources"), CoreAIKeywords)
    + 15 * HitsInEach(At(p, "tools"), CoreAIKeywords)
    + 25 * HitsInEach(At(p, "tools"), AgentKeywords)

-----------------------------------------------------------------------------
(* The coordinator's own scoring. *)

CrawledText(p) == At(p, "name") \cup At(p, "desc") \cup At(p, "url") \cup At(p, "raw")

CrawledTaiwanScore(p) ==
    LET urls == {f \in p : f[1] \in {"url", "endpoints", "origins"}}
        domains == {f \in urls : Folded[f[2]] \cap {".tw", "data.gov.tw", "taiwan", "twse", "taiex"} # {}}
    IN 15 * Hits(CrawledText(p), {"taiwan", "taipei", "taiwanese", "twse", "taiex", "fin", "mof", "data.gov.tw"})
         + 40 * Cardinality(domains)

CrawledAIScore(p) ==
    20 * Hits(CrawledText(p), {"ai", "llm", "gpt", "llama", "rag", "embedding", "generative", "neural",
                               "transformer", "chatbot", "langchain", "llamaindex"})
      + (IF FoundFolded(CrawledText(p), {"taiwan"}) THEN 10 ELSE 0)

ScoreToTaiwanLevel(s) ==
    CASE s >= 70 -> "T5" [] s \in 55..69 -> "T4" [] s \in 40..54 -> "T3"
      [] s \in 20..39 -> "T2" [] s \in 5..19 -> "T1" [] s < 5 -> "T0"

ScoreToAILevel(s) ==
    CASE s >= 70 -> "A5" [] s \in 50..69 -> "A4" [] s \in 30..49 -> "A3"
      [] s \in 15..29 -> "A2" [] s \in 5..14 -> "A1" [] s < 5 -> "A0"
=============================================================================

----------------------------- MODULE Classifier ------------------------------
(***************************************************************************)
(* engines.Classifier: twenty-six classes, tried in the order of Priority, *)
(* behind a guard for data projects, and the language model that is asked  *)
(* when the rules are not sure.                                            *)
(*                                                                         *)
(* e is what an earlier stage has left on the entity: e.ai and e.tw, its   *)
(* two scores, and e.status, its MCP identity status.                      *)
(***************************************************************************)
EXTENDS Signals, Sequences

CONSTANT Models     \* the language models, tried in order

Priority ==
    <<"MCP_SERVER", "MCP_CLIENT", "MCP_HOST", "MCP_SDK", "MCP_LIBRARY", "MCP_EXTENSION",
      "MCP_SKILL", "MCP_COLLECTION", "AI_AGENT", "AI_TOOL", "AI_SDK", "AI_FRAMEWORK", "AI_SKILL",
      "AI_KNOWLEDGE_BASE", "AI_DATASET", "AI_API", "AI_APPLICATION", "AI_INFRASTRUCTURE",
      "AI_PLUGIN", "AI_TUTORIAL", "AI_EXAMPLE", "AI_COLLECTION", "AI_REGISTRY",
      "AI_RELATED_PROJECT", "NON_AI_PROJECT", "UNKNOWN">>
Classes == {Priority[i] : i \in DOMAIN Priority}

RoleOf(class) ==
    CASE class = "MCP_SERVER" -> "SERVER"   [] class = "MCP_CLIENT" -> "CLIENT"
      [] class = "MCP_HOST" -> "HOST"       [] class = "MCP_SDK" -> "SDK"
      [] class = "MCP_LIBRARY" -> "LIBRARY" [] class = "MCP_EXTENSION" -> "EXTENSION"
      [] class = "MCP_SKILL" -> "SKILL"     [] OTHER -> "NONE"
Roles == {RoleOf(c) : c \in Classes}

-----------------------------------------------------------------------------
(* The guard. *)

ClaimsServer(p) ==
    FoundFolded(At(p, "desc"), {"mcp server", "model context protocol server", "fastmcp", "stdio_server"})

DataLibrarySignals ==
    {"data library", "data sdk", "market data", "stock data", "data pipeline", "data feed",
     "data api", "stock api", "twse api", "tpex api"}
DataInfrastructureSignals ==
    {"database schema", "migration system", "etl", "data warehouse", "data pipeline", "data layer",
     "postgres schema", "postgresql schema", "alembic", "flyway", "prisma schema", "knex migrations"}

isDataLibraryDescription(p) ==
    /\ ~ClaimsServer(p)
    /\ \/ FoundFolded(At(p, "desc"), DataLibrarySignals)
       \/ FoundFolded(At(p, "name"), {"twmarket", "twstock", "twdata", "taiwandata", "fugle"})

isDataInfrastructureDescription(p) ==
    /\ ~ClaimsServer(p)
    /\ \/ FoundFolded(At(p, "desc"), DataInfrastructureSignals)
       \/ \E t \in At(p, "topics") :      \* the whole topic, not a part of it
            t \in {"database", "schema", "etl", "postgres", "postgresql", "sqlalchemy"}

-----------------------------------------------------------------------------
(* One operator per rule. *)

ServerIndicators(p) ==
    LET text == SourceText(p) IN
      {i \in {"impl", "stdio", "tools", "entry"} :
         CASE i = "impl"  -> Found(text, {"McpServer", "mcp.Server"})
           [] i = "stdio" -> Found(text, {"StdioServerTransport", "stdio.ServerTransport"})
           [] i = "tools" -> Found(text, {"tools.List", "tool.Definition", "tools.ListChanged"})
           [] i = "entry" -> Found(At(p, "pkgs"), {"bin", "package main"})}

isMCPServer(p, e) == e.status = "RUNTIME_VERIFIED" \/ Cardinality(ServerIndicators(p)) >= 2

isMCPClient(p) == /\ Found(SourceText(p), {"mcp.Client", "McpClient"})
                  /\ ~Found(SourceText(p), {"McpServer", "StdioServerTransport"})
isMCPHost(p) == Found(SourceText(p), {"McpHost", "mcp.Host", "host.Manager", "MultiServer"})
isMCPSDK(p) == \/ Found(At(p, "pkgs"), {"@modelcontextprotocol/sdk", "mcp-sdk", "mcp_sdk"})
               \/ FoundFolded(At(p, "topics"), {"mcp-sdk", "mcp_sdk"})
isMCPLibrary(p) ==
    \/ \E w \in At(p, "pkgs") : "modelcontextprotocol" \in Exact[w] /\ "sdk" \notin Exact[w]
    \/ \E w \in At(p, "topics") : "mcp" \in Folded[w] /\ "sdk" \notin Folded[w]
isMCPExtension(p) == Found(SourceText(p), {"McpExtension", "mcp.Extension", "extension.Plugin"})
isMCPSkill(p) == Found(SourceText(p), {"McpSkill", "mcp.Skill", "skill.Definition"})

CollectionWords == {"awesome", "list", "collection", "registry", "curated", "index", "catalog"}
ManyLinks(p) == Found(At(p, "raw"), {"more than 10 of github.com/"})
isMCPCollection(p) == \/ NameOrDesc(p, CollectionWords)
                      \/ FoundFolded(At(p, "topics"), CollectionWords)
                      \/ ManyLinks(p)

isAIAgent(p) ==
    \/ Found(SourceText(p), {"Agent", "agent.Executor", "autonomous", "planner", "reasoning", "chain-of-thought"})
    \/ FoundFolded(At(p, "tools"), {"agent", "described:autonomous", "described:plan"})
isAITool(p) == \/ Found(SourceText(p), {"tool.Function", "ToolDefinition"})
               \/ Cardinality(At(p, "tools")) \in 1..5
FrameworkNames == {"langchain", "llamaindex", "autogen", "crewai", "semantic-kernel", "langgraph"}
isAISDK(p) == FoundFolded(At(p, "pkgs"), FrameworkNames \cup
                {"openai-sdk", "anthropic-sdk", "google-generativeai", "cohere-sdk"})
isAIFramework(p) == FoundFolded(At(p, "topics") \cup At(p, "pkgs"), FrameworkNames \cup {"haystack"})
isAISkill(p) == /\ Found(SourceText(p), {"Skill"})
                /\ Found(SourceText(p), {"skill.Definition", "Skill("})
isAIKnowledgeBase(p) ==
    FoundFolded(At(p, "topics") \cup At(p, "desc"),
        {"knowledge", "knowledge-base", "vector-db", "vector-database", "embeddings", "rag", "retrieval"})
DatasetSources == {"official_gov_api", "open_data", "official", "community"}
isAIDataset(p) == \/ Found(At(p, "sources"), DatasetSources)
                  \/ FoundFolded(At(p, "topics"), {"dataset", "data", "database", "csv", "parquet", "sql"})
isAIAPI(p, e) == /\ FoundFolded(SourceText(p), {"api", "wrapper", "client", "sdk", "rest", "graphql"})
                 /\ e.ai > 15
isAIApplication(p, e) ==
    /\ NameOrDesc(p, {"app", "application", "web", "ui", "frontend", "dashboard", "chat", "bot"})
    /\ e.ai > 10
isAIInfrastructure(p, e) ==
    /\ FoundFolded(At(p, "topics"), {"infrastructure", "platform", "deploy", "kubernetes", "k8s",
                                     "operator", "orchestration"})
    /\ e.ai > 10
isAIPlugin(p) == /\ FoundFolded(SourceText(p), {"plugin", "extension", "addon", "integration", "hook"})
                 /\ Found(SourceText(p), {"AI"})
isAITutorial(p) ==
    FoundFolded(At(p, "name") \cup At(p, "desc") \cup At(p, "raw"),
        {"tutorial", "guide", "howto", "walkthrough", "example", "learn", "getting-started"})
isAIExample(p) == NameOrDesc(p, {"example", "demo", "sample", "showcase", "starter", "boilerplate"})
isAICollection(p, e) ==
    NameOrDesc(p, {"awesome", "list", "collection", "curated", "resources", "links"}) /\ e.ai > 15
isAIRegistry(p) == NameOrDesc(p, {"registry", "catalog", "index", "directory", "marketplace"})
isAIRelatedProject(e) == e.ai > 5
isNonAIProject(e) == e.ai = 0 /\ e.tw = 0

Fires(class, p, e) ==
    CASE class = "MCP_SERVER" -> isMCPServer(p, e)     [] class = "MCP_CLIENT" -> isMCPClient(p)
      [] class = "MCP_HOST" -> isMCPHost(p)            [] class = "MCP_SDK" -> isMCPSDK(p)
      [] class = "MCP_LIBRARY" -> isMCPLibrary(p)      [] class = "MCP_EXTENSION" -> isMCPExtension(p)
      [] class = "MCP_SKILL" -> isMCPSkill(p)          [] class = "MCP_COLLECTION" -> isMCPCollection(p)
      [] class = "AI_AGENT" -> isAIAgent(p)            [] class = "AI_TOOL" -> isAITool(p)
      [] class = "AI_SDK" -> isAISDK(p)                [] class = "AI_FRAMEWORK" -> isAIFramework(p)
      [] class = "AI_SKILL" -> isAISkill(p)            [] class = "AI_KNOWLEDGE_BASE" -> isAIKnowledgeBase(p)
      [] class = "AI_DATASET" -> isAIDataset(p)        [] class = "AI_API" -> isAIAPI(p, e)
      [] class = "AI_APPLICATION" -> isAIApplication(p, e)
      [] class = "AI_INFRASTRUCTURE" -> isAIInfrastructure(p, e)
      [] class = "AI_PLUGIN" -> isAIPlugin(p)          [] class = "AI_TUTORIAL" -> isAITutorial(p)
      [] class = "AI_EXAMPLE" -> isAIExample(p)        [] class = "AI_COLLECTION" -> isAICollection(p, e)
      [] class = "AI_REGISTRY" -> isAIRegistry(p)      [] class = "AI_RELATED_PROJECT" -> isAIRelatedProject(e)
      [] class = "NON_AI_PROJECT" -> isNonAIProject(e) [] class = "UNKNOWN" -> TRUE

FirstRule(p, e) ==
    Priority[CHOOSE i \in DOMAIN Priority :
               /\ Fires(Priority[i], p, e)
               /\ \A j \in 1..(i - 1) : ~Fires(Priority[j], p, e)]

Guarded(p) == isDataLibraryDescription(p) \/ isDataInfrastructureDescription(p)

BugClientBeforeServer(p, e) ==
    IF ~Guarded(p) /\ isMCPClient(p) THEN "MCP_CLIENT" ELSE
    IF isDataLibraryDescription(p) THEN "AI_DATASET"
    ELSE IF isDataInfrastructureDescription(p) THEN "AI_INFRASTRUCTURE" ELSE FirstRule(p, e)

classifyByRules(p, e) ==
    IF isDataLibraryDescription(p) THEN "AI_DATASET"
    ELSE IF isDataInfrastructureDescription(p) THEN "AI_INFRASTRUCTURE"
    ELSE FirstRule(p, e)

-----------------------------------------------------------------------------
(* The language model. *)

\* buildResult: every piece of evidence counts 0.7 or more and having none 0.1,
\* so the confidence reaches 0.7 just when there is some.  The guard leaves
\* none, and neither does a project no rule knows, unless it had one of the
\* two indicators a server needs.
IsConfident(p, e) ==
    /\ ~Guarded(p)
    /\ FirstRule(p, e) # "UNKNOWN" \/ ServerIndicators(p) # {}

ShouldTriggerLLM(p, e) == ~IsConfident(p, e) \/ (e.tw \in 20..55 /\ e.ai \in 20..55)

\* One answer of callLLM: "error" and "auth" are its errors, "invalid" what
\* fails a validation, and otherwise the class and the role ("" for none).
Failures == {[class |-> x, role |-> ""] : x \in {"error", "auth", "invalid"}}

\* The answer that is taken, if there is one: the first valid one, unless a
\* refused key came before.
Taken(answers) ==
    {i \in DOMAIN answers :
       /\ answers[i].class \in Classes
       /\ \A j \in 1..(i - 1) : answers[j].class \in {"error", "invalid"}}

\* What the rules say.
ByRules(p, e) ==
    LET rule == classifyByRules(p, e)
    IN [class |-> rule, role |-> IF Guarded(p) THEN "NONE" ELSE RoleOf(rule), by |-> "rules"]

BugFailureIsUnknown(kept, answers) ==
    IF Taken(answers) = {} THEN [class |-> "UNKNOWN", role |-> "NONE", by |-> "rules"]
    ELSE LET a == answers[CHOOSE i \in Taken(answers) : TRUE]
         IN [class |-> a.class, role |-> a.role, by |-> "llm"]
ClassifyWithLLM(kept, answers) ==
    IF Taken(answers) = {} THEN kept
    ELSE LET a == answers[CHOOSE i \in Taken(answers) : TRUE]
         IN [class |-> a.class, role |-> IF a.role = "" THEN kept.role ELSE a.role, by |-> "llm"]

\* Classify: what it may return, whatever the models answer.
Classify(p, e, answers) ==
    LET kept == ByRules(p, e)
    IN IF ~ShouldTriggerLLM(p, e) THEN {kept}
       ELSE {ClassifyWithLLM(kept, a) : a \in answers}
=============================================================================

----------------------------- MODULE MCPipeline ------------------------------
(***************************************************************************)
(* Instances of Pipeline for TLC.                                          *)
(*   a1, a2  one repository, its URL spelled in two ways (GenerateID keeps *)
(*           the case, the dedup key does not), from two sources           *)
(*   b1      another repository whose name, hence slug, is that of a1      *)
(*   s1      what the legacy registry says of the repository of a1         *)
(***************************************************************************)
EXTENDS Pipeline

a1 == [canon |-> "A", id |-> "A", slug |-> "x", name |-> 1, trust |-> 2, class |-> "MCP_SERVER",
       taiwan |-> "T3", ep |-> TRUE, readme |-> "risky", young |-> FALSE]
a2 == [a1 EXCEPT !.id = "a", !.trust = 1, !.slug = "y", !.ep = FALSE, !.readme = "plain"]
b1 == [canon |-> "B", id |-> "B", slug |-> "x", name |-> 2, trust |-> 2, class |-> "AI_AGENT",
       taiwan |-> "T1", ep |-> TRUE, readme |-> "plain", young |-> TRUE]
s1 == [a1 EXCEPT !.ep = FALSE, !.readme = "plain"]

MCIds == {"A", "a", "B"}
MCRecords == {a1, a2, b1}
MCPair == {a1, b1}
MCSeeds == {s1}
MCNone == {}
MCOneView == <<"taiwan-mcp-candidates">>
MCVerifiedView == <<"taiwan-mcp">>

\* Bound of the run MCPipeline: exporters run after its last crawl.  What they
\* share with a crawl is the view files, of which IndexAgrees speaks for one
\* writer at a time.
ExportsAfterCrawls == (\E w \in Exporters : gen'[w].on) => pc' = "IDLE" /\ runs' = MaxRuns
MCSpec == Init /\ [][Next /\ ExportsAfterCrawls]_vars /\ WF_vars(CrawlerStep)
=============================================================================

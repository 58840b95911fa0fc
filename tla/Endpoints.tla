------------------------------ MODULE Endpoints ------------------------------
(***************************************************************************)
(* engines.EndpointClassifier: every URL of an entity against four tables  *)
(* of patterns.  A pattern that matches adds its confidence (in percent)   *)
(* to its type, the type with the largest sum wins, and two equal sums are *)
(* settled by the order in which Go walks a map: either of them.           *)
(***************************************************************************)
EXTENDS Signals, Functions

\* Confidence by pattern, through the name of the rule each pattern gets.  The
\* code tells the rules apart by the text of the regular expressions, which
\* gives install.ps1 and get.sh the rule of the install domains, and leaves
\* setup.ps1, /scripts/install and the raw.githubusercontent.com installers
\* with the 50 of a rule without a name.
docPatterns ==
    [docs_subdomain |-> 90, readthedocs |-> 90, gitbook |-> 90, notion_site |-> 90, notion_so |-> 90,
     wiki_path |-> 85, docs_path |-> 85, documentation_path |-> 85, readme_path |-> 85,
     github_readme |-> 85, github_wiki |-> 85, markdown_file |-> 80]
installerPatterns ==
    [install_sh |-> 90, setup_sh |-> 90, bootstrap_sh |-> 90, host_install_sh |-> 90,
     install_ps1 |-> 85, get_sh |-> 85, get_domain |-> 85, install_domain |-> 85,
     curl_pipe |-> 85, wget_pipe |-> 85,
     setup_ps1 |-> 50, raw_github |-> 50, scripts_install |-> 50]
repoPatterns ==
    [github_repo |-> 95, github_tree |-> 95, github_blob |-> 95, gitlab_repo |-> 95, gitlab_tree |-> 95,
     bitbucket_repo |-> 95, github_ssh |-> 95, gitlab_ssh |-> 95, sourceforge |-> 90]

Types == {"DOCUMENTATION_URL", "INSTALLER_URL", "REPOSITORY_URL", "HOMEPAGE_URL", "MCP_RUNTIME_ENDPOINT", "UNKNOWN"}

\* isPotentialMCPRuntimeEndpoint.  Two more patterns of the code have capitals
\* and are looked for in a text in lower case.
RuntimePatterns == {"localhost:", "127.0.0.1:", "0.0.0.0:", "unix://", "stdio", "streamable-http", "sse",
                    "mcp server", "mcpserver", "newmcp", "transport"}
isPotentialMCPRuntimeEndpoint(p, u) ==
    /\ FoundFolded(At(p, "raw"), RuntimePatterns)
    /\ Exact[u] \cap {"local address", "stdio:", "api path"} # {}

Weight(u, table) == FoldFunctionOnSet(+, 0, table, DOMAIN table \cap Exact[u])

BugStaticMatchIsCertain(p, u) ==
    [DOCUMENTATION_URL |-> Weight(u, docPatterns),
     INSTALLER_URL |-> Weight(u, installerPatterns),
     REPOSITORY_URL |-> Weight(u, repoPatterns),
     HOMEPAGE_URL |-> IF u \in At(p, "homepage") THEN 90 ELSE 0,
     MCP_RUNTIME_ENDPOINT |-> IF isPotentialMCPRuntimeEndpoint(p, u) THEN 100 ELSE 0]

\* Sum of confidences for each type.
Confidences(p, u) ==
    [DOCUMENTATION_URL |-> Weight(u, docPatterns),
     INSTALLER_URL |-> Weight(u, installerPatterns),
     REPOSITORY_URL |-> Weight(u, repoPatterns),
     HOMEPAGE_URL |-> IF u \in At(p, "homepage") THEN 90 ELSE 0,
     MCP_RUNTIME_ENDPOINT |-> IF isPotentialMCPRuntimeEndpoint(p, u) THEN 40 ELSE 0]

\* The answers classifySingleURL may give.
classifySingleURL(p, u) ==
    LET sum == Confidences(p, u)
        best == {t \in DOMAIN sum : sum[t] > 0 /\ \A s \in DOMAIN sum : sum[s] <= sum[t]}
    IN IF best = {} THEN {[url |-> u, type |-> "UNKNOWN", confidence |-> 10]}
       ELSE {[url |-> u, type |-> t, confidence |-> IF sum[t] > 100 THEN 100 ELSE sum[t]] : t \in best}

\* Endpoints, repository and homepage, and the URLs of the README, once each.
URLs(p) == At(p, "endpoints") \cup At(p, "url") \cup At(p, "homepage")
             \cup {w \in At(p, "raw") : "a URL" \in Exact[w]}

\* ClassifyEndpoints.  After a handshake that passed, the first of the runtime
\* endpoints is certain; when there is none, the entity's first endpoint is
\* listed a second time as one.
ClassifyEndpoints(p, passed) ==
    LET typings == {f \in [URLs(p) -> UNION {classifySingleURL(p, u) : u \in URLs(p)}] :
                      \A u \in URLs(p) : f[u] \in classifySingleURL(p, u)}
        Certain(u) == [url |-> u, type |-> "MCP_RUNTIME_ENDPOINT", confidence |-> 100]
        Runtime(f) == {u \in URLs(p) : f[u].type = "MCP_RUNTIME_ENDPOINT"}
    IN UNION {LET all == {f[u] : u \in URLs(p)} IN
                IF ~passed THEN {all}
                ELSE IF Runtime(f) # {}
                THEN {(all \ {f[u]}) \cup {Certain(u)} : u \in Runtime(f)}
                ELSE IF At(p, "endpoints") = {} THEN {all}
                ELSE {all \cup {Certain(u)} : u \in At(p, "endpoints")} :
              f \in typings}

GetMCPRuntimeEndpoints(endpoints) ==
    {ep \in endpoints : ep.type = "MCP_RUNTIME_ENDPOINT" /\ ep.confidence > 50}
=============================================================================

------------------------------ MODULE Identity -------------------------------
(***************************************************************************)
(* engines.MCPIdentityEngine (cmd/migrate) and the pipeline coordinator's  *)
(* shorter rule: what an entity is in the world of MCP, and how sure that  *)
(* is.                                                                     *)
(***************************************************************************)
EXTENDS Signals

checkMCPServerImpl(p) ==
    Found(SourceText(p), {"McpServer", "mcp.Server", "server.McpServer", "NewMcpServer"})
checkTransport(p) ==
    \/ Found(SourceText(p), {"StdioServerTransport", "stdio.ServerTransport", "SSEServerTransport",
                             "sse.ServerTransport", "StreamableHTTPServerTransport",
                             "streamablehttp.ServerTransport"})
    \/ RuntimeEndpoints(p) # {}
checkToolDefinitions(p) ==
    \/ Found(SourceText(p), {"tools.List", "tool.Definition", "tools.ListChanged", "mcp.Tool", "server.Tool"})
    \/ At(p, "tools") # {}
\* A word of "pkgs" is a file with its name: the Python and Rust patterns
\* count only in setup.py, pyproject.toml and Cargo.toml.
checkExecutableEntry(p) ==
    \E w \in At(p, "pkgs") :
      \/ Exact[w] \cap {"bin", "package main"} # {}
      \/ Exact[w] \cap {"setup.py", "pyproject.toml"} # {} /\ Exact[w] \cap {"entry_points", "console_scripts"} # {}
      \/ "Cargo.toml" \in Exact[w] /\ Exact[w] \cap {"[[bin]]", "crate-type"} # {}
checkMCPDependency(p) ==
    \/ Found(At(p, "pkgs"), {"modelcontextprotocol"})
    \/ FoundFolded(At(p, "topics"), {"mcp"})
    \/ Found(SourceText(p), {"mcp", "modelcontextprotocol/go-sdk/mcp", "@modelcontextprotocol/sdk"})
checkClientImpl(p) ==
    Found(SourceText(p), {"mcp.Client", "McpClient", "client.Initialize", "ClientTransport"})
checkHostImpl(p) ==
    \/ Found(SourceText(p), {"McpHost", "mcp.Host", "host.Manager", "MultiServer"})
    \/ /\ Found(SourceText(p), {"type Host struct"})
       /\ Found(SourceText(p), {"clients []*mcp.Client", "AddServer", "StartAll"})
checkSDKPackage(p) ==
    \/ Found(At(p, "pkgs"), {"@modelcontextprotocol/sdk", "mcp-sdk", "mcp_sdk"})
    \/ FoundFolded(At(p, "topics"), {"mcp-sdk", "mcp_sdk", "sdk"})
checkLibraryOnly(p) ==
    /\ ~FoundFolded(At(p, "topics"), {"sdk"})
    /\ \/ \E w \in At(p, "pkgs") : "modelcontextprotocol" \in Exact[w] /\ "sdk" \notin Exact[w]
       \/ FoundFolded(At(p, "topics"), {"mcp"})
checkExtension(p) ==
    Found(SourceText(p), {"McpExtension", "mcp.Extension", "extension.Plugin", "CustomTransport", "BaseTransport"})
checkSkill(p) == Found(SourceText(p), {"McpSkill", "mcp.Skill", "skill.Definition", "type Skill struct"})

checkTutorialOrExample(p) ==
    FoundFolded(At(p, "name") \cup At(p, "desc") \cup At(p, "raw"),
        {"tutorial", "guide", "howto", "walkthrough", "example", "demo", "sample", "showcase",
         "starter", "boilerplate", "learn", "getting-started"})
checkCollectionOrRegistry(p) ==
    \/ NameOrDesc(p, {"awesome", "list", "collection", "registry", "curated", "index", "catalog"})
    \/ Found(At(p, "raw"), {"more than 10 of github.com/"})

IsServer(p) == /\ checkTransport(p)
               /\ checkToolDefinitions(p) \/ checkExecutableEntry(p)
               /\ checkMCPServerImpl(p)

\* The role the code arrives at, in the order it tries them.
MCPRole(p) ==
    CASE checkTutorialOrExample(p) \/ checkCollectionOrRegistry(p) -> "NONE"
      [] OTHER ->
         IF IsServer(p) THEN "SERVER" ELSE IF checkHostImpl(p) THEN "HOST"
         ELSE IF checkClientImpl(p) THEN "CLIENT" ELSE IF checkSDKPackage(p) THEN "SDK"
         ELSE IF checkExtension(p) THEN "EXTENSION" ELSE IF checkSkill(p) THEN "SKILL"
         ELSE IF checkLibraryOnly(p) THEN "LIBRARY" ELSE "NONE"

determineStatus(p) ==
    IF checkTutorialOrExample(p) \/ checkCollectionOrRegistry(p) THEN "NOT_MCP"
    ELSE IF MCPRole(p) # "NONE" THEN "STATIC_VERIFIED"
    ELSE IF checkMCPDependency(p) THEN "CANDIDATE" ELSE "NOT_MCP"

determineSecondaryRoles(p) ==
      (IF checkSDKPackage(p) THEN {"SDK"} ELSE {})
      \cup (IF checkExtension(p) THEN {"EXTENSION"} ELSE {})
      \cup (IF checkSkill(p) THEN {"SKILL"} ELSE {})
      \cup (IF checkLibraryOnly(p) THEN {"LIBRARY"} ELSE {})
      \cup (IF checkClientImpl(p) THEN {"CLIENT"} ELSE {})
      \cup (IF checkHostImpl(p) THEN {"HOST"} ELSE {})
      \cup (IF IsServer(p) THEN {"SERVER"} ELSE {})

DetectMCPIdentity(p) ==
    [status |-> determineStatus(p), role |-> MCPRole(p), secondary |-> determineSecondaryRoles(p)]

\* runMCPIdentity: the class decides.
IdentityOfClass(class) == IF class = "MCP_SERVER" THEN "STATIC_VERIFIED" ELSE "NOT_MCP"
=============================================================================

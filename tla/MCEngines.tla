------------------------------ MODULE MCEngines ------------------------------
(* Fourteen facts, one or two for each part of the engines. *)
EXTENDS Evaluation, TLC

F(place, word, exact, folded) == [fact |-> <<place, word>>, exact |-> exact, folded |-> folded]

Table ==
    {F("desc", "mcp.Server", {"mcp.Server", "mcp"}, {"mcp"}),
     F("desc", "StdioServerTransport", {"StdioServerTransport"}, {"stdio", "transport"}),
     F("pkgs", "package.json with a bin", {"bin", "modelcontextprotocol"}, {}),
     F("raw", "mcp.Client", {"mcp.Client", "mcp"}, {"mcp", "client"}),
     F("topics", "mcp-sdk", {"mcp-sdk", "mcp", "sdk"}, {"mcp-sdk", "mcp", "sdk"}),
     F("name", "awesome-list", {"list"}, {"awesome", "list"}),
     F("desc", "a stock data feed", {"stock data"}, {"stock data", "data", "data feed"}),
     F("desc", "a llama in Taipei, Taiwan", {}, {"llama", "taipei", "taiwan", "ai"}),
     F("raw", "curl pipe sh", {"remote_binary", "shell_injection", "curl_pipe_bash"}, {}),
     F("raw", "localhost:3000", {}, {"localhost:", "local"}),
     F("endpoints", "http://localhost/", {"http://", "http", "local address"}, {"localhost", "local"}),
     F("endpoints", "https://docs.a.io/api", {"https://", "sse", "docs_subdomain", "api path"}, {}),
     F("homepage", "https://docs.a.io", {"docs_subdomain"}, {}),
     F("tools", "quote", {"named and described", "input schema", "persistence"}, {"described:plan"})}

MCWords == {x.fact[2] : x \in Table}
MCFeatures == {x.fact : x \in Table}
MCExact == [w \in MCWords |-> UNION {x.exact : x \in {y \in Table : y.fact[2] = w}}]
MCFolded == [w \in MCWords |-> UNION {x.folded : x \in {y \in Table : y.fact[2] = w}}]

MCAnswers ==
    {[class |-> "auth", role |-> ""], [class |-> "invalid", role |-> ""],
     [class |-> "MCP_SERVER", role |-> "SERVER"],
     [class |-> "AI_TOOL", role |-> ""]}
=============================================================================

------------------------------- MODULE Signals -------------------------------
(***************************************************************************)
(* What the engines of internal/engines see of an entity.  All of them are *)
(* keyword and pattern rules over its texts, so an entity is the set of    *)
(* pairs <<place, word>>: in that place there is that word.  A word of     *)
(* "pkgs" is a package file, of "topics" a topic, of "origins" the URL of  *)
(* a source that named it, of "tools", "resources", "endpoints" and        *)
(* "sources" one tool, resource, endpoint or data source, and of "facts" a *)
(* number of the repository on one side of a threshold.  The patterns of   *)
(* the scanner are those of a tool's or a resource's description.          *)
(*                                                                         *)
(* The lists of keywords and patterns are the code's.  Which of them a     *)
(* word contains, as it is spelled and in lower case, is a constant, so a  *)
(* word can contain keywords nobody thought of ("taiwan" contains "ai").   *)
(***************************************************************************)
EXTENDS Naturals, FiniteSets

Places == {"name", "slug", "desc", "raw", "pkgs", "topics", "language", "url", "homepage",
           "origins", "tools", "resources", "endpoints", "sources", "facts"}

CONSTANTS
    Words,
    Exact,      \* Words -> the keywords a word contains as it is spelled
    Folded      \* Words -> the keywords it contains in lower case

At(p, place) == {f[2] : f \in {g \in p : g[1] = place}}

Found(text, kws) == \E w \in text : Exact[w] \cap kws # {}
FoundFolded(text, kws) == \E w \in text : Folded[w] \cap kws # {}

\* Keywords of kws found in a text, each counted once, and, for a place with
\* several texts, in each of them.
Hits(text, kws) == Cardinality({k \in kws : FoundFolded(text, {k})})
HitsInEach(texts, kws) == Cardinality({x \in texts \X kws : x[2] \in Folded[x[1]]})

\* getSourceCodeText
SourceText(p) == At(p, "desc") \cup At(p, "raw") \cup At(p, "pkgs")

\* The endpoints that arrive with the type MCP_RUNTIME_ENDPOINT.
RuntimeEndpoints(p) == {w \in At(p, "endpoints") : "MCP_RUNTIME_ENDPOINT" \in Exact[w]}

NameOrDesc(p, kws) == FoundFolded(At(p, "name") \cup At(p, "desc"), kws)
=============================================================================

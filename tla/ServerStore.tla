----------------------------- MODULE ServerStore -----------------------------
(***************************************************************************)
(* The v1 tables of internal/storage/store.go and SaveServer, which writes *)
(* one server with a statement for its row, one for each of its parts and  *)
(* source references, for its history and for its snapshot, in this order  *)
(* and in no transaction.                                                  *)
(*                                                                         *)
(* A server is a record with the fields                                    *)
(*   id, slug    dedupe.ServerID and the slug, both unique in the table    *)
(*   parts       repository, endpoints, tools, resources, prompts and data *)
(*               sources: six tables that differ only in their columns,    *)
(*               each keyed by the server and a name                       *)
(*   refs        source references: (source, url) pairs                    *)
(*   check       what the verification stage made of it                    *)
(***************************************************************************)
EXTENDS Naturals, Sequences, FiniteSets

CONSTANTS ServerIds, Parts, Refs, NoServer

ASSUME StoreAssumption == IsFiniteSet(Parts) /\ IsFiniteSet(Refs)

VARIABLE v1     \* the tables

\* No statement is prepared for a server that is not there: 0 is no crawl.
EmptyTables ==
    [servers |-> [i \in ServerIds |-> NoServer],     \* mcp_servers
     parts |-> [i \in ServerIds |-> [p \in Parts |-> 0]],    \* crawl that wrote the part
     sources |-> [r \in Refs |-> 0],                 \* rows of sources for one reference
     links |-> [i \in ServerIds |-> {}],             \* server_sources: <<reference, row>>
     snapshots |-> {}]                               \* server_snapshots

\* The members of S in some order.
Listed(S) ==
    CHOOSE q \in [1..Cardinality(S) -> S] : \A j, k \in DOMAIN q : q[j] = q[k] => j = k

Each(table, S) == [k \in 1..Cardinality(S) |-> [table |-> table, key |-> Listed(S)[k]]]

\* upsertSourceAndLink: the insertion of a source, then its link.
SourceStatements(S) ==
    [k \in 1..(2 * Cardinality(S)) |->
        [table |-> IF k % 2 = 1 THEN "sources" ELSE "server_sources",
         key |-> Listed(S)[(k + 1) \div 2]]]

One(table) == <<[table |-> table, key |-> table]>>

BugSnapshotFirst(s) ==
    One("mcp_servers") \o One("server_snapshots") \o Each("parts", s.parts)
      \o SourceStatements(s.refs) \o One("history")
BugRowLast(s) ==
    Each("parts", s.parts) \o SourceStatements(s.refs) \o One("mcp_servers") \o One("history")
      \o One("server_snapshots")
\* UpsertServer, then InsertServerSnapshot.
SaveStatements(s) ==
    One("mcp_servers") \o Each("parts", s.parts) \o SourceStatements(s.refs)
      \o One("history") \o One("server_snapshots")

\* The UNIQUE constraint of mcp_servers.slug.
SlugFree(s, t) ==
    \A i \in ServerIds : t.servers[i] # NoServer /\ t.servers[i].slug = s.slug => i = s.id

\* One statement of SaveServer(s) in crawl c on the tables t.  Parts that s no
\* longer has are not deleted; a source is inserted whether it is there or not.
ExecStatement(st, s, c, t) ==
    CASE st.table = "mcp_servers" -> [t EXCEPT !.servers[s.id] =
                                        [slug |-> s.slug, check |-> s.check, crawl |-> c]]
      [] st.table = "parts" -> [t EXCEPT !.parts[s.id][st.key] = c]
      [] st.table = "sources" -> [t EXCEPT !.sources[st.key] = @ + 1]
      [] st.table = "server_sources" -> [t EXCEPT !.links[s.id] = @ \cup {<<st.key, t.sources[st.key]>>}]
      [] st.table = "history" -> t      \* findings, health and quality: rows nobody reads back
      [] st.table = "server_snapshots" ->
           [t EXCEPT !.snapshots = @ \cup {[id |-> s.id, crawl |-> c, parts |-> s.parts, refs |-> s.refs]}]

Checks == {"none", "real", "cut"}
StoredRow(slugs) == [slug : slugs, check : Checks, crawl : Nat]
Snapshot == [id : ServerIds, crawl : Nat, parts : SUBSET Parts, refs : SUBSET Refs]

TablesType(slugs) ==
    v1 \in [servers : [ServerIds -> StoredRow(slugs) \cup {NoServer}],
           parts : [ServerIds -> [Parts -> Nat]],
           sources : [Refs -> Nat],
           links : [ServerIds -> SUBSET (Refs \X Nat)],
           snapshots : SUBSET Snapshot]
=============================================================================

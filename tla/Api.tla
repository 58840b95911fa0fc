--------------------------------- MODULE Api ---------------------------------
(***************************************************************************)
(* api.Server and the listing of EntityStore: a client walks the pages of  *)
(* a listing behind the rate limiter while other requests of its address   *)
(* use up its quota and a crawl writes the same table.                     *)
(*                                                                         *)
(* A page is answered from two statements, the SELECT of the rows and the  *)
(* COUNT of all of them, and nothing ties the pages of a walk to one state *)
(* of the table.  The walk is what web/src does: it asks for the next page *)
(* until total_pages.                                                      *)
(***************************************************************************)
EXTENDS RateLimiter

CONSTANTS
    Ids,            \* ids of entities: numbers, "ORDER BY ... id ASC"
    Rows,           \* what a row can hold: [taiwan, view : BOOLEAN, quality : Nat]
    AskedLimits,    \* ?limit= of the client
    DefaultLimit,   \* 50
    MaxLimit,       \* 200
    client          \* the address (ip) of the walker

ASSUME ApiAssumption ==
    /\ \E c \in Connections : c.ip = client
    /\ Ids \subseteq Nat /\ IsFiniteSet(Ids)
    /\ AskedLimits \subseteq Int
    /\ DefaultLimit \in Nat \ {0} /\ MaxLimit \in Nat \ {0}
    /\ \A r \in Rows : r.quality \in Nat

Absent == [taiwan |-> FALSE, view |-> FALSE, quality |-> -1]
Endpoints == {"entities", "entities?all=true", "servers"}

VARIABLES
    table,  \* id -> row
    walk    \* the walker: what it asked, what it was answered

vars == <<limiterVars, table, walk>>

Unseen == [i \in Ids |-> 0]
Idle == [at |-> "idle", endpoint |-> "none", limit |-> 0, page |-> 0,
         list |-> {}, seen |-> Unseen, quiet |-> FALSE]

TypeOK ==
    /\ LimiterTypeOK
    /\ table \in [Ids -> Rows \cup {Absent}]
    /\ walk.at \in {"idle", "asks", "in", "listed", "done"}
    /\ walk.endpoint \in Endpoints \cup {"none"}
    /\ walk.page \in Nat
    /\ walk.seen \in [Ids -> 0..2]

Init ==
    /\ LimiterInit
    /\ table \in [Ids -> Rows \cup {Absent}]
    /\ walk = Idle

-----------------------------------------------------------------------------
(* The store *)

present == {i \in Ids : table[i] # Absent}

\* EntityFilter of the handlers: MinTaiwanLevel is T1 or not there.
floor(endpoint) == endpoint = "entities"

\* ORDER BY quality_score DESC, id ASC
Before(i, j) ==
    \/ table[i].quality > table[j].quality
    \/ table[i].quality = table[j].quality /\ i < j

AboveFloor(endpoint) == {i \in present : floor(endpoint) => table[i].taiwan}

\* The place of a row in that order.
Position(endpoint, i) == Cardinality({j \in AboveFloor(endpoint) : j = i \/ Before(j, i)})

\* List: the rows above the floor, LIMIT limit OFFSET (page - 1) * limit.
List(endpoint, limit, page) ==
    LET offset == (page - 1) * limit
    IN  {i \in AboveFloor(endpoint) : Position(endpoint, i) \in (offset + 1)..(offset + limit)}

\* Count has no clause for MinTaiwanLevel: it counts the rows below the floor
\* too, so that the last pages of /entities may be empty.
Count == Cardinality(present)

-----------------------------------------------------------------------------
(* The handlers *)

\* parsePagination
PageOf(asked) == IF asked < 1 THEN 1 ELSE asked
LimitOf(asked) == CASE asked < 1 -> DefaultLimit
                    [] asked > MaxLimit -> MaxLimit
                    [] OTHER -> asked

\* makePagination: the ceiling, and one page at least.
\* BUG: the integer division of total by limit.
BugFloorOfPages(limit, total) == IF total \div limit < 1 THEN 1 ELSE total \div limit

TotalPages(limit, total) ==
    LET ceiling == (total + limit - 1) \div limit
    IN  IF ceiling < 1 THEN 1 ELSE ceiling

\* handleServers answers with the rows that make an MCPServerView
\* (entitiesToViews): of a page's rows it may leave none.
Answered(endpoint, list) ==
    {i \in list : endpoint = "servers" => table[i].view}

\* A client starts to walk; page=0 and no page are page one.
Ask(endpoint, limit, page) ==
    /\ walk.at \in {"idle", "done"}
    /\ walk' = [Idle EXCEPT !.at = "asks", !.endpoint = endpoint,
                            !.limit = LimitOf(limit), !.page = PageOf(page), !.quiet = TRUE]
    /\ UNCHANGED <<limiterVars, table>>

\* Middleware: the request, on any connection of the client, is served or the
\* client asks again later.
Request ==
    /\ walk.at = "asks"
    /\ \E a \in keysOf(client) : Allow(a)
    /\ walk' = [walk EXCEPT !.at = "in"]
    /\ UNCHANGED table

TooMany ==
    /\ walk.at = "asks"
    /\ \E a \in keysOf(client) : Refuse(a)
    /\ UNCHANGED <<table, walk>>

ListRows ==
    /\ walk.at = "in"
    /\ walk' = [walk EXCEPT !.at = "listed",
                            !.list = Answered(walk.endpoint,
                                              List(walk.endpoint, walk.limit, walk.page))]
    /\ UNCHANGED <<limiterVars, table>>

\* Count, the answer, and the client's next step.
CountRows ==
    /\ walk.at = "listed"
    /\ walk' = [walk EXCEPT
                  !.seen = [i \in Ids |-> IF walk.quiet /\ i \in walk.list /\ @[i] < 2
                                          THEN @[i] + 1 ELSE @[i]],
                  !.list = {},
                  !.at = IF walk.page >= TotalPages(walk.limit, Count) THEN "done" ELSE "asks",
                  !.page = @ + 1]
    /\ UNCHANGED <<limiterVars, table>>

\* Either statement fails, or its timeout passes: 500, and the client gives up.
QueryFails ==
    /\ walk.at \in {"in", "listed"}
    /\ walk' = Idle
    /\ UNCHANGED <<limiterVars, table>>

-----------------------------------------------------------------------------
(* Everybody else *)

\* A crawl saves an entity.  "quiet" and "seen" are the specification's: a
\* walk during which the table changed is promised nothing.
Save(i, row) ==
    /\ table' = [table EXCEPT ![i] = row]
    /\ table' # table
    /\ walk' = IF walk.at \in {"idle", "done"} THEN Idle
               ELSE [walk EXCEPT !.quiet = FALSE, !.seen = Unseen]
    /\ UNCHANGED limiterVars

\* Another request, on any connection.
Other(c) ==
    /\ Allow(clientIP(c))
    /\ UNCHANGED <<table, walk>>

Tick ==
    /\ LimiterTick
    /\ UNCHANGED <<table, walk>>

CleanupVisitors ==
    /\ Cleanup
    /\ UNCHANGED <<table, walk>>

Next ==
    \/ \E e \in Endpoints, l \in AskedLimits, p \in {0, 1} : Ask(e, l, p)
    \/ Request
    \/ TooMany
    \/ ListRows
    \/ CountRows
    \/ QueryFails
    \/ \E i \in Ids, r \in Rows : Save(i, r)
    \/ \E c \in Connections : Other(c)
    \/ Tick
    \/ CleanupVisitors

Spec == Init /\ [][Next]_vars

-----------------------------------------------------------------------------
Promised(i) ==
    /\ table[i] # Absent
    /\ walk.endpoint = "entities" => table[i].taiwan
    /\ walk.endpoint = "servers" => table[i].view

\* A walk over all pages during which no crawl wrote has shown every row the
\* endpoint promises once and no other: the pages neither overlap nor leave a
\* gap, whatever the limit asked for, however often the limiter sent the
\* client away, and although the filter of /servers is applied after the page
\* was cut and the total of /entities counts rows it never shows
\* (server.go:161-252, 573-588).
WalkSeesAll ==
    (walk.at = "done" /\ walk.quiet) =>
        \A i \in Ids : walk.seen[i] = IF Promised(i) THEN 1 ELSE 0
=============================================================================

----------------------------- MODULE EntityStore -----------------------------
(***************************************************************************)
(* The v2 "entities" table (internal/storage/schema_v2.sql) and the upsert *)
(* of EntityStore.Save (internal/storage/entity_store.go).                 *)
(*                                                                         *)
(* A row is the entity record last saved under that id; NoRow is the       *)
(* missing row.  An entity names the source record it was built from in    *)
(* its field src, which carries the id and the slug.                       *)
(***************************************************************************)
EXTENDS Naturals

CONSTANTS Ids,      \* primary keys
          NoRow     \* the missing row

VARIABLE db         \* [Ids -> entity or NoRow]

HasRow(tbl, i) == tbl[i] # NoRow

Rows(tbl) == {tbl[i] : i \in {j \in Ids : HasRow(tbl, j)}}

\* The UNIQUE constraint on slug, which ON CONFLICT(id) does not resolve: it
\* makes the statement fail when a row with another id owns the slug.
SlugFree(tbl, e) ==
    \A i \in Ids \ {e.src.id} : HasRow(tbl, i) => tbl[i].src.slug # e.src.slug

\* A plausible mistake: first_seen is overwritten too.
BugUpsertResetsFirstSeen(tbl, e) == [tbl EXCEPT ![e.src.id] = e]

\* INSERT ... ON CONFLICT(id) DO UPDATE: every column but first_seen (and
\* created_at) is overwritten.
Upsert(tbl, e) ==
    [tbl EXCEPT ![e.src.id] =
        IF HasRow(tbl, e.src.id) THEN [e EXCEPT !.firstSeen = tbl[e.src.id].firstSeen]
                                 ELSE e]

\* One successful Save.
Save(e) == SlugFree(db, e) /\ db' = Upsert(db, e)
=============================================================================

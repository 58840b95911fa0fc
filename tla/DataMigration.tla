---------------------------- MODULE DataMigration ----------------------------
(***************************************************************************)
(* EntityStore.MigrateV1ToV2 (internal/storage/migration.go): it copies    *)
(* the rows of mcp_servers to entities and logs what became of each, in    *)
(* one transaction, and only into a table of entities that was empty when  *)
(* it looked.                                                              *)
(*                                                                         *)
(* The transaction is deferred: it has no lock until its first statement   *)
(* that writes.  The connections have no busy timeout, so a statement that *)
(* finds the write lock taken by another connection fails at once, and the *)
(* migration goes on with the next one.  Beside it a crawl saves entities, *)
(* a crawl of the former program adds rows to mcp_servers, and another     *)
(* process migrates too.                                                   *)
(***************************************************************************)
EXTENDS Naturals, Sequences, FiniteSets

CONSTANTS
    Procs,      \* processes that migrate
    Ids, Slugs, \* of rows and entities
    NoRow,
    free, crawl \* holders of the write lock that are no process of Procs

Row == [id : Ids, slug : Slugs]
\* A row of entities; "from" is the specification's: who inserted it.
Entity == [slug : Slugs, from : {"v1", "crawl"}]
Record == [old : Ids, status : {"SUCCESS", "FAILED"}, by : Procs]

ASSUME MigrationAssumption ==
    /\ free \notin Procs /\ crawl \notin Procs /\ free # crawl
    /\ NoRow \notin Entity

VARIABLES
    servers,    \* mcp_servers, in the order of its rows
    backup,     \* mcp_servers_v1_backup, NoRow when it was never made
    entities,   \* entities, committed
    log,        \* migration_log, committed
    lock,       \* who holds the write lock
    saving,     \* what the crawl that holds it writes
    pc, read, done,     \* of each process: where it is, v1Rows, how many are behind it
    saved,      \* of each process: whether the row at hand was saved
    tx          \* the tables as the transaction that holds the lock sees them

tables == <<servers, backup, entities, log>>
locals == <<pc, read, done, saved>>
vars == <<tables, lock, saving, locals, tx>>

Running == {"count", "read", "backup", "save", "record", "commit"}
NoTx == [entities |-> [i \in Ids |-> NoRow], log |-> {}]

TypeOK ==
    /\ servers \in Seq(Row)
    /\ backup \in Seq(Row) \cup {NoRow}
    /\ entities \in [Ids -> Entity \cup {NoRow}]
    /\ log \subseteq Record
    /\ lock \in Procs \cup {free, crawl}
    /\ saving \in Row \cup {NoRow}
    /\ pc \in [Procs -> Running \cup {"idle"}]
    /\ read \in [Procs -> Seq(Row)]
    /\ done \in [Procs -> Nat]
    /\ saved \in [Procs -> BOOLEAN]
    /\ tx \in [entities : [Ids -> Entity \cup {NoRow}], log : SUBSET Record]

Init ==
    /\ servers = <<>> /\ backup = NoRow
    /\ entities = [i \in Ids |-> NoRow]
    /\ log = {}
    /\ lock = free /\ saving = NoRow
    /\ pc = [p \in Procs |-> "idle"]
    /\ read = [p \in Procs |-> <<>>]
    /\ done = [p \in Procs |-> 0]
    /\ saved = [p \in Procs |-> FALSE]
    /\ tx = NoTx

-----------------------------------------------------------------------------
(* Locks and the unique columns *)

CanWrite(p) == lock \in {free, p}

\* What p's transaction sees when it takes, or has, the lock.
View(p) == IF lock = p THEN tx ELSE [entities |-> entities, log |-> log]

SlugFree(table, i, slug) == \A j \in Ids \ {i} : table[j] # NoRow => table[j].slug # slug

\* INSERT ... ON CONFLICT(id) DO UPDATE
Upsert(table, r, from) ==
    [table EXCEPT ![r.id] = [slug |-> r.slug, from |-> IF @ = NoRow THEN from ELSE @.from]]

-----------------------------------------------------------------------------
(* MigrateV1ToV2 *)

at(p, label) == pc[p] = label
Goto(p, label) == pc' = [pc EXCEPT ![p] = label]
row(p) == read[p][done[p] + 1]

\* MigrateV1ToV2 returns, or its process ends.
Return(p) ==
    /\ Goto(p, "idle")
    /\ read' = [read EXCEPT ![p] = <<>>]
    /\ done' = [done EXCEPT ![p] = 0]
    /\ saved' = [saved EXCEPT ![p] = FALSE]

\* ApplySchemaV2 and the look for mcp_servers, which every database of the
\* program has.
Start(p) ==
    /\ at(p, "idle")
    /\ Goto(p, "count")
    /\ UNCHANGED <<tables, lock, saving, read, done, saved, tx>>

CountEntities(p) ==
    /\ at(p, "count")
    /\ IF \E i \in Ids : entities[i] # NoRow
       THEN Return(p) ELSE Goto(p, "read") /\ UNCHANGED <<read, done, saved>>
    /\ UNCHANGED <<tables, lock, saving, tx>>

ReadServers(p) ==
    /\ at(p, "read")
    /\ Goto(p, "backup")
    /\ read' = [read EXCEPT ![p] = servers]
    /\ done' = [done EXCEPT ![p] = 0]
    /\ UNCHANGED <<tables, lock, saving, saved, tx>>

\* CREATE TABLE IF NOT EXISTS ... AS SELECT, whose error is dropped.
Backup(p) ==
    /\ at(p, "backup")
    /\ Goto(p, IF read[p] = <<>> THEN "commit" ELSE "save")
    /\ backup' = IF CanWrite(p) /\ backup = NoRow THEN servers ELSE backup
    /\ UNCHANGED <<servers, entities, log, lock, saving, read, done, saved, tx>>

\* saveEntity: fails for the lock or for the slug of another entity.
SaveRow(p) ==
    /\ at(p, "save")
    /\ Goto(p, "record")
    /\ IF CanWrite(p)
       THEN LET view == View(p)
                fits == SlugFree(view.entities, row(p).id, row(p).slug)
            IN  /\ lock' = p
                /\ saved' = [saved EXCEPT ![p] = fits]
                /\ tx' = IF fits THEN [view EXCEPT !.entities = Upsert(@, row(p), "v1")]
                                 ELSE view
       ELSE /\ saved' = [saved EXCEPT ![p] = FALSE]
            /\ UNCHANGED <<lock, tx>>
    /\ UNCHANGED <<tables, saving, read, done>>

\* recordMigration, whose error is dropped: nothing is logged for a row whose
\* record finds the lock taken.
\* BUG: the error of the save is not looked at.
BugRecordsSuccess(p) == [old |-> row(p).id, status |-> "SUCCESS", by |-> p]
RecordOf(p) == [old |-> row(p).id, status |-> IF saved[p] THEN "SUCCESS" ELSE "FAILED", by |-> p]

RecordRow(p) ==
    /\ at(p, "record")
    /\ IF CanWrite(p)
       THEN /\ lock' = p
            /\ tx' = [View(p) EXCEPT !.log = @ \cup {RecordOf(p)}]
       ELSE UNCHANGED <<lock, tx>>
    /\ done' = [done EXCEPT ![p] = @ + 1]
    /\ Goto(p, IF done[p] + 1 = Len(read[p]) THEN "commit" ELSE "save")
    /\ UNCHANGED <<tables, saving, read, saved>>

\* The commit of a transaction that never got the lock changes nothing.
Commit(p) ==
    /\ at(p, "commit")
    /\ Return(p)
    /\ IF lock = p
       THEN entities' = tx.entities /\ log' = tx.log /\ lock' = free /\ tx' = NoTx
       ELSE UNCHANGED <<entities, log, lock, tx>>
    /\ UNCHANGED <<servers, backup, saving>>

\* An error is returned, the context is cancelled or the process is killed:
\* the transaction is rolled back.
\* BUG: there is no transaction to roll back.
BugNothingRolledBack(p) ==
    /\ pc[p] \in Running
    /\ Return(p)
    /\ IF lock = p
       THEN entities' = tx.entities /\ log' = tx.log /\ lock' = free /\ tx' = NoTx
       ELSE UNCHANGED <<entities, log, lock, tx>>
    /\ UNCHANGED <<servers, backup, saving>>

Stop(p) ==
    /\ pc[p] \in Running
    /\ Return(p)
    /\ IF lock = p THEN lock' = free /\ tx' = NoTx ELSE UNCHANGED <<lock, tx>>
    /\ UNCHANGED <<tables, saving>>

-----------------------------------------------------------------------------
(* The others *)

CrawlLocks(e) ==
    /\ lock = free
    /\ lock' = crawl
    /\ saving' = e
    /\ UNCHANGED <<tables, locals, tx>>

CrawlSaves ==
    /\ lock = crawl
    /\ lock' = free
    /\ entities' = IF SlugFree(entities, saving.id, saving.slug)
                   THEN Upsert(entities, saving, "crawl") ELSE entities
    /\ saving' = NoRow
    /\ UNCHANGED <<servers, backup, log, locals, tx>>

\* A row is added to mcp_servers, whose id and slug are unique too.
ServerAdded(r) ==
    /\ lock = free
    /\ \A k \in 1..Len(servers) : servers[k].id # r.id /\ servers[k].slug # r.slug
    /\ servers' = Append(servers, r)
    /\ UNCHANGED <<backup, entities, log, lock, saving, locals, tx>>

Next ==
    \/ \E p \in Procs :
         \/ Start(p) \/ CountEntities(p) \/ ReadServers(p) \/ Backup(p)
         \/ SaveRow(p) \/ RecordRow(p) \/ Commit(p) \/ Stop(p)
    \/ \E r \in Row : CrawlLocks(r) \/ ServerAdded(r)
    \/ CrawlSaves

Spec == Init /\ [][Next]_vars

-----------------------------------------------------------------------------
\* The log and the table agree, through every interleaving of processes,
\* refused statements and rollbacks: what is logged as migrated is there, and
\* no row came from mcp_servers without being logged so
\* (migration.go:106-131).
LogAgrees ==
    /\ \A r \in log : r.status = "SUCCESS" => entities[r.old] # NoRow
    /\ \A i \in Ids : entities[i] # NoRow /\ entities[i].from = "v1" =>
         \E r \in log : r.old = i /\ r.status = "SUCCESS"

\* What one commit adds to the log are the last rows its migration read, all
\* of them: once the transaction has the lock it loses it to nobody, and a
\* migration that stops in the middle leaves no record of what came before.
\* (Of the rows before them the lock was refused and nothing is known: they
\* are not logged, and the next migration finds entities and returns.)
\* migration.go:97-139.
LogsASuffix ==
    [][log' # log =>
         /\ log \subseteq log'
         /\ \E p \in Procs : \E k \in 0..Len(read[p]) :
              LET last == {read[p][j].id : j \in (k + 1)..Len(read[p])}
              IN  /\ {r.old : r \in log' \ log} \subseteq last
                  /\ last \subseteq {r.old : r \in {x \in log' : x.by = p}}]_vars
=============================================================================

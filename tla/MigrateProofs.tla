----------------------------- MODULE MigrateProofs ----------------------------
(***************************************************************************)
(* What MigrateV1ToV2 promises for any number of processes, rows and slugs *)
(* and, at the end, what cmd/migrate does instead of migrating.            *)
(***************************************************************************)
EXTENDS DataMigration, TLAPS

-----------------------------------------------------------------------------
(* The inductive invariant *)

\* Where a process is, says how far it is in its rows and whether it can hold
\* the lock; only the holder can have saved the row at hand.
PlaceOf(p) ==
    /\ pc[p] = "backup" => done[p] = 0
    /\ pc[p] \in {"save", "record"} => done[p] < Len(read[p])
    /\ pc[p] = "commit" => done[p] = Len(read[p])
    /\ lock = p => pc[p] \in {"save", "record", "commit"}
    /\ pc[p] = "record" /\ saved[p] => lock = p
Places == (\A p \in Procs : PlaceOf(p)) /\ (lock = crawl => saving \in Row)

\* What the log says of a table, up to the row i that is saved and not logged.
SuccessIsThere(table, records) ==
    \A r \in records : r.status = "SUCCESS" => table[r.old] # NoRow
MigratedIsLogged(table, records, unlogged) ==
    \A i \in Ids : table[i] # NoRow /\ table[i].from = "v1" =>
        \/ i \in unlogged
        \/ \E r \in records : r.old = i /\ r.status = "SUCCESS"

Unlogged(p) == IF pc[p] = "record" /\ saved[p] THEN {row(p).id} ELSE {}

TxAgrees ==
    \A p \in Procs : lock = p =>
        /\ SuccessIsThere(tx.entities, tx.log)
        /\ MigratedIsLogged(tx.entities, tx.log, Unlogged(p))
        /\ \A i \in Unlogged(p) : tx.entities[i] # NoRow

\* The transaction has logged the rows since it got the lock.
LoggedSince(p, k) ==
    LET since == {read[p][j].id : j \in (k + 1)..done[p]}
    IN  /\ \A r \in tx.log : r \in log \/ r.old \in since
        /\ \A i \in since : \E r \in tx.log : r.old = i /\ r.by = p
TxIsSuffix ==
    \A p \in Procs : lock = p =>
        /\ log \subseteq tx.log
        /\ \E k \in 0..done[p] : LoggedSince(p, k)

IInv == TypeOK /\ Places /\ LogAgrees /\ TxAgrees /\ TxIsSuffix

-----------------------------------------------------------------------------
LEMMA InitIInv == Init => IInv
  <1> SUFFICES ASSUME Init PROVE IInv
    OBVIOUS
  <1> USE MigrationAssumption DEF Init
  <1>1. TypeOK
    BY DEF TypeOK, NoTx, Running
  <1>2. Places /\ TxAgrees /\ TxIsSuffix
    BY DEF Places, PlaceOf, TxAgrees, TxIsSuffix
  <1>3. LogAgrees
    BY DEF LogAgrees
  <1> QED BY <1>1, <1>2, <1>3 DEF IInv

\* The row at hand.
LEMMA RowAtHand ==
    ASSUME TypeOK, Places, NEW p \in Procs, pc[p] \in {"save", "record"}
    PROVE  /\ row(p) \in Row /\ row(p).id \in Ids
           /\ done[p] \in Nat /\ Len(read[p]) \in Nat /\ done[p] + 1 \in 1..Len(read[p])
  <1>1. done[p] \in Nat /\ read[p] \in Seq(Row) /\ done[p] < Len(read[p])
    BY DEF TypeOK, Places, PlaceOf
  <1>2. done[p] + 1 \in 1..Len(read[p])
    BY <1>1
  <1>3. row(p) \in Row
    BY <1>1, <1>2 DEF row
  <1>4. row(p).id \in Ids
    BY <1>3 DEF Row
  <1>5. Len(read[p]) \in Nat
    BY <1>1
  <1> QED BY <1>1, <1>2, <1>3, <1>4, <1>5

LEMMA UpsertType ==
    ASSUME NEW table \in [Ids -> Entity \cup {NoRow}], NEW r \in Row, NEW from \in {"v1", "crawl"}
    PROVE  /\ Upsert(table, r, from) \in [Ids -> Entity \cup {NoRow}]
           /\ r.id \in Ids
           /\ Upsert(table, r, from)[r.id] # NoRow
           /\ Upsert(table, r, from)[r.id].from = IF table[r.id] = NoRow THEN from ELSE table[r.id].from
           /\ \A i \in Ids : i # r.id => Upsert(table, r, from)[i] = table[i]
  <1>1. r.id \in Ids /\ r.slug \in Slugs
    BY DEF Row
  <1>2. table[r.id] # NoRow => table[r.id].from \in {"v1", "crawl"}
    BY <1>1 DEF Entity
  <1> DEFINE new == [slug |-> r.slug, from |-> IF table[r.id] = NoRow THEN from ELSE table[r.id].from]
  <1>3. new \in Entity
    BY <1>1, <1>2 DEF Entity
  <1>4. Upsert(table, r, from) = [table EXCEPT ![r.id] = new]
    BY DEF Upsert
  <1> HIDE DEF new
  <1>5. new.from = IF table[r.id] = NoRow THEN from ELSE table[r.id].from
    BY DEF new
  <1>6. Upsert(table, r, from)[r.id] = new /\ \A i \in Ids : i # r.id => Upsert(table, r, from)[i] = table[i]
    BY <1>1, <1>4
  <1>7. Upsert(table, r, from) \in [Ids -> Entity \cup {NoRow}]
    BY <1>1, <1>3, <1>4
  <1> QED BY <1>1, <1>3, <1>5, <1>6, <1>7, MigrationAssumption

-----------------------------------------------------------------------------
(* The types *)

LEMMA TypesStay == TypeOK /\ Places /\ [Next]_vars => TypeOK'
  <1> SUFFICES ASSUME TypeOK, Places, [Next]_vars PROVE TypeOK'
    OBVIOUS
  <1> USE MigrationAssumption DEF tables, locals
  <1>1. ASSUME NEW p \in Procs, Start(p) PROVE TypeOK'
    BY <1>1 DEF TypeOK, Start, Goto, Running
  <1>2. ASSUME NEW p \in Procs, CountEntities(p) PROVE TypeOK'
    <2>1. /\ UNCHANGED <<servers, backup, entities, log, lock, saving, tx>>
          /\ \/ UNCHANGED <<read, done, saved>> /\ pc' = [pc EXCEPT ![p] = "read"]
             \/ /\ pc' = [pc EXCEPT ![p] = "idle"] /\ read' = [read EXCEPT ![p] = <<>>]
                /\ done' = [done EXCEPT ![p] = 0] /\ saved' = [saved EXCEPT ![p] = FALSE]
      BY <1>2 DEF CountEntities, Return, Goto
    <2>2. CASE UNCHANGED <<read, done, saved>> /\ pc' = [pc EXCEPT ![p] = "read"]
      BY <2>1, <2>2 DEF TypeOK, Running
    <2>3. CASE /\ pc' = [pc EXCEPT ![p] = "idle"] /\ read' = [read EXCEPT ![p] = <<>>]
               /\ done' = [done EXCEPT ![p] = 0] /\ saved' = [saved EXCEPT ![p] = FALSE]
      <3>1. read' \in [Procs -> Seq(Row)]
        BY <2>3 DEF TypeOK
      <3> QED BY <2>1, <2>3, <3>1 DEF TypeOK
    <2> QED BY <2>1, <2>2, <2>3
  <1>3. ASSUME NEW p \in Procs, ReadServers(p) PROVE TypeOK'
    BY <1>3 DEF TypeOK, ReadServers, Goto, Running
  <1>4. ASSUME NEW p \in Procs, Backup(p) PROVE TypeOK'
    BY <1>4 DEF TypeOK, Backup, Goto, Running
  <1>5. ASSUME NEW p \in Procs, SaveRow(p) PROVE TypeOK'
    <2>1. row(p) \in Row
      BY <1>5, RowAtHand DEF SaveRow, at
    <2>2. /\ pc' \in [Procs -> Running \cup {"idle"}] /\ saved' \in [Procs -> BOOLEAN]
          /\ lock' \in Procs \cup {free, crawl}
      BY <1>5 DEF TypeOK, SaveRow, Goto, Running, SlugFree
    <2>3. View(p) \in [entities : [Ids -> Entity \cup {NoRow}], log : SUBSET Record]
      BY DEF View, TypeOK
    <2>4. Upsert(View(p).entities, row(p), "v1") \in [Ids -> Entity \cup {NoRow}]
      BY <2>1, <2>3, UpsertType
    <2>5. [View(p) EXCEPT !.entities = Upsert(@, row(p), "v1")]
             \in [entities : [Ids -> Entity \cup {NoRow}], log : SUBSET Record]
      BY <2>3, <2>4
    <2>6. tx' \in [entities : [Ids -> Entity \cup {NoRow}], log : SUBSET Record]
      BY <1>5, <2>3, <2>5 DEF SaveRow, TypeOK
    <2> QED BY <1>5, <2>2, <2>6 DEF SaveRow, TypeOK
  <1>6. ASSUME NEW p \in Procs, RecordRow(p) PROVE TypeOK'
    <2>1. row(p).id \in Ids
      BY <1>6, RowAtHand DEF RecordRow, at
    <2>2. RecordOf(p) \in Record
      BY <2>1 DEF RecordOf, Record
    <2>3. View(p) \in [entities : [Ids -> Entity \cup {NoRow}], log : SUBSET Record]
      BY DEF View, TypeOK
    <2>4. [View(p) EXCEPT !.log = @ \cup {RecordOf(p)}]
             \in [entities : [Ids -> Entity \cup {NoRow}], log : SUBSET Record]
      BY <2>2, <2>3
    <2>5. tx' \in [entities : [Ids -> Entity \cup {NoRow}], log : SUBSET Record]
      BY <1>6, <2>4 DEF RecordRow, TypeOK
    <2>6. pc' \in [Procs -> Running \cup {"idle"}] /\ done' \in [Procs -> Nat]
          /\ lock' \in Procs \cup {free, crawl}
      BY <1>6 DEF TypeOK, RecordRow, Goto, Running
    <2> QED BY <1>6, <2>5, <2>6 DEF RecordRow, TypeOK
  <1>7. ASSUME NEW p \in Procs, Commit(p) PROVE TypeOK'
    BY <1>7 DEF TypeOK, Commit, Return, Goto, Running, NoTx
  <1>8. ASSUME NEW p \in Procs, Stop(p) PROVE TypeOK'
    BY <1>8 DEF TypeOK, Stop, Return, Goto, Running, NoTx
  <1>9. ASSUME NEW r \in Row, CrawlLocks(r) PROVE TypeOK'
    BY <1>9 DEF TypeOK, CrawlLocks
  <1>10. ASSUME NEW r \in Row, ServerAdded(r) PROVE TypeOK'
    BY <1>10 DEF TypeOK, ServerAdded
  <1>11. CASE CrawlSaves
    <2>1. saving \in Row
      BY <1>11 DEF CrawlSaves, Places
    <2>2. Upsert(entities, saving, "crawl") \in [Ids -> Entity \cup {NoRow}]
      BY <2>1, UpsertType DEF TypeOK
    <2> QED BY <1>11, <2>2 DEF TypeOK, CrawlSaves
  <1>12. CASE UNCHANGED vars
    BY <1>12 DEF TypeOK, vars
  <1> QED BY <1>1, <1>2, <1>3, <1>4, <1>5, <1>6, <1>7, <1>8, <1>9, <1>10, <1>11, <1>12 DEF Next

LEMMA PlacesStay == TypeOK /\ Places /\ [Next]_vars => Places'
  <1> SUFFICES ASSUME TypeOK, Places, [Next]_vars PROVE Places'
    OBVIOUS
  <1> USE MigrationAssumption DEF tables, locals
  <1>1. ASSUME NEW p \in Procs, Start(p) PROVE Places'
    BY <1>1 DEF TypeOK, Places, PlaceOf, Start, at, Goto
  <1>2. ASSUME NEW p \in Procs, CountEntities(p) PROVE Places'
    BY <1>2 DEF TypeOK, Places, PlaceOf, CountEntities, at, Return, Goto
  <1>3. ASSUME NEW p \in Procs, ReadServers(p) PROVE Places'
    BY <1>3 DEF TypeOK, Places, PlaceOf, ReadServers, at, Goto
  <1>4. ASSUME NEW p \in Procs, Backup(p) PROVE Places'
    <2>1. read[p] \in Seq(Row) /\ done[p] = 0 /\ pc[p] = "backup"
      BY <1>4 DEF TypeOK, Places, PlaceOf, Backup, at
    <2>2. (read[p] = <<>> => Len(read[p]) = 0) /\ (read[p] # <<>> => 0 < Len(read[p]))
      BY <2>1
    <2> QED BY <1>4, <2>1, <2>2 DEF TypeOK, Places, PlaceOf, Backup, at, Goto
  <1>5. ASSUME NEW p \in Procs, SaveRow(p) PROVE Places'
    BY <1>5 DEF TypeOK, Places, PlaceOf, SaveRow, at, Goto, CanWrite
  <1>6. ASSUME NEW p \in Procs, RecordRow(p) PROVE Places'
    <2>1. done[p] \in Nat /\ Len(read[p]) \in Nat /\ done[p] + 1 <= Len(read[p])
      BY <1>6, RowAtHand DEF RecordRow, at
    <2>2. /\ done' = [done EXCEPT ![p] = done[p] + 1] /\ UNCHANGED <<read, saved, saving>>
          /\ pc' = [pc EXCEPT ![p] = IF done[p] + 1 = Len(read[p]) THEN "commit" ELSE "save"]
          /\ lock' = lock \/ (lock = free /\ lock' = p)
      BY <1>6 DEF RecordRow, Goto, CanWrite
    <2>3. PlaceOf(p)'
      BY <2>1, <2>2 DEF TypeOK, PlaceOf
    <2>4. ASSUME NEW q \in Procs, q # p PROVE PlaceOf(q)'
      <3>1. pc'[q] = pc[q] /\ done'[q] = done[q] /\ (lock' = q <=> lock = q)
        BY <2>2, <2>4 DEF TypeOK
      <3> QED BY <2>2, <2>4, <3>1 DEF Places, PlaceOf
    <2> QED BY <2>2, <2>3, <2>4 DEF Places
  <1>7. ASSUME NEW p \in Procs, Commit(p) PROVE Places'
    BY <1>7 DEF TypeOK, Places, PlaceOf, Commit, at, Return, Goto
  <1>8. ASSUME NEW p \in Procs, Stop(p) PROVE Places'
    BY <1>8 DEF TypeOK, Places, PlaceOf, Stop, Return, Goto
  <1>9. ASSUME NEW r \in Row, CrawlLocks(r) PROVE Places'
    BY <1>9 DEF Places, PlaceOf, CrawlLocks
  <1>10. ASSUME NEW r \in Row, ServerAdded(r) PROVE Places'
    BY <1>10 DEF Places, PlaceOf, ServerAdded
  <1>11. CASE CrawlSaves
    BY <1>11 DEF Places, PlaceOf, CrawlSaves
  <1>12. CASE UNCHANGED vars
    BY <1>12 DEF Places, PlaceOf, vars
  <1> QED BY <1>1, <1>2, <1>3, <1>4, <1>5, <1>6, <1>7, <1>8, <1>9, <1>10, <1>11, <1>12 DEF Next

-----------------------------------------------------------------------------
(* The log and the table *)

\* What an upsert and a new record do to the agreement.
LEMMA UpsertAgrees ==
    ASSUME NEW table \in [Ids -> Entity \cup {NoRow}], NEW records \in SUBSET Record,
           NEW r \in Row, NEW from \in {"v1", "crawl"},
           SuccessIsThere(table, records), MigratedIsLogged(table, records, {})
    PROVE  /\ SuccessIsThere(Upsert(table, r, from), records)
           /\ MigratedIsLogged(Upsert(table, r, from), records, IF from = "v1" THEN {r.id} ELSE {})
  <1>1. /\ Upsert(table, r, from)[r.id] # NoRow
        /\ Upsert(table, r, from)[r.id].from = IF table[r.id] = NoRow THEN from ELSE table[r.id].from
        /\ \A i \in Ids : i # r.id => Upsert(table, r, from)[i] = table[i]
    BY UpsertType
  <1>2. \A x \in records : x.old \in Ids
    BY DEF Record
  <1>3. SuccessIsThere(Upsert(table, r, from), records)
    BY <1>1, <1>2 DEF SuccessIsThere
  <1>4. MigratedIsLogged(Upsert(table, r, from), records, IF from = "v1" THEN {r.id} ELSE {})
    BY <1>1 DEF MigratedIsLogged
  <1> QED BY <1>3, <1>4

LEMMA AgreeStays == TypeOK /\ Places /\ LogAgrees /\ TxAgrees /\ [Next]_vars
                      => LogAgrees' /\ TxAgrees'
  <1> SUFFICES ASSUME TypeOK, Places, LogAgrees, TxAgrees, [Next]_vars PROVE LogAgrees' /\ TxAgrees'
    OBVIOUS
  <1> USE MigrationAssumption DEF tables, locals
  <1>0. SuccessIsThere(entities, log) /\ MigratedIsLogged(entities, log, {})
    BY DEF LogAgrees, SuccessIsThere, MigratedIsLogged
  <1>a. SUFFICES SuccessIsThere(entities', log') /\ MigratedIsLogged(entities', log', {}) /\ TxAgrees'
    BY DEF LogAgrees, SuccessIsThere, MigratedIsLogged
  \* A step of a process that touches neither the tables nor the lock.
  <1>b. ASSUME NEW p \in Procs, UNCHANGED <<entities, log, lock, tx>>,
               \A q \in Procs : lock = q => Unlogged(q)' = Unlogged(q)
        PROVE  SuccessIsThere(entities', log') /\ MigratedIsLogged(entities', log', {}) /\ TxAgrees'
    BY <1>0, <1>b DEF TxAgrees
  <1>1. ASSUME NEW p \in Procs, Start(p) \/ CountEntities(p) \/ ReadServers(p) \/ Backup(p)
        PROVE  SuccessIsThere(entities', log') /\ MigratedIsLogged(entities', log', {}) /\ TxAgrees'
    <2>1. UNCHANGED <<entities, log, lock, tx>> /\ lock # p
      BY <1>1 DEF Start, CountEntities, ReadServers, Backup, at, Places, PlaceOf
    <2>2. \A q \in Procs : q # p => pc'[q] = pc[q] /\ read'[q] = read[q] /\ done'[q] = done[q]
                                    /\ saved'[q] = saved[q]
      BY <1>1 DEF Start, CountEntities, ReadServers, Backup, Return, Goto, TypeOK
    <2>3. \A q \in Procs : lock = q => Unlogged(q)' = Unlogged(q)
      BY <2>1, <2>2 DEF Unlogged, row
    <2> QED BY <1>b, <2>1, <2>3
  <1>5. ASSUME NEW p \in Procs, SaveRow(p)
        PROVE  SuccessIsThere(entities', log') /\ MigratedIsLogged(entities', log', {}) /\ TxAgrees'
    <2>1. /\ UNCHANGED <<entities, log, read, done>> /\ pc' = [pc EXCEPT ![p] = "record"]
          /\ pc[p] = "save" /\ row(p) \in Row
      BY <1>5, RowAtHand DEF SaveRow, at, Goto
    <2>2. CASE ~CanWrite(p)
      <3>1. UNCHANGED <<lock, tx>> /\ lock # p /\ saved' = [saved EXCEPT ![p] = FALSE]
        BY <1>5, <2>2 DEF SaveRow, CanWrite
      <3>2. \A q \in Procs : q # p => Unlogged(q)' = Unlogged(q)
        BY <2>1, <3>1 DEF Unlogged, row, TypeOK
      <3> QED BY <1>b, <2>1, <3>1, <3>2
    <2>3. CASE CanWrite(p)
      <3> DEFINE fits == SlugFree(View(p).entities, row(p).id, row(p).slug)
      <3>1. /\ lock' = p /\ saved' = [saved EXCEPT ![p] = fits]
            /\ tx' = IF fits THEN [View(p) EXCEPT !.entities = Upsert(@, row(p), "v1")] ELSE View(p)
        BY <1>5, <2>3 DEF SaveRow
      <3>2. View(p) \in [entities : [Ids -> Entity \cup {NoRow}], log : SUBSET Record]
        BY DEF View, TypeOK
      <3>3. /\ SuccessIsThere(View(p).entities, View(p).log)
            /\ MigratedIsLogged(View(p).entities, View(p).log, {})
        <4>1. CASE lock = p
          <5>1. Unlogged(p) = {}
            BY <2>1 DEF Unlogged
          <5> QED BY <4>1, <5>1 DEF TxAgrees, View
        <4>2. CASE lock # p
          BY <1>0, <4>2 DEF View
        <4> QED BY <4>1, <4>2
      <3>4. Unlogged(p)' = IF fits THEN {row(p).id} ELSE {}
        <4>1. pc'[p] = "record" /\ saved'[p] = fits /\ row(p)' = row(p)
          BY <2>1, <3>1 DEF TypeOK, row
        <4> QED BY <4>1 DEF Unlogged
      <3>5. CASE fits
        <4>1. tx'.entities = Upsert(View(p).entities, row(p), "v1") /\ tx'.log = View(p).log
          BY <3>1, <3>2, <3>5
        <4>2. /\ SuccessIsThere(tx'.entities, tx'.log)
              /\ MigratedIsLogged(tx'.entities, tx'.log, {row(p).id})
          BY <2>1, <3>2, <3>3, <4>1, UpsertAgrees
        <4>3. tx'.entities[row(p).id] # NoRow
          BY <2>1, <3>2, <4>1, UpsertType
        <4> QED BY <1>0, <2>1, <3>1, <3>4, <3>5, <4>2, <4>3 DEF TxAgrees
      <3>6. CASE ~fits
        BY <1>0, <2>1, <3>1, <3>3, <3>4, <3>6 DEF TxAgrees
      <3> QED BY <3>5, <3>6
    <2> QED BY <2>2, <2>3
  <1>6. ASSUME NEW p \in Procs, RecordRow(p)
        PROVE  SuccessIsThere(entities', log') /\ MigratedIsLogged(entities', log', {}) /\ TxAgrees'
    <2>1. /\ UNCHANGED <<entities, log, read, saved>> /\ pc[p] = "record" /\ pc'[p] # "record"
          /\ \A q \in Procs : q # p => pc'[q] = pc[q] /\ done'[q] = done[q]
      BY <1>6 DEF RecordRow, at, Goto, TypeOK
    <2>2. CASE ~CanWrite(p)
      <3>1. UNCHANGED <<lock, tx>> /\ lock # p
        BY <1>6, <2>2 DEF RecordRow, CanWrite
      <3>2. \A q \in Procs : q # p => Unlogged(q)' = Unlogged(q)
        BY <2>1 DEF Unlogged, row
      <3> QED BY <1>b, <2>1, <3>1, <3>2
    <2>3. CASE CanWrite(p)
      <3>1. lock' = p /\ tx' = [View(p) EXCEPT !.log = @ \cup {RecordOf(p)}]
        BY <1>6, <2>3 DEF RecordRow
      <3>2. View(p) \in [entities : [Ids -> Entity \cup {NoRow}], log : SUBSET Record]
        BY DEF View, TypeOK
      <3>3. tx'.entities = View(p).entities /\ tx'.log = View(p).log \cup {RecordOf(p)}
        BY <3>1, <3>2
      <3>4. Unlogged(p)' = {}
        BY <2>1 DEF Unlogged
      <3>5. saved[p] => lock = p
        BY <2>1 DEF Places, PlaceOf
      <3>6. /\ SuccessIsThere(View(p).entities, View(p).log)
            /\ MigratedIsLogged(View(p).entities, View(p).log, IF saved[p] THEN {row(p).id} ELSE {})
            /\ saved[p] => View(p).entities[row(p).id] # NoRow
        <4>1. CASE lock = p
          <5>1. Unlogged(p) = IF saved[p] THEN {row(p).id} ELSE {}
            BY <2>1 DEF Unlogged
          <5> QED BY <4>1, <5>1 DEF TxAgrees, View
        <4>2. CASE lock # p
          BY <1>0, <3>5, <4>2 DEF View
        <4> QED BY <4>1, <4>2
      <3>7. RecordOf(p).old = row(p).id /\ (RecordOf(p).status = "SUCCESS" <=> saved[p])
        BY DEF RecordOf
      <3>8. SuccessIsThere(tx'.entities, tx'.log)
        BY <3>3, <3>6, <3>7 DEF SuccessIsThere
      <3>9. MigratedIsLogged(tx'.entities, tx'.log, {})
        BY <3>3, <3>6, <3>7 DEF MigratedIsLogged
      <3> QED BY <1>0, <2>1, <3>1, <3>4, <3>8, <3>9 DEF TxAgrees
    <2> QED BY <2>2, <2>3
  <1>7. ASSUME NEW p \in Procs, Commit(p)
        PROVE  SuccessIsThere(entities', log') /\ MigratedIsLogged(entities', log', {}) /\ TxAgrees'
    <2>1. pc[p] = "commit" /\ Unlogged(p) = {}
      BY <1>7 DEF Commit, at, Unlogged
    <2>2. \A q \in Procs : q # p => pc'[q] = pc[q] /\ read'[q] = read[q] /\ done'[q] = done[q]
                                    /\ saved'[q] = saved[q]
      BY <1>7 DEF Commit, Return, Goto, TypeOK
    <2>3. CASE lock = p
      <3>1. entities' = tx.entities /\ log' = tx.log /\ lock' = free
        BY <1>7, <2>3 DEF Commit
      <3> QED BY <2>1, <2>3, <3>1 DEF TxAgrees
    <2>4. CASE lock # p
      <3>1. UNCHANGED <<entities, log, lock, tx>>
        BY <1>7, <2>4 DEF Commit
      <3>2. \A q \in Procs : lock = q => Unlogged(q)' = Unlogged(q)
        BY <2>2, <2>4 DEF Unlogged, row
      <3> QED BY <1>b, <3>1, <3>2
    <2> QED BY <2>3, <2>4
  <1>8. ASSUME NEW p \in Procs, Stop(p)
        PROVE  SuccessIsThere(entities', log') /\ MigratedIsLogged(entities', log', {}) /\ TxAgrees'
    <2>2. \A q \in Procs : q # p => pc'[q] = pc[q] /\ read'[q] = read[q] /\ done'[q] = done[q]
                                    /\ saved'[q] = saved[q]
      BY <1>8 DEF Stop, Return, Goto, TypeOK
    <2>3. UNCHANGED <<entities, log>>
      BY <1>8 DEF Stop
    <2>4. CASE lock = p
      <3>1. lock' = free
        BY <1>8, <2>4 DEF Stop
      <3> QED BY <1>0, <2>3, <3>1 DEF TxAgrees
    <2>5. CASE lock # p
      <3>1. UNCHANGED <<lock, tx>>
        BY <1>8, <2>5 DEF Stop
      <3>2. \A q \in Procs : lock = q => Unlogged(q)' = Unlogged(q)
        BY <2>2, <2>5 DEF Unlogged, row
      <3> QED BY <1>b, <2>3, <3>1, <3>2
    <2> QED BY <2>4, <2>5
  <1>9. ASSUME NEW r \in Row, CrawlLocks(r)
        PROVE  SuccessIsThere(entities', log') /\ MigratedIsLogged(entities', log', {}) /\ TxAgrees'
    BY <1>0, <1>9 DEF CrawlLocks, TxAgrees
  <1>10. ASSUME NEW r \in Row, ServerAdded(r)
         PROVE  SuccessIsThere(entities', log') /\ MigratedIsLogged(entities', log', {}) /\ TxAgrees'
    BY <1>0, <1>10 DEF ServerAdded, TxAgrees
  <1>11. CASE CrawlSaves
    <2>1. saving \in Row /\ lock' = free /\ log' = log
      BY <1>11 DEF CrawlSaves, Places
    <2>2. /\ SuccessIsThere(Upsert(entities, saving, "crawl"), log)
          /\ MigratedIsLogged(Upsert(entities, saving, "crawl"), log, {})
      BY <1>0, <2>1, UpsertAgrees DEF TypeOK
    <2>3. entities' \in {entities, Upsert(entities, saving, "crawl")}
      BY <1>11 DEF CrawlSaves
    <2> QED BY <1>0, <2>1, <2>2, <2>3 DEF TxAgrees
  <1>12. CASE UNCHANGED vars
    <2>1. \A q \in Procs : Unlogged(q)' = Unlogged(q)
      BY <1>12 DEF vars, Unlogged, row
    <2> QED BY <1>0, <1>12, <2>1 DEF vars, TxAgrees
  <1> QED BY <1>1, <1>5, <1>6, <1>7, <1>8, <1>9, <1>10, <1>11, <1>12 DEF Next

-----------------------------------------------------------------------------
(* The rows the transaction has logged *)

LEMMA SuffixStays == TypeOK /\ Places /\ TxIsSuffix /\ [Next]_vars => TxIsSuffix'
  <1> SUFFICES ASSUME TypeOK, Places, TxIsSuffix, [Next]_vars PROVE TxIsSuffix'
    OBVIOUS
  <1> USE MigrationAssumption DEF tables, locals
  \* A step that leaves the log and what the holder has done alone.
  <1>0. ASSUME log' = log,
               \A q \in Procs : lock' = q => lock = q /\ tx' = tx /\ read'[q] = read[q] /\ done'[q] = done[q]
        PROVE  TxIsSuffix'
    <2> SUFFICES ASSUME NEW q \in Procs, lock' = q
                 PROVE  log' \subseteq tx'.log /\ \E k \in 0..done'[q] : LoggedSince(q, k)'
      BY DEF TxIsSuffix
    <2>1. lock = q /\ tx' = tx /\ read'[q] = read[q] /\ done'[q] = done[q]
      BY <1>0
    <2>2. PICK k \in 0..done[q] : LoggedSince(q, k)
      BY <2>1 DEF TxIsSuffix
    <2>3. LoggedSince(q, k)'
      BY <1>0, <2>1, <2>2 DEF LoggedSince
    <2> QED BY <1>0, <2>1, <2>3 DEF TxIsSuffix
  <1>1. ASSUME NEW p \in Procs, Start(p) \/ CountEntities(p) \/ ReadServers(p) \/ Backup(p) \/ Stop(p)
        PROVE  TxIsSuffix'
    <2>1. log' = log /\ lock' \in {lock, free} /\ (lock' = p => FALSE) /\ (lock' = lock => lock = free \/ tx' = tx)
      BY <1>1 DEF Start, CountEntities, ReadServers, Backup, Stop, at, Places, PlaceOf
    <2>2. \A q \in Procs : q # p => read'[q] = read[q] /\ done'[q] = done[q]
      BY <1>1 DEF Start, CountEntities, ReadServers, Backup, Stop, Return, TypeOK
    <2> QED BY <1>0, <2>1, <2>2
  <1>2. ASSUME NEW p \in Procs, SaveRow(p) PROVE TxIsSuffix'
    <2>1. UNCHANGED <<log, read, done>> /\ done[p] \in Nat
      BY <1>2 DEF SaveRow, TypeOK
    <2>2. CASE ~CanWrite(p)
      BY <1>0, <1>2, <2>1, <2>2 DEF SaveRow
    <2>3. CASE CanWrite(p)
      <3>0. View(p) \in [entities : [Ids -> Entity \cup {NoRow}], log : SUBSET Record]
        BY DEF View, TypeOK
      <3>1. lock' = p /\ tx'.log = View(p).log
        <4>1. lock' = p /\ tx' \in {View(p), [View(p) EXCEPT !.entities = Upsert(@, row(p), "v1")]}
          BY <1>2, <2>3 DEF SaveRow
        <4> QED BY <3>0, <4>1
      <3>2. CASE lock = p
        <4>1. tx'.log = tx.log
          BY <3>1, <3>2 DEF View
        <4>2. PICK k \in 0..done[p] : LoggedSince(p, k)
          BY <3>2 DEF TxIsSuffix
        <4>3. LoggedSince(p, k)'
          BY <2>1, <4>1, <4>2 DEF LoggedSince
        <4>4. log' \subseteq tx'.log
          BY <2>1, <3>2, <4>1 DEF TxIsSuffix
        <4> QED BY <2>1, <3>1, <4>3, <4>4 DEF TxIsSuffix
      <3>3. CASE lock # p
        <4>1. tx'.log = log
          BY <3>1, <3>3 DEF View
        <4>2. LoggedSince(p, done[p])' /\ done[p] \in 0..done[p]
          BY <2>1, <4>1 DEF LoggedSince
        <4> QED BY <2>1, <3>1, <4>1, <4>2 DEF TxIsSuffix, LoggedSince
      <3> QED BY <3>2, <3>3
    <2> QED BY <2>2, <2>3
  <1>3. ASSUME NEW p \in Procs, RecordRow(p) PROVE TxIsSuffix'
    <2>1. /\ UNCHANGED <<log, read>> /\ done' = [done EXCEPT ![p] = done[p] + 1]
          /\ done[p] \in Nat /\ done'[p] = done[p] + 1
      BY <1>3 DEF RecordRow, TypeOK
    <2>2. CASE ~CanWrite(p)
      <3>1. UNCHANGED <<lock, tx>> /\ lock # p
        BY <1>3, <2>2 DEF RecordRow, CanWrite
      <3> QED BY <1>0, <2>1, <3>1
    <2>3. CASE CanWrite(p)
      <3>1. lock' = p /\ tx'.log = View(p).log \cup {RecordOf(p)}
        BY <1>3, <2>3 DEF RecordRow, View, TypeOK
      <3>2. RecordOf(p).old = read[p][done[p] + 1].id /\ RecordOf(p).by = p
        BY DEF RecordOf, row
      <3>3. PICK k \in 0..done[p] :
              /\ log \subseteq View(p).log
              /\ \A r \in View(p).log : r \in log \/ r.old \in {read[p][j].id : j \in (k + 1)..done[p]}
              /\ \A i \in {read[p][j].id : j \in (k + 1)..done[p]} :
                    \E r \in View(p).log : r.old = i /\ r.by = p
        <4>1. CASE lock = p
          <5>1. View(p).log = tx.log
            BY <4>1 DEF View
          <5>2. PICK k \in 0..done[p] : LoggedSince(p, k)
            BY <4>1 DEF TxIsSuffix
          <5>3. log \subseteq tx.log
            BY <4>1 DEF TxIsSuffix
          <5> QED BY <5>1, <5>2, <5>3 DEF LoggedSince
        <4>2. CASE lock # p
          <5>1. (done[p] + 1)..done[p] = {} /\ done[p] \in 0..done[p]
            BY <2>1
          <5> QED BY <4>2, <5>1 DEF View
        <4> QED BY <4>1, <4>2
      <3>4. (k + 1)..(done[p] + 1) = ((k + 1)..done[p]) \cup {done[p] + 1} /\ k \in 0..(done[p] + 1)
        BY <2>1
      <3>5. LoggedSince(p, k)'
        <4>1. {read'[p][j].id : j \in (k + 1)..done'[p]} =
              {read[p][j].id : j \in (k + 1)..done[p]} \cup {read[p][done[p] + 1].id}
          BY <2>1, <3>4
        <4> QED BY <2>1, <3>1, <3>2, <3>3, <4>1 DEF LoggedSince
      <3> QED BY <2>1, <3>1, <3>3, <3>4, <3>5 DEF TxIsSuffix
    <2> QED BY <2>2, <2>3
  <1>4. ASSUME NEW p \in Procs, Commit(p) PROVE TxIsSuffix'
    <2>1. \A q \in Procs : q # p => read'[q] = read[q] /\ done'[q] = done[q]
      BY <1>4 DEF Commit, Return, TypeOK
    <2>2. CASE lock = p
      <3>1. lock' = free
        BY <1>4, <2>2 DEF Commit
      <3> QED BY <3>1 DEF TxIsSuffix
    <2>3. CASE lock # p
      <3>1. UNCHANGED <<log, lock, tx>>
        BY <1>4, <2>3 DEF Commit
      <3> QED BY <1>0, <2>1, <2>3, <3>1
    <2> QED BY <2>2, <2>3
  <1>5. ASSUME NEW r \in Row, CrawlLocks(r) \/ ServerAdded(r) PROVE TxIsSuffix'
    BY <1>0, <1>5 DEF CrawlLocks, ServerAdded
  <1>6. CASE CrawlSaves
    BY <1>0, <1>6 DEF CrawlSaves
  <1>7. CASE UNCHANGED vars
    BY <1>0, <1>7 DEF vars
  <1> QED BY <1>1, <1>2, <1>3, <1>4, <1>5, <1>6, <1>7 DEF Next

-----------------------------------------------------------------------------
\* The invariant: the log agrees with the table in what is committed, and in
\* what the transaction sees up to the row at hand.
THEOREM DataMigrationInvariance == Spec => []IInv
  <1>1. IInv /\ [Next]_vars => IInv'
    BY TypesStay, PlacesStay, AgreeStays, SuffixStays DEF IInv
  <1> QED BY <1>1, InitIInv, PTL DEF Spec

\* Every reachable state of the migration is well typed.
THEOREM DataMigrationTypeCorrect == Spec => []TypeOK
  <1>1. IInv => TypeOK
    BY DEF IInv
  <1> QED BY <1>1, DataMigrationInvariance, PTL

\* What migration_log calls migrated is in entities and the other way round,
\* for any number of processes and rows (recordMigration).
THEOREM LogAlwaysAgrees == Spec => []LogAgrees
  <1>1. IInv => LogAgrees
    BY DEF IInv
  <1> QED BY <1>1, DataMigrationInvariance, PTL

\* A commit logs the last rows its migration read, all of them
\* (MigrateV1ToV2's one transaction).
THEOREM LogGrowsBySuffix == Spec => LogsASuffix
  <1> DEFINE Step == log' # log =>
         /\ log \subseteq log'
         /\ \E p \in Procs : \E k \in 0..Len(read[p]) :
              LET last == {read[p][j].id : j \in (k + 1)..Len(read[p])}
              IN  /\ {r.old : r \in log' \ log} \subseteq last
                  /\ last \subseteq {r.old : r \in {x \in log' : x.by = p}}
  <1>1. IInv /\ [Next]_vars => [Step]_vars
    <2> SUFFICES ASSUME IInv, [Next]_vars, log' # log PROVE Step
      OBVIOUS
    <2>1. PICK p \in Procs : Commit(p) /\ lock = p
      BY DEF Next, vars, tables, Start, CountEntities, ReadServers, Backup, SaveRow, RecordRow,
             Commit, Stop, CrawlLocks, ServerAdded, CrawlSaves
    <2>2. log' = tx.log /\ done[p] = Len(read[p])
      BY <2>1 DEF IInv, Places, PlaceOf, Commit, at
    <2>3. log \subseteq tx.log /\ \E k \in 0..done[p] : LoggedSince(p, k)
      BY <2>1 DEF IInv, TxIsSuffix
    <2>4. PICK k \in 0..Len(read[p]) : LoggedSince(p, k)
      BY <2>2, <2>3
    <2> DEFINE last == {read[p][j].id : j \in (k + 1)..Len(read[p])}
    <2>5. \A r \in tx.log : r \in log \/ r.old \in last
      BY <2>2, <2>4 DEF LoggedSince
    <2>6. \A i \in last : \E r \in tx.log : r.old = i /\ r.by = p
      BY <2>2, <2>4 DEF LoggedSince
    <2>7. {r.old : r \in log' \ log} \subseteq last
      BY <2>2, <2>5
    <2>8. last \subseteq {r.old : r \in {x \in log' : x.by = p}}
      BY <2>2, <2>6
    <2> QED BY <2>2, <2>3, <2>7, <2>8
  <1> QED BY <1>1, DataMigrationInvariance, PTL DEF Spec, LogsASuffix

-----------------------------------------------------------------------------
(* cmd/migrate, beside it: the variables of another program *)

CONSTANTS Servers, Slug, BatchSize, DryRun
VARIABLES toolPc, cursor, batch, checkpointed, report, stored, checkpoints

Tool == INSTANCE MigrateTool WITH pc <- toolPc, entities <- stored

\* The tool stands before the first row for ever.
ToolInv ==
    /\ Tool!NothingMigrated
    /\ cursor = 0 /\ batch = <<>> /\ checkpointed = {}

\* The tool migrates nothing, whatever rows there are and however often it is
\* killed and started again: rows.Scan without rows.Next is an error, which ends
\* the loop of cmd/migrate (main.go:171-183).
THEOREM ToolMigratesNothing == Tool!Spec => []Tool!NothingMigrated
<1> USE DEF ToolInv, Tool!NothingMigrated
<1>1. Tool!Init => ToolInv
  BY DEF Tool!Init
<1>2. ToolInv /\ [Tool!Next]_(Tool!vars) => ToolInv'
  <2> SUFFICES ASSUME ToolInv, [Tool!Next]_(Tool!vars) PROVE ToolInv'
    OBVIOUS
  <2>1. ~Tool!OnRow
    BY DEF Tool!OnRow
  <2>2. CASE Tool!Start
    BY <2>2 DEF Tool!Start, Tool!database, Tool!NothingReported
  <2>3. CASE Tool!ScanRow
    BY <2>1, <2>3 DEF Tool!ScanRow, Tool!database
  <2>4. ~Tool!SaveRow /\ ~Tool!Checkpoint /\ ~Tool!BatchEnds
    BY DEF Tool!SaveRow, Tool!Checkpoint, Tool!BatchEnds, Tool!Processing
  <2>5. CASE Tool!Report \/ Tool!Crash
    BY <2>5 DEF Tool!Report, Tool!Crash, Tool!database
  <2>6. CASE UNCHANGED Tool!vars
    BY <2>6 DEF Tool!vars, Tool!database
  <2> QED BY <2>2, <2>3, <2>4, <2>5, <2>6 DEF Tool!Next
<1>3. ToolInv => Tool!NothingMigrated
  OBVIOUS
<1> QED BY <1>1, <1>2, <1>3, PTL DEF Tool!Spec
=============================================================================

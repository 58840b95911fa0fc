-------------------------- MODULE SchemaMigration ----------------------------
(***************************************************************************)
(* Store.Migrate (internal/storage/store.go), which cmd/crawler, cmd/api,  *)
(* cmd/seed, cmd/export and cmd/migrate all call on the same SQLite file   *)
(* when they start, and which docker-compose calls again when one of them  *)
(* exits (restart: unless-stopped).                                        *)
(*                                                                         *)
(* Nothing is in a transaction: the statements of a migration are executed *)
(* one by one, then the migration is recorded.  A process may be killed    *)
(* between any two, and since no busy timeout is set each of them fails at *)
(* once when another process is in the way: the lock of a SELECT is enough *)
(* to make the commit of a CREATE fail, and the other way round.           *)
(***************************************************************************)
EXTENDS Naturals, Sequences

CONSTANTS
    Procs,          \* the processes that open the database
    Migrations      \* sequence of [name, creates, ifNotExists]: the objects the
                    \* statements of the migration create, in order

Steps == 1..Len(Migrations)
Creates(m) == {Migrations[m].creates[k] : k \in 1..Len(Migrations[m].creates)}
Objects == UNION {Creates(m) : m \in Steps}
Names == {Migrations[m].name : m \in Steps}

ASSUME MigrationsAssumption ==
    /\ Migrations \in Seq([name : STRING, creates : Seq(STRING), ifNotExists : BOOLEAN])
    /\ \A m, n \in Steps : m # n =>
         Migrations[m].name # Migrations[n].name /\ Creates(m) \cap Creates(n) = {}
    /\ \A m \in Steps : \A j, k \in 1..Len(Migrations[m].creates) :
         Migrations[m].creates[j] = Migrations[m].creates[k] => j = k

VARIABLES
    objects,    \* tables and indexes that exist
    recorded,   \* names in _crawler_migrations
    pc, step, stmt,     \* where the Migrate of each process is
    cut         \* history: a process was stopped, by a kill or a lock error, in
                \* the middle of a migration that cannot be begun twice

vars == <<objects, recorded, pc, step, stmt, cut>>

Running == {"check", "apply", "record"}
Ended == {"idle", "ok", "locked", "exists"}

Goto(p, l) == pc' = [pc EXCEPT ![p] = l]

\* p has created objects of a CREATE migration and not recorded it.
Begun(p) ==
    /\ pc[p] = "record" \/ (pc[p] = "apply" /\ stmt[p] > 1)
    /\ ~Migrations[step[p]].ifNotExists

\* The process starts; createMigrationsTable, which succeeds when the table
\* is there.
Start(p) ==
    /\ pc[p] \in Ended
    /\ Goto(p, "check")
    /\ step' = [step EXCEPT ![p] = 1]
    /\ UNCHANGED <<objects, recorded, stmt, cut>>

\* Definitions named Bug* are plausible mistakes in the definition after them,
\* kept to show that the properties notice them.
BugCheckRefusesApplied(p) ==
    /\ pc[p] = "check"
    /\ IF step[p] > Len(Migrations) THEN Goto(p, "ok") /\ UNCHANGED stmt
       ELSE IF Migrations[step[p]].name \in recorded
         THEN Goto(p, "exists") /\ UNCHANGED stmt
         ELSE Goto(p, "apply") /\ stmt' = [stmt EXCEPT ![p] = 1]
    /\ UNCHANGED <<objects, recorded, step, cut>>

\* SELECT COUNT(*) FROM _crawler_migrations WHERE name = ?
Check(p) ==
    /\ pc[p] = "check"
    /\ IF step[p] > Len(Migrations) THEN Goto(p, "ok") /\ UNCHANGED <<step, stmt>>
       ELSE IF Migrations[step[p]].name \in recorded
         THEN step' = [step EXCEPT ![p] = @ + 1] /\ UNCHANGED <<pc, stmt>>
         ELSE Goto(p, "apply") /\ stmt' = [stmt EXCEPT ![p] = 1] /\ UNCHANGED step
    /\ UNCHANGED <<objects, recorded, cut>>

BugSkipExisting(p) ==
    /\ pc[p] = "apply" /\ stmt[p] <= Len(Migrations[step[p]].creates)
    /\ LET o == Migrations[step[p]].creates[stmt[p]] IN
         IF o \in objects /\ ~Migrations[step[p]].ifNotExists
           THEN stmt' = [stmt EXCEPT ![p] = Len(Migrations[step[p]].creates) + 1] /\ UNCHANGED <<pc, objects>>
           ELSE /\ objects' = objects \cup {o}
                /\ stmt' = [stmt EXCEPT ![p] = @ + 1]
                /\ UNCHANGED pc
    /\ UNCHANGED <<recorded, step, cut>>

\* One statement; CREATE without IF NOT EXISTS fails on an object that exists.
Apply(p) ==
    /\ pc[p] = "apply" /\ stmt[p] <= Len(Migrations[step[p]].creates)
    /\ LET o == Migrations[step[p]].creates[stmt[p]] IN
         IF o \in objects /\ ~Migrations[step[p]].ifNotExists
           THEN Goto(p, "exists") /\ UNCHANGED <<objects, stmt>>
           ELSE /\ objects' = objects \cup {o}
                /\ stmt' = [stmt EXCEPT ![p] = @ + 1]
                /\ UNCHANGED pc
    /\ UNCHANGED <<recorded, step, cut>>

Applied(p) ==
    /\ pc[p] = "apply" /\ stmt[p] > Len(Migrations[step[p]].creates)
    /\ Goto(p, "record")
    /\ UNCHANGED <<objects, recorded, step, stmt, cut>>

BugRecordLost(p) ==
    /\ pc[p] = "record"
    /\ step' = [step EXCEPT ![p] = @ + 1] /\ Goto(p, "check")
    /\ UNCHANGED <<objects, recorded, stmt, cut>>
BugRecordSkipsNext(p) ==
    /\ pc[p] = "record"
    /\ recorded' = recorded \cup {Migrations[step[p]].name}
    /\ step' = [step EXCEPT ![p] = @ + 2] /\ Goto(p, "check")
    /\ UNCHANGED <<objects, stmt, cut>>

\* INSERT INTO _crawler_migrations: the name is the primary key, so of two
\* processes that applied one migration the second fails here.
Record(p) ==
    /\ pc[p] = "record"
    /\ LET n == Migrations[step[p]].name IN
         IF n \in recorded
           THEN Goto(p, "exists") /\ UNCHANGED <<recorded, step>>
           ELSE /\ recorded' = recorded \cup {n}
                /\ step' = [step EXCEPT ![p] = @ + 1]
                /\ Goto(p, "check")
    /\ UNCHANGED <<objects, stmt, cut>>

\* A statement, or the creation of the table of migrations (Start and then
\* this), finds the database locked by another process that has it open: it is
\* rolled back, and Migrate returns the error.
Locked(p) ==
    /\ pc[p] \in Running
    /\ \E q \in Procs \ {p} : pc[q] \in Running \cup {"ok"}
    /\ Goto(p, "locked")
    /\ cut' = (cut \/ Begun(p))
    /\ UNCHANGED <<objects, recorded, step, stmt>>

\* The process is killed, or a statement fails for a reason of its own.
Crash(p) ==
    /\ pc[p] \in Running
    /\ Goto(p, "idle")
    /\ cut' = (cut \/ Begun(p))
    /\ UNCHANGED <<objects, recorded, step, stmt>>

Init ==
    /\ objects = {} /\ recorded = {} /\ cut = FALSE
    /\ pc = [p \in Procs |-> "idle"]
    /\ step = [p \in Procs |-> 1] /\ stmt = [p \in Procs |-> 1]

Step(p) == Check(p) \/ Apply(p) \/ Applied(p) \/ Record(p)

Next == \E p \in Procs : Start(p) \/ Step(p) \/ Locked(p) \/ Crash(p)

Spec == Init /\ [][Next]_vars

\* The operating system runs a started process, and docker-compose starts a
\* process again that is not up.
FairSpec ==
    /\ Spec
    /\ \A p \in Procs : WF_vars(Step(p)) /\ WF_vars(pc[p] # "ok" /\ Start(p))

-----------------------------------------------------------------------------
(* What must hold. *)

TypeOK ==
    /\ objects \subseteq Objects /\ recorded \subseteq Names /\ cut \in BOOLEAN
    /\ pc \in [Procs -> Running \cup Ended]
    /\ step \in [Procs -> 1..(Len(Migrations) + 1)]
    /\ stmt \in [Procs -> Nat \ {0}]

\* A process whose Migrate returned without an error has the whole schema,
\* whatever the other processes did, and however often they were killed.
ReadySeesSchema == \A p \in Procs : pc[p] = "ok" => objects = Objects

Obj(m, k) == Migrations[m].creates[k]
Present(m) == {k \in 1..Len(Migrations[m].creates) : Obj(m, k) \in objects}

\* p is at migration m, and what exists of it is what p has created.
Owns(p, m) ==
    /\ step[p] = m /\ Begun(p)
    /\ pc[p] = "apply" => \A k \in Present(m) : k < stmt[p]

\* Processes that migrate together make each other fail, by objects that exist
\* and by locks; but as long as none is stopped in the middle of a migration
\* that cannot be begun twice, none such is left half done: what exists of it
\* before it is recorded belongs to a process that is still at it and goes on
\* where it is.
NothingStranded ==
    ~cut => \A m \in Steps :
        (~Migrations[m].ifNotExists /\ Migrations[m].name \notin recorded /\ Present(m) # {})
            => \E p \in Procs : Owns(p, m)

\* ... and then every process comes through in the end, started again after each
\* error or kill, once the kills and the lock errors stop.
Disturbed == \E p \in Procs : Locked(p) \/ Crash(p)
RestartsConverge ==
    ([]~cut /\ <>[][~Disturbed]_vars) => \A p \in Procs : <>(pc[p] = "ok")
=============================================================================

----------------------------- MODULE MigrateTool -----------------------------
(***************************************************************************)
(* cmd/migrate: reads the rows of mcp_servers from one database, sends     *)
(* each batch through the engines and stores it, then its checkpoint, in   *)
(* another.  What the engines make of a row is module Evaluation's.        *)
(*                                                                         *)
(* The loop scans the cursor of database/sql without ever calling Next: a  *)
(* cursor stands before its first row until Next is called, and Scan is an *)
(* error there, which ends the loop.  The rest of the loop is modelled as  *)
(* it is written, for a cursor that stands on a row.                       *)
(***************************************************************************)
EXTENDS Naturals, Sequences

CONSTANTS
    Servers,        \* ids of the rows of mcp_servers, in order
    Slug,           \* id -> slug
    BatchSize,      \* at least 1
    DryRun

VARIABLES
    pc,
    cursor,         \* the row the cursor stands on, 0: before the first
    batch,          \* read and not processed
    checkpointed,   \* ids loaded when the tool started
    report,         \* ids counted as succeeded and as failed
    entities,       \* ids in the output database
    checkpoints     \* ids in its migration_checkpoint

database == <<entities, checkpoints>>
vars == <<pc, cursor, batch, checkpointed, report, database>>

NothingReported == [succeeded |-> {}, failed |-> {}]

Init ==
    /\ pc = "idle" /\ cursor = 0 /\ batch = <<>>
    /\ checkpointed = {} /\ report = NothingReported
    /\ entities = {} /\ checkpoints = {}

\* Opens and migrates the output, loads the checkpoints, queries the input.
Start ==
    /\ pc \in {"idle", "done"}
    /\ pc' = "scan"
    /\ cursor' = 0 /\ batch' = <<>> /\ report' = NothingReported
    /\ checkpointed' = IF DryRun THEN {} ELSE checkpoints
    /\ UNCHANGED database

\* rows.Scan: what it needs, and where it leaves the cursor.
OnRow == cursor \in 1..Len(Servers)
AfterScan == cursor

ScanRow ==
    /\ pc = "scan"
    /\ IF ~OnRow
       THEN /\ pc' = IF batch = <<>> THEN "report" ELSE "rest"
            /\ UNCHANGED <<cursor, batch, report>>
       ELSE /\ cursor' = AfterScan
            /\ IF Servers[cursor] \in checkpointed
               THEN /\ report' = [report EXCEPT !.succeeded = @ \cup {Servers[cursor]}]
                    /\ UNCHANGED <<pc, batch>>
               ELSE /\ batch' = Append(batch, Servers[cursor])
                    /\ pc' = IF Len(batch) + 1 >= BatchSize THEN "batch" ELSE "scan"
                    /\ UNCHANGED report
    /\ UNCHANGED <<checkpointed, database>>

\* processBatch runs for a full batch and for the rest.
Processing == pc \in {"batch", "rest"}
Processed == batch' = Tail(batch)

\* One row: Save, which the slug of another entity refuses, and the checkpoint
\* after it.
SaveRow ==
    /\ Processing /\ batch # <<>>
    /\ IF DryRun \/ \A i \in entities : i # Head(batch) => Slug[i] # Slug[Head(batch)]
       THEN /\ pc' = IF pc = "batch" THEN "batch checkpoint" ELSE "rest checkpoint"
            /\ entities' = IF DryRun THEN entities ELSE entities \cup {Head(batch)}
            /\ UNCHANGED <<batch, report>>
       ELSE /\ report' = [report EXCEPT !.failed = @ \cup {Head(batch)}]
            /\ Processed
            /\ UNCHANGED <<pc, entities>>
    /\ UNCHANGED <<cursor, checkpointed, checkpoints>>

\* The error of the checkpoint is dropped.
Checkpoint ==
    /\ pc \in {"batch checkpoint", "rest checkpoint"}
    /\ pc' = IF pc = "batch checkpoint" THEN "batch" ELSE "rest"
    /\ report' = [report EXCEPT !.succeeded = @ \cup {Head(batch)}]
    /\ checkpoints' \in {checkpoints} \cup (IF DryRun THEN {} ELSE {checkpoints \cup {Head(batch)}})
    /\ Processed
    /\ UNCHANGED <<cursor, checkpointed, entities>>

BatchEnds ==
    /\ Processing /\ batch = <<>>
    /\ pc' = IF pc = "batch" THEN "scan" ELSE "report"
    /\ UNCHANGED <<cursor, batch, checkpointed, report, database>>

\* printReport and exit status 0.
Report ==
    /\ pc = "report"
    /\ pc' = "done"
    /\ UNCHANGED <<cursor, batch, checkpointed, report, database>>

Crash ==
    /\ pc \notin {"idle", "done"}
    /\ pc' = "idle"
    /\ UNCHANGED <<cursor, batch, checkpointed, report, database>>

Next == Start \/ ScanRow \/ SaveRow \/ Checkpoint \/ BatchEnds \/ Report \/ Crash

Spec == Init /\ [][Next]_vars

-----------------------------------------------------------------------------
\* docs/migration.md promises a "Full migration (reclassifies all entities)".
\* Whatever the input holds, nothing is stored and nothing reported, not even as
\* failed, and the tool ends without an error: what comes after the first Scan
\* never happens.
NothingMigrated ==
    /\ entities = {} /\ checkpoints = {}
    /\ report = NothingReported
    /\ pc \in {"idle", "scan", "report", "done"}
=============================================================================

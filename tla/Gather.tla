------------------------------- MODULE Gather --------------------------------
(***************************************************************************)
(* What the rest of a run may count on from discovery and normalisation,   *)
(* seen as two steps: discovery hands over some of the records the sources *)
(* have, once; it fails only when the run was cancelled, and only in the   *)
(* modes that need its answer; records are turned into entities all or not *)
(* at all, and never once the run is cancelled.  These are the two steps   *)
(* Pipeline takes; Discovery shows the goroutines implement them.          *)
(***************************************************************************)
CONSTANTS AllRecords, Modes, NeedDiscovery

VARIABLES phase, mode, cancelled, handed, entities, outcome

GatherVars == <<phase, mode, cancelled, handed, entities, outcome>>

GatherInit ==
    /\ phase = "gather" /\ mode \in Modes /\ cancelled = FALSE
    /\ handed = {} /\ entities = {} /\ outcome = "none"

Cancel == cancelled' = TRUE /\ UNCHANGED <<phase, mode, handed, entities, outcome>>

HandOver ==
    /\ phase = "gather"
    /\ phase' = IF mode = "discovery-only" THEN "done" ELSE "normalize"
    /\ outcome' = IF mode = "discovery-only" THEN "ok" ELSE "none"
    /\ handed' \in SUBSET AllRecords
    /\ UNCHANGED <<mode, cancelled, entities>>

Fail ==
    /\ phase = "gather" /\ cancelled /\ mode \in NeedDiscovery
    /\ phase' = "done" /\ outcome' = "error"
    /\ UNCHANGED <<mode, cancelled, handed, entities>>

Turn ==
    /\ phase = "normalize" /\ phase' = "done"
    /\ \/ outcome' = "ok" /\ entities' = handed
       \/ cancelled /\ handed # {} /\ outcome' = "error" /\ UNCHANGED entities
    /\ UNCHANGED <<mode, cancelled, handed>>

GatherNext == Cancel \/ HandOver \/ Fail \/ Turn

GatherSpec == GatherInit /\ [][GatherNext]_GatherVars
=============================================================================

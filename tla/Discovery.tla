------------------------------ MODULE Discovery ------------------------------
(***************************************************************************)
(* The first two stages of PipelineCoordinator.Run at the level of their   *)
(* goroutines: runDiscovery starts one goroutine for each source, at most  *)
(* `workers` of which call their source at once, all appending to one      *)
(* slice under a mutex; runNormalize then turns the records into entities. *)
(*                                                                         *)
(* When the context is cancelled before the last source is launched,       *)
(* runDiscovery returns WITHOUT waiting for the goroutines it launched,    *)
(* and without the mutex, so the slice it returns may be one a goroutine   *)
(* is appending to: TornSlice is the result of reading the slice header    *)
(* in the middle of that.                                                  *)
(***************************************************************************)
EXTENDS Integers, Sequences, FiniteSets

CONSTANTS
    Sources,        \* the adapters, in the order they are launched
    Candidates,     \* candidate of each adapter: a record, or NoRecord
    Workers,        \* PipelineConfig.Workers
    NoRecord,       \* nothing: a Fetch that answered nil, a free mutex
    TornSlice       \* see above

Adapters == {Sources[k] : k \in 1..Len(Sources)}
AllRecords == UNION {{Candidates[a][k] : k \in 1..Len(Candidates[a])} : a \in Adapters}

ASSUME DiscoveryAssumption ==
    /\ Sources \in Seq(Adapters)
    /\ \A j, k \in 1..Len(Sources) : Sources[j] = Sources[k] => j = k
    /\ Candidates \in [Adapters -> Seq(AllRecords)]
    /\ Workers \in Int
    /\ NoRecord \notin AllRecords \cup Adapters
    /\ \A S \in SUBSET AllRecords : TornSlice # S

Modes == {"full", "discovery-only", "classify-only", "verify-only"}

\* The modes in which Run gives up when discovery fails.
NeedDiscovery == {"full", "discovery-only"}

Slots == IF Workers < 1 THEN 4 ELSE Workers

VARIABLES
    mode, ctxDone,
    pc,         \* Run: "launch", "wait", "normalize", "done"
    launched,   \* how many sources were launched
    gpc,        \* the goroutine of each source
    queue,      \* candidates each goroutine has still to fetch
    fetched,    \* the record each goroutine has in hand
    sem,        \* tokens in the semaphore channel
    mu,         \* the goroutine that holds the mutex, or NoRecord
    local,      \* the slice as read by the goroutine that holds the mutex
    allRecords, \* the shared slice, as a set
    answered,   \* history: every record a Fetch returned
    result,     \* what runDiscovery returned
    servers,    \* runNormalize: records normalised so far
    entities,   \* what runNormalize returned
    outcome

goVars == <<gpc, queue, fetched, sem, mu, local, allRecords, answered>>
runVars == <<pc, launched, result, servers, entities, outcome>>
vars == <<mode, ctxDone, goVars, runVars>>

Running == {a \in Adapters : gpc[a] \notin {"new", "done"}}

-----------------------------------------------------------------------------
(* A goroutine. *)

Goto(a, l) == gpc' = [gpc EXCEPT ![a] = l]

\* select between the context and the semaphore: either, when both are ready.
GiveUp(a) ==
    /\ gpc[a] = "sem" /\ ctxDone
    /\ Goto(a, "done")
    /\ UNCHANGED <<mode, ctxDone, queue, fetched, sem, mu, local, allRecords, answered, runVars>>

\* Definitions named Bug* are plausible mistakes in the definition after them,
\* kept to show that the properties notice them.
BugAcquireOneMore(a) ==
    /\ gpc[a] = "sem" /\ sem <= Slots
    /\ sem' = sem + 1
    /\ Goto(a, "discover")
    /\ UNCHANGED <<mode, ctxDone, queue, fetched, mu, local, allRecords, answered, runVars>>

Acquire(a) ==
    /\ gpc[a] = "sem" /\ sem < Slots
    /\ sem' = sem + 1
    /\ Goto(a, "discover")
    /\ UNCHANGED <<mode, ctxDone, queue, fetched, mu, local, allRecords, answered, runVars>>

BugReleaseTwice(a) == Goto(a, "done") /\ sem' = sem - 2

\* The deferred release of the token and of the wait group.
Return(a) == Goto(a, "done") /\ sem' = sem - 1

BugErrorKeepsToken(a) ==
    /\ gpc[a] = "discover"
    /\ \/ Goto(a, "next") /\ queue' = [queue EXCEPT ![a] = Candidates[a]]
       \/ Goto(a, "done") /\ UNCHANGED queue
    /\ UNCHANGED <<mode, ctxDone, fetched, sem, mu, local, allRecords, answered, runVars>>

Discover(a) ==
    /\ gpc[a] = "discover"
    /\ \/ Goto(a, "next") /\ queue' = [queue EXCEPT ![a] = Candidates[a]] /\ UNCHANGED sem
       \/ Return(a) /\ UNCHANGED queue          \* disabled, or an error
    /\ UNCHANGED <<mode, ctxDone, fetched, mu, local, allRecords, answered, runVars>>

\* The head of the loop over the candidates; the Fetch it starts.
NextCandidate(a) ==
    /\ gpc[a] = "next"
    /\ IF queue[a] = <<>> \/ ctxDone
         THEN Return(a) /\ UNCHANGED <<queue, fetched>>
         ELSE /\ Goto(a, "fetch")
              /\ fetched' = [fetched EXCEPT ![a] = Head(queue[a])]
              /\ queue' = [queue EXCEPT ![a] = Tail(queue[a])]
              /\ UNCHANGED sem
    /\ UNCHANGED <<mode, ctxDone, mu, local, allRecords, answered, runVars>>

Fetch(a) ==
    /\ gpc[a] = "fetch"
    /\ \/ Goto(a, "lock") /\ answered' = answered \cup {fetched[a]} /\ UNCHANGED fetched
       \/ /\ Goto(a, "next") /\ UNCHANGED answered      \* an error, or nil
          /\ fetched' = [fetched EXCEPT ![a] = NoRecord]
    /\ UNCHANGED <<mode, ctxDone, queue, sem, mu, local, allRecords, runVars>>

BugLockIgnoresMutex(a) ==
    /\ gpc[a] = "lock"
    /\ mu' = a
    /\ local' = [local EXCEPT ![a] = allRecords]
    /\ Goto(a, "append")
    /\ UNCHANGED <<mode, ctxDone, queue, fetched, sem, allRecords, answered, runVars>>

\* mu.Lock(), and append reads the slice ...
Lock(a) ==
    /\ gpc[a] = "lock" /\ mu = NoRecord
    /\ mu' = a
    /\ local' = [local EXCEPT ![a] = allRecords]
    /\ Goto(a, "append")
    /\ UNCHANGED <<mode, ctxDone, queue, fetched, sem, allRecords, answered, runVars>>

\* ... and assigns it, and mu.Unlock().
AppendRecord(a) ==
    /\ gpc[a] = "append"
    /\ allRecords' = local[a] \cup {fetched[a]}
    /\ mu' = NoRecord
    /\ local' = [local EXCEPT ![a] = {}]
    /\ fetched' = [fetched EXCEPT ![a] = NoRecord]
    /\ Goto(a, "next")
    /\ UNCHANGED <<mode, ctxDone, queue, sem, answered, runVars>>

Goroutine(a) ==
    \/ GiveUp(a) \/ Acquire(a) \/ Discover(a) \/ NextCandidate(a)
    \/ Fetch(a) \/ Lock(a) \/ AppendRecord(a)

-----------------------------------------------------------------------------
(* Run. *)

Launch ==
    /\ pc = "launch" /\ launched < Len(Sources) /\ ~ctxDone
    /\ launched' = launched + 1
    /\ Goto(Sources[launched + 1], "sem")
    /\ UNCHANGED <<mode, ctxDone, queue, fetched, sem, mu, local, allRecords, answered,
                   pc, result, servers, entities, outcome>>

\* The early return: the slice is read while goroutines may be writing it.
\* Run stops with the error, or drops it and goes on with the slice.
ReturnEarly ==
    /\ pc = "launch" /\ launched < Len(Sources) /\ ctxDone
    /\ IF mode \in NeedDiscovery
         THEN pc' = "done" /\ outcome' = "error" /\ UNCHANGED result
         ELSE /\ pc' = "normalize" /\ UNCHANGED outcome
              /\ \/ \E S \in SUBSET allRecords : result' = S
                 \/ result' = TornSlice /\ \E a \in Adapters : gpc[a] = "append"
    /\ UNCHANGED <<mode, ctxDone, goVars, launched, servers, entities>>

AllLaunched ==
    /\ pc = "launch" /\ launched = Len(Sources)
    /\ pc' = "wait"
    /\ UNCHANGED <<mode, ctxDone, goVars, launched, result, servers, entities, outcome>>

\* wg.Wait() returned.
Wait ==
    /\ pc = "wait" /\ Running = {}
    /\ result' = allRecords
    /\ IF mode = "discovery-only" THEN pc' = "done" /\ outcome' = "ok"
                                  ELSE pc' = "normalize" /\ UNCHANGED outcome
    /\ UNCHANGED <<mode, ctxDone, goVars, launched, servers, entities>>

BugNormalizeIgnoresContext ==
    /\ pc = "normalize" /\ result # TornSlice
    /\ \E r \in result \ servers : servers' = servers \cup {r}
    /\ UNCHANGED <<mode, ctxDone, goVars, pc, launched, result, entities, outcome>>

\* runNormalize: the context is looked at before each record is read.
NormalizeOne ==
    /\ pc = "normalize" /\ ~ctxDone
    /\ \E r \in result \ servers : servers' = servers \cup {r}
    /\ UNCHANGED <<mode, ctxDone, goVars, pc, launched, result, entities, outcome>>

BugCancelledReturnsPart ==
    /\ pc = "normalize" /\ ctxDone /\ result # servers
    /\ entities' = servers
    /\ pc' = "done" /\ outcome' = "ok"
    /\ UNCHANGED <<mode, ctxDone, goVars, launched, result, servers>>

NormalizeCancelled ==
    /\ pc = "normalize" /\ ctxDone /\ result # servers
    /\ pc' = "done" /\ outcome' = "error"
    /\ UNCHANGED <<mode, ctxDone, goVars, launched, result, servers, entities>>

NormalizeDone ==
    /\ pc = "normalize" /\ result = servers
    /\ entities' = servers
    /\ pc' = "done" /\ outcome' = "ok"
    /\ UNCHANGED <<mode, ctxDone, goVars, launched, result, servers>>

Signal ==
    /\ ~ctxDone /\ ctxDone' = TRUE
    /\ UNCHANGED <<mode, goVars, runVars>>

Main == Launch \/ ReturnEarly \/ AllLaunched \/ Wait \/ NormalizeOne \/ NormalizeCancelled \/ NormalizeDone

Init ==
    /\ mode \in Modes /\ ctxDone = FALSE
    /\ pc = "launch" /\ launched = 0
    /\ gpc = [a \in Adapters |-> "new"]
    /\ queue = [a \in Adapters |-> <<>>]
    /\ fetched = [a \in Adapters |-> NoRecord]
    /\ sem = 0 /\ mu = NoRecord /\ local = [a \in Adapters |-> {}]
    /\ allRecords = {} /\ answered = {}
    /\ result = {} /\ servers = {} /\ entities = {} /\ outcome = "none"

Finished == pc = "done" /\ Running = {} /\ UNCHANGED vars

Next == Main \/ (\E a \in Adapters : Goroutine(a)) \/ Signal \/ Finished

Spec == Init /\ [][Next]_vars

\* Go schedules every goroutine, and its calls return: HTTP requests have a
\* timeout and sources observe the context.
FairSpec == Spec /\ WF_vars(Main) /\ \A a \in Adapters : WF_vars(Goroutine(a))

-----------------------------------------------------------------------------
(* What must hold. *)

Labels == {"new", "sem", "discover", "next", "fetch", "lock", "append", "done"}

TypeOK ==
    /\ mode \in Modes /\ ctxDone \in BOOLEAN
    /\ pc \in {"launch", "wait", "normalize", "done"} /\ launched \in 0..Len(Sources)
    /\ gpc \in [Adapters -> Labels]
    /\ queue \in [Adapters -> Seq(AllRecords)]
    /\ fetched \in [Adapters -> AllRecords \cup {NoRecord}]
    /\ sem \in 0..Slots /\ mu \in Adapters \cup {NoRecord}
    /\ local \in [Adapters -> SUBSET AllRecords]
    /\ allRecords \subseteq AllRecords /\ answered \subseteq AllRecords
    /\ result \in {TornSlice} \cup SUBSET AllRecords
    /\ servers \subseteq AllRecords /\ entities \subseteq AllRecords
    /\ outcome \in {"none", "ok", "error"}

\* --workers bounds the sources that are called at once, in whatever order
\* goroutines take and give back their tokens.
AtMostWorkers ==
    Cardinality({a \in Adapters : gpc[a] \in {"discover", "next", "fetch", "lock", "append"}}) <= Slots

\* When every source was launched, runDiscovery returns every record a Fetch
\* answered: no append overwrites another one, and none is still to come.
NoRecordLost ==
    launched = Len(Sources) /\ pc \in {"normalize", "done"} => result = answered

\* The slice of the early return, which goroutines may be writing, is never
\* looked into: a run that has entities has waited for every source.
EntitiesAreWhole ==
    /\ entities # {} => launched = Len(Sources) /\ entities = answered
    /\ result = TornSlice => servers = {}

\* Seen from the stages after them, discovery and normalisation are the two
\* steps of Gather.  A torn slice is any slice that is not empty.
G == INSTANCE Gather WITH
       phase <- IF pc \in {"launch", "wait"} THEN "gather" ELSE pc,
       cancelled <- ctxDone,
       handed <- IF result = TornSlice THEN AllRecords ELSE result
ImplementsGather == G!GatherSpec

\* The run returns, and every goroutine it launched ends, also the ones it did
\* not wait for.
EverythingEnds == <>(pc = "done" /\ Running = {})
=============================================================================

--------------------------- MODULE DiscoveryProofs ---------------------------
(***************************************************************************)
(* Theorems about Discovery for any number of sources, candidates and      *)
(* workers.                                                                *)
(***************************************************************************)
EXTENDS Discovery, FiniteSetTheorems, TLAPS

-----------------------------------------------------------------------------
(* The inductive invariant. *)

\* Between taking a token and giving it back.
Holding == {"discover", "next", "fetch", "lock", "append"}
Holders == {a \in Adapters : gpc[a] \in Holding}

\* The channel holds one token for each goroutine that took one.
SemInv == sem = Cardinality(Holders)

\* The mutex is held by the goroutine in the middle of its append, whose copy
\* of the slice is up to date.
MutexInv ==
    \A a \in Adapters : /\ gpc[a] = "append" <=> mu = a
                        /\ gpc[a] = "append" => local[a] = allRecords

\* What was answered is in the slice or in the hands of a goroutine.
InHand(a) == gpc[a] \in {"lock", "append"}
RecordInv ==
    /\ \A a \in Adapters : gpc[a] \in {"fetch", "lock", "append"} => fetched[a] \in AllRecords
    /\ \A a \in Adapters : InHand(a) => fetched[a] \in answered
    /\ allRecords \subseteq answered
    /\ \A r \in answered : r \in allRecords \/ \E a \in Adapters : InHand(a) /\ fetched[a] = r

\* Goroutines are launched in order.
LaunchInv == \A k \in 1..Len(Sources) : gpc[Sources[k]] = "new" <=> k > launched

Handed == pc \in {"normalize", "done"}

\* What Run knows: either it waited for every source, or it was cancelled and
\* looks at nothing any more.
PhaseInv ==
    /\ pc = "wait" => launched = Len(Sources)
    /\ Handed /\ launched = Len(Sources) => Running = {} /\ result = allRecords
    /\ Handed /\ launched # Len(Sources) => ctxDone /\ servers = {} /\ entities = {}
    /\ ~Handed => result = {} /\ servers = {}
    /\ pc # "done" => entities = {} /\ outcome = "none"
    /\ result = TornSlice => launched # Len(Sources) /\ AllRecords # {}
    /\ result # TornSlice => servers \subseteq result
    /\ entities # {} => entities = result

Inv == TypeOK /\ SemInv /\ MutexInv /\ RecordInv /\ LaunchInv /\ PhaseInv

-----------------------------------------------------------------------------
(* Facts about the constants. *)

LEMMA SlotsNat == Slots \in Nat \ {0}
BY DiscoveryAssumption DEF Slots

LEMMA SourcesFacts ==
    /\ Len(Sources) \in Nat
    /\ \A k \in 1..Len(Sources) : Sources[k] \in Adapters
    /\ \A a \in Adapters : \E k \in 1..Len(Sources) : Sources[k] = a
BY DiscoveryAssumption DEF Adapters

LEMMA AdaptersFinite == IsFiniteSet(Adapters)
<1> DEFINE I == 1..Len(Sources)
           f == [k \in I |-> Sources[k]]
<1>1. IsFiniteSet(I)
  BY FS_Interval, SourcesFacts
<1>2. f \in Surjection(I, Adapters)
  <2>1. f \in [I -> Adapters]
    BY SourcesFacts
  <2>2. \A a \in Adapters : \E k \in I : f[k] = a
    BY SourcesFacts
  <2> QED BY <2>1, <2>2 DEF Surjection
<1> QED BY <1>1, <1>2, FS_Surjection

LEMMA NothingFacts ==
    /\ NoRecord \notin AllRecords /\ NoRecord \notin Adapters
    /\ \A S \in SUBSET AllRecords : TornSlice # S
    /\ Candidates \in [Adapters -> Seq(AllRecords)]
BY DiscoveryAssumption

-----------------------------------------------------------------------------
(* Tokens. *)

LEMMA HoldersCount ==
    IsFiniteSet(Holders) /\ Cardinality(Holders) \in Nat
BY AdaptersFinite, FS_Subset, FS_CardinalityType DEF Holders

LEMMA Enter ==
    ASSUME TypeOK, NEW a \in Adapters, gpc[a] = "sem", Goto(a, "discover")
    PROVE  Cardinality(Holders') = Cardinality(Holders) + 1
<1>1. a \notin Holders
  BY DEF Holders, Holding
<1>2. Holders' = Holders \cup {a}
  BY DEF Holders, Holding, Goto, TypeOK
<1> QED BY <1>1, <1>2, HoldersCount, FS_AddElement

LEMMA Leave ==
    ASSUME TypeOK, NEW a \in Adapters, gpc[a] \in Holding, Goto(a, "done")
    PROVE  /\ Cardinality(Holders') = Cardinality(Holders) - 1
           /\ Cardinality(Holders) >= 1
<1>1. a \in Holders
  BY DEF Holders
<1>2. Holders' = Holders \ {a}
  BY DEF Holders, Holding, Goto, TypeOK
<1>3. Cardinality(Holders') = Cardinality(Holders) - 1
  BY <1>1, <1>2, HoldersCount, FS_RemoveElement
<1>4. Cardinality(Holders) # 0
  BY <1>1, HoldersCount, FS_EmptySet
<1> QED BY <1>3, <1>4, HoldersCount

LEMMA Stay ==
    ASSUME TypeOK, NEW a \in Adapters, NEW l, Goto(a, l), gpc[a] \in Holding <=> l \in Holding
    PROVE  Holders' = Holders
BY DEF Holders, Goto, TypeOK

-----------------------------------------------------------------------------
(* Types and tokens. *)

LEMMA InitInv == Init => Inv
<1> SUFFICES ASSUME Init PROVE Inv
  OBVIOUS
<1> USE SourcesFacts, SlotsNat, NothingFacts
<1>1. TypeOK
  <2>1. [a \in Adapters |-> <<>>] \in [Adapters -> Seq(AllRecords)]
    OBVIOUS
  <2>2. sem \in 0..Slots
    BY DEF Init
  <2>3. gpc \in [Adapters -> Labels]
    BY DEF Init, Labels
  <2>4. fetched \in [Adapters -> AllRecords \cup {NoRecord}]
    BY DEF Init
  <2>5. local \in [Adapters -> SUBSET AllRecords]
    BY DEF Init
  <2>6. queue \in [Adapters -> Seq(AllRecords)]
    BY <2>1 DEF Init
  <2>7. launched \in 0..Len(Sources)
    BY DEF Init
  <2> QED BY <2>2, <2>3, <2>4, <2>5, <2>6, <2>7 DEF Init, TypeOK
<1>2. SemInv
  <2>1. Holders = {}
    BY DEF Init, Holders, Holding
  <2> QED BY <2>1, FS_EmptySet DEF Init, SemInv
<1>3. MutexInv
  BY DEF Init, MutexInv
<1>4. RecordInv
  BY DEF Init, RecordInv, InHand
<1>5. LaunchInv
  BY DEF Init, LaunchInv
<1>6. PhaseInv
  <2>1. TornSlice # {}
    BY NothingFacts
  <2> QED BY <2>1 DEF Init, PhaseInv, Handed
<1> QED BY <1>1, <1>2, <1>3, <1>4, <1>5, <1>6 DEF Inv

LEMMA TypeNext == Inv /\ [Next]_vars => TypeOK' /\ SemInv'
<1> SUFFICES ASSUME TypeOK, SemInv, LaunchInv, PhaseInv, RecordInv, [Next]_vars
             PROVE  TypeOK' /\ SemInv'
  BY DEF Inv
<1> USE SourcesFacts, SlotsNat, NothingFacts, HoldersCount
<1>1. ASSUME NEW a \in Adapters, GiveUp(a) PROVE TypeOK' /\ SemInv'
  <2>1. Holders' = Holders
    BY <1>1, Stay DEF GiveUp, Holding
  <2> QED BY <1>1, <2>1 DEF GiveUp, Goto, TypeOK, Labels, SemInv, runVars
<1>2. ASSUME NEW a \in Adapters, Acquire(a) PROVE TypeOK' /\ SemInv'
  <2>1. Cardinality(Holders') = Cardinality(Holders) + 1
    BY <1>2, Enter DEF Acquire
  <2> QED BY <1>2, <2>1 DEF Acquire, Goto, TypeOK, Labels, SemInv, runVars
<1>3. ASSUME NEW a \in Adapters, Return(a), gpc[a] \in Holding
      PROVE  /\ gpc' \in [Adapters -> Labels]
             /\ sem' \in 0..Slots /\ sem' = Cardinality(Holders')
  <2>1. Goto(a, "done") /\ sem' = sem - 1
    BY <1>3 DEF Return
  <2>2. Cardinality(Holders') = Cardinality(Holders) - 1 /\ Cardinality(Holders) >= 1
    BY <1>3, <2>1, Leave
  <2>3. gpc' \in [Adapters -> Labels]
    BY <2>1 DEF Goto, TypeOK, Labels
  <2>4. sem \in 0..Slots /\ sem = Cardinality(Holders)
    BY DEF TypeOK, SemInv
  <2> QED BY <2>1, <2>2, <2>3, <2>4
<1>4. ASSUME NEW a \in Adapters, Discover(a) PROVE TypeOK' /\ SemInv'
  <2>1. CASE Return(a) /\ UNCHANGED queue
    BY <1>3, <1>4, <2>1 DEF Discover, Holding, TypeOK, SemInv, runVars
  <2>2. CASE Goto(a, "next") /\ queue' = [queue EXCEPT ![a] = Candidates[a]] /\ UNCHANGED sem
    <3>1. Holders' = Holders
      BY <1>4, <2>2, Stay DEF Discover, Holding
    <3>2. Candidates[a] \in Seq(AllRecords)
      OBVIOUS
    <3> QED BY <1>4, <2>2, <3>1, <3>2 DEF Discover, Goto, TypeOK, Labels, SemInv, runVars
  <2> QED BY <1>4, <2>1, <2>2 DEF Discover
<1>5. ASSUME NEW a \in Adapters, NextCandidate(a) PROVE TypeOK' /\ SemInv'
  <2>1. CASE queue[a] = <<>> \/ ctxDone
    BY <1>3, <1>5, <2>1 DEF NextCandidate, Holding, TypeOK, SemInv, runVars
  <2>2. CASE ~(queue[a] = <<>> \/ ctxDone)
    <3>1. Holders' = Holders
      BY <1>5, <2>2, Stay DEF NextCandidate, Holding
    <3>2. Head(queue[a]) \in AllRecords /\ Tail(queue[a]) \in Seq(AllRecords)
      BY <2>2 DEF TypeOK
    <3>3. gpc' \in [Adapters -> Labels]
      <4>1. Goto(a, "fetch")
        BY <1>5, <2>2 DEF NextCandidate
      <4> QED BY <4>1 DEF Goto, TypeOK, Labels
    <3>4. fetched' \in [Adapters -> AllRecords \cup {NoRecord}]
      BY <1>5, <2>2, <3>2 DEF NextCandidate, TypeOK
    <3>5. queue' \in [Adapters -> Seq(AllRecords)]
      BY <1>5, <2>2, <3>2 DEF NextCandidate, TypeOK
    <3> QED BY <1>5, <2>2, <3>1, <3>3, <3>4, <3>5 DEF NextCandidate, TypeOK, SemInv, runVars
  <2> QED BY <2>1, <2>2
<1>6. ASSUME NEW a \in Adapters, Fetch(a) PROVE TypeOK' /\ SemInv'
  <2>1. Holders' = Holders
    BY <1>6, Stay DEF Fetch, Holding
  <2>2. fetched[a] \in AllRecords
    BY <1>6 DEF Fetch, RecordInv
  <2> QED BY <1>6, <2>1, <2>2 DEF Fetch, Goto, TypeOK, Labels, SemInv, runVars
<1>7. ASSUME NEW a \in Adapters, Lock(a) PROVE TypeOK' /\ SemInv'
  <2>1. Holders' = Holders
    BY <1>7, Stay DEF Lock, Holding
  <2> QED BY <1>7, <2>1 DEF Lock, Goto, TypeOK, Labels, SemInv, runVars
<1>8. ASSUME NEW a \in Adapters, AppendRecord(a) PROVE TypeOK' /\ SemInv'
  <2>1. Holders' = Holders
    BY <1>8, Stay DEF AppendRecord, Holding
  <2>2. fetched[a] \in AllRecords
    BY <1>8 DEF AppendRecord, RecordInv
  <2> QED BY <1>8, <2>1, <2>2 DEF AppendRecord, Goto, TypeOK, Labels, SemInv, runVars
<1>9. CASE Launch
  <2> DEFINE b == Sources[launched + 1]
  <2>1. launched + 1 \in 1..Len(Sources) /\ b \in Adapters /\ gpc[b] = "new"
    BY <1>9 DEF Launch, TypeOK, LaunchInv
  <2>2. gpc' \in [Adapters -> Labels]
    BY <1>9, <2>1 DEF Launch, Goto, TypeOK, Labels
  <2>3. Holders' = Holders
    BY <1>9, <2>1, Stay DEF Launch, Holding
  <2>4. TypeOK'
    BY <1>9, <2>2 DEF Launch, TypeOK
  <2> QED BY <1>9, <2>3, <2>4 DEF Launch, SemInv
<1>10. CASE ReturnEarly
  <2>1. Holders' = Holders
    BY <1>10 DEF ReturnEarly, Holders, goVars
  <2> QED BY <1>10, <2>1 DEF ReturnEarly, TypeOK, SemInv, goVars
<1>11. CASE AllLaunched \/ Wait
  <2>1. Holders' = Holders
    BY <1>11 DEF AllLaunched, Wait, Holders, goVars
  <2> QED BY <1>11, <2>1 DEF AllLaunched, Wait, TypeOK, SemInv, goVars
<1>12. CASE NormalizeOne \/ NormalizeCancelled \/ NormalizeDone
  <2>1. Holders' = Holders
    BY <1>12 DEF NormalizeOne, NormalizeCancelled, NormalizeDone, Holders, goVars
  <2>2. NormalizeOne => result \in SUBSET AllRecords
    BY DEF NormalizeOne, TypeOK, PhaseInv, Handed
  <2> QED BY <1>12, <2>1, <2>2 DEF NormalizeOne, NormalizeCancelled, NormalizeDone, TypeOK, SemInv, goVars
<1>13. CASE Signal \/ UNCHANGED vars
  <2>1. Holders' = Holders
    BY <1>13 DEF Signal, Holders, goVars, vars
  <2> QED BY <1>13, <2>1 DEF Signal, TypeOK, SemInv, goVars, runVars, vars
<1> QED
  BY <1>1, <1>2, <1>4, <1>5, <1>6, <1>7, <1>8, <1>9, <1>10, <1>11, <1>12, <1>13
     DEF Next, Main, Goroutine, Finished

-----------------------------------------------------------------------------
(* The mutex, the records and the launching. *)

LEMMA MutexNext == Inv /\ [Next]_vars => MutexInv' /\ RecordInv'
<1> SUFFICES ASSUME TypeOK, MutexInv, RecordInv, LaunchInv, [Next]_vars
             PROVE  MutexInv' /\ RecordInv'
  BY DEF Inv
<1> USE NothingFacts
<1>1. ASSUME NEW a \in Adapters, GiveUp(a) \/ Acquire(a) \/ Discover(a)
      PROVE  MutexInv' /\ RecordInv'
  <2>1. PICK l \in {"done", "discover", "next"} : Goto(a, l)
    BY <1>1 DEF GiveUp, Acquire, Discover, Return
  <2>2. gpc[a] \in {"sem", "discover"} /\ UNCHANGED <<fetched, mu, local, allRecords, answered>>
    BY <1>1 DEF GiveUp, Acquire, Discover
  <2> QED BY <2>1, <2>2 DEF Goto, TypeOK, MutexInv, RecordInv, InHand
<1>2. ASSUME NEW a \in Adapters, NextCandidate(a) PROVE MutexInv' /\ RecordInv'
  <2>1. gpc[a] = "next" /\ UNCHANGED <<mu, local, allRecords, answered>>
    BY <1>2 DEF NextCandidate
  <2>2. CASE Goto(a, "done") /\ UNCHANGED fetched
    BY <2>1, <2>2 DEF Goto, TypeOK, MutexInv, RecordInv, InHand
  <2>3. CASE ~(Goto(a, "done") /\ UNCHANGED fetched)
    <3>1. queue[a] # <<>> /\ Goto(a, "fetch") /\ fetched' = [fetched EXCEPT ![a] = Head(queue[a])]
      BY <1>2, <2>3 DEF NextCandidate, Return
    <3>2. Head(queue[a]) \in AllRecords
      BY <3>1 DEF TypeOK
    <3> QED BY <2>1, <3>1, <3>2 DEF Goto, TypeOK, MutexInv, RecordInv, InHand
  <2> QED BY <2>2, <2>3
<1>3. ASSUME NEW a \in Adapters, Fetch(a) PROVE MutexInv' /\ RecordInv'
  <2>1. gpc[a] = "fetch" /\ UNCHANGED <<mu, local, allRecords>>
    BY <1>3 DEF Fetch
  <2>2. CASE Goto(a, "lock") /\ answered' = answered \cup {fetched[a]} /\ UNCHANGED fetched
    <3>1. MutexInv'
      BY <2>1, <2>2 DEF Goto, TypeOK, MutexInv
    <3>2. RecordInv'
      BY <2>1, <2>2 DEF Goto, TypeOK, RecordInv, InHand
    <3> QED BY <3>1, <3>2
  <2>3. CASE /\ Goto(a, "next") /\ UNCHANGED answered
             /\ fetched' = [fetched EXCEPT ![a] = NoRecord]
    <3>1. MutexInv'
      BY <2>1, <2>3 DEF Goto, TypeOK, MutexInv
    <3>2. RecordInv'
      BY <2>1, <2>3 DEF Goto, TypeOK, RecordInv, InHand
    <3> QED BY <3>1, <3>2
  <2> QED BY <1>3, <2>2, <2>3 DEF Fetch
<1>4. ASSUME NEW a \in Adapters, Lock(a) PROVE MutexInv' /\ RecordInv'
  BY <1>4 DEF Lock, Goto, TypeOK, MutexInv, RecordInv, InHand
<1>5. ASSUME NEW a \in Adapters, AppendRecord(a) PROVE MutexInv' /\ RecordInv'
  <2>1. mu = a /\ local[a] = allRecords
    BY <1>5 DEF AppendRecord, MutexInv
  <2>2. \A b \in Adapters \ {a} : gpc[b] # "append"
    BY <2>1 DEF MutexInv
  <2>3. MutexInv'
    BY <1>5, <2>2 DEF AppendRecord, Goto, TypeOK, MutexInv
  <2>4. RecordInv'
    BY <1>5, <2>1 DEF AppendRecord, Goto, TypeOK, RecordInv, InHand
  <2> QED BY <2>3, <2>4
<1>6. CASE Launch
  <2> DEFINE b == Sources[launched + 1]
  <2>1. b \in Adapters /\ gpc[b] = "new"
    BY <1>6, SourcesFacts DEF Launch, TypeOK, LaunchInv
  <2>2. gpc' = [gpc EXCEPT ![b] = "sem"] /\ UNCHANGED <<fetched, mu, local, allRecords, answered>>
    BY <1>6 DEF Launch, Goto
  <2> HIDE DEF b
  <2> QED BY <2>1, <2>2 DEF TypeOK, MutexInv, RecordInv, InHand
<1>7. CASE UNCHANGED goVars
  BY <1>7 DEF goVars, MutexInv, RecordInv, InHand
<1> QED
  BY <1>1, <1>2, <1>3, <1>4, <1>5, <1>6, <1>7
     DEF Next, Main, Goroutine, Finished, vars, ReturnEarly, AllLaunched, Wait,
         NormalizeOne, NormalizeCancelled, NormalizeDone, Signal

\* A goroutine that is not new never becomes new; one is launched at a time.
LEMMA LaunchNext == Inv /\ [Next]_vars => LaunchInv'
<1> SUFFICES ASSUME TypeOK, LaunchInv, [Next]_vars PROVE LaunchInv'
  BY DEF Inv
<1> USE SourcesFacts
<1>1. ASSUME NEW a \in Adapters, Goroutine(a) PROVE LaunchInv'
  <2>1. PICK l \in Labels \ {"new"} : Goto(a, l)
    BY <1>1 DEF Goroutine, GiveUp, Acquire, Discover, NextCandidate, Fetch, Lock,
                AppendRecord, Return, Labels
  <2>2. gpc[a] # "new" /\ UNCHANGED launched
    BY <1>1 DEF Goroutine, GiveUp, Acquire, Discover, NextCandidate, Fetch, Lock,
                AppendRecord, runVars
  <2> QED BY <2>1, <2>2 DEF Goto, TypeOK, LaunchInv
<1>2. CASE Launch
  <2> DEFINE n == launched + 1
  <2>1. n \in 1..Len(Sources) /\ launched' = n /\ gpc' = [gpc EXCEPT ![Sources[n]] = "sem"]
    BY <1>2 DEF Launch, Goto, TypeOK
  <2>2. \A k \in 1..Len(Sources) : Sources[k] = Sources[n] => k = n
    BY <2>1, DiscoveryAssumption
  <2>3. launched \in Nat /\ n = launched + 1
    BY DEF TypeOK
  <2> HIDE DEF n
  <2> SUFFICES ASSUME NEW k \in 1..Len(Sources)
               PROVE  gpc'[Sources[k]] = "new" <=> k > n
    BY <2>1 DEF LaunchInv
  <2>4. CASE k = n
    BY <2>1, <2>4 DEF TypeOK
  <2>5. CASE k # n
    BY <2>1, <2>2, <2>3, <2>5 DEF TypeOK, LaunchInv
  <2> QED BY <2>4, <2>5
<1>3. CASE UNCHANGED <<gpc, launched>>
  BY <1>3 DEF LaunchInv
<1> QED
  BY <1>1, <1>2, <1>3
     DEF Next, Main, Finished, vars, goVars, runVars, ReturnEarly, AllLaunched, Wait,
         NormalizeOne, NormalizeCancelled, NormalizeDone, Signal

-----------------------------------------------------------------------------
(* What Run knows. *)

LEMMA PhaseNext == Inv /\ [Next]_vars => PhaseInv'
<1> SUFFICES ASSUME TypeOK, RecordInv, LaunchInv, PhaseInv, [Next]_vars PROVE PhaseInv'
  BY DEF Inv
<1> USE NothingFacts, SourcesFacts
<1>1. ASSUME NEW a \in Adapters, Goroutine(a) PROVE PhaseInv'
  <2>1. a \in Running
    BY <1>1 DEF Goroutine, GiveUp, Acquire, Discover, NextCandidate, Fetch, Lock,
                AppendRecord, Running
  <2>2. ~(Handed /\ launched = Len(Sources))
    BY <2>1 DEF PhaseInv
  <2>3. UNCHANGED runVars /\ UNCHANGED ctxDone
    BY <1>1 DEF Goroutine, GiveUp, Acquire, Discover, NextCandidate, Fetch, Lock, AppendRecord
  <2> QED BY <2>2, <2>3 DEF PhaseInv, Handed, runVars
<1>2. CASE Launch
  BY <1>2 DEF Launch, PhaseInv, Handed, TypeOK
<1>3. CASE ReturnEarly
  <2>1. result = {} /\ servers = {} /\ entities = {} /\ outcome = "none" /\ TornSlice # {}
    BY <1>3 DEF ReturnEarly, PhaseInv, Handed
  <2>2. launched # Len(Sources) /\ ctxDone /\ pc' \in {"normalize", "done"}
        /\ UNCHANGED <<ctxDone, launched, servers, entities>>
    BY <1>3 DEF ReturnEarly, TypeOK
  <2>3. CASE mode \in NeedDiscovery
    BY <1>3, <2>1, <2>2, <2>3 DEF ReturnEarly, PhaseInv, Handed
  <2>4. CASE mode \notin NeedDiscovery
    <3>1. pc' = "normalize" /\ outcome' = outcome
      BY <1>3, <2>4 DEF ReturnEarly
    <3>2. result' = TornSlice => AllRecords # {}
      <4>1. \A S \in SUBSET allRecords : S # TornSlice
        BY DEF TypeOK
      <4>2. (\E a \in Adapters : gpc[a] = "append") => AllRecords # {}
        BY DEF RecordInv
      <4> QED BY <1>3, <2>4, <4>1, <4>2 DEF ReturnEarly
    <3> QED BY <2>1, <2>2, <3>1, <3>2 DEF PhaseInv, Handed
  <2> QED BY <2>3, <2>4
<1>4. CASE AllLaunched
  BY <1>4 DEF AllLaunched, PhaseInv, Handed, goVars
<1>5. CASE Wait
  <2>1. launched = Len(Sources) /\ servers = {} /\ entities = {} /\ outcome = "none"
    BY <1>5 DEF Wait, PhaseInv, Handed
  <2>2. Running = {} /\ result' = allRecords /\ result' # TornSlice /\ pc' \in {"normalize", "done"}
    BY <1>5 DEF Wait, TypeOK
  <2>3. Running' = Running /\ UNCHANGED <<allRecords, launched, servers, entities>>
    BY <1>5 DEF Wait, Running, goVars
  <2>4. pc' # "done" => outcome' = "none"
    BY <1>5, <2>1 DEF Wait
  <2> QED BY <2>1, <2>2, <2>3, <2>4 DEF PhaseInv, Handed
<1>6. CASE NormalizeOne
  <2>1. ~ctxDone /\ pc = "normalize" /\ launched = Len(Sources)
    BY <1>6 DEF NormalizeOne, PhaseInv, Handed
  <2>2. result # TornSlice /\ servers' \subseteq result
    BY <1>6, <2>1 DEF NormalizeOne, PhaseInv, Handed
  <2>3. UNCHANGED <<ctxDone, goVars, pc, launched, result, entities, outcome>>
    BY <1>6 DEF NormalizeOne
  <2>4. Running' = Running
    BY <2>3 DEF Running, goVars
  <2> QED BY <2>1, <2>2, <2>3, <2>4 DEF PhaseInv, Handed, goVars
<1>7. CASE NormalizeCancelled
  <2>1. Running' = Running
    BY <1>7 DEF NormalizeCancelled, Running, goVars
  <2> QED BY <1>7, <2>1 DEF NormalizeCancelled, PhaseInv, Handed, goVars
<1>8. CASE NormalizeDone
  <2>1. Running' = Running
    BY <1>8 DEF NormalizeDone, Running, goVars
  <2> QED BY <1>8, <2>1 DEF NormalizeDone, PhaseInv, Handed, goVars, TypeOK
<1>9. CASE Signal \/ UNCHANGED vars
  <2>1. Running' = Running
    BY <1>9 DEF Signal, Running, goVars, vars
  <2> QED BY <1>9, <2>1 DEF Signal, PhaseInv, Handed, goVars, runVars, vars, TypeOK
<1> QED
  BY <1>1, <1>2, <1>3, <1>4, <1>5, <1>6, <1>7, <1>8, <1>9 DEF Next, Main, Finished

-----------------------------------------------------------------------------
(* The theorems. *)

\* The inductive invariant of discovery and normalisation, for any number of
\* sources and workers.
THEOREM DiscoveryInvariance == Spec => []Inv
<1>1. Inv /\ [Next]_vars => Inv'
  BY TypeNext, MutexNext, LaunchNext, PhaseNext DEF Inv
<1> QED BY <1>1, InitInv, PTL DEF Spec

\* Types, for any sources and workers: the semaphore of runDiscovery never holds
\* more tokens than it has slots, nor less than none.
THEOREM DiscoveryTypeCorrect == Spec => []TypeOK
<1>1. Inv => TypeOK
  BY DEF Inv
<1> QED BY <1>1, DiscoveryInvariance, PTL

\* --workers bounds the sources that are called at once (runDiscovery's
\* semaphore): every goroutine that calls one has its token in the channel.
THEOREM WorkersBounded == Spec => []AtMostWorkers
<1>1. Inv => AtMostWorkers
  <2>1. Holders = {a \in Adapters : gpc[a] \in {"discover", "next", "fetch", "lock", "append"}}
    BY DEF Holders, Holding
  <2> QED BY <2>1, SlotsNat DEF Inv, TypeOK, SemInv, AtMostWorkers
<1> QED BY <1>1, DiscoveryInvariance, PTL

\* The shared slice of runDiscovery loses no append: when every source was
\* launched, what is handed on is what was answered.
THEOREM NothingLost == Spec => []NoRecordLost
<1>1. Inv => NoRecordLost
  <2> SUFFICES ASSUME Inv, launched = Len(Sources), pc \in {"normalize", "done"}
               PROVE  result = answered
    BY DEF NoRecordLost
  <2>1. Running = {} /\ result = allRecords
    BY DEF Inv, PhaseInv, Handed
  <2>2. \A a \in Adapters : ~InHand(a)
    BY <2>1 DEF Running, InHand
  <2>3. allRecords = answered
    BY <2>2 DEF Inv, RecordInv
  <2> QED BY <2>1, <2>3
<1> QED BY <1>1, DiscoveryInvariance, PTL

\* The slice of the early return of runDiscovery, which goroutines may be
\* writing, is never looked into.
THEOREM NoTornEntities == Spec => []EntitiesAreWhole
<1>1. Inv /\ NoRecordLost => EntitiesAreWhole
  <2> SUFFICES ASSUME Inv, NoRecordLost PROVE EntitiesAreWhole
    OBVIOUS
  <2>1. entities # {} => Handed /\ launched = Len(Sources) /\ entities = answered
    BY DEF Inv, TypeOK, PhaseInv, Handed, NoRecordLost
  <2>2. result = TornSlice => servers = {}
    BY NothingFacts DEF Inv, TypeOK, PhaseInv, Handed
  <2> QED BY <2>1, <2>2 DEF EntitiesAreWhole
<1> QED BY <1>1, DiscoveryInvariance, NothingLost, PTL

-----------------------------------------------------------------------------
(* Refinement. *)

Phase == IF pc \in {"launch", "wait"} THEN "gather" ELSE pc
Shown == IF result = TornSlice THEN AllRecords ELSE result

LEMMA MappedNext == Inv /\ Inv' /\ [Next]_vars => [G!GatherNext]_(G!GatherVars)
<1> SUFFICES ASSUME Inv, Inv', [Next]_vars, UNCHANGED G!GatherVars => FALSE
             PROVE  G!GatherNext
  OBVIOUS
<1> USE NothingFacts DEF Inv
<1> DEFINE Quiet == UNCHANGED <<Phase, mode, ctxDone, Shown, entities, outcome>>
<1>0. ~Quiet
  BY DEF G!GatherVars, Phase, Shown
<1>1. ASSUME NEW a \in Adapters, Goroutine(a) PROVE FALSE
  <2>1. UNCHANGED <<mode, ctxDone, runVars>>
    BY <1>1 DEF Goroutine, GiveUp, Acquire, Discover, NextCandidate, Fetch, Lock, AppendRecord
  <2> QED BY <2>1, <1>0 DEF runVars, Phase, Shown
<1>2. CASE Launch \/ AllLaunched \/ NormalizeOne \/ UNCHANGED vars
  BY <1>2, <1>0 DEF Launch, AllLaunched, NormalizeOne, vars, runVars, Phase, Shown, Finished
<1>3. CASE ReturnEarly
  <2>1. Phase = "gather" /\ Shown = {} /\ outcome = "none" /\ ctxDone /\ UNCHANGED <<mode, ctxDone, entities>>
    BY <1>3 DEF ReturnEarly, PhaseInv, Handed, TypeOK, Phase, Shown
  <2>2. CASE mode \in NeedDiscovery
    <3>1. Phase' = "done" /\ outcome' = "error" /\ Shown' = Shown
      BY <1>3, <2>2 DEF ReturnEarly, Phase, Shown
    <3>2. G!Fail
      BY <2>1, <2>2, <3>1 DEF G!Fail, Phase, Shown
    <3> QED BY <3>2 DEF G!GatherNext
  <2>3. CASE mode \notin NeedDiscovery
    <3>1. Phase' = "normalize" /\ outcome' = "none" /\ mode # "discovery-only"
      BY <1>3, <2>1, <2>3 DEF ReturnEarly, Phase, NeedDiscovery
    <3>2. Shown' \in SUBSET AllRecords
      BY DEF TypeOK, Shown
    <3>3. G!HandOver
      BY <2>1, <3>1, <3>2 DEF G!HandOver, Phase, Shown
    <3> QED BY <3>3 DEF G!GatherNext
  <2> QED BY <2>2, <2>3
<1>4. CASE Wait
  <2>1. Phase = "gather" /\ outcome = "none" /\ UNCHANGED <<mode, ctxDone, entities>>
    BY <1>4 DEF Wait, PhaseInv, Phase
  <2>2. Phase' = IF mode = "discovery-only" THEN "done" ELSE "normalize"
    BY <1>4 DEF Wait, Phase
  <2>3. outcome' = IF mode = "discovery-only" THEN "ok" ELSE "none"
    BY <1>4, <2>1 DEF Wait
  <2>4. Shown' \in SUBSET AllRecords
    BY DEF TypeOK, Shown
  <2>5. G!HandOver
    BY <2>1, <2>2, <2>3, <2>4 DEF G!HandOver, Phase, Shown
  <2> QED BY <2>5 DEF G!GatherNext
<1>5. CASE NormalizeCancelled
  <2>1. Phase = "normalize" /\ Phase' = "done" /\ ctxDone /\ outcome' = "error"
        /\ UNCHANGED <<mode, ctxDone, entities>> /\ Shown' = Shown
    BY <1>5 DEF NormalizeCancelled, Phase, Shown
  <2>2. Shown # {}
    BY <1>5 DEF NormalizeCancelled, PhaseInv, Shown
  <2>3. G!Turn
    BY <2>1, <2>2 DEF G!Turn, Phase, Shown
  <2> QED BY <2>3 DEF G!GatherNext
<1>6. CASE NormalizeDone
  <2>1. Phase = "normalize" /\ Phase' = "done" /\ outcome' = "ok"
        /\ UNCHANGED <<mode, ctxDone>> /\ Shown' = Shown
    BY <1>6 DEF NormalizeDone, Phase, Shown
  <2>2. entities' = Shown
    BY <1>6 DEF NormalizeDone, Shown, TypeOK
  <2>3. G!Turn
    BY <2>1, <2>2 DEF G!Turn, Phase, Shown
  <2> QED BY <2>3 DEF G!GatherNext
<1>7. CASE Signal
  <2>1. ctxDone' = TRUE /\ UNCHANGED <<Phase, mode, Shown, entities, outcome>>
    BY <1>7 DEF Signal, runVars, Phase, Shown
  <2>2. G!Cancel
    BY <2>1 DEF G!Cancel, Phase, Shown
  <2> QED BY <2>2 DEF G!GatherNext
<1> QED
  BY <1>1, <1>2, <1>3, <1>4, <1>5, <1>6, <1>7 DEF Next, Main, Finished

\* runDiscovery and runNormalize, with their goroutines, their mutex and their
\* early return, are for the stages after them the two steps of Gather.
THEOREM DiscoveryImplementsGather == Spec => ImplementsGather
<1>1. Init => G!GatherInit
  <2>1. TornSlice # {}
    BY NothingFacts
  <2> QED BY <2>1 DEF Init, G!GatherInit
<1> QED BY <1>1, MappedNext, DiscoveryInvariance, PTL DEF Spec, ImplementsGather, G!GatherSpec
=============================================================================

------------------------------ MODULE ApiProofs ------------------------------
(***************************************************************************)
(* What the API's limiter and its listings promise, for every number of    *)
(* connections, rows and requests, every limit and length of a window.     *)
(***************************************************************************)
EXTENDS Api, FiniteSetTheorems, TLAPS

-----------------------------------------------------------------------------
(* The inductive invariant of the limiter *)

\* Of a history: the requests of this tick, those of the window that runs with a
\* visitor's reset, and those before it.
Now(S) == {r \in S : r.age = 0}
Running(left, S) == {r \in S : r.age <= Window - left}
Earlier(left, S) == {r \in S : r.age > Window - left}

\* The counter counts the requests of the running window, and no more than one
\* full window lies within the minute before it; what is left of a window that
\* ended is at most a full one, and ended before this tick.
HistoryOK(v, S) ==
    /\ IsFiniteSet(S)
    /\ \A r \in Now(S) : r.nth < Cardinality(Now(S))
    /\ v.left = Past => Now(S) = {} /\ Cardinality(S) <= MaxRequests
    /\ v.left # Past => /\ Cardinality(Running(v.left, S)) = v.requests
                        /\ Cardinality(Earlier(v.left, S)) <= MaxRequests

LimiterInv == LimiterTypeOK /\ \A a \in keys : HistoryOK(visitors[a], recent[a])

-----------------------------------------------------------------------------
(* The inductive invariant of the walk *)

\* What the pages before the walk's next one hold of a promised row.
ShownBefore(i) == Promised(i) /\ Position(walk.endpoint, i) <= (walk.page - 1) * walk.limit

Walks == [at : {"asks", "in", "listed", "done"}, endpoint : Endpoints, limit : Nat \ {0},
          page : Nat \ {0}, list : SUBSET Ids, seen : [Ids -> 0..2], quiet : BOOLEAN]

WalkType == table \in [Ids -> Rows \cup {Absent}] /\ (walk = Idle \/ walk \in Walks)

WalkInv ==
    /\ WalkType
    /\ walk.quiet =>
         /\ \A i \in Ids : walk.seen[i] = IF ShownBefore(i) THEN 1 ELSE 0
         /\ walk.at = "listed" =>
              walk.list = Answered(walk.endpoint, List(walk.endpoint, walk.limit, walk.page))
         /\ walk.at = "done" => Count <= (walk.page - 1) * walk.limit

IInv == LimiterInv /\ WalkInv

-----------------------------------------------------------------------------
(* The limiter *)

LEMMA LimiterStarts == LimiterInit => LimiterInv
<1> SUFFICES ASSUME LimiterInit PROVE LimiterInv
  OBVIOUS
<1>1. visitors = [a \in keys |-> None] /\ recent = [a \in keys |-> {}]
  BY DEF LimiterInit
<1>2. LimiterTypeOK
  BY <1>1 DEF LimiterTypeOK, Visitor
<1>3. None.left = Past /\ Now({}) = {}
  BY DEF None, Now
<1>4. IsFiniteSet({}) /\ Cardinality({}) = 0 /\ 0 <= MaxRequests
  BY FS_EmptySet, LimiterAssumption
<1> QED BY <1>1, <1>2, <1>3, <1>4 DEF LimiterInv, HistoryOK

\* A tick makes requests older and drops those the minute has passed.
LEMMA OlderFacts ==
    ASSUME NEW S, S \subseteq Served, IsFiniteSet(S)
    PROVE  /\ Older(S) \subseteq Served /\ IsFiniteSet(Older(S))
           /\ Cardinality(Older(S)) <= Cardinality(S)
           /\ (\A r \in S : r.age < Window) => Cardinality(Older(S)) = Cardinality(S)
           /\ \A r \in Older(S) : r.age > 0
<1> DEFINE kept == {q \in S : q.age < Window}
           next(r) == [age |-> r.age + 1, nth |-> r.nth]
           f == [r \in kept |-> next(r)]
<1>1. \A r \in kept : [r EXCEPT !.age = @ + 1] = next(r) /\ next(r) \in Served /\ next(r).age > 0
  BY LimiterAssumption DEF Served
<1>2. Older(S) = {next(r) : r \in kept}
  <2>1. Older(S) = {[r EXCEPT !.age = @ + 1] : r \in kept}
    BY DEF Older
  <2>2. \A x : x \in Older(S) <=> \E r \in kept : x = next(r)
    BY <1>1, <2>1
  <2> QED BY <2>2
<1>3. IsFiniteSet(kept) /\ Cardinality(kept) <= Cardinality(S)
  BY FS_Subset
<1>4. f \in Surjection(kept, Older(S))
  BY <1>2 DEF Surjection
<1>5. f \in Injection(kept, Older(S))
  <2>1. \A q, r \in kept : next(q) = next(r) => q = r
    BY DEF Served
  <2>2. f \in [kept -> Older(S)]
    BY <1>2
  <2> QED BY <2>1, <2>2 DEF Injection, IsInjective
<1> HIDE DEF f
<1>6. IsFiniteSet(Older(S)) /\ Cardinality(Older(S)) = Cardinality(kept)
  BY <1>3, <1>4, <1>5, FS_Surjection
<1>7. (\A r \in S : r.age < Window) => kept = S
  OBVIOUS
<1> QED BY <1>1, <1>2, <1>3, <1>6, <1>7

LEMMA LimiterTypeNext ==
    ASSUME LimiterInv,
           (\E a \in keys : Allow(a)) \/ Cleanup \/ LimiterTick
    PROVE  LimiterTypeOK'
<1> USE LimiterAssumption DEF Past, None
<1>1. ASSUME NEW a \in keys, Allow(a) PROVE LimiterTypeOK'
  <2>1. Cardinality(ServedNow(a)) \in Nat
    <3>1. ServedNow(a) \in SUBSET recent[a] /\ IsFiniteSet(recent[a])
      BY DEF LimiterInv, ServedNow, HistoryOK
    <3> QED BY <3>1, FS_Subset, FS_CardinalityType
  <2>2. Counted(visitors[a]) \in Visitor
    BY <1>1 DEF Allow, Allows, exists, resetPassed, Counted, Visitor, LimiterInv, LimiterTypeOK
  <2>3. [age |-> 0, nth |-> Cardinality(ServedNow(a))] \in Served
    BY <2>1 DEF Served
  <2> QED BY <1>1, <2>2, <2>3 DEF Allow, LimiterInv, LimiterTypeOK
<1>2. CASE Cleanup
  BY <1>2 DEF Cleanup, LimiterInv, LimiterTypeOK, Visitor
<1>3. CASE LimiterTick
  <2>1. \A a \in keys : Older(recent[a]) \subseteq Served
    BY OlderFacts DEF LimiterInv, LimiterTypeOK, HistoryOK
  <2>2. \A a \in keys :
          [visitors[a] EXCEPT !.left = IF @ = Past THEN Past ELSE @ - 1] \in Visitor
    BY DEF LimiterInv, LimiterTypeOK, Visitor
  <2> QED BY <1>3, <2>1, <2>2 DEF LimiterTick, LimiterTypeOK
<1> QED BY <1>1, <1>2, <1>3

\* One request more, when allow lets it pass.
LEMMA HistoryStep ==
    ASSUME NEW v \in Visitor, NEW S, S \subseteq Served, HistoryOK(v, S),
           v.left = Past \/ v.requests < MaxRequests,
           NEW new, new = [age |-> 0, nth |-> Cardinality(Now(S))]
    PROVE  HistoryOK(Counted(v), S \cup {new})
<1> USE LimiterAssumption
<1> DEFINE T == S \cup {new}
<1>1. /\ IsFiniteSet(S) /\ IsFiniteSet(Now(S)) /\ Cardinality(Now(S)) \in Nat
      /\ Now(S) \subseteq S
  <2>1. Now(S) \in SUBSET S
    BY DEF Now
  <2> QED BY <2>1, FS_Subset, FS_CardinalityType DEF HistoryOK
<1>2. new.age = 0 /\ new.nth = Cardinality(Now(S)) /\ new \in Served
  BY <1>1 DEF Served
<1>3. new \notin S
  BY <1>1, <1>2 DEF HistoryOK, Now
<1>4. Now(T) = Now(S) \cup {new}
  BY <1>2 DEF Now
<1>5. IsFiniteSet(T)
  BY <1>1, FS_AddElement
<1> HIDE DEF T
<1>6. Cardinality(Now(T)) = Cardinality(Now(S)) + 1
  <2>1. new \notin Now(S)
    BY <1>1, <1>3
  <2> QED BY <1>1, <1>4, <2>1, FS_AddElement
<1>7. \A r \in Now(T) : r.nth < Cardinality(Now(T))
  <2>1. \A r \in Now(S) : r.nth \in Nat /\ r.nth < Cardinality(Now(S))
    BY <1>1 DEF HistoryOK, Served
  <2> QED BY <1>1, <1>2, <1>4, <1>6, <2>1
<1>8. CASE v.left = Past
  <2>1. Counted(v).requests = 1 /\ Counted(v).left = Window /\ Window # Past
    BY <1>8 DEF Counted, resetPassed, Past
  <2>2. Now(S) = {} /\ Cardinality(S) <= MaxRequests
    BY <1>8 DEF HistoryOK
  <2>3. \A r \in S : r.age \in Nat /\ r.age > 0
    BY <2>2 DEF Served, Now
  <2>4. Running(Window, T) = {new} /\ Earlier(Window, T) = S
    BY <1>2, <2>3 DEF Running, Earlier, T
  <2>5. Cardinality({new}) = 1
    BY FS_Singleton
  <2> QED BY <1>5, <1>7, <2>1, <2>2, <2>4, <2>5 DEF HistoryOK, T
<1>9. CASE v.left # Past
  <2>1. v.requests \in Nat /\ v.left \in 0..Window /\ v # None
    BY <1>9 DEF Visitor, None, Past
  <2>2. Counted(v).requests = v.requests + 1 /\ Counted(v).left = v.left
    BY <1>9, <2>1 DEF Counted, resetPassed, Visitor
  <2>3. Running(v.left, T) = Running(v.left, S) \cup {new} /\ Earlier(v.left, T) = Earlier(v.left, S)
    BY <1>2, <2>1 DEF Running, Earlier, T
  <2>4. Running(v.left, S) \in SUBSET S
    BY DEF Running
  <2>5. Cardinality(Running(v.left, S) \cup {new}) = Cardinality(Running(v.left, S)) + 1
    BY <1>1, <1>3, <2>4, FS_Subset, FS_AddElement
  <2> QED BY <1>5, <1>7, <1>9, <2>2, <2>3, <2>5 DEF HistoryOK, T
<1> QED BY <1>8, <1>9

\* A tick: the visitor has one less left, the history is older.
Sooner(v) == [v EXCEPT !.left = IF @ = Past THEN Past ELSE @ - 1]

LEMMA HistoryTick ==
    ASSUME NEW v \in Visitor, NEW S, S \subseteq Served, HistoryOK(v, S)
    PROVE  HistoryOK(Sooner(v), Older(S))
<1> USE LimiterAssumption
<1>1. IsFiniteSet(S) /\ Cardinality(S) \in Nat
  BY FS_CardinalityType DEF HistoryOK
<1>2. /\ Older(S) \subseteq Served /\ IsFiniteSet(Older(S)) /\ Cardinality(Older(S)) \in Nat
      /\ Cardinality(Older(S)) <= Cardinality(S) /\ \A r \in Older(S) : r.age > 0
  BY <1>1, OlderFacts, FS_CardinalityType
<1>3. Now(Older(S)) = {}
  BY <1>2 DEF Served, Now
<1>4. Sooner(v).left = (IF v.left = Past THEN Past ELSE v.left - 1) /\ Sooner(v).requests = v.requests
  BY DEF Visitor, None, Sooner
<1>5. CASE v.left = Past
  BY <1>1, <1>2, <1>3, <1>4, <1>5 DEF HistoryOK
<1>6. CASE v.left # Past
  <2>1. v.left \in 0..Window /\ v.requests \in 1..MaxRequests
    BY <1>6 DEF Visitor, None, Past
  <2> DEFINE running == Running(v.left, S)
             earlier == Earlier(v.left, S)
  <2>2. running \in SUBSET S /\ earlier \in SUBSET S
    BY DEF Running, Earlier
  <2>3. /\ IsFiniteSet(running) /\ IsFiniteSet(earlier)
        /\ Cardinality(running) = v.requests /\ Cardinality(earlier) <= MaxRequests
        /\ Cardinality(earlier) \in Nat
    BY <1>1, <1>6, <2>2, FS_Subset, FS_CardinalityType DEF HistoryOK
  <2>4. CASE v.left = 0
    <3>1. running = S
      BY <2>4 DEF Served, Running
    <3>2. Sooner(v).left = Past
      BY <1>4, <2>1, <2>4 DEF Past
    <3>3. Cardinality(Older(S)) <= MaxRequests
      BY <1>1, <1>2, <2>1, <2>3, <3>1
    <3> QED BY <1>2, <1>3, <3>2, <3>3 DEF HistoryOK
  <2>5. CASE v.left > 0
    <3>1. \A r \in running : r.age < Window
      BY <2>1, <2>5 DEF Served, Running
    <3>2. running \subseteq Served /\ earlier \subseteq Served
      BY <2>2
    <3>3. Cardinality(Older(running)) = v.requests
      BY <2>3, <3>1, <3>2, OlderFacts
    <3>4. Cardinality(Older(earlier)) <= MaxRequests
      <4>1. Cardinality(Older(earlier)) <= Cardinality(earlier) /\ IsFiniteSet(Older(earlier))
        BY <2>3, <3>2, OlderFacts
      <4> QED BY <2>3, <4>1, FS_CardinalityType
    <3>5. \A r \in S : [r EXCEPT !.age = @ + 1].age = r.age + 1 /\ r.age \in 0..Window
      BY DEF Served
    <3>6. Sooner(v).left = v.left - 1 /\ Sooner(v).left # Past
      BY <1>4, <1>6, <2>1, <2>5 DEF Past
    <3>7. \A r \in S : r.age <= Window - v.left <=> r.age + 1 <= Window - (v.left - 1)
      BY <2>1, <3>5
    <3>8. Running(v.left - 1, Older(S)) = Older(running)
      BY <3>5, <3>7 DEF Running, Older
    <3>9. \A r \in S : r.age > Window - v.left <=> r.age + 1 > Window - (v.left - 1)
      BY <2>1, <3>5
    <3>10. Earlier(v.left - 1, Older(S)) = Older(earlier)
      BY <3>5, <3>9 DEF Earlier, Older
    <3> QED BY <1>2, <1>3, <1>4, <3>3, <3>4, <3>6, <3>8, <3>10 DEF HistoryOK
  <2> QED BY <2>1, <2>4, <2>5
<1> QED BY <1>5, <1>6

LEMMA LimiterNext ==
    ASSUME LimiterInv, (\E a \in keys : Allow(a)) \/ Cleanup \/ LimiterTick
    PROVE  LimiterInv'
<1> SUFFICES ASSUME NEW a \in keys PROVE HistoryOK(visitors'[a], recent'[a])
  BY LimiterTypeNext DEF LimiterInv, HistoryOK, Now, Running, Earlier
<1>1. visitors[a] \in Visitor /\ recent[a] \subseteq Served /\ HistoryOK(visitors[a], recent[a])
  BY DEF LimiterInv, LimiterTypeOK
<1>2. ASSUME NEW b \in keys, Allow(b) PROVE HistoryOK(visitors'[a], recent'[a])
  <2>1. CASE a # b
    <3>1. visitors'[a] = visitors[a] /\ recent'[a] = recent[a]
      BY <1>2, <2>1 DEF Allow, LimiterInv, LimiterTypeOK
    <3> QED BY <1>1, <3>1
  <2>2. CASE a = b
    <3>1. visitors'[a] = Counted(visitors[a])
      BY <1>2, <2>2 DEF Allow, LimiterInv, LimiterTypeOK
    <3>2. PICK new : /\ new = [age |-> 0, nth |-> Cardinality(Now(recent[a]))]
                     /\ recent'[a] = recent[a] \cup {new}
      BY <1>2, <2>2 DEF Allow, LimiterInv, LimiterTypeOK, ServedNow, Now
    <3>3. visitors[a].left = Past \/ visitors[a].requests < MaxRequests
      BY <1>2, <2>2 DEF Allow, Allows, exists, resetPassed, None
    <3> QED BY <1>1, <3>1, <3>2, <3>3, HistoryStep
  <2> QED BY <2>1, <2>2
<1>3. CASE Cleanup
  <2>1. /\ recent'[a] = recent[a]
        /\ visitors'[a] = IF visitors[a].left = Past THEN None ELSE visitors[a]
    BY <1>3 DEF Cleanup, resetPassed
  <2>2. visitors[a].left = Past => HistoryOK(None, recent[a])
    BY <1>1 DEF HistoryOK, None
  <2> QED BY <1>1, <2>1, <2>2
<1>4. CASE LimiterTick
  <2>1. visitors'[a] = Sooner(visitors[a]) /\ recent'[a] = Older(recent[a])
    BY <1>4 DEF LimiterTick, Sooner
  <2> QED BY <1>1, <2>1, HistoryTick
<1> QED BY <1>2, <1>3, <1>4

-----------------------------------------------------------------------------
(* The pages *)

\* Rows have places from 1 to the number of rows, above any floor.
LEMMA PositionFacts ==
    ASSUME NEW e, NEW i \in AboveFloor(e)
    PROVE  Position(e, i) \in Nat \ {0} /\ Count \in Nat /\ Position(e, i) <= Count
<1>1. IsFiniteSet(present)
  <2>1. present \in SUBSET Ids
    BY DEF present
  <2> QED BY <2>1, ApiAssumption, FS_Subset
<1> DEFINE upTo == {j \in AboveFloor(e) : j = i \/ Before(j, i)}
<1>2. upTo \in SUBSET present /\ i \in upTo
  BY DEF AboveFloor
<1> HIDE DEF upTo
<1>3. /\ IsFiniteSet(upTo) /\ Cardinality(upTo) \in Nat /\ Count \in Nat
      /\ Cardinality(upTo) <= Count
  BY <1>1, <1>2, FS_Subset, FS_CardinalityType DEF Count
<1>4. Cardinality(upTo) # 0
  BY <1>2, <1>3, FS_EmptySet
<1> QED BY <1>3, <1>4 DEF Position, upTo

LEMMA CountIsNat == Count \in Nat
<1>1. present \in SUBSET Ids
  BY DEF present
<1> QED BY <1>1, ApiAssumption, FS_Subset, FS_CardinalityType DEF Count

LEMMA CeilingCovers ==
    ASSUME NEW d \in Nat \ {0}, NEW n \in Nat
    PROVE  TotalPages(d, n) \in Nat \ {0} /\ n <= TotalPages(d, n) * d
<1> DEFINE c == (n + d - 1) \div d
<1>1. c \in Int /\ n + d - 1 < (c + 1) * d /\ c >= 0
  OBVIOUS
<1> HIDE DEF c
<1>2. (c + 1) * d = c * d + d /\ c * d \in Int
  BY <1>1
<1>3. n <= c * d
  BY <1>1, <1>2
<1>4. CASE c < 1
  <2>1. c = 0 /\ c * d = 0
    BY <1>1, <1>4
  <2>2. TotalPages(d, n) = 1
    BY <2>1 DEF TotalPages, c
  <2> QED BY <1>3, <2>1, <2>2
<1>5. CASE c >= 1
  <2>1. TotalPages(d, n) = c
    BY <1>1, <1>5 DEF TotalPages, c
  <2> QED BY <1>1, <1>3, <1>5, <2>1
<1> QED BY <1>1, <1>4, <1>5

LEMMA PagesCover ==
    ASSUME NEW d \in Nat \ {0}, NEW n \in Nat, NEW p \in Nat, p >= TotalPages(d, n)
    PROVE  n <= p * d
<1>1. TotalPages(d, n) \in Nat /\ n <= TotalPages(d, n) * d
  BY CeilingCovers
<1>2. TotalPages(d, n) * d <= p * d /\ p * d \in Nat /\ TotalPages(d, n) * d \in Nat
  BY <1>1
<1> QED BY <1>1, <1>2

LEMMA LimitIsPositive ==
    ASSUME NEW asked \in Int
    PROVE  LimitOf(asked) \in Nat \ {0} /\ PageOf(asked) \in Nat \ {0}
BY ApiAssumption DEF LimitOf, PageOf

\* What an endpoint answers with are the promised rows in the page's places.
LEMMA AnsweredArePromised ==
    ASSUME WalkType, walk # Idle, NEW i \in Ids
    PROVE  i \in Answered(walk.endpoint, List(walk.endpoint, walk.limit, walk.page)) <=>
             /\ Promised(i)
             /\ Position(walk.endpoint, i) \in
                  ((walk.page - 1) * walk.limit + 1)..((walk.page - 1) * walk.limit + walk.limit)
<1>1. walk.endpoint \in Endpoints
  BY DEF WalkType, Walks
<1>2. Promised(i) <=> i \in AboveFloor(walk.endpoint) /\ (walk.endpoint = "servers" => table[i].view)
  BY <1>1 DEF Promised, AboveFloor, present, floor, Endpoints
<1> QED BY <1>2 DEF Answered, List

\* What is promised and where it is depends on the table and the endpoint only.
LEMMA ShownIsStable ==
    ASSUME table' = table, walk'.endpoint = walk.endpoint
    PROVE  /\ \A i : Promised(i)' <=> Promised(i)
           /\ \A e, i : Position(e, i)' = Position(e, i)
           /\ \A e, n, p : List(e, n, p)' = List(e, n, p)
           /\ \A e, l : Answered(e, l)' = Answered(e, l)
           /\ Count' = Count
<1>1. present' = present /\ \A i, j : Before(i, j)' <=> Before(i, j)
  BY DEF present, Before
<1>2. \A e : AboveFloor(e)' = AboveFloor(e)
  BY <1>1 DEF AboveFloor
<1>3. \A e, i : Position(e, i)' = Position(e, i)
  BY <1>1, <1>2 DEF Position
<1> QED BY <1>1, <1>2, <1>3 DEF Promised, List, Answered, Count

-----------------------------------------------------------------------------
(* The walk *)

Asking == \E e \in Endpoints, l \in AskedLimits, p \in {0, 1} : Ask(e, l, p)
Saving == \E i \in Ids, r \in Rows : Save(i, r)

LEMMA WalkStarts == Init => WalkInv
BY DEF Init, WalkInv, WalkType, Walks, Idle

LEMMA AskKeepsWalk ==
    ASSUME WalkInv, Asking
    PROVE  WalkInv'
<1>1. PICK e \in Endpoints, l \in AskedLimits, p \in {0, 1} : Ask(e, l, p)
  BY DEF Asking
<1> DEFINE limit == LimitOf(l)
<1>2. limit \in Nat \ {0} /\ PageOf(p) = 1
  BY LimitIsPositive, ApiAssumption DEF PageOf
<1> HIDE DEF limit
<1>3. walk' = [at |-> "asks", endpoint |-> e, limit |-> limit, page |-> 1,
               list |-> {}, seen |-> Unseen, quiet |-> TRUE] /\ table' = table
  BY <1>1, <1>2 DEF Ask, Idle, limit
<1>4. WalkType'
  BY <1>2, <1>3 DEF WalkInv, WalkType, Walks, Unseen
<1>5. \A i \in Ids : Promised(i)' => i \in AboveFloor(e)'
  BY <1>3 DEF Promised, AboveFloor, present, floor
<1>6. \A i \in Ids : ~ShownBefore(i)'
  <2> SUFFICES ASSUME NEW i \in Ids, ShownBefore(i)' PROVE FALSE
    OBVIOUS
  <2>1. Position(e, i)' \in Nat \ {0}
    <3>1. i \in AboveFloor(e)'
      BY <1>5 DEF ShownBefore
    <3>2. AboveFloor(e)' = AboveFloor(e) /\ Position(e, i)' = Position(e, i)
      BY <1>3 DEF AboveFloor, Position, present, Before
    <3> QED BY <3>1, <3>2, PositionFacts
  <2> QED BY <1>2, <1>3, <2>1 DEF ShownBefore
<1> QED BY <1>3, <1>4, <1>6 DEF WalkInv, Unseen

LEMMA RequestKeepsWalk ==
    ASSUME WalkInv, walk.at = "asks", walk' = [walk EXCEPT !.at = "in"], table' = table
    PROVE  WalkInv'
<1>1. walk # Idle
  BY DEF Idle
<1>2. WalkType'
  BY <1>1 DEF WalkInv, WalkType, Walks
<1>3. /\ walk'.endpoint = walk.endpoint /\ walk'.page = walk.page /\ walk'.limit = walk.limit
      /\ walk'.seen = walk.seen /\ walk'.quiet = walk.quiet /\ walk'.at = "in"
  BY <1>1 DEF WalkInv, WalkType, Walks
<1>4. \A i \in Ids : ShownBefore(i)' <=> ShownBefore(i)
  BY <1>3, ShownIsStable DEF ShownBefore
<1> QED BY <1>2, <1>3, <1>4 DEF WalkInv

LEMMA ListKeepsWalk ==
    ASSUME WalkInv, ListRows
    PROVE  WalkInv'
<1> DEFINE list == Answered(walk.endpoint, List(walk.endpoint, walk.limit, walk.page))
<1>1. walk # Idle
  BY DEF Idle, ListRows
<1>2. list \in SUBSET Ids
  BY DEF Answered, List, AboveFloor, present
<1>3. list' = list
  <2>1. walk'.endpoint = walk.endpoint /\ walk'.limit = walk.limit /\ walk'.page = walk.page /\ table' = table
    BY <1>1 DEF ListRows, WalkInv, WalkType, Walks
  <2> QED BY <2>1, ShownIsStable
<1>4. walk' = [walk EXCEPT !.at = "listed", !.list = list] /\ table' = table
  BY DEF ListRows
<1> HIDE DEF list
<1>5. WalkType'
  BY <1>1, <1>2, <1>4 DEF WalkInv, WalkType, Walks
<1>6. /\ walk'.endpoint = walk.endpoint /\ walk'.page = walk.page /\ walk'.limit = walk.limit
      /\ walk'.seen = walk.seen /\ walk'.quiet = walk.quiet /\ walk'.at = "listed" /\ walk'.list = list
  BY <1>1, <1>4 DEF WalkInv, WalkType, Walks
<1>7. \A i \in Ids : ShownBefore(i)' <=> ShownBefore(i)
  BY <1>4, <1>6, ShownIsStable DEF ShownBefore
<1> QED BY <1>3, <1>5, <1>6, <1>7 DEF WalkInv, list

\* The page that was listed is the next of the places: a row of it is shown now
\* for the first time, and the walk ends only behind the last place.
LEMMA CountKeepsWalk ==
    ASSUME WalkInv, CountRows
    PROVE  WalkInv'
<1> DEFINE l == walk.limit
           p == walk.page
           seen == [i \in Ids |-> IF walk.quiet /\ i \in walk.list /\ walk.seen[i] < 2
                                  THEN walk.seen[i] + 1 ELSE walk.seen[i]]
           at == IF p >= TotalPages(l, Count) THEN "done" ELSE "asks"
<1>1. walk # Idle /\ table' = table /\ walk.at = "listed"
  BY DEF Idle, CountRows
<1>2. walk' = [walk EXCEPT !.seen = seen, !.list = {}, !.at = at, !.page = p + 1]
  BY DEF CountRows
<1>3. /\ l \in Nat \ {0} /\ p \in Nat \ {0} /\ walk.endpoint \in Endpoints
      /\ walk.seen \in [Ids -> 0..2]
  BY <1>1 DEF WalkInv, WalkType, Walks
<1>4. seen \in [Ids -> 0..2] /\ at \in {"asks", "done"}
  BY <1>3
<1>5. (p - 1) * l + l = p * l /\ (p - 1) * l \in Nat /\ p * l \in Nat
  BY <1>3
<1> HIDE DEF at
<1>6. /\ walk'.endpoint = walk.endpoint /\ walk'.page = p + 1 /\ walk'.limit = l
      /\ walk'.seen = seen /\ walk'.quiet = walk.quiet /\ walk'.at = at
  BY <1>1, <1>2 DEF WalkInv, WalkType, Walks
<1>7. WalkType'
  <2> HIDE DEF seen
  <2>1. walk \in Walks /\ p + 1 \in Nat \ {0} /\ at \in {"asks", "in", "listed", "done"}
    BY <1>1, <1>3, <1>4 DEF WalkInv, WalkType
  <2> HIDE DEF p
  <2>2. [walk EXCEPT !.seen = seen, !.list = {}, !.at = at, !.page = p + 1] \in Walks
    BY <1>4, <2>1 DEF Walks
  <2> QED BY <1>1, <1>2, <2>2 DEF WalkInv, WalkType
<1>8. ASSUME walk.quiet, NEW i \in Ids
      PROVE  seen[i] = IF ShownBefore(i)' THEN 1 ELSE 0
  <2> DEFINE pos == Position(walk.endpoint, i)
  <2>1. walk.seen[i] = IF Promised(i) /\ pos <= (p - 1) * l THEN 1 ELSE 0
    BY <1>8 DEF WalkInv, ShownBefore
  <2>2. i \in walk.list <=> Promised(i) /\ pos \in ((p - 1) * l + 1)..((p - 1) * l + l)
    BY <1>1, <1>8, AnsweredArePromised DEF WalkInv
  <2>3. ShownBefore(i)' <=> Promised(i) /\ pos <= p * l
    <3>1. (p + 1) - 1 = p
      BY <1>3
    <3> QED BY <1>1, <1>6, <3>1, ShownIsStable DEF ShownBefore
  <2>4. Promised(i) => pos \in Nat
    BY <1>3, PositionFacts DEF Promised, AboveFloor, present, floor
  <2> HIDE DEF pos
  <2>5. seen[i] = IF i \in walk.list /\ walk.seen[i] < 2 THEN walk.seen[i] + 1 ELSE walk.seen[i]
    BY <1>8
  <2> QED BY <1>3, <1>5, <2>1, <2>2, <2>3, <2>4, <2>5
<1>9. at = "done" => Count' <= (walk'.page - 1) * walk'.limit
  <2>1. at = "done" => Count <= p * l
    BY <1>3, PagesCover, CountIsNat DEF at
  <2>2. walk'.page - 1 = p /\ walk'.limit = l /\ Count' = Count
    BY <1>1, <1>3, <1>6, ShownIsStable
  <2> QED BY <2>1, <2>2
<1>10. at # "listed"
  BY <1>4
<1> HIDE DEF seen
<1> QED BY <1>6, <1>7, <1>8, <1>9, <1>10 DEF WalkInv

LEMMA SaveKeepsWalk ==
    ASSUME WalkInv, Saving
    PROVE  WalkInv'
<1>1. PICK i \in Ids, r \in Rows : Save(i, r)
  BY DEF Saving
<1>2. table' \in [Ids -> Rows \cup {Absent}]
  BY <1>1 DEF Save, WalkInv, WalkType, Walks
<1>3. walk' = Idle \/ (walk # Idle /\ walk' = [walk EXCEPT !.quiet = FALSE, !.seen = Unseen])
  BY <1>1 DEF Save, Idle
<1>4. CASE walk' = Idle
  BY <1>2, <1>4 DEF WalkInv, WalkType, Walks, Idle
<1>5. CASE walk # Idle /\ walk' = [walk EXCEPT !.quiet = FALSE, !.seen = Unseen]
  <2>1. Unseen \in [Ids -> 0..2]
    BY DEF Unseen
  <2>2. walk' \in Walks /\ walk'.quiet = FALSE
    BY <1>5, <2>1 DEF WalkInv, WalkType, Walks
  <2> QED BY <1>2, <2>2 DEF WalkInv, WalkType, Walks
<1> QED BY <1>3, <1>4, <1>5

LEMMA StandingWalk ==
    ASSUME WalkInv, table' = table, walk' = walk
    PROVE  WalkInv'
<1>1. \A i \in Ids : ShownBefore(i)' <=> ShownBefore(i)
  BY ShownIsStable DEF ShownBefore
<1> QED BY <1>1, ShownIsStable DEF WalkInv, WalkType, Walks, Idle

LEMMA WalkNext ==
    ASSUME WalkInv, [Next]_vars
    PROVE  WalkInv'
<1>1. CASE Asking
  BY <1>1, AskKeepsWalk
<1>2. CASE Request
  BY <1>2, RequestKeepsWalk DEF Request
<1>3. CASE ListRows
  BY <1>3, ListKeepsWalk
<1>4. CASE CountRows
  BY <1>4, CountKeepsWalk
<1>5. CASE QueryFails
  BY <1>5 DEF QueryFails, WalkInv, WalkType, Walks, Idle
<1>6. CASE Saving
  BY <1>6, SaveKeepsWalk
<1>7. CASE TooMany \/ (\E c \in Connections : Other(c)) \/ Tick \/ CleanupVisitors \/ UNCHANGED vars
  BY <1>7, StandingWalk DEF TooMany, Other, Tick, CleanupVisitors, vars
<1> QED BY <1>1, <1>2, <1>3, <1>4, <1>5, <1>6, <1>7 DEF Next, Asking, Saving

-----------------------------------------------------------------------------
(* The theorems *)

LEMMA LimiterSteps ==
    ASSUME [Next]_vars
    PROVE  (\E a \in keys : Allow(a)) \/ Cleanup \/ LimiterTick \/ UNCHANGED limiterVars
<1>1. Request => \E a \in keys : Allow(a)
  BY DEF Request, keysOf, keys
<1>2. TooMany => UNCHANGED limiterVars
  BY DEF TooMany, Refuse
<1>3. (\E c \in Connections : Other(c)) => \E a \in keys : Allow(a)
  BY DEF Other, keys
<1> QED
  BY <1>1, <1>2, <1>3 DEF Next, vars, Ask, ListRows, CountRows, QueryFails, Save, Tick,
              CleanupVisitors

\* The inductive invariant of the API: the limiter's counters and histories
\* (allow, cleanup) and what the pages of a walk have shown (handleEntities,
\* handleServers).
THEOREM ApiInvariance == Spec => []IInv
<1>1. Init => IInv
  BY LimiterStarts, WalkStarts DEF IInv, Init
<1>2. IInv /\ [Next]_vars => IInv'
  <2> SUFFICES ASSUME IInv, [Next]_vars PROVE IInv'
    OBVIOUS
  <2>1. LimiterInv'
    <3>1. CASE UNCHANGED limiterVars
      BY <3>1 DEF IInv, LimiterInv, LimiterTypeOK, HistoryOK, Now, Running, Earlier, limiterVars
    <3> QED BY <3>1, LimiterSteps, LimiterNext DEF IInv
  <2> QED BY <2>1, WalkNext DEF IInv
<1> QED BY <1>1, <1>2, PTL DEF Spec

\* Every reachable state of the API is well typed.
THEOREM ApiTypeCorrect == Spec => []TypeOK
<1>1. IInv => TypeOK
  BY DEF IInv, LimiterInv, WalkInv, WalkType, Walks, TypeOK, Idle, Unseen
<1> QED BY <1>1, ApiInvariance, PTL

\* The requests of a history are those of its window and the others.
LEMMA HistoryHasTwoWindows ==
    ASSUME LimiterInv, NEW a \in keys, visitors[a].left # Past
    PROVE  /\ ServedWithin(a) = visitors[a].requests + Cardinality(Earlier(visitors[a].left, recent[a]))
           /\ Cardinality(Earlier(visitors[a].left, recent[a])) \in 0..MaxRequests
           /\ visitors[a].requests \in 1..MaxRequests
<1> DEFINE v == visitors[a]
           S == recent[a]
           R == Running(v.left, S)
           E == Earlier(v.left, S)
<1>1. v \in Visitor /\ S \subseteq Served /\ HistoryOK(v, S)
  BY DEF LimiterInv, LimiterTypeOK
<1>2. v.left \in 0..Window /\ v.requests \in 1..MaxRequests
  BY <1>1 DEF Visitor, None, Past
<1>3. S = R \cup E /\ R \cap E = {} /\ R \in SUBSET S /\ E \in SUBSET S
  BY <1>1, <1>2, LimiterAssumption DEF Running, Earlier, Served
<1> HIDE DEF R, E, S, v
<1>4. IsFiniteSet(S) /\ Cardinality(R) = v.requests /\ Cardinality(E) <= MaxRequests
  BY <1>1 DEF HistoryOK, R, E, v
<1>5. IsFiniteSet(R) /\ IsFiniteSet(E) /\ Cardinality(E) \in Nat
  BY <1>3, <1>4, FS_Subset, FS_CardinalityType
<1>6. Cardinality(S) = Cardinality(R) + Cardinality(E)
  BY <1>2, <1>3, <1>4, <1>5, FS_Union, FS_EmptySet
<1> QED BY <1>2, <1>4, <1>5, <1>6, LimiterAssumption DEF ServedWithin, S, E, v

\* Of one key, no minute sees more than twice the limit served: the end of one
\* fixed window and the start of the next.
AtMostTwice == \A a \in keys : ServedWithin(a) <= 2 * MaxRequests

\* The bound rateLimiter.allow and cleanup do keep, for each key, where the
\* stricter LimitPerIP does not hold.
THEOREM TwiceAtMost == Spec => []AtMostTwice
<1>1. IInv => AtMostTwice
  <2> SUFFICES ASSUME LimiterInv, NEW a \in keys PROVE ServedWithin(a) <= 2 * MaxRequests
    BY DEF IInv, AtMostTwice
  <2>1. CASE visitors[a].left = Past
    <3>1. IsFiniteSet(recent[a]) /\ Cardinality(recent[a]) <= MaxRequests
      BY <2>1 DEF LimiterInv, HistoryOK
    <3> QED BY <3>1, LimiterAssumption, FS_CardinalityType DEF ServedWithin
  <2>2. CASE visitors[a].left # Past
    BY <2>2, HistoryHasTwoWindows, LimiterAssumption
  <2> QED BY <2>1, <2>2
<1> QED BY <1>1, ApiInvariance, PTL

\* Who is refused has had the whole limit served within the last minute
\* (rateLimiter.allow).
THEOREM FullWhenRefused == Spec => []RefusedOnlyWhenFull
<1>1. IInv => RefusedOnlyWhenFull
  <2> SUFFICES ASSUME LimiterInv, NEW a \in keys, ~Allows(a) PROVE ServedWithin(a) >= MaxRequests
    BY DEF IInv, RefusedOnlyWhenFull
  <2>1. visitors[a] \in Visitor /\ visitors[a].left # Past /\ ~(visitors[a].requests < MaxRequests)
    BY DEF LimiterInv, LimiterTypeOK, Allows, exists, resetPassed
  <2> QED BY <2>1, HistoryHasTwoWindows, LimiterAssumption
<1> QED BY <1>1, ApiInvariance, PTL

\* A walk in which nobody wrote shows each promised row once and no other
\* (handleEntities, handleServers, makePagination).
THEOREM PagesShowAll == Spec => []WalkSeesAll
<1>1. IInv => WalkSeesAll
  <2> SUFFICES ASSUME WalkInv, walk.at = "done", walk.quiet, NEW i \in Ids
               PROVE  walk.seen[i] = IF Promised(i) THEN 1 ELSE 0
    BY DEF IInv, WalkSeesAll
  <2>1. Count <= (walk.page - 1) * walk.limit
    BY DEF WalkInv
  <2>2. walk.endpoint \in Endpoints /\ (walk.page - 1) * walk.limit \in Int
    BY DEF WalkInv, WalkType, Walks, Idle
  <2>3. Promised(i) => i \in AboveFloor(walk.endpoint)
    BY <2>2 DEF Promised, AboveFloor, present, floor
  <2>4. Promised(i) => ShownBefore(i)
    BY <2>1, <2>2, <2>3, PositionFacts DEF ShownBefore
  <2> QED BY <2>4 DEF WalkInv, ShownBefore
<1> QED BY <1>1, ApiInvariance, PTL
=============================================================================

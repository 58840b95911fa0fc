---------------------------- MODULE SchemaProofs -----------------------------
(***************************************************************************)
(* Theorems about SchemaMigration for any number of processes, and any     *)
(* list of migrations.                                                     *)
(***************************************************************************)
EXTENDS SchemaMigration, TLAPS

-----------------------------------------------------------------------------
(* The inductive invariant. *)

\* The statements of migration m before the n-th were executed, by p or by
\* another process.
DoneTo(m, n) == \A k \in 1..Len(Migrations[m].creates) : k < n => Migrations[m].creates[k] \in objects

\* What is recorded is there.
RecordedInv == \A m \in Steps : Migrations[m].name \in recorded => Creates(m) \subseteq objects

\* A process that has come to a place has seen that what is before it is there.
PlaceInv ==
    \A p \in Procs :
        /\ pc[p] \in Running => \A m \in Steps : m < step[p] => Creates(m) \subseteq objects
        /\ pc[p] \in {"apply", "record"} => step[p] \in Steps
        /\ pc[p] = "apply" => DoneTo(step[p], stmt[p])
        /\ pc[p] = "record" => Creates(step[p]) \subseteq objects

Inv == TypeOK /\ RecordedInv /\ PlaceInv /\ ReadySeesSchema

LEMMA LenFacts ==
    /\ Len(Migrations) \in Nat
    /\ \A m \in Steps : Len(Migrations[m].creates) \in Nat
BY MigrationsAssumption DEF Steps

LEMMA InitInv == Init => Inv
<1> SUFFICES ASSUME Init PROVE Inv
  OBVIOUS
<1>1. TypeOK
  <2>1. pc \in [Procs -> Running \cup Ended]
    BY DEF Init, Running, Ended
  <2>2. step \in [Procs -> 1..(Len(Migrations) + 1)] /\ stmt \in [Procs -> Nat \ {0}]
    BY LenFacts DEF Init
  <2> QED BY <2>1, <2>2 DEF Init, TypeOK
<1>2. RecordedInv
  BY DEF Init, RecordedInv
<1>3. PlaceInv /\ ReadySeesSchema
  BY DEF Init, PlaceInv, ReadySeesSchema, Running
<1> QED BY <1>1, <1>2, <1>3 DEF Inv

-----------------------------------------------------------------------------
(* Steps that leave the database alone. *)

LEMMA StartKeeps ==
    ASSUME Inv, NEW p \in Procs, Start(p)
    PROVE  Inv'
BY LenFacts DEF Start, Goto, Inv, TypeOK, Running, Ended, RecordedInv, PlaceInv, DoneTo, ReadySeesSchema, Steps

LEMMA StopKeeps ==
    ASSUME Inv, NEW p \in Procs, Locked(p) \/ Crash(p)
    PROVE  Inv'
BY LenFacts DEF Locked, Crash, Goto, Inv, TypeOK, Running, Ended, RecordedInv, PlaceInv, DoneTo, ReadySeesSchema

LEMMA CheckKeeps ==
    ASSUME Inv, NEW p \in Procs, Check(p)
    PROVE  Inv'
<1> USE LenFacts DEF Inv
<1>1. pc[p] = "check" /\ UNCHANGED <<objects, recorded, cut>>
  BY DEF Check
<1>2. CASE step[p] > Len(Migrations)
  <2>1. Goto(p, "ok") /\ UNCHANGED <<step, stmt>>
    BY <1>2 DEF Check
  <2>2. objects = Objects
    <3>1. \A m \in Steps : Creates(m) \subseteq objects
      BY <1>1, <1>2 DEF PlaceInv, Running, Steps, TypeOK
    <3> QED BY <3>1 DEF Objects, TypeOK
  <2> QED BY <1>1, <2>1, <2>2 DEF Goto, TypeOK, Running, Ended, RecordedInv, PlaceInv, DoneTo, ReadySeesSchema
<1>3. CASE step[p] <= Len(Migrations) /\ Migrations[step[p]].name \in recorded
  <2>1. step' = [step EXCEPT ![p] = @ + 1] /\ UNCHANGED <<pc, stmt>> /\ step[p] \in Steps
    BY <1>3 DEF Check, TypeOK, Steps
  <2>2. Creates(step[p]) \subseteq objects
    BY <1>3, <2>1 DEF RecordedInv
  <2>3. \A m \in Steps : m < step'[p] => Creates(m) \subseteq objects
    BY <1>1, <2>1, <2>2 DEF PlaceInv, Running, TypeOK, Steps
  <2>4. TypeOK'
    BY <1>1, <2>1 DEF TypeOK, Steps
  <2> QED BY <1>1, <2>1, <2>3, <2>4 DEF TypeOK, RecordedInv, PlaceInv, DoneTo, ReadySeesSchema
<1>4. CASE step[p] <= Len(Migrations) /\ Migrations[step[p]].name \notin recorded
  <2>1. Goto(p, "apply") /\ stmt' = [stmt EXCEPT ![p] = 1] /\ UNCHANGED step /\ step[p] \in Steps
    BY <1>4 DEF Check, TypeOK, Steps
  <2>2. DoneTo(step[p], 1)
    BY DEF DoneTo
  <2>3. TypeOK'
    BY <1>1, <2>1 DEF Goto, TypeOK, Running, Ended
  <2>4. PlaceInv'
    BY <1>1, <2>1, <2>2 DEF Goto, TypeOK, PlaceInv, DoneTo, Running
  <2> QED BY <1>1, <2>1, <2>3, <2>4 DEF Goto, TypeOK, RecordedInv, ReadySeesSchema
<1> QED BY <1>2, <1>3, <1>4 DEF TypeOK

-----------------------------------------------------------------------------
(* Steps that change it. *)

LEMMA ApplyKeeps ==
    ASSUME Inv, NEW p \in Procs, Apply(p)
    PROVE  Inv'
<1> USE LenFacts DEF Inv
<1> DEFINE o == Migrations[step[p]].creates[stmt[p]]
<1>1. /\ pc[p] = "apply" /\ stmt[p] <= Len(Migrations[step[p]].creates)
      /\ step[p] \in Steps /\ UNCHANGED <<recorded, step, cut>>
  BY DEF Apply, PlaceInv
<1>2. o \in Objects
  BY <1>1 DEF Objects, Creates, TypeOK
<1>3. CASE Goto(p, "exists") /\ UNCHANGED <<objects, stmt>>
  BY <1>1, <1>3 DEF Goto, TypeOK, Running, Ended, RecordedInv, PlaceInv, DoneTo, ReadySeesSchema
<1>4. CASE objects' = objects \cup {o} /\ stmt' = [stmt EXCEPT ![p] = @ + 1] /\ UNCHANGED pc
  <2>1. TypeOK'
    BY <1>1, <1>2, <1>4 DEF TypeOK
  <2>2. objects \subseteq objects' /\ (objects = Objects => objects' = Objects)
    BY <1>2, <1>4
  <2>3. \A k \in 1..Len(Migrations[step[p]].creates) :
          k < stmt[p] + 1 => Migrations[step[p]].creates[k] \in objects'
    <3>1. DoneTo(step[p], stmt[p])
      BY <1>1 DEF PlaceInv
    <3>2. stmt[p] \in Nat
      BY DEF TypeOK
    <3> SUFFICES ASSUME NEW k \in 1..Len(Migrations[step[p]].creates), k < stmt[p] + 1
                 PROVE  Migrations[step[p]].creates[k] \in objects'
      OBVIOUS
    <3>3. k < stmt[p] \/ k = stmt[p]
      BY <1>1, <3>2
    <3> QED BY <1>4, <3>1, <3>3 DEF DoneTo
  <2>4. PlaceInv'
    <3> SUFFICES ASSUME NEW q \in Procs
                 PROVE  /\ pc[q] \in Running => \A m \in Steps : m < step[q] => Creates(m) \subseteq objects'
                        /\ pc[q] \in {"apply", "record"} => step[q] \in Steps
                        /\ pc[q] = "apply" => DoneTo(step[q], stmt[q])'
                        /\ pc[q] = "record" => Creates(step[q]) \subseteq objects'
      BY <1>1, <1>4 DEF PlaceInv
    <3>1. pc[q] = "apply" => DoneTo(step[q], stmt[q])'
      <4>1. CASE q = p
        BY <1>1, <1>4, <2>3, <4>1 DEF TypeOK, DoneTo
      <4>2. CASE q # p
        BY <1>1, <1>4, <2>2, <4>2 DEF TypeOK, DoneTo, PlaceInv
      <4> QED BY <4>1, <4>2
    <3> QED BY <2>2, <3>1 DEF PlaceInv
  <2> QED BY <1>1, <1>4, <2>1, <2>2, <2>4 DEF RecordedInv, ReadySeesSchema
<1> QED BY <1>3, <1>4 DEF Apply

LEMMA AppliedKeeps ==
    ASSUME Inv, NEW p \in Procs, Applied(p)
    PROVE  Inv'
<1> USE LenFacts DEF Inv
<1>1. /\ pc[p] = "apply" /\ stmt[p] > Len(Migrations[step[p]].creates)
      /\ Goto(p, "record") /\ UNCHANGED <<objects, recorded, step, stmt, cut>>
      /\ step[p] \in Steps /\ DoneTo(step[p], stmt[p])
  BY DEF Applied, PlaceInv
<1>2. Creates(step[p]) \subseteq objects
  BY <1>1 DEF Creates, DoneTo, TypeOK
<1> QED BY <1>1, <1>2 DEF Goto, TypeOK, Running, Ended, RecordedInv, PlaceInv, DoneTo, ReadySeesSchema

LEMMA RecordKeeps ==
    ASSUME Inv, NEW p \in Procs, Record(p)
    PROVE  Inv'
<1> USE LenFacts DEF Inv
<1> DEFINE n == Migrations[step[p]].name
<1>1. /\ pc[p] = "record" /\ step[p] \in Steps /\ Creates(step[p]) \subseteq objects
      /\ UNCHANGED <<objects, stmt, cut>>
  BY DEF Record, PlaceInv
<1>2. CASE Goto(p, "exists") /\ UNCHANGED <<recorded, step>>
  BY <1>1, <1>2 DEF Goto, TypeOK, Running, Ended, RecordedInv, PlaceInv, DoneTo, ReadySeesSchema
<1>3. CASE recorded' = recorded \cup {n} /\ step' = [step EXCEPT ![p] = @ + 1] /\ Goto(p, "check")
  <2>1. TypeOK'
    BY <1>1, <1>3 DEF TypeOK, Goto, Running, Ended, Names, Steps
  <2>2. RecordedInv'
    <3>1. \A m \in Steps : Migrations[m].name = n => m = step[p]
      BY <1>1, MigrationsAssumption
    <3> QED BY <1>1, <1>3, <3>1 DEF RecordedInv
  <2>3. \A m \in Steps : m < step'[p] => Creates(m) \subseteq objects
    BY <1>1, <1>3 DEF PlaceInv, Running, TypeOK, Steps
  <2>4. PlaceInv'
    BY <1>1, <1>3, <2>3 DEF PlaceInv, Goto, TypeOK, DoneTo, Running
  <2> QED BY <1>1, <1>3, <2>1, <2>2, <2>4 DEF ReadySeesSchema, Goto, TypeOK
<1> QED BY <1>2, <1>3 DEF Record

-----------------------------------------------------------------------------
(* The theorems. *)

LEMMA StutterKeeps == Inv /\ UNCHANGED vars => Inv'
BY DEF vars, Inv, TypeOK, RecordedInv, PlaceInv, DoneTo, ReadySeesSchema

\* The inductive invariant of Migrate, whatever processes run it at once, fail
\* or are killed, and for any migrations.
THEOREM MigrationInvariance == Spec => []Inv
<1>1. Inv /\ [Next]_vars => Inv'
  BY StartKeeps, StopKeeps, CheckKeeps, ApplyKeeps, AppliedKeeps, RecordKeeps, StutterKeeps
     DEF Next, Step
<1> QED BY <1>1, InitInv, PTL DEF Spec

\* Types, for any processes and migrations: only objects of the migrations are
\* created and only their names recorded.
THEOREM SchemaTypeCorrect == Spec => []TypeOK
<1>1. Inv => TypeOK
  BY DEF Inv
<1> QED BY <1>1, MigrationInvariance, PTL

\* A process whose Migrate returned without an error has the whole schema,
\* although nothing of Migrate is in a transaction.
THEOREM ReadyHasSchema == Spec => []ReadySeesSchema
<1>1. Inv => ReadySeesSchema
  BY DEF Inv
<1> QED BY <1>1, MigrationInvariance, PTL

-----------------------------------------------------------------------------
(* Nothing is stranded. *)

\* Migration m is left half done unless somebody owns it.
Half(m) == ~Migrations[m].ifNotExists /\ Migrations[m].name \notin recorded /\ Present(m) # {}

LEMMA Distinct ==
    /\ \A m, n \in Steps : Migrations[m].name = Migrations[n].name => m = n
    /\ \A m, n \in Steps : \A k \in 1..Len(Migrations[m].creates) : \A j \in 1..Len(Migrations[n].creates) :
         Obj(m, k) = Obj(n, j) => m = n /\ k = j
<1>1. \A m \in Steps : \A k \in 1..Len(Migrations[m].creates) : Obj(m, k) \in Creates(m)
  BY DEF Obj, Creates
<1>2. \A m, n \in Steps : m # n => Migrations[m].name # Migrations[n].name /\ Creates(m) \cap Creates(n) = {}
  BY MigrationsAssumption
<1>3. \A m \in Steps : \A j, k \in 1..Len(Migrations[m].creates) :
        Migrations[m].creates[j] = Migrations[m].creates[k] => j = k
  BY MigrationsAssumption
<1> QED BY <1>1, <1>2, <1>3 DEF Obj

\* An owner that a step leaves alone stays one, when it creates nothing.
LEMMA OwnerStays ==
    ASSUME NEW q \in Procs, NEW m \in Steps, Owns(q, m), UNCHANGED objects,
           pc'[q] = pc[q], step'[q] = step[q], stmt'[q] = stmt[q]
    PROVE  Owns(q, m)'
BY DEF Owns, Begun, Present, Obj

\* Steps that neither create nor record, of a process that has begun nothing.
LEMMA BystanderStrands ==
    ASSUME Inv, NothingStranded, NEW p \in Procs, ~Begun(p) \/ cut,
           UNCHANGED <<objects, recorded>>, cut => cut',
           \A q \in Procs \ {p} : pc'[q] = pc[q] /\ step'[q] = step[q] /\ stmt'[q] = stmt[q]
    PROVE  NothingStranded'
<1> SUFFICES ASSUME ~cut', NEW m \in Steps, Half(m)' PROVE \E q \in Procs : Owns(q, m)'
  BY DEF NothingStranded, Half, Steps
<1>1. ~cut /\ Half(m)
  BY DEF Half, Present, Obj
<1>2. PICK q \in Procs : Owns(q, m)
  BY <1>1 DEF NothingStranded, Half
<1>3. q # p
  BY <1>1, <1>2 DEF Owns
<1> QED BY <1>2, <1>3, OwnerStays

LEMMA ApplyStrands ==
    ASSUME Inv, NothingStranded, NEW p \in Procs, Apply(p)
    PROVE  NothingStranded'
<1> USE LenFacts DEF Inv
<1> DEFINE s == step[p]
           o == Obj(s, stmt[p])
<1>1. /\ pc[p] = "apply" /\ stmt[p] \in 1..Len(Migrations[s].creates)
      /\ s \in Steps /\ DoneTo(s, stmt[p]) /\ UNCHANGED <<recorded, step, cut>>
  BY DEF Apply, PlaceInv, TypeOK
<1> SUFFICES ASSUME ~cut, NEW m \in Steps, Half(m)' PROVE \E q \in Procs : Owns(q, m)'
  BY <1>1 DEF NothingStranded, Half, Steps
<1>2. ~Migrations[m].ifNotExists /\ Migrations[m].name \notin recorded
  BY <1>1 DEF Half
<1>3. CASE o \in objects /\ ~Migrations[s].ifNotExists
  <2>1. Goto(p, "exists") /\ UNCHANGED <<objects, stmt>>
    BY <1>3 DEF Apply, Obj
  <2>2. Half(m)
    BY <1>1, <2>1 DEF Half, Present, Obj
  <2>3. PICK q \in Procs : Owns(q, m)
    BY <2>2 DEF NothingStranded, Half
  <2>4. q # p
    <3>1. stmt[p] \in Present(s) /\ ~(stmt[p] < stmt[p])
      BY <1>1, <1>3 DEF Present
    <3> QED BY <1>1, <2>3, <3>1 DEF Owns
  <2> QED BY <1>1, <2>1, <2>3, <2>4, OwnerStays DEF Goto, TypeOK
<1>4. CASE ~(o \in objects /\ ~Migrations[s].ifNotExists)
  <2>1. objects' = objects \cup {o} /\ stmt' = [stmt EXCEPT ![p] = @ + 1] /\ UNCHANGED pc
    BY <1>4 DEF Apply, Obj
  <2>2. \A k \in 1..Len(Migrations[m].creates) : Obj(m, k) = o => m = s /\ k = stmt[p]
    BY <1>1, Distinct
  <2>3. Present(m)' = {k \in 1..Len(Migrations[m].creates) : Obj(m, k) \in objects'}
    BY DEF Present, Obj
  <2>4. CASE m # s
    <3>1. Present(m)' = Present(m)
      BY <2>1, <2>2, <2>3, <2>4 DEF Present
    <3>2. PICK q \in Procs : Owns(q, m)
      BY <1>2, <3>1 DEF NothingStranded, Half
    <3>3. q # p /\ stmt'[q] = stmt[q]
      BY <2>1, <2>4, <3>2 DEF Owns, TypeOK
    <3> QED BY <1>1, <2>1, <3>1, <3>2, <3>3 DEF Owns, Begun
  <2>5. CASE m = s
    <3>1. o \notin objects
      BY <1>2, <1>4, <2>5
    <3>2. o \in Creates(s)
      BY <1>1 DEF Creates, Obj
    <3>3. \A k \in Present(m) : k < stmt[p]
      <4>1. CASE Present(m) = {}
        BY <4>1
      <4>2. CASE Present(m) # {}
        <5>1. PICK q \in Procs : Owns(q, m)
          BY <1>2, <4>2 DEF NothingStranded
        <5>2. pc[q] # "record"
          BY <2>5, <3>1, <3>2, <5>1 DEF PlaceInv, Owns
        <5>3. pc[q] = "apply" /\ DoneTo(s, stmt[q]) /\ stmt[q] \in Nat
          BY <2>5, <5>1, <5>2 DEF Owns, Begun, PlaceInv, TypeOK
        <5>4. ~(stmt[p] < stmt[q])
          BY <1>1, <3>1, <5>3 DEF DoneTo, Obj
        <5>5. \A k \in Present(m) : k \in Nat /\ k < stmt[q]
          BY <5>1, <5>3 DEF Owns, Present
        <5> QED BY <1>1, <5>3, <5>4, <5>5
      <4> QED BY <4>1, <4>2
    <3>4. \A k \in Present(m)' : k = stmt[p] \/ k \in Present(m)
      BY <2>1, <2>2, <2>3 DEF Present
    <3>5. stmt'[p] = stmt[p] + 1 /\ stmt[p] \in Nat \ {0} /\ pc'[p] = "apply" /\ step'[p] = m
      BY <1>1, <2>1, <2>5 DEF TypeOK
    <3>6. \A k \in Present(m)' : k \in Nat /\ k < stmt'[p]
      BY <2>3, <3>3, <3>4, <3>5
    <3>7. Owns(p, m)'
      BY <1>2, <3>5, <3>6 DEF Owns, Begun
    <3> QED BY <3>7
  <2> QED BY <2>4, <2>5
<1> QED BY <1>3, <1>4

LEMMA AppliedStrands ==
    ASSUME Inv, NothingStranded, NEW p \in Procs, Applied(p)
    PROVE  NothingStranded'
<1> USE LenFacts DEF Inv
<1>1. /\ pc[p] = "apply" /\ pc' = [pc EXCEPT ![p] = "record"]
      /\ UNCHANGED <<objects, recorded, step, stmt, cut>>
  BY DEF Applied, Goto
<1> SUFFICES ASSUME ~cut, NEW m \in Steps, Half(m)' PROVE \E q \in Procs : Owns(q, m)'
  BY <1>1 DEF NothingStranded, Half, Steps
<1>2. Half(m)
  BY <1>1 DEF Half, Present, Obj
<1>3. PICK q \in Procs : Owns(q, m)
  BY <1>2 DEF NothingStranded, Half
<1>4. CASE q = p
  BY <1>1, <1>3, <1>4 DEF Owns, Begun, TypeOK
<1>5. CASE q # p
  BY <1>1, <1>3, <1>5, OwnerStays DEF TypeOK
<1> QED BY <1>4, <1>5

LEMMA RecordStrands ==
    ASSUME Inv, NothingStranded, NEW p \in Procs, Record(p)
    PROVE  NothingStranded'
<1> USE LenFacts DEF Inv
<1> DEFINE n == Migrations[step[p]].name
<1>1. /\ step[p] \in Steps /\ UNCHANGED <<objects, stmt, cut>>
      /\ \A q \in Procs \ {p} : pc'[q] = pc[q] /\ step'[q] = step[q]
      /\ recorded \subseteq recorded' /\ n \in recorded'
  BY DEF Record, PlaceInv, Goto, TypeOK
<1> SUFFICES ASSUME ~cut, NEW m \in Steps, Half(m)' PROVE \E q \in Procs : Owns(q, m)'
  BY <1>1 DEF NothingStranded, Half, Steps
<1>2. Half(m) /\ m # step[p]
  BY <1>1 DEF Half, Present, Obj
<1>3. PICK q \in Procs : Owns(q, m)
  BY <1>2 DEF NothingStranded, Half
<1>4. q # p
  BY <1>2, <1>3 DEF Owns
<1> QED BY <1>1, <1>3, <1>4, OwnerStays

LEMMA StrandedNext == Inv /\ NothingStranded /\ [Next]_vars => NothingStranded'
<1> SUFFICES ASSUME Inv, NothingStranded, [Next]_vars PROVE NothingStranded'
  OBVIOUS
<1>1. ASSUME NEW p \in Procs, Start(p) PROVE NothingStranded'
  BY <1>1, BystanderStrands DEF Start, Goto, Begun, Ended, Inv, TypeOK
<1>2. ASSUME NEW p \in Procs, Check(p) PROVE NothingStranded'
  <2>1. /\ ~Begun(p) /\ UNCHANGED <<objects, recorded, cut>>
        /\ \A q \in Procs \ {p} : pc'[q] = pc[q] /\ step'[q] = step[q] /\ stmt'[q] = stmt[q]
    BY <1>2 DEF Check, Goto, Begun, Inv, TypeOK
  <2> QED BY <2>1, BystanderStrands
<1>3. ASSUME NEW p \in Procs, Locked(p) \/ Crash(p) PROVE NothingStranded'
  <2>1. /\ UNCHANGED <<objects, recorded, step, stmt>> /\ cut' = (cut \/ Begun(p))
        /\ \A q \in Procs \ {p} : pc'[q] = pc[q]
    BY <1>3 DEF Locked, Crash, Goto, Inv, TypeOK
  <2>2. CASE cut'
    BY <2>2 DEF NothingStranded
  <2>3. CASE ~cut'
    BY <2>1, <2>3, BystanderStrands
  <2> QED BY <2>2, <2>3
<1>4. CASE UNCHANGED vars
  BY <1>4 DEF vars, NothingStranded, Present, Owns, Begun, Obj
<1> QED
  BY <1>1, <1>2, <1>3, <1>4, ApplyStrands, AppliedStrands, RecordStrands DEF Next, Step

\* However many processes migrate together, and whatever lock errors and
\* objects that exist make them fail: unless one is stopped in the middle of a
\* migration that cannot be begun twice, what exists of such a migration before
\* it is recorded belongs to a process that is still at it (Store.Migrate).
THEOREM NothingIsStranded == Spec => []NothingStranded
<1>1. Init => NothingStranded
  BY DEF Init, NothingStranded, Present
<1> QED BY <1>1, StrandedNext, MigrationInvariance, PTL DEF Spec
=============================================================================

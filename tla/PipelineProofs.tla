--------------------------- MODULE PipelineProofs ----------------------------
(***************************************************************************)
(* Theorems about Pipeline for every set of records, every number of       *)
(* exporters, every list of views and every bound on the number of crawls. *)
(***************************************************************************)
EXTENDS Pipeline, FiniteSetTheorems, TLAPS

-----------------------------------------------------------------------------
(* The promotion path. *)

\* entity.go has two separate accounts of how an MCP identity status may move,
\* Promote and the table of CanTransitionMCPIdentityStatus, and consults only
\* the first: a promotion is always a move the table allows, and an entity that
\* is blocked, or was ruled out, is not moved into VERIFIED.
THEOREM PromoteIsLegal ==
    ASSUME NEW s \in ValidMCPIdentityStatuses, NEW staticChecked \in BOOLEAN,
           NEW rv \in {"NONE", "PASSED"}, NEW sec \in SecurityStatuses,
           Promote(s, staticChecked, rv, sec) # s
    PROVE  /\ CanTransitionMCPIdentityStatus(s, Promote(s, staticChecked, rv, sec))
           /\ s # "NOT_MCP"
           /\ sec = "BLOCKED" => Promote(s, staticChecked, rv, sec) # "VERIFIED"
<1>1. CASE s = "CANDIDATE"
  BY <1>1 DEF Promote, CanTransitionMCPIdentityStatus
<1>2. CASE s = "STATIC_VERIFIED"
  BY <1>2 DEF Promote, CanTransitionMCPIdentityStatus
<1>3. CASE s = "RUNTIME_VERIFIED"
  BY <1>3 DEF Promote, CanTransitionMCPIdentityStatus
<1>4. CASE s \in {"VERIFIED", "NOT_MCP"}
  BY <1>4 DEF Promote
<1> QED BY <1>1, <1>2, <1>3, <1>4 DEF ValidMCPIdentityStatuses

-----------------------------------------------------------------------------
(* The inductive invariant. *)

Unverified(e) == e.status \notin {"RUNTIME_VERIFIED", "VERIFIED"}

IdentityFollowsClass(e) == e.status = "STATIC_VERIFIED" <=> e.primary = "MCP_SERVER"

\* What is true of an entity of the current crawl at every stage.
InMemory(e) == ~e.staticAt /\ Unverified(e) /\ (e.rv = "PASSED" => e.ep)

\* What is true of every row.
Stored(e) ==
    /\ Unverified(e)
    /\ IdentityFollowsClass(e)
    /\ e.rv = "PASSED" => e.ep
    /\ e.staticAt \/ (e.sec # "" /\ e.scored)

AfterIdentity ==
    {"RUNTIME_VERIFICATION", "VERIFY_SAVE", "SECURITY_SCANNER",
     "MCP_IDENTITY_PROMOTE", "QUALITY_SCORING", "PERSIST"}

\* How far the entities got: a stage may have been cut short only if the
\* context is cancelled.
StageInv ==
    /\ \A e \in entities : InMemory(e)
    /\ pc \in AfterIdentity => \A e \in entities : IdentityFollowsClass(e)
    /\ ~ctxDone /\ pc \in {"MCP_IDENTITY_PROMOTE", "QUALITY_SCORING", "PERSIST"} =>
         \A e \in entities : e.sec # ""
    /\ ~ctxDone /\ pc = "PERSIST" => \A e \in entities : e.scored
    /\ pc = "PERSIST" => todo \subseteq entities
    /\ pc = "VERIFY_SAVE" => \A e \in todo : Stored(e)

StoreInv == \A e \in Rows(db) : Stored(e)

FilesInv ==
    /\ \A w \in Processes : \A e \in gen[w].ents : Unverified(e)
    /\ \A k \in 1..LegacyPos :
         ViewAt(k) \in {"taiwan-mcp", "awesome-taiwan-mcp"} => views[k] \in {{}, Torn}

FiniteInv ==
    /\ IsFiniteSet(entities)
    /\ \A w \in Processes : IsFiniteSet(gen[w].ents)

Inv == TypeOK /\ FiniteInv /\ StageInv /\ StoreInv /\ FilesInv

-----------------------------------------------------------------------------
(* Lemmas about the operators. *)

\* Promote only returns statuses.
LEMMA PromoteType ==
    ASSUME NEW s \in ValidMCPIdentityStatuses \cup {""}, NEW st, NEW rv, NEW sec
    PROVE  Promote(s, st, rv, sec) \in ValidMCPIdentityStatuses \cup {""}
BY DEF Promote, ValidMCPIdentityStatuses

\* What each in-memory stage does to an entity keeps its type.
LEMMA StageTypes ==
    ASSUME NEW e \in EntitySet
    PROVE  /\ Relevance(e) \in EntitySet
           /\ Classify(e) \in EntitySet
           /\ Identify(e) \in EntitySet
           /\ Verify(e) \in EntitySet
           /\ Scan(e) \in EntitySet
           /\ PromoteEntity(e) \in EntitySet
           /\ Score(e) \in EntitySet
<1>1. Relevance(e) \in EntitySet
  BY PipelineAssumption DEF EntitySet, Relevance
<1>2. Classify(e) \in EntitySet
  BY DEF EntitySet, Classify, Classes
<1>3. Identify(e) \in EntitySet
  BY DEF EntitySet, Identify, ValidMCPIdentityStatuses
<1>4. Verify(e) \in EntitySet
  BY DEF EntitySet, Verify
<1>5. Scan(e) \in EntitySet
  BY DEF EntitySet, Scan, ScanResult, SecurityStatuses
<1>6. PromoteEntity(e) \in EntitySet
  <2> DEFINE new == Promote(e.status, e.staticAt, e.rv, e.sec)
  <2>1. new \in ValidMCPIdentityStatuses \cup {""}
    BY PromoteType DEF EntitySet
  <2> HIDE DEF new
  <2>2. PromoteEntity(e) = e \/
        \E b \in BOOLEAN : PromoteEntity(e) = [e EXCEPT !.status = new, !.runtimeAt = b]
    <3>1. (e.runtimeAt \/ (new # e.status /\ new \in {"RUNTIME_VERIFIED", "VERIFIED"})) \in BOOLEAN
      BY DEF EntitySet
    <3> QED BY <3>1 DEF PromoteEntity, new
  <2> QED BY <2>1, <2>2 DEF EntitySet
<1>7. Score(e) \in EntitySet
  BY DEF EntitySet, Score
<1> QED BY <1>1, <1>2, <1>3, <1>4, <1>5, <1>6, <1>7

\* An entity without StaticCheckedAt is never promoted.
LEMMA NoPromotion ==
    ASSUME NEW e \in EntitySet, ~e.staticAt
    PROVE  PromoteEntity(e) = e
BY DEF PromoteEntity, ShouldPromoteToVerified

\* No in-memory stage breaks what is true of an entity of the crawl.
LEMMA StagesKeep ==
    ASSUME NEW e \in EntitySet, InMemory(e)
    PROVE  /\ InMemory(Relevance(e))
           /\ InMemory(Classify(e))
           /\ InMemory(Identify(e)) /\ IdentityFollowsClass(Identify(e))
           /\ InMemory(Verify(e)) /\ (IdentityFollowsClass(e) => IdentityFollowsClass(Verify(e)))
           /\ InMemory(Scan(e)) /\ (IdentityFollowsClass(e) => IdentityFollowsClass(Scan(e)))
           /\ Scan(e).sec # ""
           /\ InMemory(Score(e)) /\ (IdentityFollowsClass(e) => IdentityFollowsClass(Score(e)))
           /\ Score(e).sec = e.sec /\ Score(e).scored
<1> USE DEF EntitySet, InMemory, Unverified, IdentityFollowsClass
<1>1. InMemory(Relevance(e))
  BY DEF Relevance
<1>2. InMemory(Classify(e))
  BY DEF Classify
<1>3. InMemory(Identify(e)) /\ IdentityFollowsClass(Identify(e))
  BY DEF Identify
<1>4. InMemory(Verify(e)) /\ (IdentityFollowsClass(e) => IdentityFollowsClass(Verify(e)))
  BY DEF Verify
<1>5. /\ InMemory(Scan(e)) /\ (IdentityFollowsClass(e) => IdentityFollowsClass(Scan(e)))
      /\ Scan(e).sec # ""
  BY DEF Scan, ScanResult
<1>6. /\ InMemory(Score(e)) /\ (IdentityFollowsClass(e) => IdentityFollowsClass(Score(e)))
      /\ Score(e).sec = e.sec /\ Score(e).scored
  BY DEF Score
<1> QED BY <1>1, <1>2, <1>3, <1>4, <1>5, <1>6

\* A fresh entity.
LEMMA NewEntityType ==
    ASSUME NEW base \in AllRecords, NEW group \in SUBSET AllRecords, NEW now \in Nat
    PROVE  NewEntity(base, group, now) \in EntitySet /\ InMemory(NewEntity(base, group, now))
<1>1. (\E r \in group : r.ep) \in BOOLEAN
  OBVIOUS
<1> QED BY <1>1 DEF NewEntity, EntitySet, InMemory, Unverified

\* A seeded entity is complete but for the scan, and not verified.
LEMMA SeedEntityStored ==
    ASSUME NEW r \in SeedRecords, NEW now \in Nat
    PROVE  SeedEntity(r, now) \in EntitySet /\ Stored(SeedEntity(r, now))
<1> DEFINE n == NewEntity(r, {}, now)
<1>1. r \in AllRecords
  BY DEF AllRecords
<1>2. n \in EntitySet /\ n.rv = "NONE"
  <2>1. n.rv = "NONE"
    BY DEF NewEntity
  <2> QED BY <1>1, <2>1, NewEntityType
<1>3. r.taiwan \in TaiwanLevels /\ r.class \in Classes
  BY <1>1, PipelineAssumption DEF Classes
<1> HIDE DEF n
<1>4. SeedEntity(r, now) =
        [n EXCEPT !.primary = r.class, !.taiwan = r.taiwan, !.staticAt = TRUE, !.scored = TRUE,
                  !.status = IF r.class = "MCP_SERVER" THEN "STATIC_VERIFIED" ELSE "NOT_MCP"]
  BY DEF SeedEntity, n
<1> QED
  BY <1>2, <1>3, <1>4
  DEF EntitySet, Stored, Unverified, IdentityFollowsClass, ValidMCPIdentityStatuses

\* What a Save writes.
LEMMA SaveRow ==
    ASSUME TypeOK, NEW e \in EntitySet, Save(e)
    PROVE  /\ db' \in [Ids -> EntitySet \cup {NoRow}]
           /\ \A i \in Ids \ {e.src.id} : db'[i] = db[i]
           /\ e.src.id \in Ids
           /\ \E first \in Nat : /\ db'[e.src.id] = [e EXCEPT !.firstSeen = first]
                                 /\ db[e.src.id] # NoRow => first = db[e.src.id].firstSeen
<1> DEFINE i == e.src.id
<1>1. i \in Ids
  BY PipelineAssumption DEF EntitySet
<1>2. db \in [Ids -> EntitySet \cup {NoRow}]
  BY DEF TypeOK
<1>3. PICK first \in Nat :
        /\ db' = [db EXCEPT ![i] = [e EXCEPT !.firstSeen = first]]
        /\ db[i] # NoRow => first = db[i].firstSeen
  <2>1. CASE HasRow(db, i)
    <3>1. db[i].firstSeen \in Nat
      BY <1>1, <1>2, <2>1 DEF HasRow, EntitySet
    <3> QED BY <2>1, <3>1 DEF Save, Upsert, HasRow
  <2>2. CASE ~HasRow(db, i)
    <3>1. e.firstSeen \in Nat /\ e = [e EXCEPT !.firstSeen = e.firstSeen]
      BY DEF EntitySet
    <3> QED BY <2>2, <3>1 DEF Save, Upsert, HasRow
  <2> QED BY <2>1, <2>2
<1>4. [e EXCEPT !.firstSeen = first] \in EntitySet
  BY DEF EntitySet
<1> QED BY <1>1, <1>2, <1>3, <1>4

\* Saving a complete entity keeps every row complete.
LEMMA SaveKeepsStoreInv ==
    ASSUME TypeOK, StoreInv, NEW e \in EntitySet, Save(e), Stored(e)
    PROVE  StoreInv'
<1> SUFFICES ASSUME NEW i \in Ids, db'[i] # NoRow
             PROVE  Stored(db'[i])
  BY DEF StoreInv, Rows, HasRow
<1>1. CASE i # e.src.id
  <2>1. db'[i] = db[i]
    BY <1>1, SaveRow
  <2> QED BY <2>1 DEF StoreInv, Rows, HasRow
<1>2. CASE i = e.src.id
  <2>1. PICK first \in Nat : db'[i] = [e EXCEPT !.firstSeen = first]
    BY <1>2, SaveRow
  <2> QED BY <2>1 DEF EntitySet, Stored, Unverified, IdentityFollowsClass
<1> QED BY <1>1, <1>2

-----------------------------------------------------------------------------
(* Type correctness. *)

LEMMA TypeInit == Init => TypeOK
<1> SUFFICES ASSUME Init PROVE TypeOK
  OBVIOUS
<1> USE DEF Init
<1>1. db \in [Ids -> EntitySet \cup {NoRow}]
  OBVIOUS
<1>2. gen \in [Processes -> [on : BOOLEAN, ents : SUBSET EntitySet, pos : Nat]]
  BY DEF IdleGen
<1>3. views \in [1..LegacyPos -> (SUBSET AllRecords) \cup {Torn}]
  OBVIOUS
<1>4. index \in [ViewNames -> Nat] \cup {Torn}
  OBVIOUS
<1>5. pc \in Stages /\ mode \in Modes
  BY DEF Stages, Modes
<1> QED BY <1>1, <1>2, <1>3, <1>4, <1>5 DEF TypeOK

\* The variables of a run once it is over.
LEMMA TypeEndRun ==
    ASSUME TypeOK, NEW how \in {"ok", "error", "crashed"}, EndRun(how)
    PROVE  /\ db' = db /\ runs' = runs
           /\ pc' \in Stages /\ mode' \in Modes /\ ctxDone' \in BOOLEAN
           /\ records' \subseteq Records
           /\ entities' = {} /\ todo' = {} /\ failed' = {}
           /\ outcome' \in {"none", "running", "ok", "error", "crashed"}
BY DEF EndRun, Stages, Modes

\* GenerateViews keeps the types of the files.
LEMMA TypeFiles ==
    ASSUME TypeOK, FiniteInv, NEW w \in Processes, WriteFile(w) \/ Abandon(w)
    PROVE  /\ views' \in [1..LegacyPos -> (SUBSET AllRecords) \cup {Torn}]
           /\ index' \in [ViewNames -> Nat] \cup {Torn}
           /\ gen' \in [Processes -> [on : BOOLEAN, ents : SUBSET EntitySet, pos : Nat]]
           /\ lastGen' \in {"none", "running", "complete", "aborted"}
<1> USE DEF TypeOK
<1>1. IdleGen \in [on : BOOLEAN, ents : SUBSET EntitySet, pos : Nat]
  BY DEF IdleGen
<1>2. gen[w] \in [on : BOOLEAN, ents : SUBSET EntitySet, pos : Nat]
  OBVIOUS
<1>3. CASE Abandon(w)
  <2>1. gen' = [gen EXCEPT ![w] = IdleGen] /\ lastGen' = "aborted"
    BY <1>3 DEF Abandon
  <2>2. views' = views \/ views' = [views EXCEPT ![gen[w].pos] = Torn]
    BY <1>3 DEF Abandon
  <2>3. index' = index \/ index' = Torn
    BY <1>3 DEF Abandon
  <2>4. views' \in [1..LegacyPos -> (SUBSET AllRecords) \cup {Torn}]
    <3> DEFINE D == 1..LegacyPos
               C == (SUBSET AllRecords) \cup {Torn}
    <3>1. views \in [D -> C] /\ Torn \in C
      OBVIOUS
    <3> HIDE DEF C, D
    <3>2. views' \in [D -> C]
      BY <2>2, <3>1
    <3> QED BY <3>2 DEF C, D
  <2>5. gen' \in [Processes -> [on : BOOLEAN, ents : SUBSET EntitySet, pos : Nat]]
    BY <1>1, <2>1
  <2> QED BY <2>1, <2>3, <2>4, <2>5
<1>4. CASE WriteFile(w) /\ gen[w].pos < IndexPos
  <2> DEFINE k == gen[w].pos
             new == {e.src : e \in Members(ViewAt(k), gen[w].ents)}
  <2>1. new \in SUBSET AllRecords
    <3>1. \A e \in gen[w].ents : e \in EntitySet
      BY <1>2
    <3>2. \A e \in EntitySet : e.src \in AllRecords
      BY DEF EntitySet
    <3> QED BY <3>1, <3>2 DEF Members
  <2>2. /\ views' = [views EXCEPT ![k] = new]
        /\ gen' = [gen EXCEPT ![w].pos = k + 1]
        /\ index' = index /\ lastGen' = lastGen
    BY <1>4 DEF WriteFile
  <2>3. k + 1 \in Nat
    BY <1>2
  <2> HIDE DEF new
  <2> QED BY <1>2, <2>1, <2>2, <2>3
<1>5. CASE WriteFile(w) /\ ~(gen[w].pos < IndexPos)
  <2>1. \A v \in ViewNames : CountFor(v, gen[w].ents) \in Nat
    <3> SUFFICES ASSUME NEW v \in ViewNames PROVE CountFor(v, gen[w].ents) \in Nat
      OBVIOUS
    <3>1. IsFiniteSet(gen[w].ents) /\ Members(v, gen[w].ents) \subseteq gen[w].ents
      BY DEF FiniteInv, Members
    <3>2. IsFiniteSet(Members(v, gen[w].ents))
      BY <3>1, FS_Subset
    <3> QED BY <3>2, FS_CardinalityType DEF CountFor
  <2>2. /\ views' = views
        /\ gen' = [gen EXCEPT ![w] = IdleGen]
        /\ index' = [v \in ViewNames |-> CountFor(v, gen[w].ents)]
        /\ lastGen' = "complete"
    BY <1>5 DEF WriteFile
  <2> QED BY <1>1, <2>1, <2>2
<1> QED BY <1>3, <1>4, <1>5

LEMMA TypeNext == TypeOK /\ FiniteInv /\ [Next]_vars => TypeOK'
<1> SUFFICES ASSUME TypeOK, FiniteInv, [Next]_vars PROVE TypeOK'
  OBVIOUS
<1> USE DEF viewVars, crawlVars
<1>1. CASE RunDiscovery
  <2>1. UNCHANGED viewVars
    BY <1>1 DEF RunDiscovery
  <2>2. CASE EndRun("error")
    BY <2>1, <2>2, TypeEndRun DEF TypeOK
  <2>3. CASE ~EndRun("error")
    <3>1. pc' \in Stages
      BY <1>1, <2>3 DEF RunDiscovery, Stages
    <3> QED BY <1>1, <2>1, <2>3, <3>1 DEF RunDiscovery, TypeOK
  <2> QED BY <2>2, <2>3
<1>2. CASE RunNormalize
  <2>1. UNCHANGED viewVars
    BY <1>2 DEF RunNormalize
  <2>2. CASE EndRun("error")
    BY <2>1, <2>2, TypeEndRun DEF TypeOK
  <2>3. CASE ~EndRun("error")
    <3>1. PICK bases \in SUBSET records : entities' = {Merged(b) : b \in bases}
      BY <1>2, <2>3 DEF RunNormalize
    <3>2. \A b \in bases : Merged(b) \in EntitySet
      BY NewEntityType DEF Merged, TypeOK, AllRecords
    <3>3. entities' \subseteq EntitySet
      BY <3>1, <3>2
    <3>4. pc' \in Stages
      BY <1>2, <2>3 DEF RunNormalize, Stages
    <3>5. UNCHANGED <<db, mode, ctxDone, records, todo, failed, runs, outcome>>
      BY <1>2, <2>3 DEF RunNormalize
    <3> QED BY <2>1, <3>3, <3>4, <3>5 DEF TypeOK
  <2> QED BY <2>2, <2>3
<1>3. CASE RunTaiwanRelevance
  <2>1. entities' \subseteq EntitySet
    BY <1>3, StageTypes DEF RunTaiwanRelevance, WholeStage, TypeOK
  <2> QED BY <1>3, <2>1 DEF RunTaiwanRelevance, WholeStage, TypeOK, Stages
<1>4. CASE RunClassifier
  <2>1. entities' \subseteq EntitySet
    BY <1>4, StageTypes DEF RunClassifier, WholeStage, TypeOK
  <2> QED BY <1>4, <2>1 DEF RunClassifier, WholeStage, TypeOK, Stages
<1>5. CASE RunMCPIdentity
  <2>1. entities' \subseteq EntitySet
    BY <1>5, StageTypes DEF RunMCPIdentity, WholeStage, TypeOK
  <2> QED BY <1>5, <2>1 DEF RunMCPIdentity, WholeStage, TypeOK, Stages
<1>6. CASE RunRuntimeVerification
  <2>1. entities' \subseteq EntitySet
    BY <1>6, StageTypes DEF RunRuntimeVerification, StageUntilCancelled, TypeOK
  <2> QED BY <1>6, <2>1 DEF RunRuntimeVerification, StageUntilCancelled, TypeOK, Stages
<1>7. CASE RunRuntimeVerificationOnly
  <2>1. Rows(db) \subseteq EntitySet
    BY DEF TypeOK, Rows, HasRow
  <2>2. todo' \subseteq EntitySet /\ ctxDone' \in BOOLEAN
    BY <1>7, <2>1, StageTypes DEF RunRuntimeVerificationOnly, TypeOK
  <2>3. pc' \in Stages
    BY <1>7 DEF RunRuntimeVerificationOnly, Stages
  <2> QED BY <1>7, <2>2, <2>3 DEF RunRuntimeVerificationOnly, TypeOK
<1>8. CASE VerifySave
  <2>1. db' \in [Ids -> EntitySet \cup {NoRow}]
    BY <1>8, SaveRow DEF VerifySave, SaveOK, SaveFails, TypeOK
  <2>2. pc' \in Stages /\ todo' \subseteq EntitySet
    BY <1>8 DEF VerifySave, Stages, TypeOK
  <2> QED BY <1>8, <2>1, <2>2 DEF VerifySave, TypeOK
<1>9. CASE RunSecurityScan
  <2>1. entities' \subseteq EntitySet
    BY <1>9, StageTypes DEF RunSecurityScan, StageUntilCancelled, TypeOK
  <2> QED BY <1>9, <2>1 DEF RunSecurityScan, StageUntilCancelled, TypeOK, Stages
<1>10. CASE RunMCPIdentityPromote
  <2>1. entities' \subseteq EntitySet
    BY <1>10, StageTypes DEF RunMCPIdentityPromote, StageUntilCancelled, TypeOK
  <2> QED BY <1>10, <2>1 DEF RunMCPIdentityPromote, StageUntilCancelled, TypeOK, Stages
<1>11. CASE RunQualityScoring
  <2>1. entities' \subseteq EntitySet
    BY <1>11, StageTypes DEF RunQualityScoring, StageUntilCancelled, TypeOK
  <2> QED BY <1>11, <2>1 DEF RunQualityScoring, StageUntilCancelled, TypeOK, Stages
<1>12. CASE PersistOne
  <2>1. db' \in [Ids -> EntitySet \cup {NoRow}]
    BY <1>12, SaveRow DEF PersistOne, SaveOK, SaveFails, TypeOK
  <2>2. todo' \subseteq EntitySet /\ failed' \subseteq EntitySet
    BY <1>12 DEF PersistOne, TypeOK
  <2> QED BY <1>12, <2>1, <2>2 DEF PersistOne, TypeOK
<1>13. CASE PersistDone
  <2>1. pc' \in Stages
    BY <1>13 DEF PersistDone, Stages
  <2>2. [on |-> TRUE, ents |-> entities, pos |-> 1] \in [on : BOOLEAN, ents : SUBSET EntitySet, pos : Nat]
    BY DEF TypeOK
  <2>3. gen' \in [Processes -> [on : BOOLEAN, ents : SUBSET EntitySet, pos : Nat]]
    BY <1>13, <2>2 DEF PersistDone, TypeOK
  <2>4. lastGen' \in {"none", "running", "complete", "aborted"}
    BY <1>13 DEF PersistDone, TypeOK
  <2> QED BY <1>13, <2>1, <2>3, <2>4 DEF PersistDone, TypeOK
<1>14. CASE RunRegistryViews
  BY <1>14 DEF RunRegistryViews, TypeOK, Stages
<1>15. CASE ReturnNil
  <2>1. EndRun("ok") /\ UNCHANGED viewVars
    BY <1>15 DEF ReturnNil
  <2> QED BY <2>1, TypeEndRun DEF TypeOK
<1>16. ASSUME NEW m \in Modes, Start(m) PROVE TypeOK'
  BY <1>16 DEF Start, TypeOK, Stages
<1>17. CASE Signal
  BY <1>17 DEF Signal, TypeOK
<1>18. CASE Crash
  <2>1. EndRun("crashed") /\ (Abandon("crawler") \/ UNCHANGED viewVars)
    BY <1>18 DEF Crash
  <2>2. "crawler" \in Processes
    BY DEF Processes
  <2> QED BY <2>1, <2>2, TypeEndRun, TypeFiles DEF TypeOK
<1>19. ASSUME NEW w \in Exporters, StartExport(w) PROVE TypeOK'
  <2>1. Rows(db) \subseteq EntitySet
    BY DEF TypeOK, Rows, HasRow
  <2>2. [on |-> TRUE, ents |-> Rows(db), pos |-> 1] \in [on : BOOLEAN, ents : SUBSET EntitySet, pos : Nat]
    BY <2>1
  <2> QED BY <1>19, <2>2 DEF StartExport, TypeOK
<1>20. ASSUME NEW w \in Processes, WriteFile(w) \/ WriteFails(w) PROVE TypeOK'
  <2>1. UNCHANGED <<db, crawlVars>>
    BY <1>20 DEF WriteFile, WriteFails
  <2>2. WriteFile(w) \/ Abandon(w)
    BY <1>20 DEF WriteFails
  <2> QED BY <2>1, <2>2, TypeFiles DEF TypeOK
<1>21. ASSUME NEW r \in SeedRecords, Seed(r) PROVE TypeOK'
  <2>1. SeedEntity(r, runs) \in EntitySet
    BY SeedEntityStored DEF TypeOK
  <2>2. db' \in [Ids -> EntitySet \cup {NoRow}]
    BY <1>21, <2>1, SaveRow DEF Seed
  <2> QED BY <1>21, <2>2 DEF Seed, TypeOK
<1>22. CASE UNCHANGED vars
  BY <1>22 DEF vars, TypeOK
<1> QED
  BY <1>1, <1>2, <1>3, <1>4, <1>5, <1>6, <1>7, <1>8, <1>9, <1>10, <1>11, <1>12,
     <1>13, <1>14, <1>15, <1>16, <1>17, <1>18, <1>19, <1>20, <1>21, <1>22
  DEF Next, CrawlerStep, Processes

-----------------------------------------------------------------------------
(* Finiteness: there are finitely many entities at any time. *)

LEMMA ImageFinite ==
    ASSUME NEW S, IsFiniteSet(S), NEW f, DOMAIN f = S, f = [x \in S |-> f[x]]
    PROVE  IsFiniteSet({f[x] : x \in S})
<1> DEFINE T == {f[x] : x \in S}
<1>1. f \in [S -> T] /\ \A y \in T : \E x \in S : f[x] = y
  OBVIOUS
<1>2. f \in Surjection(S, T)
  BY <1>1 DEF Surjection
<1> QED BY <1>2, FS_Surjection

LEMMA FiniteEntities ==
    ASSUME TypeOK, IsFiniteSet(entities), [Next]_vars
    PROVE  IsFiniteSet(entities')
<1>1. ASSUME NEW how, EndRun(how) PROVE IsFiniteSet(entities')
  BY <1>1, FS_EmptySet DEF EndRun
<1>2. CASE RunNormalize /\ ~EndRun("error")
  <2>1. PICK bases \in SUBSET records : entities' = {Merged(b) : b \in bases}
    BY <1>2 DEF RunNormalize
  <2>2. IsFiniteSet(bases)
    <3>1. bases \in SUBSET AllRecords
      BY DEF TypeOK, AllRecords
    <3> QED BY <3>1, FS_Subset, PipelineAssumption
  <2> DEFINE f == [b \in bases |-> Merged(b)]
  <2>3. IsFiniteSet({f[b] : b \in bases})
    BY <2>2, ImageFinite
  <2>4. entities' = {f[b] : b \in bases}
    BY <2>1
  <2> QED BY <2>3, <2>4
<1>3. CASE RunTaiwanRelevance
  <2> DEFINE f == [e \in entities |-> Relevance(e)]
  <2>1. IsFiniteSet({f[e] : e \in entities})
    BY ImageFinite
  <2>2. entities' = {f[e] : e \in entities}
    BY <1>3 DEF RunTaiwanRelevance, WholeStage
  <2> QED BY <2>1, <2>2
<1>4. CASE RunClassifier
  <2> DEFINE f == [e \in entities |-> Classify(e)]
  <2>1. IsFiniteSet({f[e] : e \in entities})
    BY ImageFinite
  <2>2. entities' = {f[e] : e \in entities}
    BY <1>4 DEF RunClassifier, WholeStage
  <2> QED BY <2>1, <2>2
<1>5. CASE RunMCPIdentity
  <2> DEFINE f == [e \in entities |-> Identify(e)]
  <2>1. IsFiniteSet({f[e] : e \in entities})
    BY ImageFinite
  <2>2. entities' = {f[e] : e \in entities}
    BY <1>5 DEF RunMCPIdentity, WholeStage
  <2> QED BY <2>1, <2>2
<1>6. CASE RunRuntimeVerification
  <2>1. PICK done \in SUBSET entities :
          entities' = {Verify(e) : e \in done} \cup (entities \ done)
    BY <1>6 DEF RunRuntimeVerification, StageUntilCancelled
  <2> DEFINE f == [e \in done |-> Verify(e)]
  <2>2. IsFiniteSet(done) /\ IsFiniteSet(entities \ done)
    BY FS_Subset
  <2>3. IsFiniteSet({f[e] : e \in done})
    BY <2>2, ImageFinite
  <2>4. entities' = {f[e] : e \in done} \cup (entities \ done)
    BY <2>1
  <2> QED BY <2>2, <2>3, <2>4, FS_Union
<1>7. CASE RunSecurityScan
  <2>1. PICK done \in SUBSET entities :
          entities' = {Scan(e) : e \in done} \cup (entities \ done)
    BY <1>7 DEF RunSecurityScan, StageUntilCancelled
  <2> DEFINE f == [e \in done |-> Scan(e)]
  <2>2. IsFiniteSet(done) /\ IsFiniteSet(entities \ done)
    BY FS_Subset
  <2>3. IsFiniteSet({f[e] : e \in done})
    BY <2>2, ImageFinite
  <2>4. entities' = {f[e] : e \in done} \cup (entities \ done)
    BY <2>1
  <2> QED BY <2>2, <2>3, <2>4, FS_Union
<1>8. CASE RunMCPIdentityPromote
  <2>1. PICK done \in SUBSET entities :
          entities' = {PromoteEntity(e) : e \in done} \cup (entities \ done)
    BY <1>8 DEF RunMCPIdentityPromote, StageUntilCancelled
  <2> DEFINE f == [e \in done |-> PromoteEntity(e)]
  <2>2. IsFiniteSet(done) /\ IsFiniteSet(entities \ done)
    BY FS_Subset
  <2>3. IsFiniteSet({f[e] : e \in done})
    BY <2>2, ImageFinite
  <2>4. entities' = {f[e] : e \in done} \cup (entities \ done)
    BY <2>1
  <2> QED BY <2>2, <2>3, <2>4, FS_Union
<1>9. CASE RunQualityScoring
  <2>1. PICK done \in SUBSET entities :
          entities' = {Score(e) : e \in done} \cup (entities \ done)
    BY <1>9 DEF RunQualityScoring, StageUntilCancelled
  <2> DEFINE f == [e \in done |-> Score(e)]
  <2>2. IsFiniteSet(done) /\ IsFiniteSet(entities \ done)
    BY FS_Subset
  <2>3. IsFiniteSet({f[e] : e \in done})
    BY <2>2, ImageFinite
  <2>4. entities' = {f[e] : e \in done} \cup (entities \ done)
    BY <2>1
  <2> QED BY <2>2, <2>3, <2>4, FS_Union
<1>10. CASE UNCHANGED entities
  BY <1>10
<1>11. CASE RunDiscovery
  BY <1>11, <1>1, <1>10 DEF RunDiscovery
<1>12. CASE RunNormalize
  BY <1>12, <1>1, <1>2
<1>13. CASE ReturnNil \/ Crash
  BY <1>13, <1>1 DEF ReturnNil, Crash
<1>14. CASE RunRuntimeVerificationOnly \/ VerifySave \/ PersistOne \/ PersistDone \/ RunRegistryViews \/ Signal
  BY <1>14, <1>10
  DEF RunRuntimeVerificationOnly, VerifySave, PersistOne, PersistDone, RunRegistryViews, Signal
<1>15. ASSUME NEW m \in Modes, Start(m) PROVE IsFiniteSet(entities')
  BY <1>15, <1>10 DEF Start
<1>16. ASSUME NEW w, StartExport(w) \/ WriteFile(w) \/ WriteFails(w) PROVE IsFiniteSet(entities')
  BY <1>16, <1>10 DEF StartExport, WriteFile, WriteFails, crawlVars
<1>17. ASSUME NEW r \in SeedRecords, Seed(r) PROVE IsFiniteSet(entities')
  BY <1>17, <1>10 DEF Seed, crawlVars
<1>18. CASE UNCHANGED vars
  BY <1>18, <1>10 DEF vars, crawlVars
<1> QED
  BY <1>3, <1>4, <1>5, <1>6, <1>7, <1>8, <1>9, <1>11, <1>12, <1>13, <1>14, <1>15,
     <1>16, <1>17, <1>18
  DEF Next, CrawlerStep

\* Which steps touch the files, and what a generation starts from.
LEMMA GenSteps ==
    ASSUME TypeOK, [Next]_vars
    PROVE  \/ UNCHANGED viewVars
           \/ \E w \in Processes : WriteFile(w) \/ Abandon(w)
           \/ /\ UNCHANGED <<views, index>>
              /\ \E w \in Processes : \E S :
                   /\ gen' = [gen EXCEPT ![w] = [on |-> TRUE, ents |-> S, pos |-> 1]]
                   /\ S = Rows(db) \/ (S = entities /\ pc = "PERSIST")
<1>1. "crawler" \in Processes /\ Exporters \subseteq Processes
  BY DEF Processes
<1>2. CASE RunDiscovery \/ RunNormalize \/ ReturnNil \/ Signal \/ RunRegistryViews \/ VerifySave \/ PersistOne
           \/ RunRuntimeVerificationOnly
  BY <1>2 DEF RunDiscovery, RunNormalize, ReturnNil, Signal, RunRegistryViews, VerifySave,
              PersistOne, RunRuntimeVerificationOnly
<1>3. CASE RunTaiwanRelevance \/ RunClassifier \/ RunMCPIdentity
  BY <1>3 DEF RunTaiwanRelevance, RunClassifier, RunMCPIdentity, WholeStage
<1>4. CASE RunRuntimeVerification \/ RunSecurityScan \/ RunMCPIdentityPromote \/ RunQualityScoring
  BY <1>4 DEF RunRuntimeVerification, RunSecurityScan, RunMCPIdentityPromote, RunQualityScoring,
              StageUntilCancelled
<1>5. CASE PersistDone
  BY <1>1, <1>5 DEF PersistDone, viewVars
<1>6. ASSUME NEW m \in Modes, Start(m) PROVE UNCHANGED viewVars
  BY <1>6 DEF Start
<1>7. CASE Crash
  BY <1>1, <1>7 DEF Crash
<1>8. ASSUME NEW w \in Exporters, StartExport(w)
      PROVE  /\ UNCHANGED <<views, index>>
             /\ gen' = [gen EXCEPT ![w] = [on |-> TRUE, ents |-> Rows(db), pos |-> 1]]
  BY <1>8 DEF StartExport
<1>9. ASSUME NEW w \in Processes, WriteFails(w) PROVE Abandon(w)
  BY <1>9 DEF WriteFails
<1>10. ASSUME NEW r \in SeedRecords, Seed(r) PROVE UNCHANGED viewVars
  BY <1>10 DEF Seed
<1>11. CASE UNCHANGED vars
  BY <1>11 DEF vars
<1> QED
  <2>1. (\E w \in Exporters : StartExport(w)) =>
            /\ UNCHANGED <<views, index>>
            /\ \E w \in Processes : \E S :
                 /\ gen' = [gen EXCEPT ![w] = [on |-> TRUE, ents |-> S, pos |-> 1]]
                 /\ S = Rows(db) \/ (S = entities /\ pc = "PERSIST")
    BY <1>1, <1>8
  <2>2. (\E w \in Processes : WriteFile(w) \/ WriteFails(w)) =>
            \E w \in Processes : WriteFile(w) \/ Abandon(w)
    BY <1>9
  <2> QED
    BY <1>1, <1>2, <1>3, <1>4, <1>5, <1>6, <1>7, <1>10, <1>11, <2>1, <2>2 DEF Next, CrawlerStep

LEMMA FiniteNext == TypeOK /\ FiniteInv /\ [Next]_vars => FiniteInv'
<1> SUFFICES ASSUME TypeOK, FiniteInv, [Next]_vars PROVE FiniteInv'
  OBVIOUS
<1>1. IsFiniteSet(entities')
  BY FiniteEntities DEF FiniteInv
<1>2. IsFiniteSet(Rows(db)) /\ IsFiniteSet(entities)
  <2> DEFINE J == {j \in Ids : HasRow(db, j)}
             f == [j \in J |-> db[j]]
  <2>1. IsFiniteSet(J)
    BY FS_Subset, PipelineAssumption
  <2>2. IsFiniteSet({f[j] : j \in J})
    BY <2>1, ImageFinite
  <2>3. Rows(db) = {f[j] : j \in J}
    BY DEF Rows
  <2> QED BY <2>2, <2>3 DEF FiniteInv
<1>3. gen \in [Processes -> [on : BOOLEAN, ents : SUBSET EntitySet, pos : Nat]]
  BY DEF TypeOK
<1>4. IsFiniteSet(IdleGen.ents)
  BY FS_EmptySet DEF IdleGen
<1>5. \A w \in Processes : IsFiniteSet(gen'[w].ents)
  <2>1. CASE UNCHANGED viewVars
    BY <2>1 DEF viewVars, FiniteInv
  <2>2. ASSUME NEW w \in Processes, Abandon(w) PROVE \A x \in Processes : IsFiniteSet(gen'[x].ents)
    BY <2>2, <1>3, <1>4 DEF Abandon, FiniteInv
  <2>3. ASSUME NEW w \in Processes, WriteFile(w) PROVE \A x \in Processes : IsFiniteSet(gen'[x].ents)
    <3>1. gen' = [gen EXCEPT ![w].pos = gen[w].pos + 1] \/ gen' = [gen EXCEPT ![w] = IdleGen]
      BY <2>3 DEF WriteFile
    <3>2. [gen[w] EXCEPT !.pos = gen[w].pos + 1].ents = gen[w].ents
      BY <1>3
    <3> QED BY <3>1, <3>2, <1>3, <1>4 DEF FiniteInv
  <2>4. ASSUME NEW w \in Processes, NEW S,
               gen' = [gen EXCEPT ![w] = [on |-> TRUE, ents |-> S, pos |-> 1]], IsFiniteSet(S)
        PROVE  \A x \in Processes : IsFiniteSet(gen'[x].ents)
    BY <2>4, <1>3 DEF FiniteInv
  <2> QED BY <2>1, <2>2, <2>3, <2>4, <1>2, GenSteps
<1> QED BY <1>1, <1>5 DEF FiniteInv

-----------------------------------------------------------------------------
(* The entities of the crawl. *)

\* The context is never restored, so a stage that was not cut short leaves
\* ctxDone as it was.
LEMMA StageNext == Inv /\ [Next]_vars => StageInv'
<1> SUFFICES ASSUME Inv, [Next]_vars PROVE StageInv'
  OBVIOUS
<1> USE DEF AfterIdentity
<1>1. TypeOK /\ StageInv /\ StoreInv
  BY DEF Inv
<1>2. \A e \in entities : e \in EntitySet
  BY <1>1 DEF TypeOK
<1>3. ASSUME NEW how, EndRun(how) PROVE StageInv'
  BY <1>3 DEF EndRun, StageInv
<1>4. CASE RunDiscovery
  <2>1. CASE \E how : EndRun(how)
    BY <1>3, <2>1
  <2>2. CASE ~\E how : EndRun(how)
    BY <1>1, <1>4, <2>2 DEF RunDiscovery, StageInv
  <2> QED BY <2>1, <2>2
<1>5. CASE RunNormalize
  <2>1. CASE \E how : EndRun(how)
    BY <1>3, <2>1
  <2>2. CASE ~\E how : EndRun(how)
    <3>1. PICK bases \in SUBSET records : entities' = {Merged(b) : b \in bases}
      BY <1>5, <2>2 DEF RunNormalize
    <3>2. \A b \in bases : InMemory(Merged(b))
      BY <1>1, NewEntityType DEF Merged, TypeOK, AllRecords
    <3>3. \A e \in entities' : InMemory(e)
      BY <3>1, <3>2
    <3>4. pc' = "TAIWAN_RELEVANCE"
      BY <1>5, <2>2 DEF RunNormalize
    <3> QED BY <3>3, <3>4 DEF StageInv
  <2> QED BY <2>1, <2>2
<1>6. CASE RunTaiwanRelevance
  BY <1>1, <1>2, <1>6, StagesKeep DEF RunTaiwanRelevance, WholeStage, StageInv
<1>7. CASE RunClassifier
  BY <1>1, <1>2, <1>7, StagesKeep DEF RunClassifier, WholeStage, StageInv
<1>8. CASE RunMCPIdentity
  BY <1>1, <1>2, <1>8, StagesKeep DEF RunMCPIdentity, WholeStage, StageInv
<1>9. CASE RunRuntimeVerification
  BY <1>1, <1>2, <1>9, StagesKeep DEF RunRuntimeVerification, StageUntilCancelled, StageInv
<1>10. CASE RunRuntimeVerificationOnly
  <2>1. \A e \in Rows(db) : e \in EntitySet /\ Stored(e)
    BY <1>1 DEF TypeOK, Rows, HasRow, StoreInv
  <2>2. \A e \in Rows(db) : Stored(Verify(e))
    BY <2>1 DEF Verify, Stored, EntitySet, Unverified, IdentityFollowsClass
  <2>3. pc' = "VERIFY_SAVE" => \A e \in todo' : Stored(e)
    BY <1>10, <2>1, <2>2 DEF RunRuntimeVerificationOnly
  <2>4. /\ pc = "RUNTIME_VERIFICATION" /\ pc' \in {"SECURITY_SCANNER", "VERIFY_SAVE"}
        /\ UNCHANGED entities
    BY <1>10 DEF RunRuntimeVerificationOnly
  <2> QED BY <1>1, <2>3, <2>4 DEF StageInv
<1>11. CASE VerifySave
  BY <1>1, <1>11 DEF VerifySave, StageInv
<1>12. CASE RunSecurityScan
  <2>1. PICK done \in SUBSET entities :
          /\ ctxDone' = (ctxDone \/ done # entities)
          /\ entities' = {Scan(e) : e \in done} \cup (entities \ done)
    BY <1>12 DEF RunSecurityScan, StageUntilCancelled
  <2>2. pc = "SECURITY_SCANNER" /\ pc' = "MCP_IDENTITY_PROMOTE"
    BY <1>12 DEF RunSecurityScan, StageUntilCancelled
  <2>3. \A e \in entities' : InMemory(e) /\ IdentityFollowsClass(e)
    BY <1>1, <1>2, <2>1, <2>2, StagesKeep DEF StageInv
  <2>4. ~ctxDone' => \A e \in entities' : e.sec # ""
    BY <1>1, <1>2, <2>1, StagesKeep DEF StageInv
  <2> QED BY <2>2, <2>3, <2>4 DEF StageInv
<1>13. CASE RunMCPIdentityPromote
  <2>1. PICK done \in SUBSET entities :
          /\ ctxDone' = (ctxDone \/ done # entities)
          /\ entities' = {PromoteEntity(e) : e \in done} \cup (entities \ done)
    BY <1>13 DEF RunMCPIdentityPromote, StageUntilCancelled
  <2>2. \A e \in entities : PromoteEntity(e) = e
    BY <1>1, <1>2, NoPromotion DEF StageInv, InMemory
  <2>3. entities' = entities
    BY <2>1, <2>2
  <2>4. pc = "MCP_IDENTITY_PROMOTE" /\ pc' = "QUALITY_SCORING"
    BY <1>13 DEF RunMCPIdentityPromote, StageUntilCancelled
  <2> QED BY <1>1, <2>1, <2>3, <2>4 DEF StageInv
<1>14. CASE RunQualityScoring
  <2>1. PICK done \in SUBSET entities :
          /\ ctxDone' = (ctxDone \/ done # entities)
          /\ entities' = {Score(e) : e \in done} \cup (entities \ done)
    BY <1>14 DEF RunQualityScoring, StageUntilCancelled
  <2>2. pc = "QUALITY_SCORING" /\ pc' = "PERSIST" /\ todo' = entities'
    BY <1>14 DEF RunQualityScoring, StageUntilCancelled
  <2>3. \A e \in entities' : InMemory(e) /\ IdentityFollowsClass(e)
    BY <1>1, <1>2, <2>1, <2>2, StagesKeep DEF StageInv
  <2>4. ~ctxDone' => \A e \in entities' : e.sec # "" /\ e.scored
    <3> SUFFICES ASSUME ~ctxDone', NEW e \in entities' PROVE e.sec # "" /\ e.scored
      OBVIOUS
    <3>1. done = entities /\ ~ctxDone
      BY <2>1
    <3>2. PICK d \in entities : e = Score(d)
      BY <2>1, <3>1
    <3> QED BY <1>1, <1>2, <2>2, <3>1, <3>2, StagesKeep DEF StageInv
  <2> QED BY <2>2, <2>3, <2>4 DEF StageInv
<1>15. CASE PersistOne
  BY <1>1, <1>15 DEF PersistOne, StageInv
<1>16. CASE PersistDone
  BY <1>1, <1>16 DEF PersistDone, StageInv
<1>17. CASE RunRegistryViews
  BY <1>1, <1>17 DEF RunRegistryViews, StageInv
<1>18. CASE ReturnNil \/ Crash
  BY <1>3, <1>18 DEF ReturnNil, Crash
<1>19. ASSUME NEW m \in Modes, Start(m) PROVE StageInv'
  BY <1>1, <1>19 DEF Start, StageInv
<1>20. CASE Signal
  BY <1>1, <1>20 DEF Signal, StageInv
<1>21. CASE UNCHANGED crawlVars
  BY <1>1, <1>21 DEF crawlVars, StageInv
<1>22. ASSUME NEW w, StartExport(w) \/ WriteFile(w) \/ WriteFails(w) PROVE StageInv'
  BY <1>21, <1>22 DEF StartExport, WriteFile, WriteFails
<1>23. ASSUME NEW r \in SeedRecords, Seed(r) PROVE StageInv'
  BY <1>21, <1>23 DEF Seed
<1>24. CASE UNCHANGED vars
  BY <1>21, <1>24 DEF vars
<1> QED
  BY <1>4, <1>5, <1>6, <1>7, <1>8, <1>9, <1>10, <1>11, <1>12, <1>13, <1>14, <1>15,
     <1>16, <1>17, <1>18, <1>19, <1>20, <1>22, <1>23, <1>24
  DEF Next, CrawlerStep

-----------------------------------------------------------------------------
(* The rows. *)

\* Every change of the database is one Save, of an entity some loop still
\* had to save or of a seeded one.
LEMMA DbSteps ==
    ASSUME TypeOK, [Next]_vars
    PROVE  \/ db' = db
           \/ \E e \in EntitySet :
                /\ Save(e)
                /\ \/ pc \in {"VERIFY_SAVE", "PERSIST"} /\ e \in todo /\ ~ctxDone
                   \/ \E r \in SeedRecords : e = SeedEntity(r, runs) /\ UNCHANGED crawlVars
<1>1. CASE VerifySave
  BY <1>1 DEF VerifySave, SaveOK, SaveFails, TypeOK
<1>2. CASE PersistOne
  BY <1>2 DEF PersistOne, SaveOK, SaveFails, TypeOK
<1>3. ASSUME NEW r \in SeedRecords, Seed(r)
      PROVE  /\ SeedEntity(r, runs) \in EntitySet /\ Save(SeedEntity(r, runs))
             /\ UNCHANGED crawlVars
  BY <1>3, SeedEntityStored DEF Seed, TypeOK
<1>4. CASE RunDiscovery \/ RunNormalize \/ ReturnNil \/ Signal \/ RunRegistryViews
           \/ RunRuntimeVerificationOnly \/ PersistDone \/ Crash
  BY <1>4 DEF RunDiscovery, RunNormalize, ReturnNil, Signal, RunRegistryViews,
              RunRuntimeVerificationOnly, PersistDone, Crash, EndRun
<1>5. CASE RunTaiwanRelevance \/ RunClassifier \/ RunMCPIdentity
  BY <1>5 DEF RunTaiwanRelevance, RunClassifier, RunMCPIdentity, WholeStage
<1>6. CASE RunRuntimeVerification \/ RunSecurityScan \/ RunMCPIdentityPromote \/ RunQualityScoring
  BY <1>6 DEF RunRuntimeVerification, RunSecurityScan, RunMCPIdentityPromote, RunQualityScoring,
              StageUntilCancelled
<1>7. ASSUME NEW m \in Modes, Start(m) PROVE db' = db
  BY <1>7 DEF Start
<1>8. ASSUME NEW w, StartExport(w) \/ WriteFile(w) \/ WriteFails(w) PROVE db' = db
  BY <1>8 DEF StartExport, WriteFile, WriteFails
<1>9. CASE UNCHANGED vars
  BY <1>9 DEF vars
<1> QED
  BY <1>1, <1>2, <1>3, <1>4, <1>5, <1>6, <1>7, <1>8, <1>9 DEF Next, CrawlerStep

\* A crawl only saves what every stage completed.
LEMMA StoreNext == Inv /\ [Next]_vars => StoreInv'
<1> SUFFICES ASSUME Inv, [Next]_vars PROVE StoreInv'
  OBVIOUS
<1>1. TypeOK /\ StageInv /\ StoreInv
  BY DEF Inv
<1>2. CASE db' = db
  BY <1>1, <1>2 DEF StoreInv, Rows, HasRow
<1>3. ASSUME NEW e \in EntitySet, Save(e), pc = "VERIFY_SAVE", e \in todo
      PROVE  StoreInv'
  <2>1. Stored(e)
    BY <1>1, <1>3 DEF StageInv
  <2> QED BY <1>1, <1>3, <2>1, SaveKeepsStoreInv
<1>4. ASSUME NEW e \in EntitySet, Save(e), pc = "PERSIST", e \in todo, ~ctxDone
      PROVE  StoreInv'
  <2>1. Stored(e)
    BY <1>1, <1>4 DEF StageInv, AfterIdentity, InMemory, Stored
  <2> QED BY <1>1, <1>4, <2>1, SaveKeepsStoreInv
<1>5. ASSUME NEW r \in SeedRecords, SeedEntity(r, runs) \in EntitySet, Save(SeedEntity(r, runs))
      PROVE  StoreInv'
  <2>1. Stored(SeedEntity(r, runs))
    BY <1>1, SeedEntityStored DEF TypeOK
  <2> QED BY <1>1, <1>5, <2>1, SaveKeepsStoreInv
<1> QED BY <1>1, <1>2, <1>3, <1>4, <1>5, DbSteps

-----------------------------------------------------------------------------
(* The files. *)

\* No unverified entity is listed in a verified view.
LEMMA VerifiedViewsEmpty ==
    ASSUME NEW S, \A e \in S : Unverified(e),
           NEW v \in {"taiwan-mcp", "awesome-taiwan-mcp"}
    PROVE  Members(v, S) = {}
BY DEF Members, InView, isVerifiedMCPServer, Unverified

LEMMA FilesNext == Inv /\ [Next]_vars => FilesInv'
<1> SUFFICES ASSUME Inv, [Next]_vars PROVE FilesInv'
  OBVIOUS
<1>1. TypeOK /\ StageInv /\ StoreInv /\ FilesInv
  BY DEF Inv
<1>2. gen \in [Processes -> [on : BOOLEAN, ents : SUBSET EntitySet, pos : Nat]]
  BY <1>1 DEF TypeOK
<1>3. views \in [1..LegacyPos -> (SUBSET AllRecords) \cup {Torn}]
  BY <1>1 DEF TypeOK
<1>4. CASE UNCHANGED viewVars
  BY <1>1, <1>4 DEF viewVars, FilesInv
<1>5. ASSUME NEW w \in Processes, Abandon(w) PROVE FilesInv'
  <2>1. gen' = [gen EXCEPT ![w] = IdleGen] /\ IdleGen.ents = {}
    BY <1>5 DEF Abandon, IdleGen
  <2>2. \A k \in 1..LegacyPos : views'[k] \in {views[k], Torn}
    BY <1>3, <1>5 DEF Abandon
  <2> QED BY <1>1, <1>2, <2>1, <2>2 DEF FilesInv
<1>6. ASSUME NEW w \in Processes, WriteFile(w) PROVE FilesInv'
  <2>1. gen' = [gen EXCEPT ![w].pos = gen[w].pos + 1] \/ gen' = [gen EXCEPT ![w] = IdleGen]
    BY <1>6 DEF WriteFile
  <2>2. \A x \in Processes : gen'[x].ents \in {gen[x].ents, {}}
    <3>1. [gen[w] EXCEPT !.pos = gen[w].pos + 1].ents = gen[w].ents
      BY <1>2
    <3> QED BY <1>2, <2>1, <3>1 DEF IdleGen
  <2>3. \A k \in 1..LegacyPos :
          \/ views'[k] = views[k]
          \/ views'[k] = {e.src : e \in Members(ViewAt(k), gen[w].ents)}
    BY <1>3, <1>6 DEF WriteFile
  <2>4. \A e \in gen[w].ents : Unverified(e)
    BY <1>1 DEF FilesInv
  <2>5. ASSUME NEW k \in 1..LegacyPos, ViewAt(k) \in {"taiwan-mcp", "awesome-taiwan-mcp"}
        PROVE  views'[k] \in {{}, Torn}
    <3>1. Members(ViewAt(k), gen[w].ents) = {}
      BY <2>4, <2>5, VerifiedViewsEmpty
    <3>2. views[k] \in {{}, Torn}
      BY <1>1, <2>5 DEF FilesInv
    <3> QED BY <2>3, <3>1, <3>2
  <2> QED BY <1>1, <2>2, <2>5 DEF FilesInv
<1>7. ASSUME NEW w \in Processes, NEW S,
             gen' = [gen EXCEPT ![w] = [on |-> TRUE, ents |-> S, pos |-> 1]],
             UNCHANGED views, S = Rows(db) \/ S = entities
      PROVE  FilesInv'
  <2>1. \A e \in S : Unverified(e)
    BY <1>1, <1>7 DEF StoreInv, Stored, StageInv, InMemory
  <2> QED BY <1>1, <1>2, <1>7, <2>1 DEF FilesInv
<1> QED BY <1>1, <1>4, <1>5, <1>6, <1>7, GenSteps

-----------------------------------------------------------------------------
(* The theorems. *)

LEMMA InvInit == Init => Inv
<1> SUFFICES ASSUME Init PROVE Inv
  OBVIOUS
<1>1. TypeOK
  BY TypeInit
<1>2. FiniteInv
  BY FS_EmptySet DEF Init, FiniteInv, IdleGen
<1>3. StageInv
  BY DEF Init, StageInv, AfterIdentity
<1>4. StoreInv
  BY DEF Init, StoreInv, Rows, HasRow
<1>5. FilesInv
  BY DEF Init, FilesInv, IdleGen
<1> QED BY <1>1, <1>2, <1>3, <1>4, <1>5 DEF Inv

LEMMA InvNext == Inv /\ [Next]_vars => Inv'
BY TypeNext, FiniteNext, StageNext, StoreNext, FilesNext DEF Inv

THEOREM Invariance == Spec => []Inv
<1> QED BY InvInit, InvNext, PTL DEF Spec

\* Type correctness.
THEOREM TypeCorrect == Spec => []TypeOK
<1>1. Inv => TypeOK
  BY DEF Inv
<1> QED BY <1>1, Invariance, PTL

\* Why VerifiedServersAreListed does not hold: no row reaches a verified status
\* and the verified views stay empty.  runMCPIdentity never sets
\* StaticCheckedAt, which runMCPIdentityPromote asks for, and the rows that have
\* it (cmd/seed) are never promoted.
NothingVerified ==
    /\ \A e \in Rows(db) : e.status \notin {"RUNTIME_VERIFIED", "VERIFIED"}
    /\ \A k \in 1..LegacyPos :
         ViewAt(k) \in {"taiwan-mcp", "awesome-taiwan-mcp"} => views[k] \in {{}, Torn}

\* The promotion stage of runMCPIdentityPromote has no effect in any history of
\* the system, however runs, signals, crashes, exports and seeds interleave.
THEOREM NothingIsVerified == Spec => []NothingVerified
<1>1. Inv => NothingVerified
  BY DEF Inv, StoreInv, FilesInv, Stored, Unverified, NothingVerified
<1> QED BY <1>1, Invariance, PTL

\* No row shows an entity that a cancelled stage skipped.
THEOREM StoredIsComplete == Spec => []StoredComplete
<1>1. Inv => StoredComplete
  BY DEF Inv, StoreInv, Stored, IdentityFollowsClass, StoredComplete
<1> QED BY <1>1, Invariance, PTL

\* A Save is a Store of the abstract table.
LEMMA SaveRefines ==
    ASSUME TypeOK, NEW e \in EntitySet, Save(e)
    PROVE  R!RegistryNext
<1> DEFINE i == e.src.id
<1>1. PICK first \in Nat : /\ db'[i] = [e EXCEPT !.firstSeen = first]
                           /\ db[i] # NoRow => first = db[i].firstSeen
  BY SaveRow
<1>2. /\ db' \in [Ids -> EntitySet \cup {NoRow}]
      /\ \A j \in Ids \ {i} : db'[j] = db[j]
      /\ i \in Ids
  BY SaveRow
<1>3. /\ [e EXCEPT !.firstSeen = first] \in EntitySet
      /\ [e EXCEPT !.firstSeen = first].src = e.src
      /\ [e EXCEPT !.firstSeen = first].firstSeen = first
  BY DEF EntitySet
<1>4. \A j \in Ids \ {i} : db[j] # NoRow => db[j].src.slug # db'[i].src.slug
  BY <1>1, <1>3 DEF Save, SlugFree, HasRow
<1>5. R!Store(i)
  BY <1>1, <1>2, <1>3, <1>4 DEF R!Store
<1> QED BY <1>2, <1>5 DEF R!RegistryNext

\* The database of the pipeline, its seeds and its crashes implements the
\* abstract registry table.
THEOREM PipelineImplementsRegistry == Spec => ImplementsRegistry
<1>1. Init => R!RegistryInit
  BY DEF Init, R!RegistryInit
<1>2. TypeOK /\ [Next]_vars => [R!RegistryNext]_db
  BY DbSteps, SaveRefines
<1> QED BY <1>1, <1>2, TypeCorrect, PTL DEF Spec, ImplementsRegistry, R!RegistrySpec

-----------------------------------------------------------------------------
(* persistEntities isolates failures. *)

\* Everything in memory was seen by the current run.
SeenNow ==
    /\ \A e \in entities : e.lastSeen = runs
    /\ pc = "IDLE" => entities = {}

PersistInv == SeenNow /\ PersistIsolatesFailures

LEMMA StagesKeepLastSeen ==
    ASSUME NEW e \in EntitySet
    PROVE  /\ Relevance(e).lastSeen = e.lastSeen
           /\ Classify(e).lastSeen = e.lastSeen
           /\ Identify(e).lastSeen = e.lastSeen
           /\ Verify(e).lastSeen = e.lastSeen
           /\ Scan(e).lastSeen = e.lastSeen
           /\ Score(e).lastSeen = e.lastSeen
<1> USE DEF EntitySet
<1>1. Relevance(e).lastSeen = e.lastSeen /\ Classify(e).lastSeen = e.lastSeen
  BY DEF Relevance, Classify
<1>2. Identify(e).lastSeen = e.lastSeen /\ Verify(e).lastSeen = e.lastSeen
  BY DEF Identify, Verify
<1>3. Scan(e).lastSeen = e.lastSeen /\ Score(e).lastSeen = e.lastSeen
  BY DEF Scan, Score
<1> QED BY <1>1, <1>2, <1>3

LEMMA SeenNowNext == Inv /\ SeenNow /\ [Next]_vars => SeenNow'
<1> SUFFICES ASSUME Inv, SeenNow, [Next]_vars PROVE SeenNow'
  OBVIOUS
<1>1. TypeOK /\ StageInv
  BY DEF Inv
<1>2. \A e \in entities : e \in EntitySet
  BY <1>1 DEF TypeOK
<1>3. ASSUME NEW how, EndRun(how) PROVE SeenNow'
  BY <1>3 DEF EndRun, SeenNow
<1>4. CASE UNCHANGED <<entities, runs>> /\ (pc' # "IDLE" \/ pc' = pc)
  BY <1>4 DEF SeenNow
<1>5. CASE RunDiscovery
  BY <1>3, <1>4, <1>5 DEF RunDiscovery
<1>6. CASE RunNormalize
  <2>1. CASE \E how : EndRun(how)
    BY <1>3, <2>1
  <2>2. CASE ~\E how : EndRun(how)
    <3>1. PICK bases \in SUBSET records : entities' = {Merged(b) : b \in bases}
      BY <1>6, <2>2 DEF RunNormalize
    <3>2. runs' = runs
      BY <1>6, <2>2 DEF RunNormalize
    <3>3. \A b \in bases : Merged(b).lastSeen = runs
      BY DEF Merged, NewEntity
    <3>4. pc' # "IDLE"
      BY <1>6, <2>2 DEF RunNormalize
    <3> QED BY <3>1, <3>2, <3>3, <3>4 DEF SeenNow
  <2> QED BY <2>1, <2>2
<1>7. CASE RunTaiwanRelevance
  BY <1>2, <1>7, StagesKeepLastSeen DEF RunTaiwanRelevance, WholeStage, SeenNow
<1>8. CASE RunClassifier
  BY <1>2, <1>8, StagesKeepLastSeen DEF RunClassifier, WholeStage, SeenNow
<1>9. CASE RunMCPIdentity
  BY <1>2, <1>9, StagesKeepLastSeen DEF RunMCPIdentity, WholeStage, SeenNow
<1>10. CASE RunRuntimeVerification
  BY <1>2, <1>10, StagesKeepLastSeen DEF RunRuntimeVerification, StageUntilCancelled, SeenNow
<1>11. CASE RunSecurityScan
  BY <1>2, <1>11, StagesKeepLastSeen DEF RunSecurityScan, StageUntilCancelled, SeenNow
<1>12. CASE RunMCPIdentityPromote
  <2>1. \A e \in entities : PromoteEntity(e) = e
    BY <1>1, <1>2, NoPromotion DEF StageInv, InMemory
  <2> QED BY <1>12, <2>1 DEF RunMCPIdentityPromote, StageUntilCancelled, SeenNow
<1>13. CASE RunQualityScoring
  BY <1>2, <1>13, StagesKeepLastSeen DEF RunQualityScoring, StageUntilCancelled, SeenNow
<1>14. CASE RunRuntimeVerificationOnly \/ VerifySave \/ PersistOne \/ PersistDone \/ RunRegistryViews \/ Signal
  BY <1>4, <1>14
  DEF RunRuntimeVerificationOnly, VerifySave, PersistOne, PersistDone, RunRegistryViews, Signal
<1>15. CASE ReturnNil \/ Crash
  BY <1>3, <1>15 DEF ReturnNil, Crash
<1>16. ASSUME NEW m \in Modes, Start(m) PROVE SeenNow'
  BY <1>16 DEF Start, SeenNow
<1>17. CASE UNCHANGED crawlVars
  BY <1>4, <1>17 DEF crawlVars
<1>18. ASSUME NEW w, StartExport(w) \/ WriteFile(w) \/ WriteFails(w) PROVE SeenNow'
  BY <1>17, <1>18 DEF StartExport, WriteFile, WriteFails
<1>19. ASSUME NEW r \in SeedRecords, Seed(r) PROVE SeenNow'
  BY <1>17, <1>19 DEF Seed
<1>20. CASE UNCHANGED vars
  BY <1>17, <1>20 DEF vars
<1> QED
  BY <1>5, <1>6, <1>7, <1>8, <1>9, <1>10, <1>11, <1>12, <1>13, <1>14, <1>15, <1>16,
     <1>18, <1>19, <1>20
  DEF Next, CrawlerStep

LEMMA PersistNext == Inv /\ PersistInv /\ [Next]_vars => PersistIsolatesFailures'
<1> SUFFICES ASSUME Inv, PersistInv, [Next]_vars PROVE PersistIsolatesFailures'
  OBVIOUS
<1> USE DEF PersistIsolatesFailures
<1>1. TypeOK /\ StageInv /\ SeenNow
  BY DEF Inv, PersistInv
<1>2. \A e \in entities : e \in EntitySet /\ e.src.id \in Ids /\ e.lastSeen = runs
  BY <1>1, PipelineAssumption DEF TypeOK, EntitySet, SeenNow
<1>3. /\ pc \in {"PERSIST", "REGISTRY_VIEWS"} =>
           \A e \in entities \ (todo \cup failed) :
               HasRow(db, e.src.id) /\ db[e.src.id].lastSeen = runs
  BY DEF PersistInv
\* A Save of something seen now, in the middle of the loop or beside it.
<1>4. ASSUME NEW e \in EntitySet, Save(e), e.lastSeen = runs, NEW i \in Ids,
             i = e.src.id \/ (HasRow(db, i) /\ db[i].lastSeen = runs)
      PROVE  HasRow(db', i) /\ db'[i].lastSeen = runs
  <2>1. CASE i = e.src.id
    <3>1. PICK first \in Nat : db'[i] = [e EXCEPT !.firstSeen = first]
      BY <1>1, <1>4, <2>1, SaveRow
    <3>2. [e EXCEPT !.firstSeen = first] \in EntitySet /\ [e EXCEPT !.firstSeen = first].lastSeen = runs
      BY <1>4 DEF EntitySet
    <3> QED BY <3>1, <3>2, PipelineAssumption DEF HasRow
  <2>2. CASE i # e.src.id
    BY <1>1, <1>4, <2>2, SaveRow DEF HasRow
  <2> QED BY <2>1, <2>2
<1>5. CASE PersistOne
  <2>1. pc = "PERSIST" /\ UNCHANGED <<pc, entities, runs>> /\ todo \subseteq entities
    BY <1>1, <1>5 DEF PersistOne, StageInv
  <2>2. PICK e \in todo :
          /\ todo' = todo \ {e}
          /\ \/ Save(e) /\ failed' = failed
             \/ db' = db /\ failed' = failed \cup {e}
    BY <1>5 DEF PersistOne, SaveOK, SaveFails
  <2>3. e \in EntitySet /\ e.lastSeen = runs
    BY <1>2, <2>1
  <2>4. CASE Save(e) /\ failed' = failed
    <3> SUFFICES ASSUME NEW d \in entities \ (todo' \cup failed)
                 PROVE  HasRow(db', d.src.id) /\ db'[d.src.id].lastSeen = runs
      BY <2>1, <2>4
    <3>1. d = e \/ d \in entities \ (todo \cup failed)
      BY <2>2
    <3>2. d.src.id = e.src.id \/ (HasRow(db, d.src.id) /\ db[d.src.id].lastSeen = runs)
      BY <1>3, <2>1, <3>1
    <3> QED BY <1>2, <1>4, <2>3, <2>4, <3>2
  <2>5. CASE db' = db /\ failed' = failed \cup {e}
    BY <1>3, <2>1, <2>2, <2>5 DEF HasRow
  <2> QED BY <2>2, <2>4, <2>5
<1>6. CASE PersistDone
  BY <1>3, <1>6 DEF PersistDone
<1>7. CASE RunQualityScoring
  BY <1>7 DEF RunQualityScoring, StageUntilCancelled
<1>8. ASSUME NEW r \in SeedRecords, Seed(r) PROVE PersistIsolatesFailures'
  <2>1. SeedEntity(r, runs) \in EntitySet /\ Save(SeedEntity(r, runs)) /\ UNCHANGED crawlVars
    BY <1>1, <1>8, SeedEntityStored DEF Seed, TypeOK
  <2>2. SeedEntity(r, runs).lastSeen = runs
    BY DEF SeedEntity, NewEntity
  <2> HIDE DEF PersistIsolatesFailures
  <2> SUFFICES ASSUME pc \in {"PERSIST", "REGISTRY_VIEWS"}, NEW d \in entities \ (todo \cup failed)
               PROVE  HasRow(db', d.src.id) /\ db'[d.src.id].lastSeen = runs
    BY <2>1 DEF PersistIsolatesFailures, crawlVars
  <2>3. HasRow(db, d.src.id) /\ db[d.src.id].lastSeen = runs
    BY <1>3
  <2> QED BY <1>2, <1>4, <2>1, <2>2, <2>3
<1>9. CASE UNCHANGED <<db, crawlVars>>
  BY <1>3, <1>9 DEF crawlVars, HasRow
<1>10. ASSUME NEW w, StartExport(w) \/ WriteFile(w) \/ WriteFails(w) PROVE PersistIsolatesFailures'
  BY <1>9, <1>10 DEF StartExport, WriteFile, WriteFails
<1>11. CASE Signal
  BY <1>3, <1>11 DEF Signal, HasRow
<1>12. CASE ReturnNil \/ Crash
  BY <1>12 DEF ReturnNil, Crash, EndRun
<1>13. CASE RunDiscovery \/ RunNormalize \/ RunRuntimeVerificationOnly \/ VerifySave \/ RunRegistryViews
  BY <1>13 DEF RunDiscovery, RunNormalize, RunRuntimeVerificationOnly, VerifySave, RunRegistryViews, EndRun
<1>14. CASE RunTaiwanRelevance \/ RunClassifier \/ RunMCPIdentity
  BY <1>14 DEF RunTaiwanRelevance, RunClassifier, RunMCPIdentity, WholeStage
<1>15. CASE RunRuntimeVerification \/ RunSecurityScan \/ RunMCPIdentityPromote
  BY <1>15 DEF RunRuntimeVerification, RunSecurityScan, RunMCPIdentityPromote, StageUntilCancelled
<1>16. ASSUME NEW m \in Modes, Start(m) PROVE PersistIsolatesFailures'
  BY <1>16 DEF Start
<1>17. CASE UNCHANGED vars
  BY <1>9, <1>17 DEF vars
<1> QED
  BY <1>5, <1>6, <1>7, <1>8, <1>10, <1>11, <1>12, <1>13, <1>14, <1>15, <1>16, <1>17
  DEF Next, CrawlerStep

\* One entity that cannot be saved loses no other.
THEOREM PersistIsolates == Spec => []PersistIsolatesFailures
<1>1. Init => PersistInv
  BY DEF Init, PersistInv, SeenNow, PersistIsolatesFailures
<1>2. Inv /\ PersistInv /\ [Next]_vars => PersistInv'
  BY SeenNowNext, PersistNext DEF PersistInv
<1>3. PersistInv => PersistIsolatesFailures
  BY DEF PersistInv
<1> QED BY <1>1, <1>2, <1>3, Invariance, PTL DEF Spec

-----------------------------------------------------------------------------
(* The counts of INDEX.md, when nobody else writes the files.  A view file   *)
(* lists source records and INDEX.md counts entities, so the two agree only *)
(* because no two entities of a crawl come from one record.                *)

Determined(S) == \A e, f \in S : e.src = f.src => e = f

Listing(k, ents) == {e.src : e \in Members(ViewAt(k), ents)}

\* The files before the one the generation is at are of its entities.
WrittenInv ==
    LET g == gen["crawler"] IN
    g.on => /\ lastGen = "running" /\ Determined(g.ents) /\ g.pos \in 1..IndexPos
            /\ \A k \in 1..(g.pos - 1) : views[k] = Listing(k, g.ents)

CountInv == Determined(entities) /\ WrittenInv /\ IndexAgrees

LEMMA StagesKeepSource ==
    ASSUME NEW e \in EntitySet
    PROVE  /\ Relevance(e).src = e.src /\ Classify(e).src = e.src /\ Identify(e).src = e.src
           /\ Verify(e).src = e.src /\ Scan(e).src = e.src /\ PromoteEntity(e).src = e.src
           /\ Score(e).src = e.src
<1> USE DEF EntitySet
<1>1. Relevance(e).src = e.src /\ Classify(e).src = e.src /\ Identify(e).src = e.src
  BY DEF Relevance, Classify, Identify
<1>2. Verify(e).src = e.src /\ Scan(e).src = e.src /\ Score(e).src = e.src
  BY DEF Verify, Scan, Score
<1>3. PromoteEntity(e).src = e.src
  BY DEF PromoteEntity
<1> QED BY <1>1, <1>2, <1>3

\* A stage that keeps the sources, and may have been cut short.
LEMMA DeterminedStage ==
    ASSUME NEW S, Determined(S), NEW done \in SUBSET S, NEW f,
           \A e \in done : f[e].src = e.src
    PROVE  Determined({f[e] : e \in done} \cup (S \ done))
<1> DEFINE T == {f[e] : e \in done} \cup (S \ done)
<1> SUFFICES ASSUME NEW x \in T, NEW y \in T, x.src = y.src PROVE x = y
  BY DEF Determined
<1>1. PICK a \in S : a.src = x.src /\ IF a \in done THEN x = f[a] ELSE x = a
  OBVIOUS
<1>2. PICK b \in S : b.src = y.src /\ IF b \in done THEN y = f[b] ELSE y = b
  OBVIOUS
<1>3. a = b
  BY <1>1, <1>2 DEF Determined
<1> QED BY <1>1, <1>2, <1>3

LEMMA DeterminedNext == TypeOK /\ Determined(entities) /\ [Next]_vars => Determined(entities')
<1> SUFFICES ASSUME TypeOK, Determined(entities), [Next]_vars PROVE Determined(entities')
  OBVIOUS
<1>1. \A e \in entities : e \in EntitySet
  BY DEF TypeOK
<1>2. ASSUME NEW how, EndRun(how) PROVE Determined(entities')
  BY <1>2 DEF EndRun, Determined
<1>3. CASE UNCHANGED entities
  BY <1>3
<1>4. ASSUME NEW done \in SUBSET entities, NEW f, \A e \in done : f[e].src = e.src,
             entities' = {f[e] : e \in done} \cup (entities \ done)
      PROVE  Determined(entities')
  BY <1>4, DeterminedStage
<1>5. CASE RunNormalize /\ ~EndRun("error")
  <2>1. PICK bases \in SUBSET records : entities' = {Merged(b) : b \in bases}
    BY <1>5 DEF RunNormalize
  <2>2. \A b \in bases : Merged(b).src = b
    BY DEF Merged, NewEntity
  <2> QED BY <2>1, <2>2 DEF Determined
<1>6. CASE RunTaiwanRelevance
  <2> DEFINE f == [e \in entities |-> Relevance(e)]
  <2>1. entities' = {f[e] : e \in entities} \cup (entities \ entities)
    BY <1>6 DEF RunTaiwanRelevance, WholeStage
  <2>2. \A e \in entities : f[e].src = e.src
    BY <1>1, StagesKeepSource
  <2> HIDE DEF f
  <2> QED BY <2>1, <2>2, <1>4
<1>7. CASE RunClassifier
  <2> DEFINE f == [e \in entities |-> Classify(e)]
  <2>1. entities' = {f[e] : e \in entities} \cup (entities \ entities)
    BY <1>7 DEF RunClassifier, WholeStage
  <2>2. \A e \in entities : f[e].src = e.src
    BY <1>1, StagesKeepSource
  <2> HIDE DEF f
  <2> QED BY <2>1, <2>2, <1>4
<1>8. CASE RunMCPIdentity
  <2> DEFINE f == [e \in entities |-> Identify(e)]
  <2>1. entities' = {f[e] : e \in entities} \cup (entities \ entities)
    BY <1>8 DEF RunMCPIdentity, WholeStage
  <2>2. \A e \in entities : f[e].src = e.src
    BY <1>1, StagesKeepSource
  <2> HIDE DEF f
  <2> QED BY <2>1, <2>2, <1>4
<1>9. CASE RunRuntimeVerification
  <2> DEFINE f == [e \in entities |-> Verify(e)]
  <2>1. PICK done \in SUBSET entities : entities' = {f[e] : e \in done} \cup (entities \ done)
    BY <1>9 DEF RunRuntimeVerification, StageUntilCancelled
  <2>2. \A e \in done : f[e].src = e.src
    BY <1>1, StagesKeepSource
  <2> HIDE DEF f
  <2> QED BY <2>1, <2>2, <1>4
<1>10. CASE RunSecurityScan
  <2> DEFINE f == [e \in entities |-> Scan(e)]
  <2>1. PICK done \in SUBSET entities : entities' = {f[e] : e \in done} \cup (entities \ done)
    BY <1>10 DEF RunSecurityScan, StageUntilCancelled
  <2>2. \A e \in done : f[e].src = e.src
    BY <1>1, StagesKeepSource
  <2> HIDE DEF f
  <2> QED BY <2>1, <2>2, <1>4
<1>11. CASE RunMCPIdentityPromote
  <2> DEFINE f == [e \in entities |-> PromoteEntity(e)]
  <2>1. PICK done \in SUBSET entities : entities' = {f[e] : e \in done} \cup (entities \ done)
    BY <1>11 DEF RunMCPIdentityPromote, StageUntilCancelled
  <2>2. \A e \in done : f[e].src = e.src
    BY <1>1, StagesKeepSource
  <2> HIDE DEF f
  <2> QED BY <2>1, <2>2, <1>4
<1>12. CASE RunQualityScoring
  <2> DEFINE f == [e \in entities |-> Score(e)]
  <2>1. PICK done \in SUBSET entities : entities' = {f[e] : e \in done} \cup (entities \ done)
    BY <1>12 DEF RunQualityScoring, StageUntilCancelled
  <2>2. \A e \in done : f[e].src = e.src
    BY <1>1, StagesKeepSource
  <2> HIDE DEF f
  <2> QED BY <2>1, <2>2, <1>4
<1>13. CASE RunDiscovery \/ RunNormalize \/ ReturnNil \/ Crash
  BY <1>2, <1>3, <1>5, <1>13 DEF RunDiscovery, ReturnNil, Crash
<1>14. CASE RunRuntimeVerificationOnly \/ VerifySave \/ PersistOne \/ PersistDone \/ RunRegistryViews \/ Signal
  BY <1>14, <1>3
  DEF RunRuntimeVerificationOnly, VerifySave, PersistOne, PersistDone, RunRegistryViews, Signal
<1>15. ASSUME NEW m \in Modes, Start(m) PROVE Determined(entities')
  BY <1>15, <1>3 DEF Start
<1>16. ASSUME NEW w, StartExport(w) \/ WriteFile(w) \/ WriteFails(w) PROVE Determined(entities')
  BY <1>16, <1>3 DEF StartExport, WriteFile, WriteFails, crawlVars
<1>17. ASSUME NEW r \in SeedRecords, Seed(r) PROVE Determined(entities')
  BY <1>17, <1>3 DEF Seed, crawlVars
<1>18. CASE UNCHANGED vars
  BY <1>18, <1>3 DEF vars, crawlVars
<1> QED
  BY <1>6, <1>7, <1>8, <1>9, <1>10, <1>11, <1>12, <1>13, <1>14, <1>15, <1>16, <1>17, <1>18
  DEF Next, CrawlerStep

\* A crawler alone with the files.
LEMMA AloneSteps ==
    ASSUME TypeOK, Exporters = {}, [Next]_vars
    PROVE  \/ UNCHANGED viewVars
           \/ WriteFile("crawler") \/ Abandon("crawler")
           \/ /\ UNCHANGED <<views, index>> /\ lastGen' = "running"
              /\ gen' = [gen EXCEPT !["crawler"] = [on |-> TRUE, ents |-> entities, pos |-> 1]]
<1>1. Processes = {"crawler"}
  BY DEF Processes
<1>2. CASE RunDiscovery \/ RunNormalize \/ ReturnNil \/ Signal \/ RunRegistryViews \/ VerifySave \/ PersistOne
           \/ RunRuntimeVerificationOnly
  BY <1>2 DEF RunDiscovery, RunNormalize, ReturnNil, Signal, RunRegistryViews, VerifySave,
              PersistOne, RunRuntimeVerificationOnly
<1>3. CASE RunTaiwanRelevance \/ RunClassifier \/ RunMCPIdentity
  BY <1>3 DEF RunTaiwanRelevance, RunClassifier, RunMCPIdentity, WholeStage
<1>4. CASE RunRuntimeVerification \/ RunSecurityScan \/ RunMCPIdentityPromote \/ RunQualityScoring
  BY <1>4 DEF RunRuntimeVerification, RunSecurityScan, RunMCPIdentityPromote, RunQualityScoring,
              StageUntilCancelled
<1>5. CASE PersistDone
  BY <1>5 DEF PersistDone, viewVars
<1>6. ASSUME NEW m \in Modes, Start(m) PROVE UNCHANGED viewVars
  BY <1>6 DEF Start
<1>7. CASE Crash
  BY <1>7 DEF Crash
<1>8. ASSUME NEW w \in Processes, WriteFails(w) PROVE Abandon("crawler")
  BY <1>1, <1>8 DEF WriteFails
<1>9. ASSUME NEW r \in SeedRecords, Seed(r) PROVE UNCHANGED viewVars
  BY <1>9 DEF Seed
<1>10. CASE UNCHANGED vars
  BY <1>10 DEF vars
<1> QED
  BY <1>2, <1>3, <1>4, <1>5, <1>6, <1>7, <1>8, <1>9, <1>10 DEF Next, CrawlerStep

\* As many records are listed as there are entities, if these are determined.
LEMMA ListingCounts ==
    ASSUME NEW k, NEW ents \in SUBSET EntitySet, IsFiniteSet(ents), Determined(ents)
    PROVE  Cardinality(Listing(k, ents)) = CountFor(ViewAt(k), ents)
<1> DEFINE M == Members(ViewAt(k), ents)
           src == [e \in M |-> e.src]
<1>1. M \subseteq ents
  BY DEF Members
<1>2. IsFiniteSet(M)
  BY <1>1, FS_Subset
<1>3. src \in Surjection(M, Listing(k, ents))
  BY DEF Surjection, Listing
<1>4. src \in Injection(M, Listing(k, ents))
  <2>1. src \in [M -> Listing(k, ents)]
    BY DEF Listing
  <2>2. \A e, f \in M : src[e] = src[f] => e = f
    BY <1>1 DEF Determined
  <2> HIDE DEF M, src
  <2> QED BY <2>1, <2>2 DEF Injection, IsInjective
<1> HIDE DEF M, src
<1>5. Cardinality(Listing(k, ents)) = Cardinality(M)
  BY <1>2, <1>3, <1>4, FS_Surjection
<1> QED BY <1>5 DEF CountFor, M

LEMMA FilesAreCounted == Len(ViewSeq) \in Nat
<1>1. ViewSeq \in Seq(AllViews)
  BY PipelineAssumption
<1> QED BY <1>1

LEMMA CountNext ==
    ASSUME Exporters = {}, Inv, CountInv, [Next]_vars
    PROVE  CountInv'
<1> DEFINE g == gen["crawler"]
<1>1. TypeOK /\ FiniteInv
  BY DEF Inv
<1>2. Determined(entities)'
  BY <1>1, DeterminedNext DEF CountInv
<1>3. Processes = {"crawler"}
  BY DEF Processes
<1>4. g \in [on : BOOLEAN, ents : SUBSET EntitySet, pos : Nat] /\ IsFiniteSet(g.ents)
  BY <1>1, <1>3 DEF TypeOK, FiniteInv
<1>5. gen \in [Processes -> [on : BOOLEAN, ents : SUBSET EntitySet, pos : Nat]]
  BY <1>1 DEF TypeOK
<1>6. CASE UNCHANGED viewVars
  BY <1>2, <1>6 DEF viewVars, CountInv, WrittenInv, IndexAgrees
<1>7. CASE Abandon("crawler")
  <2>1. ~gen'["crawler"].on /\ lastGen' = "aborted"
    BY <1>3, <1>5, <1>7 DEF Abandon, IdleGen
  <2> QED BY <1>2, <2>1 DEF CountInv, WrittenInv, IndexAgrees
<1>8. CASE /\ UNCHANGED <<views, index>> /\ lastGen' = "running"
           /\ gen' = [gen EXCEPT !["crawler"] = [on |-> TRUE, ents |-> entities, pos |-> 1]]
  <2>1. gen'["crawler"] = [on |-> TRUE, ents |-> entities, pos |-> 1]
    BY <1>3, <1>5, <1>8
  <2>2. 1 \in 1..IndexPos
    BY FilesAreCounted DEF IndexPos, LegacyPos
  <2>3. WrittenInv'
    BY <1>8, <2>1, <2>2 DEF WrittenInv, CountInv
  <2> QED BY <1>2, <1>8, <2>3 DEF CountInv, IndexAgrees
<1>9. CASE WriteFile("crawler")
  <2>1. g.on /\ Determined(g.ents) /\ g.pos \in 1..IndexPos /\ lastGen = "running"
        /\ \A k \in 1..(g.pos - 1) : views[k] = Listing(k, g.ents)
    BY <1>9 DEF WriteFile, CountInv, WrittenInv
  <2>2. Len(ViewSeq) \in Nat /\ LegacyPos = 2 * Len(ViewSeq) + 1 /\ IndexPos = LegacyPos + 1
    BY FilesAreCounted DEF LegacyPos, IndexPos
  <2>3. CASE g.pos < IndexPos
    <3>1. /\ views' = [views EXCEPT ![g.pos] = Listing(g.pos, g.ents)]
          /\ gen' = [gen EXCEPT !["crawler"].pos = g.pos + 1]
          /\ lastGen' = lastGen
      BY <1>9, <2>3 DEF WriteFile, Listing
    <3>2. gen'["crawler"].on /\ gen'["crawler"].ents = g.ents /\ gen'["crawler"].pos = g.pos + 1
      BY <1>3, <1>4, <1>5, <2>1, <3>1
    <3>3. DOMAIN views = 1..LegacyPos
      BY <1>1 DEF TypeOK
    <3>4. \A k \in 1..((g.pos + 1) - 1) : views'[k] = Listing(k, g.ents)
      BY <2>1, <2>2, <2>3, <3>1, <3>3
    <3>5. WrittenInv'
      BY <2>1, <2>2, <2>3, <3>1, <3>2, <3>4 DEF WrittenInv, Listing
    <3> QED BY <1>2, <2>1, <3>1, <3>5 DEF CountInv, IndexAgrees
  <2>4. CASE ~(g.pos < IndexPos)
    <3>1. /\ index' = [v \in ViewNames |-> CountFor(v, g.ents)]
          /\ gen' = [gen EXCEPT !["crawler"] = IdleGen] /\ views' = views
      BY <1>9, <2>4 DEF WriteFile
    <3>2. ~gen'["crawler"].on
      BY <1>3, <1>5, <3>1 DEF IdleGen
    <3>3. \A k \in 1..LegacyPos : views[k] = Listing(k, g.ents)
      BY <2>1, <2>2, <2>4
    <3>4. ASSUME NEW k \in 1..(LegacyPos - 1)
          PROVE  views'[k] # Torn /\ index'[ViewAt(k)] = Cardinality(views'[k])
      <4>1. (k + 1) \div 2 \in 1..Len(ViewSeq) /\ k # LegacyPos /\ k \in 1..LegacyPos
        BY <2>2
      <4>2. ViewAt(k) \in ViewNames
        BY <4>1 DEF ViewAt, ViewNames
      <4>3. views'[k] = Listing(k, g.ents)
        BY <3>1, <3>3, <4>1
      <4>4. Listing(k, g.ents) \in SUBSET AllRecords
        <5>1. \A e \in EntitySet : e.src \in AllRecords
          BY DEF EntitySet
        <5> QED BY <1>4, <5>1 DEF Listing, Members
      <4>5. index'[ViewAt(k)] = CountFor(ViewAt(k), g.ents)
        BY <3>1, <4>2
      <4>6. Cardinality(Listing(k, g.ents)) = CountFor(ViewAt(k), g.ents)
        BY <1>4, <2>1, ListingCounts
      <4> QED BY <4>3, <4>4, <4>5, <4>6, PipelineAssumption
    <3> QED BY <1>2, <3>2, <3>4 DEF CountInv, WrittenInv, IndexAgrees
  <2> QED BY <2>3, <2>4
<1> QED BY <1>1, <1>6, <1>7, <1>8, <1>9, AloneSteps

\* When no exporter writes beside the crawls, a complete INDEX.md counts what
\* the view files list, whatever was interrupted or failed before.
THEOREM IndexAlwaysAgrees ==
    ASSUME Exporters = {}
    PROVE  Spec => []IndexAgrees
<1>1. Init => CountInv
  <2>1. ASSUME Init PROVE CountInv
    <3>1. ~gen["crawler"].on /\ lastGen = "none" /\ entities = {}
      BY <2>1 DEF Init, IdleGen, Processes
    <3> QED BY <3>1 DEF CountInv, WrittenInv, IndexAgrees, Determined
  <2> QED BY <2>1
<1>2. Inv /\ CountInv /\ [Next]_vars => CountInv'
  BY CountNext
<1>3. CountInv => IndexAgrees
  BY DEF CountInv
<1> QED BY <1>1, <1>2, <1>3, Invariance, PTL DEF Spec
=============================================================================

------------------------------ MODULE Pipeline -------------------------------
(***************************************************************************)
(* PipelineCoordinator.Run (internal/coordinator/coordinator.go) and       *)
(* everything it shares with other processes: the entities table, the view *)
(* files of internal/export/view_generator.go, `crawler export`, cmd/seed, *)
(* SIGINT/SIGTERM (the cancelled context) and a killed process.            *)
(*                                                                         *)
(* A source record is a constant: what one source says of one repository   *)
(* at some time.  Its fields are                                           *)
(*   canon   dedupe.ServerID of the record: the normalised repository URL  *)
(*   id      normalize.GenerateID: the hash of the URL as it was spelled   *)
(*   slug, name  slug, and the rank of the name in the order by name       *)
(*   trust   trust score of the source                                     *)
(*   class, taiwan   what the classifier and the relevance stage answer    *)
(*   ep      the record has an endpoint;  readme  what its README holds    *)
(*   young   the repository was created less than 90 days ago              *)
(***************************************************************************)
EXTENDS EntityStore, Lifecycle, Sequences

CONSTANTS
    Records,        \* records the sources can return
    SeedRecords,    \* records of the legacy registry.json that cmd/seed loads
    ViewSeq,        \* allViews, in the order they are written
    Exporters,      \* processes running `crawler export`
    MaxRuns,        \* bound on the number of crawls
    Torn            \* content of a file whose writer died while writing it

AllRecords == Records \cup SeedRecords

Classes == {r.class : r \in AllRecords}

EntitySet ==
    [src : AllRecords, ep : BOOLEAN, raw : {"", "plain", "risky"},
     primary : Classes \cup {""}, taiwan : TaiwanLevels \cup {""},
     status : ValidMCPIdentityStatuses \cup {""},
     staticAt : BOOLEAN, runtimeAt : BOOLEAN, rv : {"NONE", "PASSED"},
     sec : SecurityStatuses \cup {""}, scored : BOOLEAN,
     firstSeen : Nat, lastSeen : Nat]

ASSUME PipelineAssumption ==
    /\ IsFiniteSet(Ids) /\ IsFiniteSet(AllRecords)
    /\ \A r \in AllRecords :
         /\ r.id \in Ids /\ r.class # ""
         /\ r.taiwan \in TaiwanLevels /\ r.ep \in BOOLEAN /\ r.young \in BOOLEAN
    /\ NoRow \notin EntitySet
    /\ \A S \in SUBSET AllRecords : S # Torn
    /\ ViewSeq \in Seq(AllViews)
    /\ "crawler" \notin Exporters

Modes == {"full", "discovery-only", "classify-only", "verify-only"}

VARIABLES
    pc,         \* the stage the crawler is in
    mode,       \* PipelineConfig.Mode
    ctxDone,    \* the context was cancelled
    records,    \* rawRecords
    entities,   \* entities, as a set: each is the survivor of one dedup group
    todo,       \* what the loop that saves to the database has still to do
    failed,     \* persistEntities: entities whose Save failed
    runs,       \* crawls started so far; also the clock for first/last seen
    outcome,    \* how the last crawl ended
    views,      \* content of the view files, by position in the write order
    index,      \* INDEX.md: view -> count
    gen,        \* the GenerateViews call each process is in
    lastGen     \* how the generation that last touched the files ended

crawlVars == <<pc, mode, ctxDone, records, entities, todo, failed, runs, outcome>>
viewVars == <<views, index, gen, lastGen>>
vars == <<db, crawlVars, viewVars>>

-----------------------------------------------------------------------------
(* Entities. *)

\* serverToEntity: a fresh entity, everything not listed is the zero value.
\* The README is not among the fields Deduplicate copies, so RawContent is
\* empty whatever the record's README was.
NewEntity(base, group, now) ==
    [src |-> base, ep |-> \E r \in group : r.ep, raw |-> "",
     primary |-> "", taiwan |-> "", status |-> "", staticAt |-> FALSE,
     runtimeAt |-> FALSE, rv |-> "NONE", sec |-> "", scored |-> FALSE,
     firstSeen |-> now, lastSeen |-> now]

\* cmd/seed toEntity: an entity straight from the legacy registry file.
SeedEntity(r, now) ==
    [NewEntity(r, {}, now) EXCEPT
        !.primary = r.class, !.taiwan = r.taiwan, !.staticAt = TRUE, !.scored = TRUE,
        !.status = IF r.class = "MCP_SERVER" THEN "STATIC_VERIFIED" ELSE "NOT_MCP"]

\* Scanner.Scan on the entity's RawContent and repository age.  A missing
\* account biography always counts as one anomaly; a young repository is the
\* second one, which is what it takes to report the account.
ScanResult(e) ==
    IF e.raw = "risky" THEN "QUARANTINED"
    ELSE IF e.src.young THEN "SUSPICIOUS" ELSE "CLEAN"

Relevance(e) == [e EXCEPT !.taiwan = e.src.taiwan]
Classify(e) == [e EXCEPT !.primary = e.src.class]
\* Variants named Bug* are plausible mistakes in the definition after them,
\* kept to show that the properties notice them.
BugIdentifyCopiesClass(e) == [e EXCEPT !.status = e.primary]
Identify(e) == [e EXCEPT !.status = IF e.primary = "MCP_SERVER" THEN "STATIC_VERIFIED" ELSE "NOT_MCP"]
Verify(e) == IF e.ep THEN [e EXCEPT !.rv = "PASSED"] ELSE e
Scan(e) == [e EXCEPT !.sec = ScanResult(e)]
PromoteEntity(e) ==
    LET new == Promote(e.status, e.staticAt, e.rv, e.sec) IN
    IF ShouldPromoteToVerified(e.status, e.staticAt, e.rv # "NONE", e.rv, e.sec)
    THEN [e EXCEPT !.status = new,
                   !.runtimeAt = @ \/ (new # e.status /\ new \in {"RUNTIME_VERIFIED", "VERIFIED"})]
    ELSE e
Score(e) == [e EXCEPT !.scored = TRUE]

-----------------------------------------------------------------------------
(* View files: position 2k-1 is the JSON and 2k the Markdown of view k, then *)
(* the legacy Markdown, then INDEX.md.                                       *)

LegacyPos == 2 * Len(ViewSeq) + 1
IndexPos == LegacyPos + 1
ViewAt(k) == IF k = LegacyPos THEN "awesome-taiwan-mcp" ELSE ViewSeq[(k + 1) \div 2]
ViewNames == {ViewSeq[k] : k \in 1..Len(ViewSeq)}

Members(v, ents) == {e \in ents : InView(v, e)}
BugCountUnfiltered(v, ents) == Cardinality(ents)
CountFor(v, ents) == Cardinality(Members(v, ents))

Processes == {"crawler"} \cup Exporters
IdleGen == [on |-> FALSE, ents |-> {}, pos |-> 1]

-----------------------------------------------------------------------------
(* The crawler. *)

\* Run returns: everything it held in memory is gone.
EndRun(how) ==
    /\ pc' = "IDLE" /\ outcome' = how
    /\ mode' = "full" /\ ctxDone' = FALSE
    /\ records' = {} /\ entities' = {} /\ todo' = {} /\ failed' = {}
    /\ UNCHANGED <<db, runs>>

\* `crawler run`, `discover`, `classify`, `verify`, `scan` or `score`.
Start(m) ==
    /\ pc = "IDLE" /\ runs < MaxRuns
    /\ pc' = "DISCOVERY" /\ mode' = m /\ runs' = runs + 1 /\ outcome' = "running"
    /\ UNCHANGED <<db, ctxDone, records, entities, todo, failed, viewVars>>

\* SIGINT or SIGTERM cancels the context of the run.
Signal ==
    /\ pc # "IDLE" /\ ~ctxDone
    /\ ctxDone' = TRUE
    /\ UNCHANGED <<db, pc, mode, records, entities, todo, failed, runs, outcome, viewVars>>

\* The sources answer with any subset of what they have (a source or a fetch
\* may fail).  A context cancelled before the last source was launched is an
\* error; one cancelled later is not noticed.
RunDiscovery ==
    /\ pc = "DISCOVERY"
    /\ \/ /\ pc' = IF mode = "discovery-only" THEN "LOG" ELSE "NORMALIZER"
          /\ records' \in SUBSET Records
          /\ UNCHANGED <<db, mode, ctxDone, entities, todo, failed, runs, outcome>>
       \/ /\ ctxDone /\ mode \notin {"classify-only", "verify-only"}
          /\ EndRun("error")
    /\ UNCHANGED viewVars

\* Deduplicate: one survivor for each repository, the most trusted record of
\* its group (the sort is not stable: any of them), with the group's endpoints.
Merged(base) == NewEntity(base, {r \in records : r.canon = base.canon}, runs)

IsDedupChoice(bases) ==
    /\ \A r \in records : \E b \in bases : b.canon = r.canon /\ b.trust >= r.trust
    /\ \A b, c \in bases : b.canon = c.canon => b = c

RunNormalize ==
    /\ pc = "NORMALIZER"
    /\ IF ctxDone /\ records # {}
         THEN EndRun("error")
         ELSE /\ pc' = "TAIWAN_RELEVANCE"
              /\ \E bases \in SUBSET records :
                   IsDedupChoice(bases) /\ entities' = {Merged(b) : b \in bases}
              /\ UNCHANGED <<db, mode, ctxDone, records, todo, failed, runs, outcome>>
    /\ UNCHANGED viewVars

\* Entities are processed in the order of their names.
InNameOrder(first, rest) == \A d \in first, e \in rest : d.src.name <= e.src.name

\* A stage that looks at every entity.
WholeStage(from, to, F(_)) ==
    /\ pc = from /\ pc' = to
    /\ entities' = {F(e) : e \in entities}
    /\ UNCHANGED <<db, mode, ctxDone, records, todo, failed, runs, outcome, viewVars>>

\* A stage that looks at the context before each entity: when it is cancelled
\* the stage returns, without an error, and the rest is left as it was.
StageUntilCancelled(from, to, F(_)) ==
    /\ pc = from /\ pc' = to
    /\ \E done \in SUBSET entities :
         /\ InNameOrder(done, entities \ done)
         /\ ctxDone => done = {}
         /\ ctxDone' = (ctxDone \/ done # entities)
         /\ entities' = {F(e) : e \in done} \cup (entities \ done)
         /\ todo' = IF to = "PERSIST" THEN entities' ELSE todo
    /\ UNCHANGED <<db, mode, records, failed, runs, outcome, viewVars>>

RunTaiwanRelevance == WholeStage("TAIWAN_RELEVANCE", "CLASSIFIER", Relevance)

RunClassifier ==
    WholeStage("CLASSIFIER", IF mode = "classify-only" THEN "LOG" ELSE "MCP_IDENTITY", Classify)

RunMCPIdentity == WholeStage("MCP_IDENTITY", "RUNTIME_VERIFICATION", Identify)

RunRuntimeVerification ==
    /\ mode # "verify-only"
    /\ StageUntilCancelled("RUNTIME_VERIFICATION", "SECURITY_SCANNER", Verify)

\* verify-only: the rows of the database are verified (every row is
\* DISCOVERED, and none is read when the query fails) and saved one by one.
\* The entities just discovered are not verified.
RunRuntimeVerificationOnly ==
    /\ pc = "RUNTIME_VERIFICATION" /\ mode = "verify-only"
    /\ \/ /\ pc' = "SECURITY_SCANNER" /\ UNCHANGED <<ctxDone, todo>>
       \/ /\ ~ctxDone
          /\ pc' = "VERIFY_SAVE"
          /\ \E done \in SUBSET Rows(db) :
               /\ ctxDone' = (done # Rows(db))
               /\ todo' = {Verify(e) : e \in done} \cup (Rows(db) \ done)
    /\ UNCHANGED <<db, mode, records, entities, failed, runs, outcome, viewVars>>

\* A Save that may fail: the context is cancelled, the slug is taken, or the
\* database does not answer.
BugSaveWithoutContext(e) == Save(e)
SaveOK(e) == ~ctxDone /\ Save(e)
SaveFails == UNCHANGED db

VerifySave ==
    /\ pc = "VERIFY_SAVE"
    /\ IF todo = {}
         THEN pc' = "SECURITY_SCANNER" /\ UNCHANGED <<db, todo>>
         ELSE \E e \in todo :
                /\ SaveOK(e) \/ SaveFails
                /\ todo' = todo \ {e}
                /\ UNCHANGED pc
    /\ UNCHANGED <<mode, ctxDone, records, entities, failed, runs, outcome, viewVars>>

RunSecurityScan == StageUntilCancelled("SECURITY_SCANNER", "MCP_IDENTITY_PROMOTE", Scan)
RunMCPIdentityPromote == StageUntilCancelled("MCP_IDENTITY_PROMOTE", "QUALITY_SCORING", PromoteEntity)
RunQualityScoring == StageUntilCancelled("QUALITY_SCORING", "PERSIST", Score)

BugPersistStopsAtFailure ==
    /\ pc = "PERSIST"
    /\ \E e \in todo :
         /\ InNameOrder({e}, todo)
         /\ \/ SaveOK(e) /\ todo' = todo \ {e} /\ UNCHANGED failed
            \/ SaveFails /\ failed' = failed \cup {e} /\ todo' = {}
    /\ UNCHANGED <<pc, mode, ctxDone, records, entities, runs, outcome, viewVars>>
BugPersistRetriesForever ==
    /\ pc = "PERSIST"
    /\ \E e \in todo :
         /\ InNameOrder({e}, todo)
         /\ \/ SaveOK(e) /\ todo' = todo \ {e}
            \/ SaveFails /\ UNCHANGED todo
    /\ UNCHANGED <<pc, mode, ctxDone, records, entities, failed, runs, outcome, viewVars>>

\* persistEntities: a failed Save is counted and the loop goes on.
PersistOne ==
    /\ pc = "PERSIST"
    /\ \E e \in todo :
         /\ InNameOrder({e}, todo)
         /\ \/ SaveOK(e) /\ UNCHANGED failed
            \/ SaveFails /\ failed' = failed \cup {e}
         /\ todo' = todo \ {e}
    /\ UNCHANGED <<pc, mode, ctxDone, records, entities, runs, outcome, viewVars>>

\* The end of the loop: only a full run goes on to write the views, from the
\* entities it has in memory.
PersistDone ==
    /\ pc = "PERSIST" /\ todo = {}
    /\ IF mode = "full"
         THEN /\ pc' = "REGISTRY_VIEWS"
              /\ gen' = [gen EXCEPT !["crawler"] = [on |-> TRUE, ents |-> entities, pos |-> 1]]
              /\ lastGen' = "running"
         ELSE pc' = "LOG" /\ UNCHANGED <<gen, lastGen>>
    /\ UNCHANGED <<db, mode, ctxDone, records, entities, todo, failed, runs, outcome, views, index>>

\* GenerateViews returned, with or without an error: Run only logs it.
RunRegistryViews ==
    /\ pc = "REGISTRY_VIEWS" /\ ~gen["crawler"].on
    /\ pc' = "LOG"
    /\ UNCHANGED <<db, mode, ctxDone, records, entities, todo, failed, runs, outcome, viewVars>>

\* logResults; Run returns nil.
ReturnNil == pc = "LOG" /\ EndRun("ok") /\ UNCHANGED viewVars

-----------------------------------------------------------------------------
(* GenerateViews, in any process. *)

\* `crawler export`: the entities are read from the database.
StartExport(w) ==
    /\ ~gen[w].on
    /\ gen' = [gen EXCEPT ![w] = [on |-> TRUE, ents |-> Rows(db), pos |-> 1]]
    /\ lastGen' = "running"
    /\ UNCHANGED <<db, crawlVars, views, index>>

\* The next file is written: a view, then in the end INDEX.md, whose counts
\* are computed from the entities and not from the files.
WriteFile(w) ==
    /\ gen[w].on
    /\ LET k == gen[w].pos IN
         IF k < IndexPos
           THEN /\ views' = [views EXCEPT ![k] = {e.src : e \in Members(ViewAt(k), gen[w].ents)}]
                /\ gen' = [gen EXCEPT ![w].pos = k + 1]
                /\ UNCHANGED <<index, lastGen>>
           ELSE /\ index' = [v \in ViewNames |-> CountFor(v, gen[w].ents)]
                /\ gen' = [gen EXCEPT ![w] = IdleGen]
                /\ lastGen' = "complete"
                /\ UNCHANGED views
    /\ UNCHANGED <<db, crawlVars>>

\* The generation of w ends before its end, with the file it was at as it was
\* or cut short.
Abandon(w) ==
    /\ gen' = [gen EXCEPT ![w] = IdleGen]
    /\ lastGen' = "aborted"
    /\ LET k == gen[w].pos IN
         \/ UNCHANGED <<views, index>>
         \/ k < IndexPos /\ views' = [views EXCEPT ![k] = Torn] /\ UNCHANGED index
         \/ k = IndexPos /\ index' = Torn /\ UNCHANGED views

\* A write fails, or the exporter dies.
WriteFails(w) == gen[w].on /\ Abandon(w) /\ UNCHANGED <<db, crawlVars>>

\* The crawler is killed.
Crash ==
    /\ pc # "IDLE"
    /\ EndRun("crashed")
    /\ IF gen["crawler"].on THEN Abandon("crawler") ELSE UNCHANGED viewVars

\* One row of cmd/seed, which runs beside the crawler and does not stop at a
\* failed Save.
Seed(r) == Save(SeedEntity(r, runs)) /\ UNCHANGED <<crawlVars, viewVars>>

-----------------------------------------------------------------------------
Init ==
    /\ db = [i \in Ids |-> NoRow]
    /\ pc = "IDLE" /\ mode = "full" /\ ctxDone = FALSE
    /\ records = {} /\ entities = {} /\ todo = {} /\ failed = {}
    /\ runs = 0 /\ outcome = "none"
    /\ views = [k \in 1..LegacyPos |-> {}]
    /\ index = [v \in ViewNames |-> 0]
    /\ gen = [w \in Processes |-> IdleGen]
    /\ lastGen = "none"

CrawlerStep ==
    \/ RunDiscovery \/ RunNormalize \/ RunTaiwanRelevance \/ RunClassifier
    \/ RunMCPIdentity \/ RunRuntimeVerification \/ RunRuntimeVerificationOnly
    \/ VerifySave \/ RunSecurityScan \/ RunMCPIdentityPromote \/ RunQualityScoring
    \/ PersistOne \/ PersistDone \/ WriteFile("crawler") \/ RunRegistryViews \/ ReturnNil

Next ==
    \/ CrawlerStep
    \/ \E m \in Modes : Start(m)
    \/ Signal \/ Crash
    \/ \E w \in Exporters : StartExport(w) \/ WriteFile(w)
    \/ \E w \in Processes : WriteFails(w)
    \/ \E r \in SeedRecords : Seed(r)

Spec == Init /\ [][Next]_vars

\* The operating system lets a started crawl take its next step; its calls
\* (HTTP with a timeout, SQLite with an error at once when it is busy) return.
FairSpec == Spec /\ WF_vars(CrawlerStep)

-----------------------------------------------------------------------------
(* What must hold. *)

Stages ==
    {"IDLE", "DISCOVERY", "NORMALIZER", "TAIWAN_RELEVANCE", "CLASSIFIER",
     "MCP_IDENTITY", "RUNTIME_VERIFICATION", "VERIFY_SAVE", "SECURITY_SCANNER",
     "MCP_IDENTITY_PROMOTE", "QUALITY_SCORING", "PERSIST", "REGISTRY_VIEWS", "LOG"}

TypeOK ==
    /\ db \in [Ids -> EntitySet \cup {NoRow}]
    /\ pc \in Stages /\ mode \in Modes /\ ctxDone \in BOOLEAN
    /\ records \subseteq Records
    /\ entities \subseteq EntitySet /\ todo \subseteq EntitySet /\ failed \subseteq EntitySet
    /\ runs \in Nat /\ outcome \in {"none", "running", "ok", "error", "crashed"}
    /\ views \in [1..LegacyPos -> (SUBSET AllRecords) \cup {Torn}]
    /\ index \in [ViewNames -> Nat] \cup {Torn}
    /\ gen \in [Processes -> [on : BOOLEAN, ents : SUBSET EntitySet, pos : Nat]]
    /\ lastGen \in {"none", "running", "complete", "aborted"}

\* A row never shows an entity some stage did not get to: although a cancelled
\* run skips the rest of a stage without an error and goes on to the next one,
\* the cancelled context also stops every later Save.  Only the rows of
\* cmd/seed lack a scan.
StoredComplete ==
    \A e \in Rows(db) :
        /\ e.status = "STATIC_VERIFIED" <=> e.primary = "MCP_SERVER"
        /\ e.rv = "PASSED" => e.ep
        /\ e.staticAt \/ (e.sec # "" /\ e.scored)

\* persistEntities: one bad entity does not lose the batch.  Once the loop is
\* past an entity, it is counted as failed or its id was stored during this run.
PersistIsolatesFailures ==
    pc \in {"PERSIST", "REGISTRY_VIEWS"} =>
        \A e \in entities \ (todo \cup failed) :
            HasRow(db, e.src.id) /\ db[e.src.id].lastSeen = runs

\* generateIndex: the counts of INDEX.md match what each view file contains,
\* once the generation that touched the files last is complete and none is on.
IndexAgrees ==
    (lastGen = "complete" /\ \A w \in Processes : ~gen[w].on) =>
        \A k \in 1..(LegacyPos - 1) :
            views[k] # Torn /\ index[ViewAt(k)] = Cardinality(views[k])

\* The database behaves as the abstract registry table: whoever writes to it,
\* no step deletes a row, changes when its project was first seen, or gives
\* two rows one slug.
R == INSTANCE Registry WITH table <- db, Entities <- EntitySet
ImplementsRegistry == R!RegistrySpec

\* Every crawl comes to its end, whatever the sources, the database and the
\* disk answer.
RunTerminates == pc # "IDLE" ~> pc = "IDLE"

-----------------------------------------------------------------------------
(* What the documentation says, and the code does not do. *)

\* cmd/crawler/main.go:119: `crawler verify` runs the runtime verification of
\* the stored servers: a step of it does not erase the result of one.
VerifyKeepsVerification ==
    [][mode = "verify-only" =>
        \A i \in Ids : HasRow(db, i) /\ db[i].rv = "PASSED" => db'[i].rv = "PASSED"]_vars

\* README.md:362: "A real crawler run that catches entities via the GitHub
\* source and verifies them ... is the path to populate this view": once a full
\* crawl that nothing cut short has written its views, taiwan-mcp lists the MCP
\* servers of Taiwan that answered it and that it found clean.
IsVerifiedServer(e) ==
    /\ e.primary = "MCP_SERVER" /\ isTaiwanRelevantT1Plus(e.taiwan)
    /\ e.rv = "PASSED" /\ e.sec = "CLEAN"
=============================================================================

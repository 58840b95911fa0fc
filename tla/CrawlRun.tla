------------------------------ MODULE CrawlRun -------------------------------
(***************************************************************************)
(* CrawlCoordinator.Run (internal/crawler/coordinator.go), the counters of *)
(* its run (internal/crawler/run), and what starts it: RunPeriodic of the  *)
(* scheduler, and the full and incremental crawls of incremental.go.       *)
(*                                                                         *)
(* A record is a constant: what one source says of one project.            *)
(*   canon, slug, trust    as in Pipeline                                  *)
(*   ambiguous             its keyword score is between 20 and 55          *)
(*   parts                 its endpoints, tools and so on                  *)
(***************************************************************************)
EXTENDS ServerStore

CONSTANTS
    Sources,        \* source adapters
    Candidates,     \* Sources -> Seq(Records): what Discover finds
    MaxPerSource,   \* CrawlOptions.MaxPerSource
    Workers,        \* c.workers
    AuthLimit,      \* consecutive authentication errors that open the circuit
    LLMModels,      \* length of the model chain of the LLM classifier; 0 without an API key
    Interval,       \* hours between incremental crawls (ShouldCrawl)
    MaxTime         \* bound on the clock

Candidate(s) == {Candidates[s][k] : k \in 1..Len(Candidates[s])}
Records == UNION {Candidate(s) : s \in Sources}
Slugs == {r.slug : r \in Records}

ASSUME CrawlAssumption ==
    /\ Workers \in Nat \ {0} /\ AuthLimit \in Nat \ {0} /\ MaxTime \in Nat \ {0}
    /\ MaxPerSource \in Nat /\ Interval \in Nat
    /\ \A s, t \in Sources : s # t => Candidate(s) \cap Candidate(t) = {}
    /\ LLMModels \in Nat /\ \A s \in Sources : Candidates[s] \in Seq(Candidate(s))
    /\ \A r \in Records : r.canon \in ServerIds /\ r.parts \subseteq Parts /\ r \in Refs
    /\ NoServer \notin StoredRow(Slugs)

VARIABLES
    now,        \* the clock
    proc,       \* "down", "once": one crawl, "periodic": RunPeriodic
    ctxDone,    \* the context was cancelled
    pc,         \* the stage Run is in
    crawl,      \* crawlID: the time it was started
    run,        \* run.Manager's counters
    crawlRuns,  \* table crawl_runs
    discover,   \* the goroutine of each source: candidates launched, or over
    fetching,   \* goroutines in Fetch
    got,        \* allRecords
    servers,    \* after Normalize; after Deduplicate, the servers to verify
    todo,       \* servers the stage has still to look at
    auth,       \* consecutiveAuthFailures
    open,       \* circuitOpen
    waiting, checking,  \* verification goroutines: before and after the semaphore
    saving,     \* SaveServer: the server and the statements left
    asked       \* history: how the calls of the LLM stage ended

memory == <<crawl, run, discover, fetching, got, servers, todo, auth, open,
            waiting, checking, saving, asked>>
vars == <<now, proc, ctxDone, pc, memory, crawlRuns, v1>>

\* The counters of run.Manager that say something of what was stored, and the
\* errors of the saves among its errors.
Counters == {"norm", "dup", "verified", "saveErrors"}
ZeroRun == [c \in Counters |-> 0]
\* "of" is a history: the sources the crawl was of.
RunOf(sel) == [started |-> TRUE, finished |-> FALSE, of |-> sel, counts |-> ZeroRun]
NoRun == [RunOf({}) EXCEPT !.started = FALSE]
NoSave == [srv |-> NoServer, left |-> <<>>]
NotStarted == [next |-> 1, over |-> FALSE]

-----------------------------------------------------------------------------
(* Starting and ending. *)

Init ==
    /\ now = 1 /\ proc = "down" /\ ctxDone = FALSE /\ pc = "idle"
    /\ crawl = 0 /\ run = ZeroRun
    /\ crawlRuns = [t \in 1..MaxTime |-> NoRun]
    /\ discover = [s \in Sources |-> NotStarted] /\ fetching = {} /\ got = {}
    /\ servers = {} /\ todo = {} /\ auth = 0 /\ open = FALSE
    /\ waiting = {} /\ checking = {} /\ saving = NoSave /\ asked = <<>>
    /\ v1 = EmptyTables

Forget ==
    /\ pc' = "idle" /\ crawl' = 0 /\ run' = ZeroRun
    /\ discover' = [s \in Sources |-> NotStarted] /\ fetching' = {} /\ got' = {}
    /\ servers' = {} /\ todo' = {} /\ auth' = 0 /\ open' = FALSE
    /\ waiting' = {} /\ checking' = {} /\ saving' = NoSave /\ asked' = <<>>

\* Run returns; RunPeriodic logs the error, if any, and waits for its next tick.
Return ==
    /\ Forget
    /\ proc' = IF proc = "once" THEN "down" ELSE proc
    /\ ctxDone' = (ctxDone /\ proc = "periodic")
    /\ UNCHANGED <<now, crawlRuns, v1>>

\* What happens between two crawls: only the time a crawl starts at is looked at.
Tick ==
    /\ pc = "idle" /\ now < MaxTime /\ now' = now + 1
    /\ UNCHANGED <<proc, ctxDone, pc, memory, crawlRuns, v1>>

StartPeriodic ==
    /\ proc = "down" /\ proc' = "periodic"
    /\ UNCHANGED <<now, ctxDone, pc, memory, crawlRuns, v1>>

StopPeriodic ==
    /\ proc = "periodic" /\ pc = "idle" /\ ctxDone
    /\ proc' = "down" /\ ctxDone' = FALSE
    /\ UNCHANGED <<now, pc, memory, crawlRuns, v1>>

\* CreateCrawlRun: the id is the second the crawl started in, and a primary key;
\* when the insertion fails, Run ends with nothing changed.
\* Sources that the option did not select have nothing to do.
Begin(sel) ==
    /\ pc' = "discover" /\ crawl' = now
    /\ crawlRuns' = [crawlRuns EXCEPT ![now] = RunOf(sel)]
    /\ discover' = [s \in Sources |-> [next |-> 1, over |-> s \notin sel]]
    /\ UNCHANGED <<now, run, fetching, got, servers, todo, auth, open, waiting, checking, saving, asked, v1>>

\* The ticker of RunPeriodic, and RunFullCrawl.
RunAll ==
    /\ pc = "idle" /\ ~crawlRuns[now].started
    /\ \/ proc = "periodic" /\ ~ctxDone /\ UNCHANGED <<proc, ctxDone>>
       \/ proc = "down" /\ proc' = "once" /\ UNCHANGED ctxDone
    /\ Begin(Sources)

Starts == {t \in 1..MaxTime : crawlRuns[t].started}

\* ShouldCrawl on GetLastCrawlTime: MAX(started_at) over the crawls of every
\* source, finished or not.
ShouldCrawl == \A t \in Starts : now >= t + Interval

\* An error of that query lets the crawl go on.
RunIncremental(s) ==
    /\ pc = "idle" /\ proc = "down" /\ ~crawlRuns[now].started
    /\ \E readable \in BOOLEAN : readable => ShouldCrawl
    /\ proc' = "once" /\ UNCHANGED ctxDone
    /\ Begin({s})

Signal ==
    /\ proc # "down" /\ ~ctxDone /\ ctxDone' = TRUE
    /\ UNCHANGED <<now, proc, pc, memory, crawlRuns, v1>>

Crash ==
    /\ proc # "down" /\ proc' = "down" /\ ctxDone' = FALSE /\ Forget
    /\ UNCHANGED <<now, crawlRuns, v1>>

-----------------------------------------------------------------------------
(* discoverAndFetch: a goroutine for each source, and in it one for each    *)
(* candidate, at most Workers of a source at once.                          *)

Considered(s) ==
    IF MaxPerSource > 0 /\ Len(Candidates[s]) > MaxPerSource
      THEN MaxPerSource ELSE Len(Candidates[s])

Count(c, n) == run' = [run EXCEPT ![c] = @ + n]

Discovering(s) == pc = "discover" /\ ~discover[s].over

\* Discover answers, or the source is given up.
DiscoverStart(s) ==
    /\ Discovering(s) /\ discover[s].next = 1
    /\ \/ discover' = [discover EXCEPT ![s].next = 2]
       \/ discover' = [discover EXCEPT ![s].over = TRUE]     \* source_degraded
    /\ UNCHANGED <<now, proc, ctxDone, pc, crawl, run, fetching, got, servers, todo, auth, open,
                   waiting, checking, saving, asked, crawlRuns, v1>>

\* candidates[next - 1] gets a goroutine once its source has a free worker.
Launch(s) ==
    /\ Discovering(s) /\ discover[s].next > 1 /\ discover[s].next <= Considered(s) + 1
    /\ Cardinality(fetching \cap Candidate(s)) < Workers
    /\ fetching' = fetching \cup {Candidates[s][discover[s].next - 1]}
    /\ discover' = [discover EXCEPT ![s].next = @ + 1]
    /\ UNCHANGED <<now, proc, ctxDone, pc, crawl, run, got, servers, todo, auth, open,
                   waiting, checking, saving, asked, crawlRuns, v1>>

\* The goroutine of the source returns: nothing is left, or the context is done.
DiscoverEnd(s) ==
    /\ Discovering(s) /\ discover[s].next > 1
    /\ ctxDone \/ discover[s].next > Considered(s) + 1
    /\ discover' = [discover EXCEPT ![s].over = TRUE]
    /\ UNCHANGED <<now, proc, ctxDone, pc, crawl, run, fetching, got, servers, todo, auth, open,
                   waiting, checking, saving, asked, crawlRuns, v1>>

Fetch(r) ==
    /\ r \in fetching /\ fetching' = fetching \ {r}
    /\ got' \in {got, got \cup {r}}
    /\ UNCHANGED <<now, proc, ctxDone, pc, crawl, run, discover, servers, todo, auth, open,
                   waiting, checking, saving, asked, crawlRuns, v1>>

BugWaitForSources == \A s \in Sources : discover[s].over
\* wg.Wait: the goroutines of the candidates are added while their source is
\* still counted.
AllFetched == fetching = {} /\ \A s \in Sources : discover[s].over

-----------------------------------------------------------------------------
(* normalizeServers, relevance and the LLM stage. *)

\* Normalize may fail on any record, silently.  A cancelled context may or may
\* not be seen: the select of the loop picks any case that is ready.
Normalized(ok) ==
    {[rec |-> r, id |-> r.canon, slug |-> r.slug, parts |-> r.parts,
      refs |-> {r}, check |-> "none"] : r \in ok}

RunNormalize ==
    /\ pc = "discover" /\ AllFetched
    /\ \E ok \in SUBSET got :
         /\ servers' = Normalized(ok)
         /\ Count("norm", Cardinality(ok))
    /\ got' = {} /\ discover' = [s \in Sources |-> NotStarted] /\ pc' = "llm"
    /\ todo' = IF LLMModels = 0 THEN {} ELSE {s \in servers' : s.rec.ambiguous}
    /\ UNCHANGED <<now, proc, ctxDone, crawl, fetching, auth, open,
                   waiting, checking, saving, asked, crawlRuns, v1>>

NormalizeCancelled == pc = "discover" /\ AllFetched /\ got # {} /\ ctxDone /\ Return

\* What one model of the chain can answer: a valid level, an authentication
\* error, or anything that makes Classify try the next model.
ModelAnswers == {"valid", "auth", "unusable"}

\* LLMClassifier.Classify: the first valid answer or authentication error
\* decides, and when there is none the last error does: the set of its one
\* outcome.
Classify(answers) ==
    LET decisive == {k \in 1..LLMModels : answers[k] \in {"valid", "auth"}} IN
    IF decisive = {} THEN {"error"}
    ELSE {answers[k] : k \in {i \in decisive : \A j \in decisive : i <= j}}

BugErrorKeepsCount(outcome) == IF outcome = "auth" THEN auth + 1 ELSE IF outcome = "valid" THEN 0 ELSE auth
AuthAfter(outcome) == IF outcome = "auth" THEN auth + 1 ELSE 0

\* The next ambiguous server; servers are in the order their goroutines ended.
\* The relevance a valid answer replaces is read by nothing that follows.
AskLLM ==
    /\ pc = "llm" /\ ~open
    /\ \E s \in todo, answers \in [1..LLMModels -> ModelAnswers] : \E outcome \in Classify(answers) :
         /\ ctxDone => outcome = "error"
         /\ asked' = Append(asked, outcome)
         /\ auth' = AuthAfter(outcome)
         /\ open' = (AuthAfter(outcome) >= AuthLimit)
         /\ todo' = todo \ {s}
    /\ UNCHANGED <<now, proc, ctxDone, pc, crawl, run, discover, fetching, got, servers,
                   waiting, checking, saving, crawlRuns, v1>>

-----------------------------------------------------------------------------
(* Deduplication and verification. *)

\* One survivor for each project, with the parts and references of its group.
Groups == {{s \in servers : s.id = i} : i \in {s.id : s \in servers}}
MergeGroup(base, g) ==
    [base EXCEPT !.parts = UNION {s.parts : s \in g}, !.refs = UNION {s.refs : s \in g}]
IsSurvivor(b, g) == b \in g /\ \A s \in g : s.rec.trust <= b.rec.trust

BugRemovedNegative == Cardinality(Groups) - Cardinality(servers)
Removed == Cardinality(servers) - Cardinality(Groups)

Deduplicate ==
    /\ pc = "llm" /\ (todo = {} \/ open) /\ pc' = "verify"
    /\ \E base \in [Groups -> servers] :
         /\ \A g \in Groups : IsSurvivor(base[g], g)
         /\ servers' = {MergeGroup(base[g], g) : g \in Groups}
    /\ todo' = servers'
    /\ Count("dup", Removed)
    /\ auth' = 0 /\ open' = FALSE /\ asked' = <<>>
    /\ UNCHANGED <<now, proc, ctxDone, crawl, discover, fetching, got,
                   waiting, checking, saving, crawlRuns, v1>>

LaunchCheck ==
    /\ pc = "verify" /\ ~ctxDone
    /\ \E s \in todo : todo' = todo \ {s} /\ waiting' = waiting \cup {s}
    /\ UNCHANGED <<now, proc, ctxDone, pc, crawl, run, discover, fetching, got, servers, auth, open,
                   checking, saving, asked, crawlRuns, v1>>

\* ctx.Err() breaks the loop.
StopLaunching ==
    /\ pc = "verify" /\ ctxDone /\ todo # {} /\ todo' = {}
    /\ UNCHANGED <<now, proc, ctxDone, pc, crawl, run, discover, fetching, got, servers, auth, open,
                   waiting, checking, saving, asked, crawlRuns, v1>>

WorkerFree == Cardinality(checking) < Workers

EnterCheck(s) ==
    /\ s \in waiting /\ WorkerFree
    /\ waiting' = waiting \ {s} /\ checking' = checking \cup {s}
    /\ UNCHANGED <<now, proc, ctxDone, pc, crawl, run, discover, fetching, got, servers, todo, auth, open,
                   saving, asked, crawlRuns, v1>>

GiveUpCheck(s) ==
    /\ s \in waiting /\ ctxDone /\ waiting' = waiting \ {s}
    /\ UNCHANGED <<now, proc, ctxDone, pc, crawl, run, discover, fetching, got, servers, todo, auth, open,
                   checking, saving, asked, crawlRuns, v1>>

\* VerifyRepository, CheckServer and ScanServer: requests of a cancelled context
\* fail, and the server is taken to be unavailable.
EndCheck(s) ==
    /\ s \in checking /\ checking' = checking \ {s}
    /\ \E c \in {"real", "cut"} :
         /\ c = "cut" => ctxDone
         /\ servers' = (servers \ {s}) \cup {[s EXCEPT !.check = c]}
    /\ UNCHANGED <<now, proc, ctxDone, pc, crawl, run, discover, fetching, got, todo, auth, open,
                   waiting, saving, asked, crawlRuns, v1>>

VerifyEnd ==
    /\ pc = "verify" /\ todo = {} /\ waiting = {} /\ checking = {}
    /\ pc' = "persist" /\ todo' = servers
    /\ UNCHANGED <<now, proc, ctxDone, crawl, run, discover, fetching, got, servers, auth, open,
                   waiting, checking, saving, asked, crawlRuns, v1>>

-----------------------------------------------------------------------------
(* Persisting. *)

SaveBegin ==
    /\ pc = "persist" /\ saving = NoSave
    /\ \E s \in todo :
         /\ todo' = todo \ {s}
         /\ saving' = [srv |-> s, left |-> SaveStatements(s)]
    /\ UNCHANGED <<now, proc, ctxDone, pc, crawl, run, discover, fetching, got, servers, auth, open,
                   waiting, checking, asked, crawlRuns, v1>>

BugExecWithoutContext == TRUE
\* ExecContext does nothing under a cancelled context.
CanExec == ~ctxDone

SaveStatement ==
    /\ saving # NoSave /\ CanExec
    /\ LET st == Head(saving.left) IN
         /\ st.table = "mcp_servers" => SlugFree(saving.srv, v1)
         /\ v1' = ExecStatement(st, saving.srv, crawl, v1)
    /\ IF Len(saving.left) = 1
         THEN saving' = NoSave /\ Count("verified", 1)
         ELSE saving' = [saving EXCEPT !.left = Tail(@)] /\ UNCHANGED run
    /\ UNCHANGED <<now, proc, ctxDone, pc, crawl, discover, fetching, got, servers, todo, auth, open,
                   waiting, checking, asked, crawlRuns>>

BugFailureUncounted ==
    /\ saving # NoSave /\ saving' = NoSave
    /\ UNCHANGED <<now, proc, ctxDone, pc, crawl, run, discover, fetching, got, servers, todo, auth, open,
                   waiting, checking, asked, crawlRuns, v1>>
BugSaveRetriesForever ==
    /\ saving # NoSave /\ saving' = NoSave /\ todo' = todo \cup {saving.srv}
    /\ UNCHANGED <<now, proc, ctxDone, pc, crawl, run, discover, fetching, got, servers, auth, open,
                   waiting, checking, asked, crawlRuns, v1>>
\* A statement fails (a busy database, a slug of another server, the context):
\* SaveServer returns, what it has written stays.
SaveFails ==
    /\ saving # NoSave /\ saving' = NoSave
    /\ Count("saveErrors", 1)
    /\ UNCHANGED <<now, proc, ctxDone, pc, crawl, discover, fetching, got, servers, todo, auth, open,
                   waiting, checking, asked, crawlRuns, v1>>

\* runMgr.Finish: UpsertCrawlRun under the same context.
Finish ==
    /\ pc = "persist" /\ todo = {} /\ saving = NoSave
    /\ \/ /\ CanExec
          /\ crawlRuns' = [crawlRuns EXCEPT ![crawl] =
                             [@ EXCEPT !.finished = TRUE, !.counts = run]]
          /\ Forget /\ proc' = IF proc = "once" THEN "down" ELSE proc
          /\ UNCHANGED <<now, ctxDone, v1>>
       \/ Return

-----------------------------------------------------------------------------
CrawlStep ==
    \/ RunNormalize \/ NormalizeCancelled \/ AskLLM \/ Deduplicate
    \/ LaunchCheck \/ StopLaunching \/ VerifyEnd
    \/ SaveBegin \/ SaveStatement \/ SaveFails \/ Finish
    \/ \E s \in Sources : DiscoverStart(s) \/ Launch(s) \/ DiscoverEnd(s)
    \/ \E r \in fetching : Fetch(r)
    \/ \E s \in waiting : EnterCheck(s) \/ GiveUpCheck(s)
    \/ \E s \in checking : EndCheck(s)

Next ==
    \/ CrawlStep
    \/ Tick \/ StartPeriodic \/ StopPeriodic \/ RunAll \/ Signal \/ Crash
    \/ \E s \in Sources : RunIncremental(s)

Spec == Init /\ [][Next]_vars
FairSpec == Spec /\ WF_vars(CrawlStep)

-----------------------------------------------------------------------------
(* Properties. *)

ServerSet ==
    [rec : Records, id : ServerIds, slug : Slugs,
     parts : SUBSET Parts, refs : SUBSET Refs, check : Checks]

\* Types of the crawl's memory, of crawl_runs and of the tables.
TypeOK ==
    /\ now \in 1..MaxTime /\ proc \in {"down", "once", "periodic"} /\ ctxDone \in BOOLEAN
    /\ pc \in {"idle", "discover", "llm", "verify", "persist"}
    /\ crawl \in 0..MaxTime /\ run \in [Counters -> Nat]
    /\ crawlRuns \in [1..MaxTime -> [started : BOOLEAN, finished : BOOLEAN, of : SUBSET Sources,
                                     counts : [Counters -> Nat]]]
    /\ discover \in [Sources -> [next : Nat, over : BOOLEAN]]
    /\ fetching \subseteq Records /\ got \subseteq Records
    /\ servers \subseteq ServerSet /\ todo \subseteq ServerSet
    /\ waiting \subseteq ServerSet /\ checking \subseteq ServerSet
    /\ auth \in Nat /\ open \in BOOLEAN
    /\ saving = NoSave \/ (saving.srv \in ServerSet /\ Len(saving.left) > 0)
    /\ TablesType(Slugs)

\* A snapshot of a server is the last thing SaveServer writes: the row, every
\* part and a link to every source reference it speaks of were stored in that
\* crawl or later, however many saves failed or were killed in between.
SnapshotsAreComplete ==
    \A n \in v1.snapshots :
        /\ v1.servers[n.id] # NoServer /\ v1.servers[n.id].crawl >= n.crawl
        /\ \A p \in n.parts : v1.parts[n.id][p] >= n.crawl
        /\ \A r \in n.refs : r \in {l[1] : l \in v1.links[n.id]}

\* No part is newer than the row of its server, and none is there without one.
PartsFollowRows ==
    \A i \in ServerIds, p \in Parts :
        v1.parts[i][p] > 0 => v1.servers[i] # NoServer /\ v1.parts[i][p] <= v1.servers[i].crawl

\* The verification stage is cut short by a cancelled context, without an error,
\* and the servers go on to be saved; no server is stored whose checks were
\* skipped or cut, because the saves need the same context.
StoredIsChecked == \A i \in ServerIds : v1.servers[i] # NoServer => v1.servers[i].check = "real"

\* The counters of a finished crawl add up: each project that was left when the
\* duplicates were merged was saved or is an error, and each saved one has the
\* snapshot of that crawl.
FinishedRunsAddUp ==
    \A t \in 1..MaxTime : crawlRuns[t].finished =>
        LET n == crawlRuns[t].counts IN
        /\ n["verified"] + n["saveErrors"] = n["norm"] - n["dup"]
        /\ n["verified"] = Cardinality({x \in v1.snapshots : x.crawl = t})

\* Goroutines of the candidates, started by goroutines of the sources, have all
\* ended when discoverAndFetch returns the slice they append to.
FetchesAwaited == pc \notin {"idle", "discover"} => fetching = {}

AuthRun(k) ==   \* the answers from the k-th to the (k + AuthLimit - 1)-th
    /\ k + AuthLimit - 1 <= Len(asked)
    /\ \A j \in k..(k + AuthLimit - 1) : asked[j] = "auth"

\* The circuit is open exactly when the last AuthLimit answers were
\* authentication errors, and nothing is asked after such a row of answers.
CircuitIsExact ==
    pc = "llm" =>
        /\ open <=> \E k \in 1..Len(asked) : AuthRun(k)
        /\ \A k \in 1..Len(asked) : AuthRun(k) => k + AuthLimit - 1 = Len(asked)

\* Every crawl ends.
CrawlEnds == pc # "idle" ~> pc = "idle"
=============================================================================

# Verification of the Taiwan AI ecosystem crawler

TLA+ models of `awesome-taiwan-ai-ecosystem`, model-checked with TLC, and
theorems about them checked with TLAPS. Every definition is translated from the
Go source; `PROJECT.json` maps each one to its lines.

    tlc -workers 2 -config MCPipeline.cfg MCPipeline     # a run
    tlapm PipelineProofs.tla                             # the proofs of a module

## 1. The system

A crawler asks several sites for repositories, turns what it gets into
entities, classifies, verifies, scans and scores them, stores them in SQLite
and publishes lists of them as files. Other processes share the database and
the files.

| part | state | operations | talks to |
|---|---|---|---|
| pipeline coordinator (`internal/coordinator/coordinator.go`) | the entities of the crawl in memory; the context | `Run`: 11 stages, four modes | sources, store, views |
| discovery (`runDiscovery`) | one shared slice, a mutex, a semaphore, a wait group | a goroutine for each source | source adapters |
| deduplication and identity (`internal/dedupe`, `internal/normalize`) | none | `Normalize`, `Deduplicate`, `GenerateID`, `ServerID` | called by discovery's consumer |
| entity (`internal/models`) | status fields | `Promote`, transition tables | all stages |
| entity store (`internal/storage/entity_store.go`) | table `entities` | `Save`, `List`, `Get`, `Count`, `Delete`, `Update` | SQLite |
| schema migration (`internal/storage/store.go`) | the schema, `_crawler_migrations` | `Migrate`, at the start of every command | SQLite |
| registry views (`internal/export/view_generator.go`) | the files of the registry directory | `GenerateViews` | crawl, `crawler export`, `cmd/export` |
| seed (`cmd/seed`) | none | stores the rows of the legacy registry file | entity store |
| legacy crawler (`internal/crawler`) | v1 tables, crawl runs, LLM circuit | `Run`, incremental crawls, scheduler | sources, LLM, v1 store; built by the command line, run by its tests |
| v1 store (`internal/storage/store.go`) | `mcp_servers` and its dozen tables | `UpsertServer`, `SaveServer`, crawl runs | SQLite |
| v1 to v2 migration (`storage/migration.go`) | `migration_log`, the backup table | `MigrateV1ToV2`, one transaction | both schemas, beside other writers |
| `cmd/migrate` | checkpoint table | batches through the engines | both databases |
| API server and rate limiter (`internal/api`) | a window per client | HTTP handlers; `allow`, `cleanup` | clients; entity store |
| runtime verifier (`engines/runtime_verifier.go`) | a child process, a reader goroutine, channels | `Verify` | `cmd/migrate` |
| engines (`internal/engines`) | none | rules, scores, verdicts | called by the crawl, `cmd/migrate` and tests, in different orders |
| retry client (`internal/retry`) | attempts | `Do` | remote sites |

What is hard in it:

* **concurrency in one process**: discovery's goroutines append to one slice
  while the main goroutine may return early;
* **several processes on one database and one directory**, with no lock but
  SQLite's: crawler, seed, exporter, API, all of which also migrate the schema;
* **cancellation**: the stages look at the context at different places and end
  without an error, and the run goes on;
* **partial failure**: a Save fails, a file is not written, a migration stops
  between two statements; **kills** at any point;
* **long chains of stages** in which one forgotten field decides what later
  stages can do (the README's text, the time of the static check), called in other orders by
  other programs;
* **writes of one thing in many statements** without a transaction (a v1
  server), or in a transaction that may find the lock taken at any statement;
* **children and timeouts**: an answer that comes after its request was given
  up, a process that never answers;
* **rules that overlap**: the first of two dozen decides, weights add up, and a
  language model may be asked to overrule them.

What makes each part correct: nothing incomplete is stored; one failure does
not cost the others; first sightings are never forgotten and rows never
disappear; published counts are those of the published files; a crawl ends;
no record is lost in discovery; a migrated database has its whole schema, and
restarting gets there; a snapshot speaks only of what was stored; the counters
of a crawl add up; a migration's log tells the truth; a verification that
passed was a handshake and leaves no process behind; a client that walks the
pages sees each row once; and more evidence about a project never makes it
look cleaner, worse or like something else.

## 2. Modules

| module | models | proofs |
|---|---|---|
| `Lifecycle` | status values, `Promote`, membership of the views (constant level) | `PipelineProofs` |
| `EntityStore` | the `entities` table and the upsert | through `Pipeline` |
| `Registry` | abstract: what the database promises its readers | |
| `Pipeline` | `Run`, seed, exporters, signals, kills, the view files; extends the two above | `PipelineProofs` |
| `Discovery` | `runDiscovery` and the loop of `runNormalize`, goroutine by goroutine | `DiscoveryProofs` |
| `Gather` | abstract: the two steps `Pipeline` takes for what `Discovery` details | |
| `SchemaMigration` | `Store.Migrate` in several processes that lock each other out | `SchemaProofs` |
| `ServerStore` | the v1 tables and `SaveServer`, statement by statement | through `CrawlRun` |
| `CrawlRun` | the legacy `CrawlCoordinator.Run`, its crawl runs, what starts it; extends the above | `CrawlRunProofs` |
| `Signals` | which phrase is found in which part of a project's texts (constant level) | through `Evaluation` |
| `Relevance`, `Classifier`, `Identity`, `Endpoints`, `SecurityScan`, `Quality` | the engines: rules, weights, thresholds (constant level) | through `Evaluation` |
| `Evaluation` | the sequences in which the crawl, `cmd/migrate` and direct callers run the engines on a project that grows | `EvaluationProofs` |
| `RuntimeVerifier` | `Verify`: child process, reader goroutine, timers, both transports | `VerifierProofs` |
| `RateLimiter` | `clientIP`, `allow`, `cleanup` and the clock | through `Api` |
| `Api` | the listings behind the limiter, a client walking their pages, a crawl writing; extends the above | `ApiProofs` |
| `DataMigration` | `MigrateV1ToV2` in several processes, with the write lock | `MigrateProofs` |
| `MigrateTool` | the loop of `cmd/migrate`: cursor, batches, checkpoints | `MigrateProofs` (in no run) |
| `MC...` | values of the constants for TLC | |

**Pipeline.** A source record is a constant: what one source says of one
repository. Its identity for deduplication (`canon`), its primary key (`id`),
its slug and the rank of its name are separate fields because the code computes
them in four different ways. An entity in memory carries the record it came
from and the fields the stages fill in; a row of `db` is such an entity. `pc`
is the stage, named as in the log lines of the code. A stage that looks at
nothing but the entities is one step (`WholeStage`): it is local to the
process. A stage that looks at the context before each entity is one step that
chooses how far it got before the signal came (`StageUntilCancelled`): the
entities are in the order of their names, so what was done is an initial
segment, and a cut stage leaves the context cancelled. Everything other
processes can see is a step of its own: each Save, each file. In verify-only
mode the loop over the rows of the database (`VERIFY_SAVE`) comes in the middle
of the stages, as in the code. `Crash` kills the crawler at any step and may
leave a file cut short (`Torn`).

The sources' answer is any subset of `Records`, so sources that fail, disappear
or change are all covered. `RunDiscovery` and `RunNormalize` are atomic in
`Pipeline`; `Discovery` models them with goroutines, semaphore, mutex and wait
group and is checked to implement `Gather`, whose steps are those two. The
early return of `runDiscovery`, which hands out a slice goroutines are still
appending to, is a data race: the slice read is any subset of the records so
far, or `TornSlice` while an append is half done.

**SchemaMigration.** Statements are steps, and so are the check of the
migrations table and the insertion into it. No busy timeout is set, so a
statement may fail at once (`Locked`) whenever another process has the database
open: the shared lock of one's `SELECT` makes the commit of another's `CREATE`
fail. `exists` is the failure on an object, or a record, that is there already.
`cut` remembers that a process was stopped, by a kill or by a lock, in the
middle of a migration that cannot be begun twice.

**ServerStore and CrawlRun.** `SaveStatements` is the list of statements one
`SaveServer` executes, in the order of the code; `SaveStatement` executes the
next one, `SaveFails` stops the list at any point, and a kill does too. Parts
and rows remember in which crawl they were written, which is what the
properties compare. `CrawlRun` has one step for each thing a goroutine can be
seen doing: launching a source or a candidate, a fetch that ends, entering and
leaving the semaphore of the checks. Stages of one goroutine that touch nothing
shared are one step. `asked` and the field `of` are histories the properties
read. A context that is cancelled while the main goroutine selects may or may
not be seen, so both continuations are possible where the code selects.

**Engines.** A project is a set of facts `<<place, word>>`: a word stands for
everything the engines look for and find in one passage of one place (name,
description, README, package files, ...). `Exact` and `Folded` give the phrases
found in it by case-sensitive and by folded search, so the engines' own ways of
searching stay apart. Each rule is the condition of its function, the rules are
in the order of the code, scores are the sums with their caps. `Evaluation`
lets the project grow by a fact at a time and has one of three drivers,
chosen at the start, evaluate it after any number of facts: `Crawl` and `Migrate` are the orders in which the pipeline and
`cmd/migrate` call the engines, and they see only what these programs give
them (the crawl has lost the README by then, and never has package files;
`cmd/migrate` has no README); `Call` is a caller with everything, as the tests
of the package are. A tie between endpoint types, which the code breaks by the
order of a Go map, is a choice.

**RuntimeVerifier.** The child is free to write any line, at any time, up to
`MaxLines`, and to end. Reading a line is a step of the reader goroutine of a
request; a request that was given up leaves its reader behind, as in the code.
`Tick` takes time from the request and from the whole.

**RateLimiter and Api.** The limiter counts by key, and the key is what
`clientIP` makes of a request: the first address of `X-Forwarded-For`, or
`RemoteAddr`, which is an address and a port. `Connections` are the ways
requests come, each with the address it really is of, so one address can have
several keys (`keysOf`), and a client uses any of its own. Time is relative: a visitor has ticks left. `recent`
is the set of the requests served within the window, each with its age, for
the properties only. A page is two steps, the `SELECT` and the `COUNT`. The
`SELECT` is a set: the rows whose place in the order (`Position`) lies between
offset and limit; nothing depends on the order within a page. `quiet` says that
nobody has written since the walk began, which is when the pages promise
anything.

**DataMigration and MigrateTool.** SQLite is its write lock: a deferred
transaction takes it with its first write and keeps it to the end, and a
statement that finds it taken fails at once (no busy timeout is set). `tx` is
what the holder's transaction sees. An error of a statement of the lock's
holder is the slug's; every other one ends the migration (`Stop`).
`MigrateTool` has the cursor of `database/sql`, which stands before the first
row until `Next` is called.

Definitions called `Bug...` are plausible mistakes in the definition after
them. They are used by no specification; a run with one put in the place of
the original must fail, which shows the property notices it (`mutants` in
`PROJECT.json`).

## 3. Runs

| run | properties | shows |
|---|---|---|
| `MCPipeline` | `TypeOK`, `PersistIsolatesFailures`, `IndexAgrees`, `StoredComplete`, `ImplementsRegistry`, `RunTerminates` | two crawls in any modes, a seed beside them, an exporter after them |
| `MCDiscovery` | `TypeOK`, `AtMostWorkers`, `NoRecordLost`, `EntitiesAreWhole`, `ImplementsGather`, `EverythingEnds` | the goroutines of discovery |
| `MCSchema` | `TypeOK`, `ReadySeesSchema`, `NothingStranded`, `RestartsConverge` | three processes migrating together |
| `MCCrawlRun` | `TypeOK`, `SnapshotsAreComplete`, `PartsFollowRows`, `StoredIsChecked`, `FinishedRunsAddUp`, `FetchesAwaited`, `CircuitIsExact`, `CrawlEnds` | legacy crawls of all kinds, signals, failing statements, kills |
| `MCEngines` | `ClearRulesStand`, `NonAIMeansNoAI`, `RuntimeNeedsHandshake`, `GrowingKeepsServer`, `GrowingNeverCleans`, `GrowingNeverCosts` | the engines in all their orders over growing projects |
| `MCVerifier` | `NoChildLeft`, `PassedMeansHandshake`, `OneReader`, `VerifyEnds` | one verification of any entity against any child or server |
| `MCApi` | `RefusedOnlyWhenFull`, `WalkSeesAll` | a walk over the pages behind the limiter while others ask and write |
| `MCMigrate` | `LogAgrees`, `LogsASuffix` | two processes migrating rows beside a crawl and an old crawler |

and four that TLC must find violated, each the disagreement of a document with
the code:

| run | the document | the code |
|---|---|---|
| `MCVerify` | `crawler verify` verifies the stored servers | it then stores unverified discoveries over them |
| `MCData` | a data library "must not be promoted to MCP_SERVER" | the guard answers without evidence, which makes the language model be asked every time, and its answer is taken |
| `MCVerified` | "a real crawler run" that verifies servers by the handshake "is the path to populate" `taiwan-mcp.md` (README.md:362) | `runMCPIdentity` never sets the time of the static check, without which the promotion stage promotes nothing: a Taiwan server that answered and is clean is not in the view |
| `MCLimit` | a sliding window of 100 requests per minute per IP | the key has the port in it, so each connection has a counter; and the windows are fixed, so one connection alone passes the limit around the edge of two |

`MCVerified` shows one such server. `NothingIsVerified` proves the rest: no row
is ever of a verified server and the verified views stay empty, whatever crawls
and seeds, so `/api/v1/servers` shows no crawled entity either. Of a single key the limiter
lets at most twice the limit pass in a minute (`TwiceAtMost`).

Other disagreements met while modelling, which no run states:

* `cmd/migrate` calls `rows.Scan` and never `rows.Next`: its loop ends at once
  and it reports success, where docs/migration.md promises a full migration.
  `ToolMigratesNothing` proves it for every input. README.md:363 calls the tool
  unused.
* `GenerateID` hashes the URL as spelled and deduplication compares it
  normalised: one project can get two rows.
* `persistEntities` returns nil when no Save succeeded; README.md says the
  pipeline returns the error when the database is unreachable.
* `mergeGroup` drops the README, so `RawContent` is empty when it is scanned.
* A process stopped inside migration 001 or 002 makes every later `Migrate` fail
  with "already exists", although the comment on `Migrate` says "Idempotent —
  running twice produces no error" (store.go:37). It takes no kill: A creates
  the first tables of 001, B, which has just started, reads, and the lock of
  its read makes A's next statement fail. `RestartsConverge` without its
  premise `[]~cut` fails that way.
* `verifyHTTP` panics on a `tools/list` whose answer is bad
  (runtime_verifier.go:617): `panicked` in the model. `cmd/migrate` does not
  get there: `Verify` wants a runtime endpoint, and an endpoint counts as one
  only after a handshake (`RuntimeNeedsHandshake`).
* `EntityStore.Count` ignores the floor of `List`, so the last pages of
  `/entities` can be empty; `/search` reports the length of a page as the
  total.
* `MigrateV1ToV2` "skips already-migrated rows" by doing nothing when entities
  has any row: rows whose save found the lock taken are never migrated.
* docs/migration.md documents a `--resume` flag the tool does not have.
* The last crawl's time is looked up over all sources, not over the one an
  incremental crawl is for; a source row is inserted again at every save.
* `cmd/api` waits for a signal and exits without shutting the server down.

**Bounds.** `MCPipeline` has three records: two spellings of one repository
from sources of different trust, and another repository whose slug collides
with the first; a seed row for the first; two crawls. That is what the
interactions need: a merge of a group, a choice of survivor that differs
between crawls, a failing Save beside a successful one, a row from an earlier
run, from a seed and from this run, a first sighting to forget. A third crawl
meets no row a second does not. One view makes three files, enough to stop a
generation before, between and after them; the order of several views adds
only more of the same steps. The exporter runs after the last crawl only
(`ExportsAfterCrawls`): it reads rows and writes files, which nothing of a
crawl reads, and of two writers at once the properties say nothing (section 5).
`MCVerified` needs two records, one crawl and the view in question.
`MCDiscovery` has more sources than workers, a source with two candidates (a goroutine that appends
while holding its token for more), and two goroutines that can be appending
when the signal comes. `MCSchema` has a migration of two objects that can be
interrupted in the middle, one of a single object, and one that tolerates
existing objects; three processes, so that two can fail because of each other,
by objects and by locks, while the third is elsewhere. `runs` is bounded by `MaxRuns` (no bound in the
proofs); nothing else of these is unbounded.

`MCCrawlRun` has two sources, one with two candidates; two candidates are the
same project from sources of different trust, the third another project that
computes the same slug. Two ticks of the clock are two crawls, so a second
crawl meets what a first left behind, complete or cut, and two models with a
limit of two authentication errors let the circuit open within a server and
between two. `MaxTime` is the bound. `MCEngines` has fourteen facts that together
concern each engine, at most three of them in one project: a rule of the
engines looks at two things at once, so a third fact is one that interferes.
`MCVerifier` gives the child three lines, one more than the two requests it can
answer, and timeouts (fields a caller sets) with which the one over the whole
can strike before, in and after the second request. `MCApi` has three rows that differ in
what the endpoints filter by, pages of at most two or three of them, and a
limit of two requests in a window of two ticks, so that two windows can touch
and the walk can be refused in the middle; the client comes through the proxy
over two connections, which have one key. That of `MCLimit` has two connections
of its own and one row. `MCMigrate` has two processes, two
rows, two slugs for them to collide in, and a crawl and an old crawler that
may take the lock before, between and after them.

Deadlock is not checked where the system may stop: `MCPipeline`, `MCVerified` and
`MCVerify` (after `MaxRuns` crawls nobody has to act), `MCCrawlRun` (after
`MaxTime` neither) and `MCVerifier` (`Verify` has returned). The other runs check
it.

**Fairness.** `RunTerminates` assumes that a crawl that can take a step takes
one (`WF(CrawlerStep)`): its network calls have timeouts, a busy SQLite
answers with an error at once (no busy timeout is set), and the operating
system schedules it. Nothing is assumed of signals, kills,
seeds and exporters. `EverythingEnds` assumes the same of each goroutine and of
the main one: Go schedules them and the adapters' HTTP clients time out. Weak
fairness is enough although goroutines compete for tokens and for the mutex,
because each of them takes these a bounded number of times.
`RestartsConverge` assumes of each process that it runs and that it is
started again when it has failed: `restart: unless-stopped` in
docker-compose.yaml. It is claimed only of behaviours in which no process was
stopped in the middle of a migration that cannot be begun twice (`[]~cut`), by
a kill or by a lock, since nobody can run such a migration again (see above),
and in which kills and lock errors stop: two processes could lock each other out
for ever. Within that, processes fail at each other's objects and records, and
at locks between migrations, any number of times, and all come through.
`CrawlEnds` assumes that a legacy crawl that can take a step takes one: its
clients have timeouts and Go schedules its goroutines. One assumption for the
whole crawl is enough because every step uses something up: a source, a
candidate, a server, a statement. Nothing is assumed of the clock, the
scheduler of crawls or signals. `VerifyEnds` assumes that time passes, that
`Verify` and its reader goroutines are scheduled and that the HTTP client's
timeout fires; nothing is asked of the child, the server or the caller. That
the readers end although the child may stay silent is due to the kill, after
which their pipe is at its end.

## 4. Proofs

`PipelineProofs` proves, for every set of records, every number of exporters,
every list of views and every bound on crawls:

* `Invariance`: `Spec => []Inv`, the inductive invariant;
* `TypeCorrect`, `NothingIsVerified`, `StoredIsComplete`: three consequences
  (the second says how far the defect of `MCVerified` goes);
* `PersistIsolates`: from `Inv` and a second invariant, that a row saved in
  this crawl stays one;
* `PipelineImplementsRegistry`: every step of `Pipeline` is a step of `Registry`
  or leaves the table alone;
* `IndexAlwaysAgrees`: when no exporter runs beside the crawls, a complete
  INDEX.md counts what the view files list;
* `PromoteIsLegal`: `Promote` moves only as the transition table allows.

`StoredComplete` is not inductive: that a row has been scanned depends on the
stages before the Save. `Inv` therefore says how far the entities in memory
got. Its central part is `StageInv`: behind each stage *either the context is
cancelled or* every entity has that stage's result. The Save needs an
uncancelled context, so it stores only complete entities. For verify-only the
entities being saved come from the database, so the invariant says of `todo`
what it says of rows. `NothingIsVerified` needs that no entity in memory ever has
a static check (`InMemory`): the rows of seed that have one are never brought
back into a stage that promotes. `FiniteInv` (what is counted is finite) is
needed because `Cardinality` means nothing otherwise. For
`PersistIsolatesFailures` the invariant adds that ids distinguish the entities
already saved only up to overwriting by one another in the same crawl, which
leaves `lastSeen` at the current run.

INDEX.md counts entities and a view file lists records, so the two agree only
if no two entities of a crawl come from one record. `Determined` says so: it
holds because the entities come one from each group of duplicates and no stage
changes which record an entity is of. `WrittenInv` says of a generation at work
that the files behind its place list the entities it was started with. The
theorem has the hypothesis `Exporters = {}`: with another writer beside it the
statement is false (section 5).

`DiscoveryProofs` proves, for any sources and any number of workers,
`DiscoveryInvariance`, the types, the worker limit, that no answered record is
lost, that a torn slice never becomes entities, and that `Gather` is
implemented. The invariant says what each primitive is for: `SemInv`, that the
channel holds as many tokens as there are goroutines between taking one and
giving it back; `MutexInv`, that the goroutine with the mutex is the one in
its append and that its copy of the slice is up to date; `RecordInv`, that what
was answered is in the slice or in a goroutine's hand; `LaunchInv`, that the
sources are launched in order; and `PhaseInv`, that the main goroutine waited
for everybody or was cancelled and then looks at nothing. No record is lost
because the wait group leaves no hand that could hold one; a torn slice does no
harm because the way to it cancels `runNormalize` before it reads it.

`SchemaProofs` proves, for any processes and any list of migrations, the types,
`ReadyHasSchema` and `NothingIsStranded`. The first rests on a plain invariant:
what is recorded is there, and what lies behind a process's place is there
(`PlaceInv`). The second needs an argument: processes make each other fail, so
why does none leave a migration half done? What exists of an unrecorded
migration has an *owner*, a process that created all of it (`Owns`). Nobody else
can create the next object: whoever has begun the migration has created all
before its place, so of two that have begun one would stand at an object that
exists (`ApplyStrands`). The owner therefore meets no object that exists and
ends at its record, unless it is stopped, and then `cut` is true. It is what
convergence rests on: a database in which nothing is stranded can be migrated
by whoever comes next.

`CrawlRunProofs` proves, for any sources, candidates, parts, limits and number
of crawls, the types and six more invariants of the run `MCCrawlRun`. `Inv` has a part for
each question. `PlaceInv` says what can be where at each stage: nobody fetches
after discovery, nobody checks after verification, only the last stage saves.
`CheckInv` is the reason for `StoredIsChecked`: *either the context is cancelled
or* every server that is not waiting has been checked, and a save asks for an
uncancelled context. `CircuitInv` relates the counter of authentication errors
to the answers: it is the length of the row of refusals they end with.
`StoreInv` holds the two invariants of the tables and, for the save at hand,
that whatever is no longer in the list of its statements has been done
(`SaveInv`); so when the snapshot's turn comes, everything it speaks of is
stored. It needs `TimeInv`: no crawl is older than what it finds in the tables,
so a part a later crawl overwrites stays new enough. `PendingInv`, `RunsInv`
and `CountInv` carry the counters: the servers to be saved, the one in hand,
those saved and those that failed are together the servers, the snapshots of
this crawl are as many as were saved, and a run that is finished is never
written again. The merge of duplicates needs `MergedFacts`: there are as many
survivors as groups, because the survivor of a group is one of its members.

`VerifierProofs` proves, for any timeouts and any number of lines, that no child
outlives `Verify`, that one goroutine at most reads from it and that `PASSED`
was a handshake. Its invariant says at each place of `Verify` which request was
sent and whose reader there can be, and that an answer that was received is
one of the lines the child has written, a later line than the answer before.

`MigrateProofs` proves, for any processes, rows and slugs, that log and
entities agree (`LogAgrees`) and that a commit logs the last rows it read, all
of them (`LogsASuffix`). The invariant describes the transaction of the lock's holder:
its tables continue the committed ones, and its own records are of the rows
behind it, in their order; whoever does not hold the lock has written nothing.
It also proves of `MigrateTool` that it migrates nothing (`ToolMigratesNothing`):
the cursor stands before the first row for ever.

`ApiProofs` proves, for any connections, rows, page sizes, limits and windows, the
types, the two properties of `MCApi`, and that a minute serves at most twice the
limit of a key (`TwiceAtMost`). The limiter remembers one number, so
its invariant (`HistoryOK`) says which of the requests of the last minute that
number stands for: those of the running window, exactly; what was served before
it within the minute is at most one window, because a window that runs is the
only one that is not over. Twice the limit is the sum of the two parts, and a
refusal means that the first is full. `WalkInv` says what the pages fetched so
far have shown: each promised row once if its place is on one of them, and not
at all otherwise. That a walk then ends with every row is arithmetic
(`CeilingCovers`: the pages up to the ceiling hold all places) and a fact about
orders (`PositionFacts`: the places of the rows are numbers from one to their
count).

`EvaluationProofs` proves the six properties of `MCEngines` for projects of any
size and any number of language models. The invariant is that the last
evaluation is what its driver's engines make of what it saw (`Evaluated`); all
else is about the engines themselves.
Two arguments carry it. Of the classifier's twenty-six rules the least that
fires decides, and one always does (`Least`, `FirstRuleFires`); which ones fire
depends on the project and on three fields of the entity, its scores and its
status (`RulesRead`), so what later stages write into the entity does not change
what the rules had said, and a language model that is not asked cannot either
(`RulesStand`).
And more facts are more: the phrases found, the indicators, the findings and
each component of the quality score are monotone in the set of facts
(`MoreIndicators`, `ServerStays`, `ScanGrows`, `ScoreGrows`, with one lemma for
each component), so a project that only gains facts loses nothing. Sums and
caps are of a fixed number of terms, so no induction is needed. The provers'
encoding of strings gives out at the empty string and at strings with a space
in them; leaves that meet one keep it behind a definition.

The assumptions are those on the constants, which TLC evaluates in each run.
`PipelineAssumption`: finite records and ids, records with a class, a relevance
level and an id, `NoRow` no entity, `Torn` no set of records, views from the ten
the code knows.
`DiscoveryAssumption`: each adapter at most once in the list of sources,
and the empty values outside their sets. `MigrationsAssumption`: migrations
with different names that create different objects, as the list in `store.go`
does. `StoreAssumption`: finitely many parts and references. `CrawlAssumption`:
positive limits, sources that do not share a candidate, candidates whose ids and
parts are known, `NoServer` no row. `VerifierAssumption`: numbers.
`MigrationAssumption`: the lock's other values are no processes, `NoRow` no
entity. `LimiterAssumption`: a positive limit and window. `ApiAssumption`:
finitely many ids, which are numbers as the order needs them, positive page
sizes, qualities that are natural numbers. `EvaluationAssumption`: the number of
models and the bound on facts are numbers and each fact has a word of
`Signals`.

Every safety invariant and action property of the passing runs is proved. Only
model-checked is liveness: `RunTerminates`, `EverythingEnds`,
`RestartsConverge`, `CrawlEnds`, `VerifyEnds` (fairness is out of the prover's
reach).

## 5. What is not modelled

* Two writers of the view files: with an exporter beside a crawl the counts and
  the files can come from different writers, since nothing serialises them.
  `IndexAgrees` is a property of one writer at a time, and is checked with an
  exporter after the crawls.
* How an engine finds a word in a text (case folding, regular expressions,
  lists from YAML), the wording of its evidence, its confidence figures. What is
  modelled is which engine looks where, for what, in which order, and what
  follows.
* AI relevance has no field of its own: no property depends on it.
* A Save whose context is cancelled while SQLite executes it may have stored its
  row and be counted as failed; the model lets it do one or the other.
* Of the v1 store, the queries that read servers back; of the entity store,
  `Delete` and `Update`, which only tests call. Nothing the properties speak of
  goes through them.
* `/search`, single entities, statistics and the embedded front end of the API:
  each formats the answer of one query.
* An adapter of the legacy crawler whose `Fetch` returns neither a record nor an
  error: none of the repository does.
* The retry client: one goroutine, one request, no state that outlives it; what
  it does is a function of the answers it gets.
* The grandchild a `go run` server leaves when it is killed: it is not a child of
  the verifier, and no code waits for it.
* `stages.go`, the legacy exporters, the legacy keyword rules, search, health
  probes, evidence and manifest collectors: without a caller in the crawl, or
  formatting, or I/O.
* Layout of the files, logging, metrics.

Some of what is modelled is rarely or never reached by a program of the
repository: the commands build a legacy crawler and only its tests run it,
`MigrateV1ToV2` is called by tests, `cmd/migrate` never hands its engines a row
(`ToolMigratesNothing`), and the callers of the engines give them no README and often no
package files. The models say what this code does when it is called.

## 6. Plan

Done: the crawl, its stores and views; discovery; both migrations; the legacy
crawler; the engines; the runtime verifier; the API's listings and limiter.
What is left, in the order of its worth:

1. two writers of the view files: what a reader may still rely on with an
   exporter beside a crawl (no file is older than the older writer's table);
2. a theorem on what a walk over the pages still sees while a crawl writes;
3. the retry client with a shared deadline, when a caller comes to send bodies;
4. cmd/migrate's checkpoints, once its loop reads rows.

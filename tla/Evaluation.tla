----------------------------- MODULE Evaluation ------------------------------
(***************************************************************************)
(* One project, evaluated again and again while its texts grow.            *)
(*                                                                         *)
(* Three callers run the engines, each in an order of its own: the         *)
(* pipeline coordinator ("crawler"), which scores first and knows neither  *)
(* the README (dropped when duplicates are merged) nor the package files   *)
(* (never copied from the record); cmd/migrate ("migrate"), which          *)
(* classifies first, on scores it has just cleared, and has no README; and *)
(* a caller of the package that has everything ("caller"), as the engines' *)
(* own tests do.                                                           *)
(***************************************************************************)
EXTENDS Naturals, FiniteSets, Sequences

CONSTANTS
    Words, Exact, Folded,
    Models,         \* language models
    Features,       \* the facts <<place, word>> a project may have
    MaxFeatures,    \* bound of the model
    Answers         \* what a language model may answer

ASSUME EvaluationAssumption ==
    /\ Models \in Nat
    /\ MaxFeatures \in Nat
    /\ \A f \in Features : f[2] \in Words

Rel == INSTANCE Relevance
Cls == INSTANCE Classifier
Ident == INSTANCE Identity
End == INSTANCE Endpoints
Sec == INSTANCE SecurityScan
Qua == INSTANCE Quality

\* What of the project a driver's entity carries.
SeenBy(d, p) ==
    CASE d = "crawler" -> {f \in p : f[1] \notin {"raw", "pkgs"}}
      [] d = "migrate" -> {f \in p : f[1] # "raw"}
      [] d = "caller"  -> p

Drivers == {"crawler", "migrate", "caller"}

VARIABLES
    driver,     \* who evaluates the project
    project,    \* the facts there are
    last        \* the last evaluation: what it saw and the entity it left

vars == <<driver, project, last>>

\* An entity nothing is known of: new in the crawler, cleared in cmd/migrate.
Blank == [tw |-> 0, ai |-> 0, status |-> "", class |-> "", role |-> "", asked |-> FALSE,
          verified |-> FALSE, endpoints |-> {}, security |-> "", quality |-> 0]

Init == /\ driver \in Drivers
        /\ project = {}
        /\ last = [saw |-> {}, entity |-> Blank]

\* The project's authors write more.
Grow(f) ==
    /\ f \notin project
    /\ Cardinality(project) < MaxFeatures
    /\ project' = project \cup {f}
    /\ UNCHANGED <<driver, last>>

-----------------------------------------------------------------------------
(* The stages: what each writes on the entity e of project p. *)

CrawledRelevance(p, e) == [e EXCEPT !.tw = Rel!CrawledTaiwanScore(p), !.ai = Rel!CrawledAIScore(p)]
ScoredRelevance(p, e) == [e EXCEPT !.tw = Rel!TaiwanScore(p), !.ai = Rel!AIScore(p)]

\* asked: the class is a language model's.
Classified(e, result) ==
    [e EXCEPT !.class = result.class, !.role = result.role, !.asked = result.by = "llm"]
ClassifiedByRules(p, e) == Classified(e, Cls!ByRules(p, e))

Identified(p, e) ==
    LET id == Ident!DetectMCPIdentity(p) IN [e EXCEPT !.status = id.status, !.role = id.role]

ScannedAndRated(p, e) == [e EXCEPT !.security = Sec!Scan(p), !.quality = Qua!Score(p)]

-----------------------------------------------------------------------------
(* The drivers. *)

Seen == SeenBy(driver, project)

Leave(e) ==
    /\ last' = [saw |-> Seen, entity |-> e]
    /\ UNCHANGED <<driver, project>>

BugCrawlClassifiesFirst ==
    driver = "crawler" /\
    LET p == Seen
        e == ClassifiedByRules(p, Blank)
    IN Leave([CrawledRelevance(p, e) EXCEPT !.status = Ident!IdentityOfClass(e.class), !.quality = Qua!Score(p)])

\* Only the crawler attaches language models.  Its security scan is another
\* one (module Pipeline).
Crawl ==
    /\ driver = "crawler"
    /\ LET p == Seen
           scored == CrawledRelevance(p, Blank)
       IN \E result \in Cls!Classify(p, scored, [1..Models -> Answers]) :
            LET e == Classified(scored, result)
            IN Leave([e EXCEPT !.status = Ident!IdentityOfClass(e.class), !.quality = Qua!Score(p)])

\* processBatch, as written: runMigration never hands it a row (see
\* MigrateTool).  With --verify-runtime the endpoints are typed before any of
\* them is verified.
Migrate ==
    /\ driver = "migrate"
    /\ LET p == Seen
           e == Identified(p, ScoredRelevance(p, ClassifiedByRules(p, Blank)))
       IN \/ Leave(ScannedAndRated(p, e))
          \/ \E typed \in End!ClassifyEndpoints(p, FALSE) :
               Leave(ScannedAndRated(p, [e EXCEPT !.endpoints = typed]))

\* A caller scores first and may bring a runtime verification that passed.
Call ==
    /\ driver = "caller"
    /\ LET p == Seen
           e == Identified(p, ClassifiedByRules(p, ScoredRelevance(p, Blank)))
       IN \E passed \in BOOLEAN : \E typed \in End!ClassifyEndpoints(p, passed) :
            Leave(ScannedAndRated(p, [e EXCEPT !.verified = passed, !.endpoints = typed]))

Next == (\E f \in Features : Grow(f)) \/ Crawl \/ Migrate \/ Call

Spec == Init /\ [][Next]_vars

-----------------------------------------------------------------------------
(* Properties *)

Rule(e) == Cls!classifyByRules(last.saw, e)

\* The crawler asks the language model only when its rules are unsure or both
\* scores are in the middle, so the answer of a clear rule stands, whatever
\* the model would have said; and when every model fails the rules' answer
\* stands too (ClassifyWithLLM, "return original rule-based result").
ClearRulesStand ==
    last.entity.class # "" =>
      LET before == IF driver = "migrate" THEN Blank ELSE [last.entity EXCEPT !.status = ""]
          clear == /\ Cls!IsConfident(last.saw, before)
                   /\ ~(before.tw \in 20..55 /\ before.ai \in 20..55)
      IN (clear \/ ~last.entity.asked) => last.entity.class = Rule(before)

\* A project the crawler or a caller files as having nothing to do with AI,
\* by its rules, scored nothing (classifier.go, "Priority 25: NON_AI_PROJECT -
\* No AI relevance").  cmd/migrate classifies before it scores.
NonAIMeansNoAI ==
    driver # "migrate" /\ ~last.entity.asked /\ last.entity.class = "NON_AI_PROJECT"
      => last.entity.ai = 0 /\ last.entity.tw = 0

\* A language model does not overrule the guard: "A pure data SDK or database schema that happens to expose an
\* MCP-style API must not be promoted to MCP_SERVER" (classifier.go).
DataLibrariesAreNotServers ==
    driver = "crawler" /\ Cls!isDataLibraryDescription(last.saw) => last.entity.class # "MCP_SERVER"

\* A URL counts as a runtime endpoint (GetMCPRuntimeEndpoints) only after a
\* handshake, however its text and its patterns are combined.
RuntimeNeedsHandshake ==
    End!GetMCPRuntimeEndpoints(last.entity.endpoints) # {} => last.entity.verified

\* Evaluated again after it has grown, by its driver's rules, a
\* project that was an MCP server still is one, unless what it has added makes
\* it a data project; whatever else it has added.
GrowingKeepsServer ==
    [][last.saw \subseteq last'.saw /\ ~last'.entity.asked /\ ~last.entity.asked
         /\ last.entity.class = "MCP_SERVER" /\ ~Cls!Guarded(last'.saw)
       => last'.entity.class = "MCP_SERVER"]_vars

\* More text is never found to be cleaner.
GrowingNeverCleans ==
    [][last.saw \subseteq last'.saw /\ last.entity.security # ""
       => Sec!Badness(last'.entity.security) >= Sec!Badness(last.entity.security)]_vars

\* More evidence never costs points, but for the README, which is where the
\* security component looks.
GrowingNeverCosts ==
    [][last.saw \subseteq last'.saw
         /\ {f \in last'.saw : f[1] = "raw"} \subseteq last.saw
       => last'.entity.quality >= last.entity.quality]_vars
=============================================================================

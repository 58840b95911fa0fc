--------------------------- MODULE EvaluationProofs ---------------------------
(***************************************************************************)
(* What the engines promise of a project that grows, for every set of      *)
(* words, whatever phrases each of them contains, every number of facts    *)
(* and every answer of the language models.                                *)
(***************************************************************************)
EXTENDS Evaluation, FiniteSetTheorems, WellFoundedInduction, TLAPS

-----------------------------------------------------------------------------
(* The invariant: the last evaluation is what its driver makes of what it    *)
(* saw, and what it saw is finite.                                         *)

Crawled(p, e) ==
    LET scored == CrawledRelevance(p, Blank) IN
    \E result \in Cls!Classify(p, scored, [1..Models -> Answers]) :
       e = [Classified(scored, result) EXCEPT !.status = Ident!IdentityOfClass(result.class),
                                              !.quality = Qua!Score(p)]

Migrated(p, e) ==
    LET id == Identified(p, ScoredRelevance(p, ClassifiedByRules(p, Blank))) IN
    \/ e = ScannedAndRated(p, id)
    \/ \E typed \in End!ClassifyEndpoints(p, FALSE) :
          e = ScannedAndRated(p, [id EXCEPT !.endpoints = typed])

Called(p, e) ==
    LET id == Identified(p, ClassifiedByRules(p, ScoredRelevance(p, Blank))) IN
    \E passed \in BOOLEAN : \E typed \in End!ClassifyEndpoints(p, passed) :
       e = ScannedAndRated(p, [id EXCEPT !.verified = passed, !.endpoints = typed])

Evaluated(d, p, e) ==
    CASE d = "crawler" -> Crawled(p, e)
      [] d = "migrate" -> Migrated(p, e)
      [] d = "caller" -> Called(p, e)

Unevaluated == last.saw = {} /\ last.entity = Blank

IInv ==
    /\ driver \in Drivers
    /\ IsFiniteSet(project) /\ IsFiniteSet(last.saw)
    /\ Unevaluated \/ Evaluated(driver, last.saw, last.entity)

LEMMA EvaluationStarts == Init => IInv
<1> SUFFICES ASSUME Init PROVE IInv
  OBVIOUS
<1>1. IsFiniteSet({})
  BY FS_EmptySet
<1> QED BY <1>1 DEF Init, IInv, Unevaluated

LEMMA SeenIsFinite ==
    ASSUME IInv
    PROVE  Seen \in SUBSET project /\ IsFiniteSet(Seen)
<1>1. Seen \in SUBSET project
  BY DEF IInv, Seen, SeenBy, Drivers
<1> QED BY <1>1, FS_Subset DEF IInv

\* What an evaluation leaves.
LEMMA EvaluationLeaves ==
    ASSUME IInv, Crawl \/ Migrate \/ Call
    PROVE  /\ driver' = driver /\ project' = project
           /\ last'.saw = Seen /\ Evaluated(driver, Seen, last'.entity)
<1>1. CASE Crawl
  <2> DEFINE scored == CrawledRelevance(Seen, Blank)
  <2>1. PICK result \in Cls!Classify(Seen, scored, [1..Models -> Answers]) :
           LET e == Classified(scored, result) IN
           Leave([e EXCEPT !.status = Ident!IdentityOfClass(e.class), !.quality = Qua!Score(Seen)])
    BY <1>1 DEF Crawl
  <2>2. Classified(scored, result).class = result.class
    BY DEF Classified, CrawledRelevance, Blank
  <2> QED BY <1>1, <2>1, <2>2 DEF Crawl, Leave, Evaluated, Crawled
<1>2. CASE Migrate
  <2> DEFINE id == Identified(Seen, ScoredRelevance(Seen, ClassifiedByRules(Seen, Blank)))
  <2>1. /\ driver = "migrate"
        /\ \/ Leave(ScannedAndRated(Seen, id))
           \/ \E typed \in End!ClassifyEndpoints(Seen, FALSE) :
                Leave(ScannedAndRated(Seen, [id EXCEPT !.endpoints = typed]))
    BY <1>2 DEF Migrate
  <2>2. PICK e : Leave(e) /\ Migrated(Seen, e)
    <3> HIDE DEF id
    <3> QED BY <2>1 DEF Migrated, id
  <2> QED BY <2>1, <2>2 DEF Leave, Evaluated
<1>3. CASE Call
  <2> DEFINE id == Identified(Seen, ClassifiedByRules(Seen, ScoredRelevance(Seen, Blank)))
  <2>1. /\ driver = "caller"
        /\ \E passed \in BOOLEAN : \E typed \in End!ClassifyEndpoints(Seen, passed) :
             Leave(ScannedAndRated(Seen, [id EXCEPT !.verified = passed, !.endpoints = typed]))
    BY <1>3 DEF Call
  <2>2. PICK e : Leave(e) /\ Called(Seen, e)
    <3>1. PICK passed \in BOOLEAN :
             \E typed \in End!ClassifyEndpoints(Seen, passed) :
               Leave(ScannedAndRated(Seen, [id EXCEPT !.verified = passed, !.endpoints = typed]))
      BY <2>1
    <3>2. PICK typed \in End!ClassifyEndpoints(Seen, passed) :
             Leave(ScannedAndRated(Seen, [id EXCEPT !.verified = passed, !.endpoints = typed]))
      BY <3>1
    <3> HIDE DEF id
    <3> QED BY <3>2 DEF Called, id
  <2> QED BY <2>1, <2>2 DEF Leave, Evaluated
<1> QED BY <1>1, <1>2, <1>3

LEMMA EvaluationNext == IInv /\ [Next]_vars => IInv'
<1> SUFFICES ASSUME IInv, [Next]_vars PROVE IInv'
  OBVIOUS
<1>1. ASSUME NEW f \in Features, Grow(f) PROVE IInv'
  <2>1. IsFiniteSet(project \cup {f})
    BY FS_AddElement DEF IInv
  <2> QED BY <1>1, <2>1 DEF Grow, IInv, Unevaluated, Evaluated, Crawled, Migrated, Called
<1>2. CASE Crawl \/ Migrate \/ Call
  BY <1>2, EvaluationLeaves, SeenIsFinite DEF IInv, Evaluated, Crawled, Migrated, Called
<1>3. CASE UNCHANGED vars
  BY <1>3 DEF vars, IInv, Unevaluated, Evaluated, Crawled, Migrated, Called
<1> QED BY <1>1, <1>2, <1>3 DEF Next

\* The inductive invariant of the engines' evaluations, in the orders of the
\* coordinator, cmd/migrate and a caller of the package.
THEOREM EvaluationInvariance == Spec => []IInv
BY EvaluationStarts, EvaluationNext, PTL DEF Spec

-----------------------------------------------------------------------------
(* What the fields of an evaluated entity are. *)

\* The class and the scores the rules saw, by driver.
LEMMA FieldsOfCrawled ==
    ASSUME NEW p, NEW e, Crawled(p, e)
    PROVE  LET scored == CrawledRelevance(p, Blank) IN
           /\ \E result \in Cls!Classify(p, scored, [1..Models -> Answers]) :
                e.class = result.class /\ e.asked = (result.by = "llm")
           /\ e.tw = scored.tw /\ e.ai = scored.ai /\ scored.status = ""
           /\ e.security = "" /\ e.endpoints = {} /\ e.quality = Qua!Score(p)
           /\ [e EXCEPT !.status = ""].status = "" /\ [e EXCEPT !.status = ""].tw = e.tw
           /\ [e EXCEPT !.status = ""].ai = e.ai
BY DEF Crawled, CrawledRelevance, Classified, Blank

LEMMA FieldsOfMigrated ==
    ASSUME NEW p, NEW e, Migrated(p, e)
    PROVE  /\ e.class = Cls!classifyByRules(p, Blank) /\ e.asked = FALSE
           /\ e.endpoints \in {{}} \cup End!ClassifyEndpoints(p, FALSE) /\ e.verified = FALSE
           /\ e.security = Sec!Scan(p) /\ e.quality = Qua!Score(p)
<1> DEFINE rule == Cls!ByRules(p, Blank)
           base == ClassifiedByRules(p, Blank)
           id == Identified(p, ScoredRelevance(p, base))
<1>1. rule.class = Cls!classifyByRules(p, Blank) /\ rule.by = "rules"
  BY DEF Cls!ByRules
<1> HIDE DEF rule
<1>2. base = [Blank EXCEPT !.class = rule.class, !.role = rule.role, !.asked = FALSE]
  BY <1>1 DEF ClassifiedByRules, Classified, rule
<1> HIDE DEF base
<1>3. PICK typed \in {{}} \cup End!ClassifyEndpoints(p, FALSE) :
         /\ e.class = id.class /\ e.asked = id.asked /\ e.endpoints = typed /\ e.verified = id.verified
         /\ e.security = Sec!Scan(p) /\ e.quality = Qua!Score(p)
  <2>1. CASE e = ScannedAndRated(p, id)
    BY <1>2, <2>1 DEF ScannedAndRated, Identified, ScoredRelevance, Blank
  <2>2. ASSUME NEW typed \in End!ClassifyEndpoints(p, FALSE),
               e = ScannedAndRated(p, [id EXCEPT !.endpoints = typed])
        PROVE  /\ e.class = id.class /\ e.asked = id.asked /\ e.endpoints = typed /\ e.verified = id.verified
               /\ e.security = Sec!Scan(p) /\ e.quality = Qua!Score(p)
    BY <1>2, <2>2 DEF ScannedAndRated, Identified, ScoredRelevance, Blank
  <2> QED BY <2>1, <2>2 DEF Migrated, base
<1>4. id.class = rule.class /\ id.asked = FALSE /\ id.verified = FALSE
  BY <1>2 DEF Identified, ScoredRelevance, Blank
<1> QED BY <1>1, <1>3, <1>4

LEMMA FieldsOfCalled ==
    ASSUME NEW p, NEW e, Called(p, e)
    PROVE  LET scored == ScoredRelevance(p, Blank) IN
           /\ e.class = Cls!classifyByRules(p, scored) /\ e.asked = FALSE
           /\ e.tw = scored.tw /\ e.ai = scored.ai /\ scored.status = ""
           /\ e.verified \in BOOLEAN /\ e.endpoints \in End!ClassifyEndpoints(p, e.verified)
           /\ e.security = Sec!Scan(p) /\ e.quality = Qua!Score(p)
           /\ [e EXCEPT !.status = ""].status = "" /\ [e EXCEPT !.status = ""].tw = e.tw
           /\ [e EXCEPT !.status = ""].ai = e.ai
<1> DEFINE scored == ScoredRelevance(p, Blank)
           rule == Cls!ByRules(p, scored)
           base == ClassifiedByRules(p, scored)
           id == Identified(p, base)
<1>1. rule.class = Cls!classifyByRules(p, scored) /\ rule.by = "rules"
  BY DEF Cls!ByRules
<1>2. scored.status = ""
  BY DEF ScoredRelevance, Blank
<1> HIDE DEF rule
<1>3. base = [scored EXCEPT !.class = rule.class, !.role = rule.role, !.asked = FALSE]
  BY <1>1 DEF ClassifiedByRules, Classified, rule
<1> HIDE DEF base
<1>4. PICK passed \in BOOLEAN :
         \E typed \in End!ClassifyEndpoints(p, passed) :
           e = ScannedAndRated(p, [id EXCEPT !.verified = passed, !.endpoints = typed])
  BY DEF Called, base
<1>5. PICK typed \in End!ClassifyEndpoints(p, passed) :
         e = ScannedAndRated(p, [id EXCEPT !.verified = passed, !.endpoints = typed])
  BY <1>4
<1>6. /\ e.class = rule.class /\ e.asked = FALSE /\ e.tw = scored.tw /\ e.ai = scored.ai
      /\ e.security = Sec!Scan(p) /\ e.quality = Qua!Score(p)
  BY <1>3, <1>5 DEF ScannedAndRated, Identified, ScoredRelevance, Blank
<1>7. e.endpoints = typed /\ e.verified = passed
  BY <1>3, <1>5 DEF ScannedAndRated, Identified, ScoredRelevance, Blank
<1>8. /\ [e EXCEPT !.status = ""].status = "" /\ [e EXCEPT !.status = ""].tw = e.tw
      /\ [e EXCEPT !.status = ""].ai = e.ai
  BY <1>3, <1>5 DEF ScannedAndRated, Identified, ScoredRelevance, Blank
<1> QED BY <1>1, <1>2, <1>4, <1>5, <1>6, <1>7, <1>8

-----------------------------------------------------------------------------
(* The rules.  The first of those that fire is one rule, because the last,  *)
(* UNKNOWN, always fires; and it depends on the scores and the status only. *)

\* Of numbers there is a smallest.
LEMMA Least ==
    ASSUME NEW S \in SUBSET Nat, S # {}
    PROVE  \E n \in S : \A m \in S : n <= m
<1> DEFINE R == {ss \in Nat \X Nat : ss[1] < ss[2]}
<1>1. IsWellFoundedOn(R, Nat)
  <2>1. R = OpToRel(<, Nat)
    BY DEF OpToRel
  <2> QED BY <2>1, NatLessThanWellFounded
<1>2. PICK n \in S : \A m \in S : ~(<<m, n>> \in R)
  <2> HIDE DEF R
  <2> QED BY <1>1, WFMin
<1>3. ASSUME NEW m \in S PROVE n <= m
  <2>1. <<m, n>> \in Nat \X Nat /\ <<m, n>>[1] = m /\ <<m, n>>[2] = n
    OBVIOUS
  <2>2. ~(m < n)
    BY <1>2, <2>1
  <2> QED BY <2>2
<1> QED BY <1>3

LEMMA PriorityHas ==
    /\ DOMAIN Cls!Priority = 1..26
    /\ Cls!Priority[1] = "MCP_SERVER" /\ Cls!Priority[26] = "UNKNOWN"
BY DEF Cls!Priority

LEMMA FiresReads ==
    ASSUME NEW p, NEW e, NEW f, NEW class, e.status = f.status, e.ai = f.ai, e.tw = f.tw
    PROVE  Cls!Fires(class, p, e) = Cls!Fires(class, p, f)
BY DEF Cls!Fires, Cls!isMCPServer, Cls!isAIAPI, Cls!isAIApplication, Cls!isAIInfrastructure,
       Cls!isAICollection, Cls!isAIRelatedProject, Cls!isNonAIProject

First(p, e, i) ==
    /\ i \in 1..26 /\ Cls!Fires(Cls!Priority[i], p, e)
    /\ \A j \in 1..(i - 1) : ~Cls!Fires(Cls!Priority[j], p, e)

LEMMA FirstRuleFires ==
    ASSUME NEW p, NEW e
    PROVE  \E i : First(p, e, i) /\ Cls!FirstRule(p, e) = Cls!Priority[i]
<1> DEFINE firing == {i \in 1..26 : Cls!Fires(Cls!Priority[i], p, e)}
<1>1. 26 \in firing
  <2>1. Cls!Fires("UNKNOWN", p, e)
    BY DEF Cls!Fires
  <2> QED BY <2>1, PriorityHas
<1>2. PICK i \in firing : \A m \in firing : i <= m
  <2>1. firing \in SUBSET Nat /\ firing # {}
    BY <1>1
  <2> HIDE DEF firing
  <2> QED BY <2>1, Least
<1>3. First(p, e, i)
  BY <1>2 DEF First
<1>4. \A k \in DOMAIN Cls!Priority :
         (/\ Cls!Fires(Cls!Priority[k], p, e)
          /\ \A j \in 1..(k - 1) : ~Cls!Fires(Cls!Priority[j], p, e)) <=> First(p, e, k)
  BY PriorityHas DEF First
<1>5. First(p, e, CHOOSE k \in DOMAIN Cls!Priority :
               /\ Cls!Fires(Cls!Priority[k], p, e)
               /\ \A j \in 1..(k - 1) : ~Cls!Fires(Cls!Priority[j], p, e))
  BY <1>3, <1>4, PriorityHas DEF First
<1> QED BY <1>5 DEF Cls!FirstRule

LEMMA FirstIsOne ==
    ASSUME NEW p, NEW e, NEW i, NEW j, First(p, e, i), First(p, e, j)
    PROVE  i = j
BY DEF First

LEMMA FirstRuleReads ==
    ASSUME NEW p, NEW e, NEW f, e.status = f.status, e.ai = f.ai, e.tw = f.tw
    PROVE  Cls!FirstRule(p, e) = Cls!FirstRule(p, f)
<1>1. PICK i : First(p, e, i) /\ Cls!FirstRule(p, e) = Cls!Priority[i]
  BY FirstRuleFires
<1>2. PICK j : First(p, f, j) /\ Cls!FirstRule(p, f) = Cls!Priority[j]
  BY FirstRuleFires
<1>3. First(p, f, i)
  BY <1>1, FiresReads DEF First
<1> QED BY <1>1, <1>2, <1>3, FirstIsOne

LEMMA RulesRead ==
    ASSUME NEW p, NEW e, NEW f, e.status = f.status, e.ai = f.ai, e.tw = f.tw
    PROVE  /\ Cls!classifyByRules(p, e) = Cls!classifyByRules(p, f)
           /\ Cls!ShouldTriggerLLM(p, e) = Cls!ShouldTriggerLLM(p, f)
           /\ Cls!IsConfident(p, e) = Cls!IsConfident(p, f)
BY FirstRuleReads DEF Cls!classifyByRules, Cls!ShouldTriggerLLM, Cls!IsConfident

\* The class is the rules' unless a language model answered, and none is asked
\* when the rules are clear.
LEMMA RulesStand ==
    ASSUME NEW p, NEW e, NEW answers, NEW result \in Cls!Classify(p, e, answers),
           result.by # "llm" \/ ~Cls!ShouldTriggerLLM(p, e)
    PROVE  result.class = Cls!classifyByRules(p, e) /\ result.by = "rules"
<1>1. Cls!ByRules(p, e).class = Cls!classifyByRules(p, e) /\ Cls!ByRules(p, e).by = "rules"
  BY DEF Cls!ByRules
<1>2. ASSUME NEW a \in answers, result = Cls!ClassifyWithLLM(Cls!ByRules(p, e), a), result.by # "llm"
      PROVE  result = Cls!ByRules(p, e)
  BY <1>2 DEF Cls!ClassifyWithLLM
<1>3. result = Cls!ByRules(p, e)
  BY <1>2 DEF Cls!Classify
<1> QED BY <1>1, <1>3

LEMMA ClassOfCrawled ==
    ASSUME NEW p, NEW e, Crawled(p, e),
           LET before == [e EXCEPT !.status = ""]
           IN ~e.asked \/ ~Cls!ShouldTriggerLLM(p, before)
    PROVE  /\ e.class = Cls!classifyByRules(p, [e EXCEPT !.status = ""])
           /\ e.class = Cls!classifyByRules(p, CrawledRelevance(p, Blank))
<1> DEFINE scored == CrawledRelevance(p, Blank)
           before == [e EXCEPT !.status = ""]
<1>1. PICK result \in Cls!Classify(p, scored, [1..Models -> Answers]) :
         e.class = result.class /\ e.asked = (result.by = "llm")
  BY FieldsOfCrawled
<1>2. before.status = scored.status /\ before.ai = scored.ai /\ before.tw = scored.tw
  BY FieldsOfCrawled
<1> HIDE DEF scored, before
<1>3. /\ Cls!classifyByRules(p, before) = Cls!classifyByRules(p, scored)
      /\ Cls!ShouldTriggerLLM(p, before) = Cls!ShouldTriggerLLM(p, scored)
  BY <1>2, RulesRead
<1>4. result.by # "llm" \/ ~Cls!ShouldTriggerLLM(p, scored)
  BY <1>1, <1>3 DEF before
<1>5. result.class = Cls!classifyByRules(p, scored)
  BY <1>4, RulesStand
<1> QED BY <1>1, <1>3, <1>5 DEF before, scored

LEMMA ClassedIsEvaluated ==
    ASSUME IInv, last.entity.class # ""
    PROVE  Evaluated(driver, last.saw, last.entity) /\ driver \in {"crawler", "migrate", "caller"}
<1>1. Blank.class = ""
  BY DEF Blank
<1>2. ~Unevaluated
  BY <1>1 DEF Unevaluated
<1> QED BY <1>2 DEF IInv, Drivers

LEMMA ClearRulesHold == IInv => ClearRulesStand
<1> DEFINE e == last.entity
           before == IF driver = "migrate" THEN Blank ELSE [e EXCEPT !.status = ""]
<1> SUFFICES ASSUME IInv, e.class # "",
                    \/ Cls!IsConfident(last.saw, before) /\ ~(before.tw \in 20..55 /\ before.ai \in 20..55)
                    \/ ~e.asked
             PROVE  e.class = Cls!classifyByRules(last.saw, before)
  BY DEF ClearRulesStand, Rule
<1>1. Evaluated(driver, last.saw, e) /\ driver \in {"crawler", "migrate", "caller"}
  BY ClassedIsEvaluated
<1> HIDE DEF e
<1>2. CASE driver = "crawler"
  <2>1. Crawled(last.saw, e)
    BY <1>1, <1>2 DEF Evaluated
  <2>2. before = [e EXCEPT !.status = ""]
    BY <1>2
  <2> HIDE DEF before
  <2>3. ~e.asked \/ ~Cls!ShouldTriggerLLM(last.saw, before)
    BY DEF Cls!ShouldTriggerLLM
  <2>4. e.class = Cls!classifyByRules(last.saw, [e EXCEPT !.status = ""])
    BY <2>1, <2>2, <2>3, ClassOfCrawled
  <2> QED BY <2>2, <2>4
<1>3. CASE driver = "migrate"
  BY <1>1, <1>3, FieldsOfMigrated DEF Evaluated
<1>4. CASE driver = "caller"
  <2>1. Called(last.saw, e)
    BY <1>1, <1>4 DEF Evaluated
  <2> DEFINE scored == ScoredRelevance(last.saw, Blank)
  <2> HIDE DEF before
  <2>2. /\ [e EXCEPT !.status = ""].status = scored.status /\ [e EXCEPT !.status = ""].tw = scored.tw
        /\ [e EXCEPT !.status = ""].ai = scored.ai
        /\ e.class = Cls!classifyByRules(last.saw, scored)
    <3>1. e.class = Cls!classifyByRules(last.saw, scored) /\ e.tw = scored.tw /\ e.ai = scored.ai
      BY <2>1, FieldsOfCalled
    <3>2. [e EXCEPT !.status = ""].status = scored.status
      BY <2>1, FieldsOfCalled
    <3>3. [e EXCEPT !.status = ""].tw = e.tw /\ [e EXCEPT !.status = ""].ai = e.ai
      BY <2>1, FieldsOfCalled
    <3> QED BY <3>1, <3>2, <3>3
  <2>3. before = [e EXCEPT !.status = ""]
    BY <1>4 DEF before
  <2> HIDE DEF scored
  <2>4. before.status = scored.status /\ before.tw = scored.tw /\ before.ai = scored.ai
    BY <2>2, <2>3
  <2> QED BY <2>2, <2>4, RulesRead
<1> QED BY <1>1, <1>2, <1>3, <1>4

\* Whatever a language model would have said, the class a clear rule gives is
\* the class, and so is the rules' when every model fails.
THEOREM ClearRulesAreKept == Spec => []ClearRulesStand
BY EvaluationInvariance, ClearRulesHold, PTL

\* Only the rule for it files a project as having nothing to do with AI.
LEMMA NonAIFires ==
    ASSUME NEW p, NEW e, Cls!classifyByRules(p, e) = "NON_AI_PROJECT"
    PROVE  e.ai = 0 /\ e.tw = 0
<1>1. Cls!FirstRule(p, e) = "NON_AI_PROJECT"
  BY DEF Cls!classifyByRules
<1>2. PICK i : First(p, e, i) /\ Cls!FirstRule(p, e) = Cls!Priority[i]
  BY FirstRuleFires
<1>3. Cls!Fires("NON_AI_PROJECT", p, e)
  BY <1>1, <1>2 DEF First
<1> QED BY <1>3 DEF Cls!Fires, Cls!isNonAIProject

LEMMA NonAIHolds == IInv => NonAIMeansNoAI
<1> DEFINE e == last.entity
<1> SUFFICES ASSUME IInv, driver # "migrate", ~e.asked, e.class = "NON_AI_PROJECT"
             PROVE  e.ai = 0 /\ e.tw = 0
  BY DEF NonAIMeansNoAI
<1>1. Evaluated(driver, last.saw, e) /\ driver \in {"crawler", "migrate", "caller"}
  BY ClassedIsEvaluated
<1> HIDE DEF e
<1>2. CASE driver = "crawler"
  <2> DEFINE scored == CrawledRelevance(last.saw, Blank)
  <2>1. Crawled(last.saw, e)
    BY <1>1, <1>2 DEF Evaluated
  <2>2. e.class = Cls!classifyByRules(last.saw, scored)
    BY <2>1, ClassOfCrawled
  <2>3. e.ai = scored.ai /\ e.tw = scored.tw
    BY <2>1, FieldsOfCrawled
  <2> HIDE DEF scored
  <2> QED BY <2>2, <2>3, NonAIFires
<1>3. CASE driver = "caller"
  <2> DEFINE scored == ScoredRelevance(last.saw, Blank)
  <2>1. Called(last.saw, e)
    BY <1>1, <1>3 DEF Evaluated
  <2>2. e.class = Cls!classifyByRules(last.saw, scored) /\ e.ai = scored.ai /\ e.tw = scored.tw
    BY <2>1, FieldsOfCalled
  <2> HIDE DEF scored
  <2> QED BY <2>2, NonAIFires
<1> QED BY <1>1, <1>2, <1>3

\* A project the rules file as having nothing to do with AI scored nothing.
THEOREM NonAIScoredNothing == Spec => []NonAIMeansNoAI
BY EvaluationInvariance, NonAIHolds, PTL

-----------------------------------------------------------------------------
(* The endpoints.  What the patterns say of a URL without a handshake is    *)
(* worth 40, and a runtime endpoint needs more than 50.                    *)

LEMMA PatternsAreNotEnough ==
    ASSUME NEW p, NEW u, NEW ep \in End!classifySingleURL(p, u),
           ep.type = "MCP_RUNTIME_ENDPOINT"
    PROVE  ~(ep.confidence > 50)
<1> DEFINE sum == End!Confidences(p, u)
           best == {t \in DOMAIN sum : sum[t] > 0 /\ \A s \in DOMAIN sum : sum[s] <= sum[t]}
<1>1. sum["MCP_RUNTIME_ENDPOINT"] \in {0, 40}
  BY DEF End!Confidences
<1> HIDE DEF sum
<1>2. CASE best = {}
  <2>1. ep.type = "UNKNOWN"
    BY <1>2 DEF End!classifySingleURL, sum
  <2> QED BY <2>1
<1>3. CASE best # {}
  <2>1. PICK t \in best :
           ep = [url |-> u, type |-> t, confidence |-> IF sum[t] > 100 THEN 100 ELSE sum[t]]
    BY <1>3 DEF End!classifySingleURL, sum
  <2>2. t = "MCP_RUNTIME_ENDPOINT"
    BY <2>1
  <2>3. ep.confidence = sum["MCP_RUNTIME_ENDPOINT"]
    BY <1>1, <2>1, <2>2
  <2> QED BY <1>1, <2>3
<1> QED BY <1>2, <1>3

LEMMA UnverifiedTypings ==
    ASSUME NEW p, NEW typed \in End!ClassifyEndpoints(p, FALSE)
    PROVE  End!GetMCPRuntimeEndpoints(typed) = {}
<1>1. PICK f \in [End!URLs(p) -> UNION {End!classifySingleURL(p, u) : u \in End!URLs(p)}] :
         /\ \A u \in End!URLs(p) : f[u] \in End!classifySingleURL(p, u)
         /\ typed = {f[u] : u \in End!URLs(p)}
  BY DEF End!ClassifyEndpoints
<1>2. \A ep \in typed : ep.type = "MCP_RUNTIME_ENDPOINT" => ~(ep.confidence > 50)
  BY <1>1, PatternsAreNotEnough
<1> QED BY <1>2 DEF End!GetMCPRuntimeEndpoints

LEMMA HandshakeHolds == IInv => RuntimeNeedsHandshake
<1> DEFINE e == last.entity
<1> SUFFICES ASSUME IInv, End!GetMCPRuntimeEndpoints(e.endpoints) # {}
             PROVE  e.verified
  BY DEF RuntimeNeedsHandshake
<1>1. e.endpoints # {}
  BY DEF End!GetMCPRuntimeEndpoints
<1>2. ~Unevaluated
  <2>1. Blank.endpoints = {}
    BY DEF Blank
  <2> QED BY <1>1, <2>1 DEF Unevaluated
<1>3. Evaluated(driver, last.saw, e) /\ driver \in {"crawler", "migrate", "caller"}
  BY <1>2 DEF IInv, Drivers
<1> HIDE DEF e
<1>4. CASE driver = "crawler"
  BY <1>1, <1>3, <1>4, FieldsOfCrawled DEF Evaluated
<1>5. CASE driver = "migrate"
  <2>1. e.endpoints \in {{}} \cup End!ClassifyEndpoints(last.saw, FALSE)
    BY <1>3, <1>5, FieldsOfMigrated DEF Evaluated
  <2> QED BY <1>1, <2>1, UnverifiedTypings
<1>6. CASE driver = "caller"
  <2>1. e.verified \in BOOLEAN /\ e.endpoints \in End!ClassifyEndpoints(last.saw, e.verified)
    BY <1>3, <1>6, FieldsOfCalled DEF Evaluated
  <2>2. CASE e.verified = FALSE
    BY <2>1, <2>2, UnverifiedTypings
  <2> QED BY <2>1, <2>2
<1> QED BY <1>3, <1>4, <1>5, <1>6

\* No URL is a runtime endpoint without a handshake, whatever its text, the
\* README and the tables of patterns make of it.
THEOREM RuntimeIsShaken == Spec => []RuntimeNeedsHandshake
BY EvaluationInvariance, HandshakeHolds, PTL

-----------------------------------------------------------------------------
(* More facts.  What is found in a text is found in a longer one.           *)

LEMMA MoreText ==
    ASSUME NEW p, NEW q, p \subseteq q
    PROVE  /\ \A place : Cls!At(p, place) \subseteq Cls!At(q, place)
           /\ Cls!SourceText(p) \subseteq Cls!SourceText(q)
BY DEF Cls!At, Cls!SourceText

LEMMA MoreIsFound ==
    ASSUME NEW a, NEW b, a \subseteq b, NEW kws, Cls!Found(a, kws)
    PROVE  Cls!Found(b, kws)
BY DEF Cls!Found

LEMMA MoreIndicators ==
    ASSUME NEW p, NEW q, p \subseteq q
    PROVE  Cls!ServerIndicators(p) \subseteq Cls!ServerIndicators(q)
<1> SUFFICES ASSUME NEW i \in Cls!ServerIndicators(p) PROVE i \in Cls!ServerIndicators(q)
  OBVIOUS
<1>1. \A kws : Cls!Found(Cls!SourceText(p), kws) => Cls!Found(Cls!SourceText(q), kws)
  BY MoreText, MoreIsFound
<1>2. \A kws : Cls!Found(Cls!At(p, "pkgs"), kws) => Cls!Found(Cls!At(q, "pkgs"), kws)
  BY MoreText, MoreIsFound
<1> QED BY <1>1, <1>2 DEF Cls!ServerIndicators

\* The engines count as everyone does.
LEMMA SameCardinality ==
    ASSUME NEW S
    PROVE  Cls!Cardinality(S) = Cardinality(S) /\ Qua!Cardinality(S) = Cardinality(S)
BY DEF Cls!Cardinality, Qua!Cardinality, Cardinality

LEMMA IndicatorsAreFinite ==
    ASSUME NEW p
    PROVE  IsFiniteSet(Cls!ServerIndicators(p)) /\ Cardinality(Cls!ServerIndicators(p)) \in Nat
<1>1. IsFiniteSet({"impl", "stdio", "tools", "entry"})
  <2>1. IsFiniteSet({} \cup {"impl"})
    BY FS_EmptySet, FS_AddElement
  <2>2. IsFiniteSet(({} \cup {"impl"}) \cup {"stdio"})
    BY <2>1, FS_AddElement
  <2>3. IsFiniteSet((({} \cup {"impl"}) \cup {"stdio"}) \cup {"tools"})
    BY <2>2, FS_AddElement
  <2>4. IsFiniteSet(((({} \cup {"impl"}) \cup {"stdio"}) \cup {"tools"}) \cup {"entry"})
    BY <2>3, FS_AddElement
  <2>5. {"impl", "stdio", "tools", "entry"} = ((({} \cup {"impl"}) \cup {"stdio"}) \cup {"tools"}) \cup {"entry"}
    OBVIOUS
  <2> QED BY <2>4, <2>5
<1>2. Cls!ServerIndicators(p) \subseteq {"impl", "stdio", "tools", "entry"}
  BY DEF Cls!ServerIndicators
<1> QED BY <1>1, <1>2, FS_Subset, FS_CardinalityType

\* By the rules a server has two of the four indicators, unless it was seen
\* running; and two are enough, whatever other rule fires, but for the guard.
LEMMA ServerNeedsTwo ==
    ASSUME NEW p, NEW e, e.status # "RUNTIME_VERIFIED", Cls!classifyByRules(p, e) = "MCP_SERVER"
    PROVE  Cardinality(Cls!ServerIndicators(p)) >= 2
<1>1. Cls!FirstRule(p, e) = "MCP_SERVER"
  BY DEF Cls!classifyByRules
<1>2. PICK i : First(p, e, i) /\ Cls!FirstRule(p, e) = Cls!Priority[i]
  BY FirstRuleFires
<1>3. Cls!Fires("MCP_SERVER", p, e)
  BY <1>1, <1>2 DEF First
<1> QED BY <1>3, SameCardinality DEF Cls!Fires, Cls!isMCPServer

LEMMA TwoMakeAServer ==
    ASSUME NEW p, NEW e, ~Cls!Guarded(p), Cardinality(Cls!ServerIndicators(p)) >= 2
    PROVE  Cls!classifyByRules(p, e) = "MCP_SERVER"
<1>1. Cls!Fires("MCP_SERVER", p, e)
  BY SameCardinality DEF Cls!Fires, Cls!isMCPServer
<1>2. First(p, e, 1)
  BY <1>1, PriorityHas DEF First
<1>3. Cls!FirstRule(p, e) = "MCP_SERVER"
  BY <1>2, FirstRuleFires, FirstIsOne, PriorityHas
<1> QED BY <1>3 DEF Cls!classifyByRules, Cls!Guarded

LEMMA ServerStays ==
    ASSUME NEW p, NEW q, p \subseteq q, NEW e, NEW f, e.status # "RUNTIME_VERIFIED",
           Cls!classifyByRules(p, e) = "MCP_SERVER", ~Cls!Guarded(q)
    PROVE  Cls!classifyByRules(q, f) = "MCP_SERVER"
<1>1. Cardinality(Cls!ServerIndicators(p)) >= 2
  BY ServerNeedsTwo
<1>2. Cardinality(Cls!ServerIndicators(p)) <= Cardinality(Cls!ServerIndicators(q))
  BY MoreIndicators, IndicatorsAreFinite, FS_Subset
<1>3. Cardinality(Cls!ServerIndicators(q)) >= 2
  <2>1. Cardinality(Cls!ServerIndicators(p)) \in Nat /\ Cardinality(Cls!ServerIndicators(q)) \in Nat
    BY IndicatorsAreFinite
  <2> QED BY <1>1, <1>2, <2>1
<1> QED BY <1>3, TwoMakeAServer

\* The class of an entity evaluated by rules is that of some scores without a status.
LEMMA ClassByRules ==
    ASSUME NEW d \in Drivers, NEW p, NEW e, Evaluated(d, p, e), ~e.asked
    PROVE  \E base : base.status # "RUNTIME_VERIFIED" /\ e.class = Cls!classifyByRules(p, base)
<1>1. CASE d = "crawler"
  <2>1. Crawled(p, e)
    BY <1>1 DEF Evaluated
  <2> DEFINE scored == CrawledRelevance(p, Blank)
  <2>2. scored.status # "RUNTIME_VERIFIED"
    BY <2>1, FieldsOfCrawled
  <2>3. e.class = Cls!classifyByRules(p, scored)
    BY <2>1, ClassOfCrawled
  <2> HIDE DEF scored
  <2> QED BY <2>2, <2>3
<1>2. CASE d = "migrate"
  <2>1. Blank.status # "RUNTIME_VERIFIED"
    BY DEF Blank
  <2>2. e.class = Cls!classifyByRules(p, Blank)
    BY <1>2, FieldsOfMigrated DEF Evaluated
  <2> QED BY <2>1, <2>2
<1>3. CASE d = "caller"
  BY <1>3, FieldsOfCalled DEF Evaluated
<1> QED BY <1>1, <1>2, <1>3 DEF Drivers

LEMMA ServerKept == IInv /\ [Next]_vars =>
    (last.saw \subseteq last'.saw /\ ~last'.entity.asked /\ ~last.entity.asked
         /\ last.entity.class = "MCP_SERVER" /\ ~Cls!Guarded(last'.saw)
       => last'.entity.class = "MCP_SERVER")
<1> DEFINE p == last.saw
           q == last'.saw
           e == last.entity
           f == last'.entity
<1> SUFFICES ASSUME IInv, [Next]_vars, p \subseteq q, ~f.asked, ~e.asked,
                    e.class = "MCP_SERVER", ~Cls!Guarded(q)
             PROVE  f.class = "MCP_SERVER"
  OBVIOUS
<1>1. CASE last' = last
  BY <1>1
<1>2. CASE Crawl \/ Migrate \/ Call
  <2>1. Evaluated(driver, p, e) /\ driver \in Drivers
    BY ClassedIsEvaluated DEF Drivers
  <2>2. Evaluated(driver, q, f)
    BY <1>2, EvaluationLeaves
  <2> HIDE DEF p, q, e, f
  <2>3. PICK base : base.status # "RUNTIME_VERIFIED" /\ e.class = Cls!classifyByRules(p, base)
    BY <2>1, ClassByRules
  <2>4. PICK now : f.class = Cls!classifyByRules(q, now)
    BY <2>1, <2>2, ClassByRules
  <2>5. Cls!classifyByRules(p, base) = "MCP_SERVER"
    BY <2>3
  <2>6. Cls!classifyByRules(q, now) = "MCP_SERVER"
    BY <2>3, <2>5, ServerStays
  <2> QED BY <2>4, <2>6
<1> QED BY <1>1, <1>2 DEF Next, Grow, vars

\* Evaluated by the rules again, a server stays one, whatever it has added to
\* its texts, unless that makes it a data project.
THEOREM ServersStayServers == Spec => GrowingKeepsServer
BY EvaluationInvariance, ServerKept, PTL DEF Spec, GrowingKeepsServer

LEMMA MoreFindings ==
    ASSUME NEW p, NEW q, p \subseteq q
    PROVE  Sec!Findings(p) \subseteq Sec!Findings(q)
<1>1. \A place : Sec!At(p, place) \subseteq Sec!At(q, place)
  BY DEF Sec!At
<1>2. Sec!collectContent(p) \subseteq Sec!collectContent(q)
  BY <1>1 DEF Sec!collectContent
<1>3. Sec!scanEndpoints(p) \subseteq Sec!scanEndpoints(q)
  BY <1>1 DEF Sec!scanEndpoints
<1>4. \A T : LET Of(t) == UNION {{<<k, w, Sec!Severity[k]>> : k \in DOMAIN Sec!Severity \cap Exact[w]} : w \in t}
             IN Of(Sec!collectContent(p)) \subseteq Of(Sec!collectContent(q))
  BY <1>2
<1> QED BY <1>3, <1>4 DEF Sec!Findings

LEMMA ScanGrows ==
    ASSUME NEW p, NEW q, p \subseteq q
    PROVE  Sec!Badness(Sec!Scan(q)) >= Sec!Badness(Sec!Scan(p))
<1> DEFINE grave(f) == \E x \in f : x[3] \in {"CRITICAL", "HIGH"}
<1>1. Sec!Findings(p) \subseteq Sec!Findings(q)
  BY MoreFindings
<1>2. grave(Sec!Findings(p)) => grave(Sec!Findings(q))
  BY <1>1
<1>3. CASE grave(Sec!Findings(q))
  <2>1. Sec!Scan(q) = "QUARANTINED"
    BY <1>3 DEF Sec!Scan, Sec!determineStatus
  <2>2. Sec!Scan(p) \in {"CLEAN", "SUSPICIOUS", "QUARANTINED"}
    BY DEF Sec!Scan, Sec!determineStatus
  <2> QED BY <2>1, <2>2 DEF Sec!Badness
<1>4. CASE ~grave(Sec!Findings(q)) /\ Sec!Findings(q) # {}
  <2>1. Sec!Scan(q) = "SUSPICIOUS"
    BY <1>4 DEF Sec!Scan, Sec!determineStatus
  <2>2. Sec!Scan(p) \in {"CLEAN", "SUSPICIOUS"}
    BY <1>2, <1>4 DEF Sec!Scan, Sec!determineStatus
  <2> QED BY <2>1, <2>2 DEF Sec!Badness
<1>5. CASE Sec!Findings(q) = {}
  <2>1. Sec!Scan(q) = "CLEAN" /\ Sec!Scan(p) = "CLEAN"
    BY <1>1, <1>5 DEF Sec!Scan, Sec!determineStatus
  <2> QED BY <2>1 DEF Sec!Badness
<1> QED BY <1>3, <1>4, <1>5

\* Who has been scanned, has been by the engine.
LEMMA ScannedIsEvaluated ==
    ASSUME IInv, last.entity.security # ""
    PROVE  /\ driver \in {"migrate", "caller"}
           /\ last.entity.security = Sec!Scan(last.saw)
<1>1. Blank.security = ""
  BY DEF Blank
<1>2. Evaluated(driver, last.saw, last.entity) /\ driver \in {"crawler", "migrate", "caller"}
  BY <1>1 DEF IInv, Unevaluated, Drivers
<1>3. driver # "crawler"
  BY <1>2, FieldsOfCrawled DEF Evaluated
<1>4. CASE driver = "migrate"
  BY <1>2, <1>4, FieldsOfMigrated DEF Evaluated
<1>5. CASE driver = "caller"
  BY <1>2, <1>5, FieldsOfCalled DEF Evaluated
<1> QED BY <1>2, <1>3, <1>4, <1>5

LEMMA NeverCleaned == IInv /\ [Next]_vars =>
    (last.saw \subseteq last'.saw /\ last.entity.security # ""
       => Sec!Badness(last'.entity.security) >= Sec!Badness(last.entity.security))
<1> DEFINE p == last.saw
           q == last'.saw
           before == last.entity.security
           after == last'.entity.security
<1>1. SUFFICES ASSUME IInv, [Next]_vars, p \subseteq q, before # ""
               PROVE  Sec!Badness(after) >= Sec!Badness(before)
  OBVIOUS
<1>2. before = Sec!Scan(p) /\ driver \in {"migrate", "caller"}
  BY <1>1, ScannedIsEvaluated
<1>3. CASE last' = last
  <2>1. p \subseteq p /\ after = before
    BY <1>3
  <2> QED BY <1>2, <2>1, ScanGrows
<1>4. CASE Crawl \/ Migrate \/ Call
  <2>1. Evaluated(driver, q, last'.entity)
    BY <1>1, <1>4, EvaluationLeaves
  <2>2. after = Sec!Scan(q)
    <3>1. CASE driver = "migrate"
      BY <2>1, <3>1, FieldsOfMigrated DEF Evaluated
    <3>2. CASE driver = "caller"
      BY <2>1, <3>2, FieldsOfCalled DEF Evaluated
    <3> QED BY <1>2, <3>1, <3>2
  <2> HIDE DEF p, q, before, after
  <2> QED BY <1>1, <1>2, <2>2, ScanGrows
<1> QED BY <1>1, <1>3, <1>4 DEF Next, Grow, vars

\* More text is never found to be cleaner.
THEOREM NeverFoundCleaner == Spec => GrowingNeverCleans
BY EvaluationInvariance, NeverCleaned, PTL DEF Spec, GrowingNeverCleans

-----------------------------------------------------------------------------
(* The quality.  Each of its components but the security grows with the     *)
(* facts, and the security reads the README only.                          *)

NoLess(m, n) == m \in Nat /\ n \in Nat /\ m <= n

LEMMA MoreEvidence ==
    ASSUME NEW p, NEW q, p \subseteq q
    PROVE  /\ \A place : Qua!At(p, place) \subseteq Qua!At(q, place)
           /\ \A fact : Qua!Is(p, fact) => Qua!Is(q, fact)
           /\ \A place, kws : Qua!Found(Qua!At(p, place), kws) => Qua!Found(Qua!At(q, place), kws)
<1>1. \A place : Qua!At(p, place) \subseteq Qua!At(q, place)
  BY DEF Qua!At
<1> QED BY <1>1 DEF Qua!Is, Qua!Found

LEMMA MoreIsCounted ==
    ASSUME NEW S, NEW T, S \subseteq T, IsFiniteSet(T)
    PROVE  NoLess(Qua!Cardinality(S), Qua!Cardinality(T))
<1>1. Cardinality(S) <= Cardinality(T) /\ IsFiniteSet(S)
  BY FS_Subset
<1>2. Cardinality(S) \in Nat /\ Cardinality(T) \in Nat
  BY <1>1, FS_CardinalityType
<1> QED BY <1>1, <1>2, SameCardinality DEF NoLess

LEMMA PlaceIsFinite ==
    ASSUME NEW p, IsFiniteSet(p), NEW place
    PROVE  IsFiniteSet(Qua!At(p, place))
<1> DEFINE there == {g \in p : g[1] = place}
           word == [g \in there |-> g[2]]
<1>1. IsFiniteSet(there)
  BY FS_Subset
<1>2. word \in Surjection(there, Qua!At(p, place))
  BY DEF Surjection, Qua!At
<1> QED BY <1>1, <1>2, FS_Surjection

LEMMA MoreTools ==
    ASSUME NEW p, NEW q, p \subseteq q, IsFiniteSet(q)
    PROVE  NoLess(Qua!Tools(p), Qua!Tools(q))
BY MoreEvidence, PlaceIsFinite, MoreIsCounted DEF Qua!Tools

LEMMA SumGrows ==
    ASSUME NEW a, NEW b, NEW c, NEW d, NoLess(a, b), NoLess(c, d)
    PROVE  NoLess(a + c, b + d)
BY DEF NoLess

LEMMA CapGrows ==
    ASSUME NEW n \in Nat, NEW a, NEW b, NoLess(a, b)
    PROVE  NoLess(Qua!Cap(n, a), Qua!Cap(n, b))
BY DEF NoLess, Qua!Cap

LEMMA FactsCount ==
    ASSUME NEW p, NEW q, p \subseteq q, NEW fact, NEW n \in Nat
    PROVE  NoLess(Qua!Points(n, Qua!Is(p, fact)), Qua!Points(n, Qua!Is(q, fact)))
<1>1. Qua!Is(p, fact) => Qua!Is(q, fact)
  BY MoreEvidence
<1> QED BY <1>1 DEF NoLess, Qua!Points

LEMMA MaintenanceGrows ==
    ASSUME NEW p, NEW q, p \subseteq q
    PROVE  NoLess(Qua!scoreMaintenance(p), Qua!scoreMaintenance(q))
<1> DEFINE quarter(r) == Qua!Is(r, "pushed < 90 days")
           half(r) == Qua!Is(r, "pushed < 180 days")
           year(r) == Qua!Is(r, "pushed < 365 days")
           old(r) == Qua!Points(3, Qua!Is(r, "pushed"))
<1>1. (quarter(p) => quarter(q)) /\ (half(p) => half(q)) /\ (year(p) => year(q))
  BY MoreEvidence
<1>2. NoLess(old(p), old(q))
  BY FactsCount
<1>3. old(p) <= 3 /\ old(q) <= 3
  BY DEF Qua!Points
<1>4. \A r : Qua!scoreMaintenance(r) =
             IF quarter(r) THEN 15 ELSE IF half(r) THEN 12 ELSE IF year(r) THEN 8 ELSE old(r)
  BY DEF Qua!scoreMaintenance
<1> HIDE DEF quarter, half, year, old
<1> QED BY <1>1, <1>2, <1>3, <1>4 DEF NoLess

\* The points for a number of tools, and for what is found of them.
LEMMA ToolsCount ==
    ASSUME NEW p, NEW q, p \subseteq q, IsFiniteSet(q)
    PROVE  /\ NoLess(Qua!Points(3, Qua!Tools(p) > 0), Qua!Points(3, Qua!Tools(q) > 0))
           /\ NoLess(Qua!Points(2, Qua!Tools(p) >= 5), Qua!Points(2, Qua!Tools(q) >= 5))
<1>1. NoLess(Qua!Tools(p), Qua!Tools(q))
  BY MoreTools
<1>2. (Qua!Tools(p) > 0 => Qua!Tools(q) > 0) /\ (Qua!Tools(p) >= 5 => Qua!Tools(q) >= 5)
  BY <1>1 DEF NoLess
<1> QED BY <1>2 DEF NoLess, Qua!Points

LEMMA TextCounts ==
    ASSUME NEW p, NEW q, p \subseteq q, NEW place, NEW kws, NEW n \in Nat
    PROVE  NoLess(Qua!Points(n, Qua!Found(Qua!At(p, place), kws)), Qua!Points(n, Qua!Found(Qua!At(q, place), kws)))
<1>1. Qua!Found(Qua!At(p, place), kws) => Qua!Found(Qua!At(q, place), kws)
  BY MoreEvidence
<1> QED BY <1>1 DEF NoLess, Qua!Points

LEMMA DocumentationGrows ==
    ASSUME NEW p, NEW q, p \subseteq q, IsFiniteSet(q)
    PROVE  NoLess(Qua!scoreDocumentation(p), Qua!scoreDocumentation(q))
<1> DEFINE short(r) == Qua!Points(3, Qua!Found(Qua!At(r, "desc"), {"longer than 50"}))
           long(r) == Qua!Found(Qua!At(r, "desc"), {"longer than 200"})
           text(r) == IF long(r) THEN 5 ELSE short(r)
<1>1. NoLess(short(p), short(q))
  BY TextCounts
<1>2. long(p) => long(q)
  BY MoreEvidence
<1>3. short(p) <= 3
  BY DEF Qua!Points
<1> HIDE DEF short, long
<1>4. NoLess(text(p), text(q))
  BY <1>1, <1>2, <1>3 DEF NoLess
<1> HIDE DEF text
<1>5. NoLess(text(p) + Qua!Points(3, Qua!Tools(p) > 0), text(q) + Qua!Points(3, Qua!Tools(q) > 0))
  BY <1>4, ToolsCount, SumGrows
<1>6. NoLess(text(p) + Qua!Points(3, Qua!Tools(p) > 0) + Qua!Points(2, Qua!Tools(p) >= 5),
             text(q) + Qua!Points(3, Qua!Tools(q) > 0) + Qua!Points(2, Qua!Tools(q) >= 5))
  BY <1>5, ToolsCount, SumGrows
<1> QED BY <1>6 DEF Qua!scoreDocumentation, text, long, short

LEMMA ToolSchemaGrows ==
    ASSUME NEW p, NEW q, p \subseteq q, IsFiniteSet(q)
    PROVE  NoLess(Qua!scoreToolSchema(p), Qua!scoreToolSchema(q))
<1> DEFINE any(r) == Qua!Points(3, Qua!Tools(r) > 0)
           named(r) == Qua!Points(3, Qua!Found(Qua!At(r, "tools"), {"named and described"}))
           schema(r) == Qua!Points(2, Qua!Found(Qua!At(r, "tools"), {"input schema"}))
           many(r) == Qua!Points(2, Qua!Tools(r) >= 5)
<1>1. NoLess(any(p), any(q)) /\ NoLess(many(p), many(q))
  BY ToolsCount
<1>2. NoLess(named(p), named(q)) /\ NoLess(schema(p), schema(q))
  BY TextCounts
<1> HIDE DEF any, named, schema, many
<1>3. NoLess(any(p) + named(p), any(q) + named(q))
  BY <1>1, <1>2, SumGrows
<1>4. NoLess(any(p) + named(p) + schema(p), any(q) + named(q) + schema(q))
  BY <1>2, <1>3, SumGrows
<1>5. NoLess(any(p) + named(p) + schema(p) + many(p), any(q) + named(q) + schema(q) + many(q))
  BY <1>1, <1>4, SumGrows
<1>6. NoLess(Qua!Cap(10, any(p) + named(p) + schema(p) + many(p)), Qua!Cap(10, any(q) + named(q) + schema(q) + many(q)))
  BY <1>5, CapGrows
<1> QED BY <1>6 DEF Qua!scoreToolSchema, any, named, schema, many

LEMMA HealthGrows ==
    ASSUME NEW p, NEW q, p \subseteq q
    PROVE  NoLess(Qua!scoreHealth(p), Qua!scoreHealth(q))
BY MoreEvidence DEF NoLess, Qua!scoreHealth, Qua!Points

LEMMA RepositoryGrows ==
    ASSUME NEW p, NEW q, p \subseteq q
    PROVE  NoLess(Qua!scoreRepository(p), Qua!scoreRepository(q))
<1> DEFINE url(r) == Qua!Points(3, Qua!At(r, "url") # {})
           stars(r) == Qua!Points(1, Qua!Is(r, "stars >= 10"))
           forks(r) == Qua!Points(1, Qua!Is(r, "forks >= 5"))
<1>1. NoLess(url(p), url(q))
  <2>1. Qua!At(p, "url") # {} => Qua!At(q, "url") # {}
    BY MoreEvidence
  <2> QED BY <2>1 DEF NoLess, Qua!Points
<1>2. NoLess(stars(p), stars(q)) /\ NoLess(forks(p), forks(q))
  BY FactsCount
<1> HIDE DEF url, stars, forks
<1>3. NoLess(url(p) + stars(p), url(q) + stars(q))
  BY <1>1, <1>2, SumGrows
<1>4. NoLess(url(p) + stars(p) + forks(p), url(q) + stars(q) + forks(q))
  BY <1>2, <1>3, SumGrows
<1>5. NoLess(Qua!Cap(5, url(p) + stars(p) + forks(p)), Qua!Cap(5, url(q) + stars(q) + forks(q)))
  BY <1>4, CapGrows
<1> QED BY <1>5 DEF Qua!scoreRepository, url, stars, forks

LEMMA LicenseGrows ==
    ASSUME NEW p, NEW q, p \subseteq q
    PROVE  NoLess(Qua!scoreLicense(p), Qua!scoreLicense(q))
<1>1. /\ NoLess(Qua!Points(3, Qua!Is(p, "license")), Qua!Points(3, Qua!Is(q, "license")))
      /\ NoLess(Qua!Points(2, Qua!Is(p, "permissive license")), Qua!Points(2, Qua!Is(q, "permissive license")))
  BY FactsCount
<1> QED BY <1>1, SumGrows DEF Qua!scoreLicense

LEMMA CommunityGrows ==
    ASSUME NEW p, NEW q, p \subseteq q
    PROVE  NoLess(Qua!scoreCommunity(p), Qua!scoreCommunity(q))
<1> DEFINE ten(r) == Qua!Points(1, Qua!Is(r, "stars >= 10"))
           fifty(r) == Qua!Points(1, Qua!Is(r, "stars >= 50"))
           hundred(r) == Qua!Points(1, Qua!Is(r, "stars >= 100"))
           forks(r) == Qua!Points(1, Qua!Is(r, "forks >= 5"))
           topics(r) == Qua!Points(1, Qua!At(r, "topics") # {})
<1>1. /\ NoLess(ten(p), ten(q)) /\ NoLess(fifty(p), fifty(q))
      /\ NoLess(hundred(p), hundred(q)) /\ NoLess(forks(p), forks(q))
  BY FactsCount
<1>2. NoLess(topics(p), topics(q))
  <2>1. Qua!At(p, "topics") # {} => Qua!At(q, "topics") # {}
    BY MoreEvidence
  <2> QED BY <2>1 DEF NoLess, Qua!Points
<1> HIDE DEF ten, fifty, hundred, forks, topics
<1>3. NoLess(ten(p) + fifty(p), ten(q) + fifty(q))
  BY <1>1, SumGrows
<1>4. NoLess(ten(p) + fifty(p) + hundred(p), ten(q) + fifty(q) + hundred(q))
  BY <1>1, <1>3, SumGrows
<1>5. NoLess(ten(p) + fifty(p) + hundred(p) + forks(p), ten(q) + fifty(q) + hundred(q) + forks(q))
  BY <1>1, <1>4, SumGrows
<1>6. NoLess(ten(p) + fifty(p) + hundred(p) + forks(p) + topics(p),
             ten(q) + fifty(q) + hundred(q) + forks(q) + topics(q))
  BY <1>2, <1>5, SumGrows
<1>7. NoLess(Qua!Cap(5, ten(p) + fifty(p) + hundred(p) + forks(p) + topics(p)),
             Qua!Cap(5, ten(q) + fifty(q) + hundred(q) + forks(q) + topics(q)))
  BY <1>6, CapGrows
<1> QED BY <1>7 DEF Qua!scoreCommunity, ten, fifty, hundred, forks, topics

LEMMA ComplianceGrows ==
    ASSUME NEW p, NEW q, p \subseteq q
    PROVE  NoLess(Qua!scoreMCPCompliance(p), Qua!scoreMCPCompliance(q))
<1> DEFINE few == Qua!extractTransports(p)
           many == Qua!extractTransports(q)
           old == {"stdio", "sse", "http"}
           new == {"streamable-http", "websocket"}
<1>1. few \subseteq many /\ many \subseteq Qua!Transports
  BY MoreEvidence DEF Qua!extractTransports
<1>2. IsFiniteSet(Qua!Transports)
  <2>1. IsFiniteSet({} \cup {"stdio"})
    BY FS_EmptySet, FS_AddElement
  <2>2. IsFiniteSet(({} \cup {"stdio"}) \cup {"sse"})
    BY <2>1, FS_AddElement
  <2>3. IsFiniteSet((({} \cup {"stdio"}) \cup {"sse"}) \cup {"http"})
    BY <2>2, FS_AddElement
  <2>4. IsFiniteSet(((({} \cup {"stdio"}) \cup {"sse"}) \cup {"http"}) \cup {"streamable-http"})
    BY <2>3, FS_AddElement
  <2>5. IsFiniteSet((((({} \cup {"stdio"}) \cup {"sse"}) \cup {"http"}) \cup {"streamable-http"}) \cup {"websocket"})
    BY <2>4, FS_AddElement
  <2>6. Qua!Transports = (((({} \cup {"stdio"}) \cup {"sse"}) \cup {"http"}) \cup {"streamable-http"}) \cup {"websocket"}
    BY DEF Qua!Transports
  <2> QED BY <2>5, <2>6
<1> HIDE DEF few, many, old, new
<1>3. IsFiniteSet(many)
  BY <1>1, <1>2, FS_Subset
<1>4. IsFiniteSet(many \cap old) /\ IsFiniteSet(many \cap new)
  BY <1>3, FS_Subset
<1>5. /\ NoLess(Qua!Cardinality(few), Qua!Cardinality(many))
      /\ NoLess(Qua!Cardinality(few \cap old), Qua!Cardinality(many \cap old))
      /\ NoLess(Qua!Cardinality(few \cap new), Qua!Cardinality(many \cap new))
  <2>1. few \cap old \subseteq many \cap old /\ few \cap new \subseteq many \cap new
    BY <1>1
  <2> QED BY <1>1, <1>3, <1>4, <2>1, MoreIsCounted
<1>6. few # {} => many # {}
  BY <1>1
<1>7. \A a1, a2, b1, b2, c1, c2 :
        NoLess(a1, a2) /\ NoLess(b1, b2) /\ NoLess(c1, c2) =>
          NoLess(Qua!Cap(15, 3 * a1 + 2 * b1 + Qua!Points(5, few # {}) + Qua!Points(2, c1 >= 2)),
                 Qua!Cap(15, 3 * a2 + 2 * b2 + Qua!Points(5, many # {}) + Qua!Points(2, c2 >= 2)))
  BY <1>6 DEF NoLess, Qua!Cap, Qua!Points
<1>8. NoLess(Qua!Cap(15, 3 * Qua!Cardinality(few \cap old) + 2 * Qua!Cardinality(few \cap new)
                           + Qua!Points(5, few # {}) + Qua!Points(2, Qua!Cardinality(few) >= 2)),
             Qua!Cap(15, 3 * Qua!Cardinality(many \cap old) + 2 * Qua!Cardinality(many \cap new)
                           + Qua!Points(5, many # {}) + Qua!Points(2, Qua!Cardinality(many) >= 2)))
  BY <1>5, <1>7
<1> QED BY <1>8 DEF Qua!scoreMCPCompliance, few, many, old, new

\* The best source: of some of the five numbers one is the largest.
LEMMA DataSourceGrows ==
    ASSUME NEW p, NEW q, p \subseteq q
    PROVE  NoLess(Qua!scoreDataSource(p), Qua!scoreDataSource(q))
<1> DEFINE found(r) == {Qua!SourcePoints[t] : t \in UNION {DOMAIN Qua!SourcePoints \cap Exact[w] : w \in Qua!At(r, "sources")}}
           best(S) == CHOOSE n \in S : \A m \in S : m <= n
<1>1. found(p) \subseteq found(q)
  <2>1. Qua!At(p, "sources") \subseteq Qua!At(q, "sources")
    BY MoreEvidence
  <2> QED BY <2>1
<1>2. found(q) \subseteq {20, 18, 15, 10, 7}
  BY DEF Qua!SourcePoints
<1>3. \A r : Qua!scoreDataSource(r) = IF found(r) = {} THEN 0 ELSE best(found(r))
  BY DEF Qua!scoreDataSource
<1> HIDE DEF found
<1>4. ASSUME NEW S \in SUBSET {20, 18, 15, 10, 7}, S # {}
      PROVE  best(S) \in S /\ \A m \in S : m <= best(S)
  <2>1. \E n \in S : \A m \in S : m <= n
    <3>1. CASE 20 \in S
      BY <3>1
    <3>2. CASE 20 \notin S /\ 18 \in S
      BY <3>2
    <3>3. CASE 20 \notin S /\ 18 \notin S /\ 15 \in S
      BY <3>3
    <3>4. CASE 20 \notin S /\ 18 \notin S /\ 15 \notin S /\ 10 \in S
      BY <3>4
    <3>5. CASE 20 \notin S /\ 18 \notin S /\ 15 \notin S /\ 10 \notin S
      <4>1. S = {7}
        BY <1>4, <3>5
      <4> QED BY <4>1
    <3> QED BY <3>1, <3>2, <3>3, <3>4, <3>5
  <2> QED BY <2>1
<1> HIDE DEF best
<1>5. CASE found(p) = {}
  <2>1. CASE found(q) = {}
    BY <1>3, <1>5, <2>1 DEF NoLess
  <2>2. CASE found(q) # {}
    <3>1. best(found(q)) \in Nat
      BY <1>2, <1>4, <2>2
    <3> QED BY <1>3, <1>5, <2>2, <3>1 DEF NoLess
  <2> QED BY <2>1, <2>2
<1>6. CASE found(p) # {}
  <2>1. found(q) # {} /\ found(p) \in SUBSET {20, 18, 15, 10, 7}
    BY <1>1, <1>2, <1>6
  <2>2. best(found(p)) \in found(q) /\ best(found(q)) \in found(q) /\ best(found(p)) <= best(found(q))
    BY <1>1, <1>2, <1>4, <1>6, <2>1
  <2> QED BY <1>2, <1>3, <1>6, <2>1, <2>2 DEF NoLess
<1> QED BY <1>5, <1>6

LEMMA SecurityReadsTheReadme ==
    ASSUME NEW p, NEW q, p \subseteq q, {f \in q : f[1] = "raw"} \subseteq p
    PROVE  NoLess(Qua!scoreSecurity(p), Qua!scoreSecurity(q))
<1>1. Qua!At(p, "raw") = Qua!At(q, "raw")
  BY DEF Qua!At
<1> QED BY <1>1 DEF NoLess, Qua!scoreSecurity, Qua!Points

LEMMA ScoreGrows ==
    ASSUME NEW p, NEW q, p \subseteq q, IsFiniteSet(q), {f \in q : f[1] = "raw"} \subseteq p
    PROVE  NoLess(Qua!Score(p), Qua!Score(q))
<1> DEFINE a(r) == Qua!scoreDataSource(r)
           b(r) == a(r) + Qua!scoreMaintenance(r)
           c(r) == b(r) + Qua!scoreDocumentation(r)
           d(r) == c(r) + Qua!scoreMCPCompliance(r)
           e(r) == d(r) + Qua!scoreToolSchema(r)
           f(r) == e(r) + Qua!scoreHealth(r)
           g(r) == f(r) + Qua!scoreRepository(r)
           h(r) == g(r) + Qua!scoreLicense(r)
           i(r) == h(r) + Qua!scoreSecurity(r)
           j(r) == i(r) + Qua!scoreCommunity(r)
<1>1. \A r : Qua!Score(r) = Qua!Cap(100, j(r))
  BY DEF Qua!Score
<1>2. NoLess(b(p), b(q))
  BY DataSourceGrows, MaintenanceGrows, SumGrows
<1> HIDE DEF b
<1>3. NoLess(c(p), c(q))
  BY <1>2, DocumentationGrows, SumGrows
<1> HIDE DEF c
<1>4. NoLess(d(p), d(q))
  BY <1>3, ComplianceGrows, SumGrows
<1> HIDE DEF d
<1>5. NoLess(e(p), e(q))
  BY <1>4, ToolSchemaGrows, SumGrows
<1> HIDE DEF e
<1>6. NoLess(f(p), f(q))
  BY <1>5, HealthGrows, SumGrows
<1> HIDE DEF f
<1>7. NoLess(g(p), g(q))
  BY <1>6, RepositoryGrows, SumGrows
<1> HIDE DEF g
<1>8. NoLess(h(p), h(q))
  BY <1>7, LicenseGrows, SumGrows
<1> HIDE DEF h
<1>9. NoLess(i(p), i(q))
  BY <1>8, SecurityReadsTheReadme, SumGrows
<1> HIDE DEF i
<1>10. NoLess(j(p), j(q))
  BY <1>9, CommunityGrows, SumGrows
<1> HIDE DEF j
<1> QED BY <1>1, <1>10, CapGrows

LEMMA QualityIsScored ==
    ASSUME NEW d \in Drivers, NEW p, NEW e, Evaluated(d, p, e)
    PROVE  e.quality = Qua!Score(p)
<1>1. CASE d = "crawler"
  BY <1>1, FieldsOfCrawled DEF Evaluated
<1>2. CASE d = "migrate"
  BY <1>2, FieldsOfMigrated DEF Evaluated
<1>3. CASE d = "caller"
  BY <1>3, FieldsOfCalled DEF Evaluated
<1> QED BY <1>1, <1>2, <1>3 DEF Drivers

LEMMA NeverCostly == IInv /\ [Next]_vars =>
    (last.saw \subseteq last'.saw /\ {f \in last'.saw : f[1] = "raw"} \subseteq last.saw
       => last'.entity.quality >= last.entity.quality)
<1> DEFINE p == last.saw
           q == last'.saw
           before == last.entity.quality
           after == last'.entity.quality
<1> SUFFICES ASSUME IInv, [Next]_vars, p \subseteq q, {f \in q : f[1] = "raw"} \subseteq p
             PROVE  after >= before
  OBVIOUS
<1>1. IsFiniteSet(p)
  BY DEF IInv
<1>2. before = 0 \/ before = Qua!Score(p)
  <2>1. CASE Unevaluated
    <3>1. Blank.quality = 0
      BY DEF Blank
    <3> QED BY <2>1, <3>1 DEF Unevaluated
  <2>2. CASE Evaluated(driver, p, last.entity)
    BY <2>2, QualityIsScored DEF IInv
  <2> QED BY <2>1, <2>2 DEF IInv
<1>3. CASE last' = last
  <2>1. NoLess(Qua!Score(p), Qua!Score(p))
    BY <1>1, ScoreGrows
  <2>2. after = before
    BY <1>3
  <2> HIDE DEF before, after
  <2> QED BY <1>2, <2>1, <2>2 DEF NoLess
<1>4. CASE Crawl \/ Migrate \/ Call
  <2>1. Evaluated(driver, q, last'.entity) /\ q = Seen
    BY <1>4, EvaluationLeaves
  <2>2. after = Qua!Score(q)
    BY <2>1, QualityIsScored DEF IInv
  <2>3. NoLess(Qua!Score(p), Qua!Score(q))
    BY <2>1, SeenIsFinite, ScoreGrows
  <2> HIDE DEF p, q, before, after
  <2> QED BY <1>2, <2>2, <2>3 DEF NoLess
<1> QED BY <1>3, <1>4 DEF Next, Grow, vars

\* More evidence never costs points, but for what it adds to the README.
THEOREM NeverCostsPoints == Spec => GrowingNeverCosts
BY EvaluationInvariance, NeverCostly, PTL DEF Spec, GrowingNeverCosts
=============================================================================

----------------------- MODULE RuntimeRouterProofs -----------------------
(* Proofs about the routing policy, for any capabilities, formats and      *)
(* modes a request may name, and about the evaluation of the planner, for  *)
(* any dataset and any answers of its provider.                            *)
EXTENDS PlannerEvaluation, FiniteSetTheorems, TLAPS

(* The policy answers the request on record.                               *)
Answered == /\ asked \in Context
            /\ decision = Decide(asked)
            /\ plan = PlanOf(asked)

LEMMA AnsweredAlways == RouterSpec => []Answered
<1>1. RouterInit => Answered
      BY DEF RouterInit, Answered
<1>2. Answered /\ [RouterNext]_routerVars => Answered'
      BY DEF Answered, RouterNext, Answer, routerVars
<1>3. QED
      BY <1>1, <1>2, PTL DEF RouterSpec

(* When each route is chosen, in terms of the request alone.               *)
LEMMA WhenBlocked ==
    ASSUME NEW c \in Context
    PROVE  Blockers(c) = {} <=>
              /\ c.mode \in SupportedModes
              /\ CapabilitiesOf(c) \cap ConsequentialCapabilities = {}
              /\ CapabilitiesOf(c) \subseteq Known
              /\ FormatsOf(c) \subseteq PlaywrightFormats
  BY DEF Blockers

LEMMA WhenHindered ==
    ASSUME NEW c \in Context
    PROVE  Obstacles(c) = {} <=>
              /\ ~c.strict /\ ~c.selectors /\ c.agentic
              /\ FormatsOf(c) \subseteq BrowserUseFormats
<1>1. c.strict \in BOOLEAN /\ c.selectors \in BOOLEAN /\ c.agentic \in BOOLEAN
      BY DEF Context
<1>2. QED
      BY <1>1 DEF Obstacles

LEMMA DemandingBlocked ==
    ASSUME NEW c \in Context, NEW d \in Context, MoreDemanding(c, d),
           Blockers(d) = {}
    PROVE  Blockers(c) = {}
<1>1. /\ d.mode \in SupportedModes
      /\ CapabilitiesOf(d) \cap ConsequentialCapabilities = {}
      /\ CapabilitiesOf(d) \subseteq Known
      /\ FormatsOf(d) \subseteq PlaywrightFormats
      BY WhenBlocked
<1>2. /\ c.mode = d.mode
      /\ CapabilitiesOf(c) \subseteq CapabilitiesOf(d)
      /\ FormatsOf(c) \subseteq FormatsOf(d)
      BY DEF MoreDemanding
<1>3. /\ c.mode \in SupportedModes
      /\ CapabilitiesOf(c) \cap ConsequentialCapabilities = {}
      /\ CapabilitiesOf(c) \subseteq Known
      /\ FormatsOf(c) \subseteq PlaywrightFormats
      BY <1>1, <1>2
<1>4. QED
      BY <1>3, WhenBlocked

LEMMA DemandingHindered ==
    ASSUME NEW c \in Context, NEW d \in Context, MoreDemanding(c, d),
           Obstacles(d) = {}
    PROVE  Obstacles(c) = {}
<1>1. /\ ~d.strict /\ ~d.selectors /\ d.agentic
      /\ FormatsOf(d) \subseteq BrowserUseFormats
      BY WhenHindered
<1>2. /\ FormatsOf(c) \subseteq FormatsOf(d)
      /\ c.selectors => d.selectors
      /\ c.strict => d.strict
      /\ d.agentic => c.agentic
      BY DEF MoreDemanding
<1>3. /\ ~c.strict /\ ~c.selectors /\ c.agentic
      /\ FormatsOf(c) \subseteq BrowserUseFormats
      BY <1>1, <1>2
<1>4. QED
      BY <1>3, WhenHindered

-----------------------------------------------------------------------------

(* Demands never widen the route, whatever names a request may use.        *)
THEOREM RoutingIsMonotone == RouterSpec => DemandsNeverWidenTheRoute
<1>1. ASSUME Answered, [RouterNext]_routerVars
      PROVE  [MoreDemanding(asked, asked')
                => Freedom(decision'.route) <= Freedom(decision.route)]_routerVars
  <2>1. CASE UNCHANGED routerVars
        BY <2>1
  <2>2. CASE RouterNext
    <3> SUFFICES ASSUME MoreDemanding(asked, asked')
                 PROVE  Freedom(decision'.route) <= Freedom(decision.route)
        OBVIOUS
    <3>1. PICK d \in Context : Answer(d)
          BY <2>2 DEF RouterNext
    <3> DEFINE c == asked
    <3>2. /\ c \in Context
          /\ decision.route = RouteOf(c) /\ decision'.route = RouteOf(d)
          /\ MoreDemanding(c, d)
          BY <1>1, <3>1 DEF Answered, Answer, Decide
    <3>3. /\ Blockers(d) = {} => Blockers(c) = {}
          /\ Obstacles(d) = {} => Obstacles(c) = {}
          BY <3>2, DemandingBlocked, DemandingHindered
    <3>4. Freedom(RouteOf(d)) <= Freedom(RouteOf(c))
      <4>1. CASE Blockers(d) # {}
            BY <4>1 DEF Freedom, RouteOf
      <4>2. CASE Blockers(d) = {} /\ Obstacles(d) # {}
            BY <3>3, <4>2 DEF Freedom, RouteOf
      <4>3. CASE Blockers(d) = {} /\ Obstacles(d) = {}
            BY <3>3, <4>3 DEF Freedom, RouteOf
      <4>4. QED
            BY <4>1, <4>2, <4>3
    <3>5. QED
          BY <3>2, <3>4
  <2>3. QED
        BY <1>1, <2>1, <2>2
<1>2. QED
      BY <1>1, AnsweredAlways, PTL DEF RouterSpec, DemandsNeverWidenTheRoute

(* A routed request is always one its runtime accepts.                     *)
THEOREM RoutedIsServed == RouterSpec => []RoutedRequestsAreServed
<1>1. ASSUME Answered PROVE RoutedRequestsAreServed
  <2> SUFFICES ASSUME RouteOf(asked) # "blocked"
               PROVE  Serves(RouteOf(asked), asked)
      BY <1>1 DEF RoutedRequestsAreServed, Answered, Decide
  <2>1. asked \in Context
        BY <1>1 DEF Answered
  <2>2. Blockers(asked) = {}
        BY DEF RouteOf
  <2>3. asked.mode \in SupportedModes
        /\ FormatsOf(asked) \subseteq PlaywrightFormats
        BY <2>1, <2>2, WhenBlocked
  <2>4. asked.formats \subseteq FormatsOf(asked)
        BY DEF FormatsOf
  <2>5. IsRuntimeTask(asked)
        BY <2>3, <2>4 DEF IsRuntimeTask, SupportedModes, RuntimeModes,
                          PlaywrightFormats, RuntimeFormats
  <2>6. CASE Obstacles(asked) = {}
    <3>1. FormatsOf(asked) \subseteq BrowserUseFormats
          BY <2>1, <2>6, WhenHindered
    <3>2. asked.mode \in AdapterModes /\ asked.formats \subseteq AdapterArtifacts
          BY <2>3, <2>4, <3>1 DEF SupportedModes, AdapterModes,
                                  BrowserUseFormats, AdapterArtifacts
    <3>3. QED
          BY <2>2, <2>5, <2>6, <3>2 DEF Serves, RouteOf
  <2>7. CASE Obstacles(asked) # {}
        BY <2>2, <2>5, <2>7 DEF Serves, RouteOf
  <2>8. QED
        BY <2>6, <2>7
<1>2. QED
      BY <1>1, AnsweredAlways, PTL

(* The planner and the router never contradict each other.                 *)
THEOREM PlansAgree == RouterSpec => []PlannerAgreesWithRouter
<1>1. ASSUME Answered PROVE PlannerAgreesWithRouter
  <2> DEFINE capabilities == CapabilitiesOf(asked)
             risky == {"consequential-capability", "unknown-capability"}
  <2>1. asked \in Context
        BY <1>1 DEF Answered
  <2>2. Blockers(asked) \cap risky = {} <=>
            /\ capabilities \cap ConsequentialCapabilities = {}
            /\ capabilities \subseteq Known
        BY DEF Blockers
  <2>3. NeedsApproval(asked) <=>
            \/ capabilities \cap ConsequentialCapabilities # {}
            \/ ~(capabilities \subseteq Known)
        BY DEF NeedsApproval, RiskOf
  <2>4. "readonly-runtime" \in PlanOf(asked).steps <=> ~NeedsApproval(asked)
        BY DEF PlanOf
  <2>5. RouteOf(asked) # "blocked" => ~NeedsApproval(asked)
        BY <2>1, <2>3, WhenBlocked DEF RouteOf
  <2>6. ~NeedsApproval(asked)
            => PlanOf(asked).status = "ready-for-blueprint-review"
        BY DEF PlanOf
  <2>7. QED
        BY <1>1, <2>2, <2>3, <2>4, <2>5, <2>6
        DEF PlannerAgreesWithRouter, Answered, Decide
<1>2. QED
      BY <1>1, AnsweredAlways, PTL

(* A task of a workspace that loads is never blocked.                      *)
THEOREM LoadedIsRouted == RouterSpec => []LoadedTasksAreRouted
<1>1. ASSUME Answered, IsWorkspaceTask(asked)
      PROVE  Decide(TaskContext(asked, asked.agentic, asked.strict)).route
                # "blocked"
  <2> DEFINE c == TaskContext(asked, asked.agentic, asked.strict)
  <2>1. /\ c.mode = asked.mode /\ c.formats = asked.formats
        /\ c.capabilities = {"navigate", "extract"}
        BY DEF TaskContext
  <2>2. c.mode \in SupportedModes /\ FormatsOf(c) \subseteq PlaywrightFormats
        BY <1>1, <2>1 DEF IsWorkspaceTask, IsRuntimeTask, SupportedModes,
                          RuntimeModes, PlaywrightFormats, RuntimeFormats,
                          FormatsOf
  <2>3. CapabilitiesOf(c) = {"navigate", "extract"}
        BY <2>1 DEF CapabilitiesOf
  <2>4. /\ CapabilitiesOf(c) \cap ConsequentialCapabilities = {}
        /\ CapabilitiesOf(c) \subseteq Known
        BY <2>3 DEF Known, ReadOnlyCapabilities, ConsequentialCapabilities
  <2>5. Blockers(c) = {}
        BY <2>2, <2>4 DEF Blockers
  <2>6. QED
        BY <2>5 DEF Decide, RouteOf
<1>2. Answered => LoadedTasksAreRouted
      BY <1>1 DEF LoadedTasksAreRouted
<1>3. QED
      BY <1>2, AnsweredAlways, PTL

-----------------------------------------------------------------------------
(* The evaluation *)

Result == [exact : BOOLEAN, gate : BOOLEAN, labelled : Statuses,
           planned : Statuses, silent : BOOLEAN]

(* What a score says, when p has named the capabilities.                   *)
ScoreIsSound(r, p) ==
    /\ r.gate => r.planned = r.labelled
    /\ r.silent => r.planned = "approval-required" /\ p = "other"

EvaluationInv ==
    /\ provider \in {"fixture", "live", "other"}
    /\ results \in Seq(Result)
    /\ \A i \in DOMAIN results : ScoreIsSound(results[i], provider)
    /\ report = "passed" => Passes(results)

LEMMA SilenceNeedsApproval ==
    ASSUME NEW texts, NamesOf(texts) = {}
    PROVE  PlanOf([capabilities |-> Predicted(texts)]).status
                = "approval-required"
<1> DEFINE c == [capabilities |-> Predicted(texts)]
<1>1. CapabilitiesOf(c) = {"unknown-empty-intent"}
      BY DEF CapabilitiesOf, Predicted
<1>2. /\ CapabilitiesOf(c) \cap ConsequentialCapabilities = {}
      /\ ~(CapabilitiesOf(c) \subseteq Known)
      BY <1>1 DEF Known, ReadOnlyCapabilities, ConsequentialCapabilities
<1>3. NeedsApproval(c)
      BY <1>2 DEF NeedsApproval, RiskOf
<1>4. QED
      BY <1>3 DEF PlanOf

LEMMA BuiltInProvidersSpeak ==
    ASSUME NEW case, NEW texts \in Answers, IsCase(case),
           provider \in {"fixture", "live", "other"},
           provider = "fixture" => texts = case.fixture,
           provider = "live" => IsIntent(texts), NamesOf(texts) = {}
    PROVE  provider = "other"
<1>1. texts \in Seq(Text)
      BY EvaluationParameters
<1>2. \A i \in DOMAIN texts : texts[i].blank
      BY DEF NamesOf
<1>3. ASSUME 1 \in DOMAIN texts, \A i \in DOMAIN texts : ~texts[i].blank
      PROVE  FALSE
      BY <1>2, <1>3
<1>4. provider # "fixture"
  <2> SUFFICES ASSUME provider = "fixture" PROVE FALSE
      OBVIOUS
  <2>1. texts # <<>> /\ \A i \in DOMAIN texts : ~texts[i].blank
        BY DEF IsCase
  <2>2. 1 \in DOMAIN texts
        BY <1>1, <2>1
  <2>3. QED
        BY <1>3, <2>1, <2>2
<1>5. provider # "live"
  <2> SUFFICES ASSUME provider = "live" PROVE FALSE
      OBVIOUS
  <2>1. Len(texts) \in 1..25 /\ \A i \in DOMAIN texts : ~texts[i].blank
        BY DEF IsIntent
  <2>2. 1 \in DOMAIN texts
        BY <1>1, <2>1
  <2>3. QED
        BY <1>3, <2>1, <2>2
<1>6. QED
      BY <1>4, <1>5

LEMMA ScoreOfCase ==
    ASSUME NEW case, NEW texts, IsCase(case)
    PROVE  LET r == Score(case, texts)
           IN  /\ r \in Result
               /\ r.gate => r.planned = r.labelled
               /\ r.silent <=> NamesOf(texts) = {}
               /\ r.silent => r.planned = "approval-required"
<1>1. PlanOf([capabilities |-> Predicted(texts)]).status \in Statuses
      BY DEF PlanOf, Statuses
<1>2. case.status \in Statuses
      BY DEF IsCase
<1>3. NamesOf(texts) = {} =>
          PlanOf([capabilities |-> Predicted(texts)]).status
              = "approval-required"
      BY SilenceNeedsApproval
<1>4. QED
      BY <1>1, <1>2, <1>3 DEF Score, Result

(* At a full rate, every case counts.                                      *)
LEMMA FullGate ==
    ASSUME NEW list \in Seq(Result), Passes(list), GateRate = 100,
           NEW i \in DOMAIN list
    PROVE  list[i].gate
<1> DEFINE good == {j \in DOMAIN list : list[j].gate}
           n == Len(list)
<1>1. n \in Nat /\ DOMAIN list = 1..n /\ good \subseteq 1..n
      OBVIOUS
<1>2. 100 * Cardinality(good) >= 100 * n
      BY DEF Passes
<1> HIDE DEF good, n
<1>3. 1 \in Int /\ n \in Int
      BY <1>1
<1>4. IsFiniteSet(1..n) /\ Cardinality(1..n) = n
  <2>1. IsFiniteSet(1..n) /\ Cardinality(1..n) = IF 1 > n THEN 0 ELSE n - 1 + 1
        BY <1>3, FS_Interval
  <2>2. QED
        BY <1>1, <2>1
<1>5. IsFiniteSet(good) /\ Cardinality(good) \in Nat
      BY <1>1, <1>4, FS_Subset, FS_CardinalityType
<1>6. good = 1..n
  <2>1. Cardinality(good) <= Cardinality(1..n)
        /\ (Cardinality(good) = Cardinality(1..n) => good = 1..n)
        BY <1>1, <1>4, FS_Subset
  <2>2. QED
        BY <1>1, <1>2, <1>4, <1>5, <2>1
<1>7. QED
      BY <1>1, <1>6 DEF good

(* Whatever the dataset and the answers, a passed report has left no label *)
(* unmet at the gate, and silence never looks like a safe request.         *)
THEOREM GateIsHeld == EvaluationSpec => []PassedReportsHoldTheGate
<1>1. EvaluationInit => EvaluationInv
      BY DEF EvaluationInit, EvaluationInv
<1>2. ASSUME EvaluationInv,
             [EvaluationNext]_<<routerVars, evaluationVars>>
      PROVE  EvaluationInv'
  <2>1. CASE UNCHANGED evaluationVars
        BY <1>2, <2>1 DEF EvaluationInv, ScoreIsSound, evaluationVars, Passes
  <2>2. ASSUME NEW case \in Cases, NEW texts \in Answers,
               EvaluateCase(case, texts)
        PROVE  EvaluationInv'
    <3>1. CASE UNCHANGED results
          BY <1>2, <2>2, <3>1
          DEF EvaluateCase, EvaluationInv, ScoreIsSound, Passes
    <3>2. CASE results' # results
      <4> DEFINE r == Score(case, texts)
      <4>1. /\ results' = Append(results, r) /\ UNCHANGED <<report, provider>>
            /\ IsCase(case) /\ report = "none"
            /\ provider = "fixture" => texts = case.fixture
            /\ provider = "live" => IsIntent(texts)
            BY <2>2, <3>2 DEF EvaluateCase
      <4>2. /\ r \in Result
            /\ r.gate => r.planned = r.labelled
            /\ r.silent <=> NamesOf(texts) = {}
            /\ r.silent => r.planned = "approval-required"
            BY <4>1, ScoreOfCase
      <4>3. r.silent => provider = "other"
            BY <1>2, <4>1, <4>2, BuiltInProvidersSpeak DEF EvaluationInv
      <4> HIDE DEF r
      <4>4. results' \in Seq(Result)
            BY <1>2, <4>1, <4>2 DEF EvaluationInv
      <4>5. \A i \in DOMAIN results' : ScoreIsSound(results'[i], provider)
        <5> SUFFICES ASSUME NEW i \in DOMAIN results'
                     PROVE  ScoreIsSound(results'[i], provider)
            OBVIOUS
        <5>1. results'[i] = r \/ (i \in DOMAIN results
                                   /\ results'[i] = results[i])
              BY <1>2, <4>1, <4>2 DEF EvaluationInv
        <5>2. CASE results'[i] = r
              BY <4>1, <4>2, <4>3, <5>2 DEF ScoreIsSound
        <5>3. CASE i \in DOMAIN results /\ results'[i] = results[i]
              BY <1>2, <4>1, <5>3 DEF EvaluationInv, ScoreIsSound
        <5>4. QED
              BY <5>1, <5>2, <5>3
      <4>6. provider' = provider /\ provider \in {"fixture", "live", "other"}
            /\ report' # "passed"
            BY <1>2, <4>1 DEF EvaluationInv
      <4>7. QED
            BY <4>4, <4>5, <4>6 DEF EvaluationInv
    <3>3. QED
          BY <3>1, <3>2
  <2>3. CASE ProviderFails
        BY <1>2, <2>3 DEF ProviderFails, EvaluationInv, ScoreIsSound, Passes
  <2>4. CASE Report
        BY <1>2, <2>4 DEF Report, EvaluationInv, ScoreIsSound, Passes
  <2>5. QED
        BY <1>2, <2>1, <2>2, <2>3, <2>4
        DEF EvaluationNext, evaluationVars, routerVars
<1>3. EvaluationInv => PassedReportsHoldTheGate
      BY FullGate DEF EvaluationInv, ScoreIsSound, PassedReportsHoldTheGate
<1>4. QED
      BY <1>1, <1>2, <1>3, PTL DEF EvaluationSpec

=============================================================================

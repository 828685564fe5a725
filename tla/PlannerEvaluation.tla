------------------------- MODULE PlannerEvaluation -------------------------
(***************************************************************************)
(* The planner evaluation (evals.py): the cases of a dataset are put one   *)
(* after the other to an intent provider, what it names goes through the   *)
(* policy planner, and the plan is scored against the labels of the case.  *)
(* The provider replays the dataset's own fixture, or asks a model through *)
(* OpenRouter (adapters/openrouter.py), whose answer is validated first,   *)
(* or is any other function.  Every plan says execution_authorized =       *)
(* FALSE, so the evaluator's check of it is left out.                      *)
(*                                                                         *)
(* A text is a capability name with its spelling: shouted if it is not in  *)
(* lower case, blank if nothing is left once it is stripped.               *)
(***************************************************************************)
EXTENDS RuntimeRouter, Sequences, FiniteSets

CONSTANTS
    Answers,        \* what a provider may answer: sequences of texts
    Cases,          \* the cases a dataset may hold
    ExactRate,      \* PlannerEvalThresholds, in percent
    GateRate,
    MaxCases,       \* bound on the length of a dataset
    Beside          \* bound: the requests an evaluation is interleaved with

Text == [name : Capabilities, shouted : BOOLEAN, blank : BOOLEAN]

ASSUME EvaluationParameters ==
    /\ Answers \subseteq Seq(Text)
    /\ ExactRate \in 0..100 /\ GateRate \in 0..100 /\ MaxCases \in Nat

VARIABLES
    provider,   \* which intent provider is evaluated
    results,    \* the results of the cases so far
    report      \* none yet, passed, failed, or aborted by an exception

evaluationVars == <<provider, results, report>>

Statuses == {"ready-for-blueprint-review", "approval-required"}

(* The names of a list of texts, stripped and in lower case.               *)
NamesOf(texts) ==
    {texts[i].name : i \in {j \in DOMAIN texts : ~texts[j].blank}}

(* PlannerEvalCase.from_dict: labels and fixtures are stripped but keep    *)
(* their case, and the labels need not agree with each other.              *)
IsCase(case) ==
    /\ case.expected # {} /\ \A t \in case.expected : ~t.blank
    /\ case.risk \in {"low", "medium", "high"} /\ case.status \in Statuses
    /\ case.fixture # <<>> /\ \A i \in DOMAIN case.fixture :
            /\ ~case.fixture[i].blank
            /\ \A j \in DOMAIN case.fixture :
                    case.fixture[i] = case.fixture[j] => i = j

(* OpenRouterWorkflowIntentPlanner._validate_intent, on the capabilities.  *)
IsIntent(texts) ==
    /\ Len(texts) \in 1..25
    /\ \A i \in DOMAIN texts : ~texts[i].blank
    /\ \A i, j \in DOMAIN texts : texts[i].name = texts[j].name => i = j

(* Mutant: nothing stands for the names of a silent provider.              *)
AnsweredNames(texts) == NamesOf(texts)

(* A silent provider must not be left to the planner, which would plan the *)
(* default capabilities for it.                                            *)
Predicted(texts) ==
    IF NamesOf(texts) = {} THEN {"unknown-empty-intent"} ELSE NamesOf(texts)

(* _evaluate_case, on what the provider answered.                          *)
Score(case, texts) ==
    LET request == [capabilities |-> Predicted(texts)]
        planned == PlanOf(request).status
        plain == {[name |-> n, shouted |-> FALSE, blank |-> FALSE] :
                    n \in Predicted(texts)}
    IN  [exact |-> plain = case.expected,
         gate |-> RiskOf(request) = case.risk /\ planned = case.status,
         labelled |-> case.status, planned |-> planned,
         silent |-> NamesOf(texts) = {}]

(* The rates of a report reach the thresholds.                             *)
Passes(list) ==
    LET exact == {i \in DOMAIN list : list[i].exact}
        gate == {i \in DOMAIN list : list[i].gate}
    IN  /\ 100 * Cardinality(exact) >= ExactRate * Len(list)
        /\ 100 * Cardinality(gate) >= GateRate * Len(list)

-----------------------------------------------------------------------------

EvaluationInit ==
    /\ RouterInit
    /\ provider \in {"fixture", "live", "other"}
    /\ results = <<>>
    /\ report = "none"

(* A live answer that is no valid intent ends the evaluation without a     *)
(* report, as does a request that fails.                                   *)
EvaluateCase(case, texts) ==
    /\ report = "none" /\ Len(results) < MaxCases
    /\ IsCase(case)
    /\ provider = "fixture" => texts = case.fixture
    /\ IF provider = "live" /\ ~IsIntent(texts)
       THEN report' = "aborted" /\ UNCHANGED results
       ELSE results' = Append(results, Score(case, texts)) /\ UNCHANGED report
    /\ UNCHANGED provider

ProviderFails ==
    /\ report = "none" /\ Len(results) < MaxCases
    /\ provider # "fixture"
    /\ report' = "aborted"
    /\ UNCHANGED <<provider, results>>

Report ==
    /\ report = "none" /\ results # <<>>
    /\ report' = IF Passes(results) THEN "passed" ELSE "failed"
    /\ UNCHANGED <<provider, results>>

(* The evaluation and the requests share the planner and no state, so that *)
(* few interleavings of them are enough.                                   *)
EvaluationNext ==
    \/ results = <<>> /\ report = "none" /\ RouterNext
       /\ UNCHANGED evaluationVars
    \/ /\ asked \in Beside
       /\ \/ \E case \in Cases, texts \in Answers : EvaluateCase(case, texts)
          \/ ProviderFails
          \/ Report
       /\ UNCHANGED routerVars

EvaluationSpec ==
    EvaluationInit /\ [][EvaluationNext]_<<routerVars, evaluationVars>>

-----------------------------------------------------------------------------
(* Properties *)

(* A report that passes the full safety gate has planned no case as ready  *)
(* that its label wants approved, nor the other way round; a provider that *)
(* names nothing never gets a ready plan out of the planner's defaults;    *)
(* and neither of the built-in providers can be silent without the         *)
(* evaluation being aborted (docs/V0_5_2_PLANNER_EVALS.md).                *)
PassedReportsHoldTheGate ==
    /\ report = "passed" /\ GateRate = 100 =>
          \A i \in DOMAIN results : results[i].planned = results[i].labelled
    /\ \A i \in DOMAIN results :
          results[i].silent => /\ results[i].planned = "approval-required"
                               /\ provider = "other"

=============================================================================

-------------------------- MODULE ObservedRuntime --------------------------
(***************************************************************************)
(* The agentic runtime as the worker runs it: the adapter of               *)
(* BrowserUseRuntime.tla, what adapters/browser_use_observed.py reads from *)
(* the history beside it, and the metrics that execute_next                *)
(* (service/observed_orchestrator.py) stores with the result, whether the  *)
(* adapter returned or raised, on top of the metrics of earlier runs.      *)
(***************************************************************************)
EXTENDS BrowserUseRuntime, RuntimeMetrics

CONSTANTS
    Durations,      \* of the attempt, in milliseconds
    Usages,         \* what the usage report of the provider may say
    Windows,        \* bound: how many runs there were before
    Limits,         \* the limit of a summary
    NoEvidence

ASSUME WindowsAssumption ==
    Windows \subseteq Nat /\ Durations \subseteq Nat /\ Limits \subseteq Nat
ASSUME UsagesAssumption ==
    Usages \subseteq [tokens : Nat \cup {Unknown}, cost : Nat \cup {Unknown}]

VARIABLES
    evidence,   \* how the attempt ended, and what its texts mention
    records     \* the metrics of the runs, the latest first

observedVars == <<adapterVars, evidence, records>>

ObservedInit == AdapterInit /\ evidence = NoEvidence /\ records = <<>>

(* _intervention_reason: the judgement of the agent, then the final result *)
(* and the errors.                                                         *)
ReasonSeen(judged, text) ==
    IF judged \/ "captcha" \in text THEN "captcha"
    ELSE IF "2fa" \in text THEN "auth-challenge"
    ELSE IF "login" \in text THEN "authentication"
    ELSE IF text \cap {"human takeover", "access challenge"} # {}
    THEN "access-challenge"
    ELSE Unknown

(* Earlier runs: two with metrics of either route, one that failed without *)
(* any usage report, and one that has not ended.                           *)
Earlier(n) ==
    [i \in 1..n |->
        LET result == [failures |-> 0, text |-> {}, human |-> FALSE,
                       reason |-> Unknown, usage |-> [tokens |-> 9, cost |-> 2]]
        IN  CASE i % 4 = 0 -> NoMetrics
              [] i % 4 = 1 -> Build("playwright", result, i, TRUE, Unknown)
              [] i % 4 = 2 -> Build("browser-use", result, i, TRUE, Unknown)
              [] OTHER -> Build("browser-use", [result EXCEPT !.usage = NoUsage],
                                i, FALSE, {"timeout"})]

(* The adapter has returned its summary or raised; agent and browser are   *)
(* gone, and what is left is what the worker has in hand.                  *)
LeaveAdapter ==
    /\ pc \in {"returned", "raised"}
    /\ pc' = IF pc = "returned" THEN "summarised" ELSE "caught"
    /\ registered' = {} /\ steps' = 0 /\ ran' = {} /\ went' = {}
    /\ visited' = {}
    /\ UNCHANGED <<errors, status, evidence, records>>

Store(entry, metrics) ==
    /\ pc' = "measured"
    /\ evidence' = entry
    /\ \E n \in Windows : records' = <<metrics>> \o Earlier(n)
    /\ UNCHANGED <<registered, steps, ran, went, visited, errors, status>>

(* The adapter returned its summary: judged is reached_captcha of the      *)
(* judgement, said and erred what the final result and the errors mention. *)
Measure(judged, said, erred, usage, duration) ==
    /\ pc = "summarised"
    /\ erred # {} => errors
    /\ LET reason == ReasonSeen(judged, said \cup erred)
           result == [failures |-> IF errors THEN 1 ELSE 0, text |-> erred,
                      human |-> reason # Unknown, reason |-> reason,
                      usage |-> usage]
       IN  Store([raised |-> FALSE, seen |-> said \cup erred,
                  challenged |-> judged, usage |-> usage],
                 Build("browser-use", result, duration, status # "failed",
                       Unknown))

(* The adapter raised: the result is nothing but the exception.            *)
MeasureFailure(message, duration) ==
    /\ pc = "caught"
    /\ LET result == [failures |-> 0, text |-> {}, human |-> FALSE,
                      reason |-> Unknown, usage |-> NoUsage]
       IN  Store([raised |-> TRUE, seen |-> message, challenged |-> FALSE,
                  usage |-> NoUsage],
                 Build("browser-use", result, duration, FALSE, message))

Texts == {{}} \cup {{word} : word \in Words}

ObservedNext ==
    \/ AdapterStep /\ UNCHANGED <<evidence, records>>
    \/ LeaveAdapter
    \/ \E duration \in Durations :
        \/ \E judged \in BOOLEAN, said, erred \in Texts, usage \in Usages :
                Measure(judged, said, erred, usage, duration)
        \/ \E first, second \in Texts :
                MeasureFailure(first \cup second, duration)

ObservedSpec == ObservedInit /\ [][ObservedNext]_observedVars

-----------------------------------------------------------------------------
(* Properties *)

(* What only a person may answer (SAFETY_PROMPT of the adapter).           *)
Challenges == {"captcha", "2fa", "login", "human takeover", "access challenge"}

(* The metrics say what the evidence says, on every way an attempt can     *)
(* end: it counts as a success exactly when the adapter returned a status  *)
(* other than failed; a success with errors is told apart from a clean     *)
(* one; a failure always has a category; it is marked for a person exactly *)
(* when its texts mention a challenge or the judgement saw one, except     *)
(* that an "access challenge" in a raised exception marks nothing, because *)
(* classify_runtime_error does not know the word that the adapter looks    *)
(* for in what it returns; and a cost nobody reported stays unknown rather *)
(* than nothing (docs/V0_6_3).                                             *)
MetricsMatchEvidence ==
    evidence # NoEvidence =>
        LET m == records[1]
        IN  /\ m.succeeded <=> ~evidence.raised /\ status # "failed"
            /\ m.category = Unknown <=> m.succeeded /\ ~errors
            /\ m.category = "partial-errors" <=> m.succeeded /\ errors
            /\ m.human <=> m.reason # Unknown
            /\ m.human <=>
                  \/ evidence.challenged
                  \/ evidence.seen \cap (Challenges \ {"access challenge"}) # {}
                  \/ ~evidence.raised /\ "access challenge" \in evidence.seen
            /\ [tokens |-> m.tokens, cost |-> m.cost] = evidence.usage

(* The least value that at least 95 in a hundred do not exceed.            *)
NearestRank(values, v) ==
    LET enough(x) == 100 * AtMost(values, x) >= 95 * Cardinality(DOMAIN values)
    IN  /\ enough(v)
        /\ \A i \in DOMAIN values : values[i] < v => ~enough(values[i])

(* The p95 of a summary is the nearest rank of the durations, whatever the *)
(* size of the window, and every run of the window is counted once, under  *)
(* its route, with its cost or among the runs of unknown cost; whatever    *)
(* did not succeed has an error category (_aggregate).                     *)
SoundSummary(log, route, limit) ==
    LET listed == ListOf(log, route, limit)
        summary == Summary(log, route, limit)
        both(field) == summary.by_route["playwright"][field]
                          + summary.by_route["browser-use"][field]
    IN  /\ listed # {} => NearestRank([i \in listed |-> log[i].duration],
                                     summary.overall.p95)
        /\ \A field \in {"runs", "successes", "interventions", "cost", "priced",
                         "unpriced"} :
                summary.overall[field] = both(field)
        /\ summary.overall.unpriced =
              Cardinality({i \in listed : log[i].cost = Unknown})
        /\ SumFunction(summary.overall.categories)
              >= summary.overall.runs - summary.overall.successes

(* This holds of every summary that may be asked for.                      *)
SummaryIsSound ==
    \A route \in {Unknown, "playwright", "browser-use"}, limit \in Limits :
        SoundSummary(records, route, limit)

(* The inductive strengthening of the properties of the adapter: what has  *)
(* been checked at each point of a run.                                    *)
AdapterInv ==
    /\ visited \subseteq went \cap Approved
    /\ pc \in {"running", "verifying", "writing", "returned"} =>
          WithinContract(registered \ Excluded)
    /\ pc \in {"preflight", "running", "verifying", "writing", "returned"}
          /\ ~errors => went \ {Blank} = visited
    /\ pc \in {"writing", "returned"} =>
          ran \subseteq Allowed /\ went \ {Blank} \subseteq Approved
    /\ pc = "returned" /\ status = "completed" => ~errors

(* That of the property of the metrics: they are stored last, so what they *)
(* were built from cannot change under them.                               *)
MetricsInv == evidence # NoEvidence => pc = "measured" /\ MetricsMatchEvidence

(* And that of the property of the summaries: they are made of metrics in  *)
(* which everything that did not succeed has a category.                   *)
Metrics ==
    {m \in [route : {"playwright", "browser-use"}, succeeded : BOOLEAN,
            duration : Nat, failures : Nat,
            category : Categories \cup {Unknown}, human : BOOLEAN,
            reason : Reasons \cup {Unknown}, tokens : Nat \cup {Unknown},
            cost : Nat \cup {Unknown}] :
        m.succeeded \/ m.category # Unknown}

RecordsInv == records \in Seq(Metrics \cup {NoMetrics})

=============================================================================

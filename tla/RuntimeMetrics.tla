--------------------------- MODULE RuntimeMetrics ---------------------------
(***************************************************************************)
(* The metrics of a finished attempt (service/metrics.py) and their        *)
(* aggregation over the latest runs (service/metrics_reporting.py); only   *)
(* operators here, no state.                                               *)
(*                                                                         *)
(* A text is the set of the words in it that the classification looks for, *)
(* each standing for its spellings ("2fa" for 2fa, two-factor, passkey and *)
(* otp, and so on).  Costs and tokens are natural numbers of some unit.    *)
(***************************************************************************)
EXTENDS Integers, Sequences, FiniteSetsExt

CONSTANTS
    Unknown,    \* None: no category, no reason, nothing reported
    NoMetrics   \* the result of the run has no runtime_metrics

(* The words of each category, in the order they are looked for.           *)
Precedence ==
    << <<"human-intervention-captcha", {"captcha"}>>,
       <<"human-intervention-auth-challenge", {"2fa"}>>,
       <<"human-intervention-authentication", {"login", "human takeover"}>>,
       <<"policy", {"policy violation"}>>,
       <<"timeout", {"timeout"}>>,
       <<"provider-rate-limit", {"rate limit"}>>,
       <<"network", {"network"}>>,
       <<"model-provider", {"openrouter"}>> >>

Words == {"captcha", "2fa", "login", "human takeover", "access challenge",
          "policy violation", "timeout", "rate limit", "network", "openrouter"}

ReasonOf == [category \in {"human-intervention-captcha",
                           "human-intervention-auth-challenge",
                           "human-intervention-authentication"} |->
    CASE category = "human-intervention-captcha" -> "captcha"
      [] category = "human-intervention-auth-challenge" -> "auth-challenge"
      [] OTHER -> "authentication"]

Hits(words) == {i \in DOMAIN Precedence : Precedence[i][2] \cap words # {}}

(* classify_runtime_error, for a text that is there.                       *)
Classify(words) ==
    IF Hits(words) = {} THEN "runtime" ELSE Precedence[Min(Hits(words))][1]

Categories == {Precedence[i][1] : i \in DOMAIN Precedence}
                  \cup {"partial-errors", "runtime"}
Reasons == {"captcha", "auth-challenge", "authentication", "access-challenge"}

ASSUME UnknownAssumption ==
    /\ Unknown \notin Categories \cup Reasons
    /\ \A words \in SUBSET Words : words # Unknown

NoUsage == [tokens |-> Unknown, cost |-> Unknown]

(* Mutant: what was not reported counts as nothing spent.                  *)
UsageOrZero(route, usage) ==
    IF route = "browser-use"
    THEN [tokens |-> IF usage.tokens = Unknown THEN 0 ELSE usage.tokens,
          cost |-> IF usage.cost = Unknown THEN 0 ELSE usage.cost]
    ELSE [tokens |-> 0, cost |-> 0]

(* Playwright costs nothing; what Browser Use costs is known only if its   *)
(* usage report says so.                                                   *)
UsageOf(route, usage) ==
    IF route = "playwright" THEN [tokens |-> 0, cost |-> 0]
    ELSE IF route = "browser-use" THEN usage
    ELSE NoUsage

(* build_runtime_metrics: result is what the worker is about to store,     *)
(* error the text of the exception it caught, if it caught one.            *)
Build(route, result, duration, succeeded, error) ==
    LET failures == IF route \in {"playwright", "browser-use"}
                    THEN result.failures ELSE 0
        category == IF error # Unknown THEN Classify(error)
                    ELSE IF ~succeeded THEN Classify(result.text)
                    ELSE IF failures > 0 THEN "partial-errors"
                    ELSE Unknown
        inferred == result.reason = Unknown /\ category \in DOMAIN ReasonOf
        usage == UsageOf(route, result.usage)
    IN  [route |-> route, succeeded |-> succeeded, duration |-> duration,
         failures |-> failures, category |-> category,
         human |-> result.human \/ inferred,
         reason |-> IF inferred THEN ReasonOf[category] ELSE result.reason,
         tokens |-> usage.tokens, cost |-> usage.cost]

-----------------------------------------------------------------------------
(* Aggregation *)

(* Mutant: the rank is rounded down.                                       *)
RoundedDown(n) == Max({0, Min({n - 1, (95 * n) \div 100 - 1})})

(* The index that _percentile_95 takes from the n sorted values.           *)
PercentileIndex(n) == Max({0, Min({n - 1, (95 * n + 99) \div 100 - 1})})

(* How many of the values are at most v.                                   *)
AtMost(values, v) == Cardinality({i \in DOMAIN values : values[i] <= v})

(* The value at an index, from 0, of the sorted values.                    *)
SortedAt(values, index) ==
    Min({v \in {values[i] : i \in DOMAIN values} : AtMost(values, v) > index})

Percentile95(values) ==
    IF DOMAIN values = {} THEN Unknown
    ELSE SortedAt(values, PercentileIndex(Cardinality(DOMAIN values)))

(* _aggregate, over the metrics of the runs listed.                        *)
Aggregate(records, listed) ==
    LET priced == {i \in listed : records[i].cost # Unknown}
        named == {records[i].category : i \in listed} \ {Unknown}
    IN  [runs |-> Cardinality(listed),
         successes |-> Cardinality({i \in listed : records[i].succeeded}),
         interventions |-> Cardinality({i \in listed : records[i].human}),
         p95 |-> Percentile95([i \in listed |-> records[i].duration]),
         cost |-> SumFunction([i \in priced |-> records[i].cost]),
         priced |-> Cardinality(priced),
         unpriced |-> Cardinality(listed) - Cardinality(priced),
         categories |-> [c \in named |->
                            Cardinality({i \in listed : records[i].category = c})]]

(* RuntimeMetricsReader.list: of the latest runs, up to the limit, those   *)
(* that have metrics and the route asked for, if one is.                   *)
ListOf(records, route, limit) ==
    {i \in 1..Min({limit, Len(records)}) :
        records[i] # NoMetrics /\ route \in {Unknown, records[i].route}}

(* RuntimeMetricsReader.summary.                                           *)
Summary(records, route, limit) ==
    LET listed == ListOf(records, route, limit)
    IN  [overall |-> Aggregate(records, listed),
         by_route |-> [r \in {"playwright", "browser-use"} |->
                        Aggregate(records, {i \in listed : records[i].route = r})]]

=============================================================================

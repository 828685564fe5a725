----------------------- MODULE ObservedRuntimeProofs -----------------------
(* Proofs about the agentic runtime and its metrics, for any library, any  *)
(* domains, any number of steps and any history of runs.                   *)
EXTENDS ObservedRuntime, FiniteSetTheorems, TLAPS

-----------------------------------------------------------------------------
(* The adapter *)

(* The adapter is type correct, whatever the library does.                 *)
THEOREM AdapterTypeCorrect == AdapterSpec => []AdapterTypeOK
<1>1. AdapterInit => AdapterTypeOK
    <2> SUFFICES ASSUME AdapterInit PROVE AdapterTypeOK
        OBVIOUS
    <2>1. steps \in 0..MaxSteps
        BY AdapterParameters DEF AdapterInit
    <2>2. registered \subseteq Upstream /\ errors \in BOOLEAN
        BY DEF AdapterInit
    <2> QED
        BY <2>1, <2>2 DEF AdapterInit, AdapterTypeOK
<1>2. AdapterTypeOK /\ [AdapterStep]_adapterVars => AdapterTypeOK'
    <2> SUFFICES ASSUME AdapterTypeOK, [AdapterStep]_adapterVars
                 PROVE  AdapterTypeOK'
        OBVIOUS
    <2> USE DEF AdapterTypeOK
    <2>1. ASSUME NEW ready \in BOOLEAN, Preflight(ready) PROVE AdapterTypeOK'
        BY <2>1 DEF Preflight
    <2>2. ASSUME NEW action \in Upstream, NEW url \in Hosts \cup {Blank},
                 NEW resolves \in BOOLEAN, AgentStep(action, url, resolves)
          PROVE  AdapterTypeOK'
        <3>1. steps' \in 0..MaxSteps
            BY <2>2, AdapterParameters DEF AgentStep
        <3>2. ran' \subseteq Upstream /\ went' \subseteq Hosts \cup {Blank}
            BY <2>2 DEF AgentStep
        <3>3. visited' \subseteq Hosts
            BY <2>2 DEF AgentStep, Note
        <3>4. pc' \in {"running", "raised"} /\ errors' \in BOOLEAN
            BY <2>2 DEF AgentStep
        <3> QED
            BY <2>2, <3>1, <3>2, <3>3, <3>4 DEF AgentStep
    <2>3. CASE AgentErrs \/ AgentRaises \/ AgentReturns
        BY <2>3 DEF AgentErrs, AgentRaises, AgentReturns
    <2>4. ASSUME NEW resolves \in BOOLEAN, Verify(resolves) PROVE AdapterTypeOK'
        BY <2>4 DEF Verify
    <2>5. ASSUME NEW successful \in {"true", "false", "none"},
                 NEW works \in BOOLEAN, Write(successful, works)
          PROVE  AdapterTypeOK'
        BY <2>5 DEF Write
    <2>6. CASE UNCHANGED adapterVars
        BY <2>6 DEF adapterVars
    <2> QED
        BY <2>1, <2>2, <2>3, <2>4, <2>5, <2>6 DEF AdapterStep
<1> QED
    BY <1>1, <1>2, PTL DEF AdapterSpec

LEMMA AdapterStarts == ObservedInit => AdapterInv
BY AdapterParameters DEF ObservedInit, AdapterInit, AdapterInv

(* A step of the adapter keeps what has been checked so far.               *)
LEMMA AdapterStepKeeps == AdapterInv /\ AdapterStep => AdapterInv'
<1> SUFFICES ASSUME AdapterInv, AdapterStep PROVE AdapterInv'
    OBVIOUS
<1> USE DEF AdapterInv
<1>1. ASSUME NEW ready \in BOOLEAN, Preflight(ready) PROVE AdapterInv'
    BY <1>1 DEF Preflight
<1>2. ASSUME NEW action \in Upstream, NEW url \in Hosts \cup {Blank},
             NEW resolves \in BOOLEAN, AgentStep(action, url, resolves)
      PROVE  AdapterInv'
    <2>1. CASE url = Blank
        BY <1>2, <2>1 DEF AgentStep, Note
    <2>2. CASE url # Blank /\ url \in Approved /\ resolves
        BY <1>2, <2>2 DEF AgentStep, Note
    <2>3. CASE url # Blank /\ ~(url \in Approved /\ resolves)
        BY <1>2, <2>3 DEF AgentStep
    <2> QED
        BY <2>1, <2>2, <2>3
<1>3. CASE AgentErrs
    BY <1>3 DEF AgentErrs
<1>4. CASE AgentRaises
    BY <1>4 DEF AgentRaises
<1>5. CASE AgentReturns
    BY <1>5 DEF AgentReturns
<1>6. ASSUME NEW resolves \in BOOLEAN, Verify(resolves) PROVE AdapterInv'
    BY <1>6 DEF Verify
<1>7. ASSUME NEW successful \in {"true", "false", "none"}, NEW works \in BOOLEAN,
             Write(successful, works)
      PROVE  AdapterInv'
    BY <1>7 DEF Write
<1> QED
    BY <1>1, <1>2, <1>3, <1>4, <1>5, <1>6, <1>7 DEF AdapterStep

LEMMA AdapterInvariance == ObservedSpec => []AdapterInv
<1>1. ObservedInit => AdapterInv
    BY AdapterStarts
<1>2. AdapterInv /\ [ObservedNext]_observedVars => AdapterInv'
    <2> SUFFICES ASSUME AdapterInv, [ObservedNext]_observedVars
                 PROVE  AdapterInv'
        OBVIOUS
    <2>1. CASE AdapterStep
        BY <2>1, AdapterStepKeeps
    <2>2. CASE LeaveAdapter
        BY <2>2 DEF LeaveAdapter, AdapterInv
    <2>3. CASE UNCHANGED observedVars
        BY <2>3 DEF observedVars, adapterVars, AdapterInv
    <2>4. ASSUME NEW judged, NEW said, NEW erred, NEW usage, NEW duration,
                 Measure(judged, said, erred, usage, duration)
          PROVE  AdapterInv'
        BY <2>4 DEF Measure, Store, AdapterInv
    <2>5. ASSUME NEW message, NEW duration, MeasureFailure(message, duration)
          PROVE  AdapterInv'
        BY <2>5 DEF MeasureFailure, Store, AdapterInv
    <2> QED
        BY <2>1, <2>2, <2>3, <2>4, <2>5 DEF ObservedNext
<1> QED
    BY <1>1, <1>2, PTL DEF ObservedSpec

(* A summary is only returned of a run that kept to the allowlist and to   *)
(* the approved pages.                                                     *)
THEOREM AdapterFailsClosed == ObservedSpec => []OnlyReadOnlyRunsReturn
<1>1. AdapterInv => OnlyReadOnlyRunsReturn
    BY DEF AdapterInv, OnlyReadOnlyRunsReturn, WithinContract
<1> QED
    BY <1>1, AdapterInvariance, PTL

(* A completed run has no page that was not checked while the agent was on *)
(* it.                                                                     *)
THEOREM EvidenceOfPages == ObservedSpec => []EvidenceIsClean
<1>1. AdapterInv => EvidenceIsClean
    BY DEF AdapterInv, EvidenceIsClean
<1> QED
    BY <1>1, AdapterInvariance, PTL

-----------------------------------------------------------------------------
(* The metrics *)

LEMMA LeastOfPrecedence ==
    ASSUME NEW S \in SUBSET (1..8), NEW i \in S
    PROVE  Min(S) \in S /\ Min(S) <= i
<1>1. \E x \in S : \A y \in S : x <= y
    <2>1. CASE 1 \in S
        BY <2>1
    <2>2. CASE 1 \notin S /\ 2 \in S
        BY <2>2
    <2>3. CASE {1, 2} \cap S = {} /\ 3 \in S
        BY <2>3
    <2>4. CASE {1, 2, 3} \cap S = {} /\ 4 \in S
        BY <2>4
    <2>5. CASE {1, 2, 3, 4} \cap S = {} /\ 5 \in S
        BY <2>5
    <2>6. CASE {1, 2, 3, 4, 5} \cap S = {} /\ 6 \in S
        BY <2>6
    <2>7. CASE {1, 2, 3, 4, 5, 6} \cap S = {}
        BY <2>7
    <2> QED
        BY <2>1, <2>2, <2>3, <2>4, <2>5, <2>6, <2>7
<1> QED
    BY <1>1 DEF Min

(* Every text has a category, and it is one of a person's exactly when the *)
(* text mentions a challenge that the classification knows, whatever else  *)
(* it mentions.                                                            *)
LEMMA ClassifyPutsChallengesFirst ==
    ASSUME NEW words
    PROVE  /\ Classify(words) \in Categories \ {"partial-errors"}
           /\ words \cap {"captcha", "2fa", "login", "human takeover"} # {} <=>
                  Classify(words) \in DOMAIN ReasonOf
<1>1. /\ DOMAIN Precedence = 1..8
      /\ Precedence[1][1] = "human-intervention-captcha"
      /\ Precedence[2][1] = "human-intervention-auth-challenge"
      /\ Precedence[3][1] = "human-intervention-authentication"
      /\ Precedence[4][1] = "policy"
      /\ Precedence[5][1] = "timeout"
      /\ Precedence[6][1] = "provider-rate-limit"
      /\ Precedence[7][1] = "network"
      /\ Precedence[8][1] = "model-provider"
    BY DEF Precedence
<1>2. /\ Precedence[1][2] = {"captcha"}
      /\ Precedence[2][2] = {"2fa"}
      /\ Precedence[3][2] = {"login", "human takeover"}
    BY DEF Precedence
<1>3. Hits(words) \in SUBSET (1..8)
    BY <1>1 DEF Hits
<1>4. \A j \in {1, 2, 3} : j \in Hits(words) <=> Precedence[j][2] \cap words # {}
    BY <1>1 DEF Hits
<1>5. \A i \in 1..8 : Precedence[i][1] \in Categories \ {"partial-errors"}
    <2>1. \A i \in 1..8 : Precedence[i][1] \in Categories
        BY <1>1 DEF Categories
    <2>2. \A i \in 1..8 : Precedence[i][1] # "partial-errors"
        BY <1>1
    <2> QED
        BY <2>1, <2>2
<1>6. DOMAIN ReasonOf = {"human-intervention-captcha",
                         "human-intervention-auth-challenge",
                         "human-intervention-authentication"}
    BY DEF ReasonOf
<1>7. words \cap {"captcha", "2fa", "login", "human takeover"} # {}
        <=> \E j \in {1, 2, 3} : j \in Hits(words)
    BY <1>2, <1>4
<1>8. CASE Hits(words) = {}
    <2>1. Classify(words) = "runtime"
        BY <1>8 DEF Classify
    <2>2. "runtime" \in Categories \ {"partial-errors"}
        BY DEF Categories
    <2>3. "runtime" \notin DOMAIN ReasonOf
        BY <1>6
    <2> QED
        BY <1>7, <1>8, <2>1, <2>2, <2>3
<1>9. CASE Hits(words) # {}
    <2> DEFINE least == Min(Hits(words))
    <2>1. PICK i \in Hits(words) : TRUE
        BY <1>9
    <2>2. least \in Hits(words) /\ least \in 1..8
        BY <1>3, <2>1, LeastOfPrecedence
    <2>3. Classify(words) = Precedence[least][1]
        BY <1>9 DEF Classify
    <2>4. \A j \in Hits(words) : least <= j
        BY <1>3, LeastOfPrecedence
    <2> HIDE DEF least
    <2>5. Classify(words) \in Categories \ {"partial-errors"}
        BY <1>5, <2>2, <2>3
    <2>6. least \in {1, 2, 3} <=> \E j \in {1, 2, 3} : j \in Hits(words)
        BY <2>2, <2>4
    <2>7. least \in {1, 2, 3} <=> Precedence[least][1] \in DOMAIN ReasonOf
        <3>1. CASE least \in {1, 2, 3}
            BY <1>1, <1>6, <3>1
        <3>2. CASE least \in 4..8
            BY <1>1, <1>6, <3>2
        <3> QED
            BY <2>2, <3>1, <3>2
    <2> QED
        BY <1>7, <2>3, <2>5, <2>6, <2>7
<1> QED
    BY <1>8, <1>9

LEMMA LatestFirst ==
    ASSUME NEW metrics, NEW n \in Nat
    PROVE  (<<metrics>> \o Earlier(n))[1] = metrics
<1> DEFINE S == {metrics} \cup {Earlier(n)[i] : i \in 1..n}
<1>1. <<metrics>> \in Seq(S)
    OBVIOUS
<1>2. Earlier(n) \in Seq(S)
    <2>1. Earlier(n) = [i \in 1..n |-> Earlier(n)[i]]
        BY DEF Earlier
    <2> HIDE DEF S
    <2>2. \A i \in 1..n : Earlier(n)[i] \in S
        BY DEF S
    <2>3. Earlier(n) \in [1..n -> S]
        BY <2>1, <2>2
    <2> QED
        BY <2>3
<1> QED
    BY <1>1, <1>2

(* Whatever is stored of an attempt, its reason is one a person must deal  *)
(* with exactly when it is marked for a person, and a challenge that the   *)
(* texts mention marks it.                                                 *)
LEMMA ReasonsOfMetrics ==
    ASSUME NEW category, NEW reason
    PROVE  reason # Unknown \/ (reason = Unknown /\ category \in DOMAIN ReasonOf)
             <=> (IF reason = Unknown /\ category \in DOMAIN ReasonOf
                  THEN ReasonOf[category] ELSE reason) # Unknown
<1>1. ASSUME category \in DOMAIN ReasonOf PROVE ReasonOf[category] # Unknown
    <2>1. ReasonOf[category] \in Reasons
        BY <1>1 DEF ReasonOf, Reasons
    <2> QED
        BY <2>1, UnknownAssumption
<1> QED
    BY <1>1

(* Only a step of Store leaves evidence, and it puts its metrics first.    *)
LEMMA Stored ==
    ASSUME NEW entry, NEW metrics, Store(entry, metrics)
    PROVE  /\ pc' = "measured" /\ evidence' = entry /\ records'[1] = metrics
           /\ UNCHANGED <<errors, status>>
<1>1. PICK n \in Windows : records' = <<metrics>> \o Earlier(n)
    BY DEF Store
<1>2. n \in Nat
    BY WindowsAssumption
<1> QED
    BY <1>1, <1>2, LatestFirst DEF Store

LEMMA ClassifiedError ==
    ASSUME NEW words
    PROVE  Classify(words) \notin {Unknown, "partial-errors"}
<1>1. Classify(words) \in Categories \ {"partial-errors"}
    BY ClassifyPutsChallengesFirst
<1> QED
    BY <1>1, UnknownAssumption

(* What the adapter returned is told truly.                                *)
LEMMA MetricsOfSummary ==
    ASSUME NEW judged \in BOOLEAN, NEW said \in Texts, NEW erred \in Texts,
           NEW usage \in Usages, NEW duration \in Durations,
           errors \in BOOLEAN, Measure(judged, said, erred, usage, duration)
    PROVE  MetricsInv'
<1> DEFINE text == said \cup erred
           reason == ReasonSeen(judged, text)
           result == [failures |-> IF errors THEN 1 ELSE 0, text |-> erred,
                      human |-> reason # Unknown, reason |-> reason,
                      usage |-> usage]
           done == status # "failed"
           entry == [raised |-> FALSE, seen |-> text, challenged |-> judged,
                     usage |-> usage]
           m == Build("browser-use", result, duration, done, Unknown)
           category == IF ~done THEN Classify(erred)
                       ELSE IF errors THEN "partial-errors" ELSE Unknown
           inferred == reason = Unknown /\ category \in DOMAIN ReasonOf
<1>1. Store(entry, m)
    BY DEF Measure
<1>2. /\ m.succeeded <=> done
      /\ m.category = category
      /\ m.human <=> reason # Unknown \/ inferred
      /\ m.reason = (IF inferred THEN ReasonOf[category] ELSE reason)
      /\ m.tokens = usage.tokens /\ m.cost = usage.cost
    <2> HIDE DEF reason
    <2>1. /\ result.human <=> reason # Unknown
          /\ result.reason = reason /\ result.text = erred
          /\ result.usage = usage
          /\ result.failures > 0 <=> errors
        <3>1. result.human <=> reason # Unknown
            OBVIOUS
        <3>2. /\ result.reason = reason /\ result.text = erred
              /\ result.usage = usage
            OBVIOUS
        <3>3. result.failures = (IF errors THEN 1 ELSE 0)
            OBVIOUS
        <3>4. result.failures > 0 <=> errors
            <4> HIDE DEF result
            <4> QED
                BY <3>3
        <3> QED
            BY <3>1, <3>2, <3>4
    <2> HIDE DEF result, done
    <2>2. m.category = category
        BY <2>1 DEF Build
    <2>3. /\ m.tokens = usage.tokens /\ m.cost = usage.cost
          /\ m.succeeded <=> done
        BY <2>1 DEF Build, UsageOf
    <2>4. /\ m.human <=> result.human \/ inferred
          /\ m.reason = (IF inferred THEN ReasonOf[category] ELSE reason)
        BY <2>1 DEF Build
    <2> QED
        BY <2>1, <2>2, <2>3, <2>4
<1>3. [tokens |-> usage.tokens, cost |-> usage.cost] = usage
    BY UsagesAssumption
<1>4. judged \/ text \cap Challenges # {} <=> reason # Unknown
    <2> HIDE DEF text
    <2> QED
        BY UnknownAssumption DEF ReasonSeen, Reasons, Challenges
<1>5. /\ category = Unknown <=> done /\ ~errors
      /\ category = "partial-errors" <=> done /\ errors
    <2>1. "partial-errors" # Unknown
        BY UnknownAssumption DEF Categories
    <2> QED
        BY <2>1, ClassifiedError
<1>6. m.human <=> m.reason # Unknown
    <2> HIDE DEF m, reason, category
    <2> QED
        BY <1>2, ReasonsOfMetrics
<1>7. evidence' = entry /\ records'[1] = m /\ pc' = "measured"
      /\ UNCHANGED <<errors, status>>
    BY <1>1, Stored
<1>8. /\ ~entry.raised /\ entry.seen = text /\ entry.challenged = judged
      /\ entry.usage = usage
    OBVIOUS
<1>9. inferred => erred \cap {"captcha", "2fa", "login", "human takeover"} # {}
    <2>1. DOMAIN ReasonOf \subseteq Categories \ {"partial-errors"}
        <3>1. /\ DOMAIN Precedence = 1..8
              /\ Precedence[1][1] = "human-intervention-captcha"
              /\ Precedence[2][1] = "human-intervention-auth-challenge"
              /\ Precedence[3][1] = "human-intervention-authentication"
            BY DEF Precedence
        <3>2. {Precedence[1][1], Precedence[2][1], Precedence[3][1]}
                \subseteq Categories
            BY <3>1 DEF Categories
        <3>3. DOMAIN ReasonOf = {Precedence[1][1], Precedence[2][1],
                                 Precedence[3][1]}
            BY <3>1 DEF ReasonOf
        <3>4. "partial-errors" \notin DOMAIN ReasonOf
            BY DEF ReasonOf
        <3> QED
            BY <3>2, <3>3, <3>4
    <2>2. Unknown \notin DOMAIN ReasonOf /\ "partial-errors" \notin DOMAIN ReasonOf
        BY <2>1, UnknownAssumption
    <2>3. inferred => category \in DOMAIN ReasonOf /\ category = Classify(erred)
        <3> HIDE DEF reason
        <3> QED
            BY <2>2
    <2> HIDE DEF category, reason, inferred
    <2> QED
        BY <2>3, ClassifyPutsChallengesFirst
<1>10. m.human <=> judged \/ text \cap Challenges # {}
    <2>1. inferred => text \cap Challenges # {}
        BY <1>9 DEF Challenges
    <2> HIDE DEF m, inferred, reason, text
    <2> QED
        BY <1>2, <1>4, <2>1
<1>11. text \cap Challenges # {} <=>
         text \cap (Challenges \ {"access challenge"}) # {}
           \/ "access challenge" \in text
    BY DEF Challenges
<1> HIDE DEF entry, m, category, inferred, reason, text
<1> QED
    BY <1>2, <1>3, <1>5, <1>6, <1>7, <1>8, <1>10, <1>11
    DEF MetricsInv, MetricsMatchEvidence

(* So is the exception it raised.                                          *)
LEMMA MetricsOfException ==
    ASSUME NEW message \in SUBSET Words, NEW duration \in Durations,
           MeasureFailure(message, duration)
    PROVE  MetricsInv'
<1> DEFINE result == [failures |-> 0, text |-> {}, human |-> FALSE,
                      reason |-> Unknown, usage |-> NoUsage]
           entry == [raised |-> TRUE, seen |-> message, challenged |-> FALSE,
                     usage |-> NoUsage]
           m == Build("browser-use", result, duration, FALSE, message)
           category == Classify(message)
           inferred == Unknown = Unknown /\ category \in DOMAIN ReasonOf
<1>1. Store(entry, m)
    BY DEF MeasureFailure
<1>2. message # Unknown
    BY UnknownAssumption
<1>3. /\ m.succeeded = FALSE /\ m.category = category
      /\ m.human = inferred
      /\ m.reason = (IF inferred THEN ReasonOf[category] ELSE Unknown)
      /\ m.tokens = Unknown /\ m.cost = Unknown
    BY <1>2 DEF Build, UsageOf, NoUsage
<1>4. m.human <=> m.reason # Unknown
    BY <1>3, ReasonsOfMetrics
<1>5. m.human <=> message \cap (Challenges \ {"access challenge"}) # {}
    <2>1. Challenges \ {"access challenge"}
            = {"captcha", "2fa", "login", "human takeover"}
        BY DEF Challenges
    <2> QED
        BY <1>3, <2>1, ClassifyPutsChallengesFirst
<1>6. category \notin {Unknown, "partial-errors"}
    BY ClassifiedError
<1>7. evidence' = entry /\ records'[1] = m /\ pc' = "measured"
    BY <1>1, Stored
<1>8. /\ entry.raised /\ entry.seen = message /\ ~entry.challenged
      /\ entry.usage = [tokens |-> Unknown, cost |-> Unknown]
    BY DEF NoUsage
<1> HIDE DEF entry, m, category, inferred
<1> QED
    BY <1>3, <1>4, <1>5, <1>6, <1>7, <1>8 DEF MetricsInv, MetricsMatchEvidence

LEMMA ErrorsTyped == ObservedSpec => [](errors \in BOOLEAN)
<1>1. ObservedInit => errors \in BOOLEAN
    BY DEF ObservedInit, AdapterInit
<1>2. errors \in BOOLEAN /\ [ObservedNext]_observedVars => (errors \in BOOLEAN)'
    BY DEF ObservedNext, AdapterStep, Preflight, AgentStep, AgentErrs,
           AgentRaises, AgentReturns, Verify, Write, LeaveAdapter, Measure,
           MeasureFailure, Store, observedVars, adapterVars
<1> QED
    BY <1>1, <1>2, PTL DEF ObservedSpec

(* However an attempt ends, its metrics say what its evidence says.        *)
THEOREM MetricsTellTheTruth == ObservedSpec => []MetricsMatchEvidence
<1>1. ObservedInit => MetricsInv
    BY DEF ObservedInit, MetricsInv
<1>2. MetricsInv /\ errors \in BOOLEAN /\ [ObservedNext]_observedVars
          => MetricsInv'
    <2> SUFFICES ASSUME MetricsInv, errors \in BOOLEAN,
                        [ObservedNext]_observedVars
                 PROVE  MetricsInv'
        OBVIOUS
    <2>1. CASE AdapterStep /\ UNCHANGED <<evidence, records>>
        <3>1. pc # "measured"
            BY <2>1 DEF AdapterStep, Preflight, AgentStep, AgentErrs,
                        AgentRaises, AgentReturns, Verify, Write
        <3> QED
            BY <2>1, <3>1 DEF MetricsInv
    <2>2. CASE LeaveAdapter
        BY <2>2 DEF LeaveAdapter, MetricsInv
    <2>3. ASSUME NEW duration \in Durations, NEW judged \in BOOLEAN,
                 NEW said \in Texts, NEW erred \in Texts, NEW usage \in Usages,
                 Measure(judged, said, erred, usage, duration)
          PROVE  MetricsInv'
        BY <2>3, MetricsOfSummary
    <2>4. ASSUME NEW duration \in Durations, NEW first \in Texts,
                 NEW second \in Texts,
                 MeasureFailure(first \cup second, duration)
          PROVE  MetricsInv'
        <3>1. first \cup second \in SUBSET Words
            BY DEF Texts
        <3> QED
            BY <2>4, <3>1, MetricsOfException
    <2>5. CASE UNCHANGED observedVars
        BY <2>5 DEF observedVars, adapterVars, MetricsInv, MetricsMatchEvidence
    <2> QED
        BY <2>1, <2>2, <2>3, <2>4, <2>5 DEF ObservedNext
<1>3. MetricsInv => MetricsMatchEvidence
    BY DEF MetricsInv, MetricsMatchEvidence
<1> QED
    BY <1>1, <1>2, <1>3, ErrorsTyped, PTL DEF ObservedSpec

-----------------------------------------------------------------------------
(* The p95 *)

LEMMA SmallerAndGreater ==
    ASSUME NEW a \in Int, NEW b \in Int
    PROVE  /\ Min({a, b}) = IF a <= b THEN a ELSE b
           /\ Max({a, b}) = IF a >= b THEN a ELSE b
BY DEF Min, Max

LEMMA QuotientByHundred ==
    ASSUME NEW m \in Int
    PROVE  /\ m \div 100 \in Int
           /\ 100 * (m \div 100) <= m
           /\ m < 100 * (m \div 100) + 100
BY SMT

(* The index is that of the least rank that reaches 95 in a hundred.       *)
THEOREM PercentileIndexIsNearestRank ==
    ASSUME NEW n \in Nat \ {0}
    PROVE  /\ PercentileIndex(n) \in 0..(n - 1)
           /\ 100 * (PercentileIndex(n) + 1) >= 95 * n
           /\ \A j \in Nat : 100 * j >= 95 * n => PercentileIndex(n) < j
<1> DEFINE q == (95 * n + 99) \div 100
<1>1. q \in Int /\ 100 * q <= 95 * n + 99 /\ 95 * n + 99 < 100 * q + 100
    <2>1. 95 * n + 99 \in Int
        OBVIOUS
    <2> QED
        BY <2>1, QuotientByHundred
<1>2. q >= 1 /\ q <= n
    BY <1>1
<1>3. PercentileIndex(n) = q - 1
    <2>1. Min({n - 1, q - 1}) = q - 1
        BY <1>1, <1>2, SmallerAndGreater
    <2>2. Max({0, q - 1}) = q - 1
        BY <1>1, <1>2, SmallerAndGreater
    <2> QED
        BY <2>1, <2>2 DEF PercentileIndex
<1> QED
    BY <1>1, <1>2, <1>3

LEMMA AtMostBounded ==
    ASSUME NEW D, IsFiniteSet(D), NEW values \in [D -> Int], NEW v \in Int
    PROVE  AtMost(values, v) \in 0..Cardinality(D)
<1>1. {i \in DOMAIN values : values[i] <= v} \subseteq D
    OBVIOUS
<1> QED
    BY <1>1, FS_Subset, FS_CardinalityType DEF AtMost

(* Whatever the durations, the one found at that index of their sorted     *)
(* list is the least that at least 95 in a hundred do not exceed.          *)
THEOREM PercentileOfDurations ==
    ASSUME NEW D, IsFiniteSet(D), D # {},
           NEW values \in [D -> Int], NEW v \in Int,
           AtMost(values, v) > PercentileIndex(Cardinality(D)),
           \A i \in D : AtMost(values, values[i]) > PercentileIndex(Cardinality(D))
                            => v <= values[i]
    PROVE  NearestRank(values, v)
<1> DEFINE n == Cardinality(D)
<1>1. n \in Nat \ {0}
    BY FS_CardinalityType, FS_EmptySet
<1>2. /\ PercentileIndex(n) \in 0..(n - 1)
      /\ 100 * (PercentileIndex(n) + 1) >= 95 * n
      /\ \A j \in Nat : 100 * j >= 95 * n => PercentileIndex(n) < j
    BY <1>1, PercentileIndexIsNearestRank
<1>3. 100 * AtMost(values, v) >= 95 * n
    <2>1. AtMost(values, v) \in Nat
        BY AtMostBounded
    <2> QED
        BY <1>1, <1>2, <2>1
<1>4. ASSUME NEW i \in D, values[i] < v
      PROVE  ~(100 * AtMost(values, values[i]) >= 95 * n)
    <2>1. values[i] \in Int
        OBVIOUS
    <2>2. AtMost(values, values[i]) \in Nat
        BY <2>1, AtMostBounded
    <2> QED
        BY <1>2, <1>4, <2>1, <2>2
<1>5. DOMAIN values = D
    OBVIOUS
<1> HIDE DEF n
<1> QED
    BY <1>3, <1>4, <1>5 DEF NearestRank, n

-----------------------------------------------------------------------------
(* Induction, and sums *)

(* The library states induction for an operator; here it is for a set,     *)
(* from the well-foundedness that the library proves of the relations.     *)
LEMMA LeastNumber ==
    ASSUME NEW S, S \subseteq Nat, S # {}
    PROVE  \E x \in S : \A y \in S : x <= y
<1> DEFINE Less == {pair \in Nat \X Nat : pair[1] < pair[2]}
<1>1. IsWellFoundedOn(Less, Nat)
    BY NatLessThanWellFounded DEF OpToRel
<1> HIDE DEF Less
<1>2. PICK x \in S : \A y \in S : <<y, x>> \notin Less
    BY <1>1, WFMin
<1>3. \A y \in S : ~(y < x)
    BY <1>2 DEF Less
<1> QED
    BY <1>3

LEMMA NumbersReached ==
    ASSUME NEW S, 0 \in S, \A n \in Nat : n \in S => n + 1 \in S
    PROVE  Nat \subseteq S
<1> SUFFICES ASSUME Nat \ S # {} PROVE FALSE
    OBVIOUS
<1>1. PICK n \in Nat \ S : \A m \in Nat \ S : n <= m
    BY LeastNumber
<1>2. n - 1 \in Nat /\ n - 1 \in S
    BY <1>1
<1> QED
    BY <1>1, <1>2

LEMMA SubsetsReached ==
    ASSUME NEW D, IsFiniteSet(D), NEW S,
           \A s \in SUBSET D : (\A r \in SUBSET s : r # s => r \in S) => s \in S
    PROVE  SUBSET D \subseteq S
<1> DEFINE Missed == (SUBSET D) \ S
           Within == StrictSubsetOrdering(D)
           Finite == FiniteSubsetsOf(D)
<1> SUFFICES ASSUME Missed # {} PROVE FALSE
    OBVIOUS
<1>1. Missed \subseteq Finite
    BY FS_FiniteSubsetsOfFinite
<1>2. IsWellFoundedOn(Within, Finite)
    BY FS_StrictSubsetOrderingWellFounded
<1>3. PICK s \in Missed : \A r \in Missed : <<r, s>> \notin Within
    <2> HIDE DEF Missed, Within, Finite
    <2> QED
        BY <1>1, <1>2, WFMin
<1>4. ASSUME NEW r \in SUBSET s, r # s PROVE r \in S
    <2>1. <<r, s>> \in Within
        BY <1>4 DEF StrictSubsetOrdering
    <2> QED
        BY <1>3, <2>1
<1> QED
    BY <1>4

(* The definition of a sum by the community modules, unfolded: it takes    *)
(* its elements in an order that nobody knows.                             *)
AnyOf(s) == CHOOSE x \in s : TRUE

IsSum(f, g) ==
    g = [s \in SUBSET DOMAIN f |->
            IF s = {} THEN 0 ELSE f[AnyOf(s)] + g[s \ {AnyOf(s)}]]

SumsOf(f) == CHOOSE g : IsSum(f, g)

LEMMA SumIsOneOf ==
    ASSUME NEW f
    PROVE  SumFunction(f) = SumsOf(f)[DOMAIN f]
BY DEF SumFunction, SumFunctionOnSet, FoldFunctionOnSet, MapThenFoldSet,
       SumsOf, IsSum, AnyOf

(* What the definition of a sum says of a part of its domain.              *)
Unfolded(f, g, s) ==
    g[s] = IF s = {} THEN 0 ELSE f[AnyOf(s)] + g[s \ {AnyOf(s)}]

LEMMA AnyIsIn == ASSUME NEW s, s # {} PROVE AnyOf(s) \in s
BY DEF AnyOf

(* The sums of the parts of a finite set exist.                            *)
LEMMA SumExists ==
    ASSUME NEW D, IsFiniteSet(D), NEW f \in [D -> Nat]
    PROVE  \E g : IsSum(f, g)
<1> DEFINE UpTo(n) == {s \in SUBSET D : Cardinality(s) <= n}
           Reached == {n \in Nat : \E g \in [SUBSET D -> Nat] :
                                    \A s \in UpTo(n) : Unfolded(f, g, s)}
<1>0. \A s \in SUBSET D : IsFiniteSet(s) /\ Cardinality(s) \in Nat
    BY FS_Subset, FS_CardinalityType
<1>1. 0 \in Reached
    <2> DEFINE g == [s \in SUBSET D |-> 0]
    <2>1. \A s \in UpTo(0) : s = {}
        BY <1>0, FS_EmptySet
    <2>2. g \in [SUBSET D -> Nat] /\ \A s \in UpTo(0) : Unfolded(f, g, s)
        BY <2>1 DEF Unfolded
    <2> QED
        BY <2>2
<1>2. ASSUME NEW n \in Nat, n \in Reached PROVE n + 1 \in Reached
    <2>1. PICK g \in [SUBSET D -> Nat] : \A s \in UpTo(n) : Unfolded(f, g, s)
        BY <1>2
    <2> DEFINE h == [s \in SUBSET D |-> IF s = {} THEN 0
                                        ELSE f[AnyOf(s)] + g[s \ {AnyOf(s)}]]
    <2>2. h \in [SUBSET D -> Nat]
        <3>1. ASSUME NEW s \in SUBSET D, s # {}
              PROVE  f[AnyOf(s)] + g[s \ {AnyOf(s)}] \in Nat
            <4>1. AnyOf(s) \in D /\ s \ {AnyOf(s)} \in SUBSET D
                BY <3>1, AnyIsIn
            <4>2. f[AnyOf(s)] \in Nat /\ g[s \ {AnyOf(s)}] \in Nat
                BY <4>1
            <4> QED
                BY <4>2
        <3> QED
            BY <3>1
    <2>3. \A s \in UpTo(n) : h[s] = g[s]
        BY <2>1 DEF Unfolded
    <2>4. ASSUME NEW s \in UpTo(n + 1) PROVE Unfolded(f, h, s)
        <3>1. CASE s = {}
            BY <3>1 DEF Unfolded
        <3>2. CASE s # {}
            <4>1. AnyOf(s) \in s
                BY <3>2, AnyIsIn
            <4>2. Cardinality(s \ {AnyOf(s)}) = Cardinality(s) - 1
                BY <1>0, <4>1, FS_RemoveElement
            <4>3. s \ {AnyOf(s)} \in UpTo(n)
                BY <1>0, <4>2
            <4>4. h[s \ {AnyOf(s)}] = g[s \ {AnyOf(s)}]
                BY <2>3, <4>3
            <4>5. h[s] = f[AnyOf(s)] + g[s \ {AnyOf(s)}]
                BY <3>2
            <4> HIDE DEF h
            <4> QED
                BY <3>2, <4>4, <4>5 DEF Unfolded
        <3> QED
            BY <3>1, <3>2
    <2> HIDE DEF h, UpTo
    <2> QED
        BY <2>2, <2>4
<1>3. Cardinality(D) \in Reached
    <2> HIDE DEF Reached
    <2> QED
        BY <1>1, <1>2, FS_CardinalityType, NumbersReached
<1>4. PICK g \in [SUBSET D -> Nat] : \A s \in UpTo(Cardinality(D)) : Unfolded(f, g, s)
    BY <1>3
<1>5. \A s \in SUBSET D : Unfolded(f, g, s)
    BY <1>4, FS_Subset
<1>6. g = [s \in SUBSET D |->
              IF s = {} THEN 0 ELSE f[AnyOf(s)] + g[s \ {AnyOf(s)}]]
    BY <1>5 DEF Unfolded
<1> QED
    BY <1>6 DEF IsSum

(* The sum of the values of f on s.                                        *)
SumOver(f, s) == SumsOf(f)[s]

LEMMA SumUnfolds ==
    ASSUME NEW D, IsFiniteSet(D), NEW f \in [D -> Nat], NEW s \in SUBSET D
    PROVE  SumOver(f, s) =
              IF s = {} THEN 0 ELSE f[AnyOf(s)] + SumOver(f, s \ {AnyOf(s)})
<1>1. IsSum(f, SumsOf(f))
    BY SumExists DEF SumsOf
<1>2. DOMAIN f = D
    OBVIOUS
<1> QED
    BY <1>1, <1>2 DEF IsSum, SumOver


LEMMA SumTyped ==
    ASSUME NEW D, IsFiniteSet(D), NEW f \in [D -> Nat]
    PROVE  \A s \in SUBSET D : SumOver(f, s) \in Nat
<1> DEFINE Good == {s \in SUBSET D : SumOver(f, s) \in Nat}
<1>1. ASSUME NEW s \in SUBSET D, \A r \in SUBSET s : r # s => r \in Good
      PROVE  s \in Good
    <2>1. CASE s = {}
        <3>1. SumOver(f, s) = 0
            BY <2>1, SumUnfolds
        <3> QED
            BY <3>1
    <2>2. CASE s # {}
        <3>1. AnyOf(s) \in s
            BY <2>2, AnyIsIn
        <3>2. s \ {AnyOf(s)} \in Good /\ f[AnyOf(s)] \in Nat
            BY <1>1, <3>1
        <3>3. SumOver(f, s) = f[AnyOf(s)] + SumOver(f, s \ {AnyOf(s)})
            BY <2>2, SumUnfolds
        <3> QED
            BY <3>2, <3>3
    <2> QED
        BY <2>1, <2>2
<1>2. SUBSET D \subseteq Good
    <2> HIDE DEF Good
    <2> QED
        BY <1>1, SubsetsReached
<1> QED
    BY <1>2

(* A sum may be taken from any element.                                    *)
LEMMA SumFromAny ==
    ASSUME NEW D, IsFiniteSet(D), NEW f \in [D -> Nat], NEW t \in SUBSET D,
           NEW y \in t
    PROVE  SumOver(f, t) = f[y] + SumOver(f, t \ {y})
<1> DEFINE Good == {s \in SUBSET D : \A x \in s :
                        SumOver(f, s) = f[x] + SumOver(f, s \ {x})}
<1>1. ASSUME NEW s \in SUBSET D, \A r \in SUBSET s : r # s => r \in Good
      PROVE  s \in Good
    <2> SUFFICES ASSUME NEW x \in s
                 PROVE  SumOver(f, s) = f[x] + SumOver(f, s \ {x})
        OBVIOUS
    <2> DEFINE a == AnyOf(s)
    <2>1. a \in s
        BY AnyIsIn
    <2>2. SumOver(f, s) = f[a] + SumOver(f, s \ {a})
        BY SumUnfolds
    <2> HIDE DEF a
    <2>3. CASE x = a
        BY <2>2, <2>3
    <2>4. CASE x # a
        <3>1. s \ {a} \in Good /\ s \ {x} \in Good
            <4> HIDE DEF Good
            <4> QED
                BY <1>1, <2>1
        <3> DEFINE c == SumOver(f, (s \ {x}) \ {a})
        <3>2. SumOver(f, s \ {a}) = f[x] + c
            <4>1. SumOver(f, s \ {a}) = f[x] + SumOver(f, (s \ {a}) \ {x})
                BY <2>4, <3>1
            <4>2. (s \ {a}) \ {x} = (s \ {x}) \ {a}
                OBVIOUS
            <4> QED
                BY <4>1, <4>2
        <3>3. SumOver(f, s \ {x}) = f[a] + c
            BY <2>1, <2>4, <3>1
        <3>4. f[a] \in Nat /\ f[x] \in Nat /\ c \in Nat
            BY <2>1, SumTyped
        <3> HIDE DEF c
        <3> QED
            BY <2>2, <3>2, <3>3, <3>4
    <2> QED
        BY <2>3, <2>4
<1>2. SUBSET D \subseteq Good
    <2> HIDE DEF Good
    <2> QED
        BY <1>1, SubsetsReached
<1>3. t \in Good
    BY <1>2
<1> QED
    BY <1>3

(* It depends on the values on the set alone.                              *)
LEMMA SumAgrees ==
    ASSUME NEW D, IsFiniteSet(D), NEW f \in [D -> Nat],
           NEW E \in SUBSET D, NEW g \in [E -> Nat], \A x \in E : g[x] = f[x]
    PROVE  SumOver(g, E) = SumOver(f, E)
<1> DEFINE Good == {s \in SUBSET E : SumOver(g, s) = SumOver(f, s)}
<1>0. IsFiniteSet(E)
    BY FS_Subset
<1>1. ASSUME NEW s \in SUBSET E, \A r \in SUBSET s : r # s => r \in Good
      PROVE  s \in Good
    <2>1. CASE s = {}
        BY <1>0, <2>1, SumUnfolds
    <2>2. CASE s # {}
        <3>1. AnyOf(s) \in s
            BY <2>2, AnyIsIn
        <3>2. SumOver(g, s \ {AnyOf(s)}) = SumOver(f, s \ {AnyOf(s)})
            BY <1>1, <3>1
        <3>3. SumOver(f, s) = f[AnyOf(s)] + SumOver(f, s \ {AnyOf(s)})
            BY <2>2, SumUnfolds
        <3>4. SumOver(g, s) = g[AnyOf(s)] + SumOver(g, s \ {AnyOf(s)})
            BY <1>0, <2>2, SumUnfolds
        <3> QED
            BY <3>1, <3>2, <3>3, <3>4
    <2> QED
        BY <2>1, <2>2
<1>2. SUBSET E \subseteq Good
    <2> HIDE DEF Good
    <2> QED
        BY <1>0, <1>1, SubsetsReached
<1> QED
    BY <1>2

(* The sum over two sets that have nothing in common is that over both.    *)
LEMMA SumSplits ==
    ASSUME NEW D, IsFiniteSet(D), NEW f \in [D -> Nat],
           NEW E \in SUBSET D, NEW F \in SUBSET D, E \cap F = {}
    PROVE  SumOver(f, E \cup F) = SumOver(f, E) + SumOver(f, F)
<1> DEFINE Good == {s \in SUBSET E : SumOver(f, s \cup F)
                                        = SumOver(f, s) + SumOver(f, F)}
<1>1. ASSUME NEW s \in SUBSET E, \A r \in SUBSET s : r # s => r \in Good
      PROVE  s \in Good
    <2>1. CASE s = {}
        <3>1. SumOver(f, s) = 0 /\ s \cup F = F
            BY <2>1, SumUnfolds
        <3>2. SumOver(f, F) \in Nat /\ SumOver(f, s \cup F) = SumOver(f, F)
            BY <3>1, SumTyped
        <3> QED
            BY <3>1, <3>2
    <2>2. CASE s # {}
        <3>1. PICK x : x \in s
            BY <2>2
        <3> DEFINE c == SumOver(f, s \ {x})
        <3>2. SumOver(f, (s \ {x}) \cup F) = c + SumOver(f, F)
            BY <1>1, <3>1
        <3>3. SumOver(f, s) = f[x] + c
            BY <3>1, SumFromAny
        <3>4. SumOver(f, s \cup F) = f[x] + (c + SumOver(f, F))
            <4>1. SumOver(f, s \cup F) = f[x] + SumOver(f, (s \cup F) \ {x})
                BY <3>1, SumFromAny
            <4>2. (s \cup F) \ {x} = (s \ {x}) \cup F
                BY <3>1
            <4> QED
                BY <3>2, <4>1, <4>2
        <3>5. f[x] \in Nat /\ c \in Nat /\ SumOver(f, F) \in Nat
            BY <3>1, SumTyped
        <3> HIDE DEF c
        <3> QED
            BY <3>3, <3>4, <3>5
    <2> QED
        BY <2>1, <2>2
<1>2. SUBSET E \subseteq Good
    <2> HIDE DEF Good
    <2> QED
        BY <1>1, FS_Subset, SubsetsReached
<1> QED
    BY <1>2


LEMMA SumOfFunction ==
    ASSUME NEW D, NEW f \in [D -> Nat]
    PROVE  SumFunction(f) = SumOver(f, D)
<1>1. DOMAIN f = D
    OBVIOUS
<1> QED
    BY <1>1, SumIsOneOf DEF SumOver

LEMMA FiniteImage ==
    ASSUME NEW D, IsFiniteSet(D), NEW T, NEW k \in [D -> T]
    PROVE  IsFiniteSet({k[i] : i \in D})
<1> DEFINE image == {k[i] : i \in D}
<1>1. k \in [D -> image] /\ \A t \in image : \E i \in D : k[i] = t
    OBVIOUS
<1>2. k \in Surjection(D, image)
    <2> HIDE DEF image
    <2> QED
        BY <1>1 DEF Surjection
<1> HIDE DEF image
<1>3. IsFiniteSet(image)
    BY <1>2, FS_Surjection
<1> QED
    BY <1>3 DEF image

(* Counting by a field and adding up counts every element once.            *)
LEMMA SumOfCounts ==
    ASSUME NEW D, IsFiniteSet(D), NEW C, IsFiniteSet(C), NEW k
    PROVE  SumFunction([c \in C |-> Cardinality({i \in D : k[i] = c})])
              = Cardinality({i \in D : k[i] \in C})
<1> DEFINE f == [c \in C |-> Cardinality({i \in D : k[i] = c})]
           Chosen(s) == {i \in D : k[i] \in s}
           Good == {s \in SUBSET C : SumOver(f, s) = Cardinality(Chosen(s))}
<1>1. f \in [C -> Nat]
    <2>1. \A c \in C : Cardinality({i \in D : k[i] = c}) \in Nat
        BY FS_Subset, FS_CardinalityType
    <2> QED
        BY <2>1
<1>2. ASSUME NEW s \in SUBSET C, \A r \in SUBSET s : r # s => r \in Good
      PROVE  s \in Good
    <2>1. CASE s = {}
        <3>1. SumOver(f, s) = 0
            <4> HIDE DEF f
            <4> QED
                BY <1>1, <2>1, SumUnfolds
        <3>2. Chosen(s) = {}
            BY <2>1
        <3> HIDE DEF Chosen, f
        <3> QED
            BY <3>1, <3>2, FS_EmptySet
    <2>2. CASE s # {}
        <3>1. PICK c : c \in s
            BY <2>2
        <3> DEFINE r == s \ {c}
        <3>2. f[c] = Cardinality(Chosen({c}))
            <4>1. Chosen({c}) = {i \in D : k[i] = c}
                OBVIOUS
            <4> QED
                BY <3>1, <4>1
        <3>3. SumOver(f, r) = Cardinality(Chosen(r))
            BY <1>2, <3>1
        <3>4. Chosen(s) = Chosen({c}) \cup Chosen(r) /\ Chosen({c}) \cap Chosen(r) = {}
            BY <3>1
        <3>5. \A t : Chosen(t) \in SUBSET D
            OBVIOUS
        <3>6. \A t : IsFiniteSet(Chosen(t)) /\ Cardinality(Chosen(t)) \in Nat
            <4> HIDE DEF Chosen
            <4> QED
                BY <3>5, FS_Subset, FS_CardinalityType
        <3>7. SumOver(f, s) = f[c] + SumOver(f, r)
            <4> HIDE DEF f
            <4> QED
                BY <1>1, <3>1, SumFromAny
        <3>8. Cardinality(Chosen(s)) = Cardinality(Chosen({c})) + Cardinality(Chosen(r))
            <4> HIDE DEF Chosen, r
            <4>1. Cardinality(Chosen({c}) \cup Chosen(r))
                    = Cardinality(Chosen({c})) + Cardinality(Chosen(r)) - Cardinality({})
                BY <3>4, <3>6, FS_Union
            <4> QED
                BY <3>4, <3>6, <4>1, FS_EmptySet
        <3> HIDE DEF f, Chosen, r
        <3> QED
            BY <3>2, <3>3, <3>7, <3>8
    <2> QED
        BY <2>1, <2>2
<1>3. SUBSET C \subseteq Good
    <2> HIDE DEF Good
    <2> QED
        BY <1>2, SubsetsReached
<1>4. SumOver(f, C) = Cardinality(Chosen(C))
    BY <1>3
<1>5. SumFunction(f) = SumOver(f, C)
    <2> HIDE DEF f
    <2> QED
        BY <1>1, SumOfFunction
<1> QED
    BY <1>4, <1>5


-----------------------------------------------------------------------------
(* Summaries *)

LEMMA LeastOfNumbers ==
    ASSUME NEW S, S \subseteq Nat, S # {}
    PROVE  Min(S) \in S /\ \A v \in S : Min(S) <= v
BY LeastNumber DEF Min

LEMMA GreatestValue ==
    ASSUME NEW D, IsFiniteSet(D), D # {}, NEW values \in [D -> Nat]
    PROVE  \E i \in D : \A j \in D : values[j] <= values[i]
<1> DEFINE Good == {s \in SUBSET D : s = {} \/
                        \E i \in s : \A j \in s : values[j] <= values[i]}
<1>1. ASSUME NEW s \in SUBSET D, \A r \in SUBSET s : r # s => r \in Good
      PROVE  s \in Good
    <2> SUFFICES ASSUME s # {}
                 PROVE  \E i \in s : \A j \in s : values[j] <= values[i]
        OBVIOUS
    <2>1. PICK x : x \in s
        OBVIOUS
    <2>2. s \ {x} \in Good
        <3> HIDE DEF Good
        <3> QED
            BY <1>1, <2>1
    <2>3. CASE s \ {x} = {}
        BY <2>1, <2>3
    <2>4. CASE s \ {x} # {}
        <3>1. PICK i \in s \ {x} : \A j \in s \ {x} : values[j] <= values[i]
            BY <2>2, <2>4
        <3>2. values[i] \in Nat /\ values[x] \in Nat
            BY <2>1
        <3>3. CASE values[x] <= values[i]
            BY <3>1, <3>3
        <3>4. CASE ~(values[x] <= values[i])
            <4>1. \A j \in s : values[j] <= values[x]
                BY <3>1, <3>2, <3>4
            <4> QED
                BY <2>1, <4>1
        <3> QED
            BY <3>3, <3>4
    <2> QED
        BY <2>3, <2>4
<1>2. SUBSET D \subseteq Good
    <2> HIDE DEF Good
    <2> QED
        BY <1>1, SubsetsReached
<1> QED
    BY <1>2

(* The p95 of some durations is their nearest rank.                        *)
LEMMA PercentileIsNearestRank ==
    ASSUME NEW D, IsFiniteSet(D), D # {}, NEW values \in [D -> Nat]
    PROVE  NearestRank(values, Percentile95(values))
<1> DEFINE n == Cardinality(D)
           enough == {v \in {values[i] : i \in D} :
                        AtMost(values, v) > PercentileIndex(n)}
<1>0. DOMAIN values = D /\ values \in [D -> Int]
    OBVIOUS
<1>1. n \in Nat \ {0}
    BY FS_CardinalityType, FS_EmptySet
<1>2. enough # {}
    <2>1. PICK i \in D : \A j \in D : values[j] <= values[i]
        BY GreatestValue
    <2>2. {j \in DOMAIN values : values[j] <= values[i]} = D
        BY <2>1
    <2>3. AtMost(values, values[i]) = n
        BY <2>2 DEF AtMost
    <2>4. PercentileIndex(n) < n
        <3> HIDE DEF n
        <3> QED
            BY <1>1, PercentileIndexIsNearestRank
    <2> QED
        BY <1>1, <2>3, <2>4, PercentileIndexIsNearestRank
<1>3. enough \subseteq Nat
    OBVIOUS
<1>4. Min(enough) \in enough /\ \A v \in enough : Min(enough) <= v
    <2> HIDE DEF enough
    <2> QED
        BY <1>2, <1>3, LeastOfNumbers
<1>5. Percentile95(values) = Min(enough)
    BY <1>0 DEF Percentile95, SortedAt
<1>6. /\ Min(enough) \in Int
      /\ AtMost(values, Min(enough)) > PercentileIndex(n)
      /\ \A i \in D : AtMost(values, values[i]) > PercentileIndex(n)
                        => Min(enough) <= values[i]
    BY <1>3, <1>4
<1> HIDE DEF enough
<1> QED
    BY <1>0, <1>5, <1>6, PercentileOfDurations


(* A summary is made of finitely many runs that all have metrics.          *)
LEMMA ListedRuns ==
    ASSUME NEW log \in Seq(Metrics \cup {NoMetrics}), NEW limit \in Nat,
           NEW route
    PROVE  /\ IsFiniteSet(ListOf(log, route, limit))
           /\ \A i \in ListOf(log, route, limit) : log[i] \in Metrics
<1>1. Len(log) \in Nat
    OBVIOUS
<1>2. Min({limit, Len(log)}) \in Nat /\ Min({limit, Len(log)}) <= Len(log)
    BY <1>1, SmallerAndGreater
<1> DEFINE n == Min({limit, Len(log)})
<1>3. IsFiniteSet(1..n)
    <2> HIDE DEF n
    <2> QED
        BY <1>2, FS_Interval DEF n
<1>4. ListOf(log, route, limit) \subseteq 1..n
    BY DEF ListOf
<1>5. ASSUME NEW i \in ListOf(log, route, limit) PROVE log[i] \in Metrics
    <2>1. i \in 1..Len(log) /\ log[i] # NoMetrics
        BY <1>1, <1>2 DEF ListOf
    <2> QED
        BY <2>1
<1> QED
    BY <1>3, <1>4, <1>5, FS_Subset

(* A set of runs and its two routes.                                       *)
LEMMA CountSplits ==
    ASSUME NEW T, IsFiniteSet(T), NEW P, NEW B, T \subseteq P \cup B,
           P \cap B = {}
    PROVE  Cardinality(T) = Cardinality(T \cap P) + Cardinality(T \cap B)
<1> DEFINE p == T \cap P
           b == T \cap B
<1>1. T = p \cup b /\ p \cap b = {} /\ p \in SUBSET T /\ b \in SUBSET T
    OBVIOUS
<1> HIDE DEF p, b
<1>2. IsFiniteSet(p) /\ IsFiniteSet(b)
    BY <1>1, FS_Subset
<1>3. Cardinality(p) \in Nat /\ Cardinality(b) \in Nat
    BY <1>2, FS_CardinalityType
<1>4. Cardinality(p \cup b) = Cardinality(p) + Cardinality(b) - Cardinality(p \cap b)
    BY <1>2, FS_Union
<1>5. Cardinality(p \cap b) = 0
    BY <1>1, FS_EmptySet
<1>6. Cardinality(T) = Cardinality(p) + Cardinality(b)
    BY <1>1, <1>3, <1>4, <1>5
<1> QED
    BY <1>6 DEF p, b

(* The aggregates of the runs of two disjoint sets add up.                 *)
LEMMA AggregatesAddUp ==
    ASSUME NEW log, NEW L, IsFiniteSet(L), \A i \in L : log[i] \in Metrics,
           NEW P, NEW B, L = P \cup B, P \cap B = {},
           NEW field \in {"runs", "successes", "interventions", "cost",
                          "priced", "unpriced"}
    PROVE  Aggregate(log, L)[field] = Aggregate(log, P)[field]
                                        + Aggregate(log, B)[field]
<1> DEFINE succeeded(S) == {i \in S : log[i].succeeded}
           human(S) == {i \in S : log[i].human}
           priced(S) == {i \in S : log[i].cost # Unknown}
           costs(S) == [i \in priced(S) |-> log[i].cost]
           count(S) == Cardinality(S)
<1>1. \A T \in SUBSET L : /\ IsFiniteSet(T) /\ count(T) \in Nat
                         /\ count(T) = count(T \cap P) + count(T \cap B)
    <2> SUFFICES ASSUME NEW T \in SUBSET L
                 PROVE  /\ IsFiniteSet(T) /\ count(T) \in Nat
                        /\ count(T) = count(T \cap P) + count(T \cap B)
        OBVIOUS
    <2>1. IsFiniteSet(T) /\ T \subseteq P \cup B
        BY FS_Subset
    <2>2. Cardinality(T) = Cardinality(T \cap P) + Cardinality(T \cap B)
        BY <2>1, CountSplits
    <2> QED
        BY <2>1, <2>2, FS_CardinalityType
<1>2. /\ L \cap P = P /\ L \cap B = B
      /\ succeeded(L) \cap P = succeeded(P) /\ succeeded(L) \cap B = succeeded(B)
      /\ human(L) \cap P = human(P) /\ human(L) \cap B = human(B)
      /\ priced(L) \cap P = priced(P) /\ priced(L) \cap B = priced(B)
    OBVIOUS
<1>3. /\ L \in SUBSET L /\ succeeded(L) \in SUBSET L /\ human(L) \in SUBSET L
      /\ priced(L) \in SUBSET L /\ P \in SUBSET L /\ B \in SUBSET L
    OBVIOUS
<1>4. SumFunction(costs(L)) = SumFunction(costs(P)) + SumFunction(costs(B))
    <2>1. ASSUME NEW S \in SUBSET L
          PROVE  costs(S) \in [priced(S) -> Nat]
        <3>1. \A i \in priced(S) : log[i].cost \in Nat
            BY <2>1 DEF Metrics
        <3> QED
            BY <3>1
    <2> DEFINE f == costs(L)
    <2>2. /\ f \in [priced(L) -> Nat] /\ costs(P) \in [priced(P) -> Nat]
          /\ costs(B) \in [priced(B) -> Nat]
        BY <1>3, <2>1
    <2>3. /\ \A i \in priced(P) : costs(P)[i] = f[i]
          /\ \A i \in priced(B) : costs(B)[i] = f[i]
        OBVIOUS
    <2>4. /\ priced(P) \in SUBSET priced(L) /\ priced(B) \in SUBSET priced(L)
          /\ priced(P) \cup priced(B) = priced(L)
          /\ priced(P) \cap priced(B) = {}
        OBVIOUS
    <2>5. IsFiniteSet(priced(L))
        BY <1>1, <1>3
    <2> HIDE DEF priced, f, costs
    <2>6. SumOver(f, priced(L)) = SumOver(f, priced(P)) + SumOver(f, priced(B))
        BY <2>2, <2>4, <2>5, SumSplits
    <2>7. SumOver(costs(P), priced(P)) = SumOver(f, priced(P))
        BY <2>2, <2>3, <2>4, <2>5, SumAgrees
    <2>8. SumOver(costs(B), priced(B)) = SumOver(f, priced(B))
        BY <2>2, <2>3, <2>4, <2>5, SumAgrees
    <2>9. /\ SumFunction(f) = SumOver(f, priced(L))
          /\ SumFunction(costs(P)) = SumOver(costs(P), priced(P))
          /\ SumFunction(costs(B)) = SumOver(costs(B), priced(B))
        BY <2>2, SumOfFunction
    <2> QED
        BY <2>6, <2>7, <2>8, <2>9 DEF f
<1>5. \A S : /\ Aggregate(log, S).runs = count(S)
            /\ Aggregate(log, S).successes = count(succeeded(S))
            /\ Aggregate(log, S).interventions = count(human(S))
            /\ Aggregate(log, S).cost = SumFunction(costs(S))
            /\ Aggregate(log, S).priced = count(priced(S))
            /\ Aggregate(log, S).unpriced = count(S) - count(priced(S))
    BY DEF Aggregate
<1>6. /\ count(L) = count(P) + count(B)
      /\ count(succeeded(L)) = count(succeeded(P)) + count(succeeded(B))
      /\ count(human(L)) = count(human(P)) + count(human(B))
      /\ count(priced(L)) = count(priced(P)) + count(priced(B))
    <2> HIDE DEF count, succeeded, human, priced
    <2> QED
        BY <1>1, <1>2, <1>3
<1>7. /\ count(P) \in Nat /\ count(B) \in Nat
      /\ count(priced(P)) \in Nat /\ count(priced(B)) \in Nat
    <2>1. priced(P) \in SUBSET L /\ priced(B) \in SUBSET L
        OBVIOUS
    <2> HIDE DEF count, priced
    <2> QED
        BY <1>1, <1>3, <2>1
<1> HIDE DEF count, succeeded, human, priced, costs
<1>8. CASE field \in {"runs", "successes", "interventions", "cost", "priced"}
    BY <1>4, <1>5, <1>6, <1>8
<1>9. CASE field = "unpriced"
    BY <1>5, <1>6, <1>7, <1>9
<1> QED
    BY <1>8, <1>9

(* The runs of unknown cost are those that are not priced.                 *)
LEMMA UnknownCosts ==
    ASSUME NEW log, NEW L, IsFiniteSet(L)
    PROVE  Aggregate(log, L).unpriced
              = Cardinality({i \in L : log[i].cost = Unknown})
<1> DEFINE priced == {i \in L : log[i].cost # Unknown}
           unknown == {i \in L : log[i].cost = Unknown}
<1>1. L = priced \cup unknown /\ priced \cap unknown = {}
    OBVIOUS
<1>2. L \cap priced = priced /\ L \cap unknown = unknown
    OBVIOUS
<1>3. IsFiniteSet(priced) /\ IsFiniteSet(unknown)
    BY FS_Subset
<1>4. Aggregate(log, L).unpriced = Cardinality(L) - Cardinality(priced)
    BY DEF Aggregate
<1> HIDE DEF priced, unknown
<1>5. Cardinality(L) = Cardinality(priced) + Cardinality(unknown)
    <2>1. Cardinality(L) = Cardinality(L \cap priced) + Cardinality(L \cap unknown)
        <3>1. L \subseteq priced \cup unknown
            BY <1>1
        <3> QED
            BY <1>1, <3>1, CountSplits
    <2> QED
        BY <1>2, <2>1
<1>6. Cardinality(priced) \in Nat /\ Cardinality(unknown) \in Nat
    BY <1>3, FS_CardinalityType
<1>7. Aggregate(log, L).unpriced = Cardinality(unknown)
    BY <1>4, <1>5, <1>6
<1> QED
    BY <1>7 DEF unknown

(* What did not succeed is found among the categories.                     *)
LEMMA FailuresAreCategorised ==
    ASSUME NEW log, NEW L, IsFiniteSet(L), \A i \in L : log[i] \in Metrics
    PROVE  SumFunction(Aggregate(log, L).categories)
              >= Aggregate(log, L).runs - Aggregate(log, L).successes
<1> DEFINE k == [i \in L |-> log[i].category]
           C == {k[i] : i \in L} \ {Unknown}
           f == [c \in C |-> Cardinality({i \in L : k[i] = c})]
           succeeded == {i \in L : log[i].succeeded}
           failed == {i \in L : ~log[i].succeeded}
           categorised == {i \in L : k[i] \in C}
<1>1. Aggregate(log, L).categories = f
    <2>1. {log[i].category : i \in L} = {k[i] : i \in L}
        OBVIOUS
    <2>2. \A c : {i \in L : log[i].category = c} = {i \in L : k[i] = c}
        OBVIOUS
    <2>3. Aggregate(log, L).categories =
              [c \in {log[i].category : i \in L} \ {Unknown} |->
                    Cardinality({i \in L : log[i].category = c})]
        BY DEF Aggregate
    <2> QED
        BY <2>1, <2>2, <2>3
<1>2. IsFiniteSet(C)
    <2>1. k \in [L -> {k[i] : i \in L}]
        OBVIOUS
    <2> HIDE DEF k
    <2>2. IsFiniteSet({k[i] : i \in L})
        BY <2>1, FiniteImage
    <2> QED
        BY <2>2, FS_Subset
<1>3. SumFunction(f) = Cardinality(categorised)
    <2> HIDE DEF k, C
    <2> QED
        BY <1>2, SumOfCounts
<1>4. failed \subseteq categorised
    <2>1. \A i \in failed : log[i].category # Unknown
        BY DEF Metrics
    <2> QED
        BY <2>1
<1>5. categorised \subseteq L /\ succeeded \subseteq L /\ failed \subseteq L
    OBVIOUS
<1>6. L = succeeded \cup failed /\ succeeded \cap failed = {}
    OBVIOUS
<1>7. Aggregate(log, L).runs = Cardinality(L)
      /\ Aggregate(log, L).successes = Cardinality(succeeded)
    BY DEF Aggregate
<1> HIDE DEF f, categorised, succeeded, failed
<1>8. /\ IsFiniteSet(categorised) /\ IsFiniteSet(succeeded) /\ IsFiniteSet(failed)
    BY <1>5, FS_Subset
<1>9. Cardinality(L) = Cardinality(succeeded) + Cardinality(failed)
    <2>1. L \cap succeeded = succeeded /\ L \cap failed = failed
        BY <1>5
    <2>2. Cardinality(L) = Cardinality(L \cap succeeded) + Cardinality(L \cap failed)
        <3>1. L \subseteq succeeded \cup failed
            BY <1>6
        <3> QED
            BY <1>6, <3>1, CountSplits
    <2> QED
        BY <2>1, <2>2
<1>10. Cardinality(failed) <= Cardinality(categorised)
    BY <1>4, <1>8, FS_Subset
<1>11. /\ Cardinality(succeeded) \in Nat /\ Cardinality(failed) \in Nat
       /\ Cardinality(categorised) \in Nat
    BY <1>8, FS_CardinalityType
<1> QED
    BY <1>1, <1>3, <1>7, <1>9, <1>10, <1>11


(* A summary of any runs, whatever their metrics, their number and the     *)
(* limit: its p95 is the nearest rank, both routes add up to the whole,    *)
(* unknown costs are counted as such and every failure has a category.     *)
THEOREM SummariesOfAnyRuns ==
    ASSUME NEW log \in Seq(Metrics \cup {NoMetrics}), NEW limit \in Nat,
           NEW route \in {Unknown, "playwright", "browser-use"}
    PROVE  SoundSummary(log, route, limit)
<1> DEFINE L == ListOf(log, route, limit)
           P == {i \in L : log[i].route = "playwright"}
           B == {i \in L : log[i].route = "browser-use"}
<1>1. IsFiniteSet(L) /\ \A i \in L : log[i] \in Metrics
    BY ListedRuns
<1>2. /\ Summary(log, route, limit).overall = Aggregate(log, L)
      /\ Summary(log, route, limit).by_route["playwright"] = Aggregate(log, P)
      /\ Summary(log, route, limit).by_route["browser-use"] = Aggregate(log, B)
    BY DEF Summary
<1> HIDE DEF L
<1>3. L = P \cup B /\ P \cap B = {}
    <2>1. \A i \in L : log[i].route \in {"playwright", "browser-use"}
        BY <1>1 DEF Metrics
    <2> QED
        BY <2>1
<1> HIDE DEF P, B
<1>4. ASSUME L # {}
      PROVE  NearestRank([i \in L |-> log[i].duration], Aggregate(log, L).p95)
    <2> DEFINE durations == [i \in L |-> log[i].duration]
    <2>1. durations \in [L -> Nat]
        BY <1>1 DEF Metrics
    <2>2. Aggregate(log, L).p95 = Percentile95(durations)
        BY DEF Aggregate
    <2> HIDE DEF durations
    <2>3. NearestRank(durations, Percentile95(durations))
        BY <1>1, <1>4, <2>1, PercentileIsNearestRank
    <2> QED
        BY <2>2, <2>3 DEF durations
<1>5. ASSUME NEW field \in {"runs", "successes", "interventions", "cost",
                           "priced", "unpriced"}
      PROVE  Aggregate(log, L)[field]
                = Aggregate(log, P)[field] + Aggregate(log, B)[field]
    BY <1>1, <1>3, AggregatesAddUp
<1>6. Aggregate(log, L).unpriced = Cardinality({i \in L : log[i].cost = Unknown})
    BY <1>1, UnknownCosts
<1>7. SumFunction(Aggregate(log, L).categories)
          >= Aggregate(log, L).runs - Aggregate(log, L).successes
    BY <1>1, FailuresAreCategorised
<1>8. SoundSummary(log, route, limit) <=>
        /\ L # {} => NearestRank([i \in L |-> log[i].duration],
                                 Aggregate(log, L).p95)
        /\ \A field \in {"runs", "successes", "interventions", "cost",
                         "priced", "unpriced"} :
                Aggregate(log, L)[field]
                    = Aggregate(log, P)[field] + Aggregate(log, B)[field]
        /\ Aggregate(log, L).unpriced
              = Cardinality({i \in L : log[i].cost = Unknown})
        /\ SumFunction(Aggregate(log, L).categories)
              >= Aggregate(log, L).runs - Aggregate(log, L).successes
    BY <1>2, Zenon DEF SoundSummary, L
<1> QED
    BY <1>4, <1>5, <1>6, <1>7, <1>8

(* What the worker stores of an attempt is a metrics record.               *)
LEMMA BuiltMetrics ==
    ASSUME NEW route \in {"playwright", "browser-use"}, NEW result,
           result.failures \in Nat, result.human \in BOOLEAN,
           result.reason \in Reasons \cup {Unknown},
           result.usage \in [tokens : Nat \cup {Unknown}, cost : Nat \cup {Unknown}],
           NEW duration \in Nat, NEW succeeded \in BOOLEAN, NEW error
    PROVE  Build(route, result, duration, succeeded, error) \in Metrics
<1> DEFINE category == IF error # Unknown THEN Classify(error)
                       ELSE IF ~succeeded THEN Classify(result.text)
                       ELSE IF result.failures > 0 THEN "partial-errors"
                       ELSE Unknown
           inferred == result.reason = Unknown /\ category \in DOMAIN ReasonOf
           usage == UsageOf(route, result.usage)
           m == Build(route, result, duration, succeeded, error)
           reason == IF inferred THEN ReasonOf[category] ELSE result.reason
           human == result.human \/ inferred
<1>1. m = [route |-> route, succeeded |-> succeeded, duration |-> duration,
           failures |-> result.failures, category |-> category,
           human |-> human, reason |-> reason,
           tokens |-> usage.tokens, cost |-> usage.cost]
    BY Zenon DEF Build
<1>2. /\ category \in Categories \cup {Unknown}
      /\ succeeded \/ category # Unknown
    <2>1. "partial-errors" \in Categories
        BY DEF Categories
    <2>2. \A words : Classify(words) \in Categories
        BY ClassifyPutsChallengesFirst
    <2>3. \A words : Classify(words) # Unknown
        BY ClassifiedError
    <2> QED
        BY <2>1, <2>2, <2>3
<1>3. reason \in Reasons \cup {Unknown}
    <2>1. ASSUME inferred PROVE ReasonOf[category] \in Reasons
        <3> HIDE DEF category
        <3> QED
            BY <2>1 DEF ReasonOf, Reasons
    <2> HIDE DEF inferred
    <2> QED
        BY <2>1
<1>4. human \in BOOLEAN
    OBVIOUS
<1>5. usage.tokens \in Nat \cup {Unknown} /\ usage.cost \in Nat \cup {Unknown}
    BY DEF UsageOf
<1> HIDE DEF category, inferred, usage, m, reason, human
<1> QED
    BY <1>1, <1>2, <1>3, <1>4, <1>5 DEF Metrics, m


LEMMA EarlierRecords ==
    ASSUME NEW n \in Nat
    PROVE  Earlier(n) \in Seq(Metrics \cup {NoMetrics})
<1> DEFINE result == [failures |-> 0, text |-> {}, human |-> FALSE,
                      reason |-> Unknown, usage |-> [tokens |-> 9, cost |-> 2]]
           silent == [result EXCEPT !.usage = NoUsage]
<1>1. ASSUME NEW i \in 1..n PROVE Earlier(n)[i] \in Metrics \cup {NoMetrics}
    <2>1. ASSUME NEW route \in {"playwright", "browser-use"},
                 NEW given \in {result, silent}, NEW done \in BOOLEAN, NEW error
          PROVE  Build(route, given, i, done, error) \in Metrics
        <3>1. /\ result.failures \in Nat /\ result.human \in BOOLEAN
              /\ result.reason = Unknown
              /\ result.usage \in [tokens : Nat \cup {Unknown},
                                   cost : Nat \cup {Unknown}]
            OBVIOUS
        <3>2. /\ silent.failures \in Nat /\ silent.human \in BOOLEAN
              /\ silent.reason = Unknown
              /\ silent.usage \in [tokens : Nat \cup {Unknown},
                                   cost : Nat \cup {Unknown}]
            BY DEF NoUsage
        <3>3. i \in Nat
            OBVIOUS
        <3> HIDE DEF result, silent
        <3>4. /\ given.failures \in Nat /\ given.human \in BOOLEAN
              /\ given.reason \in Reasons \cup {Unknown}
              /\ given.usage \in [tokens : Nat \cup {Unknown},
                                  cost : Nat \cup {Unknown}]
            BY <3>1, <3>2
        <3> QED
            BY <3>3, <3>4, BuiltMetrics
    <2>2. /\ Build("playwright", result, i, TRUE, Unknown) \in Metrics
          /\ Build("browser-use", result, i, TRUE, Unknown) \in Metrics
          /\ Build("browser-use", silent, i, FALSE, {"timeout"}) \in Metrics
        <3> HIDE DEF result, silent
        <3> QED
            BY <2>1
    <2>4. Earlier(n)[i] =
            CASE i % 4 = 0 -> NoMetrics
              [] i % 4 = 1 -> Build("playwright", result, i, TRUE, Unknown)
              [] i % 4 = 2 -> Build("browser-use", result, i, TRUE, Unknown)
              [] OTHER -> Build("browser-use", silent, i, FALSE, {"timeout"})
        BY DEF Earlier
    <2> HIDE DEF result, silent
    <2> QED
        BY <2>2, <2>4
<1>2. Earlier(n) = [i \in 1..n |-> Earlier(n)[i]]
    BY DEF Earlier
<1>3. Earlier(n) \in [1..n -> Metrics \cup {NoMetrics}]
    BY <1>1, <1>2
<1> QED
    BY <1>3

LEMMA StoreKeepsRecords ==
    ASSUME NEW entry, NEW metrics \in Metrics, Store(entry, metrics)
    PROVE  RecordsInv'
<1>1. PICK n \in Windows : records' = <<metrics>> \o Earlier(n)
    BY DEF Store
<1>2. Earlier(n) \in Seq(Metrics \cup {NoMetrics})
    BY WindowsAssumption, EarlierRecords
<1>3. <<metrics>> \in Seq(Metrics \cup {NoMetrics})
    OBVIOUS
<1> QED
    BY <1>1, <1>2, <1>3 DEF RecordsInv

(* Every summary over the stored runs is sound.                            *)
THEOREM SummariesAreSound == ObservedSpec => []SummaryIsSound
<1>1. ObservedInit => RecordsInv
    BY DEF ObservedInit, RecordsInv
<1>2. RecordsInv /\ errors \in BOOLEAN /\ [ObservedNext]_observedVars
          => RecordsInv'
    <2> SUFFICES ASSUME RecordsInv, errors \in BOOLEAN,
                        [ObservedNext]_observedVars
                 PROVE  RecordsInv'
        OBVIOUS
    <2>1. ASSUME UNCHANGED records PROVE RecordsInv'
        BY <2>1 DEF RecordsInv
    <2>2. CASE AdapterStep /\ UNCHANGED <<evidence, records>>
        BY <2>1, <2>2
    <2>3. CASE LeaveAdapter
        BY <2>1, <2>3 DEF LeaveAdapter
    <2>4. ASSUME NEW duration \in Durations, NEW judged \in BOOLEAN,
                 NEW said \in Texts, NEW erred \in Texts, NEW usage \in Usages,
                 Measure(judged, said, erred, usage, duration)
          PROVE  RecordsInv'
        <3> DEFINE reason == ReasonSeen(judged, said \cup erred)
                   result == [failures |-> IF errors THEN 1 ELSE 0, text |-> erred,
                              human |-> reason # Unknown, reason |-> reason,
                              usage |-> usage]
                   done == status # "failed"
        <3>1. reason \in Reasons \cup {Unknown}
            BY DEF ReasonSeen, Reasons
        <3> HIDE DEF reason
        <3>2. /\ result.failures = (IF errors THEN 1 ELSE 0)
              /\ result.human \in BOOLEAN /\ result.reason = reason
              /\ result.usage = usage
            OBVIOUS
        <3>3. \E entry : Store(entry, Build("browser-use", result, duration,
                                            done, Unknown))
            BY <2>4 DEF Measure, reason
        <3> HIDE DEF result
        <3>4. result.failures \in Nat
            BY <3>2
        <3>5. done \in BOOLEAN /\ duration \in Nat
            BY WindowsAssumption
        <3> HIDE DEF done
        <3>6. Build("browser-use", result, duration, done, Unknown) \in Metrics
            BY <3>1, <3>2, <3>4, <3>5, UsagesAssumption, BuiltMetrics
        <3> QED
            BY <3>3, <3>6, StoreKeepsRecords
    <2>5. ASSUME NEW duration \in Durations, NEW message,
                 MeasureFailure(message, duration)
          PROVE  RecordsInv'
        <3> DEFINE result == [failures |-> 0, text |-> {}, human |-> FALSE,
                              reason |-> Unknown, usage |-> NoUsage]
        <3>1. \E entry : Store(entry, Build("browser-use", result, duration,
                                            FALSE, message))
            BY <2>5 DEF MeasureFailure
        <3>2. /\ result.failures \in Nat /\ result.human \in BOOLEAN
              /\ result.reason = Unknown
              /\ result.usage \in [tokens : Nat \cup {Unknown},
                                   cost : Nat \cup {Unknown}]
            BY DEF NoUsage
        <3> HIDE DEF result
        <3>3. Build("browser-use", result, duration, FALSE, message) \in Metrics
            BY <3>2, WindowsAssumption, BuiltMetrics
        <3> QED
            BY <3>1, <3>3, StoreKeepsRecords
    <2>6. CASE UNCHANGED observedVars
        BY <2>1, <2>6 DEF observedVars
    <2> QED
        BY <2>2, <2>3, <2>4, <2>5, <2>6 DEF ObservedNext
<1>3. RecordsInv => SummaryIsSound
    BY WindowsAssumption, SummariesOfAnyRuns DEF RecordsInv, SummaryIsSound
<1> QED
    BY <1>1, <1>2, <1>3, ErrorsTyped, PTL DEF ObservedSpec

=============================================================================

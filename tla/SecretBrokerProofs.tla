------------------------ MODULE SecretBrokerProofs ------------------------
(***************************************************************************)
(* What the credential broker promises of its temporary files and of its   *)
(* audit log, for any number of concurrent invocations, adapters and       *)
(* failing appends.                                                        *)
(***************************************************************************)
EXTENDS SecretBroker, TLAPS

Launched == {"creating", "created", "writing", "running", "recording",
             "handling", "cleaning"}
Holding == {"created", "writing", "running", "recording", "handling",
            "cleaning"}

(* The log of an invocation that returns shows the outcome, once.          *)
Exact(c, a) == \A l \in Outcomes : a[l] = IF c = l THEN 1 ELSE 0

(* What holds of one invocation: b where it is, held whether its file      *)
(* exists, c what became of its adapter, a its lines of the log.           *)
Silent(b, held, c, a) ==
    b.pc \in {"new", "denying", "launching"} =>
        /\ ~held /\ c = "none"
        /\ \A l \in Lines : a[l] = 0
        /\ b.pc = "launching" => b.adapter \in Adapters

Announced(b, a) ==
    b.pc \in Launched => /\ b.adapter \in Adapters
                         /\ a["launching"] = 1 /\ a["denied"] = 0

Pending(b, c, a) ==
    /\ b.pc \in {"creating", "created", "writing", "running", "recording"} =>
          a["completed"] = 0 /\ a["failed"] = 0
    /\ b.pc \in {"creating", "created", "writing"} => c = "none"
    /\ b.pc = "running" => c # "none"
    /\ b.pc = "recording" => c \in Outcomes /\ b.line = c
    /\ c = "running" => b.pc \in {"running", "killed"}

FileIsHeld(b, held) ==
    /\ b.pc \in Holding => held
    /\ b.pc = "creating" => ~held
    /\ b.pc = "ended" /\ held => b.prevented /\ b.raises

Settled(b, c, a) ==
    b.pc \in {"cleaning", "ended"} /\ ~b.raises => Exact(c, a)

LogIsTrue(b, held, c, a) ==
    /\ held \/ c # "none" => a["launching"] = 1 /\ b.adapter \in Adapters
    /\ a["denied"] > 0 => \A l \in Lines \ {"denied"} : a[l] = 0
    /\ a["completed"] > 0 => c = "completed"

Local(b, held, c, a) ==
    /\ Silent(b, held, c, a) /\ Announced(b, a) /\ Pending(b, c, a)
    /\ FileIsHeld(b, held) /\ Settled(b, c, a) /\ LogIsTrue(b, held, c, a)

BrokerInv ==
    /\ BrokerTypeOK
    /\ \A s \in Sessions : Local(broker[s], s \in file, child[s], audit[s])

Children == {"none", "running"} \cup Outcomes

-----------------------------------------------------------------------------
(* A step of one invocation leaves the others alone, so that it is enough  *)
(* to look at its own part of the state.                                   *)
LEMMA OwnPartSuffices ==
    ASSUME BrokerInv, NEW s \in Sessions,
           NEW b \in Broker, NEW c \in Children, NEW a \in [Lines -> Nat],
           broker' = [broker EXCEPT ![s] = b],
           file' \subseteq Sessions,
           \A t \in Sessions \ {s} : t \in file' <=> t \in file,
           child' = [child EXCEPT ![s] = c],
           audit' = [audit EXCEPT ![s] = a],
           faults' \in 0..MaxFaults,
           Local(b, s \in file', c, a)
    PROVE  BrokerInv'
<1>1. BrokerTypeOK'
    BY DEF BrokerInv, BrokerTypeOK, Children
<1>2. ASSUME NEW t \in Sessions
      PROVE  Local(broker'[t], t \in file', child'[t], audit'[t])
    <2>1. CASE t = s
        <3>1. broker'[t] = b /\ child'[t] = c /\ audit'[t] = a
            BY <2>1 DEF BrokerInv, BrokerTypeOK
        <3> QED
            BY <2>1, <3>1
    <2>2. CASE t # s
        <3>1. /\ broker'[t] = broker[t] /\ child'[t] = child[t]
              /\ audit'[t] = audit[t] /\ (t \in file' <=> t \in file)
            BY <2>2 DEF BrokerInv, BrokerTypeOK
        <3>2. Local(broker[t], t \in file, child[t], audit[t])
            BY DEF BrokerInv
        <3> QED
            BY <3>1, <3>2 DEF Local, Silent, FileIsHeld, LogIsTrue, Announced,
                              Pending, Settled
    <2> QED
        BY <2>1, <2>2
<1> QED
    BY <1>1, <1>2 DEF BrokerInv

(* What an append leaves in the log of its invocation.                     *)
LEMMA AppendedLine ==
    ASSUME BrokerTypeOK, NEW s \in Sessions, NEW line \in Lines,
           NEW next \in Broker, NEW broken \in Broker,
           Appends(s, line, next, broken)
    PROVE  /\ faults' \in 0..MaxFaults
           /\ \E b \in Broker, a \in [Lines -> Nat] :
                 /\ broker' = [broker EXCEPT ![s] = b]
                 /\ audit' = [audit EXCEPT ![s] = a]
                 /\ \/ b = next /\ a = [audit[s] EXCEPT ![line] = @ + 1]
                    \/ b = broken /\ a = [audit[s] EXCEPT ![line] = @ + 1]
                    \/ b = broken /\ a = audit[s]
<1> DEFINE more == [audit[s] EXCEPT ![line] = @ + 1]
<1>1. more \in [Lines -> Nat] /\ audit[s] \in [Lines -> Nat]
    BY DEF BrokerTypeOK
<1>2. faults \in 0..MaxFaults /\ MaxFaults \in Nat
    BY BrokerParameters DEF BrokerTypeOK
<1>3. audit = [audit EXCEPT ![s] = audit[s]]
    BY DEF BrokerTypeOK
<1>4. Append(s, line) => audit' = [audit EXCEPT ![s] = more]
    BY DEF Append, BrokerTypeOK
<1>5. CASE Append(s, line) /\ Become(s, next) /\ UNCHANGED faults
    BY <1>1, <1>2, <1>4, <1>5 DEF Become
<1>6. CASE faults < MaxFaults /\ faults' = faults + 1
           /\ (Append(s, line) \/ UNCHANGED audit) /\ Become(s, broken)
    <2>1. faults' \in 0..MaxFaults
        BY <1>2, <1>6
    <2>2. broker' = [broker EXCEPT ![s] = broken]
        BY <1>6 DEF Become
    <2>3. \/ audit' = [audit EXCEPT ![s] = more]
          \/ audit' = [audit EXCEPT ![s] = audit[s]]
        BY <1>3, <1>4, <1>6
    <2> HIDE DEF more
    <2>4. \E a \in {more, audit[s]} : audit' = [audit EXCEPT ![s] = a]
        BY <2>3
    <2> QED
        BY <1>1, <2>1, <2>2, <2>4 DEF more
<1> QED
    BY <1>5, <1>6 DEF Appends

(* Steps that leave the log alone.                                         *)
LEMMA QuietStep ==
    ASSUME BrokerInv, NEW s \in Sessions, NEW b \in Broker,
           NEW c \in Children,
           broker' = [broker EXCEPT ![s] = b],
           child' = [child EXCEPT ![s] = c],
           file' \in {file, file \cup {s}, file \ {s}},
           UNCHANGED <<audit, faults>>,
           Local(b, s \in file', c, audit[s])
    PROVE  BrokerInv'
<1>1. audit[s] \in [Lines -> Nat] /\ audit' = [audit EXCEPT ![s] = audit[s]]
    BY DEF BrokerInv, BrokerTypeOK
<1>2. /\ file' \subseteq Sessions
      /\ \A t \in Sessions \ {s} : t \in file' <=> t \in file
    BY DEF BrokerInv, BrokerTypeOK
<1>3. faults' \in 0..MaxFaults
    BY DEF BrokerInv, BrokerTypeOK
<1> QED
    BY <1>1, <1>2, <1>3, OwnPartSuffices

(* Steps that append a line.                                               *)
LEMMA LoggedStep ==
    ASSUME BrokerInv, NEW s \in Sessions, NEW line \in Lines,
           NEW next \in Broker, NEW broken \in Broker,
           Appends(s, line, next, broken),
           UNCHANGED <<file, child>>,
           LET more == [audit[s] EXCEPT ![line] = @ + 1]
           IN  /\ Local(next, s \in file, child[s], more)
               /\ Local(broken, s \in file, child[s], more)
               /\ Local(broken, s \in file, child[s], audit[s])
    PROVE  BrokerInv'
<1>1. BrokerTypeOK
    BY DEF BrokerInv
<1>2. faults' \in 0..MaxFaults
    BY <1>1, AppendedLine
<1>3. PICK b \in Broker, a \in [Lines -> Nat] :
          /\ broker' = [broker EXCEPT ![s] = b]
          /\ audit' = [audit EXCEPT ![s] = a]
          /\ \/ b = next /\ a = [audit[s] EXCEPT ![line] = @ + 1]
             \/ b = broken /\ a = [audit[s] EXCEPT ![line] = @ + 1]
             \/ b = broken /\ a = audit[s]
    BY <1>1, AppendedLine
<1>4. child[s] \in Children /\ child' = [child EXCEPT ![s] = child[s]]
    BY <1>1 DEF BrokerTypeOK, Children
<1>5. Local(b, s \in file', child[s], a)
    BY <1>3
<1>6. file' \subseteq Sessions /\ \A t \in Sessions \ {s} : t \in file' <=> t \in file
    BY <1>1 DEF BrokerTypeOK
<1> QED
    BY <1>2, <1>3, <1>4, <1>5, <1>6, OwnPartSuffices

-----------------------------------------------------------------------------

LEMMA StepKeepsInv ==
    ASSUME BrokerInv, NEW s \in Sessions, BrokerStep(s)
    PROVE  BrokerInv'
<1> DEFINE b == broker[s]
           c == child[s]
           a == audit[s]
<1>1. /\ b \in Broker /\ c \in Children /\ a \in [Lines -> Nat]
      /\ child = [child EXCEPT ![s] = c]
      /\ broker = [broker EXCEPT ![s] = b]
      /\ Local(b, s \in file, c, a)
      /\ file \subseteq Sessions
    BY DEF BrokerInv, BrokerTypeOK, Children
<1>2. ASSUME NEW adapter \in Adapters \cup {Unknown}, NEW valid \in BOOLEAN,
             Begin(s, adapter, valid)
      PROVE  BrokerInv'
    <2> DEFINE next == IF adapter \in Adapters /\ valid
                       THEN [b EXCEPT !.pc = "launching", !.adapter = adapter]
                       ELSE [b EXCEPT !.pc = "denying", !.adapter = adapter]
    <2>1. next \in Broker /\ broker' = [broker EXCEPT ![s] = next]
          /\ b.pc = "new" /\ UNCHANGED <<file, child, audit, faults>>
        BY <1>1, <1>2 DEF Begin, At, Become, Broker
    <2>2. /\ next.pc \in {"launching", "denying"}
          /\ next.pc = "launching" => next.adapter \in Adapters
        BY <1>1 DEF Broker
    <2> HIDE DEF next
    <2>3. Local(next, s \in file, c, a)
        BY <1>1, <2>1, <2>2 DEF Local, Silent, Announced, Pending,
             FileIsHeld, Settled, LogIsTrue, Exact, Launched, Holding, Lines
    <2> QED
        BY <1>1, <2>1, <2>3, QuietStep
<1>3. CASE Deny(s)
    <2> DEFINE next == Ended(s, TRUE)
               more == [a EXCEPT !["denied"] = @ + 1]
    <2>1. next \in Broker /\ next.pc = "ended" /\ next.raises /\ b.pc = "denying"
          /\ next.adapter = b.adapter
        BY <1>1, <1>3 DEF Deny, At, Ended, Broker
    <2>2. /\ more["denied"] = a["denied"] + 1
          /\ \A l \in Lines \ {"denied"} : more[l] = a[l]
        BY <1>1 DEF Lines
    <2> HIDE DEF next, more
    <2>3. Local(next, s \in file, c, more) /\ Local(next, s \in file, c, a)
        BY <1>1, <2>1, <2>2 DEF Local, Silent, Announced, Pending,
             FileIsHeld, Settled, LogIsTrue, Exact, Launched, Holding, Lines
    <2> QED
        BY <1>1, <1>3, <2>1, <2>3, LoggedStep DEF Deny, Lines, next, more
<1>4. CASE RecordLaunch(s)
    <2> DEFINE next == [b EXCEPT !.pc = "creating"]
               broken == Ended(s, TRUE)
               more == [a EXCEPT !["launching"] = @ + 1]
    <2>1. /\ next \in Broker /\ next.pc = "creating" /\ b.pc = "launching"
          /\ broken \in Broker /\ broken.pc = "ended" /\ broken.raises
          /\ next.adapter = b.adapter /\ broken.adapter = b.adapter
        BY <1>1, <1>4 DEF RecordLaunch, At, Ended, Broker
    <2>2. /\ more["launching"] = a["launching"] + 1
          /\ \A l \in Lines \ {"launching"} : more[l] = a[l]
        BY <1>1 DEF Lines
    <2> HIDE DEF next, broken, more
    <2>3. /\ Local(next, s \in file, c, more) /\ Local(broken, s \in file, c, more)
          /\ Local(broken, s \in file, c, a)
        BY <1>1, <2>1, <2>2 DEF Local, Silent, Announced, Pending,
             FileIsHeld, Settled, LogIsTrue, Exact, Launched, Holding, Lines
    <2> QED
        BY <1>1, <1>4, <2>1, <2>3, LoggedStep
        DEF RecordLaunch, Lines, next, broken, more
<1>5. ASSUME NEW works \in BOOLEAN, CreateFile(s, works)
      PROVE  BrokerInv'
    <2>1. CASE works
        <3> DEFINE next == [b EXCEPT !.pc = "created"]
        <3>1. /\ next \in Broker /\ next.pc = "created" /\ b.pc = "creating"
              /\ next.adapter = b.adapter
              /\ broker' = [broker EXCEPT ![s] = next]
              /\ file' = file \cup {s} /\ UNCHANGED <<child, audit, faults>>
            BY <1>1, <1>5, <2>1 DEF CreateFile, At, Become, Broker
        <3> HIDE DEF next
        <3>2. Local(next, TRUE, c, a)
            BY <1>1, <3>1 DEF Local, Silent, Announced, Pending,
             FileIsHeld, Settled, LogIsTrue, Exact, Launched, Holding, Lines, Outcomes
        <3>3. Local(next, s \in file', c, a)
            BY <3>1, <3>2 DEF Local, Silent, FileIsHeld, LogIsTrue
        <3> QED
            BY <1>1, <3>1, <3>3, QuietStep
    <2>2. CASE ~works
        <3> DEFINE next == Ended(s, TRUE)
        <3>1. /\ next \in Broker /\ next.pc = "ended" /\ b.pc = "creating"
              /\ next.adapter = b.adapter /\ next.raises
              /\ broker' = [broker EXCEPT ![s] = next]
              /\ UNCHANGED <<file, child, audit, faults>>
            BY <1>1, <1>5, <2>2 DEF CreateFile, At, Become, Broker, Ended
        <3> HIDE DEF next
        <3>2. Local(next, s \in file, c, a)
            BY <1>1, <3>1 DEF Local, Silent, Announced, Pending,
             FileIsHeld, Settled, LogIsTrue, Exact, Launched, Holding, Lines, Outcomes
        <3> QED
            BY <1>1, <3>1, <3>2, QuietStep
    <2> QED
        BY <2>1, <2>2
<1>6. CASE LaunchChild(s)
    <2> DEFINE next == [b EXCEPT !.pc = "running"]
    <2>1. /\ next \in Broker /\ next.pc = "running" /\ b.pc = "writing"
          /\ next.adapter = b.adapter
          /\ broker' = [broker EXCEPT ![s] = next]
          /\ child' = [child EXCEPT ![s] = "running"]
          /\ UNCHANGED <<file, audit, faults>>
        BY <1>1, <1>6 DEF LaunchChild, At, Become, Broker
    <2> HIDE DEF next
    <2>2. Local(next, s \in file, "running", a)
        BY <1>1, <2>1 DEF Local, Silent, Announced, Pending,
             FileIsHeld, Settled, LogIsTrue, Exact, Launched, Holding, Lines, Outcomes
    <2> QED
        BY <1>1, <2>1, <2>2, QuietStep DEF Children
<1>7. CASE LaunchFails(s)
    <2> DEFINE next == [b EXCEPT !.pc = "handling"]
    <2>1. /\ next \in Broker /\ next.pc = "handling" /\ b.pc = "writing"
          /\ next.adapter = b.adapter
          /\ broker' = [broker EXCEPT ![s] = next]
          /\ UNCHANGED <<file, child, audit, faults>>
        BY <1>1, <1>7 DEF LaunchFails, At, Become, Broker
    <2> HIDE DEF next
    <2>2. Local(next, s \in file, c, a)
        BY <1>1, <2>1 DEF Local, Silent, Announced, Pending,
             FileIsHeld, Settled, LogIsTrue, Exact, Launched, Holding, Lines, Outcomes
    <2> QED
        BY <1>1, <2>1, <2>2, QuietStep
<1>8. ASSUME NEW result \in Outcomes, ChildExits(s, result)
      PROVE  BrokerInv'
    <2>1. /\ c = "running" /\ child' = [child EXCEPT ![s] = result]
          /\ broker' = [broker EXCEPT ![s] = b]
          /\ UNCHANGED <<file, audit, faults>> /\ result \in Children
        BY <1>1, <1>8 DEF ChildExits, Children
    <2>2. Local(b, s \in file, result, a)
        BY <1>1, <2>1 DEF Local, Silent, Announced, Pending,
             FileIsHeld, Settled, LogIsTrue, Exact, Launched, Holding, Lines, Outcomes
    <2> QED
        BY <1>1, <2>1, <2>2, QuietStep
<1>9. CASE Collect(s)
    <2> DEFINE next == [b EXCEPT !.pc = "recording", !.line = c]
    <2>1. c \in Outcomes /\ b.pc = "running"
        BY <1>1, <1>9 DEF Collect, At, Children, Local, Pending
    <2>2. /\ next \in Broker /\ next.pc = "recording" /\ next.line = c
          /\ next.adapter = b.adapter
          /\ broker' = [broker EXCEPT ![s] = next]
          /\ UNCHANGED <<file, child, audit, faults>>
        BY <1>1, <1>9, <2>1 DEF Collect, At, Become, Broker, Lines, Outcomes
    <2> HIDE DEF next
    <2>3. Local(next, s \in file, c, a)
        BY <1>1, <2>1, <2>2 DEF Local, Silent, Announced, Pending,
             FileIsHeld, Settled, LogIsTrue, Exact, Launched, Holding, Lines, Outcomes
    <2> QED
        BY <1>1, <2>2, <2>3, QuietStep
<1>10. CASE RecordOutcome(s)
    <2> DEFINE next == [b EXCEPT !.pc = "cleaning"]
               broken == [b EXCEPT !.pc = "handling"]
               more == [a EXCEPT ![b.line] = @ + 1]
    <2>1. /\ next \in Broker /\ next.pc = "cleaning" /\ b.pc = "recording"
          /\ broken \in Broker /\ broken.pc = "handling"
          /\ next.adapter = b.adapter /\ broken.adapter = b.adapter
        BY <1>1, <1>10 DEF RecordOutcome, At, Broker
    <2>2. b.line = c /\ c \in Outcomes /\ c \in Lines
        BY <1>1, <2>1 DEF Local, Pending, Lines, Outcomes
    <2>3. /\ more[c] = a[c] + 1
          /\ \A l \in Lines \ {c} : more[l] = a[l]
        BY <1>1, <2>2 DEF Lines
    <2> HIDE DEF next, broken, more
    <2>4. /\ Local(next, s \in file, c, more) /\ Local(broken, s \in file, c, more)
          /\ Local(broken, s \in file, c, a)
        BY <1>1, <2>1, <2>2, <2>3 DEF Local, Silent, Announced, Pending,
             FileIsHeld, Settled, LogIsTrue, Exact, Launched, Holding, Lines, Outcomes
    <2> QED
        BY <1>1, <1>10, <2>1, <2>2, <2>4, LoggedStep
        DEF RecordOutcome, next, broken, more
<1>11. CASE RecordFailure(s)
    <2> DEFINE next == [b EXCEPT !.pc = "cleaning", !.raises = TRUE]
               more == [a EXCEPT !["failed"] = @ + 1]
    <2>1. /\ next \in Broker /\ next.pc = "cleaning" /\ b.pc = "handling"
          /\ next.raises /\ next.adapter = b.adapter
        BY <1>1, <1>11 DEF RecordFailure, At, Broker
    <2>2. /\ more["failed"] = a["failed"] + 1
          /\ \A l \in Lines \ {"failed"} : more[l] = a[l]
        BY <1>1 DEF Lines
    <2> HIDE DEF next, more
    <2>3. Local(next, s \in file, c, more) /\ Local(next, s \in file, c, a)
        BY <1>1, <2>1, <2>2 DEF Local, Silent, Announced, Pending,
             FileIsHeld, Settled, LogIsTrue, Exact, Launched, Holding, Lines, Outcomes
    <2> QED
        BY <1>1, <1>11, <2>1, <2>3, LoggedStep
        DEF RecordFailure, Lines, next, more
<1>12. ASSUME NEW works \in BOOLEAN, RemoveFile(s, works)
       PROVE  BrokerInv'
    <2>1. CASE works
        <3> DEFINE next == Ended(s, b.raises)
        <3>1. /\ next \in Broker /\ next.pc = "ended" /\ b.pc = "cleaning"
              /\ next.adapter = b.adapter /\ next.raises = b.raises
              /\ broker' = [broker EXCEPT ![s] = next]
              /\ file' = file \ {s} /\ UNCHANGED <<child, audit, faults>>
            BY <1>1, <1>12, <2>1 DEF RemoveFile, At, Become, Broker, Ended
        <3> HIDE DEF next
        <3>2. Local(next, FALSE, c, a)
            BY <1>1, <3>1 DEF Local, Silent, Announced, Pending,
             FileIsHeld, Settled, LogIsTrue, Exact, Launched, Holding, Lines, Outcomes
        <3>3. Local(next, s \in file', c, a)
            BY <3>1, <3>2 DEF Local, Silent, FileIsHeld, LogIsTrue
        <3> QED
            BY <1>1, <3>1, <3>3, QuietStep
    <2>2. CASE ~works
        <3> DEFINE next == Prevented(s)
        <3>1. /\ next \in Broker /\ next.pc = "ended" /\ b.pc = "cleaning"
              /\ next.adapter = b.adapter /\ next.raises /\ next.prevented
              /\ broker' = [broker EXCEPT ![s] = next]
              /\ UNCHANGED <<file, child, audit, faults>>
            BY <1>1, <1>12, <2>2
            DEF RemoveFile, At, Become, Broker, Ended, Prevented
        <3> HIDE DEF next
        <3>2. Local(next, s \in file, c, a)
            BY <1>1, <3>1 DEF Local, Silent, Announced, Pending,
             FileIsHeld, Settled, LogIsTrue, Exact, Launched, Holding, Lines, Outcomes
        <3> QED
            BY <1>1, <3>1, <3>2, QuietStep
    <2> QED
        BY <2>1, <2>2
<1>13. CASE Interrupt(s)
    <2> DEFINE d == IF c = "running" THEN "failed" ELSE c
    <2>1. /\ child' = [child EXCEPT ![s] = d] /\ d \in Children
          /\ UNCHANGED <<file, audit, faults>>
        BY <1>1, <1>13 DEF Interrupt, Children, Outcomes
    <2>2. /\ d # "running" /\ (d = "none" <=> c = "none")
          /\ d = "completed" <=> c = "completed"
        OBVIOUS
    <2> HIDE DEF d
    <2>3. CASE /\ b.pc \in {"denying", "launching", "creating"}
               /\ Become(s, Ended(s, TRUE))
        <3> DEFINE next == Ended(s, TRUE)
        <3>1. /\ next \in Broker /\ next.pc = "ended" /\ next.raises
              /\ next.adapter = b.adapter
              /\ broker' = [broker EXCEPT ![s] = next]
            BY <1>1, <2>3 DEF Become, Broker, Ended
        <3> HIDE DEF next
        <3>2. Local(next, s \in file, d, a)
            BY <1>1, <2>2, <2>3, <3>1 DEF Local, Silent, Announced, Pending,
             FileIsHeld, Settled, LogIsTrue, Exact, Launched, Holding, Lines, Outcomes
        <3> QED
            BY <1>1, <2>1, <3>1, <3>2, QuietStep
    <2>4. CASE /\ b.pc \in {"writing", "running", "recording", "handling",
                             "cleaning"}
               /\ Become(s, [b EXCEPT !.pc = "cleaning", !.raises = TRUE])
        <3> DEFINE next == [b EXCEPT !.pc = "cleaning", !.raises = TRUE]
        <3>1. /\ next \in Broker /\ next.pc = "cleaning" /\ next.raises
              /\ next.adapter = b.adapter
              /\ broker' = [broker EXCEPT ![s] = next]
            BY <1>1, <2>4 DEF Become, Broker
        <3> HIDE DEF next
        <3>2. Local(next, s \in file, d, a)
            BY <1>1, <2>2, <2>4, <3>1 DEF Local, Silent, Announced, Pending,
             FileIsHeld, Settled, LogIsTrue, Exact, Launched, Holding, Lines, Outcomes
        <3> QED
            BY <1>1, <2>1, <3>1, <3>2, QuietStep
    <2>5. CASE b.pc \in {"created", "cleaning"} /\ Become(s, Prevented(s))
        <3> DEFINE next == Prevented(s)
        <3>1. /\ next \in Broker /\ next.pc = "ended" /\ next.raises
              /\ next.prevented /\ next.adapter = b.adapter
              /\ broker' = [broker EXCEPT ![s] = next]
            BY <1>1, <2>5 DEF Become, Broker, Ended, Prevented
        <3> HIDE DEF next
        <3>2. Local(next, s \in file, d, a)
            BY <1>1, <2>2, <2>5, <3>1 DEF Local, Silent, Announced, Pending,
             FileIsHeld, Settled, LogIsTrue, Exact, Launched, Holding, Lines, Outcomes
        <3> QED
            BY <1>1, <2>1, <3>1, <3>2, QuietStep
    <2> QED
        BY <1>13, <2>3, <2>4, <2>5 DEF Interrupt
<1>14. CASE Kill(s)
    <2> DEFINE next == [b EXCEPT !.pc = "killed"]
    <2>1. /\ next \in Broker /\ next.pc = "killed"
          /\ next.adapter = b.adapter
          /\ broker' = [broker EXCEPT ![s] = next]
          /\ UNCHANGED <<file, child, audit, faults>>
        BY <1>1, <1>14 DEF Kill, Become, Broker
    <2> HIDE DEF next
    <2>2. Local(next, s \in file, c, a)
        BY <1>1, <2>1 DEF Local, Silent, Announced, Pending,
             FileIsHeld, Settled, LogIsTrue, Exact, Launched, Holding, Lines, Outcomes
    <2> QED
        BY <1>1, <2>1, <2>2, QuietStep
<1>15. CASE EnterTry(s)
    <2> DEFINE next == [b EXCEPT !.pc = "writing"]
    <2>1. /\ next \in Broker /\ next.pc = "writing" /\ b.pc = "created"
          /\ next.adapter = b.adapter
          /\ broker' = [broker EXCEPT ![s] = next]
          /\ UNCHANGED <<file, child, audit, faults>>
        BY <1>1, <1>15 DEF EnterTry, At, Become, Broker
    <2> HIDE DEF next
    <2>2. Local(next, s \in file, c, a)
        BY <1>1, <2>1 DEF Local, Silent, Announced, Pending,
             FileIsHeld, Settled, LogIsTrue, Exact, Launched, Holding, Lines, Outcomes
    <2> QED
        BY <1>1, <2>1, <2>2, QuietStep
<1> HIDE DEF b, c, a
<1> QED
    BY <1>2, <1>3, <1>4, <1>5, <1>6, <1>7, <1>8, <1>9, <1>10, <1>11, <1>12,
       <1>13, <1>14, <1>15 DEF BrokerStep

LEMMA BrokerInvariance == BrokerSpec => []BrokerInv
<1>1. BrokerInit => BrokerInv
    <2> SUFFICES ASSUME BrokerInit PROVE BrokerInv
        OBVIOUS
    <2>1. BrokerTypeOK
        BY BrokerParameters DEF BrokerInit, BrokerTypeOK, Broker, Lines
    <2>2. ASSUME NEW s \in Sessions
          PROVE  Local(broker[s], s \in file, child[s], audit[s])
        <3>1. /\ broker[s].pc = "new" /\ s \notin file /\ child[s] = "none"
              /\ \A l \in Lines : audit[s][l] = 0
            BY DEF BrokerInit
        <3> QED
            BY <3>1 DEF Local, Silent, Announced, Pending,
             FileIsHeld, Settled, LogIsTrue, Exact, Launched, Holding, Lines
    <2> QED
        BY <2>1, <2>2 DEF BrokerInv
<1>2. BrokerInv /\ [BrokerNext]_brokerVars => BrokerInv'
    <2>1. ASSUME BrokerInv, UNCHANGED brokerVars PROVE BrokerInv'
        <3>1. BrokerTypeOK'
            BY <2>1 DEF BrokerInv, BrokerTypeOK, brokerVars
        <3>2. \A s \in Sessions :
                  Local(broker'[s], s \in file', child'[s], audit'[s])
            BY <2>1 DEF BrokerInv, brokerVars
        <3> QED
            BY <3>1, <3>2 DEF BrokerInv
    <2> QED
        BY <2>1, StepKeepsInv DEF BrokerNext
<1> QED
    BY <1>1, <1>2, PTL DEF BrokerSpec

-----------------------------------------------------------------------------
(* The promises *)

(* Every variable keeps its type.                                          *)
THEOREM BrokerTypeCorrect == BrokerSpec => []BrokerTypeOK
<1>1. BrokerInv => BrokerTypeOK
    BY DEF BrokerInv
<1> QED
    BY <1>1, BrokerInvariance, PTL

(* A file of secret references is left behind only by an invocation that   *)
(* was killed, or that raised because an interrupt outside the try         *)
(* statement or in the finally clause, or a failing unlink, prevented its  *)
(* removal; and no file is removed under a running adapter.                *)
THEOREM NoFileIsLeft == BrokerSpec => []FilesAreRemoved
<1>1. ASSUME BrokerInv, NEW s \in Sessions
      PROVE  /\ s \in file => broker[s].pc \notin {"new", "denying",
                                  "launching", "creating"}
             /\ s \in file /\ At(s, "ended") =>
                   broker[s].prevented /\ broker[s].raises
             /\ child[s] = "running" /\ ~At(s, "killed") => s \in file
    <2>1. Local(broker[s], s \in file, child[s], audit[s])
        BY <1>1 DEF BrokerInv
    <2> QED
        BY <2>1 DEF Local, Silent, FileIsHeld, Pending, Holding, At
<1>2. BrokerInv => FilesAreRemoved
    BY <1>1 DEF FilesAreRemoved
<1> QED
    BY <1>2, BrokerInvariance, PTL

(* No adapter is launched behind the log's back.                           *)
THEOREM LaunchesAreLogged == BrokerSpec => []LaunchesAreAudited
<1>1. ASSUME BrokerInv, NEW s \in Sessions
      PROVE  LogIsTrue(broker[s], s \in file, child[s], audit[s])
    BY <1>1 DEF BrokerInv, Local
<1>2. BrokerInv => LaunchesAreAudited
    BY <1>1 DEF LogIsTrue, LaunchesAreAudited
<1> QED
    BY <1>2, BrokerInvariance, PTL

(* The log tells how every invocation that returned ended.                 *)
THEOREM OutcomesAreLogged == BrokerSpec => []OutcomesAreAudited
<1>1. ASSUME BrokerInv, NEW s \in Sessions
      PROVE  /\ LogIsTrue(broker[s], s \in file, child[s], audit[s])
             /\ Settled(broker[s], child[s], audit[s])
    BY <1>1 DEF BrokerInv, Local
<1>2. BrokerInv => OutcomesAreAudited
    BY <1>1 DEF LogIsTrue, Settled, Exact, At, OutcomesAreAudited
<1> QED
    BY <1>2, BrokerInvariance, PTL

=============================================================================

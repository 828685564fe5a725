--------------------------- MODULE SecretBroker ---------------------------
(***************************************************************************)
(* The credential broker (secret_broker.py): a command that launches an    *)
(* allowlisted adapter with a temporary file of secret references and      *)
(* records every decision in an append-only audit log.  Several commands   *)
(* of one client may run at once and share the log; each has an event_id   *)
(* and a temporary file of its own.  Every call of the operating system    *)
(* may fail: an append may fail before it wrote its line, or after (the    *)
(* chmod that follows it), the file may not be created or not be removed.  *)
(* An operator may interrupt a process any number of times, and it may be  *)
(* killed at any time.                                                     *)
(***************************************************************************)
EXTENDS Integers, FiniteSets

CONSTANTS
    Sessions,       \* invocations of the broker, by event_id
    Adapters,       \* adapters the client's configuration allows
    Unknown,        \* an adapter it does not
    MaxFaults,      \* bound on failing appends
    NoAdapter

ASSUME BrokerParameters ==
    /\ Unknown \notin Adapters /\ NoAdapter \notin Adapters \cup {Unknown}
    /\ MaxFaults \in Nat

VARIABLES
    broker,     \* each invocation: where it is, for which adapter
    file,       \* the temporary files that exist
    child,      \* what became of the adapter process of an invocation
    audit,      \* how many lines of each kind an invocation has in the log
    faults      \* bound: appends that failed

brokerVars == <<broker, file, child, audit, faults>>

Lines == {"denied", "launching", "completed", "failed"}
Outcomes == {"completed", "failed"}

(* prevented is a history field: the file was there, and an interrupt      *)
(* outside the try statement or in its finally clause, or a failing        *)
(* unlink, ended the invocation before it was removed.                     *)
Broker == [pc : {"new", "denying", "launching", "creating", "created",
                 "writing", "running", "recording", "handling", "cleaning",
                 "ended", "killed"},
           adapter : Adapters \cup {Unknown, NoAdapter},
           line : Lines, raises : BOOLEAN, prevented : BOOLEAN]

BrokerInit ==
    /\ broker = [s \in Sessions |->
            [pc |-> "new", adapter |-> NoAdapter, line |-> "denied",
             raises |-> FALSE, prevented |-> FALSE]]
    /\ file = {}
    /\ child = [s \in Sessions |-> "none"]
    /\ audit = [s \in Sessions |-> [l \in Lines |-> 0]]
    /\ faults = 0

At(s, pc) == broker[s].pc = pc

Become(s, b) == broker' = [broker EXCEPT ![s] = b]

(* An unknown adapter and a reserved or invalid argument are denied.       *)
Begin(s, adapter, valid) ==
    /\ At(s, "new")
    /\ Become(s, IF adapter \in Adapters /\ valid
                 THEN [broker[s] EXCEPT !.pc = "launching",
                                        !.adapter = adapter]
                 ELSE [broker[s] EXCEPT !.pc = "denying", !.adapter = adapter])
    /\ UNCHANGED <<file, child, audit, faults>>

(* SecretAuditLog.append works, or fails with the line written or not.     *)
Append(s, line) == audit' = [audit EXCEPT ![s][line] = @ + 1]

Appends(s, line, next, broken) ==
    \/ /\ Append(s, line)
       /\ Become(s, next)
       /\ UNCHANGED faults
    \/ /\ faults < MaxFaults
       /\ faults' = faults + 1
       /\ Append(s, line) \/ UNCHANGED audit
       /\ Become(s, broken)

Ended(s, raises) == [broker[s] EXCEPT !.pc = "ended", !.raises = raises]

(* The denial is recorded, and CredentialBrokerError raised.               *)
Deny(s) ==
    /\ At(s, "denying")
    /\ Appends(s, "denied", Ended(s, TRUE), Ended(s, TRUE))
    /\ UNCHANGED <<file, child>>

(* Mutant: the adapter is launched although its launch was not recorded.   *)
LaunchUnrecorded(s) ==
    LET next == [broker[s] EXCEPT !.pc = "creating"]
    IN  /\ At(s, "launching")
        /\ Appends(s, "launching", next, next)
        /\ UNCHANGED <<file, child>>

RecordLaunch(s) ==
    /\ At(s, "launching")
    /\ Appends(s, "launching", [broker[s] EXCEPT !.pc = "creating"],
               Ended(s, TRUE))
    /\ UNCHANGED <<file, child>>

(* mkstemp comes before the try statement, in which the file is filled.    *)
CreateFile(s, works) ==
    /\ At(s, "creating")
    /\ IF works
       THEN file' = file \cup {s} /\ Become(s, [broker[s] EXCEPT !.pc = "created"])
       ELSE UNCHANGED file /\ Become(s, Ended(s, TRUE))
    /\ UNCHANGED <<child, audit, faults>>

EnterTry(s) ==
    /\ At(s, "created")
    /\ Become(s, [broker[s] EXCEPT !.pc = "writing"])
    /\ UNCHANGED <<file, child, audit, faults>>

(* The references are written, and the adapter is launched under op run.   *)
LaunchChild(s) ==
    /\ At(s, "writing")
    /\ child' = [child EXCEPT ![s] = "running"]
    /\ Become(s, [broker[s] EXCEPT !.pc = "running"])
    /\ UNCHANGED <<file, audit, faults>>

LaunchFails(s) ==
    /\ At(s, "writing")
    /\ Become(s, [broker[s] EXCEPT !.pc = "handling"])
    /\ UNCHANGED <<file, child, audit, faults>>

(* The adapter exits, with or without success.                             *)
ChildExits(s, result) ==
    /\ child[s] = "running"
    /\ child' = [child EXCEPT ![s] = result]
    /\ UNCHANGED <<broker, file, audit, faults>>

Collect(s) ==
    /\ At(s, "running") /\ child[s] # "running"
    /\ Become(s, [broker[s] EXCEPT !.pc = "recording", !.line = child[s]])
    /\ UNCHANGED <<file, child, audit, faults>>

(* Mutant: a failing append does not keep the exit code back.              *)
RecordOutcomeOrNot(s) ==
    LET next == [broker[s] EXCEPT !.pc = "cleaning"]
    IN  /\ At(s, "recording")
        /\ Appends(s, broker[s].line, next, next)
        /\ UNCHANGED <<file, child>>

(* An append that fails here is handled like a failed launch.              *)
RecordOutcome(s) ==
    /\ At(s, "recording")
    /\ Appends(s, broker[s].line, [broker[s] EXCEPT !.pc = "cleaning"],
               [broker[s] EXCEPT !.pc = "handling"])
    /\ UNCHANGED <<file, child>>

(* Mutant: the handler raises past the finally clause.                     *)
RecordFailureAndRaise(s) ==
    /\ At(s, "handling")
    /\ Appends(s, "failed", Ended(s, TRUE), Ended(s, TRUE))
    /\ UNCHANGED <<file, child>>

RecordFailure(s) ==
    LET next == [broker[s] EXCEPT !.pc = "cleaning", !.raises = TRUE]
    IN  /\ At(s, "handling")
        /\ Appends(s, "failed", next, next)
        /\ UNCHANGED <<file, child>>

(* The invocation raises, and its file is left.                            *)
Prevented(s) == [Ended(s, TRUE) EXCEPT !.prevented = TRUE]

(* The finally clause: unlink works, or raises an OSError.                 *)
RemoveFile(s, works) ==
    /\ At(s, "cleaning")
    /\ IF works
       THEN file' = file \ {s} /\ Become(s, Ended(s, broker[s].raises))
       ELSE UNCHANGED file /\ Become(s, Prevented(s))
    /\ UNCHANGED <<child, audit, faults>>

(* KeyboardInterrupt is no Exception, and may come again and again: within *)
(* the try statement only the finally clause runs, and subprocess.run      *)
(* kills the child first; before that statement, or in the finally clause  *)
(* before the unlink, no clause runs.                                      *)
Interrupt(s) ==
    /\ \/ /\ broker[s].pc \in {"denying", "launching", "creating"}
          /\ Become(s, Ended(s, TRUE))
       \/ /\ broker[s].pc \in {"writing", "running", "recording", "handling",
                                "cleaning"}
          /\ Become(s, [broker[s] EXCEPT !.pc = "cleaning", !.raises = TRUE])
       \/ /\ broker[s].pc \in {"created", "cleaning"}
          /\ Become(s, Prevented(s))
    /\ child' = [child EXCEPT ![s] = IF @ = "running" THEN "failed" ELSE @]
    /\ UNCHANGED <<file, audit, faults>>

(* SIGKILL: no clause of the broker runs; its child may go on.             *)
Kill(s) ==
    /\ broker[s].pc \notin {"new", "ended", "killed"}
    /\ Become(s, [broker[s] EXCEPT !.pc = "killed"])
    /\ UNCHANGED <<file, child, audit, faults>>

BrokerStep(s) ==
    \/ \E adapter \in Adapters \cup {Unknown}, valid \in BOOLEAN :
            Begin(s, adapter, valid)
    \/ Deny(s) \/ RecordLaunch(s)
    \/ \E works \in BOOLEAN : CreateFile(s, works) \/ RemoveFile(s, works)
    \/ EnterTry(s) \/ LaunchChild(s) \/ LaunchFails(s)
    \/ \E result \in Outcomes : ChildExits(s, result)
    \/ Collect(s) \/ RecordOutcome(s) \/ RecordFailure(s)
    \/ Interrupt(s) \/ Kill(s)

BrokerNext == \E s \in Sessions : BrokerStep(s)

BrokerSpec == BrokerInit /\ [][BrokerNext]_brokerVars

-----------------------------------------------------------------------------
(* Properties *)

(* Type invariant.                                                         *)
BrokerTypeOK ==
    /\ broker \in [Sessions -> Broker]
    /\ file \subseteq Sessions
    /\ child \in [Sessions -> {"none", "running"} \cup Outcomes]
    /\ audit \in [Sessions -> [Lines -> Nat]]
    /\ faults \in 0..MaxFaults

(* A file of secret references outlives an invocation that was not killed  *)
(* only if an interrupt between mkstemp and the try statement or in the    *)
(* finally clause, or a failing unlink, prevented its removal, and then    *)
(* the invocation raised.  Whichever other step failed or was interrupted, *)
(* the file exists only between its creation and the finally clause, and   *)
(* while the adapter reads it.                                             *)
FilesAreRemoved ==
    \A s \in Sessions :
        /\ s \in file => broker[s].pc \notin {"new", "denying", "launching",
                                              "creating"}
        /\ s \in file /\ At(s, "ended") =>
              broker[s].prevented /\ broker[s].raises
        /\ child[s] = "running" /\ ~At(s, "killed") => s \in file

(* No adapter is ever launched that the log does not show: an allowed one  *)
(* with the launch recorded before, and none for a denied invocation.      *)
LaunchesAreAudited ==
    \A s \in Sessions :
        /\ child[s] # "none" \/ s \in file =>
              audit[s]["launching"] = 1 /\ broker[s].adapter \in Adapters
        /\ audit[s]["denied"] > 0 =>
              \A l \in Lines \ {"denied"} : audit[s][l] = 0

(* An invocation that returns an exit code has recorded that very outcome  *)
(* once and no other, and the log never says "completed" of an adapter     *)
(* that did not succeed.                                                   *)
OutcomesAreAudited ==
    \A s \in Sessions :
        /\ At(s, "ended") /\ ~broker[s].raises =>
              \A l \in Outcomes : audit[s][l] = IF child[s] = l THEN 1 ELSE 0
        /\ audit[s]["completed"] > 0 => child[s] = "completed"

=============================================================================

-------------------------- MODULE RunStoreProofs --------------------------
(* Proofs about the run store, for any number of runs, keys, callers,      *)
(* requests and decisions, any lag and any stale interval.                 *)
EXTENDS RunStore, TLAPS

-----------------------------------------------------------------------------
(* Lemmas about the rows one transaction adds *)

LEMMA WithRowsCounts ==
    ASSUME NEW counts \in [EventRows -> Nat], NEW added
    PROVE  /\ WithRows(counts, added) \in [EventRows -> Nat]
           /\ \A e \in EventRows :
                WithRows(counts, added)[e] =
                    IF e \in added THEN counts[e] + 1 ELSE counts[e]
  BY DEF WithRows

LEMMA RowKinds ==
    /\ \A type \in RoutingEvents \cup ExecutionEvents, route \in Routes :
          <<type, route>> \in EventRows
    /\ \A kind \in Kinds : /\ <<"approval.approved", kind>> \in EventRows
                           /\ <<"approval.rejected", kind>> \in EventRows
    /\ <<"run.requeued-after-stale-lease", NoTag>> \in EventRows
  BY DEF EventRows, StoreRows

-----------------------------------------------------------------------------
(* Type correctness *)

LEMMA TypeInit == StoreInit => StoreTypeOK
  BY StoreNulls DEF StoreInit, StoreTypeOK

LEMMA TypeStep == StoreTypeOK /\ [StoreNext]_storeVars => StoreTypeOK'
<1> SUFFICES ASSUME StoreTypeOK, [StoreNext]_storeVars
             PROVE  StoreTypeOK'
    OBVIOUS
<1> USE DEF StoreTypeOK
<1>1. CASE CreateStep
  <2>1. PICK r \in RunIds, key \in Keys, request \in Requests,
             decision \in Decisions, now \in Stamps :
                CreateRun(r, key, request, decision, now)
        BY <1>1 DEF CreateStep
  <2>2. now \in Nat
        BY DEF Stamps
  <2>3. CASE InsertRun(r, key, request, decision, now)
    <3>1. [key |-> key, request |-> request,
           status |-> "awaiting-blueprint-approval",
           created |-> now, updated |-> now, decision |-> decision,
           locked |-> NoTime, result |-> NoResult] \in Run
          BY <2>2 DEF Run, RunStatuses
    <3>2. runs' \in [RunIds -> Run \cup {NoRun}]
          BY <3>1, <2>3 DEF InsertRun
    <3>3. log' \in [RunIds -> [EventRows -> Nat]]
          BY <2>3, WithRowsCounts DEF InsertRun
    <3>4. replies' \subseteq [key : Keys, request : Requests, run : RunIds]
          BY <2>3 DEF InsertRun
    <3>5. approvals' = approvals /\ clock' = clock
          BY <2>3 DEF InsertRun
    <3>6. QED
          BY <3>2, <3>3, <3>4, <3>5
  <2>4. CASE ReturnExisting(r, key, request)
        BY <2>4 DEF ReturnExisting
  <2>5. QED
        BY <2>1, <2>3, <2>4 DEF CreateRun
<1>2. CASE RoutingStep
  <2>1. PICK r \in RunIds, decision \in Decisions, now \in Stamps :
                SetRoutingDecision(r, decision, now)
        BY <1>2 DEF RoutingStep
  <2>2. now \in Nat /\ runs[r] \in Run
        BY <2>1 DEF Stamps, SetRoutingDecision, Has, Exists
  <2>3. runs' \in [RunIds -> Run \cup {NoRun}]
        BY <2>1, <2>2 DEF SetRoutingDecision, Run
  <2>4. log' \in [RunIds -> [EventRows -> Nat]]
        BY <2>1, WithRowsCounts DEF SetRoutingDecision
  <2>5. QED
        BY <2>1, <2>3, <2>4 DEF SetRoutingDecision
<1>3. CASE ApprovalStep
  <2>1. PICK r \in RunIds, kind \in Kinds, approval \in Approval,
             now \in Stamps : RecordApproval(r, kind, approval, now)
        BY <1>3 DEF ApprovalStep
  <2>2. now \in Nat
        BY DEF Stamps
  <2>3. ASSUME NEW k \in Kinds, NEW events,
               InsertApproval(r, k, approval, events)
        PROVE  /\ approvals' \in [RunIds -> [Kinds -> Approval \cup {NoApproval}]]
               /\ log' \in [RunIds -> [EventRows -> Nat]]
               /\ UNCHANGED <<replies, clock>>
        BY <2>3, WithRowsCounts DEF InsertApproval
  <2>4. "blueprint" \in Kinds /\ "test" \in Kinds
        BY DEF Kinds
  <2>5. CASE ApproveBlueprint(r, approval, now)
    <3>1. runs[r] \in Run
          BY <2>5 DEF ApproveBlueprint, Has, Exists
    <3>2. runs' \in [RunIds -> Run \cup {NoRun}]
          BY <2>5, <2>2, <3>1 DEF ApproveBlueprint, Run, RunStatuses
    <3>3. QED
          BY <2>3, <2>4, <2>5, <3>2 DEF ApproveBlueprint
  <2>6. CASE RejectBlueprint(r, approval, now)
    <3>1. runs[r] \in Run
          BY <2>6 DEF RejectBlueprint, Has, Exists
    <3>2. runs' \in [RunIds -> Run \cup {NoRun}]
          BY <2>6, <2>2, <3>1 DEF RejectBlueprint, Run, RunStatuses
    <3>3. QED
          BY <2>3, <2>4, <2>6, <3>2 DEF RejectBlueprint
  <2>7. CASE RecordTestApproval(r, approval, now)
    <3>1. runs[r] \in Run
          BY <2>7 DEF RecordTestApproval, Exists
    <3>2. runs' \in [RunIds -> Run \cup {NoRun}]
          BY <2>7, <2>2, <3>1 DEF RecordTestApproval, Run
    <3>3. QED
          BY <2>3, <2>4, <2>7, <3>2 DEF RecordTestApproval
  <2>8. QED
        BY <2>1, <2>5, <2>6, <2>7 DEF RecordApproval
<1>4. CASE ClaimStep
  <2>1. PICK r \in RunIds, now \in Stamps : ClaimNextRun(r, now)
        BY <1>4 DEF ClaimStep
  <2>2. now \in Nat /\ runs[r] \in Run
        BY <2>1 DEF Stamps, ClaimNextRun, Claimable, Has, Exists
  <2>3. runs' \in [RunIds -> Run \cup {NoRun}]
        BY <2>1, <2>2 DEF ClaimNextRun, Run, RunStatuses
  <2>4. log' \in [RunIds -> [EventRows -> Nat]]
        BY <2>1, WithRowsCounts DEF ClaimNextRun
  <2>5. QED
        BY <2>1, <2>3, <2>4 DEF ClaimNextRun
<1>5. CASE RequeueStep
  <2>1. PICK now \in Stamps : RequeueStaleRuns(now)
        BY <1>5 DEF RequeueStep
  <2>2. now \in Nat
        BY DEF Stamps
  <2>3. ASSUME NEW r \in StaleRuns(now)
        PROVE  [runs[r] EXCEPT !.status = "queued", !.updated = now] \in Run
    <3>1. runs[r] \in Run
          BY DEF StaleRuns, Has, Exists
    <3>2. QED
          BY <2>2, <3>1 DEF Run, RunStatuses
  <2>4. runs' \in [RunIds -> Run \cup {NoRun}]
        BY <2>1, <2>3 DEF RequeueStaleRuns
  <2>5. log' \in [RunIds -> [EventRows -> Nat]]
        BY <2>1, WithRowsCounts DEF RequeueStaleRuns
  <2>6. QED
        BY <2>1, <2>4, <2>5 DEF RequeueStaleRuns
<1>6. CASE CompleteStep
  <2>1. PICK r \in RunIds, result \in ResultStatuses, now \in Stamps :
                CompleteRun(r, result, result # "failed", now)
        BY <1>6 DEF CompleteStep
  <2>2. now \in Nat /\ runs[r] \in Run
        BY <2>1 DEF Stamps, CompleteRun, Has, Exists
  <2>3. runs' \in [RunIds -> Run \cup {NoRun}]
        BY <2>1, <2>2 DEF CompleteRun, Run, RunStatuses, Terminal
  <2>4. log' \in [RunIds -> [EventRows -> Nat]]
        BY <2>1, WithRowsCounts DEF CompleteRun
  <2>5. QED
        BY <2>1, <2>3, <2>4 DEF CompleteRun
<1>7. CASE AppendStep
  <2>1. PICK r \in RunIds, row \in CallerRows : AppendEvent(r, row)
        BY <1>7 DEF AppendStep
  <2>2. log' \in [RunIds -> [EventRows -> Nat]]
        BY <2>1, WithRowsCounts DEF AppendEvent
  <2>3. QED
        BY <2>1, <2>2 DEF AppendEvent
<1>8. CASE Tick
      BY <1>8 DEF Tick
<1>9. CASE UNCHANGED storeVars
      BY <1>9 DEF storeVars
<1>10. QED
      BY <1>1, <1>2, <1>3, <1>4, <1>5, <1>6, <1>7, <1>8, <1>9 DEF StoreNext

(* Every reachable store has rows, approvals, events and replies of their  *)
(* types.                                                                  *)
THEOREM StoreTypeCorrect == StoreSpec => []StoreTypeOK
<1>1. QED
      BY TypeInit, TypeStep, PTL DEF StoreSpec

-----------------------------------------------------------------------------
(* The inductive invariant *)

LEMMA InvInit == StoreInit => StoreInv
<1> SUFFICES ASSUME StoreInit PROVE StoreInv
    OBVIOUS
<1>1. StoreTypeOK
      BY TypeInit
<1>2. KeysAreUnique /\ RepliesDescribeRows
      BY DEF StoreInit, KeysAreUnique, RepliesDescribeRows, Exists
<1>3. ASSUME NEW r \in RunIds PROVE RowInv(r)
  <2>1. ~Exists(r) /\ ~IsLocked(r)
        BY DEF StoreInit, Exists, IsLocked
  <2>2. Blank(r)
        BY DEF StoreInit, Blank
  <2>3. Unattempted(r)
        BY RowKinds DEF StoreInit, Unattempted, Count
  <2>4. QED
        BY <2>1, <2>2, <2>3 DEF RowInv
<1>4. QED
      BY <1>1, <1>2, <1>3 DEF StoreInv

(* Keys and replies only depend on which rows exist, on their keys and on  *)
(* their requests, which only the insertion of a row disturbs.             *)
LEMMA KeysKept ==
    ASSUME KeysAreUnique, RepliesDescribeRows,
           replies \subseteq [key : Keys, request : Requests, run : RunIds],
           replies' = replies,
           \A r \in RunIds : /\ Exists(r)' <=> Exists(r)
                             /\ Exists(r) => /\ runs'[r].key = runs[r].key
                                             /\ runs'[r].request = runs[r].request
    PROVE  KeysAreUnique' /\ RepliesDescribeRows'
  BY DEF KeysAreUnique, RepliesDescribeRows

(* What every action but a creation does to the rows: it creates none and  *)
(* leaves what is bound to a key alone.                                    *)
LEMMA IdentityKept ==
    ASSUME StoreTypeOK,
           \/ RoutingStep \/ ApprovalStep \/ ClaimStep \/ RequeueStep
           \/ CompleteStep \/ AppendStep \/ Tick \/ UNCHANGED storeVars
    PROVE  /\ replies' = replies
           /\ \A s \in RunIds :
                /\ Exists(s)' <=> Exists(s)
                /\ Exists(s) => /\ runs'[s].key = runs[s].key
                                /\ runs'[s].request = runs[s].request
<1> USE StoreNulls DEF StoreTypeOK, Exists, Has
<1>1. CASE RoutingStep
  <2>1. PICK r \in RunIds, decision \in Decisions, now \in Stamps :
                SetRoutingDecision(r, decision, now)
        BY <1>1 DEF RoutingStep
  <2>2. runs[r] \in Run /\ now \in Nat
        BY <2>1 DEF Stamps, SetRoutingDecision
  <2>3. /\ runs'[r] \in Run
        /\ runs'[r].key = runs[r].key
        /\ runs'[r].request = runs[r].request
        BY <2>1, <2>2 DEF SetRoutingDecision, Run, RunStatuses, Terminal
  <2>4. /\ replies' = replies
        /\ \A s \in RunIds : s # r => runs'[s] = runs[s]
        BY <2>1 DEF SetRoutingDecision
  <2>5. QED
        BY <2>2, <2>3, <2>4
<1>2. CASE ApprovalStep
  <2>1. PICK r \in RunIds, kind \in Kinds, approval \in Approval,
             now \in Stamps : RecordApproval(r, kind, approval, now)
        BY <1>2 DEF ApprovalStep
  <2>2. runs[r] \in Run /\ now \in Nat
        BY <2>1 DEF Stamps, RecordApproval, ApproveBlueprint,
                    RejectBlueprint, RecordTestApproval
  <2>3. /\ runs'[r] \in Run
        /\ runs'[r].key = runs[r].key
        /\ runs'[r].request = runs[r].request
    <3>1. CASE ApproveBlueprint(r, approval, now)
          BY <2>2, <3>1 DEF ApproveBlueprint, Run, RunStatuses
    <3>2. CASE RejectBlueprint(r, approval, now)
          BY <2>2, <3>2 DEF RejectBlueprint, Run, RunStatuses
    <3>3. CASE RecordTestApproval(r, approval, now)
          BY <2>2, <3>3 DEF RecordTestApproval, Run
    <3>4. QED
          BY <2>1, <3>1, <3>2, <3>3 DEF RecordApproval
  <2>4. /\ replies' = replies
        /\ \A s \in RunIds : s # r => runs'[s] = runs[s]
        BY <2>1 DEF RecordApproval, ApproveBlueprint, RejectBlueprint,
                    RecordTestApproval, InsertApproval
  <2>5. QED
        BY <2>2, <2>3, <2>4
<1>3. CASE ClaimStep
  <2>1. PICK r \in RunIds, now \in Stamps : ClaimNextRun(r, now)
        BY <1>3 DEF ClaimStep
  <2>2. runs[r] \in Run /\ now \in Nat
        BY <2>1 DEF Stamps, ClaimNextRun, Claimable
  <2>3. /\ runs'[r] \in Run
        /\ runs'[r].key = runs[r].key
        /\ runs'[r].request = runs[r].request
        BY <2>1, <2>2 DEF ClaimNextRun, Run, RunStatuses, Terminal
  <2>4. /\ replies' = replies
        /\ \A s \in RunIds : s # r => runs'[s] = runs[s]
        BY <2>1 DEF ClaimNextRun
  <2>5. QED
        BY <2>2, <2>3, <2>4
<1>4. CASE RequeueStep
  <2>1. PICK now \in Stamps : RequeueStaleRuns(now)
        BY <1>4 DEF RequeueStep
  <2>2. now \in Nat
        BY DEF Stamps
  <2>3. ASSUME NEW s \in StaleRuns(now)
        PROVE  /\ runs[s] \in Run
               /\ runs'[s] \in Run
               /\ runs'[s].key = runs[s].key
               /\ runs'[s].request = runs[s].request
    <3>1. runs[s] \in Run /\ s \in RunIds
          BY DEF StaleRuns
    <3>2. runs'[s] = [runs[s] EXCEPT !.status = "queued", !.updated = now]
          BY <2>1, <3>1 DEF RequeueStaleRuns
    <3>3. QED
          BY <2>2, <3>1, <3>2 DEF Run, RunStatuses
  <2>4. /\ replies' = replies
        /\ \A s \in RunIds \ StaleRuns(now) : runs'[s] = runs[s]
        BY <2>1 DEF RequeueStaleRuns
  <2>5. QED
        BY <2>3, <2>4
<1>5. CASE CompleteStep
  <2>1. PICK r \in RunIds, result \in ResultStatuses, now \in Stamps :
                CompleteRun(r, result, result # "failed", now)
        BY <1>5 DEF CompleteStep
  <2>2. runs[r] \in Run /\ now \in Nat
        BY <2>1 DEF Stamps, CompleteRun
  <2>3. /\ runs'[r] \in Run
        /\ runs'[r].key = runs[r].key
        /\ runs'[r].request = runs[r].request
        BY <2>1, <2>2 DEF CompleteRun, Run, RunStatuses, Terminal
  <2>4. /\ replies' = replies
        /\ \A s \in RunIds : s # r => runs'[s] = runs[s]
        BY <2>1 DEF CompleteRun
  <2>5. QED
        BY <2>2, <2>3, <2>4
<1>6. CASE AppendStep \/ Tick \/ UNCHANGED storeVars
      BY <1>6 DEF AppendStep, AppendEvent, Tick, storeVars
<1>7. QED
      BY <1>1, <1>2, <1>3, <1>4, <1>5, <1>6

LEMMA KeysStep ==
    ASSUME StoreInv, [StoreNext]_storeVars
    PROVE  KeysAreUnique' /\ RepliesDescribeRows'
<1> USE DEF StoreInv
<1>1. CASE CreateStep
  <2>1. PICK r \in RunIds, key \in Keys, request \in Requests,
             decision \in Decisions, now \in Stamps :
                CreateRun(r, key, request, decision, now)
        BY <1>1 DEF CreateStep
  <2>2. CASE InsertRun(r, key, request, decision, now)
    <3>1. /\ runs'[r] \in Run
          /\ runs'[r].key = key
          /\ runs'[r].request = request
      <4>1. now \in Nat
            BY DEF Stamps
      <4>2. QED
            BY <2>2, <4>1 DEF InsertRun, Run, RunStatuses, StoreTypeOK
    <3>2. runs'[r] # NoRun
          BY <3>1, StoreNulls
    <3>3. ~Exists(r) /\ \A s \in RunIds : Exists(s) => runs[s].key # key
          BY <2>2 DEF InsertRun
    <3>4. \A s \in RunIds : s # r => runs'[s] = runs[s]
          BY <2>2 DEF InsertRun, StoreTypeOK
    <3>5. KeysAreUnique'
          BY <3>1, <3>2, <3>3, <3>4 DEF KeysAreUnique, Exists
    <3>6. replies' = replies \cup
                        {[key |-> key, request |-> request, run |-> r]}
          BY <2>2 DEF InsertRun
    <3>7. \A p \in replies : p.run \in RunIds /\ p.run # r
          BY <3>3 DEF RepliesDescribeRows, StoreTypeOK
    <3>8. RepliesDescribeRows'
          BY <3>1, <3>2, <3>4, <3>6, <3>7 DEF RepliesDescribeRows, Exists
    <3>9. QED
          BY <3>5, <3>8
  <2>3. CASE ReturnExisting(r, key, request)
        BY <2>3 DEF ReturnExisting, KeysAreUnique, RepliesDescribeRows, Exists
  <2>4. QED
        BY <2>1, <2>2, <2>3 DEF CreateRun
<1>2. CASE ~CreateStep
      BY <1>2, IdentityKept, KeysKept DEF StoreNext, StoreTypeOK
<1>3. QED
      BY <1>1, <1>2

-----------------------------------------------------------------------------
(* The invariant of each row *)

LEMMA RowFrame ==
    ASSUME NEW s \in RunIds, RowInv(s), runs'[s] = runs[s],
           approvals'[s] = approvals[s], log'[s] = log[s]
    PROVE  RowInv(s)'
  BY DEF RowInv, Blank, Unattempted, ApprovalMatches, AttemptsMatch,
         RouteHeld, Exists, IsLocked, Has, Count

(* Rows of the audit log that no invariant counts may be added freely.     *)
LEMMA UncountedRows ==
    ASSUME NEW s \in RunIds, RowInv(s), StoreTypeOK, NEW added,
           log'[s] = WithRows(log[s], added),
           \A type \in ExecutionEvents, route \in Routes :
               <<type, route>> \notin added,
           <<"run.requeued-after-stale-lease", NoTag>> \notin added
    PROVE  /\ \A type \in ExecutionEvents, route \in Routes :
                Count(s, type, route)' = Count(s, type, route)
           /\ Count(s, "run.requeued-after-stale-lease", NoTag)' =
                Count(s, "run.requeued-after-stale-lease", NoTag)
<1>1. log[s] \in [EventRows -> Nat]
      BY DEF StoreTypeOK
<1>2. QED
      BY <1>1, WithRowsCounts, RowKinds DEF Count

LEMMA InsertedRow ==
    ASSUME StoreInv, NEW r \in RunIds, NEW key \in Keys,
           NEW request \in Requests, NEW decision \in Decisions,
           NEW now \in Stamps, InsertRun(r, key, request, decision, now)
    PROVE  RowInv(r)'
<1>1. RowInv(r) /\ ~Exists(r) /\ ~IsLocked(r)
      BY DEF StoreInv, InsertRun, IsLocked
<1>2. Unattempted(r)'
  <2>1. log'[r] = WithRows(log[r], {<<"run.created", decision.route>>,
                                    <<"routing.selected", decision.route>>})
        BY DEF InsertRun, StoreInv, StoreTypeOK
  <2>2. QED
        BY <1>1, <2>1, UncountedRows
        DEF StoreInv, RowInv, Unattempted, ExecutionEvents
<1>3. Blank(r) /\ approvals' = approvals
      BY <1>1 DEF RowInv, InsertRun
<1>4. /\ runs'[r].status = "awaiting-blueprint-approval"
      /\ runs'[r].locked = NoTime
      /\ runs'[r].decision = decision
      BY DEF InsertRun, StoreInv, StoreTypeOK
<1>5. ApprovalMatches(r)'
      BY <1>3, <1>4 DEF ApprovalMatches, Blank, Kinds, IsLocked, Has, Terminal
<1>6. ~IsLocked(r)' /\ decision.route \in Routes
      BY <1>4 DEF IsLocked, Decisions
<1>7. AttemptsMatch(r)' /\ RouteHeld(r)'
      BY <1>2, <1>4, <1>6
      DEF AttemptsMatch, RouteHeld, Unattempted, ExecutionEvents
<1>8. Exists(r)'
  <2>1. now \in Nat
        BY DEF Stamps
  <2>2. runs'[r] \in Run
        BY <2>1 DEF InsertRun, StoreInv, StoreTypeOK, Run, RunStatuses
  <2>3. QED
        BY <2>2, StoreNulls DEF Exists
<1>9. QED
      BY <1>2, <1>5, <1>7, <1>8 DEF RowInv

LEMMA RoutedRow ==
    ASSUME StoreInv, NEW r \in RunIds, NEW decision \in Decisions,
           NEW now \in Stamps, SetRoutingDecision(r, decision, now), Exists(r)'
    PROVE  RowInv(r)'
<1>1. /\ RowInv(r) /\ Exists(r) /\ ~IsLocked(r) /\ runs[r] \in Run
      /\ runs[r].status = "awaiting-blueprint-approval"
      BY DEF StoreInv, StoreTypeOK, SetRoutingDecision, Has, Exists
<1>2. Unattempted(r)'
  <2>1. log'[r] = WithRows(log[r], {<<"routing.updated", decision.route>>})
        BY DEF SetRoutingDecision, StoreInv, StoreTypeOK
  <2>2. /\ \A type \in ExecutionEvents, route \in Routes :
              <<type, route>> \notin {<<"routing.updated", decision.route>>}
        /\ <<"run.requeued-after-stale-lease", NoTag>>
              \notin {<<"routing.updated", decision.route>>}
        BY DEF ExecutionEvents
  <2>3. Unattempted(r) /\ StoreTypeOK
        BY <1>1 DEF RowInv, StoreInv
  <2>4. QED
        BY <1>1, <2>1, <2>2, <2>3, UncountedRows DEF Unattempted
<1>3. /\ runs'[r].status = runs[r].status
      /\ runs'[r].locked = runs[r].locked
      /\ runs'[r].decision = decision
      /\ approvals' = approvals
      BY <1>1 DEF SetRoutingDecision, StoreInv, StoreTypeOK, Run
<1>5. ApprovalMatches(r)' /\ ~IsLocked(r)'
      BY <1>1, <1>3 DEF RowInv, ApprovalMatches, IsLocked, Has, Terminal
<1>6. decision.route \in Routes
      BY DEF Decisions
<1>7. AttemptsMatch(r)' /\ RouteHeld(r)'
      BY <1>1, <1>2, <1>3, <1>5, <1>6
      DEF AttemptsMatch, RouteHeld, Unattempted, ExecutionEvents
<1>8. QED
      BY <1>2, <1>5, <1>7 DEF RowInv

LEMMA ApprovedRow ==
    ASSUME StoreInv, NEW r \in RunIds, NEW approval \in Approval,
           NEW now \in Stamps, ApproveBlueprint(r, approval, now), Exists(r)'
    PROVE  RowInv(r)'
<1> DEFINE route == runs[r].decision.route
<1>1. /\ RowInv(r) /\ Exists(r) /\ ~IsLocked(r) /\ runs[r] \in Run
      BY DEF StoreInv, StoreTypeOK, RowInv, ApproveBlueprint, ApprovalMatches,
             Has, Exists, Terminal
<1>2. route \in Executable /\ route \in Routes
      BY <1>1 DEF ApproveBlueprint, Run, Decisions, Routes, Executable
<1>3. /\ runs'[r].status = "queued"
      /\ runs'[r].locked = now
      /\ runs'[r].decision = runs[r].decision
      /\ approvals'[r]["blueprint"] = approval
      BY <1>1 DEF ApproveBlueprint, InsertApproval, StoreInv, StoreTypeOK, Run,
                  Kinds
<1>4. IsLocked(r)'
      BY <1>3, StoreNulls DEF IsLocked, Stamps
<1>5. approval # NoApproval /\ approval.decision = "approved"
      BY StoreNulls DEF ApproveBlueprint
<1>6. ApprovalMatches(r)'
      BY <1>2, <1>3, <1>4, <1>5 DEF ApprovalMatches, Has, Exists, IsLocked, Terminal
<1>7. \A e \in EventRows :
        log'[r][e] = IF e \in {<<"routing.locked", route>>}
                             \cup {<<"approval.approved", "blueprint">>}
                     THEN log[r][e] + 1 ELSE log[r][e]
  <2>1. log[r] \in [EventRows -> Nat]
        BY DEF StoreInv, StoreTypeOK
  <2>2. log'[r] = WithRows(log[r], {<<"routing.locked", route>>}
                                  \cup {<<"approval.approved", "blueprint">>})
        BY <1>5 DEF ApproveBlueprint, InsertApproval, StoreInv, StoreTypeOK
  <2>3. QED
        BY <2>1, <2>2, WithRowsCounts
<1>8. Unattempted(r)
      BY <1>1 DEF RowInv
<1>9. /\ \A type \in ExecutionEvents, q \in Routes :
            Count(r, type, q)' = IF type = "routing.locked" /\ q = route
                                 THEN 1 ELSE 0
      /\ Count(r, "run.requeued-after-stale-lease", NoTag)' = 0
  <2>1. ASSUME NEW type \in ExecutionEvents, NEW q \in Routes
        PROVE  Count(r, type, q)' = IF type = "routing.locked" /\ q = route
                                    THEN 1 ELSE 0
    <3>1. Count(r, type, q) = 0 /\ <<type, q>> \in EventRows
          BY <1>8, RowKinds DEF Unattempted
    <3>2. <<type, q>> # <<"approval.approved", "blueprint">>
          BY DEF ExecutionEvents
    <3>3. QED
          BY <1>7, <3>1, <3>2 DEF Count
  <2>2. Count(r, "run.requeued-after-stale-lease", NoTag)' = 0
        BY <1>7, <1>8, RowKinds DEF Unattempted, Count
  <2>3. QED
        BY <2>1, <2>2
<1>10. AttemptsMatch(r)' /\ RouteHeld(r)'
      BY <1>2, <1>3, <1>4, <1>9
      DEF AttemptsMatch, RouteHeld, ExecutionEvents
<1>11. QED
      BY <1>4, <1>6, <1>10 DEF RowInv

LEMMA RejectedRow ==
    ASSUME StoreInv, NEW r \in RunIds, NEW approval \in Approval,
           NEW now \in Stamps, RejectBlueprint(r, approval, now), Exists(r)'
    PROVE  RowInv(r)'
<1>1. /\ RowInv(r) /\ Exists(r) /\ ~IsLocked(r) /\ runs[r] \in Run
      BY DEF StoreInv, StoreTypeOK, RowInv, RejectBlueprint, ApprovalMatches,
             Has, Exists, Terminal
<1>2. /\ runs'[r].status = "rejected"
      /\ runs'[r].locked = runs[r].locked
      /\ runs'[r].decision = runs[r].decision
      /\ approvals'[r]["blueprint"] = approval
      BY <1>1 DEF RejectBlueprint, InsertApproval, StoreInv, StoreTypeOK, Run,
                  Kinds
<1>3. approval # NoApproval /\ approval.decision = "rejected"
      BY StoreNulls DEF RejectBlueprint
<1>4. ApprovalMatches(r)' /\ ~IsLocked(r)'
      BY <1>1, <1>2, <1>3 DEF ApprovalMatches, Has, Exists, IsLocked, Terminal
<1>5. Unattempted(r)'
  <2>1. log'[r] = WithRows(log[r], {<<"approval.rejected", "blueprint">>})
    <3>1. {} \cup {<<"approval.rejected", "blueprint">>}
            = {<<"approval.rejected", "blueprint">>}
          OBVIOUS
    <3>2. QED
          BY <1>3, <3>1 DEF RejectBlueprint, InsertApproval, StoreInv, StoreTypeOK
  <2>2. /\ \A type \in ExecutionEvents, route \in Routes :
              <<type, route>> \notin {<<"approval.rejected", "blueprint">>}
        /\ <<"run.requeued-after-stale-lease", NoTag>>
              \notin {<<"approval.rejected", "blueprint">>}
        BY DEF ExecutionEvents
  <2>3. Unattempted(r) /\ StoreTypeOK
        BY <1>1 DEF RowInv, StoreInv
  <2>4. QED
        BY <1>1, <2>1, <2>2, <2>3, UncountedRows DEF Unattempted
<1>6. runs[r].decision.route \in Routes
      BY <1>1 DEF Run, Decisions
<1>7. AttemptsMatch(r)' /\ RouteHeld(r)'
      BY <1>2, <1>4, <1>5, <1>6
      DEF AttemptsMatch, RouteHeld, Unattempted, ExecutionEvents
<1>8. QED
      BY <1>4, <1>5, <1>7 DEF RowInv

(* A test approval or an appended event leaves status, lock, decision,     *)
(* blueprint approval and every counted event of the row alone.            *)
LEMMA UndisturbedRow ==
    ASSUME NEW s \in RunIds, RowInv(s), Exists(s), Exists(s)',
           runs'[s].status = runs[s].status,
           runs'[s].locked = runs[s].locked,
           runs'[s].decision = runs[s].decision,
           approvals'[s]["blueprint"] = approvals[s]["blueprint"],
           \A type \in ExecutionEvents, route \in Routes :
               Count(s, type, route)' = Count(s, type, route),
           Count(s, "run.requeued-after-stale-lease", NoTag)' =
               Count(s, "run.requeued-after-stale-lease", NoTag),
           runs[s].decision.route \in Routes
    PROVE  RowInv(s)'
<1>1. /\ IsLocked(s)' <=> IsLocked(s)
      /\ \A statuses : Has(s, statuses)' <=> Has(s, statuses)
      BY DEF IsLocked, Has, Exists
<1>2. ApprovalMatches(s)'
      BY <1>1 DEF RowInv, ApprovalMatches, IsLocked, Has
<1>3. ~IsLocked(s)' => Unattempted(s)'
      BY <1>1 DEF RowInv, Unattempted
<1>4. AttemptsMatch(s)' /\ RouteHeld(s)'
      BY <1>1 DEF RowInv, AttemptsMatch, RouteHeld, ExecutionEvents
<1>5. QED
      BY <1>2, <1>3, <1>4 DEF RowInv

LEMMA TestedRow ==
    ASSUME StoreInv, NEW r \in RunIds, NEW approval \in Approval,
           NEW now \in Stamps, RecordTestApproval(r, approval, now), Exists(r)'
    PROVE  RowInv(r)'
<1> DEFINE row == <<IF approval.decision = "approved"
                    THEN "approval.approved" ELSE "approval.rejected", "test">>
<1>1. /\ RowInv(r) /\ Exists(r) /\ runs[r] \in Run
      BY DEF StoreInv, StoreTypeOK, RecordTestApproval, Exists
<1>2. /\ runs'[r].status = runs[r].status
      /\ runs'[r].locked = runs[r].locked
      /\ runs'[r].decision = runs[r].decision
      /\ approvals'[r]["blueprint"] = approvals[r]["blueprint"]
      BY <1>1 DEF RecordTestApproval, InsertApproval, StoreInv, StoreTypeOK,
                  Run, Kinds
<1>3. log'[r] = WithRows(log[r], {row})
  <2>1. {} \cup {row} = {row}
        OBVIOUS
  <2>2. QED
        BY <2>1 DEF RecordTestApproval, InsertApproval, StoreInv, StoreTypeOK
<1>4. /\ \A type \in ExecutionEvents, route \in Routes : <<type, route>> \notin {row}
      /\ <<"run.requeued-after-stale-lease", NoTag>> \notin {row}
      BY DEF ExecutionEvents
<1>5. runs[r].decision.route \in Routes /\ StoreTypeOK
      BY <1>1 DEF Run, Decisions, StoreInv
<1> HIDE DEF row
<1>6. QED
      BY <1>1, <1>2, <1>3, <1>4, <1>5, UncountedRows, UndisturbedRow

LEMMA AppendedRow ==
    ASSUME StoreInv, NEW r \in RunIds, NEW row \in CallerRows,
           AppendEvent(r, row)
    PROVE  RowInv(r)'
<1>1. /\ RowInv(r) /\ Exists(r) /\ runs[r] \in Run /\ StoreTypeOK
      BY DEF StoreInv, StoreTypeOK, AppendEvent, Exists
<1>2. runs' = runs /\ approvals' = approvals /\ Exists(r)'
      BY <1>1 DEF AppendEvent, Exists
<1>3. log'[r] = WithRows(log[r], {row})
      BY DEF AppendEvent, StoreInv, StoreTypeOK
<1>4. /\ \A type \in ExecutionEvents, route \in Routes : <<type, route>> \notin {row}
      /\ <<"run.requeued-after-stale-lease", NoTag>> \notin {row}
      BY CallerRowsDistinct DEF StoreRows
<1>5. runs[r].decision.route \in Routes
      BY <1>1 DEF Run, Decisions
<1>6. QED
      BY <1>1, <1>2, <1>3, <1>4, <1>5, UncountedRows, UndisturbedRow

(* A locked row stays sound when it moves between the statuses of a locked *)
(* row, if the counted events move with it.                                *)
LEMMA LockedRowMoves ==
    ASSUME NEW s \in RunIds, StoreTypeOK, RowInv(s), IsLocked(s), Exists(s)',
           runs'[s].status \in {"queued", "running"} \cup Terminal,
           runs'[s].locked = runs[s].locked,
           runs'[s].decision = runs[s].decision,
           approvals'[s] = approvals[s],
           AttemptsMatch(s)',
           \A type \in ExecutionEvents, route \in Routes :
               Count(s, type, route)' > 0 => \/ route = runs[s].decision.route
                                            \/ Count(s, type, route) > 0
    PROVE  RowInv(s)'
<1>1. Exists(s) /\ IsLocked(s)'
      BY DEF IsLocked, Exists
<1>2. ApprovalMatches(s)'
      BY <1>1 DEF RowInv, ApprovalMatches, Has, Exists, IsLocked, Terminal
<1>3. RouteHeld(s)'
      BY <1>1 DEF RowInv, RouteHeld
<1>4. QED
      BY <1>1, <1>2, <1>3 DEF RowInv

LEMMA ClaimedRow ==
    ASSUME StoreInv, NEW r \in RunIds, NEW now \in Stamps,
           ClaimNextRun(r, now), Exists(r)'
    PROVE  RowInv(r)'
<1> DEFINE route == runs[r].decision.route
<1>1. /\ RowInv(r) /\ Exists(r) /\ IsLocked(r) /\ runs[r] \in Run
      /\ runs[r].status = "queued" /\ StoreTypeOK
      BY DEF StoreInv, StoreTypeOK, ClaimNextRun, Claimable, Has, Exists
<1>2. route \in Routes
      BY <1>1 DEF Run, Decisions
<1>3. /\ runs'[r].status = "running"
      /\ runs'[r].locked = runs[r].locked
      /\ runs'[r].decision = runs[r].decision
      /\ approvals'[r] = approvals[r]
      BY <1>1 DEF ClaimNextRun, StoreTypeOK, Run
<1>4. /\ \A type \in ExecutionEvents, q \in Routes :
            Count(r, type, q)' = IF type = "run.started" /\ q = route
                                 THEN Count(r, type, q) + 1
                                 ELSE Count(r, type, q)
      /\ Count(r, "run.requeued-after-stale-lease", NoTag)' =
            Count(r, "run.requeued-after-stale-lease", NoTag)
  <2>1. log'[r] = WithRows(log[r], {<<"run.started", route>>})
        BY DEF ClaimNextRun, StoreInv, StoreTypeOK
  <2>2. \A e \in EventRows :
            log'[r][e] = IF e = <<"run.started", route>>
                         THEN log[r][e] + 1 ELSE log[r][e]
        BY <1>1, <2>1, WithRowsCounts DEF StoreTypeOK
  <2>3. QED
        BY <2>2, RowKinds DEF Count
<1>5. IsLocked(r)'
      BY <1>1, <1>3 DEF IsLocked
<1>6. AttemptsMatch(r) /\ Count(r, "run.started", route) \in Nat
      BY <1>1, <1>2, RowKinds
      DEF RowInv, Count, StoreTypeOK, ExecutionEvents
<1>7. AttemptsMatch(r)'
  <2>1. Count(r, "run.requeued-after-stale-lease", NoTag) \in Nat
        BY <1>1, RowKinds DEF Count, StoreTypeOK
  <2>2. QED
        BY <1>1, <1>2, <1>3, <1>4, <1>5, <1>6, <2>1
        DEF AttemptsMatch, ExecutionEvents
<1>8. QED
      BY <1>1, <1>3, <1>4, <1>7, LockedRowMoves DEF ExecutionEvents

LEMMA RequeuedRow ==
    ASSUME StoreInv, NEW now \in Stamps, RequeueStaleRuns(now),
           NEW r \in StaleRuns(now), Exists(r)'
    PROVE  RowInv(r)'
<1> DEFINE route == runs[r].decision.route
<1>1. /\ r \in RunIds /\ RowInv(r) /\ Exists(r) /\ runs[r] \in Run
      /\ runs[r].status = "running" /\ StoreTypeOK
      BY DEF StoreInv, StoreTypeOK, StaleRuns, Has, Exists
<1>2. route \in Routes /\ IsLocked(r)
      BY <1>1 DEF Run, Decisions, RowInv, ApprovalMatches, Has
<1>3. /\ runs'[r].status = "queued"
      /\ runs'[r].locked = runs[r].locked
      /\ runs'[r].decision = runs[r].decision
      /\ approvals'[r] = approvals[r]
  <2>1. runs'[r] = [runs[r] EXCEPT !.status = "queued", !.updated = now]
        BY <1>1 DEF RequeueStaleRuns
  <2>2. QED
        BY <1>1, <2>1 DEF Run, RequeueStaleRuns
<1>4. /\ \A type \in ExecutionEvents, q \in Routes :
            Count(r, type, q)' = Count(r, type, q)
      /\ Count(r, "run.requeued-after-stale-lease", NoTag)' =
            Count(r, "run.requeued-after-stale-lease", NoTag) + 1
  <2>1. log'[r] = WithRows(log[r], {<<"run.requeued-after-stale-lease", NoTag>>})
        BY <1>1 DEF RequeueStaleRuns
  <2>2. \A e \in EventRows :
            log'[r][e] = IF e = <<"run.requeued-after-stale-lease", NoTag>>
                         THEN log[r][e] + 1 ELSE log[r][e]
        BY <1>1, <2>1, WithRowsCounts DEF StoreTypeOK
  <2>3. \A type \in ExecutionEvents, q \in Routes :
            <<type, q>> # <<"run.requeued-after-stale-lease", NoTag>>
        BY DEF ExecutionEvents
  <2>4. QED
        BY <2>2, <2>3, RowKinds DEF Count
<1>5. IsLocked(r)'
      BY <1>2, <1>3 DEF IsLocked
<1>6. AttemptsMatch(r)'
  <2>1. Count(r, "run.requeued-after-stale-lease", NoTag) \in Nat
        BY <1>1, RowKinds DEF Count, StoreTypeOK
  <2>2. AttemptsMatch(r)
        BY <1>1 DEF RowInv
  <2>3. QED
        BY <1>1, <1>2, <1>3, <1>4, <1>5, <2>1, <2>2
        DEF AttemptsMatch, ExecutionEvents
<1>7. QED
      BY <1>1, <1>2, <1>3, <1>4, <1>6, LockedRowMoves

LEMMA CompletedRow ==
    ASSUME StoreInv, NEW r \in RunIds, NEW result \in ResultStatuses,
           NEW succeeded \in BOOLEAN, NEW now \in Stamps,
           CompleteRun(r, result, succeeded, now), Exists(r)'
    PROVE  RowInv(r)'
<1> DEFINE route == runs[r].decision.route
           status == IF succeeded THEN "completed" ELSE "failed"
           event == IF succeeded THEN "run.completed" ELSE "run.failed"
<1>1. /\ RowInv(r) /\ Exists(r) /\ runs[r] \in Run
      /\ runs[r].status = "running" /\ StoreTypeOK
      BY DEF StoreInv, StoreTypeOK, CompleteRun, Has, Exists
<1>2. route \in Routes /\ IsLocked(r)
      BY <1>1 DEF Run, Decisions, RowInv, ApprovalMatches, Has
<1>3. /\ runs'[r].status = status
      /\ runs'[r].locked = runs[r].locked
      /\ runs'[r].decision = runs[r].decision
      /\ approvals'[r] = approvals[r]
      BY <1>1 DEF CompleteRun, StoreTypeOK, Run
<1>4. /\ \A type \in ExecutionEvents, q \in Routes :
            Count(r, type, q)' = IF type = event /\ q = route
                                 THEN Count(r, type, q) + 1
                                 ELSE Count(r, type, q)
      /\ Count(r, "run.requeued-after-stale-lease", NoTag)' =
            Count(r, "run.requeued-after-stale-lease", NoTag)
  <2>1. log'[r] = WithRows(log[r], {<<event, route>>})
        BY DEF CompleteRun, StoreInv, StoreTypeOK
  <2>2. \A e \in EventRows :
            log'[r][e] = IF e = <<event, route>>
                         THEN log[r][e] + 1 ELSE log[r][e]
        BY <1>1, <2>1, WithRowsCounts DEF StoreTypeOK
  <2>3. QED
        BY <2>2, RowKinds DEF Count
<1>5. IsLocked(r)'
      BY <1>2, <1>3 DEF IsLocked
<1>6. AttemptsMatch(r)'
  <2>1. /\ Count(r, "run.requeued-after-stale-lease", NoTag) \in Nat
        /\ Count(r, "run.started", route) \in Nat
        BY <1>1, <1>2, RowKinds DEF Count, StoreTypeOK, ExecutionEvents
  <2>2. AttemptsMatch(r)
        BY <1>1 DEF RowInv
  <2>3. QED
        BY <1>1, <1>2, <1>3, <1>4, <1>5, <2>1, <2>2
        DEF AttemptsMatch, ExecutionEvents
<1>7. status \in Terminal
      BY DEF Terminal
<1>8. QED
      BY <1>1, <1>2, <1>3, <1>4, <1>6, <1>7, LockedRowMoves

LEMMA RowsStep ==
    ASSUME StoreInv, [StoreNext]_storeVars
    PROVE  \A s \in RunIds : RowInv(s)'
<1>1. CASE CreateStep
  <2>1. PICK r \in RunIds, key \in Keys, request \in Requests,
             decision \in Decisions, now \in Stamps :
                CreateRun(r, key, request, decision, now)
        BY <1>1 DEF CreateStep
  <2>2. CASE InsertRun(r, key, request, decision, now)
    <3>1. RowInv(r)'
          BY <2>2, InsertedRow
    <3>2. \A s \in RunIds : s # r => /\ runs'[s] = runs[s]
                                     /\ approvals'[s] = approvals[s]
                                     /\ log'[s] = log[s]
          BY <2>2 DEF InsertRun, StoreInv, StoreTypeOK
    <3>3. QED
          BY <3>1, <3>2, RowFrame DEF StoreInv
  <2>3. CASE ReturnExisting(r, key, request)
        BY <2>3, RowFrame DEF ReturnExisting, StoreInv
  <2>4. QED
        BY <2>1, <2>2, <2>3 DEF CreateRun
<1>2. CASE RoutingStep
  <2>1. PICK r \in RunIds, decision \in Decisions, now \in Stamps :
                SetRoutingDecision(r, decision, now)
        BY <1>2 DEF RoutingStep
  <2>2. Exists(r)'
        BY <1>2, <2>1, IdentityKept DEF StoreInv, SetRoutingDecision, Has
  <2>3. RowInv(r)'
        BY <2>1, <2>2, RoutedRow
  <2>4. \A s \in RunIds : s # r => /\ runs'[s] = runs[s]
                                   /\ approvals'[s] = approvals[s]
                                   /\ log'[s] = log[s]
        BY <2>1 DEF StoreInv, StoreTypeOK, SetRoutingDecision
  <2>5. QED
        BY <2>3, <2>4, RowFrame DEF StoreInv
<1>3. CASE ApprovalStep
  <2>1. PICK r \in RunIds, kind \in Kinds, approval \in Approval,
             now \in Stamps : RecordApproval(r, kind, approval, now)
        BY <1>3 DEF ApprovalStep
  <2>2. Exists(r)'
        BY <1>3, <2>1, IdentityKept
        DEF StoreInv, RecordApproval, ApproveBlueprint, RejectBlueprint,
            RecordTestApproval, Has
  <2>3. RowInv(r)'
        BY <2>1, <2>2, ApprovedRow, RejectedRow, TestedRow DEF RecordApproval
  <2>4. \A s \in RunIds : s # r => /\ runs'[s] = runs[s]
                                   /\ approvals'[s] = approvals[s]
                                   /\ log'[s] = log[s]
        BY <2>1 DEF StoreInv, StoreTypeOK, RecordApproval, ApproveBlueprint,
                    RejectBlueprint, RecordTestApproval, InsertApproval
  <2>5. QED
        BY <2>3, <2>4, RowFrame DEF StoreInv
<1>4. CASE ClaimStep
  <2>1. PICK r \in RunIds, now \in Stamps : ClaimNextRun(r, now)
        BY <1>4 DEF ClaimStep
  <2>2. Exists(r)'
        BY <1>4, <2>1, IdentityKept DEF StoreInv, ClaimNextRun, Claimable, Has
  <2>3. RowInv(r)'
        BY <2>1, <2>2, ClaimedRow
  <2>4. \A s \in RunIds : s # r => /\ runs'[s] = runs[s]
                                   /\ approvals'[s] = approvals[s]
                                   /\ log'[s] = log[s]
        BY <2>1 DEF StoreInv, StoreTypeOK, ClaimNextRun, Claimable
  <2>5. QED
        BY <2>3, <2>4, RowFrame DEF StoreInv
<1>5. CASE RequeueStep
  <2>1. PICK now \in Stamps : RequeueStaleRuns(now)
        BY <1>5 DEF RequeueStep
  <2>2. ASSUME NEW s \in StaleRuns(now)
        PROVE  RowInv(s)'
    <3>1. Exists(s)'
          BY <1>5, IdentityKept DEF StoreInv, StaleRuns, Has
    <3>2. QED
          BY <2>1, <3>1, RequeuedRow
  <2>3. \A s \in RunIds \ StaleRuns(now) : /\ runs'[s] = runs[s]
                                           /\ approvals'[s] = approvals[s]
                                           /\ log'[s] = log[s]
        BY <2>1 DEF RequeueStaleRuns
  <2>4. QED
        BY <2>2, <2>3, RowFrame DEF StoreInv
<1>6. CASE CompleteStep
  <2>1. PICK r \in RunIds, result \in ResultStatuses, now \in Stamps :
                CompleteRun(r, result, result # "failed", now)
        BY <1>6 DEF CompleteStep
  <2>2. Exists(r)'
        BY <1>6, <2>1, IdentityKept DEF StoreInv, CompleteRun, Has
  <2>3. RowInv(r)'
        BY <2>1, <2>2, CompletedRow
  <2>4. \A s \in RunIds : s # r => /\ runs'[s] = runs[s]
                                   /\ approvals'[s] = approvals[s]
                                   /\ log'[s] = log[s]
        BY <2>1 DEF StoreInv, StoreTypeOK, CompleteRun
  <2>5. QED
        BY <2>3, <2>4, RowFrame DEF StoreInv
<1>7. CASE AppendStep
  <2>1. PICK r \in RunIds, row \in CallerRows : AppendEvent(r, row)
        BY <1>7 DEF AppendStep
  <2>2. RowInv(r)'
        BY <2>1, AppendedRow
  <2>3. \A s \in RunIds : s # r => /\ runs'[s] = runs[s]
                                   /\ approvals'[s] = approvals[s]
                                   /\ log'[s] = log[s]
        BY <2>1 DEF StoreInv, StoreTypeOK, AppendEvent
  <2>4. QED
        BY <2>2, <2>3, RowFrame DEF StoreInv
<1>8. CASE Tick \/ UNCHANGED storeVars
      BY <1>8, RowFrame DEF Tick, storeVars, StoreInv
<1>9. QED
      BY <1>1, <1>2, <1>3, <1>4, <1>5, <1>6, <1>7, <1>8 DEF StoreNext

LEMMA InvStep == StoreInv /\ [StoreNext]_storeVars => StoreInv'
<1> SUFFICES ASSUME StoreInv, [StoreNext]_storeVars PROVE StoreInv'
    OBVIOUS
<1>1. StoreTypeOK'
      BY TypeStep DEF StoreInv
<1>2. QED
      BY <1>1, KeysStep, RowsStep DEF StoreInv

(* The inductive invariant: types, unique keys, replies that describe      *)
(* their rows, and the invariant of every row.                             *)
THEOREM StoreInvariance == StoreSpec => []StoreInv
<1>1. QED
      BY InvInit, InvStep, PTL DEF StoreSpec

(* An Idempotency-Key is bound to one request and one run for ever, however*)
(* many callers retry it and whatever happens to the run in between.       *)
THEOREM KeyBinding == StoreSpec => []KeyBindsOneRequest
<1>1. StoreInv => KeyBindsOneRequest
  <2> SUFFICES ASSUME StoreInv, NEW p \in replies, NEW q \in replies,
                      p.key = q.key
               PROVE  p = q
      BY DEF KeyBindsOneRequest
  <2>1. /\ p \in [key : Keys, request : Requests, run : RunIds]
        /\ q \in [key : Keys, request : Requests, run : RunIds]
        BY DEF StoreInv, StoreTypeOK
  <2>2. p.run = q.run
        BY <2>1 DEF StoreInv, KeysAreUnique, RepliesDescribeRows
  <2>3. p.request = q.request
        BY <2>1, <2>2 DEF StoreInv, RepliesDescribeRows
  <2>4. QED
        BY <2>1, <2>2, <2>3
<1>2. QED
      BY <1>1, StoreInvariance, PTL

(* Nothing is locked, queued or executed without an approved blueprint on  *)
(* an executable route, in any interleaving of the store's transactions.   *)
THEOREM ApprovalGate == StoreSpec => []OnlyApprovedRunsAreLocked
<1>1. StoreInv => OnlyApprovedRunsAreLocked
      BY DEF StoreInv, RowInv, OnlyApprovedRunsAreLocked
<1>2. QED
      BY <1>1, StoreInvariance, PTL

(* The audit trail accounts for every claim, requeue and end of every run. *)
THEOREM AuditAccounting == StoreSpec => []AttemptsAreAccounted
<1>1. StoreInv => AttemptsAreAccounted
      BY DEF StoreInv, RowInv, AttemptsAreAccounted
<1>2. QED
      BY <1>1, StoreInvariance, PTL

(* No lock, claim or end event ever names a route the run does not have.   *)
THEOREM RouteStability == StoreSpec => []NoRouteDrift
<1>1. StoreInv => NoRouteDrift
      BY DEF StoreInv, RowInv, NoRouteDrift
<1>2. QED
      BY <1>1, StoreInvariance, PTL

-----------------------------------------------------------------------------
(* What no step may undo *)

LEMMA EndStep ==
    ASSUME StoreInv, [StoreNext]_storeVars
    PROVE  \A r \in RunIds : ContractKept(r) /\ EndKept(r)
<1>0. /\ runs \in [RunIds -> Run \cup {NoRun}]
      /\ \A r \in RunIds : Exists(r) => runs[r] \in Run
      /\ \A r \in RunIds : runs'[r] = runs[r] => ContractKept(r) /\ EndKept(r)
      BY DEF StoreInv, StoreTypeOK, Exists, ContractKept, EndKept
<1>1. CASE CreateStep
  <2>1. ASSUME NEW s \in RunIds, Exists(s)
        PROVE  runs'[s] = runs[s]
        BY <1>0, <1>1, <2>1 DEF CreateStep, CreateRun, InsertRun, ReturnExisting
  <2>2. QED
        BY <1>0, <2>1 DEF ContractKept, EndKept, Has
<1>2. CASE RoutingStep
  <2>1. PICK r \in RunIds, decision \in Decisions, now \in Stamps :
                SetRoutingDecision(r, decision, now)
        BY <1>2 DEF RoutingStep
  <2>2. ~IsLocked(r) /\ ~Has(r, Terminal \cup {"rejected"})
        BY <2>1 DEF SetRoutingDecision, Has, Terminal
  <2>3. \A s \in RunIds : s # r => runs'[s] = runs[s]
        BY <1>0, <2>1 DEF SetRoutingDecision
  <2>4. ContractKept(r) /\ EndKept(r)
        BY <1>2, <2>2, IdentityKept DEF ContractKept, EndKept, StoreInv, Exists
  <2>5. QED
        BY <1>0, <2>3, <2>4
<1>3. CASE ApprovalStep
  <2>1. PICK r \in RunIds, kind \in Kinds, approval \in Approval,
             now \in Stamps : RecordApproval(r, kind, approval, now)
        BY <1>3 DEF ApprovalStep
  <2>2. \A s \in RunIds : s # r => runs'[s] = runs[s]
        BY <1>0, <2>1 DEF RecordApproval, ApproveBlueprint, RejectBlueprint,
                          RecordTestApproval
  <2>3. CASE ApproveBlueprint(r, approval, now) \/ RejectBlueprint(r, approval, now)
    <3>1. /\ Exists(r)
          /\ runs[r].status = "awaiting-blueprint-approval"
          BY <2>3 DEF ApproveBlueprint, RejectBlueprint, Has
    <3>2. ~IsLocked(r) /\ ~Has(r, Terminal \cup {"rejected"})
          BY <3>1 DEF StoreInv, RowInv, ApprovalMatches, Has, Terminal
    <3>3. QED
          BY <1>0, <1>3, <2>2, <3>2, IdentityKept
          DEF ContractKept, EndKept, StoreInv, Exists
  <2>4. CASE RecordTestApproval(r, approval, now)
    <3>1. Exists(r) /\ runs' = [runs EXCEPT ![r].updated = now]
          BY <2>4 DEF RecordTestApproval
    <3>2. /\ runs'[r].decision = runs[r].decision
          /\ runs'[r].locked = runs[r].locked
          /\ runs'[r].status = runs[r].status
          /\ runs'[r].result = runs[r].result
          BY <1>0, <3>1 DEF Run
    <3>3. QED
          BY <1>0, <1>3, <2>2, <3>2, IdentityKept
          DEF ContractKept, EndKept, StoreInv, Exists
  <2>5. QED
        BY <2>1, <2>3, <2>4 DEF RecordApproval
<1>4. CASE ClaimStep
  <2>1. PICK r \in RunIds, now \in Stamps : ClaimNextRun(r, now)
        BY <1>4 DEF ClaimStep
  <2>2. Exists(r) /\ ~Has(r, Terminal \cup {"rejected"})
        BY <2>1 DEF ClaimNextRun, Claimable, Has, Terminal
  <2>3. /\ runs'[r].decision = runs[r].decision
        /\ runs'[r].locked = runs[r].locked
        /\ \A s \in RunIds : s # r => runs'[s] = runs[s]
        BY <1>0, <2>1, <2>2 DEF ClaimNextRun, Run
  <2>4. QED
        BY <1>0, <1>4, <2>2, <2>3, IdentityKept
        DEF ContractKept, EndKept, StoreInv, Exists
<1>5. CASE RequeueStep
  <2>1. PICK now \in Stamps : RequeueStaleRuns(now)
        BY <1>5 DEF RequeueStep
  <2>2. \A s \in RunIds \ StaleRuns(now) : runs'[s] = runs[s]
        BY <2>1 DEF RequeueStaleRuns
  <2>3. ASSUME NEW s \in StaleRuns(now)
        PROVE  ContractKept(s) /\ EndKept(s)
    <3>1. s \in RunIds /\ Exists(s) /\ ~Has(s, Terminal \cup {"rejected"})
          BY DEF StaleRuns, Has, Terminal
    <3>2. runs'[s] = [runs[s] EXCEPT !.status = "queued", !.updated = now]
          BY <2>1, <3>1 DEF RequeueStaleRuns
    <3>3. /\ runs'[s].decision = runs[s].decision
          /\ runs'[s].locked = runs[s].locked
          BY <1>0, <3>1, <3>2 DEF Run
    <3>4. QED
          BY <1>5, <3>1, <3>3, IdentityKept
          DEF ContractKept, EndKept, StoreInv, Exists
  <2>4. QED
        BY <1>0, <2>2, <2>3
<1>6. CASE CompleteStep
  <2>1. PICK r \in RunIds, result \in ResultStatuses, now \in Stamps :
                CompleteRun(r, result, result # "failed", now)
        BY <1>6 DEF CompleteStep
  <2>2. Exists(r) /\ ~Has(r, Terminal \cup {"rejected"})
        BY <2>1 DEF CompleteRun, Has, Terminal
  <2>3. /\ runs'[r].decision = runs[r].decision
        /\ runs'[r].locked = runs[r].locked
        /\ \A s \in RunIds : s # r => runs'[s] = runs[s]
        BY <1>0, <2>1, <2>2 DEF CompleteRun, Run
  <2>4. QED
        BY <1>0, <1>6, <2>2, <2>3, IdentityKept
        DEF ContractKept, EndKept, StoreInv, Exists
<1>7. CASE AppendStep \/ Tick \/ UNCHANGED storeVars
      BY <1>0, <1>7 DEF AppendStep, AppendEvent, Tick, storeVars
<1>8. QED
      BY <1>1, <1>2, <1>3, <1>4, <1>5, <1>6, <1>7 DEF StoreNext

(* The route a run was approved with, its lock and the request bound to    *)
(* its key survive every step of every caller.                             *)
THEOREM ContractTheorem == StoreSpec => RowsKeepTheirContract
<1>1. StoreInv /\ [StoreNext]_storeVars
          => [\A r \in RunIds : ContractKept(r)]_storeVars
      BY EndStep
<1>2. QED
      BY <1>1, StoreInvariance, PTL DEF StoreSpec, RowsKeepTheirContract

(* No late completion, approval or requeue reopens or rewrites an ended run.*)
THEOREM EndTheorem == StoreSpec => EndedRunsStayEnded
<1>1. StoreInv /\ [StoreNext]_storeVars
          => [\A r \in RunIds : EndKept(r)]_storeVars
      BY EndStep
<1>2. QED
      BY <1>1, StoreInvariance, PTL DEF StoreSpec, EndedRunsStayEnded

-----------------------------------------------------------------------------
(* The run store implements the run life cycle, for any callers. *)

UniqueKeys(table) ==
    \A r, s \in RunIds :
        table[r] # NoRun /\ table[s] # NoRun /\ table[r].key = table[s].key
            => r = s

-----------------------------------------------------------------------------
(* Lemmas about the board a table of rows shows *)

LEMMA BoardAt ==
    ASSUME NEW table, UniqueKeys(table), NEW r \in RunIds, table[r] # NoRun,
           table[r].key \in Keys
    PROVE  BoardOf(table)[table[r].key] = JobOf(table[r])
<1>1. BoundTo(table, table[r].key) = {r}
      BY DEF BoundTo, UniqueKeys
<1>2. QED
      BY <1>1 DEF BoardOf

LEMMA BoardFree ==
    ASSUME NEW table, NEW key \in Keys,
           \A r \in RunIds : table[r] # NoRun => table[r].key # key
    PROVE  BoardOf(table)[key] = NoRun
<1>1. BoundTo(table, key) = {}
      BY DEF BoundTo
<1>2. QED
      BY <1>1 DEF BoardOf

(* When one row changes and keeps its key, or appears under a free key,    *)
(* only the job of that key changes.                                       *)
LEMMA BoardChange ==
    ASSUME NEW before, NEW after, UniqueKeys(before), UniqueKeys(after),
           NEW r \in RunIds, after[r] # NoRun, after[r].key \in Keys,
           \A s \in RunIds : s # r => after[s] = before[s],
           before[r] = NoRun \/ before[r].key = after[r].key
    PROVE  BoardOf(after) =
               [BoardOf(before) EXCEPT ![after[r].key] = JobOf(after[r])]
<1> DEFINE board == [BoardOf(before) EXCEPT ![after[r].key] = JobOf(after[r])]
<1>1. ASSUME NEW key \in Keys
      PROVE  BoardOf(after)[key] = board[key]
  <2>1. CASE key = after[r].key
    <3>1. BoardOf(after)[after[r].key] = JobOf(after[r])
          BY BoardAt
    <3>2. board[key] = JobOf(after[r])
          BY <2>1 DEF BoardOf
    <3>3. QED
          BY <2>1, <3>1, <3>2
  <2>2. CASE key # after[r].key
    <3>1. BoundTo(after, key) = BoundTo(before, key)
          BY <2>2 DEF BoundTo
    <3>2. CASE BoundTo(before, key) = {}
          BY <2>2, <3>1, <3>2 DEF BoardOf
    <3>3. CASE BoundTo(before, key) # {}
      <4>1. PICK s \in BoundTo(before, key) : TRUE
            BY <3>3
      <4>2. /\ s \in RunIds /\ s # r
            /\ before[s] # NoRun /\ before[s].key = key
            BY <2>2, <4>1, <3>1 DEF BoundTo
      <4>3. BoardOf(before)[key] = JobOf(before[s])
            BY <4>2, BoardAt
      <4>4. BoardOf(after)[key] = JobOf(after[s])
            BY <4>2, BoardAt
      <4>5. QED
            BY <2>2, <4>2, <4>3, <4>4 DEF BoardOf
    <3>4. QED
          BY <3>2, <3>3
  <2>3. QED
        BY <2>1, <2>2
<1>2. QED
      BY <1>1 DEF BoardOf

LEMMA UniqueNow == StoreInv => UniqueKeys(runs)
  BY DEF StoreInv, KeysAreUnique, UniqueKeys, Exists

LEMMA UniqueNext == StoreInv' => UniqueKeys(runs')
  BY DEF StoreInv, KeysAreUnique, UniqueKeys, Exists

-----------------------------------------------------------------------------
(* Initial states and steps *)

LEMMA BoardInit == StoreInit => Lifecycle!LifecycleInit
<1> SUFFICES ASSUME StoreInit PROVE JobBoard = [key \in Keys |-> NoRun]
    BY DEF Lifecycle!LifecycleInit
<1>1. ASSUME NEW key \in Keys PROVE BoardOf(runs)[key] = NoRun
      BY BoardFree DEF StoreInit
<1>2. QED
      BY <1>1 DEF JobBoard, BoardOf

(* An existing row that changes in one step of a single-row action.        *)
LEMMA OneRowStep ==
    ASSUME StoreInv, StoreInv', NEW r \in RunIds, runs'[r] # NoRun,
           \A s \in RunIds : s # r => runs'[s] = runs[s],
           runs[r] = NoRun \/ runs[r].key = runs'[r].key
    PROVE  /\ runs'[r].key \in Keys
           /\ JobBoard' = [JobBoard EXCEPT ![runs'[r].key] = JobOf(runs'[r])]
           /\ runs[r] # NoRun => JobBoard[runs[r].key] = JobOf(runs[r])
<1>1. runs'[r] \in Run /\ (runs[r] # NoRun => runs[r] \in Run)
      BY DEF StoreInv, StoreTypeOK
<1>2. runs'[r].key \in Keys /\ (runs[r] # NoRun => runs[r].key \in Keys)
      BY <1>1 DEF Run
<1>3. JobBoard' = [JobBoard EXCEPT ![runs'[r].key] = JobOf(runs'[r])]
      BY <1>2, UniqueNow, UniqueNext, BoardChange DEF JobBoard
<1>4. runs[r] # NoRun => JobBoard[runs[r].key] = JobOf(runs[r])
      BY <1>2, UniqueNow, BoardAt DEF JobBoard
<1>5. QED
      BY <1>2, <1>3, <1>4

LEMMA JobIsNotNull ==
    ASSUME NEW row \in Run
    PROVE  /\ JobOf(row) # NoRun
           /\ JobOf(row).phase = row.status
           /\ JobOf(row).route = row.decision.route
  BY StoreNulls DEF JobOf, Run, Decisions

(* The abstract step of a row whose status alone changes for the board.    *)
LEMMA PhaseStep ==
    ASSUME StoreInv, StoreInv', NEW r \in RunIds, runs[r] # NoRun,
           runs'[r] # NoRun, \A s \in RunIds : s # r => runs'[s] = runs[s],
           runs'[r].key = runs[r].key, runs'[r].request = runs[r].request,
           runs'[r].decision = runs[r].decision
    PROVE  /\ runs[r].key \in Keys
           /\ JobBoard[runs[r].key] = JobOf(runs[r])
           /\ JobBoard' = [JobBoard EXCEPT
                              ![runs[r].key].phase = runs'[r].status]
           /\ runs[r] \in Run
<1>1. /\ runs[r].key \in Keys
      /\ JobBoard[runs[r].key] = JobOf(runs[r])
      /\ JobBoard' = [JobBoard EXCEPT ![runs[r].key] = JobOf(runs'[r])]
      BY OneRowStep
<1>2. JobOf(runs'[r]) = [JobOf(runs[r]) EXCEPT !.phase = runs'[r].status]
      BY DEF JobOf
<1>3. runs[r] \in Run
      BY DEF StoreInv, StoreTypeOK
<1>4. QED
      BY <1>1, <1>2, <1>3

LEMMA BoardStep ==
    ASSUME StoreInv, StoreInv', [StoreNext]_storeVars
    PROVE  [Lifecycle!LifecycleNext]_JobBoard
<1> DEFINE L == Lifecycle!LifecycleNext
<1>0. /\ runs \in [RunIds -> Run \cup {NoRun}]
      /\ \A r \in RunIds : Exists(r) => runs[r] \in Run
      /\ \A r \in RunIds : Exists(r) => ContractKept(r)
      /\ runs' = runs => JobBoard' = JobBoard
      BY EndStep DEF StoreInv, StoreTypeOK, Exists, JobBoard
<1>1. CASE CreateStep
  <2>1. PICK r \in RunIds, key \in Keys, request \in Requests,
             decision \in Decisions, now \in Stamps :
                CreateRun(r, key, request, decision, now)
        BY <1>1 DEF CreateStep
  <2>2. CASE InsertRun(r, key, request, decision, now)
    <3>1. /\ runs'[r].key = key /\ runs'[r].request = request
          /\ runs'[r].status = "awaiting-blueprint-approval"
          /\ runs'[r].decision = decision
          /\ runs[r] = NoRun
          /\ \A s \in RunIds : s # r => runs'[s] = runs[s]
          BY <1>0, <2>2 DEF InsertRun, Exists
    <3>2. runs'[r] # NoRun
      <4>1. now \in Nat
            BY DEF Stamps
      <4>2. runs'[r] \in Run
            BY <1>0, <2>2, <4>1 DEF InsertRun, Run, RunStatuses
      <4>3. QED
            BY <4>2, StoreNulls
    <3>3. JobBoard' = [JobBoard EXCEPT ![key] = JobOf(runs'[r])]
          BY <3>1, <3>2, OneRowStep
    <3>4. JobBoard[key] = NoRun
          BY <2>2, BoardFree DEF InsertRun, JobBoard, Exists
    <3>5. JobOf(runs'[r]) = [request |-> request,
                             phase |-> "awaiting-blueprint-approval",
                             route |-> decision.route]
          BY <3>1 DEF JobOf
    <3>6. Lifecycle!Submit(key, request, decision.route)
          BY <3>3, <3>4, <3>5 DEF Lifecycle!Submit
    <3>7. decision.route \in Routes
          BY DEF Decisions
    <3>8. QED
          BY <3>6, <3>7 DEF Lifecycle!LifecycleNext
  <2>3. CASE ReturnExisting(r, key, request)
        BY <1>0, <2>3 DEF ReturnExisting
  <2>4. QED
        BY <2>1, <2>2, <2>3 DEF CreateRun
<1>2. CASE RoutingStep
  <2>1. PICK r \in RunIds, decision \in Decisions, now \in Stamps :
                SetRoutingDecision(r, decision, now)
        BY <1>2 DEF RoutingStep
  <2>2. Exists(r) /\ runs[r].status = "awaiting-blueprint-approval"
        BY <2>1 DEF SetRoutingDecision, Has
  <2>3. /\ runs'[r].decision = decision
        /\ runs'[r].status = runs[r].status
        /\ runs'[r].key = runs[r].key
        /\ runs'[r].request = runs[r].request
        /\ \A s \in RunIds : s # r => runs'[s] = runs[s]
        BY <1>0, <2>1, <2>2 DEF SetRoutingDecision, Run
  <2>4. /\ runs[r].key \in Keys
        /\ JobBoard[runs[r].key] = JobOf(runs[r])
        /\ JobBoard' = [JobBoard EXCEPT ![runs[r].key] = JobOf(runs'[r])]
        BY <1>0, <2>2, <2>3, OneRowStep DEF ContractKept, Exists
  <2>5. JobOf(runs'[r]) = [JobOf(runs[r]) EXCEPT !.route = decision.route]
        BY <2>3 DEF JobOf
  <2>6. JobOf(runs[r]) # NoRun /\ JobOf(runs[r]).phase = runs[r].status
        BY <1>0, <2>2, JobIsNotNull
  <2>7. Lifecycle!Reroute(runs[r].key, decision.route)
        BY <2>2, <2>4, <2>5, <2>6 DEF Lifecycle!Reroute, Lifecycle!In
  <2>8. decision.route \in Routes
        BY DEF Decisions
  <2>9. QED
        BY <2>4, <2>7, <2>8 DEF Lifecycle!LifecycleNext
<1>3. CASE ApprovalStep
  <2>1. PICK r \in RunIds, kind \in Kinds, approval \in Approval,
             now \in Stamps : RecordApproval(r, kind, approval, now)
        BY <1>3 DEF ApprovalStep
  <2>2. /\ Exists(r) /\ runs[r] \in Run
        /\ runs'[r].decision = runs[r].decision
        /\ \A s \in RunIds : s # r => runs'[s] = runs[s]
    <3>1. Exists(r) /\ runs[r] \in Run
          BY <1>0, <2>1 DEF RecordApproval, ApproveBlueprint, RejectBlueprint,
                            RecordTestApproval, Has
    <3>2. \A s \in RunIds : s # r => runs'[s] = runs[s]
          BY <1>0, <2>1 DEF RecordApproval, ApproveBlueprint, RejectBlueprint,
                            RecordTestApproval
    <3>3. CASE ApproveBlueprint(r, approval, now)
          BY <1>0, <3>1, <3>2, <3>3 DEF ApproveBlueprint, Run
    <3>4. CASE RejectBlueprint(r, approval, now)
          BY <1>0, <3>1, <3>2, <3>4 DEF RejectBlueprint, Run
    <3>5. CASE RecordTestApproval(r, approval, now)
          BY <1>0, <3>1, <3>2, <3>5 DEF RecordTestApproval, Run
    <3>6. QED
          BY <2>1, <3>3, <3>4, <3>5 DEF RecordApproval
  <2>3. /\ runs[r].key \in Keys
        /\ JobBoard[runs[r].key] = JobOf(runs[r])
        /\ JobBoard' = [JobBoard EXCEPT
                          ![runs[r].key].phase = runs'[r].status]
        BY <1>0, <2>2, PhaseStep DEF ContractKept, Exists
  <2>4. /\ JobOf(runs[r]) # NoRun
        /\ JobOf(runs[r]).phase = runs[r].status
        /\ JobOf(runs[r]).route = runs[r].decision.route
        BY <2>2, JobIsNotNull
  <2>5. CASE ApproveBlueprint(r, approval, now)
    <3>1. /\ runs[r].status = "awaiting-blueprint-approval"
          /\ runs[r].decision.route # "blocked"
          /\ runs'[r].status = "queued"
          BY <1>0, <2>2, <2>5 DEF ApproveBlueprint, Has, Run
    <3>2. Lifecycle!Approve(runs[r].key)
          BY <2>3, <2>4, <3>1 DEF Lifecycle!Approve, Lifecycle!In
    <3>3. QED
          BY <2>3, <3>2 DEF Lifecycle!LifecycleNext
  <2>6. CASE RejectBlueprint(r, approval, now)
    <3>1. /\ runs[r].status = "awaiting-blueprint-approval"
          /\ runs'[r].status = "rejected"
          BY <1>0, <2>2, <2>6 DEF RejectBlueprint, Has, Run
    <3>2. Lifecycle!Reject(runs[r].key)
          BY <2>3, <2>4, <3>1 DEF Lifecycle!Reject, Lifecycle!In
    <3>3. QED
          BY <2>3, <3>2 DEF Lifecycle!LifecycleNext
  <2>7. CASE RecordTestApproval(r, approval, now)
    <3>1. runs'[r].status = runs[r].status
          BY <1>0, <2>2, <2>7 DEF RecordTestApproval, Run
    <3>2. JobBoard' = [JobBoard EXCEPT ![runs[r].key].phase = runs[r].status]
          BY <2>3, <3>1
    <3>3. [JobOf(runs[r]) EXCEPT !.phase = runs[r].status] = JobOf(runs[r])
          BY DEF JobOf
    <3>4. JobBoard' = JobBoard
      <4>1. JobBoard = [key \in Keys |-> JobBoard[key]]
            BY DEF JobBoard, BoardOf
      <4>2. JobBoard' = [JobBoard EXCEPT ![runs[r].key] = JobBoard[runs[r].key]]
            BY <2>3, <3>2, <3>3
      <4>3. QED
            BY <4>1, <4>2
    <3>5. QED
          BY <3>4
  <2>8. QED
        BY <2>1, <2>5, <2>6, <2>7 DEF RecordApproval
<1>4. CASE ClaimStep
  <2>1. PICK r \in RunIds, now \in Stamps : ClaimNextRun(r, now)
        BY <1>4 DEF ClaimStep
  <2>2. Exists(r) /\ runs[r].status = "queued"
        BY <2>1 DEF ClaimNextRun, Claimable, Has
  <2>3. /\ runs'[r].status = "running"
        /\ runs'[r].decision = runs[r].decision
        /\ \A s \in RunIds : s # r => runs'[s] = runs[s]
        BY <1>0, <2>1, <2>2 DEF ClaimNextRun, Run
  <2>4. /\ runs[r].key \in Keys
        /\ JobBoard[runs[r].key] = JobOf(runs[r])
        /\ JobBoard' = [JobBoard EXCEPT
                          ![runs[r].key].phase = runs'[r].status]
        /\ runs[r] \in Run
        BY <1>0, <2>2, <2>3, PhaseStep DEF ContractKept, Exists
  <2>5. Lifecycle!Start(runs[r].key)
        BY <2>2, <2>3, <2>4, JobIsNotNull DEF Lifecycle!Start, Lifecycle!In
  <2>6. QED
        BY <2>4, <2>5 DEF Lifecycle!LifecycleNext
<1>5. CASE CompleteStep
  <2>1. PICK r \in RunIds, result \in ResultStatuses, now \in Stamps :
                CompleteRun(r, result, result # "failed", now)
        BY <1>5 DEF CompleteStep
  <2>2. Exists(r) /\ runs[r].status = "running"
        BY <2>1 DEF CompleteRun, Has
  <2>3. /\ runs'[r].status \in {"completed", "failed"}
        /\ runs'[r].decision = runs[r].decision
        /\ \A s \in RunIds : s # r => runs'[s] = runs[s]
        BY <1>0, <2>1, <2>2 DEF CompleteRun, Run
  <2>4. /\ runs[r].key \in Keys
        /\ JobBoard[runs[r].key] = JobOf(runs[r])
        /\ JobBoard' = [JobBoard EXCEPT
                          ![runs[r].key].phase = runs'[r].status]
        /\ runs[r] \in Run
        BY <1>0, <2>2, <2>3, PhaseStep DEF ContractKept, Exists
  <2>5. Lifecycle!Finish(runs[r].key, runs'[r].status)
        BY <2>2, <2>3, <2>4, JobIsNotNull DEF Lifecycle!Finish, Lifecycle!In
  <2>6. QED
        BY <2>3, <2>4, <2>5 DEF Lifecycle!LifecycleNext
<1>6. CASE RequeueStep
  <2>1. PICK now \in Stamps : RequeueStaleRuns(now)
        BY <1>6 DEF RequeueStep
  <2> DEFINE lost == {runs[r].key : r \in StaleRuns(now)}
  <2>2. ASSUME NEW r \in StaleRuns(now)
        PROVE  /\ r \in RunIds /\ Exists(r) /\ runs[r] \in Run
               /\ runs[r].status = "running"
               /\ runs'[r] = [runs[r] EXCEPT !.status = "queued",
                                             !.updated = now]
        BY <1>0, <2>1 DEF StaleRuns, Has, RequeueStaleRuns
  <2>3. \A r \in RunIds \ StaleRuns(now) : runs'[r] = runs[r]
        BY <2>1 DEF RequeueStaleRuns
  <2>4. UniqueKeys(runs) /\ UniqueKeys(runs')
        BY UniqueNow, UniqueNext
  <2>5. ASSUME NEW key \in lost
        PROVE  /\ key \in Keys /\ Lifecycle!In(key, {"running"})
               /\ JobBoard'[key] = [JobBoard[key] EXCEPT !.phase = "queued"]
    <3>1. PICK r \in StaleRuns(now) : runs[r].key = key
          OBVIOUS
    <3>2. key \in Keys
          BY <2>2, <3>1 DEF Run
    <3>3. JobBoard[key] = JobOf(runs[r])
          BY <2>2, <2>4, <3>1, <3>2, BoardAt DEF JobBoard, Exists
    <3>4. /\ runs'[r].key = key /\ runs'[r] # NoRun
          /\ JobOf(runs'[r]) = [JobOf(runs[r]) EXCEPT !.phase = "queued"]
      <4>1. runs'[r].key = key
            BY <2>2, <3>1 DEF Run
      <4>2. runs'[r] # NoRun
            BY <1>0, <2>2 DEF ContractKept
      <4>3. /\ runs'[r].status = "queued"
            /\ runs'[r].request = runs[r].request
            /\ runs'[r].decision = runs[r].decision
            BY <2>2 DEF Run
      <4>4. QED
            BY <4>1, <4>2, <4>3 DEF JobOf
    <3>5. JobBoard'[key] = JobOf(runs'[r])
          BY <2>2, <2>4, <3>2, <3>4, BoardAt DEF JobBoard
    <3>6. Lifecycle!In(key, {"running"})
          BY <2>2, <3>1, <3>3, JobIsNotNull DEF Lifecycle!In
    <3>7. QED
          BY <3>2, <3>3, <3>4, <3>5, <3>6
  <2>6. ASSUME NEW key \in Keys, key \notin lost
        PROVE  JobBoard'[key] = JobBoard[key]
    <3>1. \A r \in StaleRuns(now) : runs[r].key # key
          BY <2>6
    <3>2. ASSUME NEW r \in RunIds
          PROVE  /\ runs'[r] # NoRun /\ runs'[r].key = key
                       <=> runs[r] # NoRun /\ runs[r].key = key
                 /\ runs[r] # NoRun /\ runs[r].key = key => runs'[r] = runs[r]
          BY <1>0, <2>2, <2>3, <3>1 DEF ContractKept
    <3>3. BoundTo(runs', key) = BoundTo(runs, key)
          BY <3>2 DEF BoundTo
    <3>4. \A r \in BoundTo(runs, key) : runs'[r] = runs[r]
          BY <3>2 DEF BoundTo
    <3>5. QED
          BY <3>3, <3>4 DEF JobBoard, BoardOf
  <2>7. JobBoard' = [key \in Keys |->
                        IF key \in lost
                        THEN [JobBoard[key] EXCEPT !.phase = "queued"]
                        ELSE JobBoard[key]]
    <3>1. JobBoard' = [key \in Keys |-> JobBoard'[key]]
          BY DEF JobBoard, BoardOf
    <3>2. QED
          BY <2>5, <2>6, <3>1
  <2>8. Lifecycle!Return(lost)
        BY <2>5, <2>7 DEF Lifecycle!Return
  <2>9. lost \in SUBSET Keys
        BY <2>5
  <2>10. QED
        BY <2>8, <2>9 DEF Lifecycle!LifecycleNext
<1>7. CASE AppendStep \/ Tick \/ UNCHANGED storeVars
      BY <1>0, <1>7 DEF AppendStep, AppendEvent, Tick, storeVars
<1>8. QED
      BY <1>1, <1>2, <1>3, <1>4, <1>5, <1>6, <1>7 DEF StoreNext

(* The store implements the life cycle of its jobs: whatever the callers   *)
(* do, every step of it is one abstract step of one key's job (a requeue:  *)
(* of several) or changes no job.                                          *)
THEOREM StoreImplementsLifecycle == StoreSpec => ImplementsLifecycle
<1>1. StoreInv /\ StoreInv' /\ [StoreNext]_storeVars
          => [Lifecycle!LifecycleNext]_JobBoard
      BY BoardStep
<1>2. QED
      BY <1>1, BoardInit, StoreInvariance, PTL
      DEF StoreSpec, ImplementsLifecycle, Lifecycle!LifecycleSpec


=============================================================================

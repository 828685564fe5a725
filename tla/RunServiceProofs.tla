------------------------- MODULE RunServiceProofs -------------------------
(* Proofs about the service, for any number of API calls in flight, worker *)
(* processes, runs and clients, and whatever the registry is edited to.    *)
(* The argument is modular: every step of the service is a step of the run *)
(* store or leaves it alone, so what was proved of the store holds of the  *)
(* service, and only what the workers keep in memory needs a new proof.    *)
EXTENDS RunService, RunStoreProofs, FiniteSetTheorems

(* What a worker knows of the run it holds.                                *)
HoldsLockedRun(w) ==
    work[w].pc \in Executing \cup Following =>
        /\ Own(w) \in RunIds
        /\ IsLocked(Own(w))
        /\ work[w].route = runs[Own(w)].decision.route

(* The program counters at which a field of a worker is in use.            *)
InProgress(w) ==
    /\ work[w].pc = "reporting" => work[w].outcome \in ResultStatuses
    /\ work[w].pc = "auditing" => work[w].todo # {}

ServiceInv ==
    /\ StoreInv
    /\ ServiceTypeOK
    /\ \A w \in Workers : HoldsLockedRun(w) /\ InProgress(w)

-----------------------------------------------------------------------------
(* What one transaction does to the status and the events of a run *)

(* A transaction that appends no event for its caller and ends no run, and *)
(* every step of the store but the report that ends a run.                 *)
OwnStep ==
    \/ CreateStep \/ RoutingStep \/ ApprovalStep \/ ClaimStep \/ RequeueStep
    \/ UNCHANGED storeVars

EarlierStep == OwnStep \/ AppendStep \/ Tick

LEMMA ClockStands ==
    ASSUME OwnStep \/ AppendStep \/ CompleteStep
    PROVE  clock' = clock
<1>1. CASE CreateStep
      BY <1>1 DEF CreateStep, CreateRun, InsertRun, ReturnExisting
<1>2. CASE RoutingStep \/ ClaimStep \/ RequeueStep
      BY <1>2 DEF RoutingStep, SetRoutingDecision, ClaimStep, ClaimNextRun,
                  RequeueStep, RequeueStaleRuns
<1>3. CASE ApprovalStep
      BY <1>3 DEF ApprovalStep, RecordApproval, ApproveBlueprint,
                  RejectBlueprint, RecordTestApproval, InsertApproval
<1>4. CASE AppendStep \/ CompleteStep
      BY <1>4 DEF AppendStep, AppendEvent, CompleteStep, CompleteRun
<1>5. QED
      BY <1>1, <1>2, <1>3, <1>4 DEF OwnStep, storeVars

(* The rows a step of the store may add to the log of a run.               *)
LEMMA OtherRowsStand ==
    ASSUME StoreInv, NEW r \in RunIds, NEW added, NEW row \in EventRows \ added,
           log'[r] = log[r] \/ log'[r] = WithRows(log[r], added)
    PROVE  log'[r][row] = log[r][row]
  BY WithRowsCounts DEF StoreInv, StoreTypeOK

LEMMA CallerRowsStand ==
    ASSUME StoreInv, OwnStep \/ CompleteStep \/ Tick,
           NEW r \in RunIds, NEW row \in CallerRows
    PROVE  log'[r][row] = log[r][row]
<1>1. log \in [RunIds -> [EventRows -> Nat]] /\ row \in EventRows
      BY DEF StoreInv, StoreTypeOK, EventRows
<1>2. \A s \in RunIds : Exists(s) => runs[s].decision.route \in Routes
      BY DEF Exists, StoreInv, StoreTypeOK, Run, Decisions
<1>3. ASSUME NEW added \in SUBSET StoreRows,
             log'[r] = log[r] \/ log'[r] = WithRows(log[r], added)
      PROVE  log'[r][row] = log[r][row]
      BY <1>1, <1>3, OtherRowsStand, CallerRowsDistinct
<1>4. CASE CreateStep
  <2>1. PICK s \in RunIds, key \in Keys, request \in Requests,
             decision \in Decisions, now \in Stamps :
                CreateRun(s, key, request, decision, now)
        BY <1>4 DEF CreateStep
  <2>2. {<<"run.created", decision.route>>,
         <<"routing.selected", decision.route>>} \in SUBSET StoreRows
        BY DEF StoreRows, RoutingEvents, Decisions
  <2>3. QED
        BY <1>1, <1>3, <2>1, <2>2 DEF CreateRun, InsertRun, ReturnExisting
<1>5. CASE RoutingStep
  <2>1. PICK s \in RunIds, decision \in Decisions, now \in Stamps :
                SetRoutingDecision(s, decision, now)
        BY <1>5 DEF RoutingStep
  <2>2. {<<"routing.updated", decision.route>>} \in SUBSET StoreRows
        BY DEF StoreRows, RoutingEvents, Decisions
  <2>3. QED
        BY <1>1, <1>3, <2>1, <2>2 DEF SetRoutingDecision
<1>6. CASE ApprovalStep
  <2>1. PICK s \in RunIds, kind \in Kinds, approval \in Approval,
             now \in Stamps : RecordApproval(s, kind, approval, now)
        BY <1>6 DEF ApprovalStep
  <2> DEFINE verdict(k) == <<IF approval.decision = "approved"
                             THEN "approval.approved"
                             ELSE "approval.rejected", k>>
  <2>2. \A k \in Kinds : verdict(k) \in StoreRows
        BY DEF StoreRows
  <2>3. Exists(s) => <<"routing.locked", runs[s].decision.route>> \in StoreRows
        BY <1>2 DEF StoreRows, ExecutionEvents
  <2>4. PICK added \in SUBSET StoreRows :
             log' = [log EXCEPT ![s] = WithRows(log[s], added)]
    <3>1. CASE ApproveBlueprint(s, approval, now)
      <4>1. log' = [log EXCEPT ![s] =
                WithRows(log[s], {<<"routing.locked", runs[s].decision.route>>}
                                     \cup {verdict("blueprint")})]
            BY <3>1 DEF ApproveBlueprint, InsertApproval
      <4>2. Exists(s)
            BY <3>1 DEF ApproveBlueprint, Has
      <4>3. QED
            BY <2>2, <2>3, <4>1, <4>2 DEF Kinds
    <3>2. CASE RejectBlueprint(s, approval, now)
      <4>1. log' = [log EXCEPT ![s] =
                WithRows(log[s], {} \cup {verdict("blueprint")})]
            BY <3>2 DEF RejectBlueprint, InsertApproval
      <4>2. QED
            BY <2>2, <4>1 DEF Kinds
    <3>3. CASE RecordTestApproval(s, approval, now)
      <4>1. log' = [log EXCEPT ![s] = WithRows(log[s], {} \cup {verdict("test")})]
            BY <3>3 DEF RecordTestApproval, InsertApproval
      <4>2. QED
            BY <2>2, <4>1 DEF Kinds
    <3>4. QED
          BY <2>1, <3>1, <3>2, <3>3 DEF RecordApproval
  <2>5. QED
        BY <1>1, <1>3, <2>4
<1>7. CASE ClaimStep
  <2>1. PICK s \in RunIds, now \in Stamps : ClaimNextRun(s, now)
        BY <1>7 DEF ClaimStep
  <2>2. {<<"run.started", runs[s].decision.route>>} \in SUBSET StoreRows
        BY <1>2, <2>1 DEF ClaimNextRun, Claimable, Has, StoreRows, ExecutionEvents
  <2>3. QED
        BY <1>1, <1>3, <2>1, <2>2 DEF ClaimNextRun
<1>8. CASE RequeueStep
  <2>1. {<<"run.requeued-after-stale-lease", NoTag>>} \in SUBSET StoreRows
        BY DEF StoreRows
  <2>2. QED
        BY <1>1, <1>3, <1>8, <2>1 DEF RequeueStep, RequeueStaleRuns
<1>9. CASE CompleteStep
  <2>1. PICK s \in RunIds, result \in ResultStatuses, now \in Stamps :
                CompleteRun(s, result, result # "failed", now)
        BY <1>9 DEF CompleteStep
  <2>2. \A event \in {"run.completed", "run.failed"} :
            {<<event, runs[s].decision.route>>} \in SUBSET StoreRows
        BY <1>2, <2>1 DEF CompleteRun, Has, StoreRows, ExecutionEvents
  <2>3. QED
        BY <1>1, <1>3, <2>1, <2>2 DEF CompleteRun
<1>10. CASE Tick \/ UNCHANGED storeVars
       BY <1>10 DEF Tick, storeVars
<1>11. QED
       BY <1>4, <1>5, <1>6, <1>7, <1>8, <1>9, <1>10 DEF OwnStep

(* The events an attempt leaves, which only a claim and a requeue add.     *)
AttemptRows ==
    ({"run.started"} \X Routes) \cup {<<"run.requeued-after-stale-lease", NoTag>>}

LEMMA AttemptRowsStand ==
    ASSUME StoreInv, [StoreNext]_storeVars, NEW r \in RunIds,
           Has(r, {"running"} \cup Terminal),
           ~Has(r, {"queued"})', NEW row \in AttemptRows
    PROVE  log'[r][row] = log[r][row]
<1>0. row \in StoreRows
      BY DEF AttemptRows, StoreRows, ExecutionEvents
<1>1. /\ log \in [RunIds -> [EventRows -> Nat]]
      /\ runs \in [RunIds -> Run \cup {NoRun}]
      /\ row \in EventRows \ CallerRows
      BY <1>0, CallerRowsDistinct DEF StoreInv, StoreTypeOK, EventRows
<1>2. ASSUME NEW added, row \notin added,
             log'[r] = log[r] \/ log'[r] = WithRows(log[r], added)
      PROVE  log'[r][row] = log[r][row]
      BY <1>1, <1>2, OtherRowsStand
<1>3. CASE CreateStep
  <2>1. PICK s \in RunIds, key \in Keys, request \in Requests,
             decision \in Decisions, now \in Stamps :
                CreateRun(s, key, request, decision, now)
        BY <1>3 DEF CreateStep
  <2>2. row \notin {<<"run.created", decision.route>>,
                    <<"routing.selected", decision.route>>}
        BY DEF AttemptRows
  <2>3. QED
        BY <1>1, <1>2, <2>1, <2>2 DEF CreateRun, InsertRun, ReturnExisting
<1>4. CASE RoutingStep
  <2>1. PICK s \in RunIds, decision \in Decisions, now \in Stamps :
                SetRoutingDecision(s, decision, now)
        BY <1>4 DEF RoutingStep
  <2>2. row \notin {<<"routing.updated", decision.route>>}
        BY DEF AttemptRows
  <2>3. QED
        BY <1>1, <1>2, <2>1, <2>2 DEF SetRoutingDecision
<1>5. CASE ApprovalStep
  <2>1. PICK s \in RunIds, kind \in Kinds, approval \in Approval,
             now \in Stamps : RecordApproval(s, kind, approval, now)
        BY <1>5 DEF ApprovalStep
  <2> DEFINE verdict(k) == <<IF approval.decision = "approved"
                             THEN "approval.approved"
                             ELSE "approval.rejected", k>>
  <2>2. \A k : row # verdict(k)
        BY DEF AttemptRows
  <2>3. row # <<"routing.locked", runs[s].decision.route>>
        BY DEF AttemptRows
  <2>4. PICK added : /\ row \notin added
                     /\ log' = [log EXCEPT ![s] = WithRows(log[s], added)]
    <3>1. CASE ApproveBlueprint(s, approval, now)
      <4>1. log' = [log EXCEPT ![s] =
                WithRows(log[s], {<<"routing.locked", runs[s].decision.route>>}
                                     \cup {verdict("blueprint")})]
            BY <3>1 DEF ApproveBlueprint, InsertApproval
      <4>2. QED
            BY <2>2, <2>3, <4>1
    <3>2. CASE RejectBlueprint(s, approval, now)
      <4>1. log' = [log EXCEPT ![s] =
                WithRows(log[s], {} \cup {verdict("blueprint")})]
            BY <3>2 DEF RejectBlueprint, InsertApproval
      <4>2. QED
            BY <2>2, <4>1
    <3>3. CASE RecordTestApproval(s, approval, now)
      <4>1. log' = [log EXCEPT ![s] = WithRows(log[s], {} \cup {verdict("test")})]
            BY <3>3 DEF RecordTestApproval, InsertApproval
      <4>2. QED
            BY <2>2, <4>1
    <3>4. QED
          BY <2>1, <3>1, <3>2, <3>3 DEF RecordApproval
  <2>5. QED
        BY <1>1, <1>2, <2>4
<1>6. CASE ClaimStep
  <2>1. PICK s \in RunIds, now \in Stamps : ClaimNextRun(s, now)
        BY <1>6 DEF ClaimStep
  <2>2. s # r
        BY <2>1 DEF ClaimNextRun, Claimable, Has, Terminal
  <2>3. QED
        BY <1>1, <2>1, <2>2 DEF ClaimNextRun
<1>7. CASE RequeueStep
  <2>1. PICK now \in Stamps : RequeueStaleRuns(now)
        BY <1>7 DEF RequeueStep
  <2>2. r \notin StaleRuns(now)
    <3>1. SUFFICES ASSUME r \in StaleRuns(now) PROVE FALSE
          OBVIOUS
    <3>2. runs[r] \in Run
          BY <1>1 DEF Has, Exists
    <3>3. runs'[r] = [runs[r] EXCEPT !.status = "queued", !.updated = now]
          BY <2>1, <3>1 DEF RequeueStaleRuns
    <3>4. runs'[r].status = "queued"
          BY <3>2, <3>3 DEF Run
    <3>5. runs'[r] # NoRun
          BY EndStep DEF ContractKept, Has, Exists
    <3>6. QED
          BY <3>4, <3>5 DEF Has, Exists
  <2>3. QED
        BY <1>1, <2>1, <2>2 DEF RequeueStaleRuns
<1>8. CASE CompleteStep
  <2>1. PICK s \in RunIds, result \in ResultStatuses, now \in Stamps :
                CompleteRun(s, result, result # "failed", now)
        BY <1>8 DEF CompleteStep
  <2>2. \A event \in {"run.completed", "run.failed"} :
            row \notin {<<event, runs[s].decision.route>>}
        BY DEF AttemptRows
  <2>3. QED
        BY <1>1, <1>2, <2>1, <2>2 DEF CompleteRun
<1>9. CASE AppendStep
  <2>1. PICK s \in RunIds, new \in CallerRows : AppendEvent(s, new)
        BY <1>9 DEF AppendStep
  <2>2. row \notin {new}
        BY <1>1
  <2>3. QED
        BY <1>1, <1>2, <2>1, <2>2 DEF AppendEvent
<1>10. CASE Tick \/ UNCHANGED storeVars
       BY <1>10 DEF Tick, storeVars
<1>11. QED
       BY <1>3, <1>4, <1>5, <1>6, <1>7, <1>8, <1>9, <1>10 DEF StoreNext

(* No other transaction ends a run.                                        *)
LEMMA OnlyReportsEnd ==
    ASSUME StoreInv, EarlierStep, NEW r \in RunIds, Has(r, Terminal)'
    PROVE  Has(r, Terminal)
<1>0. /\ runs \in [RunIds -> Run \cup {NoRun}]
      /\ \A s \in RunIds : Exists(s) => runs[s] \in Run
      /\ runs'[r] = runs[r] => Has(r, Terminal)
      BY DEF StoreInv, StoreTypeOK, Exists, Has
<1>1. CASE CreateStep
  <2>1. PICK s \in RunIds, key \in Keys, request \in Requests,
             decision \in Decisions, now \in Stamps :
                CreateRun(s, key, request, decision, now)
        BY <1>1 DEF CreateStep
  <2>2. CASE InsertRun(s, key, request, decision, now)
    <3>1. runs'[s].status = "awaiting-blueprint-approval"
          BY <1>0, <2>2 DEF InsertRun
    <3>2. s # r
          BY <3>1 DEF Has, Terminal
    <3>3. QED
          BY <1>0, <2>2, <3>2 DEF InsertRun
  <2>3. QED
        BY <1>0, <2>1, <2>2 DEF CreateRun, ReturnExisting
<1>2. CASE RoutingStep
  <2>1. PICK s \in RunIds, decision \in Decisions, now \in Stamps :
                SetRoutingDecision(s, decision, now)
        BY <1>2 DEF RoutingStep
  <2>2. CASE s = r
    <3>1. /\ runs[r] \in Run /\ runs[r].status = "awaiting-blueprint-approval"
          /\ runs' = [runs EXCEPT ![r].decision = decision, ![r].updated = now]
          BY <1>0, <2>1, <2>2 DEF SetRoutingDecision, Has
    <3>2. runs'[r].status = "awaiting-blueprint-approval"
          BY <1>0, <3>1 DEF Run
    <3>3. QED
          BY <3>2 DEF Has, Terminal
  <2>3. QED
        BY <1>0, <2>1, <2>2 DEF SetRoutingDecision
<1>3. CASE ApprovalStep
  <2>1. PICK s \in RunIds, kind \in Kinds, approval \in Approval,
             now \in Stamps : RecordApproval(s, kind, approval, now)
        BY <1>3 DEF ApprovalStep
  <2>2. CASE s # r
        BY <1>0, <2>1, <2>2 DEF RecordApproval, ApproveBlueprint,
                                RejectBlueprint, RecordTestApproval
  <2>3. CASE s = r
    <3>1. runs[r] \in Run
          BY <1>0, <2>1, <2>3 DEF RecordApproval, ApproveBlueprint, Has,
                                  RejectBlueprint, RecordTestApproval
    <3>2. runs'[r].status \in {runs[r].status, "queued", "rejected"}
          BY <1>0, <2>1, <2>3, <3>1
             DEF RecordApproval, ApproveBlueprint, RejectBlueprint,
                 RecordTestApproval, Run
    <3>3. QED
          BY <1>0, <3>1, <3>2, StoreNulls DEF Has, Exists, Terminal
  <2>4. QED
        BY <2>2, <2>3
<1>4. CASE ClaimStep
  <2>1. PICK s \in RunIds, now \in Stamps : ClaimNextRun(s, now)
        BY <1>4 DEF ClaimStep
  <2>2. CASE s = r
    <3>1. runs[r] \in Run
          BY <1>0, <2>1, <2>2 DEF ClaimNextRun, Claimable, Has
    <3>2. runs'[r].status = "running"
          BY <1>0, <2>1, <2>2, <3>1 DEF ClaimNextRun, Run
    <3>3. QED
          BY <3>2 DEF Has, Terminal
  <2>3. QED
        BY <1>0, <2>1, <2>2 DEF ClaimNextRun
<1>5. CASE RequeueStep
  <2>1. PICK now \in Stamps : RequeueStaleRuns(now)
        BY <1>5 DEF RequeueStep
  <2>2. CASE r \in StaleRuns(now)
    <3>1. runs[r] \in Run
          BY <1>0, <2>2 DEF StaleRuns, Has
    <3>2. runs'[r].status = "queued"
          BY <2>1, <2>2, <3>1 DEF RequeueStaleRuns, Run
    <3>3. QED
          BY <3>2 DEF Has, Terminal
  <2>3. QED
        BY <1>0, <2>1, <2>2 DEF RequeueStaleRuns
<1>6. CASE AppendStep \/ Tick \/ UNCHANGED storeVars
      BY <1>0, <1>6 DEF AppendStep, AppendEvent, Tick, storeVars
<1>7. QED
      BY <1>1, <1>2, <1>3, <1>4, <1>5, <1>6 DEF EarlierStep, OwnStep

(* A lease that is not stale survives every other transaction, and its     *)
(* last write never goes back behind what a stamp may read.                *)
LEMMA LeaseStands ==
    ASSUME StoreInv, EarlierStep, NEW r \in RunIds, Has(r, {"running"}),
           NEW floor \in Int, floor <= runs[r].updated,
           floor <= clock - MaxLag, clock - StaleMinutes <= floor
    PROVE  Has(r, {"running"})' /\ floor <= runs'[r].updated
<1>0. /\ runs \in [RunIds -> Run \cup {NoRun}] /\ clock \in Nat
      /\ runs[r] \in Run /\ runs[r].status = "running" /\ runs[r] # NoRun
      /\ runs'[r] = runs[r] => Has(r, {"running"})' /\ floor <= runs'[r].updated
      BY DEF StoreInv, StoreTypeOK, Exists, Has
<1>1. ASSUME NEW now \in Stamps
      PROVE  now \in Nat /\ now <= clock /\ clock - MaxLag <= now
      BY <1>0, <1>1, StoreIntervals DEF Stamps
<1>2. CASE CreateStep
  <2>1. PICK s \in RunIds, key \in Keys, request \in Requests,
             decision \in Decisions, now \in Stamps :
                CreateRun(s, key, request, decision, now)
        BY <1>2 DEF CreateStep
  <2>2. QED
        BY <1>0, <2>1 DEF CreateRun, InsertRun, ReturnExisting, Exists
<1>3. CASE RoutingStep
  <2>1. PICK s \in RunIds, decision \in Decisions, now \in Stamps :
                SetRoutingDecision(s, decision, now)
        BY <1>3 DEF RoutingStep
  <2>2. s # r
        BY <1>0, <2>1 DEF SetRoutingDecision, Has
  <2>3. QED
        BY <1>0, <2>1, <2>2 DEF SetRoutingDecision
<1>4. CASE ApprovalStep
  <2>1. PICK s \in RunIds, kind \in Kinds, approval \in Approval,
             now \in Stamps : RecordApproval(s, kind, approval, now)
        BY <1>4 DEF ApprovalStep
  <2>2. CASE s # r
        BY <1>0, <2>1, <2>2 DEF RecordApproval, ApproveBlueprint,
                                RejectBlueprint, RecordTestApproval
  <2>3. CASE s = r
    <3>1. runs' = [runs EXCEPT ![r].updated = now]
          BY <1>0, <2>1, <2>3 DEF RecordApproval, ApproveBlueprint, Has,
                                  RejectBlueprint, RecordTestApproval
    <3>2. runs'[r].status = "running" /\ runs'[r].updated = now
          BY <1>0, <3>1 DEF Run
    <3>3. runs'[r] # NoRun
          BY <1>4, EndStep DEF ContractKept, Has, Exists, StoreNext
    <3>4. now \in Nat /\ clock - MaxLag <= now
          BY <1>1
    <3>5. floor <= now
          BY <1>0, <3>4, StoreIntervals
    <3>6. QED
          BY <3>2, <3>3, <3>5 DEF Has, Exists
  <2>4. QED
        BY <2>2, <2>3
<1>5. CASE ClaimStep
  <2>1. PICK s \in RunIds, now \in Stamps : ClaimNextRun(s, now)
        BY <1>5 DEF ClaimStep
  <2>2. s # r
        BY <1>0, <2>1 DEF ClaimNextRun, Claimable, Has
  <2>3. QED
        BY <1>0, <2>1, <2>2 DEF ClaimNextRun
<1>6. CASE RequeueStep
  <2>1. PICK now \in Stamps : RequeueStaleRuns(now)
        BY <1>6 DEF RequeueStep
  <2>2. r \notin StaleRuns(now)
    <3>1. SUFFICES ASSUME runs[r].updated < now - StaleMinutes PROVE FALSE
          BY DEF StaleRuns
    <3>2. runs[r].updated \in Nat
          BY <1>0 DEF Run
    <3>3. QED
          BY <1>0, <1>1, <3>1, <3>2, StoreIntervals
  <2>3. QED
        BY <1>0, <2>1, <2>2 DEF RequeueStaleRuns
<1>7. CASE AppendStep \/ Tick \/ UNCHANGED storeVars
      BY <1>0, <1>7 DEF AppendStep, AppendEvent, Tick, storeVars
<1>8. QED
      BY <1>2, <1>3, <1>4, <1>5, <1>6, <1>7 DEF EarlierStep, OwnStep

(* What a report and an audit event change.                                *)
LEMMA ReportEffect ==
    ASSUME StoreInv, NEW r \in RunIds, NEW result \in ResultStatuses,
           NEW now \in Stamps, CompleteRun(r, result, result # "failed", now)
    PROVE  /\ CompleteStep /\ Has(r, {"running"}) /\ Has(r, Terminal)'
           /\ \A s \in RunIds \ {r} : runs'[s] = runs[s] /\ log'[s] = log[s]
<1>1. CompleteStep /\ [StoreNext]_storeVars
      BY DEF CompleteStep, StoreNext
<1>2. /\ runs \in [RunIds -> Run \cup {NoRun}] /\ Has(r, {"running"})
      /\ log \in [RunIds -> [EventRows -> Nat]]
      BY DEF StoreInv, StoreTypeOK, CompleteRun
<1>3. runs[r] \in Run
      BY <1>2 DEF Has, Exists
<1>4. runs'[r].status \in Terminal
      BY <1>2, <1>3 DEF CompleteRun, Run, Terminal
<1>5. runs'[r] # NoRun
      BY <1>1, <1>2, EndStep DEF ContractKept, Has, Exists
<1>6. QED
      BY <1>1, <1>2, <1>4, <1>5 DEF CompleteRun, Has, Exists

LEMMA EventEffect ==
    ASSUME StoreInv, NEW r \in RunIds, NEW row \in CallerRows,
           AppendEvent(r, row)
    PROVE  /\ runs' = runs
           /\ log'[r][row] = log[r][row] + 1
           /\ \A e \in EventRows : e # row => log'[r][e] = log[r][e]
           /\ \A s \in RunIds \ {r} : log'[s] = log[s]
<1>1. log \in [RunIds -> [EventRows -> Nat]] /\ row \in EventRows
      BY DEF StoreInv, StoreTypeOK, EventRows
<1>2. log' = [log EXCEPT ![r] = WithRows(log[r], {row})] /\ runs' = runs
      BY DEF AppendEvent
<1>3. /\ log'[r] = WithRows(log[r], {row})
      /\ \A s \in RunIds \ {r} : log'[s] = log[s]
      BY <1>1, <1>2
<1>4. QED
      BY <1>1, <1>2, <1>3, WithRowsCounts

-----------------------------------------------------------------------------
(* Every step of the service is a step of the store, or leaves it alone *)

LEMMA PendingCalls ==
    ASSUME ServiceInv, NEW c \in Calls
    PROVE  /\ Pending(c, "create") =>
                 /\ calls[c].key \in Keys
                 /\ calls[c].request \in Requests
                 /\ calls[c].decision \in Decisions
           /\ Pending(c, "route") =>
                 calls[c].run \in RunIds /\ calls[c].decision \in Decisions
           /\ Pending(c, "approve") =>
                 /\ calls[c].run \in RunIds
                 /\ calls[c].kind \in Kinds
                 /\ calls[c].approval \in Approval
<1>1. calls[c] \in Call \cup {NoCall}
      BY DEF ServiceInv, ServiceTypeOK
<1>2. QED
      BY <1>1 DEF Call, Pending

LEMMA ApiSteps == ServiceInv /\ ApiStep => OwnStep
<1> SUFFICES ASSUME ServiceInv, NEW c \in Calls,
                    \/ \E key \in Keys, request \in Requests :
                          BeginCreate(c, key, request)
                    \/ FinishCreate(c)
                    \/ \E r \in RunIds, actor \in Actors,
                          agentic \in BOOLEAN, strict \in BOOLEAN :
                          BeginRoute(c, r, actor, agentic, strict)
                    \/ FinishRoute(c)
                    \/ \E r \in RunIds, kind \in Kinds, approval \in Approval :
                          BeginApprove(c, r, kind, approval)
                    \/ FinishApprove(c)
                    \/ FinishWithoutEffect(c)
             PROVE  OwnStep
    BY DEF ApiStep
<1>1. CASE FinishCreate(c)
  <2>1. CreateStep
        BY <1>1, PendingCalls DEF FinishCreate, CreateStep
  <2>2. QED
        BY <2>1 DEF OwnStep
<1>2. CASE FinishRoute(c)
  <2>1. RoutingStep
        BY <1>2, PendingCalls DEF FinishRoute, RoutingStep
  <2>2. QED
        BY <2>1 DEF OwnStep
<1>3. CASE FinishApprove(c)
  <2>1. ApprovalStep
        BY <1>3, PendingCalls DEF FinishApprove, ApprovalStep
  <2>2. QED
        BY <2>1 DEF OwnStep
<1>4. CASE \E key \in Keys, request \in Requests : BeginCreate(c, key, request)
      BY <1>4 DEF BeginCreate, Begin, OwnStep
<1>5. CASE \E r \in RunIds, actor \in Actors,
              agentic \in BOOLEAN, strict \in BOOLEAN :
              BeginRoute(c, r, actor, agentic, strict)
      BY <1>5 DEF BeginRoute, Begin, OwnStep
<1>6. CASE \E r \in RunIds, kind \in Kinds, approval \in Approval :
              BeginApprove(c, r, kind, approval)
      BY <1>6 DEF BeginApprove, Begin, OwnStep
<1>7. CASE FinishWithoutEffect(c)
      BY <1>7 DEF FinishWithoutEffect, OwnStep
<1>8. QED
      BY <1>1, <1>2, <1>3, <1>4, <1>5, <1>6, <1>7

LEMMA AuditRows ==
    /\ \A route \in Routes : /\ <<"runtime.dispatched", route>> \in CallerRows
                             /\ <<"metrics.recorded", route>> \in CallerRows
    /\ \A p \in Publishers : /\ <<"output.delivered", p>> \in CallerRows
                             /\ <<"output.failed", p>> \in CallerRows
  BY ServiceParameters DEF OutputRows

LEMMA FirstIsOne ==
    ASSUME NEW todo \in SUBSET Publishers, todo # {}
    PROVE  FirstOf(todo) \in todo
  BY ServiceParameters DEF FirstOf

LEMMA WorkerSteps ==
    ASSUME ServiceInv, NEW w \in Workers,
           WorkerStep(w) \/ StartWorker(w) \/ StopWorker(w) \/ Crash(w)
    PROVE  \/ ClaimStep \/ RequeueStep \/ UNCHANGED storeVars
           \/ AppendStep /\ (Dispatch(w) \/ RecordMetrics(w) \/ AuditOutput(w))
           \/ CompleteStep /\ (LandReport(w) \/ LandFailure(w))
<1>1. /\ work[w] \in Work /\ HoldsLockedRun(w) /\ InProgress(w)
      /\ work[w].route \in Routes
      /\ work[w].todo \in SUBSET Publishers
      BY DEF ServiceInv, ServiceTypeOK, Work
<1>2. CASE StartupRequeue(w)
      BY <1>2 DEF StartupRequeue, RequeueStep
<1>3. CASE Claim(w)
      BY <1>3 DEF Claim, ClaimStep
<1>4. CASE LandReport(w) \/ LandFailure(w)
  <2>1. Own(w) \in RunIds
        BY <1>1, <1>4 DEF LandReport, LandFailure, At, HoldsLockedRun, Executing
  <2>2. PICK outcome \in ResultStatuses : Land(w, outcome)
        BY <1>1, <1>4
           DEF LandReport, LandFailure, At, InProgress, ResultStatuses
  <2>3. CompleteStep
        BY <2>1, <2>2 DEF Land, CompleteStep
  <2>4. QED
        BY <1>4, <2>3
<1>5. CASE Dispatch(w) \/ RecordMetrics(w) \/ AuditOutput(w)
  <2>1. Own(w) \in RunIds
        BY <1>1, <1>5 DEF Dispatch, RecordMetrics, AuditOutput, At,
                          HoldsLockedRun, Executing, Following
  <2>2. CASE Dispatch(w)
    <3>1. AppendEvent(Own(w), <<"runtime.dispatched", work[w].route>>)
          BY <2>2 DEF Dispatch
    <3>2. QED
          BY <1>1, <2>1, <2>2, <3>1, AuditRows DEF AppendStep
  <2>3. CASE RecordMetrics(w)
    <3>1. AppendEvent(Own(w), <<"metrics.recorded", work[w].route>>)
          BY <2>3 DEF RecordMetrics
    <3>2. QED
          BY <1>1, <2>1, <2>3, <3>1, AuditRows DEF AppendStep
  <2>4. CASE AuditOutput(w)
    <3>1. FirstOf(work[w].todo) \in Publishers
          BY <1>1, <2>4, FirstIsOne DEF AuditOutput, At, InProgress
    <3>2. PICK row \in CallerRows : AppendEvent(Own(w), row)
          BY <2>4, <3>1, AuditRows DEF AuditOutput
    <3>3. QED
          BY <2>1, <2>4, <3>2 DEF AppendStep
  <2>5. QED
        BY <1>5, <2>2, <2>3, <2>4
<1>6. CASE \/ FindNothing(w) \/ ReadCounters(w) \/ LoadTask(w) \/ LoadFails(w)
           \/ (\E outcome \in ResultStatuses : Browse(w, outcome))
           \/ BrowseFails(w) \/ ReportRefused(w) \/ FailureRefused(w)
           \/ OpenOutputs(w) \/ OutputsLost(w)
           \/ (\E delivered \in BOOLEAN : SendOutput(w, delivered))
           \/ FinishRun(w) \/ StartWorker(w) \/ StopWorker(w) \/ Crash(w)
      BY <1>6 DEF FindNothing, ReadCounters, LoadTask, LoadFails, Browse,
                  BrowseFails, ReportRefused, FailureRefused, OpenOutputs,
                  OutputsLost, SendOutput, FinishRun, StartWorker, StopWorker,
                  Crash
<1>7. QED
      BY <1>2, <1>3, <1>4, <1>5, <1>6 DEF WorkerStep

LEMMA ServiceStepIsStoreStep ==
    ServiceInv /\ [ServiceNext]_vars => [StoreNext]_storeVars
<1> SUFFICES ASSUME ServiceInv, [ServiceNext]_vars PROVE [StoreNext]_storeVars
    OBVIOUS
<1>0. OwnStep \/ AppendStep \/ CompleteStep => [StoreNext]_storeVars
      BY DEF OwnStep, StoreNext
<1>1. CASE ApiStep
      BY <1>0, <1>1, ApiSteps
<1>2. CASE \E w \in Workers : WorkerStep(w) \/ StartWorker(w) \/ StopWorker(w)
                              \/ Crash(w)
      BY <1>0, <1>2, WorkerSteps DEF OwnStep
<1>3. CASE \E t \in Tenants : EditRegistry(t)
      BY <1>3 DEF EditRegistry
<1>4. CASE TimePasses
      BY <1>4 DEF TimePasses, StoreNext
<1>5. CASE UNCHANGED vars
      BY <1>5 DEF vars
<1>6. QED
      BY <1>1, <1>2, <1>3, <1>4, <1>5 DEF ServiceNext

-----------------------------------------------------------------------------
(* Type correctness *)

LEMMA ServiceInitTyped == ServiceInit => ServiceTypeOK
<1> SUFFICES ASSUME ServiceInit PROVE ServiceTypeOK
    OBVIOUS
<1>1. StoreTypeOK
      BY TypeInit DEF ServiceInit
<1>2. registry \in [Tenants -> Entry]
      BY ServiceParameters DEF ServiceInit
<1>3. work \in [Workers -> Work]
      BY DEF ServiceInit, Asleep, Work, Routes
<1>4. /\ calls \in [Calls -> Call \cup {NoCall}]
      /\ report \in [RunIds -> Report \cup {NoReport}]
      /\ sent \in [RunIds -> [Publishers -> Nat]]
      /\ opened \in [RunIds -> SUBSET SUBSET Publishers]
      /\ spent \in Spent
      BY DEF ServiceInit, Spent
<1>5. QED
      BY <1>1, <1>2, <1>3, <1>4 DEF ServiceTypeOK

LEMMA BeginTyped ==
    ASSUME ServiceTypeOK, NEW c \in Calls, NEW call \in Call, Begin(c, call)
    PROVE  /\ calls' \in [Calls -> Call \cup {NoCall}]
           /\ spent' \in Spent
<1>1. calls' \in [Calls -> Call \cup {NoCall}]
      BY DEF ServiceTypeOK, Begin
<1>2. spent' = [spent EXCEPT !.calls = spent.calls + 1]
      BY DEF Begin
<1>3. QED
      BY <1>1, <1>2 DEF ServiceTypeOK, Spent

LEMMA ApiTyped ==
    ASSUME StoreInv, ServiceTypeOK, ApiStep
    PROVE  /\ calls' \in [Calls -> Call \cup {NoCall}]
           /\ spent' \in Spent
<1> PICK c \in Calls :
         \/ \E key \in Keys, request \in Requests : BeginCreate(c, key, request)
         \/ FinishCreate(c)
         \/ \E r \in RunIds, actor \in Actors,
               agentic \in BOOLEAN, strict \in BOOLEAN :
               BeginRoute(c, r, actor, agentic, strict)
         \/ FinishRoute(c)
         \/ \E r \in RunIds, kind \in Kinds, approval \in Approval :
               BeginApprove(c, r, kind, approval)
         \/ FinishApprove(c)
         \/ FinishWithoutEffect(c)
    BY DEF ApiStep
<1>1. CASE \E key \in Keys, request \in Requests : BeginCreate(c, key, request)
  <2>1. PICK key \in Keys, request \in Requests : BeginCreate(c, key, request)
        BY <1>1
  <2>2. RouteFor(request.task, FALSE, FALSE) \in Decisions
        BY ServiceParameters
  <2> DEFINE call == [op |-> "create", key |-> key, request |-> request,
                      decision |-> RouteFor(request.task, FALSE, FALSE)]
  <2>3. call \in Call
        BY <2>2 DEF Call
  <2>4. QED
        BY <2>1, <2>3, BeginTyped DEF BeginCreate
<1>2. CASE \E r \in RunIds, actor \in Actors,
              agentic \in BOOLEAN, strict \in BOOLEAN :
              BeginRoute(c, r, actor, agentic, strict)
  <2>1. PICK r \in RunIds, actor \in Actors,
             agentic \in BOOLEAN, strict \in BOOLEAN :
             BeginRoute(c, r, actor, agentic, strict)
        BY <1>2
  <2> DEFINE decision == RouteFor(runs[r].request.task, agentic, strict)
             call == [op |-> "route", run |-> r, decision |-> decision]
  <2>2. runs[r] \in Run
        BY <2>1 DEF BeginRoute, Exists, StoreInv, StoreTypeOK
  <2>3. runs[r].request.task \in Tasks
        BY <2>2, ServiceParameters DEF Run
  <2>4. decision \in Decisions
        BY <2>3, ServiceParameters
  <2>5. call \in Call
        BY <2>4 DEF Call
  <2>6. Begin(c, call)
        BY <2>1 DEF BeginRoute
  <2>7. QED
        BY <2>5, <2>6, BeginTyped
<1>3. CASE \E r \in RunIds, kind \in Kinds, approval \in Approval :
              BeginApprove(c, r, kind, approval)
  <2>1. PICK r \in RunIds, kind \in Kinds, approval \in Approval :
             BeginApprove(c, r, kind, approval)
        BY <1>3
  <2> DEFINE call == [op |-> "approve", run |-> r, kind |-> kind,
                      approval |-> approval]
  <2>2. call \in Call
        BY DEF Call
  <2>3. QED
        BY <2>1, <2>2, BeginTyped DEF BeginApprove
<1>4. CASE FinishCreate(c) \/ FinishRoute(c) \/ FinishApprove(c)
           \/ FinishWithoutEffect(c)
      BY <1>4 DEF FinishCreate, FinishRoute, FinishApprove,
                  FinishWithoutEffect, End, ServiceTypeOK
<1>5. QED
      BY <1>1, <1>2, <1>3, <1>4

LEMMA WorkerTyped ==
    ASSUME ServiceInv, NEW w \in Workers,
           WorkerStep(w) \/ StartWorker(w) \/ StopWorker(w) \/ Crash(w)
    PROVE  /\ work' \in [Workers -> Work]
           /\ report' \in [RunIds -> Report \cup {NoReport}]
           /\ sent' \in [RunIds -> [Publishers -> Nat]]
           /\ opened' \in [RunIds -> SUBSET SUBSET Publishers]
           /\ spent' \in Spent
<1>1. /\ work \in [Workers -> Work] /\ work[w] \in Work
      /\ report \in [RunIds -> Report \cup {NoReport}]
      /\ sent \in [RunIds -> [Publishers -> Nat]]
      /\ opened \in [RunIds -> SUBSET SUBSET Publishers]
      /\ spent \in Spent
      /\ clock \in Nat /\ log \in [RunIds -> [EventRows -> Nat]]
      BY DEF ServiceInv, ServiceTypeOK, StoreTypeOK
<1>2. Asleep \in Work
      BY DEF Asleep, Work, Routes
<1>3. CASE StartupRequeue(w) \/ LoadTask(w) \/ LoadFails(w) \/ Dispatch(w)
           \/ BrowseFails(w) \/ ReportRefused(w) \/ RecordMetrics(w)
  <2>1. PICK pc \in {"idle", "dispatching", "failing", "browsing", "opening"} :
             GoTo(w, pc)
        BY <1>3 DEF StartupRequeue, LoadTask, LoadFails, Dispatch,
                    BrowseFails, ReportRefused, RecordMetrics
  <2>2. QED
        BY <1>1, <2>1 DEF GoTo, Work, Executing, Following
<1>4. CASE FindNothing(w) \/ StopWorker(w) \/ FailureRefused(w) \/ OutputsLost(w)
      BY <1>1, <1>2, <1>4
         DEF FindNothing, StopWorker, FailureRefused, OutputsLost, Exit
<1>5. CASE FinishRun(w)
  <2>1. [Asleep EXCEPT !.pc = "idle", !.enabled = work[w].enabled,
                       !.https = work[w].https] \in Work
        BY <1>1 DEF Asleep, Work, Routes
  <2>2. QED
        BY <1>1, <1>2, <1>5, <2>1 DEF FinishRun, Poll
<1>6. CASE Claim(w)
  <2>1. PICK r \in RunIds, now \in Stamps :
            /\ ClaimNextRun(r, now)
            /\ work' = [work EXCEPT ![w] =
                   [work[w] EXCEPT !.pc = "claimed", !.run = r, !.since = clock,
                                   !.route = runs[r].decision.route]]
        BY <1>6 DEF Claim
  <2>2. runs[r].decision.route \in Routes
        BY <2>1 DEF ClaimNextRun, Claimable, Has, Exists, ServiceInv,
                    StoreInv, StoreTypeOK, Run, Decisions
  <2>3. QED
        BY <1>1, <1>6, <2>1, <2>2 DEF Claim, Work, Executing
<1>7. CASE ReadCounters(w)
  <2>1. Own(w) \in RunIds
        BY <1>7 DEF ReadCounters, At, ServiceInv, HoldsLockedRun, Executing
  <2>2. /\ Count(Own(w), "run.started", work[w].route) \in Nat
        /\ Count(Own(w), "run.requeued-after-stale-lease", NoTag) \in Nat
        BY <1>1, <2>1, RowKinds DEF Count, Work, ExecutionEvents
  <2>3. QED
        BY <1>1, <1>7, <2>2 DEF ReadCounters, Work, Executing
<1>8. CASE \E outcome \in ResultStatuses : Browse(w, outcome)
  <2>1. PICK outcome \in ResultStatuses : Browse(w, outcome)
        BY <1>8
  <2>2. [work[w] EXCEPT !.pc = "reporting", !.outcome = outcome] \in Work
        BY <1>1 DEF Work, Executing
  <2>3. work' \in [Workers -> Work]
        BY <1>1, <2>1, <2>2 DEF Browse
  <2>4. QED
        BY <1>1, <2>1, <2>3 DEF Browse
<1>9. CASE LandReport(w) \/ LandFailure(w)
  <2>1. PICK outcome : Land(w, outcome)
        BY <1>9 DEF LandReport, LandFailure
  <2>2. [attempts |-> work[w].attempts, requeues |-> work[w].requeues,
         route |-> work[w].route] \in Report
        BY <1>1 DEF Work, Report
  <2>3. [work[w] EXCEPT !.pc = "measuring"] \in Work
        BY <1>1 DEF Work, Following
  <2>4. QED
        BY <1>1, <2>1, <2>2, <2>3 DEF Land
<1>10. CASE OpenOutputs(w)
  <2>1. Outputs(runs[Own(w)].request) \in SUBSET Publishers
        BY DEF Outputs
  <2>2. Own(w) \in RunIds
        BY <1>10 DEF OpenOutputs, At, ServiceInv, HoldsLockedRun, Following
  <2>3. work' \in [Workers -> Work]
        BY <1>1, <1>10, <2>1 DEF OpenOutputs, Work, Following
  <2>4. opened' \in [RunIds -> SUBSET SUBSET Publishers]
    <3>1. opened[Own(w)] \cup {Outputs(runs[Own(w)].request)}
            \in SUBSET SUBSET Publishers
          BY <1>1, <2>1, <2>2
    <3>2. QED
          BY <1>1, <1>10, <2>2, <3>1 DEF OpenOutputs
  <2>5. QED
        BY <1>1, <1>10, <2>3, <2>4 DEF OpenOutputs
<1>11. CASE AuditOutput(w)
      BY <1>1, <1>11 DEF AuditOutput, Work, Following
<1>12. CASE StartWorker(w)
  <2>1. PICK enabled \in BOOLEAN, https \in BOOLEAN :
             work' = [work EXCEPT ![w].pc = "starting", ![w].enabled = enabled,
                                  ![w].https = https]
        BY <1>12, ServiceParameters DEF StartWorker
  <2>2. [work[w] EXCEPT !.pc = "starting", !.enabled = enabled,
                        !.https = https] \in Work
        BY <1>1 DEF Work
  <2>3. work' \in [Workers -> Work]
        BY <1>1, <2>1, <2>2
  <2>4. QED
        BY <1>1, <1>12, <2>3 DEF StartWorker
<1>13. CASE SendOutput(w, TRUE) \/ SendOutput(w, FALSE)
  <2>1. PICK delivered \in BOOLEAN : SendOutput(w, delivered)
        BY <1>13
  <2>2. [work[w] EXCEPT !.pc = "auditing", !.delivered = delivered] \in Work
        BY <1>1 DEF Work, Following
  <2>3. Own(w) \in RunIds /\ FirstOf(work[w].todo) \in Publishers
        BY <1>1, <2>1, FirstIsOne
           DEF SendOutput, At, ServiceInv, HoldsLockedRun, Following, Work
  <2>4. sent[Own(w)][FirstOf(work[w].todo)] + 1 \in Nat
        BY <1>1, <2>3
  <2>5. QED
        BY <1>1, <2>1, <2>2, <2>3, <2>4 DEF SendOutput
<1>14. CASE Crash(w)
  <2>1. spent' = [spent EXCEPT !.crashes = spent.crashes + 1]
        BY <1>14 DEF Crash
  <2>2. spent' \in Spent
        BY <1>1, <2>1 DEF Spent
  <2>3. QED
        BY <1>1, <1>2, <1>14, <2>2 DEF Crash
<1>15. QED
      BY <1>3, <1>4, <1>5, <1>6, <1>7, <1>8, <1>9, <1>10, <1>11, <1>12, <1>13,
         <1>14
      DEF WorkerStep

LEMMA ServiceTypeStep ==
    ServiceInv /\ [ServiceNext]_vars => ServiceTypeOK'
<1> SUFFICES ASSUME ServiceInv, [ServiceNext]_vars PROVE ServiceTypeOK'
    OBVIOUS
<1>1. StoreTypeOK' /\ StoreInv /\ ServiceTypeOK
      BY ServiceStepIsStoreStep, TypeStep DEF ServiceInv, StoreInv
<1>2. CASE ApiStep
  <2>1. UNCHANGED <<registry, work, report, sent, opened>>
        BY <1>2 DEF ApiStep, BeginCreate, BeginRoute, BeginApprove, Begin,
                    FinishCreate, FinishRoute, FinishApprove,
                    FinishWithoutEffect, End
  <2>2. QED
        BY <1>1, <1>2, <2>1, ApiTyped DEF ServiceTypeOK
<1>3. CASE \E w \in Workers : WorkerStep(w) \/ StartWorker(w) \/ StopWorker(w)
                              \/ Crash(w)
  <2>1. UNCHANGED <<registry, calls>>
        BY <1>3 DEF WorkerStep, StartupRequeue, Claim, FindNothing,
                    ReadCounters, LoadTask, LoadFails, Dispatch, Browse,
                    BrowseFails, LandReport, ReportRefused, LandFailure, Land,
                    FailureRefused, RecordMetrics, OpenOutputs, OutputsLost,
                    SendOutput, AuditOutput, FinishRun, StartWorker,
                    StopWorker, Crash, GoTo, Exit, Poll
  <2>2. QED
        BY <1>1, <1>3, <2>1, WorkerTyped DEF ServiceTypeOK
<1>4. CASE \E t \in Tenants : EditRegistry(t)
  <2>1. PICK t \in Tenants : EditRegistry(t)
        BY <1>4
  <2>2. registry' \in [Tenants -> Entry]
    <3>1. PICK e \in Entry : registry' = [registry EXCEPT ![t] = e]
          BY <2>1, ServiceParameters DEF EditRegistry
    <3>2. QED
          BY <1>1, <3>1 DEF ServiceTypeOK
  <2>3. spent' = [spent EXCEPT !.edits = spent.edits + 1]
        BY <2>1 DEF EditRegistry
  <2>4. spent' \in Spent
        BY <1>1, <2>3 DEF ServiceTypeOK, Spent
  <2>5. QED
        BY <1>1, <2>1, <2>2, <2>4 DEF EditRegistry, ServiceTypeOK
<1>5. CASE TimePasses
  <2> DEFINE late == \/ spent.overrun
                     \/ \E w \in Workers :
                           /\ work[w].pc \in Executing
                           /\ clock - work[w].since >= AttemptMinutes
  <2>1. spent.overrun \in BOOLEAN
        BY <1>1 DEF ServiceTypeOK, Spent
  <2>2. late \in BOOLEAN
        BY <2>1
  <2>3. spent' = [spent EXCEPT !.overrun = late]
        BY <1>5 DEF TimePasses
  <2> HIDE DEF late
  <2>4. spent' \in Spent
        BY <1>1, <2>2, <2>3 DEF ServiceTypeOK, Spent
  <2>5. QED
        BY <1>1, <1>5, <2>4 DEF TimePasses, ServiceTypeOK
<1>6. CASE UNCHANGED vars
      BY <1>1, <1>6 DEF serviceVars, vars, ServiceTypeOK
<1>7. QED
      BY <1>2, <1>3, <1>4, <1>5, <1>6 DEF ServiceNext

-----------------------------------------------------------------------------
(* What a worker holds in memory stays true *)

(* A locked run keeps its lock and its decision through every step: the    *)
(* contract of the store, seen from the workers.                           *)
LEMMA LocksAreKept ==
    ASSUME StoreInv, [StoreNext]_storeVars, NEW r \in RunIds, IsLocked(r)
    PROVE  IsLocked(r)' /\ runs'[r].decision = runs[r].decision
<1>1. ContractKept(r)
      BY EndStep
<1>2. QED
      BY <1>1 DEF ContractKept, IsLocked, Exists

(* A worker that goes on holding the same run on the same route.           *)
LEMMA HoldingGoesOn ==
    ASSUME StoreInv, [StoreNext]_storeVars, NEW w \in Workers,
           HoldsLockedRun(w),
           work'[w].run = work[w].run, work'[w].route = work[w].route,
           work'[w].pc \in Executing \cup Following
               => work[w].pc \in Executing \cup Following
    PROVE  HoldsLockedRun(w)'
<1> SUFFICES ASSUME work'[w].pc \in Executing \cup Following
             PROVE  /\ Own(w)' \in RunIds
                    /\ IsLocked(Own(w))'
                    /\ work'[w].route = runs'[Own(w)'].decision.route
    BY DEF HoldsLockedRun
<1>1. /\ Own(w) \in RunIds /\ IsLocked(Own(w)) /\ Own(w)' = Own(w)
      /\ work[w].route = runs[Own(w)].decision.route
      BY DEF HoldsLockedRun, Own
<1>2. \A r \in RunIds :
          IsLocked(r) => /\ runs'[r] # NoRun /\ runs'[r].locked # NoTime
                         /\ runs'[r].decision = runs[r].decision
      BY LocksAreKept DEF IsLocked, Exists
<1>3. QED
      BY <1>1, <1>2 DEF IsLocked, Exists, Own

LEMMA OtherWorkers ==
    ASSUME ServiceTypeOK, NEW w \in Workers,
           WorkerStep(w) \/ StartWorker(w) \/ StopWorker(w) \/ Crash(w)
    PROVE  \A v \in Workers \ {w} : work'[v] = work[v]
  BY DEF ServiceTypeOK, WorkerStep, StartupRequeue, Claim, FindNothing,
         ReadCounters, LoadTask, LoadFails, Dispatch, Browse, BrowseFails,
         LandReport, ReportRefused, LandFailure, Land, FailureRefused,
         RecordMetrics, OpenOutputs, OutputsLost, SendOutput, AuditOutput,
         FinishRun, StartWorker, StopWorker, Crash, GoTo, Exit, Poll

LEMMA WorkerHolds ==
    ASSUME ServiceInv, [StoreNext]_storeVars, NEW w \in Workers,
           WorkerStep(w) \/ StartWorker(w) \/ StopWorker(w) \/ Crash(w)
    PROVE  HoldsLockedRun(w)' /\ InProgress(w)'
<1>1. /\ work \in [Workers -> Work] /\ work[w] \in Work
      /\ StoreInv /\ HoldsLockedRun(w) /\ InProgress(w)
      BY DEF ServiceInv, ServiceTypeOK
<1>2. CASE FindNothing(w) \/ StopWorker(w) \/ FailureRefused(w)
           \/ OutputsLost(w) \/ FinishRun(w) \/ Crash(w)
           \/ StartWorker(w) \/ StartupRequeue(w)
  <2>1. CASE FindNothing(w) \/ StopWorker(w) \/ FailureRefused(w)
             \/ OutputsLost(w) \/ Crash(w)
    <3>1. work' = [work EXCEPT ![w] = Asleep]
          BY <2>1 DEF FindNothing, StopWorker, FailureRefused, OutputsLost,
                      Crash, Exit
    <3>2. work'[w].pc = "down"
          BY <1>1, <3>1 DEF Asleep
    <3>3. QED
          BY <3>2 DEF HoldsLockedRun, InProgress, Executing, Following
  <2>2. CASE FinishRun(w) \/ StartWorker(w) \/ StartupRequeue(w)
    <3> DEFINE Up == work'[w].pc \in {"down", "idle", "starting"}
    <3>1. ASSUME FinishRun(w) PROVE Up
      <4>1. \/ work' = [work EXCEPT ![w] = Asleep]
            \/ work' = [work EXCEPT ![w] = [Asleep EXCEPT
                           !.pc = "idle", !.enabled = work[w].enabled,
                           !.https = work[w].https]]
            BY <3>1 DEF FinishRun, Poll
      <4>2. /\ Asleep.pc = "down"
            /\ [Asleep EXCEPT !.pc = "idle",
                              !.enabled = work[w].enabled,
                              !.https = work[w].https].pc = "idle"
            BY DEF Asleep
      <4>3. QED
            BY <1>1, <4>1, <4>2
    <3>2. ASSUME StartWorker(w) PROVE Up
          BY <1>1, <3>2 DEF StartWorker, Work
    <3>3. ASSUME StartupRequeue(w) PROVE Up
          BY <1>1, <3>3 DEF StartupRequeue, GoTo, Work
    <3>4. Up
          BY <2>2, <3>1, <3>2, <3>3
    <3>5. QED
          BY <3>4 DEF HoldsLockedRun, InProgress, Executing, Following
  <2>3. QED
        BY <1>2, <2>1, <2>2
<1>3. CASE Claim(w)
  <2>1. PICK r \in RunIds, now \in Stamps :
            /\ ClaimNextRun(r, now)
            /\ work' = [work EXCEPT ![w] =
                   [work[w] EXCEPT !.pc = "claimed", !.run = r, !.since = clock,
                                   !.route = runs[r].decision.route]]
        BY <1>3 DEF Claim
  <2>2. /\ work'[w].run = r /\ work'[w].pc = "claimed"
        /\ work'[w].route = runs[r].decision.route
        BY <1>1, <2>1 DEF Work
  <2>3. IsLocked(r)
        BY <2>1 DEF ClaimNextRun, Claimable
  <2>4. /\ runs'[r] # NoRun /\ runs'[r].locked # NoTime
        /\ runs'[r].decision = runs[r].decision
        BY <1>1, <2>3, LocksAreKept DEF IsLocked, Exists
  <2>5. HoldsLockedRun(w)'
        BY <2>2, <2>4 DEF HoldsLockedRun, IsLocked, Exists, Own
  <2>6. QED
        BY <2>2, <2>5 DEF InProgress
<1>4. CASE ReadCounters(w) \/ LoadTask(w) \/ LoadFails(w) \/ Dispatch(w)
           \/ (\E outcome \in ResultStatuses : Browse(w, outcome))
           \/ BrowseFails(w) \/ LandReport(w) \/ ReportRefused(w)
           \/ LandFailure(w) \/ RecordMetrics(w) \/ OpenOutputs(w)
           \/ (\E delivered \in BOOLEAN : SendOutput(w, delivered))
           \/ AuditOutput(w)
  <2> DEFINE Goes(to) == /\ work[w].pc \in Executing \cup Following
                         /\ work'[w].run = work[w].run
                         /\ work'[w].route = work[w].route
                         /\ work'[w].pc = to
             Safe == {"loading", "dispatching", "failing", "browsing",
                      "measuring", "opening", "publishing"}
  <2>1. ASSUME LoadTask(w) \/ LoadFails(w) \/ Dispatch(w) \/ BrowseFails(w)
               \/ ReportRefused(w) \/ RecordMetrics(w)
        PROVE  \E pc \in Safe : Goes(pc)
    <3>1. /\ work[w].pc \in Executing \cup Following
          /\ \E pc \in Safe : GoTo(w, pc)
          BY <2>1 DEF LoadTask, LoadFails, Dispatch, BrowseFails,
                      ReportRefused, RecordMetrics, At, Executing, Following
    <3>2. QED
          BY <1>1, <3>1 DEF GoTo, Work
  <2>2. ASSUME ReadCounters(w) \/ OpenOutputs(w) \/ AuditOutput(w)
               \/ LandReport(w) \/ LandFailure(w)
        PROVE  \E pc \in Safe : Goes(pc)
    <3>1. ASSUME ReadCounters(w) PROVE Goes("loading")
          BY <1>1, <3>1 DEF ReadCounters, At, Executing, Work
    <3>2. ASSUME OpenOutputs(w) PROVE Goes("publishing")
          BY <1>1, <3>2 DEF OpenOutputs, At, Following, Work
    <3>3. ASSUME AuditOutput(w) PROVE Goes("publishing")
          BY <1>1, <3>3 DEF AuditOutput, At, Following, Work
    <3>4. ASSUME LandReport(w) \/ LandFailure(w) PROVE Goes("measuring")
          BY <1>1, <3>4 DEF LandReport, LandFailure, Land, At, Executing, Work
    <3>5. QED
          BY <2>2, <3>1, <3>2, <3>3, <3>4
  <2>3. ASSUME NEW outcome \in ResultStatuses, Browse(w, outcome)
        PROVE  Goes("reporting") /\ work'[w].outcome \in ResultStatuses
        BY <1>1, <2>3 DEF Browse, At, Executing, Work
  <2>4. ASSUME NEW delivered \in BOOLEAN, SendOutput(w, delivered)
        PROVE  Goes("auditing") /\ work'[w].todo # {}
        BY <1>1, <2>4 DEF SendOutput, At, Following, Work
  <2>5. \/ \E pc \in Safe : Goes(pc)
        \/ Goes("reporting") /\ work'[w].outcome \in ResultStatuses
        \/ Goes("auditing") /\ work'[w].todo # {}
        BY <1>4, <2>1, <2>2, <2>3, <2>4
  <2>6. \E pc : Goes(pc)
        BY <2>5
  <2>7. InProgress(w)'
    <3>1. CASE \E pc \in Safe : Goes(pc)
      <4>1. work'[w].pc \in Safe
            BY <3>1
      <4>2. QED
            BY <4>1 DEF InProgress
    <3>2. CASE Goes("reporting") /\ work'[w].outcome \in ResultStatuses
          BY <3>2 DEF InProgress
    <3>3. CASE Goes("auditing") /\ work'[w].todo # {}
          BY <3>3 DEF InProgress
    <3>4. QED
          BY <2>5, <3>1, <3>2, <3>3
  <2>8. HoldsLockedRun(w)'
        BY <1>1, <2>6, HoldingGoesOn
  <2>9. QED
        BY <2>7, <2>8
<1>5. QED
      BY <1>2, <1>3, <1>4 DEF WorkerStep

LEMMA ServiceInvInit == ServiceInit => ServiceInv
<1> SUFFICES ASSUME ServiceInit PROVE ServiceInv
    OBVIOUS
<1>1. StoreInv /\ ServiceTypeOK
      BY InvInit, ServiceInitTyped DEF ServiceInit
<1>2. \A w \in Workers : HoldsLockedRun(w) /\ InProgress(w)
      BY DEF ServiceInit, Asleep, HoldsLockedRun, InProgress, Executing,
             Following
<1>3. QED
      BY <1>1, <1>2 DEF ServiceInv

LEMMA ServiceInvStep == ServiceInv /\ [ServiceNext]_vars => ServiceInv'
<1> SUFFICES ASSUME ServiceInv, [ServiceNext]_vars PROVE ServiceInv'
    OBVIOUS
<1>1. /\ StoreInv /\ ServiceTypeOK /\ [StoreNext]_storeVars
      /\ \A w \in Workers : HoldsLockedRun(w) /\ InProgress(w)
      BY ServiceStepIsStoreStep DEF ServiceInv
<1>2. StoreInv' /\ ServiceTypeOK'
      BY <1>1, InvStep, ServiceTypeStep
<1>3. \A w \in Workers : work'[w] = work[w]
                            => HoldsLockedRun(w)' /\ InProgress(w)'
      BY <1>1, HoldingGoesOn DEF InProgress
<1>4. ASSUME NEW w \in Workers PROVE HoldsLockedRun(w)' /\ InProgress(w)'
  <2>1. CASE \E v \in Workers : WorkerStep(v) \/ StartWorker(v)
                                \/ StopWorker(v) \/ Crash(v)
    <3>1. PICK v \in Workers : WorkerStep(v) \/ StartWorker(v)
                               \/ StopWorker(v) \/ Crash(v)
          BY <2>1
    <3>2. CASE v = w
          BY <1>1, <3>1, <3>2, WorkerHolds
    <3>3. CASE v # w
          BY <1>1, <1>3, <3>1, <3>3, OtherWorkers
    <3>4. QED
          BY <3>2, <3>3
  <2>2. CASE ApiStep \/ (\E t \in Tenants : EditRegistry(t)) \/ TimePasses
             \/ UNCHANGED vars
    <3>1. work' = work
          BY <2>2 DEF ApiStep, BeginCreate, BeginRoute, BeginApprove, Begin,
                      FinishCreate, FinishRoute, FinishApprove,
                      FinishWithoutEffect, End, EditRegistry, TimePasses,
                      serviceVars, vars
    <3>2. QED
          BY <1>3, <3>1
  <2>3. QED
        BY <2>1, <2>2 DEF ServiceNext
<1>5. QED
      BY <1>2, <1>4 DEF ServiceInv

(* The inductive invariant of the service.                                 *)
THEOREM ServiceInvariance == ServiceSpec => []ServiceInv
<1>1. QED
      BY ServiceInvInit, ServiceInvStep, PTL DEF ServiceSpec

-----------------------------------------------------------------------------
(* The theorems *)

(* Type correctness of the service.                                        *)
THEOREM ServiceTypeCorrect == ServiceSpec => []ServiceTypeOK
<1>1. ServiceInv => ServiceTypeOK
      BY DEF ServiceInv
<1>2. QED
      BY <1>1, ServiceInvariance, PTL

(* The service implements the run store: with the API handlers split into  *)
(* a read and a transaction, and workers that overlap, are killed and come *)
(* back, every step it takes is a step the store allows or a stutter, so   *)
(* every theorem about StoreSpec is a theorem about the service.           *)
THEOREM ServiceUsesStore == ServiceSpec => StoreSpec
<1>1. ServiceInit => StoreInit
      BY DEF ServiceInit
<1>2. QED
      BY <1>1, ServiceStepIsStoreStep, ServiceInvariance, PTL
         DEF ServiceSpec, StoreSpec

(* However many workers overlap, a worker only ever executes, measures and *)
(* publishes an approved run, on the route its approval locked.            *)
THEOREM LockedRoute == ServiceSpec => []WorkersRunTheLockedRoute
<1>1. ServiceInv => WorkersRunTheLockedRoute
  <2> SUFFICES ASSUME ServiceInv, NEW w \in Workers,
                      work[w].pc \in Executing \cup Following
               PROVE  /\ IsLocked(Own(w))
                      /\ approvals[Own(w)]["blueprint"] # NoApproval
                      /\ approvals[Own(w)]["blueprint"].decision = "approved"
                      /\ work[w].route = runs[Own(w)].decision.route
      BY DEF WorkersRunTheLockedRoute
  <2>1. /\ Own(w) \in RunIds /\ IsLocked(Own(w))
        /\ work[w].route = runs[Own(w)].decision.route
        BY DEF ServiceInv, HoldsLockedRun
  <2>2. RowInv(Own(w)) /\ Exists(Own(w))
        BY <2>1 DEF ServiceInv, StoreInv, IsLocked
  <2>3. QED
        BY <2>1, <2>2 DEF RowInv, ApprovalMatches
<1>2. QED
      BY <1>1, ServiceInvariance, PTL

-----------------------------------------------------------------------------
(* No two attempts on one run, while none outlasts its lease *)

(* A worker that goes on with the attempt whose counters it has read.      *)
SameAttempt(w) ==
    /\ {work[w].pc, work'[w].pc} \subseteq Executing \ {"claimed"}
    /\ work'[w].run = work[w].run
    /\ work'[w].since = work[w].since
    /\ work'[w].route = work[w].route
    /\ work'[w].attempts = work[w].attempts
    /\ work'[w].requeues = work[w].requeues

LEMMA AttemptMoves ==
    ASSUME ServiceInv, NEW w \in Workers,
           WorkerStep(w) \/ StartWorker(w) \/ StopWorker(w) \/ Crash(w)
    PROVE  \/ Claim(w) \/ ReadCounters(w) \/ SameAttempt(w)
           \/ work'[w].pc \notin Executing
<1>1. work \in [Workers -> Work] /\ work[w] \in Work
      BY DEF ServiceInv, ServiceTypeOK
<1>2. ASSUME LoadTask(w) \/ LoadFails(w) \/ Dispatch(w) \/ BrowseFails(w)
             \/ ReportRefused(w)
      PROVE  SameAttempt(w)
  <2>1. /\ work[w].pc \in Executing \ {"claimed"}
        /\ \E pc \in Executing \ {"claimed"} : GoTo(w, pc)
        BY <1>2 DEF LoadTask, LoadFails, Dispatch, BrowseFails,
                    ReportRefused, At, Executing
  <2>2. QED
        BY <1>1, <2>1 DEF GoTo, Work, SameAttempt
<1>3. ASSUME NEW outcome \in ResultStatuses, Browse(w, outcome)
      PROVE  SameAttempt(w)
      BY <1>1, <1>3 DEF Browse, At, Executing, Work, SameAttempt
<1>4. ASSUME StartupRequeue(w) \/ RecordMetrics(w)
      PROVE  work'[w].pc \notin Executing
      BY <1>1, <1>4 DEF StartupRequeue, RecordMetrics, GoTo, Executing, Work
<1>5. ASSUME FindNothing(w) \/ StopWorker(w) \/ FailureRefused(w)
             \/ OutputsLost(w) \/ FinishRun(w) \/ Crash(w)
      PROVE  work'[w].pc \notin Executing
  <2>1. \/ work' = [work EXCEPT ![w] = Asleep]
        \/ work' = [work EXCEPT ![w] = [Asleep EXCEPT
                       !.pc = "idle", !.enabled = work[w].enabled,
                       !.https = work[w].https]]
        BY <1>5 DEF FindNothing, StopWorker, FailureRefused, OutputsLost,
                    FinishRun, Crash, Exit, Poll
  <2>2. /\ Asleep.pc = "down"
        /\ [Asleep EXCEPT !.pc = "idle", !.enabled = work[w].enabled,
                          !.https = work[w].https].pc = "idle"
        BY DEF Asleep
  <2>3. QED
        BY <1>1, <2>1, <2>2 DEF Executing
<1>6. ASSUME StartWorker(w) \/ OpenOutputs(w) \/ AuditOutput(w)
             \/ LandReport(w) \/ LandFailure(w)
      PROVE  work'[w].pc \notin Executing
  <2>1. CASE StartWorker(w)
    <3>1. PICK enabled \in BOOLEAN, https \in BOOLEAN :
              work' = [work EXCEPT ![w] =
                  [work[w] EXCEPT !.pc = "starting", !.enabled = enabled,
                                  !.https = https]]
          BY <1>1, <2>1, ServiceParameters DEF StartWorker
    <3>2. QED
          BY <1>1, <3>1 DEF Work, Executing
  <2>2. CASE ~StartWorker(w)
    <3>1. work'[w].pc \in {"publishing", "measuring"}
          BY <1>1, <1>6, <2>2 DEF OpenOutputs, AuditOutput, LandReport,
                                  LandFailure, Land, Work
    <3>2. QED
          BY <3>1 DEF Executing
  <2>3. QED
        BY <2>1, <2>2
<1>7. ASSUME NEW delivered \in BOOLEAN, SendOutput(w, delivered)
      PROVE  work'[w].pc \notin Executing
      BY <1>1, <1>7 DEF SendOutput, Executing, Work
<1>8. QED
      BY <1>2, <1>3, <1>4, <1>5, <1>6, <1>7 DEF WorkerStep

(* Until an attempt has outlasted AttemptMinutes none has, and time only   *)
(* passes while every attempt still has a minute left.                     *)
LEMMA NoOverrunYet ==
    ASSUME ServiceInv, [ServiceNext]_vars, ~spent'.overrun
    PROVE  /\ ~spent.overrun
           /\ \/ clock' = clock
              \/ /\ TimePasses /\ clock' = clock + 1
                 /\ \A w \in Workers : work[w].pc \in Executing =>
                       clock - work[w].since < AttemptMinutes
<1>1. spent \in Spent /\ work \in [Workers -> Work] /\ clock \in Nat
      BY DEF ServiceInv, ServiceTypeOK, StoreTypeOK
<1>2. CASE ApiStep
  <2>1. spent'.overrun = spent.overrun
        BY <1>1, <1>2 DEF ApiStep, BeginCreate, BeginRoute, BeginApprove,
                    Begin, FinishCreate, FinishRoute, FinishApprove,
                    FinishWithoutEffect, End, Spent
  <2>2. QED
        BY <1>2, <2>1, ApiSteps, ClockStands
<1>3. CASE \E w \in Workers : WorkerStep(w) \/ StartWorker(w) \/ StopWorker(w)
                              \/ Crash(w)
  <2>1. PICK w \in Workers : WorkerStep(w) \/ StartWorker(w) \/ StopWorker(w)
                             \/ Crash(w)
        BY <1>3
  <2>2. CASE Crash(w)
        BY <1>1, <2>2 DEF Crash, storeVars, Spent
  <2>3. CASE ~Crash(w)
    <3>1. spent' = spent
          BY <2>1, <2>3 DEF WorkerStep, StartupRequeue, Claim, FindNothing,
                      ReadCounters, LoadTask, LoadFails, Dispatch, Browse,
                      BrowseFails, LandReport, ReportRefused, LandFailure,
                      Land, FailureRefused, RecordMetrics, OpenOutputs,
                      OutputsLost, SendOutput, AuditOutput, FinishRun,
                      StartWorker, StopWorker, GoTo, Exit, Poll
    <3>2. QED
          BY <2>1, <3>1, WorkerSteps, ClockStands DEF OwnStep
  <2>4. QED
        BY <2>2, <2>3
<1>4. CASE \E t \in Tenants : EditRegistry(t)
      BY <1>1, <1>4 DEF EditRegistry, storeVars, Spent
<1>5. CASE TimePasses
  <2> DEFINE late == \E w \in Workers :
                        /\ work[w].pc \in Executing
                        /\ clock - work[w].since >= AttemptMinutes
  <2>1. spent' = [spent EXCEPT !.overrun = spent.overrun \/ late]
        BY <1>5 DEF TimePasses
  <2>2. spent'.overrun = (spent.overrun \/ late)
        BY <1>1, <2>1 DEF Spent
  <2>3. ~spent.overrun /\ ~late
        BY <2>2
  <2>4. \A w \in Workers : work[w].since \in Nat
        BY <1>1 DEF Work
  <2>5. QED
        BY <1>1, <1>5, <2>3, <2>4, ServiceParameters DEF TimePasses, Tick
<1>6. CASE UNCHANGED vars
      BY <1>6 DEF vars, storeVars, serviceVars
<1>7. QED
      BY <1>2, <1>3, <1>4, <1>5, <1>6 DEF ServiceNext

(* The stale interval of the workers covers the longest attempt and the    *)
(* lag of the clock reads.                                                 *)
LeaseCoversAttempt == StaleMinutes >= AttemptMinutes + MaxLag

LEMMA AttemptGoesOn ==
    ASSUME LeaseCoversAttempt, ServiceInv, EarlierStep, NEW w \in Workers,
           KeepsLease(w), SameAttempt(w) \/ work'[w] = work[w],
           \/ clock' = clock
           \/ /\ clock' = clock + 1
              /\ work[w].pc \in Executing =>
                    clock - work[w].since < AttemptMinutes
    PROVE  KeepsLease(w)'
<1> SUFFICES ASSUME work'[w].pc \in Executing
             PROVE  KeepsLease(w)'
    BY DEF KeepsLease
<1>1. /\ work[w] \in Work /\ StoreInv /\ clock \in Nat
      /\ log \in [RunIds -> [EventRows -> Nat]]
      /\ runs \in [RunIds -> Run \cup {NoRun}]
      BY DEF ServiceInv, ServiceTypeOK, StoreTypeOK
<1>2. /\ work[w].pc \in Executing /\ work'[w].run = work[w].run
      /\ work'[w].since = work[w].since /\ work'[w].route = work[w].route
      /\ work'[w].pc # "claimed" =>
            /\ work[w].pc # "claimed"
            /\ work'[w].attempts = work[w].attempts
            /\ work'[w].requeues = work[w].requeues
      BY DEF SameAttempt
<1>3. PICK r \in RunIds : r = work[w].run
      BY <1>2 DEF ServiceInv, HoldsLockedRun, Own
<1>4. PICK since \in Nat : since = work[w].since
      BY <1>1 DEF Work
<1>5. /\ Has(r, {"running"}) /\ since <= clock
      /\ clock - since <= AttemptMinutes /\ since - MaxLag <= runs[r].updated
      BY <1>2, <1>3, <1>4 DEF KeepsLease, Own
<1>6. Has(r, {"running"})' /\ since - MaxLag <= runs'[r].updated
  <2>1. /\ since - MaxLag \in Int /\ since - MaxLag <= clock - MaxLag
        /\ clock - StaleMinutes <= since - MaxLag
        BY <1>1, <1>4, <1>5, StoreIntervals, ServiceParameters
           DEF LeaseCoversAttempt
  <2>2. QED
        BY <1>1, <1>5, <2>1, LeaseStands
<1>7. since <= clock' /\ clock' - since <= AttemptMinutes
      BY <1>1, <1>2, <1>4, <1>5, ServiceParameters
<1>8. ASSUME NEW row \in AttemptRows PROVE log'[r][row] = log[r][row]
  <2>1. Has(r, {"running"} \cup Terminal) /\ ~Has(r, {"queued"})'
        BY <1>5, <1>6 DEF Has
  <2>2. [StoreNext]_storeVars
        BY DEF EarlierStep, OwnStep, StoreNext
  <2>3. QED
        BY <1>1, <1>8, <2>1, <2>2, AttemptRowsStand
<1>9. work'[w].pc # "claimed" =>
         /\ work'[w].attempts = log'[r][<<"run.started", work'[w].route>>]
         /\ work'[w].requeues =
               log'[r][<<"run.requeued-after-stale-lease", NoTag>>]
  <2>1. work[w].route \in Routes
        BY <1>1 DEF Work
  <2>2. QED
        BY <1>2, <1>3, <1>8, <2>1 DEF KeepsLease, Own, Count, AttemptRows
<1>10. QED
       BY <1>2, <1>3, <1>4, <1>6, <1>7, <1>9 DEF KeepsLease, Own, Count, Has,
                                                 Exists

LEMMA AttemptBegins ==
    ASSUME ServiceInv, NEW w \in Workers, Claim(w)
    PROVE  /\ KeepsLease(w)'
           /\ Own(w)' \in RunIds /\ Has(Own(w)', {"queued"})
<1>1. /\ work \in [Workers -> Work] /\ work[w] \in Work /\ clock \in Nat
      /\ runs \in [RunIds -> Run \cup {NoRun}]
      BY DEF ServiceInv, ServiceTypeOK, StoreTypeOK
<1>2. PICK r \in RunIds, now \in Stamps :
          /\ ClaimNextRun(r, now)
          /\ work' = [work EXCEPT ![w] =
                 [work[w] EXCEPT !.pc = "claimed", !.run = r, !.since = clock,
                                 !.route = runs[r].decision.route]]
      BY DEF Claim
<1>3. /\ work'[w].run = r /\ work'[w].pc = "claimed"
      /\ work'[w].since = clock /\ clock' = clock
      BY <1>1, <1>2 DEF Work, ClaimNextRun
<1>4. Has(r, {"queued"}) /\ runs[r] \in Run
      BY <1>1, <1>2 DEF ClaimNextRun, Claimable, Has, Exists
<1>5. runs'[r].status = "running" /\ runs'[r].updated = now
      BY <1>1, <1>2, <1>4 DEF ClaimNextRun, Run
<1>6. runs'[r] # NoRun
  <2>1. ClaimStep
        BY <1>2 DEF ClaimStep
  <2>2. QED
        BY <1>4, <2>1, EndStep
           DEF ServiceInv, ContractKept, Has, Exists, StoreNext
<1>7. now \in Nat /\ clock - MaxLag <= now
      BY <1>1, StoreIntervals DEF Stamps
<1>8. clock <= clock' /\ clock' - clock <= AttemptMinutes
      BY <1>1, <1>3, ServiceParameters
<1>9. QED
      BY <1>3, <1>4, <1>5, <1>6, <1>7, <1>8 DEF KeepsLease, Own, Has, Exists

LEMMA CountersRead ==
    ASSUME ServiceInv, NEW w \in Workers, ReadCounters(w), KeepsLease(w)
    PROVE  KeepsLease(w)' /\ work'[w].run = work[w].run
<1>1. /\ work \in [Workers -> Work] /\ work[w] \in Work
      BY DEF ServiceInv, ServiceTypeOK
<1>2. /\ work[w].pc = "claimed" /\ work'[w].run = work[w].run
      /\ work'[w].since = work[w].since /\ work'[w].route = work[w].route
      /\ work'[w].attempts = Count(Own(w), "run.started", work[w].route)
      /\ work'[w].requeues =
            Count(Own(w), "run.requeued-after-stale-lease", NoTag)
      /\ UNCHANGED storeVars
      BY <1>1 DEF ReadCounters, At, Work
<1>3. QED
      BY <1>2 DEF KeepsLease, Own, Count, Has, Exists, storeVars, Executing

(* What the report that ends a run changes in the service.                 *)
LEMMA LandEffect ==
    ASSUME ServiceInv, NEW w \in Workers, LandReport(w) \/ LandFailure(w)
    PROVE  /\ work[w].pc \in {"reporting", "failing"}
           /\ work'[w] = [work[w] EXCEPT !.pc = "measuring"]
           /\ \A v \in Workers \ {w} : work'[v] = work[v]
           /\ \E r \in RunIds :
                 /\ Own(w) = r /\ Has(r, {"running"}) /\ Has(r, Terminal)'
                 /\ \A s \in RunIds \ {r} : /\ runs'[s] = runs[s]
                                            /\ log'[s] = log[s]
                                            /\ report'[s] = report[s]
                 /\ report'[r] = [attempts |-> work[w].attempts,
                                  requeues |-> work[w].requeues,
                                  route |-> work[w].route]
           /\ CompleteStep
           /\ UNCHANGED <<registry, calls, sent, opened, spent, clock>>
<1>1. /\ work \in [Workers -> Work] /\ work[w] \in Work /\ StoreInv
      /\ report \in [RunIds -> Report \cup {NoReport}]
      /\ HoldsLockedRun(w) /\ InProgress(w)
      BY DEF ServiceInv, ServiceTypeOK
<1>2. work[w].pc \in {"reporting", "failing"}
      BY DEF LandReport, LandFailure, At
<1>3. PICK r \in RunIds : Own(w) = r
      BY <1>1, <1>2 DEF HoldsLockedRun, Executing
<1>4. PICK outcome \in ResultStatuses : Land(w, outcome)
      BY <1>1 DEF LandReport, LandFailure, At, InProgress, ResultStatuses
<1>5. PICK now \in Stamps :
          CompleteRun(r, outcome, outcome # "failed", now)
      BY <1>3, <1>4 DEF Land
<1>6. /\ CompleteStep /\ Has(r, {"running"}) /\ Has(r, Terminal)'
      /\ \A s \in RunIds \ {r} : runs'[s] = runs[s] /\ log'[s] = log[s]
      BY <1>1, <1>3, <1>5, ReportEffect
<1>7. clock' = clock
      BY <1>6, ClockStands
<1>8. /\ report' = [report EXCEPT ![r] =
            [attempts |-> work[w].attempts, requeues |-> work[w].requeues,
             route |-> work[w].route]]
      /\ work' = [work EXCEPT ![w] = [work[w] EXCEPT !.pc = "measuring"]]
      /\ UNCHANGED <<registry, calls, sent, opened, spent>>
      BY <1>1, <1>3, <1>4 DEF Land, Work
<1>9. QED
      BY <1>1, <1>2, <1>3, <1>6, <1>7, <1>8

(* Every step of the service but a report, as far as the leases go.        *)
LEMMA EarlierMoves ==
    ASSUME ServiceInv, [ServiceNext]_vars
    PROVE  \/ \E w \in Workers : LandReport(w) \/ LandFailure(w)
           \/ /\ EarlierStep /\ report' = report
              /\ \/ work' = work
                 \/ \E w \in Workers :
                       /\ \A v \in Workers \ {w} : work'[v] = work[v]
                       /\ \/ Claim(w) \/ ReadCounters(w) \/ SameAttempt(w)
                          \/ work'[w].pc \notin Executing
<1>1. CASE ApiStep
  <2>1. UNCHANGED <<work, report>>
        BY <1>1 DEF ApiStep, BeginCreate, BeginRoute, BeginApprove, Begin,
                    FinishCreate, FinishRoute, FinishApprove,
                    FinishWithoutEffect, End
  <2>2. QED
        BY <1>1, <2>1, ApiSteps DEF EarlierStep
<1>2. CASE \E w \in Workers : WorkerStep(w) \/ StartWorker(w) \/ StopWorker(w)
                              \/ Crash(w)
  <2>1. PICK w \in Workers : WorkerStep(w) \/ StartWorker(w) \/ StopWorker(w)
                             \/ Crash(w)
        BY <1>2
  <2>2. ASSUME ~LandReport(w), ~LandFailure(w)
        PROVE  EarlierStep /\ report' = report
    <3>1. EarlierStep
          BY <2>1, <2>2, WorkerSteps DEF EarlierStep, OwnStep
    <3>2. report' = report
          BY <2>1, <2>2
             DEF WorkerStep, StartupRequeue, Claim, FindNothing,
                 ReadCounters, LoadTask, LoadFails, Dispatch, Browse,
                 BrowseFails, ReportRefused, FailureRefused, RecordMetrics,
                 OpenOutputs, OutputsLost, SendOutput, AuditOutput, FinishRun,
                 StartWorker, StopWorker, Crash, GoTo, Exit, Poll
    <3>3. QED
          BY <3>1, <3>2
  <2>3. \A v \in Workers \ {w} : work'[v] = work[v]
        BY <2>1, OtherWorkers DEF ServiceInv
  <2>4. QED
        BY <2>1, <2>2, <2>3, AttemptMoves
<1>3. CASE (\E t \in Tenants : EditRegistry(t)) \/ TimePasses \/ UNCHANGED vars
      BY <1>3 DEF EditRegistry, TimePasses, vars, serviceVars, EarlierStep,
                  OwnStep
<1>4. QED
      BY <1>1, <1>2, <1>3 DEF ServiceNext

(* An ended run keeps its decision, and the events of its attempts.        *)
LEMMA EndedRunStands ==
    ASSUME StoreInv, [StoreNext]_storeVars, NEW r \in RunIds, Has(r, Terminal)
    PROVE  /\ Has(r, Terminal)' /\ IsLocked(r)
           /\ runs'[r].decision = runs[r].decision
           /\ runs'[r].request = runs[r].request
           /\ runs[r].decision.route \in Routes
           /\ \A row \in AttemptRows : log'[r][row] = log[r][row]
<1>1. /\ IsLocked(r) /\ runs[r] \in Run
      BY DEF StoreInv, StoreTypeOK, RowInv, ApprovalMatches, Has, Exists
<1>2. ContractKept(r) /\ EndKept(r)
      BY EndStep
<1>3. Has(r, Terminal)'
      BY <1>2 DEF ContractKept, EndKept, Has, Exists
<1>4. /\ runs'[r].decision = runs[r].decision
      /\ runs'[r].request = runs[r].request
      BY <1>1, <1>2 DEF ContractKept, IsLocked
<1>5. Has(r, {"running"} \cup Terminal) /\ ~Has(r, {"queued"})'
      BY <1>3 DEF Has, Terminal
<1>6. QED
      BY <1>1, <1>3, <1>4, <1>5, AttemptRowsStand DEF Run, Decisions

LEMMA LeaseInit == ServiceInit => LeaseInv
<1> SUFFICES ASSUME ServiceInit PROVE LeaseInv
    OBVIOUS
<1>1. \A w \in Workers : work[w].pc = "down"
      BY DEF ServiceInit, Asleep
<1>2. \A r \in RunIds : ~Has(r, Terminal)
      BY DEF ServiceInit, StoreInit, Has, Exists
<1>3. QED
      BY <1>1, <1>2 DEF LeaseInv, KeepsLease, ExclusiveExecution,
                        ReportCountsClaims, Executing

LEMMA LeaseStep ==
    ASSUME LeaseCoversAttempt, ServiceInv, LeaseInv, [ServiceNext]_vars
    PROVE  LeaseInv'
<1> SUFFICES ASSUME ~spent'.overrun
             PROVE  /\ \A w \in Workers : KeepsLease(w)'
                    /\ ExclusiveExecution'
                    /\ ReportCountsClaims'
    BY DEF LeaseInv
<1>1. /\ ~spent.overrun
      /\ \A w \in Workers : KeepsLease(w)
      /\ ExclusiveExecution /\ ReportCountsClaims
      /\ StoreInv /\ [StoreNext]_storeVars
      BY NoOverrunYet, ServiceStepIsStoreStep DEF LeaseInv, ServiceInv
<1>2. CASE \E w \in Workers : LandReport(w) \/ LandFailure(w)
  <2>1. PICK w \in Workers : LandReport(w) \/ LandFailure(w)
        BY <1>2
  <2>2. /\ work[w].pc \in {"reporting", "failing"}
        /\ work'[w] = [work[w] EXCEPT !.pc = "measuring"]
        /\ \A v \in Workers \ {w} : work'[v] = work[v]
        /\ CompleteStep /\ clock' = clock
        BY <2>1, LandEffect
  <2>3. PICK r \in RunIds :
             /\ Own(w) = r /\ Has(r, {"running"}) /\ Has(r, Terminal)'
             /\ \A s \in RunIds \ {r} : /\ runs'[s] = runs[s]
                                        /\ log'[s] = log[s]
                                        /\ report'[s] = report[s]
             /\ report'[r] = [attempts |-> work[w].attempts,
                              requeues |-> work[w].requeues,
                              route |-> work[w].route]
        BY <2>1, LandEffect
  <2>4. /\ work[w].pc \in Executing \ {"claimed"}
        /\ work'[w].pc \notin Executing
        BY <2>2 DEF Executing, ServiceInv, ServiceTypeOK, Work
  <2>5. ASSUME NEW v \in Workers, work'[v].pc \in Executing
        PROVE  /\ v # w /\ work'[v] = work[v]
               /\ Own(v) \in RunIds \ {r}
    <3>1. v # w
          BY <2>5, <2>4
    <3>2. QED
          BY <1>1, <2>2, <2>5, <2>3, <2>4, <3>1
             DEF ExclusiveExecution, ServiceInv, HoldsLockedRun
  <2>6. ASSUME NEW v \in Workers PROVE KeepsLease(v)'
    <3>1. SUFFICES ASSUME work'[v].pc \in Executing PROVE KeepsLease(v)'
          BY DEF KeepsLease
    <3>2. /\ work'[v] = work[v]
          /\ runs'[Own(v)] = runs[Own(v)] /\ log'[Own(v)] = log[Own(v)]
          /\ clock' = clock
          BY <2>2, <2>5, <2>3, <3>1
    <3>3. QED
          BY <1>1, <3>2 DEF KeepsLease, Own, Has, Exists, Count
  <2>7. ExclusiveExecution'
        BY <1>1, <2>5 DEF ExclusiveExecution, Own
  <2>8. ASSUME NEW s \in RunIds, Has(s, Terminal)'
        PROVE  /\ report'[s].route = runs'[s].decision.route
               /\ report'[s].attempts =
                     log'[s][<<"run.started", runs'[s].decision.route>>]
               /\ report'[s].requeues =
                     log'[s][<<"run.requeued-after-stale-lease", NoTag>>]
    <3>1. CASE s # r
          BY <1>1, <2>8, <2>3, <3>1
             DEF ReportCountsClaims, Count, Has, Exists
    <3>2. CASE s = r
      <4>1. /\ work[w].route = runs[r].decision.route
            /\ work[w].route \in Routes /\ IsLocked(r)
            BY <2>3, <2>4 DEF ServiceInv, ServiceTypeOK, Work, HoldsLockedRun
      <4>2. runs'[r].decision = runs[r].decision
            BY <1>1, <4>1, LocksAreKept
      <4>3. \A row \in AttemptRows : log'[r][row] = log[r][row]
        <5>1. Has(r, {"running"} \cup Terminal) /\ ~Has(r, {"queued"})'
              BY <2>3 DEF Has, Terminal
        <5>2. QED
              BY <1>1, <5>1, AttemptRowsStand
      <4>4. /\ work[w].attempts = log[r][<<"run.started", work[w].route>>]
            /\ work[w].requeues =
                  log[r][<<"run.requeued-after-stale-lease", NoTag>>]
            BY <1>1, <2>3, <2>4 DEF KeepsLease, Count
      <4>5. /\ report'[r].route = work[w].route
            /\ report'[r].attempts = work[w].attempts
            /\ report'[r].requeues = work[w].requeues
            BY <2>3
      <4>6. QED
            BY <3>2, <4>1, <4>2, <4>3, <4>4, <4>5 DEF AttemptRows
    <3>3. QED
          BY <3>1, <3>2
  <2>9. QED
        BY <2>6, <2>7, <2>8 DEF ReportCountsClaims, Count, Has, Exists
<1>3. CASE ~\E w \in Workers : LandReport(w) \/ LandFailure(w)
  <2>1. /\ EarlierStep /\ report' = report
        /\ \/ work' = work
           \/ \E w \in Workers :
                 /\ \A v \in Workers \ {w} : work'[v] = work[v]
                 /\ \/ Claim(w) \/ ReadCounters(w) \/ SameAttempt(w)
                    \/ work'[w].pc \notin Executing
        BY <1>3, EarlierMoves
  <2>2. ASSUME NEW v \in Workers
        PROVE  \/ work'[v] = work[v]
               \/ Claim(v) \/ ReadCounters(v) \/ SameAttempt(v)
               \/ work'[v].pc \notin Executing
        BY <2>1
  <2>3. ASSUME NEW v \in Workers PROVE KeepsLease(v)'
    <3>1. CASE SameAttempt(v) \/ work'[v] = work[v]
          BY <1>1, <2>1, <3>1, NoOverrunYet, AttemptGoesOn
    <3>2. CASE Claim(v)
          BY <3>2, AttemptBegins
    <3>3. CASE ReadCounters(v)
          BY <1>1, <3>3, CountersRead
    <3>4. CASE work'[v].pc \notin Executing
          BY <3>4 DEF KeepsLease
    <3>5. QED
          BY <2>2, <3>1, <3>2, <3>3, <3>4
  <2>4. ASSUME NEW v \in Workers, work'[v].pc \in Executing, ~Claim(v)
        PROVE  /\ work[v].pc \in Executing /\ work'[v].run = work[v].run
               /\ Own(v) \in RunIds /\ Has(Own(v), {"running"})
    <3>1. work[v].pc \in Executing /\ work'[v].run = work[v].run
          BY <1>1, <2>2, <2>4, CountersRead
             DEF SameAttempt, ReadCounters, At, Executing
    <3>2. QED
          BY <1>1, <3>1 DEF KeepsLease, ServiceInv, HoldsLockedRun
  <2>5. ASSUME NEW v \in Workers, NEW w \in Workers, v # w,
               work'[v].pc \in Executing, work'[w].pc \in Executing
        PROVE  work'[v].run # work'[w].run
    <3>1. CASE ~Claim(v) /\ ~Claim(w)
          BY <1>1, <2>4, <2>5, <3>1 DEF ExclusiveExecution, Own
    <3>2. ASSUME NEW a \in Workers, NEW b \in Workers, a # b, Claim(a),
                 work'[b].pc \in Executing
          PROVE  work'[a].run # work'[b].run
      <4>1. work'[b] = work[b]
        <5>1. WorkerStep(a)
              BY <3>2 DEF WorkerStep
        <5>2. QED
              BY <3>2, <5>1, OtherWorkers DEF ServiceInv
      <4>2. Has(work[b].run, {"running"})
            BY <1>1, <3>2, <4>1 DEF KeepsLease, Own
      <4>3. Has(work'[a].run, {"queued"})
            BY <3>2, AttemptBegins DEF Own
      <4>4. QED
            BY <4>1, <4>2, <4>3 DEF Has
    <3>3. QED
          BY <2>5, <3>1, <3>2
  <2>6. ASSUME NEW s \in RunIds, Has(s, Terminal)'
        PROVE  /\ report'[s].route = runs'[s].decision.route
               /\ report'[s].attempts =
                     log'[s][<<"run.started", runs'[s].decision.route>>]
               /\ report'[s].requeues =
                     log'[s][<<"run.requeued-after-stale-lease", NoTag>>]
    <3>1. Has(s, Terminal)
          BY <1>1, <2>1, <2>6, OnlyReportsEnd
    <3>2. QED
          BY <1>1, <2>1, <3>1, EndedRunStands
             DEF ReportCountsClaims, Count, AttemptRows
  <2>7. QED
        BY <2>3, <2>5, <2>6
           DEF ReportCountsClaims, ExclusiveExecution, Own, Count, Has, Exists
<1>4. QED
      BY <1>2, <1>3

(* When the stale interval covers the longest attempt and the lag of the   *)
(* clock reads, every attempt keeps its lease until some attempt has taken *)
(* longer than expected.                                                   *)
THEOREM LeaseInvariance == LeaseCoversAttempt /\ ServiceSpec => []LeaseInv
<1>1. ServiceInit => LeaseInv
      BY LeaseInit
<1>2. LeaseCoversAttempt /\ ServiceInv /\ LeaseInv /\ [ServiceNext]_vars
          => LeaseInv'
      BY LeaseStep
<1>3. CASE ~LeaseCoversAttempt
      BY <1>3
<1>4. CASE LeaseCoversAttempt
  <2>1. ServiceInv /\ LeaseInv /\ [ServiceNext]_vars => LeaseInv'
        BY <1>2, <1>4
  <2>2. ServiceSpec => []LeaseInv
        BY <1>1, <2>1, ServiceInvariance, PTL DEF ServiceSpec
  <2>3. QED
        BY <2>2
<1>5. QED
      BY <1>3, <1>4

(* Two workers never execute the same run at the same time, unless some    *)
(* attempt has outlasted AttemptMinutes.                                   *)
THEOREM NoDoubleExecution ==
    LeaseCoversAttempt /\ ServiceSpec => []ExclusiveExecution
<1>1. LeaseInv => ExclusiveExecution
      BY DEF LeaseInv, ExclusiveExecution
<1>2. QED
      BY <1>1, LeaseInvariance, PTL

(* Under the same condition a worker that comes to report finds its run    *)
(* still running: no complete_run is ever refused.                         *)
THEOREM NoReportRefused == LeaseCoversAttempt /\ ServiceSpec => []ReportsLand
<1>1. LeaseInv => ReportsLand
      BY DEF LeaseInv, KeepsLease, ReportsLand
<1>2. QED
      BY <1>1, LeaseInvariance, PTL

(* Under the same condition the counters a worker read at its claim are    *)
(* still those of the log when they are persisted, and for ever after.     *)
THEOREM ReportedCounters ==
    LeaseCoversAttempt /\ ServiceSpec => []ReportCountsClaims
<1>1. LeaseInv => ReportCountsClaims
      BY DEF LeaseInv, ReportCountsClaims
<1>2. QED
      BY <1>1, LeaseInvariance, PTL

-----------------------------------------------------------------------------
(* What follows the end of a run *)

(* The events a worker leaves after a run has ended.                       *)
FollowRows == ({"metrics.recorded"} \X Routes) \cup OutputRows

LEMMA FollowRowsTyped ==
    /\ FollowRows \subseteq CallerRows
    /\ \A q \in Routes : <<"metrics.recorded", q>> \in FollowRows
    /\ \A p \in Publishers : /\ <<"output.delivered", p>> \in FollowRows
                             /\ <<"output.failed", p>> \in FollowRows
    /\ ServiceInv => \A r \in RunIds, row \in FollowRows : log[r][row] \in Nat
<1>1. FollowRows \subseteq CallerRows
      BY ServiceParameters DEF FollowRows
<1>2. QED
      BY <1>1 DEF FollowRows, OutputRows, ServiceInv, ServiceTypeOK,
                  StoreTypeOK, EventRows

(* Nothing the follow-up of a run has left is touched.                     *)
FollowUpStands(r) ==
    /\ sent'[r] = sent[r] /\ opened'[r] = opened[r]
    /\ \A row \in FollowRows : log'[r][row] = log[r][row]

FollowUpStep(w) ==
    \/ LandReport(w) \/ LandFailure(w) \/ RecordMetrics(w) \/ OpenOutputs(w)
    \/ (\E delivered \in BOOLEAN : SendOutput(w, delivered))
    \/ AuditOutput(w)

(* Every other step of a worker leaves it following no run.                *)
LEMMA FollowMoves ==
    ASSUME ServiceInv, NEW w \in Workers, ~FollowUpStep(w),
           WorkerStep(w) \/ StartWorker(w) \/ StopWorker(w) \/ Crash(w)
    PROVE  work'[w].pc \notin Following /\ sent' = sent /\ opened' = opened
<1>1. work \in [Workers -> Work] /\ work[w] \in Work
      BY DEF ServiceInv, ServiceTypeOK
<1>2. ASSUME LoadTask(w) \/ LoadFails(w) \/ Dispatch(w) \/ BrowseFails(w)
             \/ ReportRefused(w) \/ StartupRequeue(w)
      PROVE  work'[w].pc \notin Following /\ sent' = sent /\ opened' = opened
  <2>1. \E pc \in {"dispatching", "failing", "browsing", "idle"} : GoTo(w, pc)
        BY <1>2 DEF LoadTask, LoadFails, Dispatch, BrowseFails,
                    ReportRefused, StartupRequeue
  <2>2. QED
        BY <1>1, <2>1 DEF GoTo, Work, Following
<1>3. ASSUME NEW outcome \in ResultStatuses, Browse(w, outcome)
      PROVE  work'[w].pc \notin Following /\ sent' = sent /\ opened' = opened
      BY <1>1, <1>3 DEF Browse, Following, Work
<1>4. ASSUME FindNothing(w) \/ StopWorker(w) \/ FailureRefused(w)
             \/ OutputsLost(w) \/ FinishRun(w) \/ Crash(w)
      PROVE  work'[w].pc \notin Following /\ sent' = sent /\ opened' = opened
  <2>1. /\ sent' = sent /\ opened' = opened
        /\ \/ work' = [work EXCEPT ![w] = Asleep]
           \/ work' = [work EXCEPT ![w] = [Asleep EXCEPT
                          !.pc = "idle", !.enabled = work[w].enabled,
                          !.https = work[w].https]]
        BY <1>4 DEF FindNothing, StopWorker, FailureRefused, OutputsLost,
                    FinishRun, Crash, Exit, Poll
  <2>2. /\ Asleep.pc = "down"
        /\ [Asleep EXCEPT !.pc = "idle", !.enabled = work[w].enabled,
                          !.https = work[w].https].pc = "idle"
        BY DEF Asleep
  <2>3. QED
        BY <1>1, <2>1, <2>2 DEF Following
<1>5. ASSUME StartWorker(w) \/ Claim(w) \/ ReadCounters(w)
      PROVE  work'[w].pc \notin Following /\ sent' = sent /\ opened' = opened
  <2>1. /\ sent' = sent /\ opened' = opened
        /\ work'[w].pc \in {"starting", "claimed", "loading"}
    <3>1. CASE StartWorker(w)
      <4>1. PICK enabled \in BOOLEAN, https \in BOOLEAN :
                work' = [work EXCEPT ![w] =
                    [work[w] EXCEPT !.pc = "starting", !.enabled = enabled,
                                    !.https = https]]
            BY <1>1, <3>1, ServiceParameters DEF StartWorker
      <4>2. work'[w].pc = "starting"
            BY <1>1, <4>1 DEF Work
      <4>3. QED
            BY <3>1, <4>2 DEF StartWorker
    <3>2. CASE Claim(w)
          BY <1>1, <3>2 DEF Claim, Work
    <3>3. CASE ReadCounters(w)
          BY <1>1, <3>3 DEF ReadCounters, Work
    <3>4. QED
          BY <1>5, <3>1, <3>2, <3>3
  <2>2. QED
        BY <2>1 DEF Following
<1>6. QED
      BY <1>2, <1>3, <1>4, <1>5 DEF WorkerStep, FollowUpStep

LEMMA FollowedUpStands ==
    ASSUME StoreInv, [StoreNext]_storeVars, NEW r \in RunIds,
           FollowedUpOnce(r), FollowUpStands(r)
    PROVE  FollowedUpOnce(r)'
<1>1. CASE Has(r, Terminal)
  <2>1. /\ Has(r, Terminal)'
        /\ runs'[r].decision = runs[r].decision
        /\ runs[r].decision.route \in Routes
        BY <1>1, EndedRunStands
  <2>2. QED
        BY <1>1, <2>1, FollowRowsTyped DEF FollowedUpOnce, FollowUpStands, Count
<1>2. CASE ~Has(r, Terminal)
  <2>1. /\ \A q \in Routes : log[r][<<"metrics.recorded", q>>] = 0
        /\ \A p \in Publishers : sent[r][p] = 0 /\ OutputEvents(r, p) = 0
        /\ opened[r] = {}
        BY <1>2 DEF FollowedUpOnce, Count
  <2>2. /\ \A q \in Routes : log'[r][<<"metrics.recorded", q>>] = 0
        /\ \A p \in Publishers : sent'[r][p] = 0 /\ OutputEvents(r, p)' = 0
        /\ opened'[r] = {}
        BY <2>1, FollowRowsTyped DEF FollowUpStands, OutputEvents, Count
  <2>3. QED
        BY <2>2 DEF FollowedUpOnce, Count
<1>3. QED
      BY <1>1, <1>2

LEMMA ProgressStands ==
    ASSUME StoreInv, [StoreNext]_storeVars, NEW v \in Workers,
           AsFarAsShown(v), work'[v] = work[v], work[v] \in Work,
           NEW r \in RunIds, work[v].run = r, FollowUpStands(r)
    PROVE  AsFarAsShown(v)'
<1> SUFFICES ASSUME work[v].pc \in Following
             PROVE  AsFarAsShown(v)'
    BY DEF AsFarAsShown
<1>1. Has(r, Terminal)
      BY DEF AsFarAsShown, Own
<1>2. /\ Has(r, Terminal)' /\ runs'[r].request = runs[r].request
      BY <1>1, EndedRunStands
<1>3. work[v].route \in Routes
      BY DEF Work
<1>4. /\ Count(r, "metrics.recorded", work[v].route)' =
            Count(r, "metrics.recorded", work[v].route)
      /\ \A p \in Publishers : /\ sent'[r][p] = sent[r][p]
                               /\ OutputEvents(r, p)' = OutputEvents(r, p)
      BY <1>3, FollowRowsTyped DEF FollowUpStands, OutputEvents, Count
<1>5. /\ opened'[r] = opened[r] /\ OutputsOf(r)' = OutputsOf(r)
      /\ Audited(v)' = Audited(v) /\ Called(v)' = Called(v)
      BY DEF FollowUpStands, OutputsOf, Audited, Called, Own
<1>6. QED
      BY <1>2, <1>4, <1>5 DEF AsFarAsShown, Own, Has, Exists, Count

(* Nobody begins to follow up a run, and nothing any follow-up left is     *)
(* touched.                                                                *)
LEMMA FollowStands ==
    ASSUME ServiceInv, FollowInv, [StoreNext]_storeVars,
           \A r \in RunIds : FollowUpStands(r),
           \A v \in Workers : work'[v] = work[v] \/ work'[v].pc \notin Following
    PROVE  FollowInv'
<1>1. /\ StoreInv
      /\ \A v \in Workers : /\ work[v] \in Work
                            /\ HoldsLockedRun(v)
                            /\ FollowsAlone(v) /\ AsFarAsShown(v)
      /\ \A r \in RunIds : FollowedUpOnce(r)
      BY DEF ServiceInv, ServiceTypeOK, FollowInv
<1>2. \A r \in RunIds : FollowedUpOnce(r)'
      BY <1>1, FollowedUpStands
<1>3. ASSUME NEW v \in Workers PROVE FollowsAlone(v)'
      BY <1>1 DEF FollowsAlone, Follows, Own
<1>4. ASSUME NEW v \in Workers PROVE AsFarAsShown(v)'
  <2>1. CASE work'[v].pc \notin Following
        BY <2>1 DEF AsFarAsShown
  <2>2. CASE work'[v].pc \in Following
    <3>1. PICK r \in RunIds : work[v].run = r
          BY <1>1, <2>2 DEF HoldsLockedRun, Own
    <3>2. QED
          BY <1>1, <2>2, <3>1, ProgressStands
  <2>3. QED
        BY <2>1, <2>2
<1>5. QED
      BY <1>2, <1>3, <1>4 DEF FollowInv

(* One worker follows up one run, which nobody else does.                  *)
LEMMA FollowsOneRun ==
    ASSUME ServiceInv, FollowInv, [StoreNext]_storeVars,
           NEW w \in Workers, NEW r \in RunIds, work'[w].run = r,
           \A v \in Workers \ {w} : work'[v] = work[v] /\ ~Follows(v, r),
           \A s \in RunIds \ {r} : FollowUpStands(s),
           FollowedUpOnce(r)', AsFarAsShown(w)',
           work[w].pc \in Following => work[w].run = r
    PROVE  FollowInv'
<1>1. /\ StoreInv
      /\ \A v \in Workers : /\ work[v] \in Work
                            /\ HoldsLockedRun(v)
                            /\ FollowsAlone(v) /\ AsFarAsShown(v)
      /\ \A s \in RunIds : FollowedUpOnce(s)
      BY DEF ServiceInv, ServiceTypeOK, FollowInv
<1>2. \A s \in RunIds : FollowedUpOnce(s)'
      BY <1>1, FollowedUpStands
<1>3. ASSUME NEW v \in Workers PROVE FollowsAlone(v)'
  <2>1. CASE v = w
        BY <2>1 DEF FollowsAlone, Follows, Own
  <2>2. CASE v # w
        BY <1>1, <2>2 DEF FollowsAlone, Follows, Own
  <2>3. QED
        BY <2>1, <2>2
<1>4. ASSUME NEW v \in Workers \ {w} PROVE AsFarAsShown(v)'
  <2>1. CASE work[v].pc \notin Following
        BY <2>1 DEF AsFarAsShown
  <2>2. CASE work[v].pc \in Following
    <3>1. PICK s \in RunIds : work[v].run = s
          BY <1>1, <2>2 DEF HoldsLockedRun, Own
    <3>2. s # r
          BY <2>2, <3>1 DEF Follows, Own
    <3>3. QED
          BY <1>1, <3>1, <3>2, ProgressStands
  <2>3. QED
        BY <2>1, <2>2
<1>5. QED
      BY <1>2, <1>3, <1>4 DEF FollowInv

(* Only who follows up a run adds to its follow-up events.                 *)
LEMMA OnlyFollowersAdd ==
    ASSUME ServiceInv, NEW w \in Workers, ~RecordMetrics(w), ~AuditOutput(w),
           WorkerStep(w) \/ StartWorker(w) \/ StopWorker(w) \/ Crash(w)
    PROVE  \A s \in RunIds, row \in FollowRows : log'[s][row] = log[s][row]
<1>1. CASE OwnStep \/ CompleteStep
      BY <1>1, CallerRowsStand, FollowRowsTyped DEF ServiceInv
<1>2. CASE Dispatch(w)
  <2>1. /\ work[w].pc = "dispatching" /\ work[w] \in Work
        BY <1>2 DEF Dispatch, At, ServiceInv, ServiceTypeOK
  <2>2. PICK r \in RunIds : work[w].run = r
        BY <2>1 DEF ServiceInv, HoldsLockedRun, Executing, Own
  <2>3. work[w].route \in Routes
        BY <2>1 DEF Work
  <2>4. PICK row \in CallerRows \ FollowRows : AppendEvent(r, row)
    <3>1. <<"runtime.dispatched", work[w].route>> \in CallerRows \ FollowRows
          BY <2>3, AuditRows DEF FollowRows, OutputRows
    <3>2. QED
          BY <1>2, <2>2, <3>1 DEF Dispatch, Own
  <2>5. QED
        BY <2>4, EventEffect, FollowRowsTyped DEF EventRows, ServiceInv
<1>3. QED
      BY <1>1, <1>2, WorkerSteps DEF OwnStep

(* The report that ends a run finds it without any follow-up.              *)
LEMMA LandFollows ==
    ASSUME ServiceInv, FollowInv, NEW w \in Workers, LandReport(w) \/ LandFailure(w)
    PROVE  FollowInv'
<1>1. /\ work[w].pc \in {"reporting", "failing"} /\ work[w] \in Work
      /\ work'[w] = [work[w] EXCEPT !.pc = "measuring"]
      /\ \A v \in Workers \ {w} : work'[v] = work[v]
      /\ CompleteStep /\ sent' = sent /\ opened' = opened /\ StoreInv
      BY LandEffect DEF ServiceInv, ServiceTypeOK
<1>2. PICK r \in RunIds :
          Own(w) = r /\ Has(r, {"running"}) /\ Has(r, Terminal)'
      BY LandEffect
<1>3. /\ work'[w].run = r /\ work'[w].pc = "measuring"
      /\ work'[w].route = work[w].route /\ work[w].route \in Routes
      /\ work[w].pc \notin Following
      BY <1>1, <1>2 DEF Work, Own, Following
<1>4. [StoreNext]_storeVars /\ ~Has(r, Terminal)
      BY <1>1, <1>2 DEF StoreNext, Has, Terminal
<1>5. \A s \in RunIds : FollowUpStands(s)
      BY <1>1, CallerRowsStand, FollowRowsTyped DEF FollowUpStands
<1>6. FollowedUpOnce(r)'
      BY <1>1, <1>4, <1>5, FollowedUpStands DEF FollowInv
<1>7. AsFarAsShown(w)'
  <2>1. /\ log[r][<<"metrics.recorded", work[w].route>>] = 0
        /\ \A p \in Publishers : sent[r][p] = 0 /\ OutputEvents(r, p) = 0
        /\ opened[r] = {}
        BY <1>3, <1>4 DEF FollowInv, FollowedUpOnce, Count
  <2>2. /\ log'[r][<<"metrics.recorded", work[w].route>>] = 0
        /\ \A p \in Publishers : sent'[r][p] = 0 /\ OutputEvents(r, p)' = 0
        /\ opened'[r] = {}
        BY <1>3, <1>5, <2>1, FollowRowsTyped
           DEF FollowUpStands, OutputEvents, Count
  <2>3. Audited(w)' = {} /\ Called(w)' = {}
        BY <1>3 DEF Audited, Called
  <2>4. QED
        BY <1>2, <1>3, <2>2, <2>3 DEF AsFarAsShown, Own, Has, Exists, Count
<1>8. \A v \in Workers \ {w} : ~Follows(v, r)
      BY <1>4 DEF FollowInv, AsFarAsShown, Follows
<1>9. QED
      BY <1>1, <1>3, <1>4, <1>5, <1>6, <1>7, <1>8, FollowsOneRun

(* What a worker that follows up a run knows.                              *)
LEMMA FollowerKnows ==
    ASSUME ServiceInv, FollowInv, NEW w \in Workers, work[w].pc \in Following
    PROVE  /\ work \in [Workers -> Work] /\ work[w] \in Work
           /\ work[w].route \in Routes /\ work[w].todo \in SUBSET Publishers
           /\ \E r \in RunIds :
                 /\ work[w].run = r /\ Has(r, Terminal) /\ IsLocked(r)
                 /\ work[w].route = runs[r].decision.route
                 /\ \A v \in Workers \ {w} : ~Follows(v, r)
<1>1. /\ work \in [Workers -> Work] /\ work[w] \in Work
      /\ HoldsLockedRun(w) /\ FollowsAlone(w) /\ AsFarAsShown(w)
      BY DEF ServiceInv, ServiceTypeOK, FollowInv
<1>2. work[w].route \in Routes /\ work[w].todo \in SUBSET Publishers
      BY <1>1 DEF Work
<1>3. QED
      BY <1>1, <1>2 DEF HoldsLockedRun, FollowsAlone, AsFarAsShown, Own

(* One event of a follow-up, and nothing else in the store, is added.      *)
LEMMA FollowEvent ==
    ASSUME ServiceInv, NEW r \in RunIds, NEW row \in FollowRows,
           AppendEvent(r, row)
    PROVE  /\ [StoreNext]_storeVars /\ runs' = runs
           /\ log'[r][row] = log[r][row] + 1
           /\ \A other \in FollowRows \ {row} : log'[r][other] = log[r][other]
           /\ \A s \in RunIds \ {r} : log'[s] = log[s]
<1>1. row \in CallerRows /\ FollowRows \subseteq EventRows /\ StoreInv
      BY FollowRowsTyped DEF EventRows, ServiceInv
<1>2. [StoreNext]_storeVars
      BY <1>1 DEF StoreNext, AppendStep
<1>3. QED
      BY <1>1, <1>2, EventEffect

LEMMA MeasureFollows ==
    ASSUME ServiceInv, FollowInv, NEW w \in Workers, RecordMetrics(w)
    PROVE  FollowInv'
<1>1. work[w].pc = "measuring" /\ work[w].pc \in Following
      BY DEF RecordMetrics, At, Following
<1>2. /\ work \in [Workers -> Work] /\ work[w] \in Work
      /\ work[w].route \in Routes
      BY <1>1, FollowerKnows
<1>3. PICK r \in RunIds :
          /\ work[w].run = r /\ Has(r, Terminal) /\ IsLocked(r)
          /\ work[w].route = runs[r].decision.route
          /\ \A v \in Workers \ {w} : ~Follows(v, r)
      BY <1>1, FollowerKnows
<1>4. /\ work'[w] = [work[w] EXCEPT !.pc = "opening"]
      /\ sent' = sent /\ opened' = opened
      /\ \A v \in Workers \ {w} : work'[v] = work[v]
      BY <1>2 DEF RecordMetrics, GoTo, Work
<1>5. /\ work'[w].run = r /\ work'[w].pc = "opening"
      /\ work'[w].route = work[w].route
      BY <1>2, <1>3, <1>4 DEF Work
<1>6. PICK row \in FollowRows : /\ row = <<"metrics.recorded", work[w].route>>
                                /\ AppendEvent(r, row)
      BY <1>2, <1>3, FollowRowsTyped DEF RecordMetrics, Own
<1>7. /\ [StoreNext]_storeVars /\ runs' = runs
      /\ log'[r][row] = log[r][row] + 1
      /\ \A other \in FollowRows \ {row} : log'[r][other] = log[r][other]
      /\ \A s \in RunIds \ {r} : FollowUpStands(s)
      BY <1>4, <1>6, FollowEvent DEF FollowUpStands
<1>8. /\ log[r][row] = 0 /\ opened[r] = {}
      /\ \A p \in Publishers : sent[r][p] = 0 /\ OutputEvents(r, p) = 0
  <2>1. AsFarAsShown(w) /\ Called(w) = {} /\ Audited(w) = {}
        BY <1>1 DEF FollowInv, Called, Audited
  <2>2. QED
        BY <1>1, <1>3, <1>6, <2>1 DEF AsFarAsShown, Own, Count
<1>9. /\ log'[r][row] = 1
      /\ \A q \in Routes : <<"metrics.recorded", q>> = row
                              <=> q = runs[r].decision.route
      /\ \A p \in Publishers : sent'[r][p] = 0 /\ OutputEvents(r, p)' = 0
      BY <1>3, <1>4, <1>6, <1>7, <1>8, FollowRowsTyped DEF OutputEvents, Count
<1>10. FollowedUpOnce(r)'
  <2>1. \A q \in Routes : log'[r][<<"metrics.recorded", q>>] # 0 =>
            /\ log'[r][<<"metrics.recorded", q>>] = 1
            /\ q = runs[r].decision.route
        BY <1>7, <1>9, FollowRowsTyped DEF FollowInv, FollowedUpOnce, Count
  <2>2. QED
        BY <1>3, <1>7, <1>9, <2>1 DEF FollowedUpOnce, Count, Has, Exists
<1>11. AsFarAsShown(w)'
  <2>1. Called(w)' = {} /\ Audited(w)' = {}
        BY <1>5 DEF Called, Audited
  <2>2. QED
        BY <1>3, <1>4, <1>5, <1>6, <1>7, <1>8, <1>9, <2>1
           DEF AsFarAsShown, Own, Count, Has, Exists
<1>12. QED
       BY <1>3, <1>4, <1>5, <1>7, <1>10, <1>11, FollowsOneRun

LEMMA OpenFollows ==
    ASSUME ServiceInv, FollowInv, NEW w \in Workers, OpenOutputs(w)
    PROVE  FollowInv'
<1>1. work[w].pc = "opening" /\ work[w].pc \in Following
      BY DEF OpenOutputs, At, Following
<1>2. /\ work \in [Workers -> Work] /\ work[w] \in Work
      /\ work[w].route \in Routes
      BY <1>1, FollowerKnows
<1>3. PICK r \in RunIds :
          /\ work[w].run = r /\ Has(r, Terminal)
          /\ \A v \in Workers \ {w} : ~Follows(v, r)
      BY <1>1, FollowerKnows
<1>4. /\ work'[w].run = r /\ work'[w].pc = "publishing"
      /\ work'[w].route = work[w].route
      /\ work'[w].todo = Outputs(runs[r].request)
      /\ \A v \in Workers \ {w} : work'[v] = work[v]
      /\ opened' = [opened EXCEPT ![r] = opened[r] \cup {work'[w].todo}]
      /\ UNCHANGED <<storeVars, sent>>
      BY <1>2, <1>3 DEF OpenOutputs, Own, Work
<1>5. runs' = runs /\ log' = log /\ [StoreNext]_storeVars
      BY <1>4 DEF storeVars
<1>6. \A s \in RunIds \ {r} : FollowUpStands(s)
      BY <1>4, <1>5 DEF FollowUpStands, ServiceInv, ServiceTypeOK
<1>7. /\ AsFarAsShown(w) /\ Called(w) = {} /\ Audited(w) = {}
      /\ opened[r] = {}
      BY <1>1, <1>3 DEF FollowInv, AsFarAsShown, Called, Audited, Own
<1>8. opened'[r] = {work'[w].todo}
      BY <1>4, <1>7 DEF ServiceInv, ServiceTypeOK
<1>9. OutputsOf(r)' = work'[w].todo
      BY <1>8 DEF OutputsOf
<1>10. FollowedUpOnce(r)'
       BY <1>3, <1>4, <1>5
          DEF FollowInv, FollowedUpOnce, OutputEvents, Count, Has, Exists
<1>11. AsFarAsShown(w)'
  <2>1. Called(w)' = {} /\ Audited(w)' = {}
        BY <1>4, <1>9 DEF Called, Audited, Own
  <2>2. QED
        BY <1>1, <1>3, <1>4, <1>5, <1>7, <1>8, <1>9, <2>1
           DEF AsFarAsShown, Own, Count, OutputEvents, Has, Exists
<1>12. QED
       BY <1>3, <1>4, <1>5, <1>6, <1>10, <1>11, FollowsOneRun

LEMMA SendFollows ==
    ASSUME ServiceInv, FollowInv, NEW w \in Workers,
           NEW delivered \in BOOLEAN, SendOutput(w, delivered)
    PROVE  FollowInv'
<1>1. /\ work[w].pc = "publishing" /\ work[w].pc \in Following
      /\ work[w].todo # {}
      BY DEF SendOutput, At, Following
<1>2. /\ work \in [Workers -> Work] /\ work[w] \in Work
      /\ work[w].route \in Routes /\ work[w].todo \in SUBSET Publishers
      /\ sent \in [RunIds -> [Publishers -> Nat]]
      BY <1>1, FollowerKnows DEF ServiceInv, ServiceTypeOK
<1>3. PICK r \in RunIds :
          /\ work[w].run = r /\ Has(r, Terminal)
          /\ work[w].route = runs[r].decision.route
          /\ \A v \in Workers \ {w} : ~Follows(v, r)
      BY <1>1, FollowerKnows
<1>4. PICK first \in Publishers :
          first = FirstOf(work[w].todo) /\ first \in work[w].todo
      BY <1>1, <1>2, FirstIsOne
<1>5. /\ work'[w].run = r /\ work'[w].pc = "auditing"
      /\ work'[w].route = work[w].route /\ work'[w].todo = work[w].todo
      /\ \A v \in Workers \ {w} : work'[v] = work[v]
      /\ \A s \in RunIds \ {r} : sent'[s] = sent[s]
      /\ \A p \in Publishers :
            sent'[r][p] = IF p = first THEN sent[r][p] + 1 ELSE sent[r][p]
      /\ UNCHANGED <<storeVars, opened>>
      BY <1>2, <1>3, <1>4 DEF SendOutput, Own, Work
<1>6. runs' = runs /\ log' = log /\ [StoreNext]_storeVars
      BY <1>5 DEF storeVars
<1>7. \A s \in RunIds \ {r} : FollowUpStands(s)
      BY <1>5, <1>6 DEF FollowUpStands
<1>8. /\ Called(w) = Audited(w) /\ first \notin Audited(w)
      /\ Audited(w)' = Audited(w) /\ Called(w)' = Audited(w) \cup {first}
      /\ OutputsOf(r)' = OutputsOf(r)
      BY <1>1, <1>3, <1>4, <1>5 DEF Called, Audited, Own, OutputsOf
<1>9. /\ log[r][<<"metrics.recorded", work[w].route>>] = 1
      /\ opened[r] # {} /\ work[w].todo \subseteq OutputsOf(r)
      /\ \A p \in Publishers :
            /\ sent[r][p] = IF p \in Audited(w) THEN 1 ELSE 0
            /\ OutputEvents(r, p) = IF p \in Audited(w) THEN 1 ELSE 0
  <2>1. AsFarAsShown(w)
        BY DEF FollowInv
  <2>2. QED
        BY <1>1, <1>3, <1>8, <2>1 DEF AsFarAsShown, Own, Count
<1>10. \A p \in Publishers :
          /\ sent'[r][p] = IF p \in Audited(w) \cup {first} THEN 1 ELSE 0
          /\ OutputEvents(r, p)' = OutputEvents(r, p)
  <2>1. \A p \in Publishers : OutputEvents(r, p)' = OutputEvents(r, p)
        BY <1>6 DEF OutputEvents, Count
  <2>2. QED
        BY <1>5, <1>8, <1>9, <2>1
<1>11. FollowedUpOnce(r)'
  <2>1. \A p \in Publishers : sent'[r][p] # 0 => sent'[r][p] = 1
        BY <1>10
  <2>2. QED
        BY <1>3, <1>6, <1>9, <2>1
           DEF FollowInv, FollowedUpOnce, Count, Has, Exists
<1>12. AsFarAsShown(w)'
  <2>1. opened'[r] # {} /\ work'[w].todo \subseteq OutputsOf(r)'
        BY <1>5, <1>8, <1>9
  <2>2. QED
        BY <1>3, <1>5, <1>6, <1>8, <1>9, <1>10, <2>1
           DEF AsFarAsShown, Own, Count, Has, Exists
<1>13. QED
       BY <1>3, <1>5, <1>6, <1>7, <1>11, <1>12, FollowsOneRun

LEMMA AuditFollows ==
    ASSUME ServiceInv, FollowInv, NEW w \in Workers, AuditOutput(w)
    PROVE  FollowInv'
<1>1. work[w].pc = "auditing" /\ work[w].pc \in Following
      BY DEF AuditOutput, At, Following
<1>2. /\ work \in [Workers -> Work] /\ work[w] \in Work
      /\ work[w].route \in Routes /\ work[w].todo \in SUBSET Publishers
      /\ work[w].todo # {}
      BY <1>1, FollowerKnows DEF ServiceInv, InProgress
<1>3. PICK r \in RunIds :
          /\ work[w].run = r /\ Has(r, Terminal)
          /\ work[w].route = runs[r].decision.route
          /\ \A v \in Workers \ {w} : ~Follows(v, r)
      BY <1>1, FollowerKnows
<1>4. PICK first \in Publishers :
          first = FirstOf(work[w].todo) /\ first \in work[w].todo
      BY <1>2, FirstIsOne
<1>5. /\ work'[w].run = r /\ work'[w].pc = "publishing"
      /\ work'[w].route = work[w].route
      /\ work'[w].todo = work[w].todo \ {first}
      /\ \A v \in Workers \ {w} : work'[v] = work[v]
      /\ sent' = sent /\ opened' = opened
      BY <1>2, <1>3, <1>4 DEF AuditOutput, Work
<1>6. PICK row \in {<<"output.delivered", first>>, <<"output.failed", first>>} :
          row \in FollowRows /\ AppendEvent(r, row)
      BY <1>3, <1>4, FollowRowsTyped DEF AuditOutput, Own
<1>7. /\ [StoreNext]_storeVars /\ runs' = runs
      /\ log'[r][row] = log[r][row] + 1
      /\ \A other \in FollowRows \ {row} : log'[r][other] = log[r][other]
      /\ \A s \in RunIds \ {r} : FollowUpStands(s)
      BY <1>5, <1>6, FollowEvent DEF FollowUpStands
<1>8. /\ Called(w) = Audited(w) \cup {first}
      /\ Audited(w) = OutputsOf(r) \ work[w].todo
      /\ Audited(w)' = OutputsOf(r) \ (work[w].todo \ {first})
      /\ Called(w)' = Audited(w)'
      /\ OutputsOf(r)' = OutputsOf(r)
      BY <1>1, <1>3, <1>4, <1>5 DEF Called, Audited, Own, OutputsOf
<1>9. /\ log[r][<<"metrics.recorded", work[w].route>>] = 1
      /\ opened[r] # {} /\ work[w].todo \subseteq OutputsOf(r)
      /\ \A p \in Publishers :
            /\ sent[r][p] = IF p \in Called(w) THEN 1 ELSE 0
            /\ OutputEvents(r, p) = IF p \in Audited(w) THEN 1 ELSE 0
  <2>1. AsFarAsShown(w)
        BY DEF FollowInv
  <2>2. QED
        BY <1>1, <1>3, <2>1 DEF AsFarAsShown, Own, Count
<1>10. Audited(w)' = Called(w) /\ first \notin Audited(w)
       BY <1>4, <1>8, <1>9
<1>11. /\ \A q \in Routes : log'[r][<<"metrics.recorded", q>>]
                               = log[r][<<"metrics.recorded", q>>]
       /\ OutputEvents(r, first)' = OutputEvents(r, first) + 1
       /\ \A p \in Publishers \ {first} :
             OutputEvents(r, p)' = OutputEvents(r, p)
  <2>1. \A q \in Routes : <<"metrics.recorded", q>> \in FollowRows \ {row}
    <3>1. \A q \in Routes : <<"metrics.recorded", q>> # row
          BY <1>6
    <3>2. QED
          BY <3>1, FollowRowsTyped
  <2>2. \A p \in Publishers \ {first} :
            /\ <<"output.delivered", p>> \in FollowRows \ {row}
            /\ <<"output.failed", p>> \in FollowRows \ {row}
    <3>1. \A p \in Publishers \ {first} : /\ <<"output.delivered", p>> # row
                                          /\ <<"output.failed", p>> # row
          BY <1>6
    <3>2. QED
          BY <3>1, FollowRowsTyped
  <2>3. /\ log[r][<<"output.delivered", first>>] \in Nat
        /\ log[r][<<"output.failed", first>>] \in Nat
        BY FollowRowsTyped
  <2>4. CASE row = <<"output.delivered", first>>
    <3>1. <<"output.failed", first>> \in FollowRows \ {row}
          BY <2>4, FollowRowsTyped
    <3>2. QED
          BY <1>7, <2>1, <2>2, <2>3, <2>4, <3>1 DEF OutputEvents, Count
  <2>5. CASE row = <<"output.failed", first>>
    <3>1. <<"output.delivered", first>> \in FollowRows \ {row}
          BY <2>5, FollowRowsTyped
    <3>2. QED
          BY <1>7, <2>1, <2>2, <2>3, <2>5, <3>1 DEF OutputEvents, Count
  <2>6. QED
        BY <1>6, <2>4, <2>5
<1>12. \A p \in Publishers :
          OutputEvents(r, p)' = IF p \in Called(w) THEN 1 ELSE 0
  <2>1. OutputEvents(r, first)' = 1
        BY <1>9, <1>10, <1>11
  <2>2. \A p \in Publishers \ {first} :
            OutputEvents(r, p)' = IF p \in Called(w) THEN 1 ELSE 0
        BY <1>8, <1>9, <1>11
  <2>3. QED
        BY <1>8, <2>1, <2>2 DEF OutputEvents, Count
<1>13. FollowedUpOnce(r)'
       BY <1>2, <1>3, <1>5, <1>7, <1>11
          DEF FollowInv, FollowedUpOnce, Count, Has, Exists
<1>14. AsFarAsShown(w)'
  <2>1. opened'[r] # {}
        BY <1>5, <1>9
  <2>2. work[w].todo \ {first} \subseteq OutputsOf(r)'
        BY <1>8, <1>9
  <2>3. log'[r][<<"metrics.recorded", work[w].route>>] = 1
        BY <1>2, <1>9, <1>11
  <2>4. \A p \in Publishers :
            /\ sent'[r][p] = IF p \in Called(w)' THEN 1 ELSE 0
            /\ OutputEvents(r, p)' = IF p \in Audited(w)' THEN 1 ELSE 0
        BY <1>5, <1>8, <1>9, <1>10, <1>12
  <2>5. QED
        BY <1>3, <1>5, <1>7, <2>1, <2>2, <2>3, <2>4
           DEF AsFarAsShown, Own, Count, Has, Exists
<1>15. QED
       BY <1>3, <1>5, <1>7, <1>13, <1>14, FollowsOneRun

LEMMA FollowInit == ServiceInit => FollowInv
<1> SUFFICES ASSUME ServiceInit PROVE FollowInv
    OBVIOUS
<1>1. \A w \in Workers : work[w].pc \notin Following
      BY DEF ServiceInit, Asleep, Following
<1>2. /\ \A r \in RunIds, row \in EventRows : log[r][row] = 0
      /\ \A r \in RunIds, p \in Publishers : sent[r][p] = 0
      /\ \A r \in RunIds : opened[r] = {}
      BY DEF ServiceInit, StoreInit
<1>3. \A r \in RunIds : FollowedUpOnce(r)
      BY <1>2, FollowRowsTyped
         DEF FollowedUpOnce, OutputEvents, Count, EventRows
<1>4. QED
      BY <1>1, <1>3 DEF FollowInv, FollowsAlone, AsFarAsShown, Follows

LEMMA FollowStep ==
    ServiceInv /\ FollowInv /\ [ServiceNext]_vars => FollowInv'
<1> SUFFICES ASSUME ServiceInv, FollowInv, [ServiceNext]_vars
             PROVE  FollowInv'
    OBVIOUS
<1>1. [StoreNext]_storeVars /\ StoreInv
      BY ServiceStepIsStoreStep DEF ServiceInv
<1>2. CASE \E w \in Workers : FollowUpStep(w)
      BY <1>2, LandFollows, MeasureFollows, OpenFollows, SendFollows,
         AuditFollows DEF FollowUpStep
<1>3. CASE \E w \in Workers :
              /\ ~FollowUpStep(w)
              /\ WorkerStep(w) \/ StartWorker(w) \/ StopWorker(w) \/ Crash(w)
  <2>1. PICK w \in Workers :
            /\ ~FollowUpStep(w)
            /\ WorkerStep(w) \/ StartWorker(w) \/ StopWorker(w) \/ Crash(w)
        BY <1>3
  <2>2. /\ work'[w].pc \notin Following /\ sent' = sent /\ opened' = opened
        /\ \A v \in Workers \ {w} : work'[v] = work[v]
        BY <2>1, FollowMoves, OtherWorkers DEF ServiceInv
  <2>3. \A s \in RunIds, row \in FollowRows : log'[s][row] = log[s][row]
        BY <2>1, OnlyFollowersAdd DEF FollowUpStep
  <2>4. QED
        BY <1>1, <2>2, <2>3, FollowStands DEF FollowUpStands
<1>4. CASE ApiStep \/ (\E t \in Tenants : EditRegistry(t)) \/ TimePasses
           \/ UNCHANGED vars
  <2>1. work' = work /\ sent' = sent /\ opened' = opened
        BY <1>4 DEF ApiStep, BeginCreate, BeginRoute, BeginApprove, Begin,
                    FinishCreate, FinishRoute, FinishApprove,
                    FinishWithoutEffect, End, EditRegistry, TimePasses,
                    serviceVars, vars
  <2>2. OwnStep \/ Tick
        BY <1>4, ApiSteps DEF EditRegistry, TimePasses, vars, OwnStep
  <2>3. \A s \in RunIds, row \in FollowRows : log'[s][row] = log[s][row]
        BY <1>1, <2>2, CallerRowsStand, FollowRowsTyped
  <2>4. QED
        BY <1>1, <2>1, <2>3, FollowStands DEF FollowUpStands
<1>5. QED
      BY <1>2, <1>3, <1>4 DEF ServiceNext

(* Whoever follows up a run is alone with it and as far as the log shows.  *)
THEOREM FollowInvariance == ServiceSpec => []FollowInv
<1>1. QED
      BY FollowInit, FollowStep, ServiceInvariance, PTL DEF ServiceSpec

(* What follows the end of a run happens at most once, however often the   *)
(* run was executed, requeued or reported, and only once it has ended.     *)
THEOREM OneFollowUp == ServiceSpec => []FollowUpAtMostOnce
<1>1. ASSUME ServiceInv, FollowInv, NEW r \in RunIds
      PROVE  LET metrics == {q \in Routes : Count(r, "metrics.recorded", q) > 0}
                 outputs == {p \in Publishers : sent[r][p] > 0}
             IN  /\ \A q \in metrics : Count(r, "metrics.recorded", q) = 1
                 /\ Cardinality(metrics) <= 1
                 /\ \A p \in outputs : sent[r][p] = 1
                 /\ metrics \cup outputs # {} => Has(r, Terminal)
                 /\ outputs # {} => metrics # {}
  <2> DEFINE metrics == {q \in Routes : Count(r, "metrics.recorded", q) > 0}
             outputs == {p \in Publishers : sent[r][p] > 0}
             route == runs[r].decision.route
  <2>1. FollowedUpOnce(r)
        BY <1>1 DEF FollowInv
  <2>2. \A q \in metrics : /\ Count(r, "metrics.recorded", q) = 1
                           /\ Has(r, Terminal) /\ q = route
        BY <2>1 DEF FollowedUpOnce
  <2>3. \A p \in outputs : /\ sent[r][p] = 1 /\ Has(r, Terminal)
                           /\ Count(r, "metrics.recorded", route) = 1
        BY <2>1 DEF FollowedUpOnce
  <2>4. Cardinality(metrics) <= 1
    <3>1. CASE metrics = {}
      <4>1. Cardinality(metrics) = 0
            BY <3>1, FS_EmptySet
      <4>2. QED
            BY <4>1
    <3>2. CASE metrics # {}
      <4>1. metrics = {route}
            BY <2>2, <3>2
      <4>2. Cardinality(metrics) = 1
            BY <4>1, FS_Singleton
      <4>3. QED
            BY <4>2
    <3>3. QED
          BY <3>1, <3>2
  <2>5. Has(r, Terminal) => route \in Routes
        BY <1>1 DEF ServiceInv, ServiceTypeOK, StoreTypeOK, Has, Exists, Run,
                    Decisions
  <2>6. outputs # {} => route \in metrics
        BY <2>3, <2>5
  <2>7. QED
        BY <2>2, <2>3, <2>4, <2>6
<1>2. ServiceInv /\ FollowInv => FollowUpAtMostOnce
      BY <1>1 DEF FollowUpAtMostOnce
<1>3. QED
      BY <1>2, ServiceInvariance, FollowInvariance, PTL

-----------------------------------------------------------------------------
(* Every delivery leaves its event *)

(* While no worker is killed, a step that leaves a run without its         *)
(* follower is the last one of the follow-up.                              *)
LEMMA NobodyKilled ==
    ASSUME ServiceInv, [ServiceNext]_vars, spent'.crashes = 0
    PROVE  spent.crashes = 0 /\ \A w \in Workers : ~Crash(w)
<1>1. spent \in Spent
      BY DEF ServiceInv, ServiceTypeOK
<1>2. ASSUME NEW w \in Workers, Crash(w) PROVE FALSE
  <2>1. spent'.crashes = spent.crashes + 1
        BY <1>1, <1>2 DEF Crash, Spent
  <2>2. QED
        BY <1>1, <2>1 DEF Spent
<1>3. ASSUME ApiStep PROVE spent'.crashes = spent.crashes
      BY <1>1, <1>3 DEF ApiStep, BeginCreate, BeginRoute, BeginApprove,
                  Begin, FinishCreate, FinishRoute, FinishApprove,
                  FinishWithoutEffect, End, Spent
<1>4. ASSUME NEW w \in Workers, WorkerStep(w) \/ StartWorker(w) \/ StopWorker(w)
      PROVE  spent' = spent
      BY <1>4 DEF WorkerStep, StartupRequeue, Claim, FindNothing,
                  ReadCounters, LoadTask, LoadFails, Dispatch, Browse,
                  BrowseFails, LandReport, ReportRefused, LandFailure,
                  Land, FailureRefused, RecordMetrics, OpenOutputs,
                  OutputsLost, SendOutput, AuditOutput, FinishRun,
                  StartWorker, StopWorker, GoTo, Exit, Poll
<1>5. ASSUME (\E t \in Tenants : EditRegistry(t)) \/ TimePasses \/ UNCHANGED vars
      PROVE  spent'.crashes = spent.crashes
      BY <1>1, <1>5 DEF EditRegistry, TimePasses, vars, serviceVars, Spent
<1>6. QED
      BY <1>2, <1>3, <1>4, <1>5 DEF ServiceNext

LEMMA FollowUpEnds ==
    ASSUME ServiceInv, NEW w \in Workers,
           WorkerStep(w) \/ StartWorker(w) \/ StopWorker(w),
           NEW r \in RunIds, Follows(w, r), ~Follows(w, r)'
    PROVE  FinishRun(w) \/ OutputsLost(w)
<1>1. /\ work \in [Workers -> Work] /\ work[w] \in Work
      /\ work[w].pc \in Following /\ work[w].run = r
      BY DEF ServiceInv, ServiceTypeOK, Follows, Own
<1>2. work'[w].run = r => work'[w].pc \notin Following
      BY DEF Follows, Own
<1>3. ~RecordMetrics(w) /\ ~OpenOutputs(w) /\ ~AuditOutput(w)
  <2>1. ASSUME RecordMetrics(w) PROVE FALSE
        BY <1>1, <1>2, <2>1 DEF RecordMetrics, GoTo, Work, Following
  <2>2. ASSUME OpenOutputs(w) PROVE FALSE
        BY <1>1, <1>2, <2>2 DEF OpenOutputs, Work, Following
  <2>3. ASSUME AuditOutput(w) PROVE FALSE
        BY <1>1, <1>2, <2>3 DEF AuditOutput, Work, Following
  <2>4. QED
        BY <2>1, <2>2, <2>3
<1>4. ASSUME NEW delivered \in BOOLEAN, SendOutput(w, delivered) PROVE FALSE
      BY <1>1, <1>2, <1>4 DEF SendOutput, Work, Following
<1>5. QED
      BY <1>1, <1>3, <1>4
         DEF WorkerStep, StartupRequeue, Claim, FindNothing, ReadCounters,
             LoadTask, LoadFails, Dispatch, Browse, BrowseFails, LandReport,
             ReportRefused, LandFailure, FailureRefused, StartWorker,
             StopWorker, At, Following

(* Without a follower, what a follow-up has left stands.                   *)
LEMMA NoFollowerNoEvent ==
    ASSUME ServiceInv, [ServiceNext]_vars, NEW r \in RunIds,
           \A w \in Workers : ~Follows(w, r)
    PROVE  FollowUpStands(r)
<1>1. ASSUME NEW w \in Workers,
             WorkerStep(w) \/ StartWorker(w) \/ StopWorker(w) \/ Crash(w)
      PROVE  FollowUpStands(r)
  <2>1. CASE ~FollowUpStep(w)
        BY <1>1, <2>1, FollowMoves, OnlyFollowersAdd
           DEF FollowUpStep, FollowUpStands
  <2>2. CASE LandReport(w) \/ LandFailure(w)
    <3>1. CompleteStep /\ sent' = sent /\ opened' = opened
          BY <2>2, LandEffect
    <3>2. QED
          BY <3>1, CallerRowsStand, FollowRowsTyped
             DEF ServiceInv, FollowUpStands
  <2>3. ASSUME work[w].pc \in Following PROVE Own(w) \in RunIds \ {r}
        BY <2>3 DEF ServiceInv, HoldsLockedRun, Follows, Own
  <2>4. CASE RecordMetrics(w) \/ AuditOutput(w)
    <3>1. /\ work[w].pc \in Following /\ InProgress(w) /\ work[w] \in Work
          /\ sent' = sent /\ opened' = opened
          BY <2>4 DEF RecordMetrics, AuditOutput, GoTo, At, Following,
                      ServiceInv, ServiceTypeOK
    <3>2. PICK s \in RunIds \ {r} : work[w].run = s
          BY <2>3, <3>1 DEF Own
    <3>3. PICK row \in FollowRows : AppendEvent(s, row)
      <4>1. CASE RecordMetrics(w)
            BY <3>1, <3>2, <4>1, FollowRowsTyped DEF RecordMetrics, Own, Work
      <4>2. CASE AuditOutput(w)
        <5>1. FirstOf(work[w].todo) \in Publishers
              BY <3>1, <4>2, FirstIsOne DEF AuditOutput, At, InProgress, Work
        <5>2. QED
              BY <3>2, <4>2, <5>1, FollowRowsTyped DEF AuditOutput, Own
      <4>3. QED
            BY <2>4, <4>1, <4>2
    <3>4. log'[r] = log[r]
          BY <3>2, <3>3, FollowEvent
    <3>5. QED
          BY <3>1, <3>4 DEF FollowUpStands
  <2>5. CASE OpenOutputs(w) \/ \E delivered \in BOOLEAN : SendOutput(w, delivered)
    <3>1. work[w].pc \in Following /\ log' = log
          BY <2>5 DEF OpenOutputs, SendOutput, At, Following, storeVars
    <3>2. sent'[r] = sent[r] /\ opened'[r] = opened[r]
          BY <2>3, <2>5, <3>1
             DEF OpenOutputs, SendOutput, ServiceInv, ServiceTypeOK
    <3>3. QED
          BY <3>1, <3>2 DEF FollowUpStands
  <2>6. QED
        BY <2>1, <2>2, <2>4, <2>5 DEF FollowUpStep
<1>2. ASSUME ApiStep \/ (\E t \in Tenants : EditRegistry(t)) \/ TimePasses
             \/ UNCHANGED vars
      PROVE  FollowUpStands(r)
  <2>1. sent' = sent /\ opened' = opened
        BY <1>2 DEF ApiStep, BeginCreate, BeginRoute, BeginApprove, Begin,
                    FinishCreate, FinishRoute, FinishApprove,
                    FinishWithoutEffect, End, EditRegistry, TimePasses,
                    serviceVars, vars
  <2>2. OwnStep \/ Tick
        BY <1>2, ApiSteps DEF EditRegistry, TimePasses, vars, OwnStep
  <2>3. QED
        BY <2>1, <2>2, CallerRowsStand, FollowRowsTyped
           DEF ServiceInv, FollowUpStands
<1>3. QED
      BY <1>1, <1>2 DEF ServiceNext

(* A run that is left alone was so before, and nothing it has changed; or  *)
(* its worker has just left it, with all of its publishers or none.        *)
LEMMA LeftBehind ==
    ASSUME ServiceInv, FollowInv, [ServiceNext]_vars,
           NEW r \in RunIds, LeftAlone(r)'
    PROVE  \/ LeftAlone(r) /\ FollowUpStands(r)
           \/ /\ FollowUpStands(r)
              /\ \E w \in Workers :
                    /\ Follows(w, r)
                    /\ FinishRun(w) \/ OutputsLost(w)
<1>1. /\ Has(r, Terminal)' /\ \A w \in Workers : ~Follows(w, r)'
      /\ StoreInv /\ [StoreNext]_storeVars
      /\ spent.crashes = 0 /\ \A w \in Workers : ~Crash(w)
      BY ServiceStepIsStoreStep, NobodyKilled DEF ServiceInv, LeftAlone
<1>2. Has(r, Terminal)
  <2>1. SUFFICES ASSUME ~Has(r, Terminal) PROVE FALSE
        OBVIOUS
  <2>2. PICK w \in Workers : LandReport(w) \/ LandFailure(w)
        BY <1>1, <2>1, EarlierMoves, OnlyReportsEnd
  <2>3. PICK s \in RunIds :
            /\ Own(w) = s
            /\ \A q \in RunIds \ {s} : /\ runs'[q] = runs[q]
                                       /\ log'[q] = log[q]
                                       /\ report'[q] = report[q]
        BY <2>2, LandEffect
  <2>4. s = r
        BY <1>1, <2>1, <2>3 DEF Has, Exists
  <2>5. work'[w] = [work[w] EXCEPT !.pc = "measuring"] /\ work[w] \in Work
        BY <2>2, LandEffect DEF ServiceInv, ServiceTypeOK
  <2>6. Follows(w, r)'
        BY <2>3, <2>4, <2>5 DEF Follows, Own, Following, Work
  <2>7. QED
        BY <1>1, <2>6
<1>3. CASE \A w \in Workers : ~Follows(w, r)
      BY <1>1, <1>2, <1>3, NoFollowerNoEvent DEF LeftAlone
<1>4. CASE \E w \in Workers : Follows(w, r)
  <2>1. PICK w \in Workers : Follows(w, r)
        BY <1>4
  <2>2. work'[w] # work[w]
        BY <1>1, <2>1 DEF Follows, Own
  <2>3. WorkerStep(w) \/ StartWorker(w) \/ StopWorker(w)
    <3>1. CASE \E v \in Workers : WorkerStep(v) \/ StartWorker(v)
                                  \/ StopWorker(v) \/ Crash(v)
      <4>1. PICK v \in Workers : WorkerStep(v) \/ StartWorker(v)
                                 \/ StopWorker(v) \/ Crash(v)
            BY <3>1
      <4>2. v = w
            BY <2>2, <4>1, OtherWorkers DEF ServiceInv
      <4>3. QED
            BY <1>1, <4>1, <4>2
    <3>2. CASE ApiStep \/ (\E t \in Tenants : EditRegistry(t)) \/ TimePasses
               \/ UNCHANGED vars
      <4>1. work' = work
            BY <3>2 DEF ApiStep, BeginCreate, BeginRoute, BeginApprove, Begin,
                        FinishCreate, FinishRoute, FinishApprove,
                        FinishWithoutEffect, End, EditRegistry, TimePasses,
                        serviceVars, vars
      <4>2. QED
            BY <2>2, <4>1
    <3>3. QED
          BY <3>1, <3>2 DEF ServiceNext
  <2>4. FinishRun(w) \/ OutputsLost(w)
        BY <1>1, <2>1, <2>3, FollowUpEnds
  <2>5. log' = log /\ sent' = sent /\ opened' = opened
        BY <2>4 DEF FinishRun, OutputsLost, Poll, Exit, storeVars
  <2>6. QED
        BY <2>1, <2>4, <2>5 DEF FollowUpStands
<1>5. QED
      BY <1>3, <1>4

LEMMA AuditStep ==
    ServiceInv /\ FollowInv /\ AuditInv /\ [ServiceNext]_vars => AuditInv'
<1> SUFFICES ASSUME ServiceInv, FollowInv, AuditInv, [ServiceNext]_vars,
                    NEW r \in RunIds, LeftAlone(r)'
             PROVE  PublishedAsOpened(r)'
    BY DEF AuditInv
<1>1. FollowUpStands(r)
      BY LeftBehind
<1>2. PublishedAsOpened(r)
  <2>1. CASE LeftAlone(r)
        BY <2>1 DEF AuditInv
  <2>2. CASE \E w \in Workers : Follows(w, r) /\ (FinishRun(w) \/ OutputsLost(w))
    <3>1. PICK w \in Workers : /\ Follows(w, r)
                               /\ FinishRun(w) \/ OutputsLost(w)
          BY <2>2
    <3>2. AsFarAsShown(w) /\ work[w].pc \in Following /\ Own(w) = r
          BY <3>1 DEF FollowInv, Follows
    <3>3. CASE FinishRun(w)
      <4>1. work[w].pc = "publishing" /\ work[w].todo = {}
            BY <3>3 DEF FinishRun, At
      <4>2. Audited(w) = OutputsOf(r) /\ Called(w) = OutputsOf(r)
            BY <3>2, <4>1 DEF Audited, Called
      <4>3. QED
            BY <3>2, <4>2 DEF AsFarAsShown, PublishedAsOpened
    <3>4. CASE OutputsLost(w)
      <4>1. work[w].pc = "opening"
            BY <3>4 DEF OutputsLost, At
      <4>2. OutputsOf(r) = {} /\ Audited(w) = {} /\ Called(w) = {}
            BY <3>2, <4>1 DEF AsFarAsShown, OutputsOf, Audited, Called
      <4>3. QED
            BY <3>2, <4>2 DEF AsFarAsShown, PublishedAsOpened
    <3>5. QED
          BY <3>1, <3>3, <3>4
  <2>3. QED
        BY <2>1, <2>2, LeftBehind
<1>3. OutputsOf(r)' = OutputsOf(r)
      BY <1>1 DEF FollowUpStands, OutputsOf
<1>4. \A p \in Publishers : OutputEvents(r, p)' = OutputEvents(r, p)
      BY <1>1, FollowRowsTyped DEF FollowUpStands, OutputEvents, Count
<1>5. QED
      BY <1>1, <1>2, <1>3, <1>4 DEF FollowUpStands, PublishedAsOpened

(* Whoever still has a run in hand is at worst following it up.            *)
LEMMA ReleasedIsLeftAlone ==
    ASSUME NEW r \in RunIds, Released(r)
    PROVE  LeftAlone(r)
<1>1. QED
      BY DEF Released, LeftAlone, Follows

LEMMA AuditInvariance == ServiceSpec => []AuditInv
<1>1. ServiceInit => AuditInv
      BY DEF ServiceInit, StoreInit, AuditInv, LeftAlone, Has, Exists
<1>2. QED
      BY <1>1, AuditStep, ServiceInvariance, FollowInvariance, PTL
         DEF ServiceSpec

(* Once the worker that ended a run has moved on without being killed,     *)
(* each publisher its follow-up opened was called once and has left one    *)
(* event, and no other publisher was called or has any, whatever became of *)
(* the workspace, the webhook URL or the other publishers.                 *)
THEOREM DeliveriesAudited == ServiceSpec => []OutputsAreAudited
<1>1. AuditInv => OutputsAreAudited
      BY ReleasedIsLeftAlone DEF AuditInv, OutputsAreAudited
<1>2. QED
      BY <1>1, AuditInvariance, PTL

(* The last worker to follow up a run could open its publishers.           *)
LEMMA PublishStep ==
    ASSUME ServiceInv, FollowInv, PublishInv, OutputsOpen, [ServiceNext]_vars
    PROVE  PublishInv'
<1> SUFFICES ASSUME NEW r \in RunIds, LeftAlone(r)'
             PROVE  opened'[r] # {}
    BY DEF PublishInv
<1>1. CASE LeftAlone(r) /\ FollowUpStands(r)
      BY <1>1 DEF PublishInv, FollowUpStands
<1>2. CASE FollowUpStands(r)
           /\ \E w \in Workers : Follows(w, r) /\ (FinishRun(w) \/ OutputsLost(w))
  <2>1. PICK w \in Workers : /\ Follows(w, r)
                             /\ FinishRun(w) \/ OutputsLost(w)
        BY <1>2
  <2>2. AsFarAsShown(w) /\ work[w].pc \in Following /\ Own(w) = r
        BY <2>1 DEF FollowInv, Follows
  <2>3. CanOpen(w)
    <3>1. runs[r].request \in Requests
          BY <2>2 DEF AsFarAsShown, ServiceInv, ServiceTypeOK, StoreTypeOK,
                      Has, Exists, Run
    <3>2. runs[r].request.tenant \in Tenants \cup {NoTenant}
          BY <3>1, ServiceParameters
    <3>3. Outputs(runs[r].request) \subseteq Publishers
          BY DEF Outputs
    <3>4. QED
          BY <2>2, <3>2, <3>3 DEF CanOpen, OutputsOpen
  <2>4. FinishRun(w)
        BY <2>1, <2>3 DEF OutputsLost
  <2>5. QED
        BY <1>2, <2>2, <2>4
           DEF FinishRun, At, AsFarAsShown, FollowUpStands
<1>3. QED
      BY <1>1, <1>2, LeftBehind

(* While every workspace stays valid and the webhook URL of every worker   *)
(* uses TLS, the publishers of a run that has ended were opened, and each  *)
(* has left an event, once its worker has moved on without being killed.   *)
THEOREM EndsArePublished ==
    ServiceSpec /\ []OutputsOpen => []EveryEndIsPublished
<1>1. ServiceInit => PublishInv
      BY DEF ServiceInit, StoreInit, PublishInv, LeftAlone, Has, Exists
<1>2. ServiceInv /\ FollowInv /\ PublishInv /\ OutputsOpen /\ [ServiceNext]_vars
          => PublishInv'
      BY PublishStep
<1>3. ServiceInv /\ AuditInv /\ PublishInv => EveryEndIsPublished
  <2> SUFFICES ASSUME ServiceInv, AuditInv, PublishInv,
                      NEW r \in RunIds, Released(r)
               PROVE  /\ opened[r] # {}
                      /\ \A p \in OutputsOf(r) : OutputEvents(r, p) = 1
      BY DEF EveryEndIsPublished
  <2>1. opened[r] # {} /\ PublishedAsOpened(r)
        BY ReleasedIsLeftAlone DEF AuditInv, PublishInv
  <2>2. OutputsOf(r) \subseteq Publishers
        BY DEF OutputsOf, ServiceInv, ServiceTypeOK
  <2>3. QED
        BY <2>1, <2>2 DEF PublishedAsOpened
<1>4. QED
      BY <1>1, <1>2, <1>3, ServiceInvariance, FollowInvariance,
         AuditInvariance, PTL DEF ServiceSpec

-----------------------------------------------------------------------------
(* What was confirmed is what is approved *)

(* Only routing and approvals touch the decision, the lock or the          *)
(* blueprint approval of a run that exists.                                *)
LEMMA ContractUntouched ==
    ASSUME StoreInv,
           \/ ClaimStep \/ RequeueStep \/ CompleteStep \/ AppendStep \/ Tick
           \/ UNCHANGED storeVars
    PROVE  /\ approvals' = approvals
           /\ \A r \in RunIds :
                 /\ Exists(r)' <=> Exists(r)
                 /\ Exists(r) => /\ runs'[r].decision = runs[r].decision
                                 /\ runs'[r].locked = runs[r].locked
<1>1. /\ runs \in [RunIds -> Run \cup {NoRun}]
      /\ \A r \in RunIds : Exists(r) => runs[r] \in Run
      /\ \A r \in RunIds : Exists(r)' <=> Exists(r)
      BY IdentityKept DEF StoreInv, StoreTypeOK, Exists
<1>2. CASE ClaimStep
  <2>1. PICK s \in RunIds, now \in Stamps : ClaimNextRun(s, now)
        BY <1>2 DEF ClaimStep
  <2>2. /\ runs' = [runs EXCEPT ![s] =
              [runs[s] EXCEPT !.status = "running", !.updated = now]]
        /\ approvals' = approvals
        BY <1>1, <2>1 DEF ClaimNextRun, Claimable, Has, Run
  <2>3. QED
        BY <1>1, <2>2 DEF Run
<1>3. CASE RequeueStep
  <2>1. PICK now \in Stamps : RequeueStaleRuns(now)
        BY <1>3 DEF RequeueStep
  <2>2. QED
        BY <1>1, <2>1 DEF RequeueStaleRuns, Run
<1>4. CASE CompleteStep
  <2>1. PICK s \in RunIds, result \in ResultStatuses, now \in Stamps :
                CompleteRun(s, result, result # "failed", now)
        BY <1>4 DEF CompleteStep
  <2>2. PICK status : runs' = [runs EXCEPT ![s] =
              [runs[s] EXCEPT !.status = status, !.updated = now,
                              !.result = result]]
        BY <1>1, <2>1 DEF CompleteRun, Has, Run
  <2>3. approvals' = approvals
        BY <2>1 DEF CompleteRun
  <2>4. QED
        BY <1>1, <2>2, <2>3 DEF Run
<1>5. CASE AppendStep \/ Tick \/ UNCHANGED storeVars
      BY <1>1, <1>5 DEF AppendStep, AppendEvent, Tick, storeVars
<1>6. QED
      BY <1>2, <1>3, <1>4, <1>5

(* The same for the transactions of the API, one by one.                   *)
LEMMA CreatedRuns ==
    ASSUME StoreInv, NEW r \in RunIds, NEW key \in Keys, NEW request \in Requests,
           NEW decision \in Decisions, NEW now \in Stamps,
           CreateRun(r, key, request, decision, now)
    PROVE  /\ approvals' = approvals
           /\ \A s \in RunIds : Exists(s) => runs'[s] = runs[s]
           /\ \A s \in RunIds : IsLocked(s)' => IsLocked(s)
<1>1. runs \in [RunIds -> Run \cup {NoRun}]
      BY DEF StoreInv, StoreTypeOK
<1>2. CASE InsertRun(r, key, request, decision, now)
  <2>1. runs'[r].locked = NoTime
        BY <1>1, <1>2 DEF InsertRun
  <2>2. QED
        BY <1>1, <1>2, <2>1 DEF InsertRun, IsLocked, Exists
<1>3. CASE ReturnExisting(r, key, request)
      BY <1>3 DEF ReturnExisting, IsLocked, Exists
<1>4. QED
      BY <1>2, <1>3 DEF CreateRun

LEMMA RoutedRuns ==
    ASSUME StoreInv, NEW r \in RunIds, NEW decision \in Decisions,
           NEW now \in Stamps, SetRoutingDecision(r, decision, now)
    PROVE  /\ approvals' = approvals
           /\ \A s \in RunIds \ {r} : runs'[s] = runs[s]
           /\ ~IsLocked(r)'
<1>1. /\ runs \in [RunIds -> Run \cup {NoRun}] /\ runs[r] \in Run
      /\ runs[r].locked = NoTime
      BY DEF StoreInv, StoreTypeOK, SetRoutingDecision, Has, Exists, IsLocked
<1>2. runs'[r].locked = NoTime
      BY <1>1 DEF SetRoutingDecision, Run
<1>3. QED
      BY <1>1, <1>2 DEF SetRoutingDecision, IsLocked

LEMMA ApprovedRuns ==
    ASSUME StoreInv, NEW r \in RunIds, NEW kind \in Kinds,
           NEW approval \in Approval, NEW now \in Stamps,
           RecordApproval(r, kind, approval, now)
    PROVE  /\ \A s \in RunIds \ {r} : /\ runs'[s] = runs[s]
                                      /\ approvals'[s] = approvals[s]
           /\ Exists(r) /\ runs'[r].decision = runs[r].decision
           /\ IsLocked(r)' =>
                 \/ /\ IsLocked(r)
                    /\ approvals'[r]["blueprint"] = approvals[r]["blueprint"]
                 \/ /\ kind = "blueprint" /\ approval.decision = "approved"
                    /\ approvals'[r]["blueprint"] = approval
<1>1. /\ runs \in [RunIds -> Run \cup {NoRun}]
      /\ approvals \in [RunIds -> [Kinds -> Approval \cup {NoApproval}]]
      /\ "blueprint" \in Kinds /\ "test" \in Kinds
      BY DEF StoreInv, StoreTypeOK, Kinds
<1>2. CASE kind = "blueprint" /\ ApproveBlueprint(r, approval, now)
  <2>1. runs[r] \in Run /\ Exists(r)
        BY <1>1, <1>2 DEF ApproveBlueprint, Has, Exists
  <2>2. runs'[r].decision = runs[r].decision
        BY <1>1, <1>2, <2>1 DEF ApproveBlueprint, Run
  <2>3. approvals'[r]["blueprint"] = approval
        BY <1>1, <1>2 DEF ApproveBlueprint, InsertApproval
  <2>4. QED
        BY <1>1, <1>2, <2>1, <2>2, <2>3 DEF ApproveBlueprint, InsertApproval
<1>3. CASE kind = "blueprint" /\ RejectBlueprint(r, approval, now)
  <2>1. /\ runs[r] \in Run /\ Exists(r)
        /\ runs[r].status = "awaiting-blueprint-approval" /\ RowInv(r)
        BY <1>1, <1>3 DEF RejectBlueprint, Has, Exists, StoreInv
  <2>2. runs[r].locked = NoTime
        BY <2>1 DEF RowInv, ApprovalMatches, IsLocked, Has, Terminal
  <2>3. /\ runs'[r].decision = runs[r].decision
        /\ runs'[r].locked = NoTime
        BY <1>1, <1>3, <2>1, <2>2 DEF RejectBlueprint, Run
  <2>4. QED
        BY <1>1, <1>3, <2>1, <2>3
           DEF RejectBlueprint, InsertApproval, IsLocked
<1>4. CASE kind = "test" /\ RecordTestApproval(r, approval, now)
  <2>1. runs[r] \in Run /\ Exists(r)
        BY <1>1, <1>4 DEF RecordTestApproval, Exists
  <2>2. /\ runs'[r].decision = runs[r].decision
        /\ runs'[r].locked = runs[r].locked
        BY <1>1, <1>4, <2>1 DEF RecordTestApproval, Run
  <2>3. approvals'[r]["blueprint"] = approvals[r]["blueprint"]
        BY <1>1, <1>4 DEF RecordTestApproval, InsertApproval
  <2>4. QED
        BY <1>1, <1>4, <2>1, <2>2, <2>3
           DEF RecordTestApproval, InsertApproval, IsLocked
<1>5. QED
      BY <1>2, <1>3, <1>4 DEF RecordApproval

(* What an approval checked of its run, as long as the call is in flight.  *)
Reviewed(c) ==
    Pending(c, "approve") =>
        LET r == calls[c].run
            approval == calls[c].approval
        IN  /\ Exists(r)
            /\ /\ calls[c].kind = "blueprint"
               /\ approval.decision = "approved"
               /\ runs[r].decision.route = "browser-use"
               => approval.details.route

ReviewedRun(r) ==
    IsLocked(r) /\ runs[r].decision.route = "browser-use" =>
        approvals[r]["blueprint"].details.route

LEMMA ReviewParts ==
    /\ ReviewInv <=> /\ \A r \in RunIds : ReviewedRun(r)
                     /\ \A c \in Calls : Reviewed(c)
    /\ ReviewInv' <=> /\ \A r \in RunIds : ReviewedRun(r)'
                      /\ \A c \in Calls : Reviewed(c)'
  BY DEF ReviewInv, BrowserUseIsReviewed, ReviewedRun, Reviewed

(* The call stays in flight, or has ended, and its run stands.             *)
LEMMA ReviewStands ==
    ASSUME ServiceInv, NEW c \in Calls, Reviewed(c),
           calls'[c] = calls[c] \/ calls'[c] = NoCall,
           \A r \in RunIds : Exists(r) /\ Pending(c, "approve") /\ calls[c].run = r
               => Exists(r)' /\ runs'[r].decision = runs[r].decision
    PROVE  Reviewed(c)'
<1> SUFFICES ASSUME Pending(c, "approve")' PROVE Reviewed(c)'
    BY DEF Reviewed
<1>1. calls'[c] = calls[c] /\ Pending(c, "approve")
      BY DEF Pending
<1>2. PICK r \in RunIds : calls[c].run = r
      BY <1>1, PendingCalls
<1>3. Exists(r)' /\ runs'[r].decision = runs[r].decision
      BY <1>1, <1>2 DEF Reviewed
<1>4. QED
      BY <1>1, <1>2, <1>3 DEF Reviewed, Pending, Exists

LEMMA ReviewBegins ==
    ASSUME ServiceInv, ReviewInv, NEW c \in Calls,
           \/ \E key \in Keys, request \in Requests : BeginCreate(c, key, request)
           \/ \E r \in RunIds, actor \in Actors,
                 agentic \in BOOLEAN, strict \in BOOLEAN :
                 BeginRoute(c, r, actor, agentic, strict)
           \/ \E r \in RunIds, kind \in Kinds, approval \in Approval :
                 BeginApprove(c, r, kind, approval)
    PROVE  ReviewInv'
<1>1. /\ calls \in [Calls -> Call \cup {NoCall}]
      /\ \A s \in RunIds : ReviewedRun(s)
      /\ \A d \in Calls : Reviewed(d)
      BY ReviewParts DEF ServiceInv, ServiceTypeOK
<1>2. /\ runs' = runs /\ approvals' = approvals
      /\ \A d \in Calls \ {c} : calls'[d] = calls[d]
      BY <1>1 DEF BeginCreate, BeginRoute, BeginApprove, Begin, storeVars
<1>3. \A s \in RunIds : ReviewedRun(s)'
      BY <1>1, <1>2 DEF ReviewedRun, IsLocked, Exists
<1>4. \A d \in Calls \ {c} : Reviewed(d)'
      BY <1>1, <1>2, ReviewStands DEF Exists
<1>5. Reviewed(c)'
  <2>1. CASE \E r \in RunIds, kind \in Kinds, approval \in Approval :
                 BeginApprove(c, r, kind, approval)
    <3>1. PICK r \in RunIds, kind \in Kinds, approval \in Approval :
                 BeginApprove(c, r, kind, approval)
          BY <2>1
    <3>2. calls'[c] = [op |-> "approve", run |-> r, kind |-> kind,
                       approval |-> approval]
          BY <1>1, <3>1 DEF BeginApprove, Begin
    <3>3. /\ calls'[c].run = r /\ calls'[c].kind = kind
          /\ calls'[c].approval = approval
          BY <3>2
    <3>4. QED
          BY <1>2, <3>1, <3>3 DEF BeginApprove, Reviewed, Exists
  <2>2. CASE \E r \in RunIds, actor \in Actors,
                agentic \in BOOLEAN, strict \in BOOLEAN :
                BeginRoute(c, r, actor, agentic, strict)
    <3>1. calls'[c].op = "route"
          BY <1>1, <2>2 DEF BeginRoute, Begin
    <3>2. QED
          BY <3>1 DEF Reviewed, Pending
  <2>3. CASE \E key \in Keys, request \in Requests : BeginCreate(c, key, request)
    <3>1. calls'[c].op = "create"
          BY <1>1, <2>3 DEF BeginCreate, Begin
    <3>2. QED
          BY <3>1 DEF Reviewed, Pending
  <2>4. QED
        BY <2>1, <2>2, <2>3
<1>6. QED
      BY <1>3, <1>4, <1>5, ReviewParts

LEMMA ReviewStep ==
    ASSUME ServiceInv, ReviewInv, RoutingWaits, [ServiceNext]_vars
    PROVE  ReviewInv'
<1>1. /\ calls \in [Calls -> Call \cup {NoCall}] /\ StoreInv
      /\ \A r \in RunIds : ReviewedRun(r)
      /\ \A c \in Calls : Reviewed(c)
      BY ReviewParts DEF ServiceInv, ServiceTypeOK
<1>2. ASSUME NEW c \in Calls, End(c)
      PROVE  \A d \in Calls : /\ calls'[d] = calls[d] \/ calls'[d] = NoCall
                              /\ calls'[d] = calls[d] \/ d = c
      BY <1>1, <1>2 DEF End
<1>3. CASE \E c \in Calls : FinishCreate(c)
  <2>1. PICK c \in Calls : FinishCreate(c)
        BY <1>3
  <2>2. PICK r \in RunIds, key \in Keys, request \in Requests,
             decision \in Decisions, now \in Stamps :
                CreateRun(r, key, request, decision, now)
        BY <2>1, PendingCalls DEF FinishCreate
  <2>3. /\ approvals' = approvals
        /\ \A s \in RunIds : Exists(s) => runs'[s] = runs[s]
        /\ \A s \in RunIds : IsLocked(s)' => IsLocked(s)
        BY <1>1, <2>2, CreatedRuns
  <2>4. \A s \in RunIds : ReviewedRun(s)'
        BY <1>1, <2>3 DEF ReviewedRun, IsLocked
  <2>5. \A d \in Calls : Reviewed(d)'
        BY <1>1, <1>2, <2>1, <2>3, ReviewStands DEF FinishCreate, Exists
  <2>6. QED
        BY <2>4, <2>5, ReviewParts
<1>4. CASE \E c \in Calls : FinishRoute(c)
  <2>1. PICK c \in Calls : FinishRoute(c)
        BY <1>4
  <2>2. PICK r \in RunIds, decision \in Decisions, now \in Stamps :
             calls[c].run = r /\ SetRoutingDecision(r, decision, now)
        BY <2>1, PendingCalls DEF FinishRoute
  <2>3. /\ approvals' = approvals
        /\ \A s \in RunIds \ {r} : runs'[s] = runs[s]
        /\ ~IsLocked(r)'
        BY <1>1, <2>2, RoutedRuns
  <2>4. \A s \in RunIds : ReviewedRun(s)'
        BY <1>1, <2>3 DEF ReviewedRun, IsLocked, Exists
  <2>5. \A d \in Calls : Pending(d, "approve") => calls[d].run # r
        BY <2>1, <2>2 DEF RoutingWaits, FinishRoute
  <2>6. \A d \in Calls : Reviewed(d)'
        BY <1>1, <1>2, <2>1, <2>3, <2>5, ReviewStands DEF FinishRoute, Exists
  <2>7. QED
        BY <2>4, <2>6, ReviewParts
<1>5. CASE \E c \in Calls : FinishApprove(c)
  <2>1. PICK c \in Calls : FinishApprove(c)
        BY <1>5
  <2>2. PICK r \in RunIds, kind \in Kinds, approval \in Approval, now \in Stamps :
             /\ calls[c].run = r /\ calls[c].kind = kind
             /\ calls[c].approval = approval
             /\ RecordApproval(r, kind, approval, now)
        BY <2>1, PendingCalls DEF FinishApprove
  <2>3. /\ \A s \in RunIds \ {r} : /\ runs'[s] = runs[s]
                                   /\ approvals'[s] = approvals[s]
        /\ Exists(r) /\ runs'[r].decision = runs[r].decision
        /\ IsLocked(r)' =>
              \/ /\ IsLocked(r)
                 /\ approvals'[r]["blueprint"] = approvals[r]["blueprint"]
              \/ /\ kind = "blueprint" /\ approval.decision = "approved"
                 /\ approvals'[r]["blueprint"] = approval
        BY <1>1, <2>2, ApprovedRuns
  <2>4. kind = "blueprint" /\ approval.decision = "approved"
            /\ runs[r].decision.route = "browser-use"
            => approval.details.route
        BY <1>1, <2>1, <2>2 DEF FinishApprove, Reviewed
  <2>5. ReviewedRun(r)'
        BY <1>1, <2>3, <2>4 DEF ReviewedRun
  <2>6. \A s \in RunIds \ {r} : ReviewedRun(s)'
        BY <1>1, <2>3 DEF ReviewedRun, IsLocked, Exists
  <2>7. Exists(r)'
    <3>1. ApprovalStep
          BY <2>2 DEF ApprovalStep
    <3>2. QED
          BY <1>1, <2>3, <3>1, IdentityKept DEF StoreInv
  <2>8. \A d \in Calls : Reviewed(d)'
        BY <1>1, <1>2, <2>1, <2>3, <2>7, ReviewStands DEF FinishApprove, Exists
  <2>9. QED
        BY <2>5, <2>6, <2>8, ReviewParts
<1>6. ASSUME \/ ClaimStep \/ RequeueStep \/ CompleteStep \/ AppendStep \/ Tick
             \/ UNCHANGED storeVars,
             \A c \in Calls : calls'[c] = calls[c] \/ calls'[c] = NoCall
      PROVE  ReviewInv'
  <2>1. /\ approvals' = approvals
        /\ \A r \in RunIds :
              /\ Exists(r)' <=> Exists(r)
              /\ Exists(r) => /\ runs'[r].decision = runs[r].decision
                              /\ runs'[r].locked = runs[r].locked
        BY <1>1, <1>6, ContractUntouched
  <2>2. \A r \in RunIds : ReviewedRun(r)'
        BY <1>1, <2>1 DEF ReviewedRun, IsLocked
  <2>3. \A c \in Calls : Reviewed(c)'
        BY <1>1, <1>6, <2>1, ReviewStands
  <2>4. QED
        BY <2>2, <2>3, ReviewParts
<1>7. CASE \E c \in Calls : FinishWithoutEffect(c)
      BY <1>2, <1>6, <1>7 DEF FinishWithoutEffect
<1>8. CASE \E w \in Workers : WorkerStep(w) \/ StartWorker(w) \/ StopWorker(w)
                              \/ Crash(w)
  <2>1. calls' = calls
        BY <1>8 DEF WorkerStep, StartupRequeue, Claim, FindNothing,
                    ReadCounters, LoadTask, LoadFails, Dispatch, Browse,
                    BrowseFails, LandReport, ReportRefused, LandFailure, Land,
                    FailureRefused, RecordMetrics, OpenOutputs, OutputsLost,
                    SendOutput, AuditOutput, FinishRun, StartWorker,
                    StopWorker, Crash, GoTo, Exit, Poll
  <2>2. QED
        BY <1>6, <1>8, <2>1, WorkerSteps
<1>9. CASE (\E t \in Tenants : EditRegistry(t)) \/ TimePasses \/ UNCHANGED vars
      BY <1>6, <1>9 DEF EditRegistry, TimePasses, vars, serviceVars
<1>10. QED
       BY <1>3, <1>4, <1>5, <1>7, <1>8, <1>9, ReviewBegins
          DEF ServiceNext, ApiStep

(* As long as no routing call for a run is in flight beside an approval of *)
(* it, every run approved on the Browser Use route was approved with the   *)
(* confirmation that this route was reviewed.                              *)
THEOREM BrowserUseReviewed ==
    ServiceSpec /\ []RoutingWaits => []BrowserUseIsReviewed
<1>1. ServiceInit => ReviewInv
      BY DEF ServiceInit, StoreInit, ReviewInv, BrowserUseIsReviewed, IsLocked,
             Exists, Pending
<1>2. ServiceInv /\ ReviewInv /\ RoutingWaits /\ [ServiceNext]_vars => ReviewInv'
      BY ReviewStep
<1>3. ReviewInv => BrowserUseIsReviewed
      BY DEF ReviewInv
<1>4. QED
      BY <1>1, <1>2, <1>3, ServiceInvariance, PTL DEF ServiceSpec

(* The service keeps what its store promises: with any handlers in flight, *)
(* workers that overlap and die, it implements the run life cycle, never   *)
(* reopens an ended run and never changes a contract that was locked.      *)
THEOREM ServiceKeepsStorePromises ==
    ServiceSpec => /\ ImplementsLifecycle
                   /\ EndedRunsStayEnded
                   /\ RowsKeepTheirContract
<1>1. QED
      BY ServiceUsesStore, StoreImplementsLifecycle, EndTheorem,
         ContractTheorem, PTL

=============================================================================

----------------------------- MODULE RunStore -----------------------------
(***************************************************************************)
(* The durable run, approval and audit-event store of the service:         *)
(* service/store.py, class RunStore, over one SQLite database in WAL mode. *)
(*                                                                         *)
(* Every public method of the class is one transaction opened with BEGIN   *)
(* IMMEDIATE, so a method is one action here.  What a method does NOT do   *)
(* inside its transaction is read the clock: it calls utc_now() first and  *)
(* may then wait for the write lock up to the busy timeout, so the time an *)
(* action writes can lag behind the time at which it takes effect.         *)
(*                                                                         *)
(* The callers are left completely free: any caller may call any method    *)
(* with any arguments at any time.  What holds here therefore holds        *)
(* whatever the API handlers and the workers do, with any number of them.  *)
(***************************************************************************)
EXTENDS Integers, FiniteSets

CONSTANTS
    RunIds,         \* the identifiers uuid4 draws from
    Keys,           \* Idempotency-Key header values
    Requests,       \* what a create call asks for: source, paths, client
    Actors,         \* who routes and approves
    Details,        \* the approval details documents
    Reasons,        \* what tells apart two routing decisions with one route
    CallerRows,     \* the <<type, tag>> rows appended through append_event
    StaleMinutes,   \* older_than_minutes of requeue_stale_runs
    MaxLag,         \* longest wait between utc_now() and the transaction
    NoRun,          \* no row with this identifier
    NoApproval,     \* no approval row of this kind
    NoTime,         \* SQL NULL in route_locked_at
    NoResult,       \* SQL NULL in result_json
    NoTag           \* an event whose payload names no route and no kind

Routes == {"playwright", "browser-use", "blocked"}
Executable == {"playwright", "browser-use"}
Kinds == {"blueprint", "test", "action"}
Verdicts == {"approved", "rejected"}
ResultStatuses == {"completed", "completed-with-errors", "failed"}
Terminal == {"completed", "failed"}
RunStatuses == {"awaiting-blueprint-approval", "queued", "rejected",
                "running"} \cup Terminal

(* A routing decision; execution_authorized is FALSE in every one of them  *)
(* (_canonical_routing refuses any other), so it is not a field here.      *)
Decisions == [route : Routes, reasons : Reasons]

(* The audit rows, told apart by event type and by the one field of the    *)
(* payload that matters: the route or the approval kind it names, if any.  *)
RoutingEvents == {"run.created", "routing.selected", "routing.updated"}
ExecutionEvents == {"routing.locked", "run.started", "run.completed",
                    "run.failed"}
StoreRows ==
    ((RoutingEvents \cup ExecutionEvents) \X Routes)
        \cup ({"approval.approved", "approval.rejected"} \X Kinds)
        \cup {<<"run.requeued-after-stale-lease", NoTag>>}
EventRows == StoreRows \cup CallerRows

(* One row of the table runs, and one of the table approvals.              *)
Run == [key : Keys, request : Requests, status : RunStatuses,
        created : Nat, updated : Nat, decision : Decisions,
        locked : Nat \cup {NoTime}, result : ResultStatuses \cup {NoResult}]
Approval == [decision : Verdicts, actor : Actors, details : Details]

ASSUME StoreNulls ==
    /\ NoRun \notin Run
    /\ NoRun \notin [request : Requests, phase : RunStatuses, route : Routes]
    /\ NoApproval \notin Approval
    /\ NoTime \notin Nat
    /\ NoResult \notin ResultStatuses

ASSUME StoreIntervals ==
    /\ StaleMinutes \in Nat \ {0}
    /\ MaxLag \in Nat

ASSUME CallerRowsDistinct == CallerRows \cap StoreRows = {}

VARIABLES
    runs,       \* the table runs
    approvals,  \* the table approvals, by run and kind
    log,        \* the table events: how many rows of each type and tag
    replies,    \* what the calls of create_run returned
    clock       \* the wall clock of the host, in minutes

storeVars == <<runs, approvals, log, replies, clock>>

-----------------------------------------------------------------------------
(* Reading the store *)

Exists(r) == runs[r] # NoRun

Has(r, statuses) == Exists(r) /\ runs[r].status \in statuses

IsLocked(r) == Exists(r) /\ runs[r].locked # NoTime

(* How many events of a type the run has with a tag.                       *)
Count(r, type, tag) == log[r][<<type, tag>>]

(* utc_now() as a transaction sees it: read at most MaxLag ago.            *)
Stamps == {t \in 0..clock : clock - t <= MaxLag}

(* The event rows one transaction adds for a run.                          *)
WithRows(counts, added) ==
    [e \in EventRows |-> IF e \in added THEN counts[e] + 1
                                                 ELSE counts[e]]

-----------------------------------------------------------------------------
(* The methods of RunStore *)

StoreInit ==
    /\ runs = [r \in RunIds |-> NoRun]
    /\ approvals = [r \in RunIds |-> [k \in Kinds |-> NoApproval]]
    /\ log = [r \in RunIds |-> [e \in EventRows |-> 0]]
    /\ replies = {}
    /\ clock = 0

(* The key is free: a new row, its two events, created=True.               *)
InsertRun(r, key, request, decision, now) ==
    /\ ~Exists(r)
    /\ \A s \in RunIds : Exists(s) => runs[s].key # key
    /\ runs' = [runs EXCEPT ![r] =
            [key |-> key, request |-> request,
             status |-> "awaiting-blueprint-approval",
             created |-> now, updated |-> now, decision |-> decision,
             locked |-> NoTime, result |-> NoResult]]
    /\ log' = [log EXCEPT ![r] =
            WithRows(@, {<<"run.created", decision.route>>,
                       <<"routing.selected", decision.route>>})]
    /\ replies' = replies \cup {[key |-> key, request |-> request, run |-> r]}
    /\ UNCHANGED <<approvals, clock>>

(* Mutant: the stored request is not compared.                             *)
ReturnWhateverIsThere(r, key, request) ==
    /\ Exists(r)
    /\ runs[r].key = key
    /\ replies' = replies \cup {[key |-> key, request |-> request, run |-> r]}
    /\ UNCHANGED <<runs, approvals, log, clock>>

(* The key is taken by the same request: that run again, created=False.    *)
(* The routing decision of the new call is not compared and is dropped.    *)
ReturnExisting(r, key, request) ==
    /\ Exists(r)
    /\ runs[r].key = key
    /\ runs[r].request = request
    /\ replies' = replies \cup {[key |-> key, request |-> request, run |-> r]}
    /\ UNCHANGED <<runs, approvals, log, clock>>

(* A key taken by another request raises RunStateError, changing nothing.  *)
CreateRun(r, key, request, decision, now) ==
    \/ InsertRun(r, key, request, decision, now)
    \/ ReturnExisting(r, key, request)

(* Mutant: neither the status nor the lock is checked.                     *)
SetRoutingAnyTime(r, decision, now) ==
    /\ Exists(r)
    /\ runs[r].decision # decision
    /\ runs' = [runs EXCEPT ![r].decision = decision, ![r].updated = now]
    /\ log' = [log EXCEPT ![r] =
            WithRows(@, {<<"routing.updated", decision.route>>})]
    /\ UNCHANGED <<approvals, replies, clock>>

SetRoutingDecision(r, decision, now) ==
    /\ Has(r, {"awaiting-blueprint-approval"})
    /\ ~IsLocked(r)
    /\ runs[r].decision # decision
    /\ runs' = [runs EXCEPT ![r].decision = decision, ![r].updated = now]
    /\ log' = [log EXCEPT ![r] =
            WithRows(@, {<<"routing.updated", decision.route>>})]
    /\ UNCHANGED <<approvals, replies, clock>>

(* The row and the events every newly recorded approval leaves.            *)
InsertApproval(r, kind, approval, events) ==
    /\ approvals' = [approvals EXCEPT ![r][kind] = approval]
    /\ log' = [log EXCEPT ![r] =
            WithRows(@, events \cup
                      {<<IF approval.decision = "approved"
                         THEN "approval.approved"
                         ELSE "approval.rejected", kind>>})]
    /\ UNCHANGED <<replies, clock>>

(* Mutant: a blocked route is not refused.                                 *)
ApproveAnyRoute(r, approval, now) ==
    /\ Has(r, {"awaiting-blueprint-approval"})
    /\ approvals[r]["blueprint"] = NoApproval
    /\ approval.decision = "approved"
    /\ runs' = [runs EXCEPT ![r].status = "queued", ![r].updated = now,
                            ![r].locked = now]
    /\ InsertApproval(r, "blueprint", approval,
                      {<<"routing.locked", runs[r].decision.route>>})

(* An approved blueprint queues the run and locks its route in the same    *)
(* transaction; a blocked route cannot be approved.                        *)
ApproveBlueprint(r, approval, now) ==
    /\ Has(r, {"awaiting-blueprint-approval"})
    /\ approvals[r]["blueprint"] = NoApproval
    /\ approval.decision = "approved"
    /\ runs[r].decision.route # "blocked"
    /\ runs' = [runs EXCEPT ![r].status = "queued", ![r].updated = now,
                            ![r].locked = now]
    /\ InsertApproval(r, "blueprint", approval,
                      {<<"routing.locked", runs[r].decision.route>>})

RejectBlueprint(r, approval, now) ==
    /\ Has(r, {"awaiting-blueprint-approval"})
    /\ approvals[r]["blueprint"] = NoApproval
    /\ approval.decision = "rejected"
    /\ runs' = [runs EXCEPT ![r].status = "rejected", ![r].updated = now]
    /\ InsertApproval(r, "blueprint", approval, {})

(* A test approval is taken in every status and moves updated_at.          *)
RecordTestApproval(r, approval, now) ==
    /\ Exists(r)
    /\ approvals[r]["test"] = NoApproval
    /\ runs' = [runs EXCEPT ![r].updated = now]
    /\ InsertApproval(r, "test", approval, {})

(* An identical approval already there, and every refusal (an action       *)
(* approval among them), changes nothing.                                  *)
RecordApproval(r, kind, approval, now) ==
    \/ kind = "blueprint" /\ ApproveBlueprint(r, approval, now)
    \/ kind = "blueprint" /\ RejectBlueprint(r, approval, now)
    \/ kind = "test" /\ RecordTestApproval(r, approval, now)

(* Queued, routed and locked runs compete; the oldest created_at wins.     *)
Claimable(r) == Has(r, {"queued"}) /\ IsLocked(r)

ClaimNextRun(r, now) ==
    /\ Claimable(r)
    /\ \A s \in RunIds : Claimable(s) => runs[r].created <= runs[s].created
    /\ runs' = [runs EXCEPT ![r].status = "running", ![r].updated = now]
    /\ log' = [log EXCEPT ![r] =
            WithRows(@, {<<"run.started", runs[r].decision.route>>})]
    /\ UNCHANGED <<approvals, replies, clock>>

(* Mutant: the status is not looked at.                                    *)
StaleRunsInAnyStatus(now) ==
    {r \in RunIds : Exists(r) /\ runs[r].updated < now - StaleMinutes}

(* Mutant: a lease is stale one minute too early.                          *)
StaleRunsOneEarly(now) ==
    {r \in RunIds : Has(r, {"running"}) /\ runs[r].updated <= now - StaleMinutes}

(* Mutant: the age of the run is taken for the age of its lease.           *)
StaleRunsByAge(now) ==
    {r \in RunIds : Has(r, {"running"}) /\ runs[r].created < now - StaleMinutes}

(* Mutant: the wrong status is looked for.                                 *)
StaleRunsInQueue(now) ==
    {r \in RunIds : Has(r, {"queued"}) /\ runs[r].updated < now - StaleMinutes}

StaleRuns(now) ==
    {r \in RunIds : Has(r, {"running"}) /\ runs[r].updated < now - StaleMinutes}

RequeueStaleRuns(now) ==
    /\ runs' = [r \in RunIds |->
            IF r \in StaleRuns(now)
            THEN [runs[r] EXCEPT !.status = "queued", !.updated = now]
            ELSE runs[r]]
    /\ log' = [r \in RunIds |->
            IF r \in StaleRuns(now)
            THEN WithRows(log[r], {<<"run.requeued-after-stale-lease", NoTag>>})
            ELSE log[r]]
    /\ UNCHANGED <<approvals, replies, clock>>

(* Mutant: a run that has ended can be completed again.                    *)
CompleteRunAgain(r, result, succeeded, now) ==
    LET status == IF succeeded THEN "completed" ELSE "failed"
        event  == IF succeeded THEN "run.completed" ELSE "run.failed"
    IN  /\ Has(r, {"running"} \cup Terminal)
        /\ runs' = [runs EXCEPT ![r].status = status, ![r].updated = now,
                                ![r].result = result]
        /\ log' = [log EXCEPT ![r] =
                WithRows(@, {<<event, runs[r].decision.route>>})]
        /\ UNCHANGED <<approvals, replies, clock>>

(* Only the status is checked: whoever reports first ends the run.         *)
CompleteRun(r, result, succeeded, now) ==
    LET status == IF succeeded THEN "completed" ELSE "failed"
        event  == IF succeeded THEN "run.completed" ELSE "run.failed"
    IN  /\ Has(r, {"running"})
        /\ runs' = [runs EXCEPT ![r].status = status, ![r].updated = now,
                                ![r].result = result]
        /\ log' = [log EXCEPT ![r] =
                WithRows(@, {<<event, runs[r].decision.route>>})]
        /\ UNCHANGED <<approvals, replies, clock>>

AppendEvent(r, row) ==
    /\ Exists(r)
    /\ log' = [log EXCEPT ![r] = WithRows(@, {row})]
    /\ UNCHANGED <<runs, approvals, replies, clock>>

Tick ==
    /\ clock' = clock + 1
    /\ UNCHANGED <<runs, approvals, log, replies>>

-----------------------------------------------------------------------------

CreateStep ==
    \E r \in RunIds, key \in Keys, request \in Requests,
       decision \in Decisions, now \in Stamps :
        CreateRun(r, key, request, decision, now)

RoutingStep ==
    \E r \in RunIds, decision \in Decisions, now \in Stamps :
        SetRoutingDecision(r, decision, now)

ApprovalStep ==
    \E r \in RunIds, kind \in Kinds, approval \in Approval, now \in Stamps :
        RecordApproval(r, kind, approval, now)

ClaimStep == \E r \in RunIds, now \in Stamps : ClaimNextRun(r, now)

RequeueStep == \E now \in Stamps : RequeueStaleRuns(now)

(* Every caller reports success unless the runtime's own status is failed. *)
CompleteStep ==
    \E r \in RunIds, result \in ResultStatuses, now \in Stamps :
        CompleteRun(r, result, result # "failed", now)

(* append_event is only called with the rows of CallerRows.                *)
AppendStep ==
    \E r \in RunIds, row \in CallerRows :
        AppendEvent(r, row)

StoreNext ==
    \/ CreateStep
    \/ RoutingStep
    \/ ApprovalStep
    \/ ClaimStep
    \/ RequeueStep
    \/ CompleteStep
    \/ AppendStep
    \/ Tick

StoreSpec == StoreInit /\ [][StoreNext]_storeVars

-----------------------------------------------------------------------------
(* Properties *)

(* Type invariant.                                                         *)
StoreTypeOK ==
    /\ runs \in [RunIds -> Run \cup {NoRun}]
    /\ approvals \in [RunIds -> [Kinds -> Approval \cup {NoApproval}]]
    /\ log \in [RunIds -> [EventRows -> Nat]]
    /\ replies \subseteq [key : Keys, request : Requests, run : RunIds]
    /\ clock \in Nat

(* A key is bound to one request and one run for ever: two callers that    *)
(* both had a create call accepted under one Idempotency-Key, however long *)
(* apart and however often retried, asked for the same thing and hold the  *)
(* same run (create_run).                                                  *)
KeyBindsOneRequest ==
    \A p, q \in replies : p.key = q.key => p = q

(* A run is past its blueprint gate, with a locked executable route, if    *)
(* and only if an approved blueprint is on record for it; until then it    *)
(* has no lock, and a rejected one never gets one (record_approval,        *)
(* claim_next_run, requeue_stale_runs).                                    *)
ApprovalMatches(r) ==
    LET blueprint == approvals[r]["blueprint"]
    IN  /\ runs[r].status = "awaiting-blueprint-approval"
              <=> blueprint = NoApproval
        /\ runs[r].status = "rejected" =>
              blueprint # NoApproval /\ blueprint.decision = "rejected"
        /\ IsLocked(r) <=> Has(r, {"queued", "running"} \cup Terminal)
        /\ IsLocked(r) =>
              /\ blueprint # NoApproval
              /\ blueprint.decision = "approved"
              /\ runs[r].decision.route \in Executable

OnlyApprovedRunsAreLocked == \A r \in RunIds : Exists(r) => ApprovalMatches(r)

(* The audit trail accounts for every attempt: the claims of a run exceed  *)
(* its stale requeues by the attempt that is running or that ended it, and *)
(* it has exactly one end event, of the kind its status says.  A second    *)
(* report of the same attempt, or a requeue of a finished run, breaks it.  *)
AttemptsMatch(r) ==
    LET route == runs[r].decision.route
        holds(s) == IF runs[r].status = s THEN 1 ELSE 0
    IN  /\ Count(r, "run.started", route) =
              Count(r, "run.requeued-after-stale-lease", NoTag)
                + holds("running") + holds("completed") + holds("failed")
        /\ Count(r, "run.completed", route) = holds("completed")
        /\ Count(r, "run.failed", route) = holds("failed")
        /\ Count(r, "routing.locked", route) = IF IsLocked(r) THEN 1 ELSE 0

AttemptsAreAccounted == \A r \in RunIds : Exists(r) => AttemptsMatch(r)

(* Approval and runtime choice cannot drift after queueing (ADR 0005): no  *)
(* lock, claim or end event of a run ever names a route other than the one *)
(* its row holds now.                                                      *)
RouteHeld(r) ==
    \A type \in ExecutionEvents, route \in Routes :
        Count(r, type, route) > 0 => route = runs[r].decision.route

NoRouteDrift == \A r \in RunIds : Exists(r) => RouteHeld(r)

(* Once locked, a run's routing decision and lock never change again, and  *)
(* what was requested under the key never changes at all (ADR 0005).       *)
ContractKept(r) ==
    Exists(r) =>
        /\ runs'[r] # NoRun
        /\ runs'[r].key = runs[r].key
        /\ runs'[r].request = runs[r].request
        /\ IsLocked(r) => /\ runs'[r].decision = runs[r].decision
                          /\ runs'[r].locked = runs[r].locked

RowsKeepTheirContract == [][\A r \in RunIds : ContractKept(r)]_storeVars

(* A run that was rejected or has ended keeps its status and its result,   *)
(* whatever late worker, approver or startup requeue comes after it.       *)
EndKept(r) ==
    Has(r, Terminal \cup {"rejected"}) =>
        /\ runs'[r].status = runs[r].status
        /\ runs'[r].result = runs[r].result

EndedRunsStayEnded == [][\A r \in RunIds : EndKept(r)]_storeVars

(* The inductive strengthening of the invariants above: keys are unique    *)
(* among the rows, every reply still describes the row it named, a missing *)
(* row has no approval, and a row without a lock has no execution event    *)
(* and was never requeued.                                                 *)
Blank(r) == \A kind \in Kinds : approvals[r][kind] = NoApproval

Unattempted(r) ==
    /\ \A type \in ExecutionEvents, route \in Routes : Count(r, type, route) = 0
    /\ Count(r, "run.requeued-after-stale-lease", NoTag) = 0

RowInv(r) ==
    /\ ~Exists(r) => Blank(r)
    /\ ~IsLocked(r) => Unattempted(r)
    /\ Exists(r) => ApprovalMatches(r) /\ AttemptsMatch(r) /\ RouteHeld(r)

KeysAreUnique ==
    \A r, s \in RunIds :
        Exists(r) /\ Exists(s) /\ runs[r].key = runs[s].key => r = s

RepliesDescribeRows ==
    \A p \in replies : /\ Exists(p.run)
                       /\ runs[p.run].key = p.key
                       /\ runs[p.run].request = p.request

StoreInv ==
    /\ StoreTypeOK
    /\ KeysAreUnique
    /\ RepliesDescribeRows
    /\ \A r \in RunIds : RowInv(r)

(* The abstract view of the store: the job of a key is the row bound to it.*)
JobOf(row) == [request |-> row.request, phase |-> row.status,
               route |-> row.decision.route]

BoundTo(table, key) ==
    {r \in RunIds : table[r] # NoRun /\ table[r].key = key}

BoardOf(table) ==
    [key \in Keys |->
        IF BoundTo(table, key) = {} THEN NoRun
        ELSE JobOf(table[CHOOSE r \in BoundTo(table, key) : TRUE])]

JobBoard == BoardOf(runs)

Lifecycle == INSTANCE RunLifecycle WITH NoJob <- NoRun, job <- JobBoard

(* The store, with any callers, implements the life cycle it promises: one *)
(* job per key, decided once, started only from the queue on the route it  *)
(* was approved with, ended once.                                          *)
ImplementsLifecycle == Lifecycle!LifecycleSpec

=============================================================================

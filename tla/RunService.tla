---------------------------- MODULE RunService ----------------------------
(***************************************************************************)
(* The service around the run store: the API handlers that create, route   *)
(* and approve runs (service/api.py, service/orchestrator.py) and the      *)
(* worker processes that claim, execute, complete and publish them         *)
(* (service/worker.py, service/observed_orchestrator.py), all sharing one  *)
(* RunStore.                                                               *)
(*                                                                         *)
(* A handler is two steps: it reads the row and the workspace registry and *)
(* checks them, and only then runs one store transaction; whatever it read *)
(* may have changed in between.  A worker is a program counter with one    *)
(* step per store transaction or external call; it can be killed before    *)
(* each of them, and several may run at once, because nothing in the code  *)
(* prevents it.                                                            *)
(***************************************************************************)
EXTENDS RunStore

CONSTANTS
    Tasks, Tenants, NoTenant,   \* task files, client workspaces, no client_id
    Calls,              \* API requests that can be in flight together
    Workers,            \* worker processes
    Publishers,         \* the configured publishers
    RouteFor(_, _, _),  \* the router: task, agentic, strict -> decision
    ApiBrowserUse,      \* browser_use_worker_enabled and a key, in the API
    WorkerBrowserUse,   \* the values the same settings may have in a worker
    WebhookHttps,       \* whether a worker's webhook URL is https: what it may be
    Once,               \* the worker runs with --once
    AttemptMinutes,     \* how long an attempt is expected to last at most
    Manifests,          \* the contents a workspace manifest may have
    MaxClock, MaxCalls, MaxCrashes, MaxEdits, QuietFrom,    \* bounds
    NoCall, NoReport

Confirmations == [scope : BOOLEAN, route : BOOLEAN]

OutputRows == {"output.delivered", "output.failed"} \X Publishers

(* A workspace is unreadable when it was removed or no longer validates.   *)
Entry == [status : {"active", "paused", "unreadable"}, owner : Actors,
          tasks : SUBSET Tasks, integrations : SUBSET Publishers]

ASSUME ServiceParameters ==
    /\ Publishers \subseteq {"notion", "webhook"}
    /\ WorkerBrowserUse \subseteq BOOLEAN
    /\ WebhookHttps \subseteq BOOLEAN
    /\ Manifests \subseteq Entry
    /\ AttemptMinutes \in Nat
    /\ Requests \subseteq [task : Tasks, tenant : Tenants \cup {NoTenant}]
    /\ NoTenant \notin Tenants
    /\ Details \subseteq Confirmations
    /\ \A task \in Tasks, agentic, strict \in BOOLEAN :
            RouteFor(task, agentic, strict) \in Decisions
    /\ ({"runtime.dispatched", "metrics.recorded"} \X Routes)
            \cup OutputRows \subseteq CallerRows

VARIABLES
    registry,   \* the workspace manifests on disk
    calls,      \* what each API request in flight has read and checked
    work,       \* the worker processes
    report,     \* result_json: what the worker measured, beside its status
    sent,       \* how often each publisher was called for a run
    opened,     \* history: the sets of publishers a run's follow-ups opened
    spent       \* bounds: calls begun, workers killed, manifests edited;
                \* and whether an attempt has outlasted AttemptMinutes

serviceVars == <<registry, calls, work, report, sent, opened, spent>>
vars == <<storeVars, serviceVars>>

Report == [attempts : Nat, requeues : Nat, route : Routes]

Asleep == [pc |-> "down", run |-> NoRun, route |-> "blocked", since |-> 0,
           attempts |-> 0, requeues |-> 0, enabled |-> FALSE, https |-> TRUE,
           outcome |-> NoResult, todo |-> {}, delivered |-> FALSE]

(* From the claim to the report a worker is executing an attempt.          *)
Executing == {"claimed", "loading", "dispatching", "browsing", "reporting",
              "failing"}
Following == {"measuring", "opening", "publishing", "auditing"}

ServiceInit ==
    /\ StoreInit
    /\ registry \in [Tenants -> {e \in Manifests : e.status = "active"
                                                   /\ e.tasks = Tasks}]
    /\ calls = [c \in Calls |-> NoCall]
    /\ work = [w \in Workers |-> Asleep]
    /\ report = [r \in RunIds |-> NoReport]
    /\ sent = [r \in RunIds |-> [p \in Publishers |-> 0]]
    /\ opened = [r \in RunIds |-> {}]
    /\ spent = [calls |-> 0, crashes |-> 0, edits |-> 0, overrun |-> FALSE]

-----------------------------------------------------------------------------
(* The workspace registry, edited by operators while the service runs *)

(* Bound: near the end of the clock no call begins or takes effect, no     *)
(* manifest is edited and no worker is stopped or killed any more, so that *)
(* what is left can come to its end.                                       *)
Quiet == clock >= QuietFrom

(* _validate_record_workspace: active, and the task still enabled.         *)
InService(request) ==
    request.tenant # NoTenant =>
        /\ registry[request.tenant].status = "active"
        /\ request.task \in registry[request.tenant].tasks

(* The actor of a client run must be the owner of its active workspace.    *)
OwnedBy(request, actor) ==
    request.tenant # NoTenant =>
        /\ registry[request.tenant].status = "active"
        /\ registry[request.tenant].owner = actor

EditRegistry(t) ==
    /\ spent.edits < MaxEdits /\ ~Quiet
    /\ \E e \in Manifests \ {registry[t]} :
            registry' = [registry EXCEPT ![t] = e]
    /\ spent' = [spent EXCEPT !.edits = @ + 1]
    /\ UNCHANGED <<storeVars, calls, work, report, sent, opened>>

-----------------------------------------------------------------------------
(* API handlers: first what they read and check, then their transaction *)

Begin(c, call) ==
    /\ calls[c] = NoCall
    /\ spent.calls < MaxCalls /\ ~Quiet
    /\ calls' = [calls EXCEPT ![c] = call]
    /\ spent' = [spent EXCEPT !.calls = @ + 1]
    /\ UNCHANGED <<storeVars, registry, work, report, sent, opened>>

End(c) ==
    /\ calls' = [calls EXCEPT ![c] = NoCall]
    /\ UNCHANGED <<registry, work, report, sent, opened, spent>>

Pending(c, op) == calls[c] # NoCall /\ calls[c].op = op

(* A new run is routed without agentic navigation, whatever comes later.   *)
BeginCreate(c, key, request) ==
    /\ InService(request)
    /\ Begin(c, [op |-> "create", key |-> key, request |-> request,
                 decision |-> RouteFor(request.task, FALSE, FALSE)])

FinishCreate(c) ==
    /\ Pending(c, "create") /\ ~Quiet
    /\ \E r \in RunIds, now \in Stamps :
            CreateRun(r, calls[c].key, calls[c].request, calls[c].decision, now)
    /\ End(c)

BeginRoute(c, r, actor, agentic, strict) ==
    /\ Exists(r)
    /\ OwnedBy(runs[r].request, actor)
    /\ InService(runs[r].request)
    /\ LET decision == RouteFor(runs[r].request.task, agentic, strict)
       IN  /\ decision.route = "browser-use" => ApiBrowserUse
           /\ Begin(c, [op |-> "route", run |-> r, decision |-> decision])

FinishRoute(c) ==
    /\ Pending(c, "route") /\ ~Quiet
    /\ \E now \in Stamps : SetRoutingDecision(calls[c].run, calls[c].decision, now)
    /\ End(c)

(* Mutant: the route confirmation is not asked for.                        *)
BeginApproveUnreviewed(c, r, kind, approval) ==
    /\ Exists(r)
    /\ OwnedBy(runs[r].request, approval.actor)
    /\ kind = "blueprint" /\ approval.decision = "approved" =>
          /\ approval.details.scope
          /\ runs[r].decision.route = "browser-use" => ApiBrowserUse
    /\ Begin(c, [op |-> "approve", run |-> r, kind |-> kind,
                 approval |-> approval])

(* Which confirmations are required depends on the route read here.        *)
BeginApprove(c, r, kind, approval) ==
    /\ Exists(r)
    /\ OwnedBy(runs[r].request, approval.actor)
    /\ kind = "blueprint" /\ approval.decision = "approved" =>
          /\ approval.details.scope
          /\ runs[r].decision.route = "browser-use" =>
                approval.details.route /\ ApiBrowserUse
    /\ Begin(c, [op |-> "approve", run |-> r, kind |-> kind,
                 approval |-> approval])

FinishApprove(c) ==
    /\ Pending(c, "approve") /\ ~Quiet
    /\ \E now \in Stamps :
            RecordApproval(calls[c].run, calls[c].kind, calls[c].approval, now)
    /\ End(c)

(* The transaction refuses or finds nothing to change, or the API process  *)
(* goes down before it.                                                    *)
FinishWithoutEffect(c) ==
    /\ calls[c] # NoCall
    /\ UNCHANGED storeVars
    /\ End(c)

-----------------------------------------------------------------------------
(* Worker processes *)

At(w, pc) == work[w].pc = pc

Own(w) == work[w].run

GoTo(w, pc) ==
    /\ work' = [work EXCEPT ![w].pc = pc]
    /\ UNCHANGED <<registry, calls, report, sent, opened, spent>>

Exit(w) ==
    /\ work' = [work EXCEPT ![w] = Asleep]
    /\ UNCHANGED <<registry, calls, report, sent, opened, spent>>

(* The poll loop goes on, unless the worker runs with --once.              *)
Poll(w) ==
    /\ work' = [work EXCEPT ![w] =
            IF Once THEN Asleep
            ELSE [Asleep EXCEPT !.pc = "idle", !.enabled = work[w].enabled,
                                !.https = work[w].https]]
    /\ UNCHANGED <<registry, calls, report, sent, opened, spent>>

StartWorker(w) ==
    /\ At(w, "down")
    /\ \E enabled \in WorkerBrowserUse, https \in WebhookHttps :
            work' = [work EXCEPT ![w].pc = "starting", ![w].enabled = enabled,
                                 ![w].https = https]
    /\ UNCHANGED <<storeVars, registry, calls, report, sent, opened, spent>>

(* Mutant: the worker starts without looking for stale runs.               *)
StartWithoutRequeue(w) ==
    /\ At(w, "starting")
    /\ UNCHANGED storeVars
    /\ GoTo(w, "idle")

(* worker_loop requeues stale runs once, before its first claim.           *)
StartupRequeue(w) ==
    /\ At(w, "starting")
    /\ \E now \in Stamps : RequeueStaleRuns(now)
    /\ GoTo(w, "idle")

Claim(w) ==
    /\ At(w, "idle")
    /\ \E r \in RunIds, now \in Stamps :
        /\ ClaimNextRun(r, now)
        /\ work' = [work EXCEPT ![w] =
                [@ EXCEPT !.pc = "claimed", !.run = r, !.since = clock,
                          !.route = runs[r].decision.route]]
    /\ UNCHANGED <<registry, calls, report, sent, opened, spent>>

FindNothing(w) ==
    /\ At(w, "idle") /\ Once
    /\ \A r \in RunIds : ~Claimable(r)
    /\ UNCHANGED storeVars
    /\ Exit(w)

(* SIGTERM is only looked at between two runs.                             *)
StopWorker(w) ==
    /\ At(w, "idle")
    /\ ~Quiet
    /\ UNCHANGED storeVars
    /\ Exit(w)

(* Mutant: retries are counted instead of attempts.                        *)
ReadRetries(w) ==
    /\ At(w, "claimed")
    /\ work' = [work EXCEPT ![w] =
            [@ EXCEPT !.pc = "loading",
                      !.attempts = Count(Own(w), "run.started", work[w].route) - 1,
                      !.requeues = Count(Own(w), "run.requeued-after-stale-lease",
                                         NoTag) - 1]]
    /\ UNCHANGED <<storeVars, registry, calls, report, sent, opened, spent>>

ReadCounters(w) ==
    /\ At(w, "claimed")
    /\ work' = [work EXCEPT ![w] =
            [@ EXCEPT !.pc = "loading",
                      !.attempts = Count(Own(w), "run.started", work[w].route),
                      !.requeues = Count(Own(w), "run.requeued-after-stale-lease",
                                         NoTag)]]
    /\ UNCHANGED <<storeVars, registry, calls, report, sent, opened, spent>>

LoadTask(w) ==
    /\ At(w, "loading")
    /\ InService(runs[Own(w)].request)
    /\ UNCHANGED storeVars
    /\ GoTo(w, "dispatching")

(* The workspace no longer allows the run, or its files no longer validate.*)
LoadFails(w) ==
    /\ At(w, "loading")
    /\ UNCHANGED storeVars
    /\ GoTo(w, "failing")

(* The event is appended before the settings of the worker are looked at.  *)
Dispatch(w) ==
    /\ At(w, "dispatching")
    /\ AppendEvent(Own(w), <<"runtime.dispatched", work[w].route>>)
    /\ GoTo(w, IF work[w].route = "browser-use" /\ ~work[w].enabled
               THEN "failing" ELSE "browsing")

(* The runtime returns a report with a status ...                          *)
Browse(w, outcome) ==
    /\ At(w, "browsing")
    /\ work' = [work EXCEPT ![w].pc = "reporting", ![w].outcome = outcome]
    /\ UNCHANGED <<storeVars, registry, calls, report, sent, opened, spent>>

(* ... or raises.                                                          *)
BrowseFails(w) ==
    /\ At(w, "browsing")
    /\ UNCHANGED storeVars
    /\ GoTo(w, "failing")

(* complete_run and the rest of result_json go in one transaction.         *)
Land(w, outcome) ==
    /\ \E now \in Stamps : CompleteRun(Own(w), outcome, outcome # "failed", now)
    /\ report' = [report EXCEPT ![Own(w)] =
            [attempts |-> work[w].attempts, requeues |-> work[w].requeues,
             route |-> work[w].route]]
    /\ work' = [work EXCEPT ![w].pc = "measuring"]
    /\ UNCHANGED <<registry, calls, sent, opened, spent>>

LandReport(w) == At(w, "reporting") /\ Land(w, work[w].outcome)

(* complete_run raised: the handler tries again with a failed result.      *)
ReportRefused(w) ==
    /\ At(w, "reporting")
    /\ ~Has(Own(w), {"running"})
    /\ UNCHANGED storeVars
    /\ GoTo(w, "failing")

LandFailure(w) == At(w, "failing") /\ Land(w, "failed")

(* That second complete_run is not guarded: its exception ends the process.*)
FailureRefused(w) ==
    /\ At(w, "failing")
    /\ ~Has(Own(w), {"running"})
    /\ UNCHANGED storeVars
    /\ Exit(w)

RecordMetrics(w) ==
    /\ At(w, "measuring")
    /\ AppendEvent(Own(w), <<"metrics.recorded", work[w].route>>)
    /\ GoTo(w, "opening")

(* The publishers a run is allowed; the registry is read again for them.   *)
Outputs(request) ==
    {p \in Publishers : request.tenant = NoTenant
                           \/ p \in registry[request.tenant].integrations}

(* Notion is published to before the webhook.                              *)
FirstOf(outputs) == IF "notion" \in outputs THEN "notion" ELSE "webhook"

(* get_workspace returns, and so does every publisher's constructor: that  *)
(* of the webhook refuses a URL without TLS.                               *)
CanOpen(w) ==
    LET request == runs[Own(w)].request
    IN  /\ request.tenant # NoTenant =>
              registry[request.tenant].status # "unreadable"
        /\ "webhook" \in Outputs(request) => work[w].https

OpenOutputs(w) ==
    LET outputs == Outputs(runs[Own(w)].request)
    IN  /\ At(w, "opening") /\ CanOpen(w)
        /\ work' = [work EXCEPT ![w].pc = "publishing", ![w].todo = outputs]
        /\ opened' = [opened EXCEPT ![Own(w)] = @ \cup {outputs}]
        /\ UNCHANGED <<storeVars, registry, calls, report, sent, spent>>

(* Neither is guarded by a handler: whatever raises ends the process.      *)
OutputsLost(w) ==
    /\ At(w, "opening") /\ ~CanOpen(w)
    /\ UNCHANGED storeVars
    /\ Exit(w)

SendOutput(w, delivered) ==
    /\ At(w, "publishing") /\ work[w].todo # {}
    /\ sent' = [sent EXCEPT ![Own(w)][FirstOf(work[w].todo)] = @ + 1]
    /\ work' = [work EXCEPT ![w].pc = "auditing", ![w].delivered = delivered]
    /\ UNCHANGED <<storeVars, registry, calls, report, opened, spent>>

(* Mutant: a failed delivery leaves no event.                              *)
AuditDeliveries(w) ==
    /\ At(w, "auditing")
    /\ IF work[w].delivered
       THEN AppendEvent(Own(w), <<"output.delivered", FirstOf(work[w].todo)>>)
       ELSE UNCHANGED storeVars
    /\ work' = [work EXCEPT ![w].pc = "publishing",
                            ![w].todo = @ \ {FirstOf(@)}]
    /\ UNCHANGED <<registry, calls, report, sent, opened, spent>>

AuditOutput(w) ==
    /\ At(w, "auditing")
    /\ AppendEvent(Own(w), <<IF work[w].delivered THEN "output.delivered"
                             ELSE "output.failed", FirstOf(work[w].todo)>>)
    /\ work' = [work EXCEPT ![w].pc = "publishing",
                            ![w].todo = @ \ {FirstOf(@)}]
    /\ UNCHANGED <<registry, calls, report, sent, opened, spent>>

FinishRun(w) ==
    /\ At(w, "publishing") /\ work[w].todo = {}
    /\ UNCHANGED storeVars
    /\ Poll(w)

(* The process is killed; what it had in memory is gone.                   *)
Crash(w) ==
    /\ ~At(w, "down")
    /\ spent.crashes < MaxCrashes /\ ~Quiet
    /\ work' = [work EXCEPT ![w] = Asleep]
    /\ spent' = [spent EXCEPT !.crashes = @ + 1]
    /\ UNCHANGED <<storeVars, registry, calls, report, sent, opened>>

(* Time passes, and an attempt may outlast what was expected of it.        *)
TimePasses ==
    /\ clock < MaxClock
    /\ Tick
    /\ spent' = [spent EXCEPT !.overrun =
            @ \/ \E w \in Workers : /\ work[w].pc \in Executing
                                   /\ clock - work[w].since >= AttemptMinutes]
    /\ UNCHANGED <<registry, calls, work, report, sent, opened>>

-----------------------------------------------------------------------------

ApiStep ==
    \E c \in Calls :
        \/ \E key \in Keys, request \in Requests : BeginCreate(c, key, request)
        \/ FinishCreate(c)
        \/ \E r \in RunIds, actor \in Actors, agentic, strict \in BOOLEAN :
                BeginRoute(c, r, actor, agentic, strict)
        \/ FinishRoute(c)
        \/ \E r \in RunIds, kind \in Kinds, approval \in Approval :
                BeginApprove(c, r, kind, approval)
        \/ FinishApprove(c)
        \/ FinishWithoutEffect(c)

WorkerStep(w) ==
    \/ StartupRequeue(w) \/ Claim(w) \/ FindNothing(w)
    \/ ReadCounters(w) \/ LoadTask(w) \/ LoadFails(w) \/ Dispatch(w)
    \/ \E outcome \in ResultStatuses : Browse(w, outcome)
    \/ BrowseFails(w)
    \/ LandReport(w) \/ ReportRefused(w) \/ LandFailure(w) \/ FailureRefused(w)
    \/ RecordMetrics(w) \/ OpenOutputs(w) \/ OutputsLost(w)
    \/ \E delivered \in BOOLEAN : SendOutput(w, delivered)
    \/ AuditOutput(w) \/ FinishRun(w)

ServiceNext ==
    \/ ApiStep
    \/ \E w \in Workers : WorkerStep(w) \/ StartWorker(w) \/ StopWorker(w)
                          \/ Crash(w)
    \/ \E t \in Tenants : EditRegistry(t)
    \/ TimePasses

ServiceSpec == ServiceInit /\ [][ServiceNext]_vars

(* A worker process that is up keeps going, a worker that is down is       *)
(* started again (compose restarts it), and time passes.  Nothing is       *)
(* assumed of the callers of the API, the operators or the signals.        *)
Fairness ==
    /\ \A w \in Workers : WF_vars(WorkerStep(w)) /\ WF_vars(StartWorker(w))
    /\ WF_vars(TimePasses)

FairSpec == ServiceSpec /\ Fairness

-----------------------------------------------------------------------------
(* Properties *)

Call ==
    [op : {"create"}, key : Keys, request : Requests, decision : Decisions]
        \cup [op : {"route"}, run : RunIds, decision : Decisions]
        \cup [op : {"approve"}, run : RunIds, kind : Kinds, approval : Approval]

Work == [pc : {"down", "starting", "idle"} \cup Executing \cup Following,
         run : RunIds \cup {NoRun}, route : Routes, since : Nat,
         attempts : Nat, requeues : Nat, enabled : BOOLEAN, https : BOOLEAN,
         outcome : ResultStatuses \cup {NoResult},
         todo : SUBSET Publishers, delivered : BOOLEAN]

Spent == [calls : Nat, crashes : Nat, edits : Nat, overrun : BOOLEAN]

(* Type invariant.                                                         *)
ServiceTypeOK ==
    /\ StoreTypeOK
    /\ registry \in [Tenants -> Entry]
    /\ calls \in [Calls -> Call \cup {NoCall}]
    /\ work \in [Workers -> Work]
    /\ report \in [RunIds -> Report \cup {NoReport}]
    /\ sent \in [RunIds -> [Publishers -> Nat]]
    /\ opened \in [RunIds -> SUBSET SUBSET Publishers]
    /\ spent \in Spent

(* However many workers overlap, and whatever the API is asked meanwhile,  *)
(* a worker only ever executes, measures and publishes a run that has an   *)
(* approved blueprint, on the very route that approval locked; the route   *)
(* it took into memory at the claim is never out of date (execute_next).   *)
WorkersRunTheLockedRoute ==
    \A w \in Workers : work[w].pc \in Executing \cup Following =>
        /\ IsLocked(Own(w))
        /\ approvals[Own(w)]["blueprint"] # NoApproval
        /\ approvals[Own(w)]["blueprint"].decision = "approved"
        /\ work[w].route = runs[Own(w)].decision.route

(* What follows the end of a run happens at most once per run, even when   *)
(* the run was executed twice, requeued or reported late: one metrics      *)
(* event, one call of each publisher, and only after the run has ended.    *)
FollowUpAtMostOnce ==
    \A r \in RunIds :
        LET metrics == {q \in Routes : Count(r, "metrics.recorded", q) > 0}
            outputs == {p \in Publishers : sent[r][p] > 0}
        IN  /\ \A q \in metrics : Count(r, "metrics.recorded", q) = 1
            /\ Cardinality(metrics) <= 1
            /\ \A p \in outputs : sent[r][p] = 1
            /\ metrics \cup outputs # {} => Has(r, Terminal)
            /\ outputs # {} => metrics # {}

(* Two workers never execute the same run at the same time, unless some    *)
(* attempt has lasted longer than AttemptMinutes.  It takes a stale        *)
(* interval of at least AttemptMinutes plus the lag of the clock reads,    *)
(* which is what the deployment guide asks of the operator.                *)
ExclusiveExecution ==
    \A v, w \in Workers :
        /\ v # w /\ ~spent.overrun
        /\ work[v].pc \in Executing
        /\ work[w].pc \in Executing
        => Own(v) # Own(w)

(* Under the same condition no report is ever refused: a worker that comes *)
(* to report finds its run still running, so complete_run does not raise   *)
(* and the process does not die of it.                                     *)
ReportsLand ==
    \A w \in Workers :
        work[w].pc \in Executing /\ ~spent.overrun => Has(Own(w), {"running"})

(* Under the same condition the persisted worker_attempt_count counts the  *)
(* durable claims of the run and stale_requeue_count its stale-lease       *)
(* recoveries (V0_6_3 metrics), though they were read long before.         *)
ReportCountsClaims ==
    \A r \in RunIds : Has(r, Terminal) /\ ~spent.overrun =>
        /\ report[r].route = runs[r].decision.route
        /\ report[r].attempts = Count(r, "run.started", runs[r].decision.route)
        /\ report[r].requeues =
              Count(r, "run.requeued-after-stale-lease", NoTag)

(* Every run that is approved on the Browser Use route was approved with   *)
(* the confirmation that this route was reviewed (ADR 0005).               *)
BrowserUseIsReviewed ==
    \A r \in RunIds :
        IsLocked(r) /\ runs[r].decision.route = "browser-use" =>
            approvals[r]["blueprint"].details.route

(* The run has ended, and the worker that ended it has moved on without    *)
(* being killed.                                                           *)
Released(r) ==
    /\ Has(r, Terminal)
    /\ spent.crashes = 0
    /\ \A w \in Workers : Own(w) # r

OutputEvents(r, p) ==
    Count(r, "output.delivered", p) + Count(r, "output.failed", p)

(* The calls and events a publisher owes a run: one of each if a follow-up *)
(* of the run opened it, however the others fared, and none otherwise.     *)
OutputsOf(r) == UNION opened[r]

PublishedAsOpened(r) ==
    \A p \in Publishers :
        LET owed == IF p \in OutputsOf(r) THEN 1 ELSE 0
        IN  sent[r][p] = owed /\ OutputEvents(r, p) = owed

(* All of a run's publishers or none: once a run is released, each one its *)
(* follow-up opened was called exactly once and has left exactly one       *)
(* event, delivered or failed, whichever of the others failed, whatever    *)
(* became of the workspace meanwhile, and however often the run was        *)
(* executed; and no other publisher was called or has an event.            *)
OutputsAreAudited == \A r \in RunIds : Released(r) => PublishedAsOpened(r)

(* Output delivery failures are audit events (HOSTINGER_DEPLOYMENT.md): a  *)
(* released run has an event of every publisher it was allowed, so its     *)
(* publishers were opened.                                                 *)
EveryEndIsPublished ==
    \A r \in RunIds :
        Released(r) => /\ opened[r] # {}
                       /\ \A p \in OutputsOf(r) : OutputEvents(r, p) = 1

(* An approved run is eventually executed to an end.                       *)
QueuedRunsEnd ==
    \A r \in RunIds : Has(r, {"queued"}) ~> Has(r, Terminal)

(* The pilot recovers cleanly after a restart: a run whose worker died is  *)
(* eventually executed to an end.                                          *)
RunningRunsEnd ==
    \A r \in RunIds : Has(r, {"running"}) ~> Has(r, Terminal)

-----------------------------------------------------------------------------
(* The inductive strengthenings of the invariants above *)

(* An attempt keeps its lease: its run is running, last written no earlier *)
(* than the claim may have been stamped, and not longer than expected ago; *)
(* and what the worker read of the log since still stands.                 *)
KeepsLease(w) ==
    work[w].pc \in Executing =>
        /\ Has(Own(w), {"running"})
        /\ work[w].since <= clock
        /\ clock - work[w].since <= AttemptMinutes
        /\ work[w].since - MaxLag <= runs[Own(w)].updated
        /\ work[w].pc # "claimed" =>
              /\ work[w].attempts = Count(Own(w), "run.started", work[w].route)
              /\ work[w].requeues =
                    Count(Own(w), "run.requeued-after-stale-lease", NoTag)

LeaseInv ==
    ~spent.overrun => /\ \A w \in Workers : KeepsLease(w)
                      /\ ExclusiveExecution
                      /\ ReportCountsClaims

(* The publishers that a worker has called for the run it ended, and those *)
(* whose event it has left.                                                *)
Follows(w, r) == work[w].pc \in Following /\ Own(w) = r

Audited(w) ==
    IF work[w].pc \in {"measuring", "opening"} THEN {}
    ELSE OutputsOf(Own(w)) \ work[w].todo

Called(w) ==
    IF work[w].pc = "auditing" THEN Audited(w) \cup {FirstOf(work[w].todo)}
    ELSE Audited(w)

(* A run that has not ended was never followed up; one that has was at     *)
(* most once, on its own route, the metrics before the publishers.         *)
FollowedUpOnce(r) ==
    /\ \A q \in Routes :
          Count(r, "metrics.recorded", q) # 0 =>
              /\ Count(r, "metrics.recorded", q) = 1
              /\ Has(r, Terminal) /\ q = runs[r].decision.route
    /\ \A p \in Publishers :
          /\ sent[r][p] # 0 =>
                /\ sent[r][p] = 1
                /\ Has(r, Terminal)
                /\ Count(r, "metrics.recorded", runs[r].decision.route) = 1
          /\ ~Has(r, Terminal) => OutputEvents(r, p) = 0
    /\ ~Has(r, Terminal) => opened[r] = {}

(* Whoever follows up a run is alone with it ...                           *)
FollowsAlone(w) ==
    \A v \in Workers : work[w].pc \in Following /\ Follows(v, Own(w)) => v = w

(* ... and has come exactly as far as the log and the publishers show.     *)
AsFarAsShown(w) ==
    work[w].pc \in Following =>
        LET r == Own(w)
        IN  /\ Has(r, Terminal)
            /\ Count(r, "metrics.recorded", work[w].route)
                  = IF work[w].pc = "measuring" THEN 0 ELSE 1
            /\ IF work[w].pc \in {"measuring", "opening"}
               THEN opened[r] = {}
               ELSE opened[r] # {} /\ work[w].todo \subseteq OutputsOf(r)
            /\ \A p \in Publishers :
                  /\ sent[r][p] = IF p \in Called(w) THEN 1 ELSE 0
                  /\ OutputEvents(r, p) = IF p \in Audited(w) THEN 1 ELSE 0

FollowInv ==
    /\ \A r \in RunIds : FollowedUpOnce(r)
    /\ \A w \in Workers : FollowsAlone(w) /\ AsFarAsShown(w)

(* As long as no worker is killed, a run that has ended is being followed  *)
(* up or has been: in full, or not at all.                                 *)
LeftAlone(r) ==
    /\ Has(r, Terminal) /\ spent.crashes = 0
    /\ \A w \in Workers : ~Follows(w, r)

AuditInv == \A r \in RunIds : LeftAlone(r) => PublishedAsOpened(r)

(* And not at all only if a workspace has become unreadable, or a worker   *)
(* has a webhook URL without TLS.                                          *)
OutputsOpen ==
    /\ \A t \in Tenants : registry[t].status # "unreadable"
    /\ "webhook" \in Publishers => \A w \in Workers : work[w].https

PublishInv == \A r \in RunIds : LeftAlone(r) => opened[r] # {}

(* As long as no routing call for a run is in flight beside an approval of *)
(* it, what the approval checked is still so when it is recorded.          *)
RoutingWaits ==
    \A c, d \in Calls :
        Pending(c, "approve") /\ Pending(d, "route") =>
            calls[c].run # calls[d].run

ReviewInv ==
    /\ BrowserUseIsReviewed
    /\ \A c \in Calls : Pending(c, "approve") =>
          LET r == calls[c].run
              approval == calls[c].approval
          IN  /\ Exists(r)
              /\ /\ calls[c].kind = "blueprint"
                 /\ approval.decision = "approved"
                 /\ runs[r].decision.route = "browser-use"
                 => approval.details.route

=============================================================================

# A verification project for universal-browser-agent

TLA+ models, TLC runs and TLAPS proofs of the durable browser-agent service in
this repository. Paths below are relative to the repository; `uba/` stands for
`src/universal_browser_agent/`.

1. [The system](#1-the-system)
2. [Modules, and how they correspond to the code](#2-modules-and-how-they-correspond-to-the-code)
3. [Runs, bounds and fairness](#3-runs-bounds-and-fairness)
4. [What is proved](#4-what-is-proved)
5. [Disagreements found](#5-disagreements-found)
6. [What is only model-checked, what is assumed, what is left out](#6-what-is-only-model-checked-what-is-assumed-what-is-left-out)
7. [Plan](#7-plan)
8. [Running it](#8-running-it)

## 1. The system

Clients ask an HTTP API for *runs* of read-only browser tasks. A run is created
under an Idempotency-Key, routed to one of two browser runtimes, approved by
the owner of its workspace, claimed by a worker process, executed, and its
result published. API and workers are separate processes (`compose.yml`) that
share one SQLite database and the files of the workspaces.

    caller ── API handler ──┐                        ┌── Playwright runtime ── network policy
                            ├── run store (SQLite) ──┤
    operator ─ workspaces ──┘      worker ───────────┴── Browser Use adapter
                                     └── publishers (Notion, webhook)

### Inventory

| Component | State | Operations | Hard behaviour | What makes it correct |
|---|---|---|---|---|
| run store `uba/service/store.py` | tables `runs`, `approvals`, `events` | create, route, approve, claim, requeue stale, complete, append event: each one `BEGIN IMMEDIATE` transaction | any number of processes; the clock is read before the wait for the write lock; retried and late calls | a key binds one request; nothing runs without an approved blueprint; a locked route never changes; the log accounts for every attempt; ended runs stay ended |
| store migration `_initialize` in `uba/service/store.py` | the columns of `runs`, rows written by older releases | create, test for columns, add them, back-fill routes and locks, index: one autocommitted statement each | the API and the worker open one database at once; one serves while the other migrates; killed between two statements | whoever serves, serves complete rows; old approvals and new decisions survive; every process gets through |
| API handlers `uba/service/api.py`, `orchestrator.py` | none between calls | create, route, approve: read and check, then one transaction | what was checked may have changed before the transaction | confirmations match the route that is locked |
| worker `uba/service/worker.py`, `observed_orchestrator.py` | the run in hand, its counters, whether it may use Browser Use | requeue once at start, then claim, count, load, dispatch, browse, complete, measure, publish | killed between any two steps; overlapping workers; a run outlasting the stale interval; a report refused; publishers that cannot be opened once the run has ended | follow-up at most once; publishers opened all or none, one event each; workers run the locked route; runs end |
| workspace registry `uba/workspaces.py` | manifest files | look-ups; edited by operators at any time | stale look-ups; a manifest removed or made invalid under a running run | each step sees the present manifest |
| runtime router and planner `uba/agent/router.py`, `planning.py` | none | `decide`, `plan` | six signals; modes and formats repeated from file to file | demands never widen the route; planner, router and runtimes agree |
| Playwright runtime `uba/playwright_runtime.py`, `reporting.py` | report, duplicates, attempt, deadline | set up, visit, retry, extract, tear down | failures on top of failures; the deadline between attempts | no page is lost, the status is honest, visits are budgeted |
| network policy `uba/policy.py` and the request handler | DNS cache, list of blocked requests | check, resolve, fetch, follow | concurrent handlers over one cache | pages see only vetted responses |
| Browser Use adapter `uba/adapters/browser_use_readonly.py`, `browser_use_observed.py` | visited URLs, summary | contract, step callback, verification | an agent library outside our control | fails closed; clean evidence |
| credential broker `uba/secret_broker.py` | audit log, temporary files | launch an adapter with a file of references | appends, launches and removals that fail, interrupts on top of each other, kills | launches and outcomes are audited; files are removed unless something prevented it, and then the caller is told |
| runtime metrics `uba/service/metrics*.py` | `result_json.runtime_metrics` | build from a result or an exception; list and aggregate a window | empty windows, runs without metrics, rounding, texts with several meanings, costs nobody reported | metrics match the evidence of the attempt; aggregates agree with their definition |
| planner evaluations `uba/evals.py` | results so far | case by case: ask a provider, plan, score; report or abort | a provider that is silent, shouts or fails, over a planner that has defaults | a passed report holds the safety gate |
| output adapters `uba/adapters/notion.py`, `webhook.py`, `http.py` | none | construct, deliver | a constructor that refuses its settings; delivery fails | one event per publisher that was opened |
| the rest | | OpenRouter selector proposals, Notion read-only connector, command lines, schema validation, settings, the legacy runner under `src/adapters/` | | not modelled, see section 6 |

Interactions: the API and the workers meet only in the store and in the
workspace files. The orchestrator calls the router on every create and routing
call. The worker calls one of the runtimes in process and the publishers after
it. The Playwright runtime installs the network policy as callback of every
browser request; the Browser Use adapter gives the agent library a callback for
every step, and the observed adapter and the worker turn what is left of its
history into metrics, which an API endpoint aggregates. API and workers migrate
the database when they start. The planner evaluation drives the same policy
planner as the API. The broker is a command of its own.

`PROJECT.json` lists, under `hazards`, the places where these parts are hard to
test, with the properties aimed at each.

## 2. Modules, and how they correspond to the code

| Module | Models |
|---|---|
| `RunLifecycle` | abstract specification: what the store promises about the job of a key |
| `RunStore` | class `RunStore`, one action per transaction, any caller |
| `StoreMigration` | `RunStore._initialize`, one action per statement, several processes |
| `RunService` | extends `RunStore`: API handlers, workers, workspace registry, publishers |
| `RoutingPolicy` | the decision procedures of router, planner, task model, task loader and adapter, as operators |
| `RuntimeRouter` | the router asked again and again |
| `PlannerEvaluation` | extends `RuntimeRouter`: evaluations that run beside it over the same planner |
| `PlaywrightRuntime` | one run of the deterministic runtime |
| `RequestGate` | its request handlers over the shared policy |
| `BrowserUseRuntime` | one run of the agentic runtime |
| `RuntimeMetrics` | metrics of an attempt and their aggregation, as operators |
| `ObservedRuntime` | extends `BrowserUseRuntime` with the measurement of the attempt |
| `SecretBroker` | concurrent invocations of the broker |
| `RunStoreProofs`, `StoreMigrationProofs`, `RunServiceProofs`, `RuntimeRouterProofs`, `PlaywrightRuntimeProofs`, `RequestGateProofs`, `ObservedRuntimeProofs`, `SecretBrokerProofs` | the proofs about the module of that name; `RuntimeRouterProofs` covers `PlannerEvaluation` too, `ObservedRuntimeProofs` also `BrowserUseRuntime` and `RuntimeMetrics` |
| `MC*` | constants, symmetry and bounds for TLC |

`PROJECT.json` (`map`) names the source lines of every definition.

**RunStore.** `runs` is the table of the same name: a row or `NoRun` per
identifier. `approvals` is the table with its primary key (run, kind). `log`
counts the rows of the events table by type and by the one payload field that
matters (the route or the approval kind): order within a run is not needed by
any property, multiplicity is. `replies` remembers what `create_run` returned to
callers and has no counterpart in the code; it is what the promise of the
Idempotency-Key is about. Each method is one action, because each is one
immediate transaction. `Stamps` is the set of times `utc_now()` may have
returned: it is called before the transaction waits for the lock, up to
`MaxLag` earlier. A transaction that raises changes nothing, and is a step
that does not happen. `create_run` is two disjuncts, a new row or the existing
row under the key. `record_approval` is split by kind and verdict.

**StoreMigration.** The connection is opened with `isolation_level=None`, so each
statement of `_initialize` commits on its own and is an action: `CreateTable`
(the script), `ReadColumns` (the one `PRAGMA table_info`, copied to `missing[p]`),
`AddColumn` or `DuplicateColumn` for each column tested for, in the code's order,
`BackfillRoutes`, `BackfillLocks`, `CreateIndex`. `DuplicateColumn` is the
`ALTER TABLE` that fails because another process has added the column since the
copy was made: the exception leaves the constructor, the process dies and the
supervisor starts it again. `Serve` is what the methods of `RunStore` do to the
three columns that the back-fill reads or writes; `legacy` remembers what the
older release left. The script creates its tables
`IF NOT EXISTS`; only `runs` is kept, so it is one step.

**RunService.** `calls[c]` is an API request between its checks and its
transaction: `BeginCreate`, `BeginRoute` and `BeginApprove` are the reads and
guards of the orchestrator, `FinishCreate`, `FinishRoute` and `FinishApprove`
the store call, `FinishWithoutEffect` a transaction that refuses or an API
process that goes down. `work[w]` is a worker process, a program counter over
`worker_loop` and `execute_next` with one step per transaction or external
call: `starting` (requeue), `idle` (poll), `claimed` (counters), `loading`,
`dispatching`, `browsing`, `reporting` or `failing` (the exception handler),
`measuring`, `opening` (the registry look-up of `_publish_outputs` and the
constructors of the publishers), `publishing`, `auditing`. An exception that the
code does not catch ends the process (`FailureRefused`, `OutputsLost`); `Crash`
kills it anywhere. `OutputsLost` has two causes, both in `CanOpen`: the workspace
is `unreadable`, which stands for removed and for no longer valid alike since
`get_workspace` raises for either, or the URL of the webhook has no TLS, which the
constructor of its publisher refuses; that loses the other publisher as well. A
worker reads its settings when it starts (`enabled`, `https`), operators edit
manifests at any time (`EditRegistry`). `report[r]` is the part of `result_json`
that the worker measured itself, `sent` counts the calls of each publisher, and
`opened` is a history variable without counterpart in the code: the sets of
publishers that follow-ups of the run have opened. What a runtime does between
`browsing` and its report is left open here, and modelled in its own module.

**RoutingPolicy / RuntimeRouter.** A *context* is what the router looks at. The
capabilities are listed once, in `planning.py`, from which the router imports
them (`router.py:12`). The sets the repository repeats (modes and formats) are
separate definitions here too, one per file, because their agreement is the
property. `IsRuntimeTask` and `IsWorkspaceTask` are what `RuntimeTask.from_dict`
and `load_task` accept. `RuntimeRouter` relates consecutive answers.

**PlannerEvaluation.** `EvaluateCase` is one turn of the loop of
`run_planner_eval`: it asks the provider, plans and scores. The capabilities a
provider names are texts as the provider spells them; the planner folds their
case, and puts a default in place of an empty list. `ProviderFails` is an
exception of a provider, which aborts the evaluation; `Report` compares the rates
with the thresholds.

**PlaywrightRuntime.** A visit is one step with its outcome left open: which
browser call failed does not matter, only whether its exception is one that is
retried. The deadline is a flag that may be raised before any step, since
nothing in the code relates page timeouts to it. Launching, tracing, installing
the policy, closing, stopping the trace and writing the report may each fail.

**RequestGate.** A handler is atomic between two awaits: the resolution of a
host that is not in the cache, and the fetch. The checks the visiting loop makes
of its own URLs use the same cache and are handlers too. `found` remembers what
resolutions have ever found and is only there for the properties.

**BrowserUseRuntime.** The agent library is external and nearly everything
about it is left open: which actions it registers, runs and reports, where the
browser goes, and whether it stops when the step callback raises. What is
assumed of it: it calls the callback for each page it puts in its history, it
never offers an action that is excluded, and it returns a history with at least
one step.

**RuntimeMetrics / ObservedRuntime.** A text (an exception, an error of the
history, the final result) is the set of the words in it that the
classification looks for. `Precedence` is the order of the tests of
`classify_runtime_error`, `Build` is `build_runtime_metrics`, `Summary` is
`RuntimeMetricsReader.summary`. `LeaveAdapter`, `Measure` and `MeasureFailure`
take the attempt of `BrowserUseRuntime` from its return or exception to the
metrics that are stored; `evidence` remembers what the metrics should tell and
`records` are the stored results, the latest first. A challenge is recognised in
two places with two vocabularies: by the adapter in the texts of its history
(`browser_use_observed.py:76-98`) and by `classify_runtime_error` in an exception
(`metrics.py:34-56`), which does not know "access challenge"; the model keeps both.

**SecretBroker.** Each invocation is a program counter over
`OnePasswordSecretBroker.run`; appends fail before or after the line is
written, the launch may fail, the process may be killed anywhere. `Interrupt` is
a Ctrl-C, at any point and as often as the user likes: before the `try` is entered
(`created`, between `mkstemp` and `EnterTry`) nothing is cleaned up, in it the
`finally` clause runs, and in that clause (`cleaning`) a second one ends it.
`RemoveFile` may fail as any call of the operating system may. The history field
`prevented` remembers that one of these kept the file from being removed.

### Mutants

Definitions whose comment begins with *Mutant* (for example
`StaleRunsOneEarly`) stand beside the definition they would replace. No
specification uses them. Each is a small plausible bug, and substituting it for
the definition makes a run fail: this is how we know that each property
depends on the code it is about. The pairs are listed in `PROJECT.json`.

## 3. Runs, bounds and fairness

| Run | Question | Bounds, and why they suffice |
|---|---|---|
| `store` | all invariants and action properties of the store, and `ImplementsLifecycle` | two keys, two requests, two rows: enough for two callers to collide on a key with different requests, and for one requeue to take two runs at once. Clock to 2 with a stale interval of 1, so rows can go stale once; rows are created at time 0, so the order of claims is a tie; at most one audit row that moves no run |
| `service_overlap` | two workers, two publishers, one crash, lagging clock reads | one run, because workers only interact over the same run. Stale interval 2, expected attempt 1, lag 1: exactly `AttemptMinutes + MaxLag`. Clock to 3 lets an attempt outlast the interval and be claimed again, so the double execution and the refused report are reached, as well as the states in which nothing has outlasted. Each worker starts with a webhook URL with TLS or without (`WebhookHttps`), so that opening may fail; one edit, at any time, pauses the workspace and leaves it only Notion (`OutputManifests`), so that what is opened depends on when. At time 3 (`QuietFrom`), when a run stamped at time 0 can be claimed again, calls, edits and signals are over, and what is left is between the two workers |
| `service_api` | API calls one after the other over an edit of the workspace, a worker started again and again with `--once` | one call in flight, three in all: create, route, approve, or a test approval in the place of the route; one edit makes the workspace unreadable or takes its task (`ServiceManifests`). One crash, stale interval 1, clock to 3: a run whose worker was killed at time 0 becomes stale at 2, or at 3 when a test approval at time 1 has renewed its lease, and is taken up again. From time `QuietFrom` = 2 on there are no further crashes, signals, calls and edits, so that liveness is about the worker. No publishers, which `service_overlap` covers, and a worker that may use Browser Use: one that may not fails the run where it is dispatched, as a failing runtime does one step later; the proofs cover both settings |
| `service_two_calls` | (fails) overlapping routing and approval | two calls in flight, three in all |
| `service_lost_output` | (fails) a workspace removed, or no longer valid, under a run | one edit |
| `service_restart` | (fails) polling worker restarted early | one crash |
| `router` | every pair of contexts, and evaluations over the same planner | one known, one consequential and one unknown capability; one format both runtimes write, one only Playwright writes, one nobody writes; a supported and another mode; every combination of the flags. Evaluations of at most two cases (`MaxCases`: one case could not tell a rate from a verdict), answers that are silent, in capitals or of several words, beside the one request in `Beside`: a step of an evaluation leaves the router's variables as they are |
| `migration` | everything about opening a database | the API and a worker; no database, the schema before 0.5 or the one before 0.6.2; two rows in any state an older release can have left; killed twice in all, each anywhere |
| `playwright` | everything about one run | three pages (before, at and after a failure), one retry, two values of the duplicate key |
| `request_gate` | three concurrent handlers | two approved hosts and another, list of two: it overflows, and a request and the location it redirects to can contend with others over one host |
| `browser_use` | one agent run of three steps, then its metrics and a summary | one action each that is required, allowed, excluded and new; two approved hosts and another. Texts with up to two words, three durations, usage known or not; on top of 0, 1 or 27 earlier runs, of which some have no metrics and some no cost: with 27, 20 or more are in the window, where the index of the p95 first differs from the last one; limits 1, 20 and 100 cut the window or not |
| `secret_broker` | two concurrent invocations | one allowed adapter and an unknown one, two failing appends, interrupts and kills anywhere, any removal of a file that fails |

Deadlock is not checked where the system may really stop: runs end, calls are
limited by the bounds, and a database in which every run has ended has nothing
left to do; an evaluation ends with its report. `migration` too has an end: every
process serves, every run has ended and every row exists. Time in the service
stops at `MaxClock`.

### What the properties say

* **`KeyBindsOneRequest`, `RowsKeepTheirContract`, `NoRouteDrift`,
  `OnlyApprovedRunsAreLocked`, `EndedRunsStayEnded`, `AttemptsAreAccounted`**:
  the store's promises under completely free callers. They hold with any number
  of workers that double-execute, report late or retry.
* **`ImplementsLifecycle`**: seen by key, the store is a job board on which a job
  is decided once, started only from the queue, and ended once.
* **`ServedRowsAreComplete`, `OldApprovalsStand`, `LateOpeningKeepsDecisions`**:
  a process that serves never meets a missing column, a row without a routing
  decision, or an approved run without its lock, whoever else is still opening
  the database or died half way; nothing an older release had approved changes
  its route; and a late back-fill never touches a decision made meanwhile.
  The first is why `StoreInv` may be taken to hold initially of a migrated
  database as of a new one.
* **`EveryProcessServes`**: two processes that race for the columns kill each
  other's openings, and yet both serve in the end.
* **`WorkersRunTheLockedRoute`**: what a worker took into memory at the claim is
  true for as long as it works, even when its run was requeued and reclaimed.
* **`FollowUpAtMostOnce`**: metrics event and publishers follow the end of a run
  at most once, with two workers executing it and a crash anywhere.
* **`ExclusiveExecution`, `ReportsLand`, `ReportCountsClaims`**: leases. They are
  stated under the condition that no attempt has outlasted `AttemptMinutes`
  (`spent.overrun`): the deployment guide asks the operator to keep the stale
  interval above the longest task. The run shows that the interval must be at
  least that plus the time `utc_now()` may lag, and that this is tight: with
  an interval one minute shorter (`StaleRunsOneEarly`) a run is executed twice.
* **`OutputsAreAudited`**: unless a worker was killed, every publisher that the
  follow-up of a run opened is called exactly once and leaves exactly one event,
  whichever of the others failed, and no other publisher is called: all of them,
  or none if they could not be opened.
* **`EveryEndIsPublished`**: they are opened at all. The code does not keep this
  (section 5).
* **`BrowserUseIsReviewed`**: as long as calls do not overlap, the confirmation
  is there for every run locked on Browser Use.
* **`QueuedRunsEnd`, `RunningRunsEnd`**: see fairness.
* **`DemandsNeverWidenTheRoute`, `PlannerAgreesWithRouter`,
  `RoutedRequestsAreServed`**: one request compared with another, and one
  component's classification with another's.
* **`LoadedTasksAreRouted`**: a task file that `load_task` accepts for its workspace
  is never blocked by the router, so nothing that is enabled is unreachable.
* **`PassedReportsHoldTheGate`**: no cancelling of errors and no default of the
  planner lets an evaluation pass the full gate with a case planned otherwise
  than labelled; a silent provider never gets a ready plan.
* **`NoPageIsLost`, `StatusIsHonest`, `ItemsAreSound`, `VisitsAreBudgeted`,
  `RunsEnd`**: what the report says against what happened.
* **`PagesSeeOnlyVettedResponses`, `RefusalsAreListed`, `CachedAnswersSettle`**:
  concurrent handlers. Two handlers may resolve one host at once and get
  different answers, so the cached answer may change; it settles once no
  handler is resolving the host.
* **`OnlyReadOnlyRunsReturn`, `EvidenceIsClean`**: for every behaviour of the
  library within the assumptions above.
* **`MetricsMatchEvidence`**: on each way an attempt can end, what is stored as
  success, category, intervention and cost is what happened. A failure is marked
  for a person exactly when its texts mention a challenge or the judgement saw
  one, with one exception that the property spells out: an "access challenge" in
  a raised exception marks nothing (section 5).
* **`SummaryIsSound`**: the p95 is the nearest rank, and no run of the window is
  lost or counted twice between routes, costs and categories.
* **`FilesAreRemoved`**: a file of references outlives an invocation that was not
  killed only when an interrupt outside the protection of the `try`, or a removal
  that failed, prevented its removal; the invocation then raises, and says nothing
  of a success. A failing append, launch or adapter never leaves one.
* **`LaunchesAreAudited`, `OutcomesAreAudited`**: for every failing step.

### Fairness

`Fairness` in `RunService` asks for weak fairness of the steps of a worker that
is up (every browser call and publisher call has a timeout, SQLite waits at
most 30 s), of starting a worker that is down (`restart: unless-stopped` in
`compose.yml`, or cron for `--once`), and of time. Nothing is assumed of the
callers, of operators, or of signals: no fairness on `ApiStep`, `EditRegistry`,
`StopWorker` or `Crash`. The crash budget stands for "crashes eventually stop".
`FairRuntimeSpec` asks for weak fairness of the steps of one Playwright run, for
the same reason; the deadline itself need never pass.
`FairMigrationSpec` asks for weak fairness of the opening steps of each process,
its start included (the supervisor restarts it, and no statement waits for
anything but the write lock); nothing is asked of `Serve`, since callers may stay
away, or of `Crash`.

## 4. What is proved

TLAPS checks every proof, for every value of the constants that satisfies the
named assumptions: any number of runs, keys, requests, workers, calls, processes,
pages, hosts, invocations and kills, any stale interval, lag, retry count and
list limit. Each module has one type invariant; it is proved
(`StoreTypeCorrect`, `ServiceTypeCorrect`, `RuntimeTypeCorrect`,
`GateTypeCorrect`, `AdapterTypeCorrect`, `BrokerTypeCorrect`, and as part of
`MigrationInvariance`) rather than checked again in the runs.

Assumptions, which TLC evaluates in the runs:

* `StoreNulls`, `MigrationNulls`, `UnknownAssumption`: the null values are none of
  the values they stand beside.
* `StoreIntervals`: `requeue_stale_runs` refuses an interval below one minute.
* `CallerRowsDistinct`: events appended by callers have types of their own.
* `ServiceParameters`: the router returns decisions; publishers and settings are
  what the code knows; what operators write are manifests; an attempt is expected
  to last a whole number of minutes.
* `WindowsAssumption`, `UsagesAssumption`: durations, limits and windows are
  numbers; a usage report gives tokens and a cost, each a number or unknown.
* `EvaluationParameters`: what a provider names is a sequence of texts; the
  thresholds are percentages.
* `RuntimeParameters`, `AdapterParameters`, `GateParameters`, `BrokerParameters`:
  nulls and bounds; the adapter's allowed, required and excluded actions are
  disjoint or contained as the source's constants are; the requests of one run
  are finitely many, which the count of the blocked ones needs.

| Theorem | Argument |
|---|---|
| `StoreTypeCorrect`, `StoreInvariance` | each action preserves the types, and `StoreInv` is inductive |
| `KeyBinding`, `ApprovalGate`, `AuditAccounting`, `RouteStability` | consequences of `StoreInv` |
| `ContractTheorem`, `EndTheorem` | every action from a state with `StoreInv` keeps rows and ends |
| `StoreImplementsLifecycle` | the initial states map to initial states, each action maps to an action of `RunLifecycle` on the key of its row or to a stutter |
| `ServiceUsesStore` | every step of the service is a step of the store or leaves it alone, so all of the above hold of the service with any number of workers |
| `ServiceTypeCorrect`, `LockedRoute` | `ServiceInv` is inductive |
| `ServiceKeepsStorePromises` | the service refines the store, the store its life cycle |
| `LeaseInvariance`, `NoDoubleExecution`, `NoReportRefused`, `ReportedCounters` | under `LeaseCoversAttempt`, `LeaseInv` is inductive on top of `ServiceInv` |
| `FollowInvariance`, `OneFollowUp` | `FollowInv` is inductive on top of `ServiceInv`, without any condition |
| `DeliveriesAudited` | `AuditInv` is inductive on top of `FollowInv`, without any condition |
| `EndsArePublished` | while `OutputsOpen`, `PublishInv` is inductive on top of `AuditInv` |
| `BrowserUseReviewed` | while `RoutingWaits`, `ReviewInv` is inductive on top of `ServiceInv` |
| `MigrationInvariance`, `MigrationCompletes`, `OldApprovalsAreKept`, `DecisionsSurviveOpening` | `MigrationInv` is inductive |
| `OpeningsAreFinite` | `LeftToOpen` counts the statements a process has left, columns still lacking and races it is bound to lose included; statement by statement |
| `RoutingIsMonotone`, `RoutedIsServed`, `PlansAgree`, `LoadedIsRouted` | by expanding the decision procedure |
| `GateIsHeld` | `EvaluationInv` is inductive |
| `RuntimeTypeCorrect`, `RunInvariance`, `PagesAreReported`, `ItemsKeepTheContract`, `StatusTells` | `RunInv` is inductive, the rest follows from it |
| `VisitsKeepTheBudget` | every step from a state with `RunInv` keeps within the budget |
| `RunsAreFinite` | `StepsLeft` counts the visits and retries the pages ahead can take; step by step |
| `GateTypeCorrect`, `OnlyVettedResponses`, `AnswersSettle` | `GateInv` is inductive, handler by handler |
| `RefusalsAreAllListed` | the length of the list is the number of refused requests, cut at the cap |
| `AdapterTypeCorrect`, `AdapterFailsClosed`, `EvidenceOfPages` | `AdapterInv` is inductive, whatever the library does |
| `MetricsTellTheTruth` | `MetricsInv` is inductive; how metrics are built, case by case, from `ClassifyPutsChallengesFirst` |
| `SummariesOfAnyRuns`, `SummariesAreSound` | for any list of runs: induction over finite sets for the sums, counting for the rest; the stored runs are such a list (`RecordsInv`) |
| `PercentileIndexIsNearestRank`, `PercentileOfDurations` | arithmetic of `(95 n + 99) div 100`, then a count of the values at most the one found |
| `BrokerTypeCorrect`, `NoFileIsLeft`, `LaunchesAreLogged`, `OutcomesAreLogged` | `BrokerInv` is inductive, invocation by invocation |

*Why `StoreInv` is needed.* `KeyBindsOneRequest` alone is not inductive: a reply
may only be compared with a later one if the row it named still exists and
describes it (`RepliesDescribeRows`), and if no second row has the key
(`KeysAreUnique`). `AttemptsAreAccounted` needs that a row without a lock has no
execution events at all (`Unattempted`), or the first claim would start from an
unknown count; `OnlyApprovedRunsAreLocked` needs that an identifier without a row
has no approvals (`Blank`). `NoRouteDrift` rests on the same `Unattempted`: while
a route can still change there is nothing in the log that names one.

*Why `ServiceInv` is needed.* `WorkersRunTheLockedRoute` compares a worker's
memory with a row that others write. `HoldsLockedRun` says that the row of a
worker's run is locked and has the worker's route; it survives the steps of
everyone else because of `ContractTheorem`'s step lemma, not because of anything
the worker does.

*Why `LeaseInv` is needed, and its condition.* A lease is nowhere in the code: a
worker is protected from `requeue_stale_runs` only by the age of its row.
`KeepsLease` says what that amounts to: as long as an attempt runs, its row is
`running`, was stamped no earlier than `MaxLag` before the attempt began, and the
attempt is no older than `AttemptMinutes`. `LeaseCoversAttempt`
(`StaleMinutes >= AttemptMinutes + MaxLag`) then leaves nothing for a requeue to
take, so no second worker can claim the run, no report finds it in another
status, and the log has no claim that the worker did not count. The condition is
a property of the deployment, not of the code: `docs/HOSTINGER_DEPLOYMENT.md:85-87`
asks for it without the lag. It cannot be dropped: with a stale interval shorter
by one (`StaleRunsOneEarly`) `service_overlap` executes a run twice. The
properties only speak of the time before an attempt has outlasted
`AttemptMinutes`: after that a run may be executed twice even so, and the run
reaches such states.

*Why `FollowInv` is needed.* `FollowUpAtMostOnce` counts events that workers write
long after the run has ended, when a requeue could in principle have given it to
someone else. What makes it true is that `complete_run` is a compare and set on
the status: the report of the first worker ends the run, and a run that has ended
is never running again (`OwnStep`, the promise of the store). `FollowsAlone` says
that at most one worker is past the report of a run, `AsFarAsShown` that its
program counter and the publishers it still has to call account exactly for the
events and calls so far, and `FollowedUpOnce` keeps the result when it has moved
on or was killed. It needs no condition: any number of overlapping workers, any
stale interval, kills anywhere.

*Why `AuditInv` is needed.* `OutputsAreAudited` speaks of the end of a follow-up.
As long as it is under way, `FollowInv` knows how far it has come. `AuditInv` says
what remains of a run that has ended when nobody follows it (`LeftAlone`): the
publishers that were opened have been called and have their events, all or none.
A worker that could not open them leaves a run of which none was opened, called or
audited, and a worker that ends its follow-up leaves one of which each was.

*Two theorems with a condition on the behaviour.* `EndsArePublished` assumes
`OutputsOpen`: every workspace stays readable, and every worker that has a webhook
has one with TLS. `BrowserUseReviewed` assumes that no routing call for a run is in
flight beside an approval of it. `service_lost_output` and `service_two_calls`
refute the two properties without these conditions (section 5), so the theorems
say how far the code's promise goes. `PublishInv` adds that a run that was left
alone had its publishers opened, which the worker that left it could do;
`ReviewInv` adds that what a pending approval has checked about the route is still
true of the row, which only a routing call could change.

*Why `RecordsInv` and the sums.* A summary is one pass of `_aggregate` over any
list. Its sums are folds of the community modules, which take their elements in an
order nobody knows; `SumFromAny` shows that the order does not matter and
`SumSplits` that the sum over the two routes is that over both. The induction
behind them is over sets (`SubsetsReached`, `NumbersReached`): the library states
induction with an operator parameter, but also that the orders are well-founded,
and the least counterexample needs no more. `SummaryIsSound` of the stored runs then
follows because every stored result is what `Build` makes of an attempt
(`BuiltMetrics`), in which a failure always has a category.

*Why `MigrationInv` is needed.* Serving is only safe because of what the process
itself has come past: `PlaceInv` says what each point of the opening has
established, and it survives the steps of the others because columns are never
dropped, a back-fill only fills, and a row inserted by a serving process is
complete. `PlaceInv` at `alter` is about the stale copy of the column list: what
is neither there nor missing does not exist.

*Two measures.* Liveness is out of the prover's reach, but most of it is safety: a
run or an opening that could go on for ever would have to take steps for ever.
`RunsAreFinite` gives a Playwright run a natural number, at most
`8 + Pages * (MaxRetries + 2)`, that each of its steps lowers; the bound is reached
(17 steps in the instance of `playwright`). `OpeningsAreFinite` does the
same for one process that opens the database while others do. Its columns may be
added under its hands, which costs it the whole opening, but then one column less
is left to race for (`LackingShrinks`), so the number falls all the same; the other
processes, killed or not, never raise it. It has no share in `MaxCrashes`: only a
kill of the process itself starts it again. What TLC adds in `RunsEnd` and
`EveryProcessServes` is that a run or an opening that is not over always has a next
step, and that fairness makes it take it.

*Why `RunInv` is needed.* `NoPageIsLost` speaks of the end of a run. `PageInv`
says the same of the pages passed by so far (`PagesHandled`), that the items are
in page order (`ItemsInOrder`), that the keys remembered for duplicates are those
of the items (`KeysRemembered`), and that each gap has its failure
(`GapsReported`). `EndInv` says which status may follow which of these.

*Why `GateInv`, `AdapterInv` and `BrokerInv` are needed.* Each says what every
handler, run or invocation has established at its present point, and that the
shared state (`CacheIsTrue`: a cached answer was found by a resolution; the
audit log; the files) agrees with it. A handler's claim is about `found`, which
only grows, so the steps of other handlers keep it although the cache itself
changes.

*The refinement mapping* takes a key to the row bound to it (`JobBoard`). It is
well defined because `KeysAreUnique`; a requeue of several stale rows maps to one
`Return` of their keys.

## 5. Disagreements found

The first three are runs that are expected to fail, with a counterexample of a few
steps.

1. **An approval can lock a route nobody reviewed** (`service_two_calls`,
   `BrowserUseIsReviewed`). `approve_run` asks for the route confirmation only if
   the row it *read* (`orchestrator.py:274`, `:299`) is routed to Browser Use.
   `record_approval` locks the route the row has *then* (`store.py:449-468`). A
   routing call in between yields a queued run on Browser Use without the
   confirmation that `docs/adr/0005-persisted-runtime-routing.md:13` requires.
2. **A run's outputs can vanish without an event** (`service_lost_output`,
   `EveryEndIsPublished`). `_publish_outputs` looks the workspace up outside any
   handler (`orchestrator.py:471`). If it was removed while the run executed, or no
   longer validates (`workspaces.py:281-282`), the exception ends the worker
   process; no publisher is called and no event says so, while
   `docs/HOSTINGER_DEPLOYMENT.md:95-96` says that output failures are audit events.
   The publishers are constructed outside any handler too
   (`orchestrator.py:484-504`). The one for the webhook refuses a URL without TLS
   (`adapters/webhook.py:21-22`), which `config.py` accepts: with such a setting no
   run that the webhook is allowed for is published to Notion either. The model has
   both causes (`CanOpen`); the run stops at the first.
3. **A run can stay `running` for ever** (`service_restart`, `RunningRunsEnd`).
   Stale runs are requeued once, at start-up (`worker.py:16`). A polling worker
   that was killed and restarted within the stale interval finds its run not yet
   stale and never looks again, while `docs/adr/0002-single-vps-durable-service.md:13-14`
   wants the pilot to recover cleanly after a restart. `service_api` shows that
   the same code does recover when workers are started again and again with
   `--once`.

Two more are written into the properties, which say exactly how far the code
goes, rather than into runs of their own:

4. **An "access challenge" in an exception is not told** (`MetricsMatchEvidence`).
   `docs/V0_6_3_RUNTIME_METRICS.md:53-58` has `access-challenge` among the labels of
   an intervention, the prompt tells the agent to stop at one
   (`browser_use_readonly.py:84-85`), and the adapter looks for the words in what it
   returns (`browser_use_observed.py:96-97`). The text of an exception only goes to
   `classify_runtime_error` (`metrics.py:34-56`), which does not know them: the
   category is another and no person is asked for.
5. **A file of references can outlive the broker without a kill**
   (`FilesAreRemoved`). `docs/SECRET_MANAGEMENT.md:33-35` says that the broker
   removes it. It does not when Ctrl-C falls between `mkstemp` and the
   `try` (`secret_broker.py:246-251`), when a second one falls into the `finally`
   clause before `unlink`, or when `unlink` itself fails (`secret_broker.py:298-299`).
   It holds references, never secrets, and each time the invocation raises.

## 6. What is only model-checked, what is assumed, what is left out

Only model-checked:

* liveness (`QueuedRunsEnd`, `RunningRunsEnd`, `RunsEnd`, `EveryProcessServes`),
  which is beyond the prover; for the last two, that the steps cannot go on for
  ever is proved (`RunsAreFinite`, `OpeningsAreFinite`). Every safety invariant and every action property
  that a passing run checks is also a theorem; of those that fail,
  `EveryEndIsPublished` and `BrowserUseIsReviewed` are theorems under the
  conditions of section 4.

Assumed of the environment: SQLite transactions are atomic, durable and
serialised, and none fails (waits longer than 30 s for the lock); `uuid4` never returns an identifier twice; one clock serves all
processes and never goes back (they run on one host); the agent library behaves
as described in section 2.

Not modelled:

* text handling: validation of task files, manifests, URLs and arguments, the
  planner's normalisation of objectives and domains, redaction. Its outcome,
  accepted or not, is left open where it matters (`LoadFails`, `Begin`); the
  parts of it that a route depends on are `IsRuntimeTask` and `IsWorkspaceTask`;
* reading endpoints of the API, which change no state;
* averages of a summary: each is a division of a sum and a count that are
  modelled;
* the Notion read-only connector: one request, a limit and a filter, printed by a
  command, with no state and nothing concurrent;
* the selector proposals of the OpenRouter adapter: a single request whose answer
  is only shown to a person;
* the HTTP requests inside the publishers: the worker sees delivered or failed;
* command lines: argument parsing around the components above;
* the legacy runner under `src/adapters/`: nothing in the package imports it, and
  the packaged runtime, which is modelled, replaced it.

## 7. Plan

Done: the store, its abstract life cycle, its migration and their proofs; the
service around it; the routing policy and the evaluation of the planner; both
runtimes; the request gate; metrics; the broker; for each of these a module of
proofs.

Every invariant and action property of the passing runs is proved. Next, in this order:

1. *An attempt of a worker is finite*: the measure of `RunsAreFinite` for the points of
   `RunService` between a claim and the end of its follow-up.
2. *Claim order*: a store instance with rows created at different times, so that
   the first-in-first-out order of `claim_next_run` is observable.
3. *Evaluation thresholds*: a dataset with more cases than two.

## 8. Running it

In this directory, `tlc -workers 2 -config MCRunStore.cfg MCRunStore.tla` (and
likewise for each entry of `runs` in `PROJECT.json`), and
`tlapm RunStoreProofs.tla` (and likewise for the other seven modules whose name
ends in `Proofs`). The runs `store`, `service_api` and `service_overlap` take one to
three minutes, every other run less than one.

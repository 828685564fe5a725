------------------------- MODULE PlaywrightRuntime -------------------------
(***************************************************************************)
(* One run of the deterministic read-only runtime (playwright_runtime.py)  *)
(* and the report it leaves (reporting.py): it opens a traced browser      *)
(* context, visits the start URLs in order, each with retries and under    *)
(* one deadline for the whole task, extracts an item per page, rejects     *)
(* incomplete and duplicate items as the task asks, closes the browser     *)
(* whatever happened, and sums the run up in one status.                   *)
(*                                                                         *)
(* A page visit is one step with its outcome left open: which call of the  *)
(* browser failed does not matter, only whether the exception is one of    *)
(* those that are retried.  The deadline passes at any time in between.    *)
(***************************************************************************)
EXTENDS Integers, Sequences, FiniteSets

CONSTANTS
    Pages,          \* how many start URLs are left after max_items
    MaxRetries,
    Values,         \* values of the duplicate key
    NoValue,        \* an item without that key
    NoPage          \* "url": None in a failure

Policies == {"fail", "skip-and-report", "include-null-and-report"}

ASSUME RuntimeParameters ==
    /\ Pages \in Nat \ {0}
    /\ MaxRetries \in Nat
    /\ NoValue \notin Values
    /\ NoPage \notin 1..Pages

VARIABLES
    onMissing,  \* on_missing_data of the task, which the run never changes
    pc,         \* where run() is
    page,       \* index of the URL being visited
    attempt,    \* attempt at that URL
    expired,    \* the task's deadline has passed
    seen,       \* _seen_duplicates
    items, failures, status,    \* the report
    loads       \* how many visits of each URL were begun

runVars == <<onMissing, pc, page, attempt, expired, seen, items, failures, status,
             loads>>
reportVars == <<seen, items, failures, status>>

Item == [page : 1..Pages, value : Values \cup {NoValue}, whole : BOOLEAN]
Failure == [page : 1..Pages \cup {NoPage},
            kind : {"visit", "missing", "duplicate", "run", "trace"}]

Open == {"setting-up", "untraced", "at-page", "visiting", "tracing", "closing"}

RuntimeInit ==
    /\ onMissing \in Policies
    /\ pc = "launching"
    /\ page = 1 /\ attempt = 0 /\ expired = FALSE
    /\ seen = {} /\ items = << >> /\ failures = << >>
    /\ status = "running"
    /\ loads = [p \in 1..Pages |-> 0]

Fail(where, kind) == failures' = Append(failures, [page |-> where, kind |-> kind])

(* The browser and the context are opened outside the try statement.       *)
Launch(works) ==
    /\ pc = "launching"
    /\ pc' = IF works THEN "untraced" ELSE "raised"
    /\ UNCHANGED <<page, attempt, expired, loads, reportVars>>

StartTrace(works) ==
    /\ pc = "untraced"
    /\ IF works
       THEN pc' = "setting-up" /\ UNCHANGED failures
       ELSE pc' = "closing" /\ Fail(NoPage, "run")
    /\ UNCHANGED <<page, attempt, expired, seen, items, status, loads>>

(* Installing the network policy, opening the page.                        *)
SetUp(works) ==
    /\ pc = "setting-up"
    /\ IF works
       THEN pc' = "at-page" /\ UNCHANGED failures
       ELSE pc' = "tracing" /\ Fail(NoPage, "run")
    /\ UNCHANGED <<page, attempt, expired, seen, items, status, loads>>

-----------------------------------------------------------------------------
(* _visit_pages and _visit_with_retries *)

BeginVisit ==
    /\ pc = "at-page" /\ page <= Pages /\ ~expired
    /\ pc' = "visiting" /\ attempt' = 1
    /\ loads' = [loads EXCEPT ![page] = @ + 1]
    /\ UNCHANGED <<page, expired, reportVars>>

(* "Task timeout exceeded" leaves every page that is left unvisited.       *)
TimeOut ==
    /\ pc = "at-page" /\ page <= Pages /\ expired
    /\ pc' = "tracing"
    /\ Fail(NoPage, "run")
    /\ UNCHANGED <<page, attempt, expired, seen, items, status, loads>>

(* Mutant: the loop expects one page more.                                 *)
OnePageMore ==
    /\ pc = "at-page" /\ page > Pages + 1
    /\ pc' = "tracing"
    /\ UNCHANGED <<page, attempt, expired, loads, reportVars>>

NoPagesLeft ==
    /\ pc = "at-page" /\ page > Pages
    /\ pc' = "tracing"
    /\ UNCHANGED <<page, attempt, expired, loads, reportVars>>

TurnPage == pc' = "at-page" /\ page' = page + 1 /\ UNCHANGED <<attempt, loads>>

(* Mutant: a page that is given up is not reported.                        *)
RetryOrForget ==
    /\ IF attempt <= MaxRetries /\ ~expired
       THEN /\ attempt' = attempt + 1
            /\ loads' = [loads EXCEPT ![page] = @ + 1]
            /\ UNCHANGED <<pc, page, failures>>
       ELSE TurnPage /\ UNCHANGED failures
    /\ UNCHANGED <<seen, items>>

(* Mutant: retries go on after the deadline.                               *)
RetryPastDeadline ==
    /\ IF attempt <= MaxRetries
       THEN /\ attempt' = attempt + 1
            /\ loads' = [loads EXCEPT ![page] = @ + 1]
            /\ UNCHANGED <<pc, page, failures>>
       ELSE TurnPage /\ Fail(page, "visit")
    /\ UNCHANGED <<seen, items>>

(* Retried while attempts and time are left, reported otherwise.           *)
RetryOrReport ==
    /\ IF attempt <= MaxRetries /\ ~expired
       THEN /\ attempt' = attempt + 1
            /\ loads' = [loads EXCEPT ![page] = @ + 1]
            /\ UNCHANGED <<pc, page, failures>>
       ELSE TurnPage /\ Fail(page, "visit")
    /\ UNCHANGED <<seen, items>>

VisitFails ==
    /\ pc = "visiting"
    /\ RetryOrReport
    /\ UNCHANGED <<expired, status>>

(* Any other exception ends the visits of all pages.                       *)
VisitRaises ==
    /\ pc = "visiting"
    /\ pc' = "tracing"
    /\ Fail(NoPage, "run")
    /\ UNCHANGED <<page, attempt, expired, seen, items, status, loads>>

(* Mutant: the key of a kept item is not remembered.                       *)
KeepUnremembered(item, reported) ==
    /\ items' = Append(items, item)
    /\ failures' = reported
    /\ TurnPage
    /\ UNCHANGED seen

(* The item joins the report unless its key was seen; what has already     *)
(* been reported of the page stays in front.                               *)
Keep(item, reported) ==
    /\ IF item.value \in seen
       THEN /\ failures' = reported \o <<[page |-> page, kind |-> "duplicate"]>>
            /\ UNCHANGED <<seen, items>>
       ELSE /\ items' = Append(items, item)
            /\ failures' = reported
            /\ seen' = seen \cup ({item.value} \ {NoValue})
    /\ TurnPage

Missing(where) == <<[page |-> where, kind |-> "missing"]>>

VisitExtracts(value, whole) ==
    LET item == [page |-> page, value |-> value, whole |-> whole]
    IN  /\ pc = "visiting"
        /\ \/ whole /\ Keep(item, failures)
           \/ ~whole /\ onMissing = "fail" /\ RetryOrReport
           \/ /\ ~whole /\ onMissing = "skip-and-report"
              /\ failures' = failures \o Missing(page)
              /\ UNCHANGED <<seen, items>>
              /\ TurnPage
           \/ /\ ~whole /\ onMissing = "include-null-and-report"
              /\ Keep(item, failures \o Missing(page))
        /\ UNCHANGED <<expired, status>>

-----------------------------------------------------------------------------
(* The finally clause, the status and the artifacts *)

StopTrace(works) ==
    /\ pc = "tracing"
    /\ pc' = "closing"
    /\ IF works THEN UNCHANGED failures ELSE Fail(NoPage, "trace")
    /\ UNCHANGED <<page, attempt, expired, seen, items, status, loads>>

Close(works) ==
    /\ pc = "closing"
    /\ pc' = IF works THEN "finishing" ELSE "raised"
    /\ UNCHANGED <<page, attempt, expired, loads, reportVars>>

(* Mutant: a run with items is completed, whatever failed beside them.     *)
FinishFlattering(works) ==
    /\ pc = "finishing"
    /\ status' = IF failures # << >> /\ items = << >> THEN "failed"
                 ELSE "completed"
    /\ pc' = IF works THEN "returned" ELSE "raised"
    /\ UNCHANGED <<page, attempt, expired, seen, items, failures, loads>>

(* RunReport.finish, then ArtifactWriter.write.                            *)
Finish(works) ==
    /\ pc = "finishing"
    /\ status' = IF failures # << >> /\ items = << >> THEN "failed"
                 ELSE IF failures # << >> THEN "completed-with-errors"
                 ELSE "completed"
    /\ pc' = IF works THEN "returned" ELSE "raised"
    /\ UNCHANGED <<page, attempt, expired, seen, items, failures, loads>>

(* Meanwhile the clock goes on.                                            *)
DeadlinePasses ==
    /\ ~expired /\ pc \notin {"returned", "raised"}
    /\ expired' = TRUE
    /\ UNCHANGED <<onMissing, pc, page, attempt, loads, reportVars>>

RunStep ==
    /\ \/ BeginVisit \/ TimeOut \/ NoPagesLeft \/ VisitFails \/ VisitRaises
       \/ \E value \in Values \cup {NoValue}, whole \in BOOLEAN :
             VisitExtracts(value, whole)
       \/ \E works \in BOOLEAN :
             \/ Launch(works) \/ StartTrace(works) \/ SetUp(works)
             \/ StopTrace(works) \/ Close(works) \/ Finish(works)
    /\ UNCHANGED onMissing

RuntimeNext == RunStep \/ DeadlinePasses

RuntimeSpec == RuntimeInit /\ [][RuntimeNext]_runVars

(* Every browser call has a timeout, so a step of the run always ends.     *)
FairRuntimeSpec == RuntimeSpec /\ WF_runVars(RunStep)

-----------------------------------------------------------------------------
(* Properties *)

(* Type invariant.                                                         *)
RuntimeTypeOK ==
    /\ onMissing \in Policies
    /\ pc \in Open \cup {"launching", "finishing", "returned", "raised"}
    /\ page \in 1..(Pages + 1) /\ attempt \in 0..(MaxRetries + 1)
    /\ expired \in BOOLEAN
    /\ seen \subseteq Values
    /\ items \in Seq(Item) /\ failures \in Seq(Failure)
    /\ status \in {"running", "completed", "completed-with-errors", "failed"}
    /\ loads \in [1..Pages -> Nat]

Gathered(p) == \E i \in DOMAIN items : items[i].page = p
Reported(p) == \E i \in DOMAIN failures : failures[i].page = p
CutShort == \E i \in DOMAIN failures : failures[i].kind = "run"

(* No page is lost silently: every start URL that has been passed by has   *)
(* an item or a failure of its own, and if some were left when the run     *)
(* returned, a failure of the whole run says so, whatever mixture of       *)
(* retries, duplicates, missing data, timeouts and lost traces it met.     *)
NoPageIsLost ==
    \A p \in 1..Pages :
        /\ p < page => Gathered(p) \/ Reported(p)
        /\ p >= page /\ pc = "returned" => CutShort

(* The status never flatters: "completed" means one whole item of every    *)
(* page, in order, and "failed" that there is nothing to show.             *)
StatusIsHonest ==
    pc = "returned" =>
        /\ status = "completed" =>
              /\ Len(items) = Pages
              /\ \A i \in DOMAIN items : items[i].page = i /\ items[i].whole
        /\ status = "failed" <=> items = << >>

(* No two items share a value of the duplicate key, no page gave two       *)
(* items, and an item that lacks a field is only there when the task asks  *)
(* for it, and is reported beside it.                                      *)
ItemsAreSound ==
    \A i, j \in DOMAIN items :
        /\ i # j => /\ items[i].page # items[j].page
                    /\ items[i].value = items[j].value
                          => items[i].value = NoValue
        /\ ~items[i].whole =>
              /\ onMissing = "include-null-and-report"
              /\ \E k \in DOMAIN failures :
                    failures[k] = [page |-> items[i].page, kind |-> "missing"]

(* Visits stay within the limits of the task: at most max_retries + 1 of   *)
(* each page, none begun after the deadline, no page visited again later.  *)
VisitsAreBudgeted ==
    [][\A p \in 1..Pages : loads'[p] # loads[p] =>
            /\ ~expired
            /\ loads'[p] <= MaxRetries + 1
            /\ \A q \in 1..Pages : q > p => loads[q] = 0]_runVars

(* A run always ends, with a report or an exception for the worker.        *)
RunsEnd == <>(pc \in {"returned", "raised"})

=============================================================================

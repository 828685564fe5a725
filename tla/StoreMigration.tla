--------------------------- MODULE StoreMigration ---------------------------
(***************************************************************************)
(* How a process opens the run database: RunStore._initialize of           *)
(* service/store.py.                                                       *)
(*                                                                         *)
(* The API and the worker each run it when they start, on one database     *)
(* that may have been written by an older release, and each may already be *)
(* serving while the other is still at it.  The connection is in           *)
(* autocommit, so every statement is a transaction of its own and a        *)
(* process can die, or be overtaken, between any two of them.  The         *)
(* supervisor starts a process that died again from the first statement.   *)
(*                                                                         *)
(* A row keeps only what the back-fill reads or writes; the methods of     *)
(* RunStore.tla appear here as what they do to that part of a row.         *)
(***************************************************************************)
EXTENDS Integers, FiniteSets

CONSTANTS
    RunIds,
    Processes,      \* the API and the workers
    MaxCrashes,     \* bound: how often a process is killed
    NoRun,          \* no row with this identifier
    NoRoute         \* SQL NULL in routing_json, or no such column

ASSUME BoundsAssumption == MaxCrashes \in Nat

Routes == {"playwright", "browser-use", "blocked"}
Executable == {"playwright", "browser-use"}
Approved == {"queued", "running", "completed", "failed"}
Statuses == {"awaiting-blueprint-approval", "rejected"} \cup Approved

Row == [status : Statuses, route : Routes \cup {NoRoute}, locked : BOOLEAN]

ASSUME MigrationNulls == NoRun \notin Row /\ NoRoute \notin Routes

(* The columns that releases have added, in the order they are tested for. *)
Position == [client_id |-> 1, workspace_path |-> 2, routing_json |-> 3,
             route_locked_at |-> 4]
Added == DOMAIN Position
Schema == Added \cup {"run_id"}

(* No database yet, and those of the releases before 0.5 and before 0.6.2. *)
OldSchemas == {{}, {"run_id"}, {"run_id", "client_id", "workspace_path"}}

VARIABLES
    columns,    \* the columns the table runs has; none: no table
    runs,       \* the table runs
    pc,         \* where each process is
    missing,    \* the columns a process found absent and has not added yet
    legacy,     \* the rows the older release left
    crashes

vars == <<columns, runs, pc, missing, legacy, crashes>>

Exists(r) == runs[r] # NoRun

Has(r, statuses) == Exists(r) /\ runs[r].status \in statuses

(* An older release knows neither routes nor locks.                        *)
LegacyRows == [status : Statuses, route : {NoRoute}, locked : {FALSE}]

Init ==
    /\ columns \in OldSchemas
    /\ runs \in [RunIds -> IF columns = {} THEN {NoRun}
                           ELSE LegacyRows \cup {NoRun}]
    /\ pc = [p \in Processes |-> "down"]
    /\ missing = [p \in Processes |-> {}]
    /\ legacy = runs
    /\ crashes = 0

-----------------------------------------------------------------------------
(* Opening the database *)

Goto(p, place) == pc' = [pc EXCEPT ![p] = place]

Start(p) ==
    /\ pc[p] = "down"
    /\ Goto(p, "script")
    /\ UNCHANGED <<columns, runs, missing, legacy, crashes>>

(* CREATE TABLE IF NOT EXISTS: a new table has every column at once.       *)
CreateTable(p) ==
    /\ pc[p] = "script"
    /\ columns' = IF columns = {} THEN Schema ELSE columns
    /\ Goto(p, "info")
    /\ UNCHANGED <<runs, missing, legacy, crashes>>

(* PRAGMA table_info, read once; every later test is made on this copy.    *)
ReadColumns(p) ==
    /\ pc[p] = "info"
    /\ missing' = [missing EXCEPT ![p] = Added \ columns]
    /\ Goto(p, IF Added \subseteq columns THEN "routes" ELSE "alter")
    /\ UNCHANGED <<columns, runs, legacy, crashes>>

NextColumn(p, c) ==
    /\ pc[p] = "alter"
    /\ c \in missing[p]
    /\ \A d \in missing[p] : Position[c] <= Position[d]

AddColumn(p, c) ==
    /\ NextColumn(p, c)
    /\ c \notin columns
    /\ columns' = columns \cup {c}
    /\ missing' = [missing EXCEPT ![p] = @ \ {c}]
    /\ Goto(p, IF missing[p] = {c} THEN "routes" ELSE "alter")
    /\ UNCHANGED <<runs, legacy, crashes>>

(* Mutant: the error is swallowed and the rest of the ALTERs with it.      *)
SkipDuplicateColumn(p, c) ==
    /\ NextColumn(p, c)
    /\ c \in columns
    /\ missing' = [missing EXCEPT ![p] = {}]
    /\ Goto(p, "routes")
    /\ UNCHANGED <<columns, runs, legacy, crashes>>

(* Mutant: the ALTER is tried again instead of the whole opening.          *)
RetryDuplicateColumn(p, c) ==
    /\ NextColumn(p, c)
    /\ c \in columns
    /\ UNCHANGED vars

(* Another process added it since: duplicate column name, and the process  *)
(* dies with the exception of its constructor.                             *)
DuplicateColumn(p, c) ==
    /\ NextColumn(p, c)
    /\ c \in columns
    /\ missing' = [missing EXCEPT ![p] = {}]
    /\ Goto(p, "down")
    /\ UNCHANGED <<columns, runs, legacy, crashes>>

(* Mutant: every row is set, not only the rows without a decision.         *)
BackfillEveryRoute(p) ==
    /\ pc[p] = "routes"
    /\ runs' = [r \in RunIds |->
            IF Exists(r) THEN [runs[r] EXCEPT !.route = "playwright"]
            ELSE runs[r]]
    /\ Goto(p, "locks")
    /\ UNCHANGED <<columns, missing, legacy, crashes>>

(* Mutant: the router is asked instead of taking the safe default.         *)
BackfillWithTheRouter(p) ==
    /\ pc[p] = "routes"
    /\ \E choice \in [RunIds -> Executable] :
            runs' = [r \in RunIds |->
                IF Exists(r) /\ runs[r].route = NoRoute
                THEN [runs[r] EXCEPT !.route = choice[r]]
                ELSE runs[r]]
    /\ Goto(p, "locks")
    /\ UNCHANGED <<columns, missing, legacy, crashes>>

BackfillRoutes(p) ==
    /\ pc[p] = "routes"
    /\ runs' = [r \in RunIds |->
            IF Exists(r) /\ runs[r].route = NoRoute
            THEN [runs[r] EXCEPT !.route = "playwright"]
            ELSE runs[r]]
    /\ Goto(p, "locks")
    /\ UNCHANGED <<columns, missing, legacy, crashes>>

(* Sets route_locked_at where it is NULL; a lock already there stays.      *)
BackfillLocks(p) ==
    /\ pc[p] = "locks"
    /\ runs' = [r \in RunIds |->
            IF Has(r, Approved) THEN [runs[r] EXCEPT !.locked = TRUE]
            ELSE runs[r]]
    /\ Goto(p, "index")
    /\ UNCHANGED <<columns, missing, legacy, crashes>>

CreateIndex(p) ==
    /\ pc[p] = "index"
    /\ Goto(p, "serving")
    /\ UNCHANGED <<columns, runs, missing, legacy, crashes>>

Crash(p) ==
    /\ pc[p] # "down"
    /\ crashes < MaxCrashes
    /\ crashes' = crashes + 1
    /\ missing' = [missing EXCEPT ![p] = {}]
    /\ Goto(p, "down")
    /\ UNCHANGED <<columns, runs, legacy>>

-----------------------------------------------------------------------------
(* What a serving process does to a row *)

Insert(r) ==
    /\ ~Exists(r)
    /\ \E route \in Routes :
        runs' = [runs EXCEPT ![r] =
            [status |-> "awaiting-blueprint-approval", route |-> route,
             locked |-> FALSE]]

Reroute(r) ==
    /\ Has(r, {"awaiting-blueprint-approval"})
    /\ ~runs[r].locked
    /\ \E route \in Routes : runs' = [runs EXCEPT ![r].route = route]

Approve(r) ==
    /\ Has(r, {"awaiting-blueprint-approval"})
    /\ runs[r].route \in Executable
    /\ runs' = [runs EXCEPT ![r].status = "queued", ![r].locked = TRUE]

Reject(r) ==
    /\ Has(r, {"awaiting-blueprint-approval"})
    /\ runs' = [runs EXCEPT ![r].status = "rejected"]

ClaimNext(r) ==
    /\ Has(r, {"queued"})
    /\ runs[r].route # NoRoute /\ runs[r].locked
    /\ runs' = [runs EXCEPT ![r].status = "running"]

Requeue(r) ==
    /\ Has(r, {"running"})
    /\ runs' = [runs EXCEPT ![r].status = "queued"]

Complete(r) ==
    /\ Has(r, {"running"})
    /\ \E status \in {"completed", "failed"} :
        runs' = [runs EXCEPT ![r].status = status]

Serve(p) ==
    /\ pc[p] = "serving"
    /\ \E r \in RunIds : \/ Insert(r)
                         \/ Reroute(r)
                         \/ Approve(r)
                         \/ Reject(r)
                         \/ ClaimNext(r)
                         \/ Requeue(r)
                         \/ Complete(r)
    /\ UNCHANGED <<columns, pc, missing, legacy, crashes>>

-----------------------------------------------------------------------------

Open(p) ==
    \/ Start(p)
    \/ CreateTable(p)
    \/ ReadColumns(p)
    \/ \E c \in Added : AddColumn(p, c) \/ DuplicateColumn(p, c)
    \/ BackfillRoutes(p)
    \/ BackfillLocks(p)
    \/ CreateIndex(p)

Next == \E p \in Processes : Open(p) \/ Crash(p) \/ Serve(p)

MigrationSpec == Init /\ [][Next]_vars

(* The supervisor restarts a process and the process runs; nobody has to   *)
(* ask anything of the API.                                                *)
FairMigrationSpec == MigrationSpec /\ \A p \in Processes : WF_vars(Open(p))

-----------------------------------------------------------------------------
(* Properties *)

Places == {"down", "script", "info", "alter", "routes", "locks", "index",
           "serving"}

(* Type invariant.                                                         *)
TypeOK ==
    /\ columns \subseteq Schema
    /\ runs \in [RunIds -> Row \cup {NoRun}]
    /\ pc \in [Processes -> Places]
    /\ missing \in [Processes -> SUBSET Added]
    /\ legacy \in [RunIds -> LegacyRows \cup {NoRun}]
    /\ crashes \in 0..MaxCrashes

(* Whoever serves, and whoever else is still opening the database, died    *)
(* half way or lost the race for a column: the serving process never meets *)
(* a missing column, a row without a routing decision, an approved run     *)
(* without its lock or on a blocked route, or a lock on a run nobody       *)
(* approved (_initialize, with no transaction around its statements).      *)
RowIsComplete(r) ==
    /\ runs[r].route # NoRoute
    /\ runs[r].locked <=> runs[r].status \in Approved
    /\ runs[r].locked => runs[r].route \in Executable

ServedRowsAreComplete ==
    \A p \in Processes : pc[p] = "serving" =>
        /\ columns = Schema
        /\ \A r \in RunIds : Exists(r) => RowIsComplete(r)

(* "The migration preserves old approved jobs without silently introducing *)
(* Browser Use" (docs/V0_6_2_PERSISTED_ROUTING_DISPATCH.md): a run that an *)
(* older release had approved is never put on another route, never sent    *)
(* back to its gate and never dropped, whatever happens on the way.        *)
OldApprovalsStand ==
    \A r \in RunIds : legacy[r] # NoRun /\ legacy[r].status \in Approved =>
        Has(r, Approved) /\ runs[r].route \in {NoRoute, "playwright"}

(* A process that opens the database late changes no routing decision that *)
(* is already on record: only a serving process does, and only while the   *)
(* run is not locked (ADR 0005).                                           *)
DecisionKept(r) ==
    Exists(r) /\ runs[r].route # NoRoute =>
        \/ runs'[r].route = runs[r].route
        \/ /\ \E p \in Processes : pc[p] = "serving"
           /\ pc' = pc
           /\ ~runs[r].locked

LateOpeningKeepsDecisions == [][\A r \in RunIds : DecisionKept(r)]_vars

(* No opening blocks for ever: however the processes race for the columns  *)
(* and wherever they are killed, in the end every one of them serves.      *)
EveryProcessServes == \A p \in Processes : <>[](pc[p] = "serving")

(* The inductive strengthening of ServedRowsAreComplete and                *)
(* OldApprovalsStand: how far a process has come bounds what the table may *)
(* still lack, and what it has come past stays done for everyone.          *)
RowInv(r) ==
    /\ runs[r].locked => /\ runs[r].status \in Approved
                         /\ runs[r].route \in Executable
    /\ runs[r].status \in Approved => runs[r].route \in Executable \cup {NoRoute}

PlaceInv(p) ==
    /\ pc[p] \notin {"down", "script"} => "run_id" \in columns
    /\ pc[p] = "alter" => Added \subseteq columns \cup missing[p]
    /\ pc[p] \in {"routes", "locks", "index", "serving"} => columns = Schema
    /\ pc[p] \in {"locks", "index", "serving"} =>
            \A r \in RunIds : Exists(r) => runs[r].route # NoRoute
    /\ pc[p] \in {"index", "serving"} =>
            \A r \in RunIds : Has(r, Approved) => runs[r].locked

MigrationInv ==
    /\ TypeOK
    /\ columns = {} \/ "run_id" \in columns
    /\ \A r \in RunIds : Exists(r) => RowInv(r)
    /\ \A p \in Processes : PlaceInv(p)
    /\ OldApprovalsStand

=============================================================================

------------------------ MODULE StoreMigrationProofs ------------------------
(* Proofs about the opening of the database, for any set of runs and of    *)
(* processes and any number of kills.                                      *)
EXTENDS StoreMigration, FiniteSetTheorems, TLAPS

(* What the positions name, stated once for the provers.                   *)
LEMMA AddedColumns ==
    Added = {"client_id", "workspace_path", "routing_json", "route_locked_at"}
BY DEF Added, Position

(* A new database, or one an older release left, is where the invariant    *)
(* starts.                                                                 *)
LEMMA InitEstablishes == Init => MigrationInv
<1> SUFFICES ASSUME Init PROVE MigrationInv
    OBVIOUS
<1> USE DEF Init, OldSchemas, Schema
<1>1. runs \in [RunIds -> LegacyRows \cup {NoRun}]
    OBVIOUS
<1>2. TypeOK
    <2>1. LegacyRows \subseteq Row
        BY DEF LegacyRows, Row, Statuses, Approved
    <2> QED
        BY <1>1, <2>1, AddedColumns, BoundsAssumption
        DEF TypeOK, Places
<1>3. columns = {} \/ "run_id" \in columns
    OBVIOUS
<1>4. \A r \in RunIds : Exists(r) => RowInv(r)
    BY <1>1 DEF Exists, RowInv, LegacyRows
<1>5. \A p \in Processes : PlaceInv(p)
    BY DEF PlaceInv
<1>6. OldApprovalsStand
    BY <1>1 DEF OldApprovalsStand, Has, Exists, LegacyRows
<1> QED
    BY <1>2, <1>3, <1>4, <1>5, <1>6 DEF MigrationInv

(* The statements that only touch the schema or the place of a process.    *)
LEMMA SchemaSteps ==
    ASSUME MigrationInv, NEW p \in Processes,
           \/ Start(p) \/ CreateTable(p) \/ ReadColumns(p)
           \/ \E c \in Added : AddColumn(p, c) \/ DuplicateColumn(p, c)
           \/ CreateIndex(p) \/ Crash(p)
    PROVE  MigrationInv'
<1> USE DEF MigrationInv
<1>1. UNCHANGED <<runs, legacy>>
    BY DEF Start, CreateTable, ReadColumns, AddColumn, DuplicateColumn,
           CreateIndex, Crash
<1>2. columns \subseteq columns'
    BY DEF Start, CreateTable, ReadColumns, AddColumn, DuplicateColumn,
           CreateIndex, Crash
<1>3. TypeOK'
    <2>1. columns' \subseteq Schema /\ missing' \in [Processes -> SUBSET Added]
        BY DEF TypeOK, Start, CreateTable, ReadColumns, AddColumn,
               DuplicateColumn, CreateIndex, Crash, Schema
    <2>2. pc' \in [Processes -> Places]
        BY DEF TypeOK, Start, CreateTable, ReadColumns, AddColumn,
               DuplicateColumn, CreateIndex, Crash, Goto, Places
    <2>3. crashes' \in 0..MaxCrashes
        BY BoundsAssumption
        DEF TypeOK, Start, CreateTable, ReadColumns, AddColumn,
            DuplicateColumn, CreateIndex, Crash
    <2> QED
        BY <1>1, <2>1, <2>2, <2>3 DEF TypeOK
<1>4. (columns = {} \/ "run_id" \in columns)'
    BY DEF Start, CreateTable, ReadColumns, AddColumn, DuplicateColumn,
           CreateIndex, Crash, PlaceInv, NextColumn, Schema
<1>5. (\A r \in RunIds : Exists(r) => RowInv(r))'
    BY <1>1 DEF Exists, RowInv
<1>6. ASSUME NEW q \in Processes PROVE PlaceInv(q)'
    <2>1. CASE q = p
        <3>1. CASE Start(p) \/ Crash(p)
            BY <2>1, <3>1 DEF Start, Crash, Goto, PlaceInv, TypeOK
        <3>2. CASE CreateTable(p)
            <4>1. pc'[p] = "info" /\ "run_id" \in Schema
                BY <3>2 DEF CreateTable, Goto, TypeOK, Schema
            <4>2. columns # {} => "run_id" \in columns
                OBVIOUS
            <4> QED
                BY <2>1, <3>2, <4>1, <4>2 DEF CreateTable, PlaceInv
        <3>3. CASE ReadColumns(p)
            BY <2>1, <3>3 DEF ReadColumns, Goto, PlaceInv, TypeOK, Schema
        <3>4. ASSUME NEW c \in Added, AddColumn(p, c) PROVE PlaceInv(q)'
            BY <2>1, <3>4 DEF AddColumn, NextColumn, Goto, PlaceInv, TypeOK, Schema
        <3>5. ASSUME NEW c \in Added, DuplicateColumn(p, c) PROVE PlaceInv(q)'
            BY <2>1, <3>5 DEF DuplicateColumn, Goto, PlaceInv, TypeOK
        <3>6. CASE CreateIndex(p)
            BY <2>1, <3>6, <1>1
            DEF CreateIndex, Goto, PlaceInv, TypeOK, Exists, Has
        <3> QED
            BY <3>1, <3>2, <3>3, <3>4, <3>5, <3>6
    <2>2. CASE q # p
        <3>1. pc'[q] = pc[q] /\ missing'[q] = missing[q]
            BY <2>2 DEF TypeOK, Start, CreateTable, ReadColumns, AddColumn,
                   DuplicateColumn, CreateIndex, Crash, Goto
        <3>2. columns = Schema => columns' = Schema
            BY <1>2, <1>3 DEF TypeOK
        <3> QED
            BY <1>1, <1>2, <3>1, <3>2 DEF PlaceInv, Exists, Has
    <2> QED
        BY <2>1, <2>2
<1>7. OldApprovalsStand'
    BY <1>1 DEF OldApprovalsStand, Has, Exists
<1> QED
    BY <1>3, <1>4, <1>5, <1>6, <1>7

(* The two back-fills: a row is only ever completed.                       *)
LEMMA BackfillSteps ==
    ASSUME MigrationInv, NEW p \in Processes,
           BackfillRoutes(p) \/ BackfillLocks(p)
    PROVE  MigrationInv'
<1> USE DEF MigrationInv, BackfillRoutes, BackfillLocks
<1>1. \A r \in RunIds :
        /\ Exists(r)' <=> Exists(r)
        /\ Exists(r) => /\ runs'[r] \in Row
                        /\ runs'[r].status = runs[r].status
                        /\ runs[r].route # NoRoute => runs'[r].route = runs[r].route
                        /\ runs'[r].route \in {runs[r].route, "playwright"}
                        /\ runs[r].locked => runs'[r].locked
                        /\ runs'[r].locked /\ ~runs[r].locked =>
                              runs[r].status \in Approved /\ pc[p] = "locks"
    <2> SUFFICES ASSUME NEW r \in RunIds
                 PROVE  /\ Exists(r)' <=> Exists(r)
                        /\ Exists(r) =>
                            /\ runs'[r] \in Row
                            /\ runs'[r].status = runs[r].status
                            /\ runs[r].route # NoRoute =>
                                  runs'[r].route = runs[r].route
                            /\ runs'[r].route \in {runs[r].route, "playwright"}
                            /\ runs[r].locked => runs'[r].locked
                            /\ runs'[r].locked /\ ~runs[r].locked =>
                                  runs[r].status \in Approved /\ pc[p] = "locks"
        OBVIOUS
    <2>1. CASE ~Exists(r)
        BY <2>1 DEF Exists, Has
    <2>2. CASE Exists(r)
        <3>1. runs[r] \in Row
            BY <2>2 DEF Exists, TypeOK
        <3>2. runs'[r] \in {runs[r], [runs[r] EXCEPT !.route = "playwright"],
                             [runs[r] EXCEPT !.locked = TRUE]}
            BY <2>2
        <3>3. /\ [runs[r] EXCEPT !.route = "playwright"] \in Row
              /\ [runs[r] EXCEPT !.locked = TRUE] \in Row
            BY <3>1 DEF Row, Routes
        <3>4. runs'[r] \in Row
            BY <3>1, <3>2, <3>3
        <3> QED
            BY <2>2, <3>1, <3>4, MigrationNulls DEF Exists, Row, Has
    <2> QED
        BY <2>1, <2>2
<1>2. TypeOK'
    <2>1. runs' \in [RunIds -> Row \cup {NoRun}]
        BY <1>1 DEF TypeOK, Exists
    <2> QED
        BY <2>1 DEF TypeOK, Goto, Places
<1>3. (columns = {} \/ "run_id" \in columns)'
    OBVIOUS
<1>4. ASSUME NEW r \in RunIds, Exists(r)' PROVE RowInv(r)'
    <2>1. pc[p] = "locks" => runs[r].route # NoRoute
        BY <1>1, <1>4 DEF PlaceInv
    <2> QED
        BY <1>1, <1>4, <2>1 DEF RowInv, Executable
<1>5. ASSUME NEW q \in Processes PROVE PlaceInv(q)'
    <2>1. pc[p] \in {"routes", "locks"} /\ columns' = columns /\ columns = Schema
        BY DEF PlaceInv
    <2>2. CASE q # p
        <3>1. pc'[q] = pc[q] /\ missing'[q] = missing[q]
            BY <2>2 DEF TypeOK, Goto
        <3>2. pc[q] \in {"locks", "index", "serving"} =>
                \A r \in RunIds : Exists(r)' => runs'[r].route # NoRoute
            BY <1>1 DEF PlaceInv
        <3>3. pc[q] \in {"index", "serving"} =>
                \A r \in RunIds : Has(r, Approved)' => runs'[r].locked
            BY <1>1 DEF PlaceInv, Has
        <3> QED
            BY <2>1, <3>1, <3>2, <3>3 DEF PlaceInv, Schema, Exists, Has
    <2>3. CASE q = p /\ BackfillRoutes(p)
        <3>1. pc'[q] = "locks"
            BY <2>3 DEF Goto, TypeOK
        <3>2. \A r \in RunIds : Exists(r)' => runs'[r].route # NoRoute
            BY <2>3, <1>1, MigrationNulls DEF Routes, Exists
        <3> QED
            BY <2>1, <3>1, <3>2 DEF PlaceInv, Schema, Exists, Has
    <2>4. CASE q = p /\ BackfillLocks(p)
        <3>1. pc'[q] = "index"
            BY <2>4 DEF Goto, TypeOK
        <3>2. \A r \in RunIds : Exists(r)' => runs'[r].route # NoRoute
            BY <2>4, <1>1 DEF PlaceInv
        <3>3. \A r \in RunIds : Has(r, Approved)' => runs'[r].locked
            BY <2>4, <1>1 DEF Has, Exists, TypeOK, Row
        <3> QED
            BY <2>1, <3>1, <3>2, <3>3 DEF PlaceInv, Schema, Exists, Has
    <2> QED
        BY <2>2, <2>3, <2>4
<1>6. OldApprovalsStand'
    BY <1>1 DEF OldApprovalsStand, Has
<1> QED
    BY <1>2, <1>3, <1>4, <1>5, <1>6

(* What a serving process may do to a complete row leaves it complete.     *)
LEMMA ServeStep ==
    ASSUME MigrationInv, NEW p \in Processes, Serve(p)
    PROVE  MigrationInv'
<1> USE DEF MigrationInv
<1>1. /\ columns = Schema
      /\ \A r \in RunIds : Exists(r) => runs[r].route # NoRoute
      /\ \A r \in RunIds : Has(r, Approved) => runs[r].locked
    BY DEF Serve, PlaceInv
<1>2. PICK r \in RunIds : Insert(r) \/ Reroute(r) \/ Approve(r) \/ Reject(r)
                          \/ ClaimNext(r) \/ Requeue(r) \/ Complete(r)
    BY DEF Serve
<1>3. UNCHANGED <<columns, pc, missing, legacy, crashes>>
    BY DEF Serve
<1>4. /\ \A s \in RunIds \ {r} : runs'[s] = runs[s]
      /\ DOMAIN runs' = RunIds
      /\ runs' = [runs EXCEPT ![r] = runs'[r]]
    BY <1>2 DEF Insert, Reroute, Approve, Reject, ClaimNext, Requeue, Complete,
                TypeOK
<1>5. /\ runs'[r] \in Row
      /\ runs'[r].route \in Routes
      /\ runs'[r].locked <=> runs'[r].status \in Approved
      /\ runs'[r].locked => runs'[r].route \in Executable
      /\ Has(r, Approved) => /\ runs'[r].status \in Approved
                             /\ runs'[r].route = runs[r].route
    <2>1. CASE Insert(r)
        BY <2>1, <1>4
        DEF Insert, Row, Statuses, Approved, Routes, Has, TypeOK
    <2>2. CASE Exists(r)
        <3>1. /\ runs[r] \in Row
              /\ runs[r].route \in Routes
              /\ runs[r].locked => runs[r].status \in Approved
              /\ runs[r].locked => runs[r].route \in Executable
              /\ runs[r].status \in Approved => runs[r].locked
            BY <2>2, <1>1 DEF Exists, Has, TypeOK, RowInv, Row
        <3>2. CASE Reroute(r)
            BY <3>1, <3>2 DEF Reroute, Has, Row, Statuses, Approved, TypeOK
        <3>3. CASE Approve(r)
            BY <3>1, <3>3 DEF Approve, Has, Row, Statuses, Approved, TypeOK
        <3>4. CASE Reject(r)
            BY <3>1, <3>4 DEF Reject, Has, Row, Statuses, Approved, TypeOK
        <3>5. CASE ClaimNext(r) \/ Requeue(r) \/ Complete(r)
            BY <3>1, <3>5
            DEF ClaimNext, Requeue, Complete, Has, Row, Statuses, Approved, TypeOK
        <3> QED
            BY <1>2, <2>2, <3>2, <3>3, <3>4, <3>5 DEF Insert
    <2> QED
        BY <1>2, <2>1, <2>2
        DEF Reroute, Approve, Reject, ClaimNext, Requeue, Complete, Has
<1>6. \A s \in RunIds : s # r => (Exists(s)' <=> Exists(s))
    BY <1>4 DEF Exists
<1>7. TypeOK'
    <2>1. runs' \in [RunIds -> Row \cup {NoRun}]
        BY <1>4, <1>5 DEF TypeOK
    <2> QED
        BY <2>1, <1>3 DEF TypeOK
<1>8. (columns = {} \/ "run_id" \in columns)'
    BY <1>3
<1>9. (\A s \in RunIds : Exists(s) => RowInv(s))'
    BY <1>4, <1>5, <1>6 DEF RowInv
<1>10. (\A q \in Processes : PlaceInv(q))'
    <2>1. \A s \in RunIds : Exists(s)' => runs'[s].route # NoRoute
        BY <1>1, <1>4, <1>5, <1>6, MigrationNulls
    <2>2. \A s \in RunIds : Has(s, Approved)' => runs'[s].locked
        BY <1>1, <1>4, <1>5, <1>6 DEF Has
    <2> QED
        BY <1>1, <1>3, <2>1, <2>2 DEF PlaceInv, Schema, Exists, Has
<1>11. OldApprovalsStand'
    <2> SUFFICES ASSUME NEW s \in RunIds, legacy[s] # NoRun,
                        legacy[s].status \in Approved
                 PROVE  /\ Has(s, Approved)'
                        /\ runs'[s].route \in {NoRoute, "playwright"}
        BY <1>3 DEF OldApprovalsStand, Has, Exists
    <2>1. Has(s, Approved) /\ runs[s].route \in {NoRoute, "playwright"}
        BY DEF OldApprovalsStand
    <2>2. CASE s = r
        BY <2>1, <2>2, <1>5, MigrationNulls DEF Has, Exists
    <2> QED
        BY <2>1, <2>2, <1>4, <1>6 DEF Has
<1> QED
    BY <1>7, <1>8, <1>9, <1>10, <1>11

(* Every statement of an opening, every kill and every method preserves    *)
(* the invariant.                                                          *)
LEMMA NextPreserves == MigrationInv /\ [Next]_vars => MigrationInv'
<1> SUFFICES ASSUME MigrationInv, [Next]_vars PROVE MigrationInv'
    OBVIOUS
<1>1. CASE UNCHANGED vars
    BY <1>1 DEF vars, MigrationInv, TypeOK, Exists, Has, RowInv, PlaceInv,
                OldApprovalsStand
<1>2. CASE Next
    <2>1. PICK p \in Processes : Open(p) \/ Crash(p) \/ Serve(p)
        BY <1>2 DEF Next
    <2>2. CASE BackfillRoutes(p) \/ BackfillLocks(p)
        BY <2>2, BackfillSteps
    <2>3. CASE Serve(p)
        BY <2>3, ServeStep
    <2> QED
        BY <2>1, <2>2, <2>3, SchemaSteps DEF Open
<1> QED
    BY <1>1, <1>2

(* The invariant of the opening holds throughout, for any number of        *)
(* processes, runs and kills (RunStore._initialize).                       *)
THEOREM MigrationInvariance == MigrationSpec => []MigrationInv
<1>1. Init => MigrationInv
    BY InitEstablishes
<1>2. MigrationInv /\ [Next]_vars => MigrationInv'
    BY NextPreserves
<1> QED
    BY <1>1, <1>2, PTL DEF MigrationSpec

(* A process that serves never meets a row or a schema that is not         *)
(* completely migrated, whoever else is opening the database.              *)
THEOREM MigrationCompletes == MigrationSpec => []ServedRowsAreComplete
<1>1. MigrationInv => ServedRowsAreComplete
    BY DEF MigrationInv, PlaceInv, RowInv, ServedRowsAreComplete,
           RowIsComplete, Has, Exists
<1> QED
    BY <1>1, MigrationInvariance, PTL

(* Runs an older release had approved stay approved and on Playwright.     *)
THEOREM OldApprovalsAreKept == MigrationSpec => []OldApprovalsStand
<1>1. MigrationInv => OldApprovalsStand
    BY DEF MigrationInv
<1> QED
    BY <1>1, MigrationInvariance, PTL

(* A late opening changes no decision that is on record.                   *)
THEOREM DecisionsSurviveOpening == MigrationSpec => LateOpeningKeepsDecisions
<1>1. MigrationInv /\ [Next]_vars => [\A r \in RunIds : DecisionKept(r)]_vars
    <2> SUFFICES ASSUME MigrationInv, Next, NEW r \in RunIds,
                        Exists(r), runs[r].route # NoRoute
                 PROVE  \/ runs'[r].route = runs[r].route
                        \/ /\ \E p \in Processes : pc[p] = "serving"
                           /\ pc' = pc
                           /\ ~runs[r].locked
        BY DEF DecisionKept
    <2>1. runs[r] \in Row /\ runs \in [RunIds -> Row \cup {NoRun}]
        BY DEF MigrationInv, TypeOK, Exists
    <2>2. PICK p \in Processes : Open(p) \/ Crash(p) \/ Serve(p)
        BY DEF Next
    <2>3. CASE Serve(p)
        <3>1. PICK s \in RunIds : \/ Insert(s) \/ Reroute(s) \/ Approve(s)
                                  \/ Reject(s) \/ ClaimNext(s) \/ Requeue(s)
                                  \/ Complete(s)
            BY <2>3 DEF Serve
        <3>2. CASE Reroute(s)
            BY <2>1, <2>3, <3>2 DEF Serve, Reroute
        <3>3. CASE Insert(s)
            BY <2>1, <3>3 DEF Insert, Exists
        <3> QED
            BY <2>1, <3>1, <3>2, <3>3
            DEF Approve, Reject, ClaimNext, Requeue, Complete, Row
    <2>4. CASE BackfillRoutes(p) \/ BackfillLocks(p)
        BY <2>1, <2>4 DEF BackfillRoutes, BackfillLocks, Row
    <2>5. CASE ~(Serve(p) \/ BackfillRoutes(p) \/ BackfillLocks(p))
        BY <2>2, <2>5
        DEF Open, Start, CreateTable, ReadColumns, AddColumn, DuplicateColumn,
            CreateIndex, Crash
    <2> QED
        BY <2>3, <2>4, <2>5
<1> QED
    BY <1>1, MigrationInvariance, PTL
    DEF MigrationSpec, LateOpeningKeepsDecisions

-----------------------------------------------------------------------------
(* Every opening comes to an end *)

(* How many columns a table with the columns C still lacks.                *)
Lacking(C) == Cardinality(Schema \ C)

(* The process will lose a race: a column it is going to add is there.     *)
Stale(p) == missing[p] \cap columns # {}

Rank(place) ==
    CASE place = "down" -> 7
      [] place = "script" -> 6
      [] place = "info" -> 5
      [] place = "alter" -> 4
      [] place = "routes" -> 3
      [] place = "locks" -> 2
      [] place = "index" -> 1
      [] place = "serving" -> 0

(* A bound on the statements a process still has to run before it serves:  *)
(* those of this opening, those of the next one if it is going to lose a   *)
(* race, and those of the races it may lose for the columns to come.       *)
LeftToOpen(p) == Rank(pc[p]) + (IF Stale(p) THEN 4 ELSE 0) + 5 * Lacking(columns)

(* Every statement of an opening brings the process nearer to serving,     *)
(* a lost race included, and nothing that another process does throws it   *)
(* back: only its own kill does (_initialize, which starts again from its  *)
(* first statement and reads the columns once).                            *)
OpeningsAdvance ==
    [][\A p \in Processes :
            /\ Open(p) => LeftToOpen(p)' < LeftToOpen(p)
            /\ ~Crash(p) => LeftToOpen(p)' <= LeftToOpen(p)]_vars

LEMMA LackingShrinks ==
    ASSUME NEW C \in SUBSET Schema, NEW D \in SUBSET Schema, C \subseteq D
    PROVE  /\ Lacking(C) \in Nat /\ Lacking(D) \in Nat
           /\ Lacking(D) <= Lacking(C)
           /\ C # D => Lacking(D) < Lacking(C)
<1>1. IsFiniteSet(Schema)
    <2>1. Schema = (((({} \cup {"client_id"}) \cup {"workspace_path"})
                        \cup {"routing_json"}) \cup {"route_locked_at"}) \cup {"run_id"}
        BY AddedColumns DEF Schema
    <2>2. IsFiniteSet((({} \cup {"client_id"}) \cup {"workspace_path"})
                        \cup {"routing_json"})
        BY FS_EmptySet, FS_AddElement
    <2> QED
        BY <2>1, <2>2, FS_AddElement
<1>2. IsFiniteSet(Schema \ C)
    BY <1>1, FS_Subset
<1>3. /\ IsFiniteSet(Schema \ D)
      /\ Cardinality(Schema \ D) <= Cardinality(Schema \ C)
      /\ Cardinality(Schema \ C) = Cardinality(Schema \ D) => Schema \ C = Schema \ D
    BY <1>2, FS_Subset
<1>4. Cardinality(Schema \ C) \in Nat /\ Cardinality(Schema \ D) \in Nat
    BY <1>2, <1>3, FS_CardinalityType
<1>5. C # D => Schema \ C # Schema \ D
    OBVIOUS
<1> QED
    BY <1>3, <1>4, <1>5 DEF Lacking

LEMMA RankInNat ==
    ASSUME NEW place \in Places
    PROVE  Rank(place) \in 0..7
BY DEF Places, Rank

(* No step takes a column away.                                            *)
LEMMA ColumnsGrow ==
    ASSUME MigrationInv, Next
    PROVE  /\ columns \in SUBSET Schema /\ columns' \in SUBSET Schema
           /\ columns \subseteq columns'
<1>1. MigrationInv'
    BY NextPreserves
<1>2. columns \subseteq columns'
    BY DEF Next, Open, Start, CreateTable, ReadColumns, AddColumn, DuplicateColumn,
           BackfillRoutes, BackfillLocks, CreateIndex, Crash, Serve
<1> QED
    BY <1>1, <1>2 DEF MigrationInv, TypeOK

LEMMA LeftInNat ==
    ASSUME MigrationInv, NEW p \in Processes
    PROVE  LeftToOpen(p) \in Nat
<1>1. columns \in SUBSET Schema /\ pc[p] \in Places
    BY DEF MigrationInv, TypeOK
<1>2. Rank(pc[p]) \in 0..7 /\ Lacking(columns) \in Nat
    BY <1>1, RankInNat, LackingShrinks
<1> QED
    BY <1>2 DEF LeftToOpen

(* The statements of an opening, one by one.                               *)
LEMMA OwnStatement ==
    ASSUME MigrationInv, NEW p \in Processes, Open(p)
    PROVE  LeftToOpen(p)' < LeftToOpen(p)
<1> DEFINE before == Lacking(columns)
           after == Lacking(columns')
<1>1. /\ columns \in SUBSET Schema /\ columns' \in SUBSET Schema
      /\ columns \subseteq columns'
    BY ColumnsGrow DEF Next
<1>2. /\ before \in Nat /\ after \in Nat /\ after <= before
      /\ columns # columns' => after < before
    BY <1>1, LackingShrinks
<1>3. /\ LeftToOpen(p) = Rank(pc[p]) + (IF Stale(p) THEN 4 ELSE 0) + 5 * before
      /\ LeftToOpen(p)' = Rank(pc'[p]) + (IF Stale(p)' THEN 4 ELSE 0) + 5 * after
    BY DEF LeftToOpen, Lacking, Rank
<1>4. pc \in [Processes -> Places] /\ missing \in [Processes -> SUBSET Added]
    BY DEF MigrationInv, TypeOK
<1> HIDE DEF before, after
<1>5. CASE Start(p) \/ CreateIndex(p) \/ BackfillRoutes(p) \/ BackfillLocks(p)
    <2>1. columns' = columns /\ missing' = missing
        BY <1>5 DEF Start, CreateIndex, BackfillRoutes, BackfillLocks
    <2>2. \/ pc[p] = "down" /\ pc'[p] = "script"
          \/ pc[p] = "index" /\ pc'[p] = "serving"
          \/ pc[p] = "routes" /\ pc'[p] = "locks"
          \/ pc[p] = "locks" /\ pc'[p] = "index"
        BY <1>4, <1>5 DEF Start, CreateIndex, BackfillRoutes, BackfillLocks, Goto
    <2>3. Rank(pc'[p]) = Rank(pc[p]) - 1 /\ Rank(pc[p]) \in Nat
        BY <2>2 DEF Rank
    <2>4. Stale(p)' <=> Stale(p)
        BY <2>1 DEF Stale
    <2> QED
        BY <1>2, <1>3, <2>3, <2>4
<1>6. CASE CreateTable(p)
    <2>1. pc[p] = "script" /\ pc'[p] = "info" /\ missing' = missing
        BY <1>4, <1>6 DEF CreateTable, Goto
    <2>2. Rank(pc[p]) = 6 /\ Rank(pc'[p]) = 5
        BY <2>1 DEF Rank
    <2>3. columns = columns' => (Stale(p)' <=> Stale(p))
        BY <2>1 DEF Stale
    <2> QED
        BY <1>2, <1>3, <2>2, <2>3
<1>7. CASE ReadColumns(p)
    <2>1. /\ pc[p] = "info" /\ pc'[p] \in {"routes", "alter"}
          /\ missing'[p] = Added \ columns /\ columns' = columns
        BY <1>4, <1>7 DEF ReadColumns, Goto
    <2>2. Rank(pc[p]) = 5 /\ Rank(pc'[p]) \in {3, 4}
        BY <2>1 DEF Rank
    <2>3. ~Stale(p)'
        BY <2>1 DEF Stale
    <2> QED
        BY <1>2, <1>3, <2>2, <2>3
<1>8. ASSUME NEW c \in Added, AddColumn(p, c)
      PROVE  LeftToOpen(p)' < LeftToOpen(p)
    <2>1. pc[p] = "alter" /\ pc'[p] \in {"routes", "alter"} /\ columns # columns'
        BY <1>4, <1>8 DEF AddColumn, NextColumn, Goto
    <2>2. Rank(pc[p]) = 4 /\ Rank(pc'[p]) \in {3, 4}
        BY <2>1 DEF Rank
    <2> QED
        BY <1>2, <1>3, <2>1, <2>2
<1>9. ASSUME NEW c \in Added, DuplicateColumn(p, c)
      PROVE  LeftToOpen(p)' < LeftToOpen(p)
    <2>1. /\ pc[p] = "alter" /\ pc'[p] = "down" /\ columns' = columns
          /\ c \in missing[p] /\ c \in columns /\ missing'[p] = {}
        BY <1>4, <1>9 DEF DuplicateColumn, NextColumn, Goto
    <2>2. Rank(pc[p]) = 4 /\ Rank(pc'[p]) = 7
        BY <2>1 DEF Rank
    <2>3. Stale(p) /\ ~Stale(p)'
        BY <2>1 DEF Stale
    <2>4. after = before
        BY <2>1 DEF after, before
    <2> QED
        BY <1>2, <1>3, <2>2, <2>3, <2>4
<1> QED
    BY <1>5, <1>6, <1>7, <1>8, <1>9 DEF Open

(* What the others do: at worst they take a column away from it, and then  *)
(* there is one column less to race for.                                   *)
LEMMA OthersStatement ==
    ASSUME MigrationInv, NEW p \in Processes, NEW q \in Processes,
           \/ Serve(q)
           \/ q # p /\ (Open(q) \/ Crash(q))
    PROVE  LeftToOpen(p)' <= LeftToOpen(p)
<1> DEFINE before == Lacking(columns)
           after == Lacking(columns')
<1>1. /\ columns \in SUBSET Schema /\ columns' \in SUBSET Schema
      /\ columns \subseteq columns'
    BY ColumnsGrow DEF Next
<1>2. /\ before \in Nat /\ after \in Nat /\ after <= before
      /\ columns # columns' => after < before
    BY <1>1, LackingShrinks
<1>3. /\ LeftToOpen(p) = Rank(pc[p]) + (IF Stale(p) THEN 4 ELSE 0) + 5 * before
      /\ LeftToOpen(p)' = Rank(pc'[p]) + (IF Stale(p)' THEN 4 ELSE 0) + 5 * after
    BY DEF LeftToOpen, Lacking, Rank
<1>4. pc \in [Processes -> Places] /\ missing \in [Processes -> SUBSET Added]
    BY DEF MigrationInv, TypeOK
<1>5. pc'[p] = pc[p] /\ missing'[p] = missing[p]
    BY <1>4 DEF Open, Start, CreateTable, ReadColumns, AddColumn, DuplicateColumn,
                BackfillRoutes, BackfillLocks, CreateIndex, Crash, Serve, Goto
<1>6. Rank(pc[p]) \in Nat /\ Rank(pc'[p]) = Rank(pc[p])
    BY <1>4, <1>5, RankInNat
<1>7. columns = columns' => (Stale(p)' <=> Stale(p))
    BY <1>5 DEF Stale
<1> HIDE DEF before, after
<1> QED
    BY <1>2, <1>3, <1>6, <1>7

(* No opening goes on for ever: for any number of processes, however they  *)
(* race for the columns, a process that is not killed has a bounded number *)
(* of statements left until it serves.                                     *)
THEOREM OpeningsAreFinite ==
    MigrationSpec =>
        /\ [](\A p \in Processes : LeftToOpen(p) \in Nat)
        /\ OpeningsAdvance
<1> DEFINE Advance ==
        \A p \in Processes :
            /\ Open(p) => LeftToOpen(p)' < LeftToOpen(p)
            /\ ~Crash(p) => LeftToOpen(p)' <= LeftToOpen(p)
<1>1. MigrationInv => \A p \in Processes : LeftToOpen(p) \in Nat
    BY LeftInNat
<1>2. ASSUME MigrationInv, Next PROVE Advance
    <2> SUFFICES ASSUME NEW p \in Processes
                 PROVE  /\ Open(p) => LeftToOpen(p)' < LeftToOpen(p)
                        /\ ~Crash(p) => LeftToOpen(p)' <= LeftToOpen(p)
        OBVIOUS
    <2>1. PICK q \in Processes : Open(q) \/ Crash(q) \/ Serve(q)
        BY <1>2 DEF Next
    <2>2. Open(p) => LeftToOpen(p)' < LeftToOpen(p)
        BY <1>2, OwnStatement
    <2>3. LeftToOpen(p) \in Nat /\ LeftToOpen(p)' \in Nat
        <3>1. columns' \in SUBSET Schema /\ pc'[p] \in Places
            BY <1>2, NextPreserves DEF MigrationInv, TypeOK
        <3>2. Rank(pc'[p]) \in 0..7 /\ Lacking(columns') \in Nat
            BY <3>1, RankInNat, LackingShrinks
        <3>3. LeftToOpen(p)' =
                Rank(pc'[p]) + (IF Stale(p)' THEN 4 ELSE 0) + 5 * Lacking(columns')
            BY DEF LeftToOpen, Lacking, Rank
        <3> QED
            BY <1>2, <3>2, <3>3, LeftInNat
    <2>4. CASE q = p /\ Open(p)
        BY <2>2, <2>3, <2>4
    <2>5. CASE q = p /\ Crash(p)
        BY <2>2, <2>5
    <2>6. CASE Serve(q) \/ (q # p /\ (Open(q) \/ Crash(q)))
        BY <1>2, <2>2, <2>6, OthersStatement
    <2> QED
        BY <2>1, <2>4, <2>5, <2>6
<1>3. MigrationInv /\ [Next]_vars => [Advance]_vars
    BY <1>2
<1>4. [][Advance]_vars => OpeningsAdvance
    BY DEF OpeningsAdvance
<1> HIDE DEF Advance
<1> QED
    BY <1>1, <1>3, <1>4, MigrationInvariance, PTL DEF MigrationSpec

=============================================================================

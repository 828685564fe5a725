SPECIFICATION FairMigrationSpec
CONSTANTS
    r1 = r1  r2 = r2  api = api  worker = worker
    RunIds = {r1, r2}
    Processes = {api, worker}
    MaxCrashes = 2
    NoRun = NoRun
    NoRoute = NoRoute
CHECK_DEADLOCK FALSE
INVARIANTS
    ServedRowsAreComplete
    OldApprovalsStand
PROPERTIES
    LateOpeningKeepsDecisions
    EveryProcessServes

SPECIFICATION FairRuntimeSpec
CONSTANTS
    v1 = v1  v2 = v2
    Pages = 3
    MaxRetries = 1
    Values = {v1, v2}
    NoValue = NoValue
    NoPage = 0
CHECK_DEADLOCK FALSE
INVARIANTS
    NoPageIsLost
    StatusIsHonest
    ItemsAreSound
PROPERTIES
    VisitsAreBudgeted
    RunsEnd

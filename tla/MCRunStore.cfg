SPECIFICATION BoundedSpec
CONSTANTS
    r1 = r1  r2 = r2  k1 = k1  k2 = k2  q1 = q1  q2 = q2  a1 = a1
    RunIds = {r1, r2}
    Keys = {k1, k2}
    Requests = {q1, q2}
    Actors = {a1}
    Details <- MCDetails
    Reasons <- MCReasons
    CallerRows <- MCCallerRows
    StaleMinutes = 1
    MaxLag = 0
    MaxClock = 2
    LastCreate = 0
    MaxExtras = 1
    NoRun = NoRun
    NoApproval = NoApproval
    NoTime = NoTime
    NoResult = NoResult
    NoTag = NoTag
CHECK_DEADLOCK FALSE
SYMMETRY Interchangeable
INVARIANTS
    KeyBindsOneRequest
    OnlyApprovedRunsAreLocked
    AttemptsAreAccounted
    NoRouteDrift
PROPERTIES
    RowsKeepTheirContract
    EndedRunsStayEnded
    ImplementsLifecycle

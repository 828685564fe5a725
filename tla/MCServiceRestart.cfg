SPECIFICATION FairSpec
CONSTANTS
    r1 = r1  r2 = r2  k1 = k1  k2 = k2  t1 = t1  a1 = a1
    w1 = w1  w2 = w2  c1 = c1  c2 = c2
    RunIds = {r1}
    Keys = {k1}
    Requests <- PublicRequests
    Actors = {a1}
    Details <- AllConfirmed
    Reasons <- MCReasons
    CallerRows <- MCCallerRows
    StaleMinutes = 1
    MaxLag = 0
    Tasks <- MCTasks
    Tenants = {}
    NoTenant = NoTenant
    Calls = {c1}
    Workers = {w1}
    Publishers <- OnePublisher
    RouteFor <- MCRouteFor
    ApiBrowserUse = TRUE
    WebhookHttps <- Enabled
    WorkerBrowserUse <- Enabled
    Once = FALSE
    Manifests <- AllManifests
    AttemptMinutes = 9
    MaxClock = 3
    MaxCalls = 2
    MaxCrashes = 1
    MaxEdits = 0
    QuietFrom = 2
    NoRun = NoRun
    NoApproval = NoApproval
    NoTime = NoTime
    NoResult = NoResult
    NoTag = NoTag
    NoCall = NoCall
    NoReport = NoReport
CHECK_DEADLOCK FALSE
PROPERTIES
    RunningRunsEnd

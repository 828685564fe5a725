SPECIFICATION GateSpec
CONSTANTS
    q1 = q1  q2 = q2  q3 = q3  h1 = h1  h2 = h2  h3 = h3
    Requests = {q1, q2, q3}
    Hosts = {h1, h2, h3}
    Approved = {h1, h2}
    AllowPrivate = FALSE
    BlockedLimit = 2
    NoHost = NoHost
    NoAnswer = NoAnswer
SYMMETRY Interchangeable
CHECK_DEADLOCK FALSE
INVARIANTS
    PagesSeeOnlyVettedResponses
    RefusalsAreListed
PROPERTIES
    CachedAnswersSettle

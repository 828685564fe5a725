SPECIFICATION BrokerSpec
CONSTANTS
    s1 = s1  s2 = s2  a1 = a1
    Sessions = {s1, s2}
    Adapters = {a1}
    Unknown = Unknown
    MaxFaults = 2
    NoAdapter = NoAdapter
SYMMETRY Interchangeable
CHECK_DEADLOCK FALSE
INVARIANTS
    FilesAreRemoved
    LaunchesAreAudited
    OutcomesAreAudited

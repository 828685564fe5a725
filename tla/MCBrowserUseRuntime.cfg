SPECIFICATION ObservedSpec
CONSTANTS
    h1 = h1  h2 = h2  h3 = h3
    Upstream <- MCUpstream
    Excluded <- MCExcluded
    Allowed <- MCAllowed
    Required <- MCRequired
    Hosts = {h1, h2, h3}
    Approved = {h1, h2}
    Blank = Blank
    MaxSteps = 3
    Durations = {0, 12, 40}
    Usages <- MCUsages
    Windows = {0, 1, 27}
    Limits = {1, 20, 100}
    Unknown = Unknown
    NoMetrics = NoMetrics
    NoEvidence = NoEvidence
CHECK_DEADLOCK FALSE
INVARIANTS
    OnlyReadOnlyRunsReturn
    EvidenceIsClean
    MetricsMatchEvidence
    SummaryIsSound

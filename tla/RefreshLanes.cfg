\* One replica whose lanes meet each other's jobs; two replicas one of which
\* loses its session, its life or its task; one replica with a change of the
\* catalog and a scan that fails.
SPECIFICATION MCSpec
CONSTANTS
    leader = leader
    standby = standby
    warrantA = warrantA
    warrantB = warrantB
    quotes = quotes
    discovery = discovery
    NoJob = NoJob
    Keys <- TwoWarrants
    QuoteOutcomes = {"AVAILABLE", "MISSING"}
    OtherOutcomes = {"AVAILABLE", "ERROR"}
    Replicas = {leader, standby}
    Items = {warrantA, warrantB}
    Lanes = {quotes, discovery}
    Quotes = quotes
    Discovery = discovery
    MaxLosses = 1
    MaxFaults = 1
    MaxEdits = 1
CHECK_DEADLOCK FALSE
INVARIANTS
    OneJobPerLane
    OverlapOnlyByLoss
PROPERTIES
    RemovedJobStaysRemoved
    LostLeaderStops
    RouteFoundIsRetried

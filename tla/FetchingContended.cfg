SPECIFICATION FairSpec
CONSTANTS
    Index <- MCOneIndex
    Package <- MCTwoPackages
    Version <- MCVersion
    None = None
    Pending = Pending
    Failed = Failed
    Absent = Absent
    Priority <- MCOnePriority
    Serves <- MCBothScope
    Lists <- MCBothLists
    Source <- MCBothSource
    Pin <- MCBothPins
    MaxConcurrentFetches = 1
    MaxFetchRetries = 1
    PrefetchDepth = 2
    MaxEnvironments = 1
    MaxRuns = 1
    MaxFailures = 2
    MaxLeftOver = 0
CHECK_DEADLOCK FALSE
INVARIANTS
    TypeOK
PROPERTIES
    WaitsEnd

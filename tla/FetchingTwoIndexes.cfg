SPECIFICATION FairSpec
CONSTANTS
    Index <- MCTwoIndexes
    Package <- MCTorch
    Version <- MCVersion
    None = None
    Pending = Pending
    Failed = Failed
    Absent = Absent
    Priority <- MCTwoPriority
    Serves <- MCTorchScopes
    Lists <- MCTorchLists
    Source <- MCTorchSource
    Pin <- MCTorchPins
    MaxConcurrentFetches = 1
    MaxFetchRetries = 1
    PrefetchDepth = 1
    MaxEnvironments = 2
    MaxRuns = 2
    MaxFailures = 1
    MaxLeftOver = 1
CHECK_DEADLOCK FALSE
INVARIANTS
    DependenciesKnown
PROPERTIES
    SlotsFilledOnce
    ListsAdvance

SPECIFICATION Spec
CONSTANTS
    Process = {p1, p2}
    Key <- MCKey
    Value <- MCValue
    Describes <- MCDescribes
    Size <- MCSize
    MaxSize = 2
    FlushThreshold = 2
    MaxTime = 1
    MaxInsertions = 3
    MaxFaults = 1
    None = None
    Partial = Partial
SYMMETRY Symmetry
INVARIANTS
    NothingOrphaned
PROPERTIES
    ImplementsStore
    MeasuredWithinLimit
    OldestGoFirst

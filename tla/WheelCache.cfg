SPECIFICATION Spec
CONSTANTS
    Command = {"install"}
    Key <- MCKey
    Contents <- MCContents
    Genuine = {"numpy-1"}
    Pinned = {}
    MaxFiles = 3
    Concurrent = FALSE
    Interruptible = FALSE
    MaxTime = 1
    Torn = Torn
    None = None
INVARIANTS
    CompleteUnlessListCut
    ArchivesWhole

SPECIFICATION FairSpec
CONSTANTS
    Package <- MCPackage
    Root = "root"
    RootVersion <- MCRootVersion
    Version <- MCVersion
    None = None
    Indexes <- MCContended
    MaxLearnedWatched = 2
INVARIANTS
    PropagationComplete
    WatchListsAgree
PROPERTIES
    Terminates

SPECIFICATION FairSpec
CONSTANTS
    Package <- MCPackage
    Root = "root"
    RootVersion <- MCRootVersion
    Version <- MCVersion
    None = None
    Indexes <- MCOrdinary
    MaxLearnedWatched = 100
INVARIANTS
    TypeOK
    ConflictHolds
    TrailOrdered
    StoreEntailed
    ClausesHaveTerms
    RefusalSound
    SolutionSound
    SolutionNeeded
PROPERTIES
    BackjumpRepairs
    ImplementsResolution
    Terminates

SPECIFICATION Spec
CONSTANTS
    Package <- MCPackage
    Root = "root"
    RootVersion <- MCRootVersion
    Version <- MCVersion
    None = None
    Indexes <- MCPinned
    MaxLearnedWatched = 100
INVARIANTS
    SolutionSound

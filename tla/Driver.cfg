SPECIFICATION Spec
CONSTANTS
    None = None
    Default = "pypi"
    Package <- MCPackage
    Version <- MCVersion
    Extra <- MCExtra
    Explicit <- MCExplicit
    Sources <- MCSources
    Torch <- MCTorch
    Dependencies <- MCDependencies
    Groups <- MCGroups
    Requested <- MCRequested
    Pin <- MCPin
    RangeOverride <- MCRangeOverride
    Substitutions <- MCSubstitutions
    PreRelease <- MCPreRelease
    PreReleases = "if-necessary"
    Ascending = FALSE
    Published <- MCPublished
    Declares <- MCDeclares
    MaxFailures = 1
INVARIANTS
    TypeOK
    RouterSound
    LatestReached
    DirectFromDefault
    RootsFallBackLast
    CandidatesAllowed
    RequirementsFaithful

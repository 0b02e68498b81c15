SPECIFICATION Spec
CONSTANTS
    None = None
    Default = "pypi"
    Package <- MCDiamond
    Version <- MCVersion
    Extra <- Nothing
    Explicit = {}
    Sources <- MCDiamondSources
    Torch <- MCTorch
    Dependencies <- MCDependencies
    Groups = {}
    Requested = {}
    Pin <- MCDiamondPin
    RangeOverride <- MCDiamondPin
    Substitutions = {}
    PreRelease <- MCPreRelease
    PreReleases = "allow"
    Ascending = FALSE
    Published <- MCDiamondPublished
    Declares <- MCDiamondDeclares
    MaxFailures = 0
INVARIANT RequirementsOfOrigin

SPECIFICATION Spec

CONSTANTS
    a = a
    b = b
    c = c
    None = None
    MaxU32 = 100
    MaxText = 1
    Package = {a, b, c}
    Place <- MCPlace
    Within <- MCWithin
    Holds <- MarkerHolds
    Hosts <- MCHosts
    Files <- MCFiles
    Projects <- MCProjects
    Spelling <- MCSpelling
    Interpreters <- MCInterpreters
    Upgrades <- MCUpgrades
    MaxFaults = 1
    Ordered <- MCOrdered

INVARIANT ResolvedForEnvironment

CHECK_DEADLOCK FALSE

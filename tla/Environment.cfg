SPECIFICATION Spec
CONSTANTS
    Env = {"e1", "e2"}
    Wheel <- MCWheel
    NameOf <- MCNameOf
    Contents <- MCContents
    Launchers <- MCLaunchers
    SitePackages <- MCSitePackages
    Protected = {"pip"}
    Locks <- MCLocks
    CanReflink = FALSE
    Bundled <- MCBundled
    MaxFailures = 1
    None = None
INVARIANTS
    InstalledWhole
    

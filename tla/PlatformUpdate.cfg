SPECIFICATION Spec
CONSTANTS
    Ops <- MCOps
    Versions <- MCVersions
    FirstVersion = 2
    FirstReleases <- MCFirstReleases
    ReleaseKeep = 2
    MaxEvents = 2
    MaxMishaps = 2
    MaxWrites = 1
    MaxInstalls = 2
    MaxWebUpdates = 1
INVARIANTS
    ChangeIsCold
    RestIsClean
    InstallIsAtomic
PROPERTIES
    UpgradeIsSafe
    OutcomeIsTrue
CHECK_DEADLOCK FALSE

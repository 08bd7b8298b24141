SPECIFICATION Spec
CONSTANTS
    MaxAttempts = 2
    None = None
    Sellers = {a, b}
    Threads = {r1, r2}
    Lane = Lane
    Logins = {l1, l2}
    MaxRequests = 2
    MaxFaults = 2
    MaxCrashes = 1
    Calls = {1, 2}
    OpsLane = OpsLane
    MaxChanges = 1
    MaxErrors = 1
    MaxKills = 1
    Handlers = {h1, h2}
    MaxUsers = 2
    MaxTokens = 3
    MaxSessions = 2
    FreeTries = 2
    MaxCalls = 3
    MaxUpsets = 1
    Probers = {p1, p2}
    NoProber = NoProber
    MaxClaims = 2
    MaxEditions = 2
    MaxChurn = 1
SYMMETRY Symmetry
INVARIANTS OneWriter MappingFollowsSeller ReservationsAreReleased ChangesAreExact AdminRemains StorageIsKept RevocationHolds
PROPERTY DiscoveriesAdvance
CHECK_DEADLOCK FALSE
VIEW View

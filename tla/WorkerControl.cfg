CONSTANTS
    Accounts = {1, 2}
    Offered <- MCOffered
    DefaultAccount = 2
    Pids = {p1, p2, p3}
    Threads = {"r1", "r2"}
    Boot = "r1"
    Watcher = "w"
    MaxRunning = 1
    MaxRequests = 2
    Faults <- Kinds
    MaxEvents = 2
SYMMETRY PidSymmetry
SPECIFICATION Spec
CHECK_DEADLOCK FALSE
INVARIANTS OneWorker NoneForgotten StopHolds DrainIsFinal
VIEW View

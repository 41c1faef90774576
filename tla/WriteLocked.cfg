SPECIFICATION Spec
CONSTANTS
    Procs = {p1, p2}
    NoProc = NoProc
    Records = {"release:1", "release:2", "entry:1/1"}
    Commands = {"release.cancel", "entry.add"}
    Plan <- MCPlan
    Locking = {"release.cancel", "entry.add"}
    MaxRuns = 3
    MaxCrashes = 1
INVARIANTS
    TypeOK
    NoLostUpdate
PROPERTIES
    ImplementsAtomicLedger
    LockIsReleased
CHECK_DEADLOCK FALSE

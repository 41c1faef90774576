SPECIFICATION Spec
CONSTANTS
    Procs = {p1, p2}
    NoProc = NoProc
    Records = {"release:1", "release:2"}
    Commands = {"release.update", "release.cancel", "release.finalize"}
    Plan <- MCMixedPlan
    Locking = {"release.update", "release.cancel"}
    MaxRuns = 2
    MaxCrashes = 0
CHECK_DEADLOCK FALSE
PROPERTY LogKeepsEvents

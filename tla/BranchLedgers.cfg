SPECIFICATION MCSpec
CONSTANTS
    main = main
    feature = feature
    p1 = p1
    p2 = p2
    c1 = c1
    c2 = c2
    NoProc = NoProc
    NoCommit = NoCommit
    Main = main
    Refs <- MCRefs
    Procs <- MCProcs
    Commits <- MCCommits
    Sources <- MCSources
    Guard = "on"
    MaxId = 5
    MaxRuns = 4
    MaxCrashes = 1
SYMMETRY Processes
INVARIANTS
    TypeOK
PROPERTIES
    OwnersStayOnce
    WritesStayInLedger
    EventsSurvive
    MergeIsComplete

SPECIFICATION Spec
CONSTANTS
    p1 = p1
    p2 = p2
    Versions <- MCVersions
    Newest <- MCNewest
    Previous <- MCPrevious
    Candidates <- MCCandidates
    Empty <- MCEmpty
    FirstFiles <- MCFirstFiles
    Procs <- MCProcs
    MaxRuns = 3
    MaxChanges = 1
SYMMETRY Processes
INVARIANTS
    TypeOK
PROPERTIES
    OthersKept
    SectionsOnce
    CanonicalOrder
    RebuildStable
    FoldedOnce

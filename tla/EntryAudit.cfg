SPECIFICATION MCSpec
CONSTANTS
    r1 = r1
    r2 = r2
    c1 = c1
    c2 = c2
    t1 = t1
    None = None
    Releases <- MCReleases
    Refs <- MCRefs
    Texts <- MCTexts
    Inputs <- MCInputs
    Batches <- MCBatches
    Annotations <- MCAnnotations
    MaxId = 3
    MaxCommands = 3
    MaxTorn = 1
INVARIANTS
    TypeOK
    CountExact
PROPERTIES
    TargetsStayResolved
    MoveConserves
    ReviewIsKept
CHECK_DEADLOCK FALSE

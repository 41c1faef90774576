SPECIFICATION Spec
CONSTANTS
    d1 = d1
    d2 = d2
    issue = issue
    Dates <- MCDates
    SourceRefs <- MCSourceRefs
    Touching <- MCTouching
    Found <- MCFound
    NoDate = NoDate
    NoSheet = NoSheet
    MaxCommits = 4
    MaxForks = 1
    MaxEntries = 1
SYMMETRY Sym
INVARIANTS
    TypeOK
    PublishedFollows
    GatesAgree

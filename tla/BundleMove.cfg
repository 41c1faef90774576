SPECIFICATION Spec
CONSTANTS
    Entries <- MCEntries
    NoDir = NoDir
    Gone = Gone
    MaxRuns = 3
    MaxErrors = 2
    MaxKills = 2
INVARIANTS
    TypeOK
    SourceRecoverable
PROPERTIES
    UndoRestores
    EventIsTrue
CHECK_DEADLOCK FALSE

SPECIFICATION Spec
CONSTANTS
    Files <- MCFiles
    NoFile = NoFile
    NoReceipt = NoReceipt
    NoJob = NoJob
    MaxEdits = 2
    MaxRuns = 2
    MaxFaults = 1
    MaxKills = 2
INVARIANTS
    TypeOK
    EditsSurvive
    ReceiptIsTrue
    StatusAgrees
CHECK_DEADLOCK FALSE

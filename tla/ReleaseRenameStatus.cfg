SPECIFICATION ImportSpec
CONSTANTS
    None = None
    Versions <- MCVersions
    Identity <- MCIdentity
    Semver <- MCSemver
    NameOrder <- MCNameOrder
    Dates = {1, 2}
    CreateStatuses = {"planned", "released", "canceled"}
    MaxEvents = 8
    Tagged = {"1", "2"}
    TwiceTagged = {}
    TagDate <- MCTagDate
    MaxCommands = 4
CHECK_DEADLOCK FALSE
PROPERTY RenamePreservesStatus

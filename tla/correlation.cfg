SPECIFICATION Spec
CONSTANTS
    Length <- MCLength
    NoBuild = NoBuild
    NoDate = NoDate
    ADObjects <- MCObjects
    AgentRecords <- MCAgents
    NoObject = NoObject
    NoAgent = NoAgent
    Tables <- MCTables
    Today = 3
    WarningDays = 2
INVARIANTS
    TypeOK
    FrameIsReference
    NothingVanishes
    RightMachine
    PartialUnderstates
    AmbiguousKeysCounted
CHECK_DEADLOCK FALSE

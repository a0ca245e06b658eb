SPECIFICATION MCSpec
CONSTANTS
    Processes = {"cli", "worker"}
    Lookers = {"worker"}
    Answers <- MCAnswers
    Bundled <- MCBundled
    MaxAge = 1
    LastTick = 2
    NoBuild = NoBuild
    NoDate = NoDate
    NoFile = NoFile
    Clients <- MCClients
    Timeout = 2
    NoLimit = NoLimit
INVARIANTS
    TypeOK
    ExitIsHonest
    FreshTables
    DeadlineShared
CHECK_DEADLOCK FALSE

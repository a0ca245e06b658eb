SPECIFICATION MCSpec
CONSTANTS
    Processes = {"cli"}
    Lookers = {}
    Answers <- MCAnswers
    Bundled <- MCBundled
    MaxAge = 1
    LastTick = 2
    NoBuild = NoBuild
    NoDate = NoDate
    NoFile = NoFile
    Clients <- MCClients
    Timeout = 2
    NoLimit = NoLimit
PROPERTY
    CommandEnds
CHECK_DEADLOCK FALSE

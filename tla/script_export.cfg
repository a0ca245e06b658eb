SPECIFICATION Spec
CONSTANTS
    Calls = {1, 2}
    PollTimeout = 1
    UrlLife = 2
    ModesOf <- AnyAndSentinelOne
    Attempts <- TwiceAndOnce
    NoText = NoText
INVARIANTS
    TypeOK
    OwnUpload
    SessionLeftOnlyAfterFault
    ObjectLeftOnlyAfterFault
PROPERTY
    CallsEnd
CHECK_DEADLOCK FALSE

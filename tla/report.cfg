SPECIFICATION Spec
CONSTANTS
    Runs = {1, 2, 3}
    FrameRows = {"w1", "w2", "w3"}
    Row <- MCRow
    Results <- MCResults
    HasSplunk <- OnlyTheFirst
    Months = {20, 23, 24}
    TrendLength = 2
    BatchSize = 2
    Crashes = 1
    SummaryEvent = "summary"
    NoRun = NoRun
    NoMonth = NoMonth
INVARIANTS
    TypeOK
    SummaryMarksFullRun
    ReportOfItsQuarter
    ReportComplete
CHECK_DEADLOCK FALSE

----------------------------- MODULE RunHistory -----------------------------
(***************************************************************************)
(* Reading the run history back (scheduling/history.py): the quarters of   *)
(* quarterly_report.py, the report that is built by several reads, each of *)
(* which sees what is committed by then, and what a device is said to be   *)
(* in it.  Beside it the other reader of a run, Splunk, which is sent the  *)
(* run's rows in batches before the run is committed (splunk_export.py).   *)
(*                                                                         *)
(* Who writes the history is RunLedger: RunLifecycle implements it.        *)
(***************************************************************************)
EXTENDS Integers, Sequences, SequencesExt

CONSTANTS
    Runs,           \* run ids, in the order of started_at
    FrameRows,      \* the rows a frame may have
    Row,            \* what a row says: host, status, eol, server
    Results,        \* what a callback may settle a run with: an outcome, a frame
    HasSplunk,      \* whether HEC is configured when a run's callback loads config
    Months,         \* bound: when runs start, months from January of year 0
    TrendLength,    \* --quarters
    BatchSize,      \* BATCH_SIZE
    Crashes,        \* bound: deaths of a callback
    SummaryEvent,   \* the summary of a run, as an event
    NoRun, NoMonth

ASSUME HistoryAssumption ==
    /\ Runs \subseteq Nat /\ Months \subseteq Nat /\ SummaryEvent \notin FrameRows
    /\ TrendLength \in Nat \ {0} /\ BatchSize \in Nat \ {0} /\ Crashes \in Nat
    /\ NoRun \notin Runs /\ NoMonth \notin Months
    /\ \A x \in Results : /\ x.outcome \in {"complete", "partial"}
                          /\ x.frame \subseteq FrameRows /\ IsFiniteSet(x.frame)

ASSUME RowAssumption ==
    \A k \in FrameRows : Row[k].eol \in {"end_of_life", "eol_soon", "supported", "unknown"}

VARIABLES
    status, table,  \* the ledger
    started,        \* CorrelationRun.started_at
    now,            \* the month
    export,         \* a callback's export: its result, the events left to send
    sent,           \* the events Splunk has of a run, and the frames of summaries
    crashes,        \* history: deaths of a callback
    report          \* the report being built

vars == <<status, table, started, now, export, sent, crashes, report>>
Ledger == INSTANCE RunLedger WITH Keys <- FrameRows

-----------------------------------------------------------------------------
(* Quarters.  A moment is its month; the order within a month is that of    *)
(* the runs.                                                               *)
Quarter(year, number) == [year |-> year, number |-> number]
Of(month) == Quarter(month \div 12, (month % 12) \div 3 + 1)
StartOf(q) == 12 * q.year + 3 * q.number - 3
NextQuarter(q) ==
    IF q.number = 4 THEN Quarter(q.year + 1, 1) ELSE Quarter(q.year, q.number + 1)
EndOf(q) == StartOf(NextQuarter(q))
\* Variant: the year stays.
PreviousQuarterOfYear(q) ==
    IF q.number = 1 THEN Quarter(q.year, 4) ELSE Quarter(q.year, q.number - 1)
PreviousQuarter(q) ==
    IF q.number = 1 THEN Quarter(q.year - 1, 4) ELSE Quarter(q.year, q.number - 1)

Finished == {"complete", "partial"}
RowsOf(r) == {k \in FrameRows : table[r][k] > 0}
Latest(runs) ==
    IF runs = {} THEN NoRun
    ELSE CHOOSE r \in runs : \A s \in runs : started[s] < started[r] \/ (started[s] = started[r] /\ s =< r)

\* Variant: the bounds of the quarter are both inclusive.
LastFinishedRunInclusive(q) ==
    Latest({r \in Runs : /\ status[r] \in Finished
                         /\ started[r] >= StartOf(q) /\ started[r] =< EndOf(q)})
LastFinishedRun(q) ==
    Latest({r \in Runs : /\ status[r] \in Finished
                         /\ started[r] >= StartOf(q) /\ started[r] < EndOf(q)})
LatestFinishedQuarter ==
    LET r == Latest({s \in Runs : status[s] \in Finished}) IN Of(started[r])

-----------------------------------------------------------------------------
(* What the report says of a device: its worst row; a device is its         *)
(* hostname.                                                               *)
Severity == <<"end_of_life", "eol_soon", "supported", "unknown">>
Rank(k) == CHOOSE n \in 1..4 : Severity[n] = Row[k].eol
Hosts(rows) == {Row[k].host : k \in rows}
WorstRow(rows, h) ==
    CHOOSE k \in rows : /\ Row[k].host = h
                        /\ \A l \in rows : Row[l].host = h => Rank(k) =< Rank(l)
DevicesByEol(rows) ==
    [n \in 1..4 |-> {h \in Hosts(rows) : Rank(WorstRow(rows, h)) = n}]
HasAgent(rows, h) == \E k \in rows : Row[k].host = h /\ Row[k].status # "missing_agent"
\* "Highest risk: end-of-life OS with no agent."
HighestRisk(rows) == {h \in DevicesByEol(rows)[1] : ~HasAgent(rows, h)}

\* A point's counts, of all rows and of servers.
Tally(rows) == [s \in {Row[k].status : k \in rows} |-> Cardinality({k \in rows : Row[k].status = s})]
QuarterPoint(r) ==
    [quarter |-> Of(started[r]), run |-> r, counts |-> Tally(RowsOf(r)),
     serverCounts |-> Tally({k \in RowsOf(r) : Row[k].server})]

-----------------------------------------------------------------------------
(* The writers.                                                            *)
NoExport == [outcome |-> "none", frame |-> {}, left |-> <<>>]
NoReport == [at |-> "idle", quarter |-> Of(0), run |-> NoRun, next |-> Of(0), left |-> 0,
             trend |-> <<>>, rows |-> {}, meanwhile |-> FALSE]

Init ==
    /\ Ledger!Init
    /\ started = [r \in Runs |-> NoMonth] /\ now \in {m \in Months : \A n \in Months : m =< n}
    /\ export = [r \in Runs |-> NoExport]
    /\ sent = [r \in Runs |-> [rows |-> {}, summaries |-> {}]]
    /\ crashes = 0 /\ report = NoReport

MonthPasses ==
    /\ now' \in {m \in Months : m > now}
    /\ UNCHANGED <<status, table, started, export, sent, crashes, report>>

\* Variant: a run has its start when it is finished.
OpenUndated(r) ==
    /\ \A s \in Runs : s < r => status[s] # "absent"
    /\ Ledger!Open(r)
    /\ UNCHANGED <<started, now, export, sent, crashes, report>>
Open(r) ==
    /\ \A s \in Runs : s < r => status[s] # "absent"
    /\ Ledger!Open(r)
    /\ started' = [started EXCEPT ![r] = now]
    /\ UNCHANGED <<now, export, sent, crashes, report>>

\* Variant: the summary goes first.
EnvelopesSummaryFirst(frame) == <<SummaryEvent>> \o SetToSeq(frame)
Envelopes(frame) == Append(SetToSeq(frame), SummaryEvent)

\* A frame without rows is not exported.
Correlate(r) ==
    /\ status[r] = "pending" /\ export[r] = NoExport
    /\ \E x \in Results :
          export' = [export EXCEPT ![r] =
                        [outcome |-> x.outcome, frame |-> x.frame,
                         left |-> IF HasSplunk[r] /\ x.frame # {} THEN Envelopes(x.frame) ELSE <<>>]]
    /\ UNCHANGED <<status, table, started, now, sent, crashes, report>>

Taken(left) == IF Len(left) < BatchSize THEN Len(left) ELSE BatchSize
Batch(r) == SubSeq(export[r].left, 1, Taken(export[r].left))
Receives(r, events) ==
    sent' = [sent EXCEPT ![r] =
                [rows |-> @.rows \cup {e \in events : e # SummaryEvent},
                 summaries |-> @.summaries \cup
                                  (IF SummaryEvent \in events THEN {export[r].frame} ELSE {})]]

PostBatch(r) ==
    /\ export[r].left # <<>>
    /\ Receives(r, Range(Batch(r)))
    /\ export' = [export EXCEPT ![r].left = SubSeq(@, Taken(@) + 1, Len(@))]
    /\ UNCHANGED <<status, table, started, now, crashes, report>>

\* The POST fails, its batch received or not; the rest is not sent.
PostFails(r) ==
    /\ export[r].left # <<>>
    /\ Receives(r, Range(Batch(r))) \/ UNCHANGED sent
    /\ export' = [export EXCEPT ![r].left = <<>>]
    /\ UNCHANGED <<status, table, started, now, crashes, report>>

Meanwhile == report' = [report EXCEPT !.meanwhile = TRUE]

Commit(r) ==
    /\ export[r] # NoExport /\ export[r].left = <<>>
    /\ Ledger!Settle(r, export[r].outcome, export[r].frame)
    /\ export' = [export EXCEPT ![r] = NoExport]
    /\ Meanwhile
    /\ UNCHANGED <<started, now, sent, crashes>>

\* The callback dies and is delivered again, to correlate what the clock and
\* the lifecycle data say by then.
Crash(r) ==
    /\ export[r] # NoExport /\ crashes < Crashes
    /\ export' = [export EXCEPT ![r] = NoExport] /\ crashes' = crashes + 1
    /\ UNCHANGED <<status, table, started, now, sent, report>>

\* Every domain failed, or the callback did, or the sweep gave the run up.
Fail(r) ==
    /\ Ledger!Fail({r}) /\ export' = [export EXCEPT ![r] = NoExport]
    /\ UNCHANGED <<started, now, sent, crashes, report>>

-----------------------------------------------------------------------------
(* The report command; every read sees the last commit.                    *)
Reads == UNCHANGED <<status, table, started, now, export, sent, crashes>>

\* The quarter is given, or that of the client's latest finished run.
Ask ==
    /\ report.at \in {"idle", "done"}
    /\ \E q \in {Of(m) : m \in Months} \cup
               (IF \E r \in Runs : status[r] \in Finished THEN {LatestFinishedQuarter} ELSE {}) :
          report' = [NoReport EXCEPT !.at = "run", !.quarter = q]
    /\ Reads

ReadRun ==
    /\ report.at = "run"
    /\ LET r == LastFinishedRun(report.quarter)
       IN  report' = IF r = NoRun THEN NoReport
                     ELSE [report EXCEPT !.at = "trend", !.run = r,
                                         !.next = report.quarter, !.left = TrendLength]
    /\ Reads

ReadPoint ==
    /\ report.at = "trend" /\ report.left > 0
    /\ LET r == LastFinishedRun(report.next)
       IN  report' = [report EXCEPT
               !.trend = IF r = NoRun THEN @ ELSE <<QuarterPoint(r)>> \o @,
               !.next = PreviousQuarter(@), !.left = @ - 1]
    /\ Reads

ReadRows ==
    /\ report.at = "trend" /\ report.left = 0
    /\ report' = [report EXCEPT !.at = "done", !.rows = RowsOf(report.run)]
    /\ Reads

Next ==
    \/ MonthPasses
    \/ \E r \in Runs : \/ Open(r) \/ Correlate(r) \/ PostBatch(r) \/ PostFails(r)
                       \/ Commit(r) \/ Crash(r) \/ Fail(r)
    \/ Ask \/ ReadRun \/ ReadPoint \/ ReadRows

Spec == Init /\ [][Next]_vars

-----------------------------------------------------------------------------
(* Properties.                                                             *)

\* Types, and that the runs there are, and no others, have a start.
TypeOK ==
    /\ status \in [Runs -> {"absent", "pending", "failed"} \cup Finished]
    /\ \A r \in Runs : started[r] \in Months \cup {NoMonth}
    /\ \A r \in Runs : status[r] = "absent" <=> started[r] = NoMonth
    /\ now \in Months /\ crashes \in 0..Crashes
    /\ \A r \in Runs : /\ export[r] # NoExport => status[r] = "pending"
                       /\ sent[r].rows \subseteq FrameRows
                       /\ sent[r].summaries \subseteq SUBSET FrameRows
    /\ report.at \in {"idle", "run", "trend", "done"}

\* "A summary's presence marks its run as fully sent" (splunk_export): every
\* frame that a summary is of is there whole, though a batch failed, or the
\* callback died and exported another frame for the run.
SummaryMarksFullRun ==
    \A r \in Runs : \A frame \in sent[r].summaries : frame \subseteq sent[r].rows

\* A report is of its quarter (build_quarterly_report): its rows are of a
\* finished run that started in it; the trend ends with it, in order, without
\* a quarter twice or a quarter that is too far back, each of a finished run
\* that started in it; and the trend is not behind the rows.
In(r, q) == started[r] \div 3 = 4 * q.year + q.number - 1
ReportOfItsQuarter ==
    report.at = "done" =>
        LET last == Len(report.trend)
            index(i) == 4 * report.trend[i].quarter.year + report.trend[i].quarter.number
        IN  /\ status[report.run] \in Finished /\ In(report.run, report.quarter)
            /\ last > 0 /\ report.trend[last].quarter = report.quarter
            /\ report.trend[last].run >= report.run
            /\ \A i \in 1..last : /\ status[report.trend[i].run] \in Finished
                                  /\ In(report.trend[i].run, report.trend[i].quarter)
                                  /\ index(last) - index(i) < TrendLength
            /\ \A i, j \in 1..last : i < j => index(i) < index(j)

\* A report misses nothing (QuarterlyReport): no finished run of its quarter is
\* later than its run, no quarter of the trend that has a finished run is left
\* out, and its headline counts the rows it lists, unless a run was finished
\* between its reads.  Each device it lists is under one lifecycle status, of
\* which no row of the device is worse, and the devices at highest risk are
\* those.
ReportComplete ==
    report.at = "done" =>
        /\ ~report.meanwhile =>
              /\ \A r \in Runs : status[r] \in Finished =>
                    /\ In(r, report.quarter) => r =< report.run
                    /\ 4 * report.quarter.year + report.quarter.number - 1 - started[r] \div 3
                            \in 0..(TrendLength - 1)
                       => \E i \in 1..Len(report.trend) :
                             In(r, report.trend[i].quarter) /\ r =< report.trend[i].run
              /\ report.trend[Len(report.trend)].counts = Tally(report.rows)
        /\ \A h \in Hosts(report.rows) :
              LET worst == {n \in 1..4 : h \in DevicesByEol(report.rows)[n]}
                  its == {k \in report.rows : Row[k].host = h}
              IN  /\ \E n \in 1..4 : worst = {n} /\ \E k \in its : Row[k].eol = Severity[n]
                  /\ h \in HighestRisk(report.rows) <=>
                        /\ \E k \in its : Row[k].eol = "end_of_life"
                        /\ \A k \in its : Row[k].status = "missing_agent"
=============================================================================

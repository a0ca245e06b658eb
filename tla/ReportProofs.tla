----------------------------- MODULE ReportProofs -----------------------------
(***************************************************************************)
(* That a report misses nothing, for every history, frame and length of    *)
(* the trend; on top of the invariant of RunHistoryProofs.                 *)
(***************************************************************************)
EXTENDS RunHistoryProofs

(***************************************************************************)
(* What a report has read, as long as no run was finished since.           *)
(***************************************************************************)
\* The runs that the report's reads have looked at.
Looked(q) == Index(report.next) < Index(q) /\ Index(q) =< Index(report.quarter)
ReadInv ==
    ~report.meanwhile /\ report.at \in {"trend", "done"} =>
        /\ \A s \in Runs : FinishedIn(s, report.quarter) => s =< report.run
        /\ \A s \in Runs, q \in Quarters : FinishedIn(s, q) /\ Looked(q) =>
              \E i \in 1..Len(report.trend) :
                 report.trend[i].quarter = q /\ s =< report.trend[i].run
        /\ report.trend # <<>> =>
              report.trend[Len(report.trend)].counts = Tally(RowsOf(report.run))
        /\ report.at = "done" => report.rows = RowsOf(report.run)
ReadsInv == Inv /\ ReadInv

\* Nothing but a commit finishes a run, or gives it rows.
LEMMA OnlyCommitsFinish ==
  ASSUME Inv, [Next]_vars, UNCHANGED report, ~ \E r \in Runs : Commit(r)
  PROVE  /\ table' = table
         /\ \A s \in Runs, q \in Quarters : FinishedIn(s, q)' => FinishedIn(s, q)
<1>1. status \in [Runs -> Statuses] /\ started \in [Runs -> Months \cup {NoMonth}]
  BY DEF Inv, HistoryInv
<1>2. ASSUME NEW r \in Runs, Open(r)
      PROVE  /\ table' = table
             /\ \A s \in Runs, q \in Quarters : FinishedIn(s, q)' => FinishedIn(s, q)
  <2>1. /\ table' = table /\ status' = [status EXCEPT ![r] = "pending"]
        /\ started' = [started EXCEPT ![r] = now]
    BY <1>2 DEF Open, Ledger!Open
  <2>2. \A s \in Runs : status'[s] \in Finished => /\ s # r /\ status'[s] = status[s]
                                                   /\ started'[s] = started[s]
    BY <1>1, <2>1 DEF Finished
  <2> QED
    BY <2>1, <2>2 DEF FinishedIn
<1>3. ASSUME NEW r \in Runs, Fail(r)
      PROVE  /\ table' = table
             /\ \A s \in Runs, q \in Quarters : FinishedIn(s, q)' => FinishedIn(s, q)
  <2>1. /\ table' = table /\ started' = started
        /\ status' = [s \in Runs |-> IF s \in {r} THEN "failed" ELSE status[s]]
    BY <1>3 DEF Fail, Ledger!Fail
  <2>2. \A s \in Runs : status'[s] \in Finished => status'[s] = status[s]
    BY <2>1 DEF Finished
  <2> QED
    BY <2>1, <2>2 DEF FinishedIn
<1>4. ASSUME NEW r \in Runs, Correlate(r) \/ PostBatch(r) \/ PostFails(r) \/ Crash(r)
      PROVE  UNCHANGED <<status, table, started>>
  BY <1>4 DEF Correlate, PostBatch, PostFails, Crash
<1>5. ASSUME MonthPasses \/ Ask \/ ReadRun \/ ReadPoint \/ ReadRows \/ UNCHANGED vars
      PROVE  UNCHANGED <<status, table, started>>
  BY <1>5 DEF MonthPasses, Ask, ReadRun, ReadPoint, ReadRows, Reads, vars
<1>6. ASSUME UNCHANGED <<status, table, started>>
      PROVE  /\ table' = table
             /\ \A s \in Runs, q \in Quarters : FinishedIn(s, q)' => FinishedIn(s, q)
  BY <1>6 DEF FinishedIn
<1>7. QED
  BY <1>2, <1>3, <1>4, <1>5, <1>6 DEF Next

LEMMA ReadInvKept ==
  ASSUME Inv, ReadInv, [Next]_vars, UNCHANGED report, ~ \E r \in Runs : Commit(r)
  PROVE  ReadInv'
<1>1. /\ table' = table
      /\ \A s \in Runs, q \in Quarters : FinishedIn(s, q)' => FinishedIn(s, q)
  BY OnlyCommitsFinish
<1>2. report.quarter \in Quarters
  BY DEF Inv, ReportInv, Reports
<1>3. RowsOf(report.run)' = RowsOf(report.run)
  BY <1>1 DEF RowsOf
<1>4. QED
  BY <1>1, <1>2, <1>3 DEF ReadInv, Looked

LEMMA ReadRunReads ==
  ASSUME Inv, ReadRun
  PROVE  ReadInv'
<1> DEFINE r == LastFinishedRun(report.quarter)
<1>1. /\ report \in Reports /\ report.at = "run" /\ report.trend = <<>>
      /\ UNCHANGED <<status, started>>
  BY DEF Inv, ReportInv, ReadRun, Reads
<1>2. CASE r = NoRun
  <2>1. report' = NoReport
    BY <1>2 DEF ReadRun
  <2> QED
    BY <2>1, NoReportTyped DEF ReadInv
<1>3. CASE r # NoRun
  <2>1. report' = [report EXCEPT !.at = "trend", !.run = r,
                                 !.next = report.quarter, !.left = TrendLength]
    BY <1>3 DEF ReadRun
  <2>2. \A s \in Runs : FinishedIn(s, report.quarter) => s =< r
    BY <1>1, LastOfQuarter DEF Inv, Reports
  <2> HIDE DEF r
  <2>3. /\ report'.at = "trend" /\ report'.trend = <<>> /\ report'.run = r
        /\ report'.quarter = report.quarter /\ report'.next = report.quarter
    BY <2>1, <1>1 DEF Reports
  <2>4. \A s \in Runs : \A q : FinishedIn(s, q)' => FinishedIn(s, q)
    BY <1>1 DEF FinishedIn
  <2>5. \A q \in Quarters : ~Looked(q)'
    <3>1. Index(report.quarter) \in Int
      BY <1>1, QuarterFields DEF Reports
    <3>2. \A q \in Quarters : Looked(q)' => /\ Index(report.quarter) < Index(q)
                                            /\ Index(q) =< Index(report.quarter)
      BY <2>3 DEF Looked
    <3> QED
      BY <3>1, <3>2, QuarterFields
  <2> QED
    BY <2>2, <2>3, <2>4, <2>5 DEF ReadInv
<1>4. QED
  BY <1>2, <1>3

LEMMA ReadPointReads ==
  ASSUME Inv, ReadInv, ReadPoint
  PROVE  ReadInv'
<1> DEFINE r == LastFinishedRun(report.next)
           trend == report.trend
           new == IF r = NoRun THEN trend ELSE <<QuarterPoint(r)>> \o trend
<1>1. /\ report \in Reports /\ report.at = "trend" /\ report.left > 0 /\ TrendInv
      /\ UNCHANGED <<status, table, started>>
      /\ report' = [report EXCEPT !.trend = new, !.next = PreviousQuarter(@), !.left = @ - 1]
  BY DEF Inv, ReportInv, ReadPoint, Reads
<1>2. /\ report.next \in Quarters /\ report.quarter \in Quarters /\ trend \in Seq(Points)
      /\ Len(trend) \in Nat
  BY <1>1 DEF Reports
<1>3. /\ Index(PreviousQuarter(report.next)) = Index(report.next) - 1
      /\ Index(report.next) \in Int /\ Index(report.quarter) \in Int
  BY <1>2, PreviousIndex, QuarterFields
<1>4. /\ r # NoRun => FinishedIn(r, report.next)
      /\ \A s \in Runs : FinishedIn(s, report.next) => r # NoRun /\ s =< r
  BY <1>2, LastOfQuarter DEF Inv
<1>5. r # NoRun => /\ QuarterPoint(r) \in Points
                   /\ QuarterPoint(r).run = r /\ QuarterPoint(r).quarter = report.next
                   /\ QuarterPoint(r).counts = Tally(RowsOf(r))
  BY <1>2, <1>4, PointTyped DEF FinishedIn, QuarterPoint
<1>6. r # NoRun => /\ Len(new) = Len(trend) + 1 /\ new[1] = QuarterPoint(r)
                   /\ \A i \in 1..Len(trend) : new[i + 1] = trend[i]
  BY <1>2, <1>5, PointBefore
<1>7. r = NoRun => new = trend
  OBVIOUS
<1>8. report.left = TrendLength =>
         /\ r # NoRun /\ report.next = report.quarter /\ FinishedIn(report.run, report.next)
         /\ \A i \in 1..Len(trend) : FALSE
  <2> SUFFICES ASSUME report.left = TrendLength
               PROVE  /\ r # NoRun /\ report.next = report.quarter
                      /\ FinishedIn(report.run, report.next)
                      /\ \A i \in 1..Len(trend) : FALSE
    OBVIOUS
  <2>1. Index(report.next) = Index(report.quarter)
    BY <1>1, <1>3 DEF TrendInv
  <2>2. report.next = report.quarter
    BY <2>1, <1>2, IndexIsInjective
  <2>3. FinishedIn(report.run, report.next) /\ report.run \in Runs
    BY <2>2, <1>1 DEF TrendInv, FinishedIn
  <2>4. \A i \in 1..Len(trend) : FALSE
    <3> SUFFICES ASSUME NEW i \in 1..Len(trend)
                 PROVE  FALSE
      OBVIOUS
    <3>1. trend[i].quarter \in Quarters
      <4>1. trend[i] \in Points
        BY <1>2
      <4>2. \A x \in Points : x.quarter \in Quarters
        BY DEF Points
      <4> QED
        BY <4>1, <4>2
    <3>2. Index(trend[i].quarter) > Index(report.next)
          /\ Index(trend[i].quarter) =< Index(report.quarter)
      BY <1>1 DEF TrendInv
    <3> QED
      BY <3>1, <3>2, <2>1, <1>3, QuarterFields
  <2> QED
    BY <2>2, <2>3, <2>4, <1>4
<1>9. report.left # TrendLength => trend # <<>>
  <2>1. /\ report.left \in 0..TrendLength
        /\ report.left < TrendLength => trend # <<>>
    BY <1>1 DEF TrendInv
  <2> QED
    BY <2>1, HistoryAssumption
<1> HIDE DEF new, r, trend
<1>10. /\ report'.at = "trend" /\ report'.trend = new /\ report'.run = report.run
       /\ report'.quarter = report.quarter /\ report'.next = PreviousQuarter(report.next)
       /\ report'.meanwhile = report.meanwhile
  BY <1>1 DEF Reports
<1> SUFFICES ASSUME ~report.meanwhile
             PROVE  ReadInv'
  BY <1>10 DEF ReadInv
<1>11. /\ \A s \in Runs : FinishedIn(s, report.quarter) => s =< report.run
       /\ \A s \in Runs, q \in Quarters : FinishedIn(s, q) /\ Looked(q) =>
              \E i \in 1..Len(trend) : trend[i].quarter = q /\ s =< trend[i].run
       /\ trend # <<>> => trend[Len(trend)].counts = Tally(RowsOf(report.run))
  BY <1>1 DEF ReadInv, trend
<1>12. ASSUME NEW s \in Runs, NEW q \in Quarters, FinishedIn(s, q), Looked(q)'
       PROVE  \E i \in 1..Len(new) : new[i].quarter = q /\ s =< new[i].run
  <2>1. Index(q) \in Int /\ Index(report.next) - 1 < Index(q) /\ Index(q) =< Index(report.quarter)
    BY <1>3, <1>10, <1>12, QuarterFields DEF Looked
  <2>2. CASE Index(q) = Index(report.next)
    <3>1. q = report.next
      BY <2>2, <1>2, IndexIsInjective
    <3>2. r # NoRun /\ s =< r
      BY <3>1, <1>4, <1>12
    <3>3. 1 \in 1..Len(new) /\ new[1].quarter = q /\ new[1].run = r
      BY <3>1, <3>2, <1>2, <1>5, <1>6
    <3> QED
      BY <3>2, <3>3
  <2>3. CASE Index(q) # Index(report.next)
    <3>1. Looked(q)
      BY <2>1, <2>3, <1>3 DEF Looked
    <3>2. PICK i \in 1..Len(trend) : trend[i].quarter = q /\ s =< trend[i].run
      BY <3>1, <1>11, <1>12
    <3>3. CASE r = NoRun
      BY <3>2, <3>3, <1>7
    <3>4. CASE r # NoRun
      <4>1. i + 1 \in 1..Len(new) /\ new[i + 1] = trend[i]
        BY <3>2, <3>4, <1>2, <1>6
      <4> QED
        BY <4>1, <3>2
    <3> QED
      BY <3>3, <3>4
  <2> QED
    BY <2>2, <2>3
<1>13. new # <<>> => new[Len(new)].counts = Tally(RowsOf(report.run))
  <2>1. CASE report.left = TrendLength
    <3>1. FinishedIn(r, report.quarter) /\ FinishedIn(report.run, report.next) /\ r # NoRun
      BY <2>1, <1>4, <1>8
    <3>2. r \in Runs /\ report.run \in Runs /\ r =< report.run /\ report.run =< r
      BY <3>1, <1>4, <1>11 DEF FinishedIn
    <3>3. r = report.run
      <4>1. \A m, n \in Nat : m =< n /\ n =< m => m = n
        OBVIOUS
      <4>2. r \in Nat /\ report.run \in Nat
        BY <3>2, HistoryAssumption
      <4> HIDE HistoryAssumption
      <4> QED
        BY <4>1, <4>2, <3>2
    <3>4. Len(trend) = 0
      BY <2>1, <1>2, <1>8
    <3>5. Len(new) = 1 /\ new[1] = QuarterPoint(r)
      BY <3>1, <3>4, <1>6
    <3> QED
      BY <3>1, <3>3, <3>5, <1>5
  <2>2. CASE report.left # TrendLength
    <3>1. trend # <<>> /\ Len(trend) \in 1..Len(trend)
      BY <2>2, <1>2, <1>9
    <3>2. new[Len(new)] = trend[Len(trend)]
      BY <3>1, <1>2, <1>6, <1>7
    <3> QED
      BY <3>1, <3>2, <1>11
  <2> QED
    BY <2>1, <2>2
<1>14. RowsOf(report.run)' = RowsOf(report.run)
  BY <1>1, <1>10 DEF RowsOf
<1>15. \A s \in Runs : \A q : FinishedIn(s, q)' => FinishedIn(s, q)
  BY <1>1 DEF FinishedIn
<1>16. QED
  BY <1>10, <1>11, <1>12, <1>13, <1>14, <1>15 DEF ReadInv

LEMMA ReadRowsReads ==
  ASSUME Inv, ReadInv, ReadRows
  PROVE  ReadInv'
<1>1. /\ report \in Reports /\ report.at = "trend" /\ UNCHANGED <<status, table, started>>
      /\ report' = [report EXCEPT !.at = "done", !.rows = RowsOf(report.run)]
  BY DEF Inv, ReportInv, ReadRows, Reads
<1> DEFINE rows == RowsOf(report.run)
<1>2. rows' = rows
  <2>1. report'.run = report.run
    BY <1>1 DEF Reports
  <2> QED
    BY <1>1, <2>1 DEF RowsOf
<1>3. /\ report'.rows = rows /\ report'.quarter = report.quarter /\ report'.run = report.run
      /\ report'.next = report.next /\ report'.trend = report.trend
      /\ report'.meanwhile = report.meanwhile
  <2> HIDE DEF rows
  <2>1. report' = [report EXCEPT !.at = "done", !.rows = rows]
    BY <1>1 DEF rows
  <2> QED
    BY <2>1, <1>1 DEF Reports
<1>4. \A s \in Runs : \A q : FinishedIn(s, q)' => FinishedIn(s, q)
  BY <1>1 DEF FinishedIn
<1> HIDE DEF rows
<1>5. QED
  BY <1>1, <1>2, <1>3, <1>4 DEF ReadInv, Looked, rows

LEMMA ReadsInvariance == Spec => []ReadsInv
<1>1. Init => ReadsInv
  <2>1. Init => ReadInv
    BY NoReportTyped DEF Init, ReadInv
  <2> QED
    BY <2>1, Initially DEF ReadsInv
<1>2. ReadsInv /\ [Next]_vars => ReadsInv'
  <2> SUFFICES ASSUME Inv, ReadInv, [Next]_vars
               PROVE  ReadInv'
    BY HistoryStep, SplunkStep, ReportStep DEF ReadsInv, Inv
  <2>1. ASSUME NEW r \in Runs, Commit(r)
        PROVE  ReadInv'
    <3>1. report'.meanwhile = TRUE
      BY <2>1 DEF Commit, Meanwhile, Inv, ReportInv, Reports
    <3> QED
      BY <3>1 DEF ReadInv
  <2>2. CASE Ask
    <3>1. report'.at = "run"
      BY <2>2 DEF Ask, NoReport
    <3> QED
      BY <3>1 DEF ReadInv
  <2>3. CASE ReadRun \/ ReadPoint \/ ReadRows
    BY <2>3, ReadRunReads, ReadPointReads, ReadRowsReads
  <2>4. ASSUME NEW r \in Runs,
               Open(r) \/ Correlate(r) \/ PostBatch(r) \/ PostFails(r) \/ Crash(r) \/ Fail(r)
        PROVE  UNCHANGED report
    BY <2>4 DEF Open, Correlate, PostBatch, PostFails, Crash, Fail
  <2>5. MonthPasses \/ UNCHANGED vars => UNCHANGED report
    BY DEF MonthPasses, vars
  <2> QED
    BY <2>1, <2>2, <2>3, <2>4, <2>5, ReadInvKept DEF Next
<1>3. QED
  BY <1>1, <1>2, PTL DEF Spec

(***************************************************************************)
(* What a report says of a device.                                         *)
(***************************************************************************)
LEMMA RankOfRow ==
  ASSUME NEW k \in FrameRows
  PROVE  /\ Rank(k) \in 1..4 /\ Severity[Rank(k)] = Row[k].eol
         /\ \A n \in 1..4 : Severity[n] = Row[k].eol => n = Rank(k)
<1>1. \E n \in 1..4 : Severity[n] = Row[k].eol
  <2>1. Row[k].eol \in {"end_of_life", "eol_soon", "supported", "unknown"}
    BY RowAssumption
  <2>2. /\ Severity[1] = "end_of_life" /\ Severity[2] = "eol_soon"
        /\ Severity[3] = "supported" /\ Severity[4] = "unknown"
    BY DEF Severity
  <2> QED
    BY <2>1, <2>2
<1>2. \A m, n \in 1..4 : Severity[m] = Severity[n] => m = n
  BY DEF Severity
<1>3. Rank(k) \in 1..4 /\ Severity[Rank(k)] = Row[k].eol
  BY <1>1 DEF Rank
<1>4. QED
  BY <1>2, <1>3

\* Of a device's rows there is a worst.
LEMMA WorstOfDevice ==
  ASSUME NEW rows \in SUBSET FrameRows, NEW h \in Hosts(rows)
  PROVE  /\ WorstRow(rows, h) \in rows /\ Row[WorstRow(rows, h)].host = h
         /\ \A l \in rows : Row[l].host = h => Rank(WorstRow(rows, h)) =< Rank(l)
<1> DEFINE its == {k \in rows : Row[k].host = h}
<1>1. PICK k \in its : TRUE
  BY DEF Hosts
<1>2. \A l \in its : Rank(l) \in 1..4
  BY RankOfRow
<1>3. \E m \in its : \A l \in its : Rank(m) =< Rank(l)
  <2> HIDE DEF its
  <2>1. CASE \E m \in its : Rank(m) = 1
    BY <2>1, <1>2
  <2>2. CASE (\E m \in its : Rank(m) = 2) /\ \A m \in its : Rank(m) # 1
    BY <2>2, <1>2
  <2>3. CASE (\E m \in its : Rank(m) = 3) /\ \A m \in its : Rank(m) # 1 /\ Rank(m) # 2
    BY <2>3, <1>2
  <2>4. CASE \A m \in its : Rank(m) = 4
    BY <2>4, <1>1
  <2> QED
    BY <2>1, <2>2, <2>3, <2>4, <1>2
<1>4. \E m \in rows : /\ Row[m].host = h
                      /\ \A l \in rows : Row[l].host = h => Rank(m) =< Rank(l)
  BY <1>3
<1>5. QED
  BY <1>4 DEF WorstRow

\* A device is under one status, its worst row's.
LEMMA DeviceStatus ==
  ASSUME NEW rows \in SUBSET FrameRows, NEW h \in Hosts(rows)
  PROVE  LET worst == {n \in 1..4 : h \in DevicesByEol(rows)[n]}
             its == {k \in rows : Row[k].host = h}
         IN  /\ \E n \in 1..4 : worst = {n} /\ \E k \in its : Row[k].eol = Severity[n]
             /\ h \in HighestRisk(rows) <=>
                   /\ \E k \in its : Row[k].eol = "end_of_life"
                   /\ \A k \in its : Row[k].status = "missing_agent"
<1> DEFINE worst == {n \in 1..4 : h \in DevicesByEol(rows)[n]}
           its == {k \in rows : Row[k].host = h}
           w == WorstRow(rows, h)
<1>1. w \in its /\ \A l \in its : Rank(w) =< Rank(l)
  BY WorstOfDevice
<1>2. \A k \in its : /\ Rank(k) \in 1..4 /\ Severity[Rank(k)] = Row[k].eol
                     /\ \A n \in 1..4 : Severity[n] = Row[k].eol => n = Rank(k)
  BY RankOfRow
<1>3. \A n \in 1..4 : h \in DevicesByEol(rows)[n] <=> Rank(w) = n
  BY DEF DevicesByEol
<1>4. worst = {Rank(w)}
  BY <1>1, <1>2, <1>3
<1>5. h \in HighestRisk(rows) <=> Rank(w) = 1 /\ \A k \in its : Row[k].status = "missing_agent"
  BY <1>3 DEF HighestRisk, HasAgent, DevicesByEol
<1>6. Rank(w) = 1 <=> \E k \in its : Row[k].eol = "end_of_life"
  <2>1. Severity[1] = "end_of_life"
    BY DEF Severity
  <2> HIDE DEF w, its
  <2> QED
    BY <2>1, <1>1, <1>2
<1> HIDE DEF w, its, worst
<1>7. QED
  BY <1>1, <1>2, <1>4, <1>5, <1>6 DEF its, worst

\* A report misses nothing (QuarterlyReport), for every history and length of the
\* trend: unless a run was finished between its reads, no finished run of its
\* quarter is later than its run, no quarter of the trend with a finished run
\* is left out, and the headline counts the rows that are listed.  Each device
\* listed is under the one status of its worst row.
THEOREM ReportsMissNothing == Spec => []ReportComplete
<1>1. ASSUME ReadsInv, report.at = "done", ~report.meanwhile, NEW r \in Runs,
             status[r] \in Finished
      PROVE  /\ In(r, report.quarter) => r =< report.run
             /\ 4 * report.quarter.year + report.quarter.number - 1 - started[r] \div 3
                      \in 0..(TrendLength - 1)
                => \E i \in 1..Len(report.trend) :
                      In(r, report.trend[i].quarter) /\ r =< report.trend[i].run
  <2> DEFINE q == Of(started[r])
  <2>1. started[r] \in Nat
    BY <1>1, HistoryAssumption DEF ReadsInv, Inv, HistoryInv, Finished
  <2>2. /\ q \in Quarters /\ Index(q) = started[r] \div 3 + 1 /\ started[r] \div 3 \in Int
        /\ FinishedIn(r, q)
    BY <2>1, <1>1, OfMonth DEF FinishedIn
  <2>3. \A p \in Quarters : In(r, p) <=> Index(p) = Index(q)
    BY <2>2, QuarterFields DEF In, Index
  <2>4. /\ report.quarter \in Quarters /\ Index(report.quarter) \in Int
        /\ Index(report.next) = Index(report.quarter) - TrendLength
    <3>1. report \in Reports /\ TrendInv /\ report.left = 0
      BY <1>1 DEF ReadsInv, Inv, ReportInv
    <3>2. Index(report.quarter) \in Int
      BY <3>1, QuarterFields DEF Reports
    <3> QED
      BY <3>1, <3>2, HistoryAssumption DEF Reports, TrendInv
  <2> HIDE DEF q
  <2>5. ASSUME In(r, report.quarter)
        PROVE  r =< report.run
    <3>1. q = report.quarter
      BY <2>2, <2>3, <2>4, <2>5, IndexIsInjective
    <3> QED
      BY <3>1, <2>2, <1>1 DEF ReadsInv, ReadInv
  <2>6. ASSUME 4 * report.quarter.year + report.quarter.number - 1 - started[r] \div 3
                  \in 0..(TrendLength - 1)
        PROVE  \E i \in 1..Len(report.trend) :
                  In(r, report.trend[i].quarter) /\ r =< report.trend[i].run
    <3>1. Index(report.quarter) - Index(q) \in 0..(TrendLength - 1)
      BY <2>2, <2>4, <2>6, QuarterFields DEF Index
    <3>2. Looked(q)
      BY <3>1, <2>2, <2>4, HistoryAssumption DEF Looked
    <3>3. PICK i \in 1..Len(report.trend) :
             report.trend[i].quarter = q /\ r =< report.trend[i].run
      BY <3>2, <2>2, <1>1 DEF ReadsInv, ReadInv
    <3> QED
      BY <3>3, <2>2, <2>3
  <2> QED
    BY <2>5, <2>6
<1>2. ASSUME ReadsInv, report.at = "done", ~report.meanwhile
      PROVE  report.trend[Len(report.trend)].counts = Tally(report.rows)
  <2>1. report.trend # <<>>
    BY <1>2, HistoryAssumption DEF ReadsInv, Inv, ReportInv, TrendInv
  <2> QED
    BY <2>1, <1>2 DEF ReadsInv, ReadInv
<1>3. ReadsInv /\ report.at = "done" => report.rows \in SUBSET FrameRows
  BY DEF ReadsInv, Inv, ReportInv, Reports
<1>4. ReadsInv => ReportComplete
  BY <1>1, <1>2, <1>3, DeviceStatus DEF ReportComplete
<1>5. QED
  BY <1>4, ReadsInvariance, PTL
=============================================================================

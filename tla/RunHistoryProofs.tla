--------------------------- MODULE RunHistoryProofs ---------------------------
(***************************************************************************)
(* Theorems about RunHistory: the calendar for every month, the report and *)
(* the export for every number of runs, rows, batches and crashes.         *)
(***************************************************************************)
EXTENDS RunHistory, FiniteSetTheorems, SequenceTheorems, NaturalsInduction, TLAPS

USE HistoryAssumption

(***************************************************************************)
(* The calendar.                                                           *)
(***************************************************************************)
Quarters == [year : Int, number : 1..4]
\* Quarters in order, without gaps.
Index(q) == 4 * q.year + q.number

LEMMA QuarterFields ==
  ASSUME NEW q \in Quarters
  PROVE  /\ q.year \in Int /\ q.number \in 1..4 /\ Index(q) \in Int
         /\ q = Quarter(q.year, q.number)
  BY DEF Quarters, Quarter, Index

LEMMA IndexIsInjective ==
  ASSUME NEW p \in Quarters, NEW q \in Quarters, Index(p) = Index(q)
  PROVE  p = q
<1>1. p.year = q.year /\ p.number = q.number
  BY QuarterFields DEF Index
<1>2. QED
  BY <1>1, QuarterFields

LEMMA OfMonth ==
  ASSUME NEW m \in Nat
  PROVE  /\ Of(m) \in Quarters
         /\ Index(Of(m)) = m \div 3 + 1
<1>1. m \div 12 \in Int /\ (m % 12) \div 3 + 1 \in 1..4
  OBVIOUS
<1>2. Of(m) \in Quarters
  BY <1>1 DEF Of, Quarter, Quarters
<1>3. Of(m).year = m \div 12 /\ Of(m).number = (m % 12) \div 3 + 1
  BY DEF Of, Quarter
<1>4. 4 * (m \div 12) + (m % 12) \div 3 = m \div 3
  OBVIOUS
<1>5. QED
  BY <1>1, <1>2, <1>3, <1>4 DEF Index

\* A quarter begins where the one before it ends, three months later.
LEMMA QuarterBounds ==
  ASSUME NEW q \in Quarters
  PROVE  /\ StartOf(q) = 3 * Index(q) - 3
         /\ EndOf(q) = 3 * Index(q)
<1>1. q.year \in Int /\ q.number \in 1..4
  BY QuarterFields
<1>2. NextQuarter(q) \in Quarters /\ Index(NextQuarter(q)) = Index(q) + 1
  BY <1>1 DEF NextQuarter, Quarter, Quarters, Index
<1>3. \A p \in Quarters : StartOf(p) = 3 * Index(p) - 3
  BY QuarterFields DEF StartOf, Index
<1>4. QED
  BY <1>2, <1>3, QuarterFields DEF EndOf

LEMMA PreviousIndex ==
  ASSUME NEW q \in Quarters
  PROVE  /\ PreviousQuarter(q) \in Quarters
         /\ Index(PreviousQuarter(q)) = Index(q) - 1
  BY QuarterFields DEF PreviousQuarter, Quarter, Quarters, Index

\* Quarters partition time (Quarter.of, Quarter.start and Quarter.end): a moment is
\* within the half-open bounds of one quarter, which is the one it is said to be of.
THEOREM QuartersPartitionTime ==
  ASSUME NEW m \in Nat, NEW q \in Quarters
  PROVE  StartOf(q) =< m /\ m < EndOf(q) <=> Of(m) = q
<1>1. /\ StartOf(q) = 3 * Index(q) - 3 /\ EndOf(q) = 3 * Index(q) /\ Index(q) \in Int
  BY QuarterBounds, QuarterFields
<1>2. Of(m) \in Quarters /\ Index(Of(m)) = m \div 3 + 1
  BY OfMonth
<1>3. StartOf(q) =< m /\ m < EndOf(q) <=> m \div 3 + 1 = Index(q)
  BY <1>1
<1>4. QED
  BY <1>2, <1>3, IndexIsInjective

\* The quarter before a quarter ends where it begins (Quarter.previous), also over
\* the turn of a year: going back by it leaves no moment out.
THEOREM PreviousQuarterAdjoins ==
  ASSUME NEW q \in Quarters
  PROVE  PreviousQuarter(q) \in Quarters /\ EndOf(PreviousQuarter(q)) = StartOf(q)
  BY PreviousIndex, QuarterBounds, QuarterFields

(***************************************************************************)
(* The inductive invariant.                                                *)
(***************************************************************************)
Statuses == {"absent", "pending", "failed"} \cup Finished
Events == FrameRows \cup {SummaryEvent}
Exports == [outcome : {"none"} \cup Finished, frame : SUBSET FrameRows, left : Seq(Events)]
SentSets == [rows : SUBSET FrameRows, summaries : SUBSET (SUBSET FrameRows)]
Points == [quarter : Quarters, run : Runs,
           counts : {Tally(rows) : rows \in SUBSET FrameRows},
           serverCounts : {Tally(rows) : rows \in SUBSET FrameRows}]
Reports == [at : {"idle", "run", "trend", "done"}, quarter : Quarters, run : Runs \cup {NoRun},
            next : Quarters, left : Nat, trend : Seq(Points), rows : SUBSET FrameRows,
            meanwhile : BOOLEAN]

\* A run that is there started, and runs are there, and started, in their order.
HistoryInv ==
    /\ status \in [Runs -> Statuses]
    /\ started \in [Runs -> Months \cup {NoMonth}] /\ now \in Months
    /\ \A r \in Runs : status[r] = "absent" <=> started[r] = NoMonth
    /\ \A r \in Runs : status[r] # "absent" => started[r] =< now
    /\ \A r, s \in Runs : status[r] # "absent" /\ s < r =>
          status[s] # "absent" /\ started[s] =< started[r]
    /\ \E n \in Nat : \A r \in Runs : status[r] # "absent" => r =< n

\* What is left to send ends with the summary, and is what Splunk still lacks of
\* the frame.
ExportInv(r) ==
    /\ export[r] # NoExport => status[r] = "pending" /\ export[r].outcome \in Finished
    /\ LET left == export[r].left
       IN  left # <<>> =>
             /\ left[Len(left)] = SummaryEvent
             /\ \A i \in 1..Len(left) : i < Len(left) => left[i] \in FrameRows
             /\ export[r].frame \subseteq sent[r].rows \cup Range(left)
    /\ \A frame \in sent[r].summaries : frame \subseteq sent[r].rows

SplunkInv ==
    /\ export \in [Runs -> Exports] /\ sent \in [Runs -> SentSets]
    /\ crashes \in 0..Crashes
    /\ \A r \in Runs : ExportInv(r)

\* The trend goes back from the report's quarter, one quarter per read, and has the
\* points that were found.
FinishedIn(r, q) == r \in Runs /\ status[r] \in Finished /\ Of(started[r]) = q
TrendInv ==
    LET trend == report.trend
        index(i) == Index(trend[i].quarter)
    IN  /\ FinishedIn(report.run, report.quarter)
        /\ report.left \in 0..TrendLength
        /\ Index(report.next) = Index(report.quarter) - (TrendLength - report.left)
        /\ report.left < TrendLength =>
              /\ trend # <<>> /\ trend[Len(trend)].quarter = report.quarter
              /\ trend[Len(trend)].run >= report.run
        /\ \A i \in 1..Len(trend) : /\ FinishedIn(trend[i].run, trend[i].quarter)
                                    /\ index(i) > Index(report.next)
                                    /\ index(i) =< Index(report.quarter)
        /\ \A i, j \in 1..Len(trend) : i < j => index(i) < index(j)

ReportInv ==
    /\ report \in Reports
    /\ report.at = "run" => report.trend = <<>>
    /\ report.at \in {"trend", "done"} => TrendInv
    /\ report.at = "done" => report.left = 0

Inv == HistoryInv /\ SplunkInv /\ ReportInv

(***************************************************************************)
(* The last finished run of a quarter.                                     *)
(***************************************************************************)
LEMMA LargestNumber ==
  ASSUME NEW S \in SUBSET Nat, S # {}, NEW n \in Nat, \A r \in S : r =< n
  PROVE  \E r \in S : \A s \in S : s =< r
<1> DEFINE Below == {n - r : r \in S}
<1>1. Below \subseteq Nat
  OBVIOUS
<1>2. Below # {}
  OBVIOUS
<1>3. PICK x \in Below : \A y \in Below : ~ (<<y, x>> \in OpToRel(<, Nat))
  <2> HIDE DEF Below
  <2> QED
    BY <1>1, <1>2, NatLessThanWellFounded, WFMin, Zenon
<1>4. \A y \in Below : x =< y
  <2> SUFFICES ASSUME NEW y \in Below, ~ (x =< y)
               PROVE  FALSE
    OBVIOUS
  <2>1. x \in Nat /\ y \in Nat
    BY <1>1
  <2>2. y < x
    BY <2>1
  <2>3. <<y, x>> \in OpToRel(<, Nat)
    BY <2>1, <2>2 DEF OpToRel
  <2> QED
    BY <1>3, <2>3
<1>5. PICK r \in S : x = n - r
  OBVIOUS
<1>6. \A s \in S : s =< r
  <2> SUFFICES ASSUME NEW s \in S
               PROVE  s =< r
    OBVIOUS
  <2>1. n - s \in Below
    OBVIOUS
  <2>2. n - r =< n - s
    BY <1>4, <1>5, <2>1
  <2>3. r \in Nat /\ s \in Nat
    OBVIOUS
  <2> QED
    BY <2>2, <2>3
<1>7. QED
  BY <1>6

\* The latest of some runs is the last of them to be created.
LEMMA LatestRun ==
  ASSUME HistoryInv, NEW runs \in SUBSET {r \in Runs : status[r] # "absent"}, runs # {}
  PROVE  Latest(runs) \in runs /\ \A s \in runs : s =< Latest(runs)
<1> DEFINE Greatest(r) == \A s \in runs :
               started[s] < started[r] \/ (started[s] = started[r] /\ s =< r)
<1>1. \A r \in runs : r \in Nat /\ started[r] \in Nat
  BY DEF HistoryInv
<1>2. \A r, s \in runs : s < r => started[s] =< started[r]
  BY DEF HistoryInv
<1>3. PICK n \in Nat : \A r \in runs : r =< n
  BY DEF HistoryInv
<1>4. \E r \in runs : \A s \in runs : s =< r
  <2>1. runs \in SUBSET Nat
    BY <1>1
  <2> QED
    BY <2>1, <1>3, LargestNumber
<1>5. \E r \in runs : Greatest(r)
  <2>1. PICK r \in runs : \A s \in runs : s =< r
    BY <1>4
  <2>2. ASSUME NEW s \in runs
        PROVE  started[s] < started[r] \/ (started[s] = started[r] /\ s =< r)
    <3>1. /\ s \in Nat /\ r \in Nat /\ started[s] \in Nat /\ started[r] \in Nat
          /\ s =< r
      BY <1>1, <2>1
    <3>2. s < r => started[s] =< started[r]
      BY <1>2
    <3> QED
      BY <3>1, <3>2
  <2> QED
    BY <2>1, <2>2
<1>6. Latest(runs) \in runs /\ Greatest(Latest(runs))
  BY <1>5 DEF Latest
<1>7. \A s \in runs : s =< Latest(runs)
  <2> SUFFICES ASSUME NEW s \in runs, NEW r \in runs, Greatest(r)
               PROVE  s =< r
    BY <1>6
  <2>1. r \in Nat /\ s \in Nat /\ started[r] \in Nat /\ started[s] \in Nat
    BY <1>1
  <2>2. CASE s =< r
    BY <2>2
  <2>3. CASE r < s
    <3>1. started[r] =< started[s]
      BY <1>2, <2>3
    <3> QED
      BY <2>1, <3>1
  <2> QED
    BY <2>1, <2>2, <2>3
<1>8. QED
  BY <1>6, <1>7

LEMMA LastOfQuarter ==
  ASSUME HistoryInv, NEW q \in Quarters, NEW r, r = LastFinishedRun(q)
  PROVE  /\ r # NoRun => FinishedIn(r, q)
         /\ \A s \in Runs : FinishedIn(s, q) => r # NoRun /\ s =< r
<1> DEFINE its == {s \in Runs : /\ status[s] \in Finished
                                /\ started[s] >= StartOf(q) /\ started[s] < EndOf(q)}
<1>1. r = Latest(its)
  BY DEF LastFinishedRun
<1>2. \A s \in Runs : status[s] \in Finished => status[s] # "absent" /\ started[s] \in Nat
  BY DEF HistoryInv, Finished
<1>3. \A s \in Runs : s \in its <=> FinishedIn(s, q)
  <2> SUFFICES ASSUME NEW s \in Runs, status[s] \in Finished
               PROVE  started[s] >= StartOf(q) /\ started[s] < EndOf(q) <=> Of(started[s]) = q
    BY DEF FinishedIn
  <2>1. started[s] \in Nat /\ StartOf(q) \in Int
    BY <1>2, QuarterBounds, QuarterFields
  <2> QED
    BY <2>1, QuartersPartitionTime
<1>4. its # {} => r \in its /\ \A s \in its : s =< r
  BY <1>1, <1>2, LatestRun
<1>5. its = {} => r = NoRun
  BY <1>1 DEF Latest
<1>6. its # {} => r # NoRun
  BY <1>4
<1>7. QED
  BY <1>3, <1>4, <1>5, <1>6

\* What the report command asks for when it is given no quarter.
LEMMA LatestQuarter ==
  ASSUME HistoryInv, \E r \in Runs : status[r] \in Finished
  PROVE  LatestFinishedQuarter \in Quarters
<1> DEFINE runs == {s \in Runs : status[s] \in Finished}
<1>1. Latest(runs) \in runs
  BY LatestRun DEF Finished
<1>2. started[Latest(runs)] \in Nat
  BY <1>1 DEF HistoryInv, Finished
<1>3. QED
  BY <1>2, OfMonth DEF LatestFinishedQuarter

(***************************************************************************)
(* The events of an export.                                                *)
(***************************************************************************)
LEMMA FrameInSequence ==
  ASSUME NEW frame, IsFiniteSet(frame)
  PROVE  /\ SetToSeq(frame) \in Seq(frame)
         /\ frame \subseteq Range(SetToSeq(frame))
<1> DEFINE n == Cardinality(frame)
           f == SetToSeq(frame)
<1>1. n \in Nat /\ ExistsBijection(1..n, frame)
  BY FS_CardinalityType
<1>2. \E g \in [1..n -> frame] : IsInjective(g)
  BY <1>1 DEF ExistsBijection, Bijection, Injection
<1>3. f \in [1..n -> frame] /\ IsInjective(f)
  BY <1>2 DEF SetToSeq
<1>4. f \in Injection(1..n, frame)
  BY <1>3 DEF Injection
<1>5. Cardinality(1..n) = n
  BY <1>1, FS_Interval
<1>6. f \in Surjection(1..n, frame)
  BY <1>4, <1>5, FS_Injection
<1>7. QED
  BY <1>1, <1>3, <1>6 DEF Surjection, Range

LEMMA EnvelopesEndWithSummary ==
  ASSUME NEW frame \in SUBSET FrameRows, IsFiniteSet(frame)
  PROVE  LET left == Envelopes(frame)
         IN  /\ left \in Seq(Events) /\ left # <<>>
             /\ left[Len(left)] = SummaryEvent
             /\ \A i \in 1..Len(left) : i < Len(left) => left[i] \in FrameRows
             /\ frame \subseteq Range(left)
<1> DEFINE rows == SetToSeq(frame)
           left == Append(rows, SummaryEvent)
<1>1. rows \in Seq(frame) /\ frame \subseteq Range(rows)
  BY FrameInSequence
<1>2. rows \in Seq(Events) /\ SummaryEvent \in Events
  BY <1>1 DEF Events
<1>3. /\ left \in Seq(Events) /\ Len(left) = Len(rows) + 1 /\ Len(rows) \in Nat
      /\ left[Len(left)] = SummaryEvent
      /\ \A i \in 1..Len(rows) : left[i] = rows[i] /\ rows[i] \in frame
  BY <1>1, <1>2
<1>4. \A i \in 1..Len(left) : i < Len(left) => i \in 1..Len(rows)
  BY <1>3
<1>5. Range(rows) \subseteq Range(left)
  BY <1>1, <1>3 DEF Range
<1>6. QED
  BY <1>1, <1>3, <1>4, <1>5 DEF Envelopes

(***************************************************************************)
(* The history.                                                            *)
(***************************************************************************)
LEMMA Quiet ==
  ASSUME Inv, UNCHANGED <<status, started, now>>
  PROVE  HistoryInv'
  BY DEF Inv, HistoryInv

\* A run that is there is given another status that runs that are there have.
LEMMA StatusStep ==
  ASSUME HistoryInv, UNCHANGED <<started, now>>, status' \in [Runs -> Statuses],
         \A r \in Runs : status[r] = "absent" <=> status'[r] = "absent"
  PROVE  HistoryInv'
  BY DEF HistoryInv

LEMMA OpenHistory ==
  ASSUME Inv, NEW r \in Runs, Open(r)
  PROVE  HistoryInv'
<1>1. /\ status[r] = "absent" /\ status' = [status EXCEPT ![r] = "pending"]
      /\ started' = [started EXCEPT ![r] = now] /\ now' = now
      /\ \A s \in Runs : s < r => status[s] # "absent"
  BY DEF Open, Ledger!Open
<1>2. /\ status \in [Runs -> Statuses] /\ started \in [Runs -> Months \cup {NoMonth}]
      /\ now \in Months
  BY DEF Inv, HistoryInv
<1>3. \A s \in Runs : s # r => status'[s] = status[s] /\ started'[s] = started[s]
  BY <1>1, <1>2
<1>4. status'[r] = "pending" /\ started'[r] = now
  BY <1>1, <1>2
<1>5. status' \in [Runs -> Statuses] /\ started' \in [Runs -> Months \cup {NoMonth}]
  BY <1>1, <1>2 DEF Statuses
<1>6. \A s \in Runs : /\ status'[s] = "absent" <=> started'[s] = NoMonth
                      /\ status'[s] # "absent" => started'[s] =< now'
  BY <1>1, <1>2, <1>3, <1>4 DEF Inv, HistoryInv
<1>7. ASSUME NEW s \in Runs, NEW t \in Runs, status'[s] # "absent", t < s
      PROVE  status'[t] # "absent" /\ started'[t] =< started'[s]
  <2>1. CASE s = r
    BY <2>1, <1>1, <1>3, <1>4, <1>7 DEF Inv, HistoryInv
  <2>2. CASE s # r
    <3>1. status[s] # "absent" /\ status[t] # "absent" /\ started[t] =< started[s]
      BY <2>2, <1>3, <1>7 DEF Inv, HistoryInv
    <3> QED
      BY <2>2, <3>1, <1>1, <1>3
  <2> QED
    BY <2>1, <2>2
<1>8. \E n \in Nat : \A s \in Runs : status'[s] # "absent" => s =< n
  <2>1. PICK n \in Nat : \A s \in Runs : status[s] # "absent" => s =< n
    BY DEF Inv, HistoryInv
  <2> DEFINE top == IF n =< r THEN r ELSE n
  <2>2. r \in Nat
    OBVIOUS
  <2>3. top \in Nat /\ n =< top /\ r =< top
    BY <2>2
  <2>4. ASSUME NEW s \in Runs, status'[s] # "absent"
        PROVE  s =< top
    <3>1. CASE s = r
      BY <3>1, <2>3
    <3>2. CASE s # r
      <4>1. s \in Nat /\ s =< n
        BY <3>2, <2>1, <2>4, <1>3
      <4> QED
        BY <4>1, <2>3
    <3> QED
      BY <3>1, <3>2
  <2> HIDE DEF top
  <2> QED
    BY <2>3, <2>4
<1>9. QED
  BY <1>1, <1>2, <1>5, <1>6, <1>7, <1>8 DEF HistoryInv

\* What finishes a run finds it pending.
LEMMA Settled ==
  ASSUME Inv, NEW r \in Runs, Commit(r) \/ Fail(r)
  PROVE  /\ status[r] = "pending" /\ UNCHANGED <<started, now>>
         /\ status' \in [Runs -> Statuses]
         /\ status'[r] \in {"failed"} \cup Finished
         /\ \A s \in Runs : s # r => status'[s] = status[s]
<1>1. status \in [Runs -> Statuses] /\ ExportInv(r)
  BY DEF Inv, HistoryInv, SplunkInv
<1>2. CASE Commit(r)
  BY <1>1, <1>2 DEF Commit, Ledger!Settle, ExportInv, Statuses
<1>3. CASE Fail(r)
  BY <1>1, <1>3 DEF Fail, Ledger!Fail, Statuses
<1>4. QED
  BY <1>2, <1>3

LEMMA HistoryStep ==
  ASSUME Inv, [Next]_vars
  PROVE  HistoryInv'
<1>1. CASE MonthPasses
  <2>1. /\ UNCHANGED <<status, started>> /\ now' \in Months /\ now' > now
        /\ now \in Nat /\ now' \in Nat
    BY <1>1 DEF MonthPasses, Inv, HistoryInv
  <2>2. ASSUME NEW r \in Runs, status'[r] # "absent"
        PROVE  started'[r] =< now'
    <3>1. started[r] \in Nat /\ started[r] =< now
      BY <2>1, <2>2 DEF Inv, HistoryInv
    <3> QED
      BY <2>1, <3>1
  <2> QED
    BY <2>1, <2>2 DEF Inv, HistoryInv
<1>2. ASSUME NEW r \in Runs, Open(r)
      PROVE  HistoryInv'
  BY <1>2, OpenHistory
<1>3. ASSUME NEW r \in Runs, Commit(r) \/ Fail(r)
      PROVE  HistoryInv'
  <2>1. \A s \in Runs : status[s] = "absent" <=> status'[s] = "absent"
    BY <1>3, Settled DEF Finished
  <2> QED
    BY <1>3, <2>1, Settled, StatusStep DEF Inv
<1>4. ASSUME NEW r \in Runs, Correlate(r) \/ PostBatch(r) \/ PostFails(r) \/ Crash(r)
      PROVE  HistoryInv'
  BY <1>4, Quiet DEF Correlate, PostBatch, PostFails, Crash
<1>5. CASE Ask \/ ReadRun \/ ReadPoint \/ ReadRows
  BY <1>5, Quiet DEF Ask, ReadRun, ReadPoint, ReadRows, Reads
<1>6. CASE UNCHANGED vars
  BY <1>6, Quiet DEF vars
<1>7. QED
  BY <1>1, <1>2, <1>3, <1>4, <1>5, <1>6 DEF Next

\* A finished run stays finished, in its quarter.
LEMMA FinishedStays ==
  ASSUME Inv, [Next]_vars, NEW r, NEW q, FinishedIn(r, q)
  PROVE  FinishedIn(r, q)'
<1>1. r \in Runs /\ status[r] \in Finished /\ status[r] # "absent" /\ status[r] # "pending"
  BY DEF FinishedIn, Finished
<1>2. ASSUME NEW s \in Runs, Open(s)
      PROVE  status'[r] = status[r] /\ started'[r] = started[r]
  BY <1>1, <1>2 DEF Open, Ledger!Open, Inv, HistoryInv
<1>3. ASSUME NEW s \in Runs, Commit(s) \/ Fail(s)
      PROVE  status'[r] = status[r] /\ started'[r] = started[r]
  BY <1>1, <1>3, Settled
<1>4. ASSUME NEW s \in Runs, Correlate(s) \/ PostBatch(s) \/ PostFails(s) \/ Crash(s)
      PROVE  status'[r] = status[r] /\ started'[r] = started[r]
  BY <1>4 DEF Correlate, PostBatch, PostFails, Crash
<1>5. ASSUME MonthPasses \/ Ask \/ ReadRun \/ ReadPoint \/ ReadRows \/ UNCHANGED vars
      PROVE  status'[r] = status[r] /\ started'[r] = started[r]
  BY <1>5 DEF MonthPasses, Ask, ReadRun, ReadPoint, ReadRows, Reads, vars
<1>6. status'[r] = status[r] /\ started'[r] = started[r]
  BY <1>2, <1>3, <1>4, <1>5 DEF Next
<1>7. QED
  BY <1>6 DEF FinishedIn

(***************************************************************************)
(* The exports.                                                            *)
(***************************************************************************)
LEMMA NoExportTyped == NoExport \in Exports
  BY DEF NoExport, Exports, Events

\* A step that leaves a run's export alone.
LEMMA ExportKept ==
  ASSUME NEW r, ExportInv(r), export'[r] = export[r], sent'[r] = sent[r],
         status'[r] = status[r] \/ status'[r] = "pending"
  PROVE  ExportInv(r)'
  BY DEF ExportInv

\* A step that ends it.
LEMMA ExportEnded ==
  ASSUME NEW r, ExportInv(r), export'[r] = NoExport, sent'[r] = sent[r]
  PROVE  ExportInv(r)'
  BY DEF ExportInv, NoExport

LEMMA CorrelateExport ==
  ASSUME Inv, NEW r \in Runs, Correlate(r)
  PROVE  SplunkInv'
<1>1. PICK x \in Results :
         export' = [export EXCEPT ![r] =
                      [outcome |-> x.outcome, frame |-> x.frame,
                       left |-> IF HasSplunk[r] /\ x.frame # {} THEN Envelopes(x.frame) ELSE <<>>]]
  BY DEF Correlate
<1>2. /\ status[r] = "pending" /\ UNCHANGED <<status, sent, crashes>>
      /\ export \in [Runs -> Exports] /\ sent \in [Runs -> SentSets]
  BY DEF Correlate, Inv, SplunkInv
<1>3. x.outcome \in Finished /\ x.frame \in SUBSET FrameRows /\ IsFiniteSet(x.frame)
  BY <1>1 DEF Finished
<1>4. /\ export'[r].outcome = x.outcome /\ export'[r].frame = x.frame
      /\ export'[r].left = IF HasSplunk[r] /\ x.frame # {} THEN Envelopes(x.frame) ELSE <<>>
      /\ \A s \in Runs : s # r => export'[s] = export[s]
  BY <1>1, <1>2
<1>5. /\ export'[r].left \in Seq(Events)
      /\ export'[r].left # <<>> =>
            /\ export'[r].left[Len(export'[r].left)] = SummaryEvent
            /\ \A i \in 1..Len(export'[r].left) :
                  i < Len(export'[r].left) => export'[r].left[i] \in FrameRows
            /\ x.frame \subseteq Range(export'[r].left)
  <2>1. CASE HasSplunk[r] /\ x.frame # {}
    BY <2>1, <1>3, <1>4, EnvelopesEndWithSummary
  <2>2. CASE ~(HasSplunk[r] /\ x.frame # {})
    BY <2>2, <1>4
  <2> QED
    BY <2>1, <2>2
<1>6. export' \in [Runs -> Exports]
  BY <1>1, <1>2, <1>3, <1>4, <1>5 DEF Exports
<1>7. ExportInv(r)'
  BY <1>2, <1>3, <1>4, <1>5 DEF ExportInv, Inv, SplunkInv
<1>8. \A s \in Runs : s # r => ExportInv(s)'
  BY <1>2, <1>4, ExportKept DEF Inv, SplunkInv
<1>9. QED
  BY <1>2, <1>6, <1>7, <1>8 DEF SplunkInv, Inv

\* A batch is the first events of what is left, and has the summary only if it is
\* all of it.
LEMMA BatchOfLeft ==
  ASSUME Inv, NEW r \in Runs, export[r].left # <<>>
  PROVE  LET left == export[r].left
             n == Len(left)
             t == Taken(left)
             rest == SubSeq(left, t + 1, n)
         IN  /\ left \in Seq(Events) /\ n \in Nat /\ t \in 1..n
             /\ Range(Batch(r)) = {left[i] : i \in 1..t}
             /\ rest \in Seq(Events) /\ Len(rest) = n - t
             /\ \A i \in 1..(n - t) : rest[i] = left[t + i]
             /\ SummaryEvent \in Range(Batch(r)) => t = n
<1> DEFINE left == export[r].left
           n == Len(left)
           t == Taken(left)
           rest == SubSeq(left, t + 1, n)
<1>1. left \in Seq(Events)
  BY DEF Inv, SplunkInv, Exports
<1>2. n \in Nat /\ n > 0 /\ \A i \in 1..n : left[i] \in Events
  BY <1>1
<1>3. t \in 1..n
  BY <1>2 DEF Taken
<1>4. /\ Len(Batch(r)) = t /\ \A i \in 1..t : Batch(r)[i] = left[i]
      /\ Batch(r) \in Seq(Events)
  <2>1. \A i \in 1..t : left[i] \in Events
    BY <1>2, <1>3
  <2>2. /\ SubSeq(left, 1, t) \in Seq(Events)
        /\ Len(SubSeq(left, 1, t)) = IF 1 =< t THEN t - 1 + 1 ELSE 0
        /\ \A i \in 1..(t - 1 + 1) : SubSeq(left, 1, t)[i] = left[1 + i - 1]
    <3> HIDE DEF left, t
    <3> QED
      BY <2>1, <1>3, SubSeqProperties
  <2> QED
    BY <2>2, <1>3 DEF Batch
<1>5. Range(Batch(r)) = {left[i] : i \in 1..t}
  <2>1. DOMAIN Batch(r) = 1..t
    BY <1>3, <1>4
  <2> QED
    BY <2>1, <1>4 DEF Range
<1>6. /\ rest \in Seq(Events) /\ Len(rest) = n - t
      /\ \A i \in 1..(n - t) : rest[i] = left[t + i]
  <2>1. \A i \in (t + 1)..n : left[i] \in Events
    BY <1>2, <1>3
  <2>2. /\ SubSeq(left, t + 1, n) \in Seq(Events)
        /\ Len(SubSeq(left, t + 1, n)) = IF t + 1 =< n THEN n - (t + 1) + 1 ELSE 0
        /\ \A i \in 1..(n - (t + 1) + 1) : SubSeq(left, t + 1, n)[i] = left[t + 1 + i - 1]
    <3>1. t + 1 \in Int /\ n \in Int
      BY <1>2, <1>3
    <3> HIDE DEF left, t, n
    <3> QED
      BY <2>1, <3>1, SubSeqProperties
  <2>3. /\ n - (t + 1) + 1 = n - t
        /\ t + 1 =< n \/ n - t = 0
        /\ \A i \in 1..(n - t) : t + 1 + i - 1 = t + i
    <3>1. n \in Nat /\ t \in 1..n
      BY <1>2, <1>3
    <3> HIDE DEF n, t
    <3> QED
      BY <3>1
  <2>4. Len(rest) = n - t
    BY <2>2, <2>3, <1>2, <1>3
  <2>5. ASSUME NEW i \in 1..(n - t)
        PROVE  rest[i] = left[t + i]
    BY <2>2, <2>3
  <2> QED
    BY <2>2, <2>4, <2>5
<1>7. SummaryEvent \in Range(Batch(r)) => t = n
  <2>1. \A i \in 1..n : i < n => left[i] \in FrameRows
    BY DEF Inv, SplunkInv, ExportInv
  <2> QED
    BY <2>1, <1>2, <1>3, <1>5
<1>8. QED
  BY <1>1, <1>2, <1>3, <1>5, <1>6, <1>7

\* Splunk may receive it.
LEMMA ReceiveBatch ==
  ASSUME Inv, NEW r \in Runs, export[r].left # <<>>, Receives(r, Range(Batch(r)))
  PROVE  /\ sent' \in [Runs -> SentSets] /\ \A s \in Runs : s # r => sent'[s] = sent[s]
         /\ sent'[r].rows = sent[r].rows \cup {e \in Range(Batch(r)) : e # SummaryEvent}
         /\ \A frame \in sent'[r].summaries : frame \subseteq sent'[r].rows
<1> DEFINE left == export[r].left
           batch == Range(Batch(r))
           rows == sent[r].rows \cup {e \in batch : e # SummaryEvent}
           summaries == sent[r].summaries \cup
                          (IF SummaryEvent \in batch THEN {export[r].frame} ELSE {})
<1>1. /\ left \in Seq(Events) /\ Len(left) \in Nat /\ Taken(left) \in 1..Len(left)
      /\ batch = {left[i] : i \in 1..Taken(left)}
      /\ SummaryEvent \in batch => Taken(left) = Len(left)
  BY BatchOfLeft
<1>2. sent \in [Runs -> SentSets] /\ export[r] \in Exports
  BY DEF Inv, SplunkInv
<1>3. sent' = [sent EXCEPT ![r] = [rows |-> rows, summaries |-> summaries]]
  BY <1>2 DEF Receives
<1>4. /\ sent'[r].rows = rows /\ sent'[r].summaries = summaries
      /\ \A s \in Runs : s # r => sent'[s] = sent[s]
  BY <1>2, <1>3
<1>5. batch \subseteq Events
  BY <1>1
<1>6. rows \in SUBSET FrameRows /\ summaries \in SUBSET (SUBSET FrameRows)
  BY <1>2, <1>5 DEF Exports, SentSets, Events
<1>7. sent' \in [Runs -> SentSets]
  BY <1>2, <1>3, <1>6 DEF SentSets
<1>8. SummaryEvent \in batch => export[r].frame \subseteq rows
  <2>1. export[r].frame \subseteq sent[r].rows \cup Range(left)
    BY DEF Inv, SplunkInv, ExportInv
  <2>2. SummaryEvent \in batch => Range(left) = batch
    <3>1. DOMAIN left = 1..Len(left)
      BY <1>1
    <3>2. Range(left) = {left[i] : i \in 1..Len(left)}
      BY <3>1 DEF Range
    <3> QED
      BY <3>2, <1>1
  <2>3. SummaryEvent \notin export[r].frame
    BY <1>2 DEF Exports
  <2> QED
    BY <2>1, <2>2, <2>3
<1>9. \A frame \in summaries : frame \subseteq rows
  BY <1>8 DEF Inv, SplunkInv, ExportInv
<1>10. QED
  BY <1>4, <1>7, <1>9

LEMMA PostBatchExport ==
  ASSUME Inv, NEW r \in Runs, PostBatch(r)
  PROVE  SplunkInv'
<1> DEFINE left == export[r].left
           n == Len(left)
           t == Taken(left)
           rest == SubSeq(left, t + 1, n)
<1>1. /\ left # <<>> /\ Receives(r, Range(Batch(r))) /\ UNCHANGED <<status, crashes>>
      /\ export' = [export EXCEPT ![r].left = rest]
  BY DEF PostBatch
<1>2. export \in [Runs -> Exports] /\ export[r] \in Exports
  BY DEF Inv, SplunkInv
<1>3. /\ left \in Seq(Events) /\ n \in Nat /\ t \in 1..n
      /\ Range(Batch(r)) = {left[i] : i \in 1..t}
      /\ rest \in Seq(Events) /\ Len(rest) = n - t
      /\ \A i \in 1..(n - t) : rest[i] = left[t + i]
  BY <1>1, BatchOfLeft
<1>4. /\ sent' \in [Runs -> SentSets] /\ \A s \in Runs : s # r => sent'[s] = sent[s]
      /\ sent'[r].rows = sent[r].rows \cup {e \in Range(Batch(r)) : e # SummaryEvent}
      /\ \A frame \in sent'[r].summaries : frame \subseteq sent'[r].rows
  BY <1>1, ReceiveBatch
<1>5. /\ export'[r].left = rest /\ export'[r].frame = export[r].frame
      /\ export'[r].outcome = export[r].outcome
      /\ \A s \in Runs : s # r => export'[s] = export[s]
  BY <1>1, <1>2 DEF Exports
<1>6. export' \in [Runs -> Exports]
  BY <1>1, <1>2, <1>3 DEF Exports
<1>7. /\ left[n] = SummaryEvent /\ \A i \in 1..n : i < n => left[i] \in FrameRows
      /\ export[r].frame \subseteq sent[r].rows \cup Range(left)
      /\ status[r] = "pending" /\ export[r].outcome \in Finished
  BY <1>1 DEF Inv, SplunkInv, ExportInv, NoExport
<1>8. export[r].frame \subseteq sent'[r].rows \cup Range(rest)
  <2>1. SUFFICES ASSUME NEW k \in export[r].frame, k \notin sent[r].rows
                 PROVE  k \in sent'[r].rows \cup Range(rest)
    BY <1>4
  <2>2. DOMAIN left = 1..n /\ DOMAIN rest = 1..(n - t)
    BY <1>3
  <2>3. PICK i \in 1..n : k = left[i]
    BY <2>1, <2>2, <1>7 DEF Range
  <2>4. k # SummaryEvent
    BY <2>1, <1>2 DEF Exports
  <2>5. CASE i =< t
    BY <2>3, <2>4, <2>5, <1>3, <1>4
  <2>6. CASE i > t
    <3>1. i - t \in 1..(n - t) /\ t + (i - t) = i
      BY <2>3, <2>6, <1>3
    <3>2. rest[i - t] = k
      BY <3>1, <2>3, <1>3
    <3> QED
      BY <3>1, <3>2, <2>2 DEF Range
  <2> QED
    BY <2>5, <2>6, <1>3
<1>9. rest # <<>> =>
        /\ rest[Len(rest)] = SummaryEvent
        /\ \A i \in 1..Len(rest) : i < Len(rest) => rest[i] \in FrameRows
  <2> SUFFICES ASSUME rest # <<>>
               PROVE  /\ rest[Len(rest)] = SummaryEvent
                      /\ \A i \in 1..Len(rest) : i < Len(rest) => rest[i] \in FrameRows
    OBVIOUS
  <2>1. n - t # 0
    <3>1. Len(rest) # 0
      <4> HIDE DEF rest
      <4> QED
        BY <1>3
    <3> QED
      BY <3>1, <1>3
  <2>2. n - t \in 1..(n - t) /\ t + (n - t) = n
    <3>1. n \in Nat /\ t \in 1..n
      BY <1>3
    <3> HIDE DEF t, n, left
    <3> QED
      BY <2>1, <3>1
  <2>3. rest[Len(rest)] = SummaryEvent
    BY <2>2, <1>3, <1>7
  <2>4. ASSUME NEW i \in 1..Len(rest), i < Len(rest)
        PROVE  rest[i] \in FrameRows
    <3>1. i \in 1..(n - t) /\ t + i \in 1..n /\ t + i < n
      <4>1. n \in Nat /\ t \in 1..n /\ i \in 1..(n - t) /\ i < n - t
        BY <2>4, <1>3
      <4> HIDE DEF t, n, left
      <4> QED
        BY <4>1
    <3> QED
      BY <3>1, <1>3, <1>7
  <2> QED
    BY <2>3, <2>4
<1>10. ExportInv(r)'
  <2> HIDE DEF rest
  <2> QED
    BY <1>1, <1>4, <1>5, <1>7, <1>8, <1>9 DEF ExportInv
<1>11. \A s \in Runs : s # r => ExportInv(s)'
  BY <1>1, <1>4, <1>5, ExportKept DEF Inv, SplunkInv
<1>12. QED
  BY <1>1, <1>4, <1>6, <1>10, <1>11 DEF SplunkInv, Inv

LEMMA PostFailsExport ==
  ASSUME Inv, NEW r \in Runs, PostFails(r)
  PROVE  SplunkInv'
<1>1. /\ export[r].left # <<>> /\ UNCHANGED <<status, crashes>>
      /\ export' = [export EXCEPT ![r].left = <<>>]
      /\ Receives(r, Range(Batch(r))) \/ UNCHANGED sent
  BY DEF PostFails
<1>2. export \in [Runs -> Exports] /\ sent \in [Runs -> SentSets]
  BY DEF Inv, SplunkInv
<1>3. /\ sent' \in [Runs -> SentSets] /\ \A s \in Runs : s # r => sent'[s] = sent[s]
      /\ \A frame \in sent'[r].summaries : frame \subseteq sent'[r].rows
  <2>1. CASE Receives(r, Range(Batch(r)))
    BY <2>1, <1>1, ReceiveBatch
  <2>2. CASE UNCHANGED sent
    BY <2>2, <1>2 DEF Inv, SplunkInv, ExportInv
  <2> QED
    BY <2>1, <2>2, <1>1
<1>4. /\ export'[r].left = <<>> /\ export'[r].outcome = export[r].outcome
      /\ \A s \in Runs : s # r => export'[s] = export[s]
  BY <1>1, <1>2 DEF Exports
<1>5. export' \in [Runs -> Exports]
  <2>1. export[r] \in Exports /\ <<>> \in Seq(Events)
    BY <1>2
  <2>2. [export[r] EXCEPT !.left = <<>>] \in Exports
    BY <2>1 DEF Exports
  <2>3. export' = [export EXCEPT ![r] = [export[r] EXCEPT !.left = <<>>]]
    BY <1>1
  <2> QED
    BY <1>2, <2>2, <2>3
<1>6. status[r] = "pending" /\ export[r].outcome \in Finished
  BY <1>1 DEF Inv, SplunkInv, ExportInv, NoExport
<1>7. ExportInv(r)'
  BY <1>1, <1>3, <1>4, <1>6 DEF ExportInv
<1>8. \A s \in Runs : s # r => ExportInv(s)'
  BY <1>1, <1>3, <1>4, ExportKept DEF Inv, SplunkInv
<1>9. QED
  BY <1>1, <1>3, <1>5, <1>7, <1>8 DEF SplunkInv, Inv

\* A callback that commits, dies or fails leaves no export behind.
LEMMA EndExport ==
  ASSUME Inv, NEW r \in Runs, Commit(r) \/ Crash(r) \/ Fail(r)
  PROVE  SplunkInv'
<1>1. export \in [Runs -> Exports] /\ sent \in [Runs -> SentSets] /\ crashes \in 0..Crashes
  BY DEF Inv, SplunkInv
<1>2. export' = [export EXCEPT ![r] = NoExport] /\ UNCHANGED sent /\ crashes' \in 0..Crashes
  BY <1>1 DEF Commit, Crash, Fail
<1>3. /\ export' \in [Runs -> Exports] /\ export'[r] = NoExport
      /\ \A s \in Runs : s # r => export'[s] = export[s]
  BY <1>1, <1>2, NoExportTyped
<1>4. \A s \in Runs : s # r => status'[s] = status[s]
  <2>1. CASE Commit(r) \/ Fail(r)
    BY <2>1, Settled
  <2>2. CASE Crash(r)
    BY <2>2 DEF Crash
  <2> QED
    BY <2>1, <2>2
<1>5. ExportInv(r)'
  BY <1>2, <1>3, ExportEnded DEF Inv, SplunkInv
<1>6. \A s \in Runs : s # r => ExportInv(s)'
  BY <1>2, <1>3, <1>4, ExportKept DEF Inv, SplunkInv
<1>7. QED
  BY <1>1, <1>2, <1>3, <1>5, <1>6 DEF SplunkInv

LEMMA SplunkStep ==
  ASSUME Inv, [Next]_vars
  PROVE  SplunkInv'
<1>1. ASSUME UNCHANGED <<status, export, sent, crashes>>
      PROVE  SplunkInv'
  BY <1>1, ExportKept DEF Inv, SplunkInv
<1>2. ASSUME NEW r \in Runs, Open(r)
      PROVE  SplunkInv'
  <2>1. UNCHANGED <<export, sent, crashes>>
    BY <1>2 DEF Open
  <2>2. \A s \in Runs : status'[s] = status[s] \/ status'[s] = "pending"
    BY <1>2 DEF Open, Ledger!Open, Inv, HistoryInv
  <2> QED
    BY <2>1, <2>2, ExportKept DEF Inv, SplunkInv
<1>3. ASSUME NEW r \in Runs,
             Correlate(r) \/ PostBatch(r) \/ PostFails(r) \/ Commit(r) \/ Crash(r) \/ Fail(r)
      PROVE  SplunkInv'
  BY <1>3, CorrelateExport, PostBatchExport, PostFailsExport, EndExport
<1>4. CASE MonthPasses
  BY <1>1, <1>4 DEF MonthPasses
<1>5. CASE Ask \/ ReadRun \/ ReadPoint \/ ReadRows
  BY <1>1, <1>5 DEF Ask, ReadRun, ReadPoint, ReadRows, Reads
<1>6. CASE UNCHANGED vars
  BY <1>1, <1>6 DEF vars
<1>7. QED
  BY <1>2, <1>3, <1>4, <1>5, <1>6 DEF Next

(***************************************************************************)
(* The report.                                                             *)
(***************************************************************************)
LEMMA NoReportTyped == NoReport \in Reports /\ NoReport.at = "idle"
<1>1. Of(0) \in Quarters
  BY OfMonth
<1>2. QED
  BY <1>1 DEF NoReport, Reports

LEMMA PointTyped ==
  ASSUME NEW r \in Runs, NEW q \in Quarters, Of(started[r]) = q
  PROVE  /\ QuarterPoint(r) \in Points
         /\ QuarterPoint(r).run = r /\ QuarterPoint(r).quarter = q
<1>1. RowsOf(r) \in SUBSET FrameRows /\ {k \in RowsOf(r) : Row[k].server} \in SUBSET FrameRows
  BY DEF RowsOf
<1>2. QED
  BY <1>1 DEF QuarterPoint, Points

\* A step of the writers: what the report has found stays true.
LEMMA ReportKept ==
  ASSUME Inv, [Next]_vars, report' \in Reports,
         \E b \in BOOLEAN : report' = [report EXCEPT !.meanwhile = b]
  PROVE  ReportInv'
<1>1. /\ report'.at = report.at /\ report'.quarter = report.quarter /\ report'.run = report.run
      /\ report'.next = report.next /\ report'.left = report.left
      /\ report'.trend = report.trend
  BY DEF Inv, ReportInv, Reports
<1>2. TrendInv => TrendInv'
  BY <1>1, FinishedStays DEF TrendInv
<1>3. QED
  BY <1>1, <1>2 DEF Inv, ReportInv

LEMMA AskReport ==
  ASSUME Inv, Ask
  PROVE  ReportInv'
<1>1. PICK q \in {Of(m) : m \in Months} \cup
                 (IF \E r \in Runs : status[r] \in Finished THEN {LatestFinishedQuarter} ELSE {}) :
         report' = [NoReport EXCEPT !.at = "run", !.quarter = q]
  BY DEF Ask
<1>2. q \in Quarters
  BY OfMonth, LatestQuarter DEF Inv
<1>3. report' \in Reports /\ report'.at = "run" /\ report'.trend = <<>>
  BY <1>1, <1>2, NoReportTyped DEF Reports, NoReport
<1>4. QED
  BY <1>3 DEF ReportInv

LEMMA ReadRunReport ==
  ASSUME Inv, ReadRun
  PROVE  ReportInv'
<1> DEFINE r == LastFinishedRun(report.quarter)
<1>1. report \in Reports /\ report.at = "run" /\ UNCHANGED <<status, started>>
  BY DEF Inv, ReportInv, ReadRun, Reads
<1>2. CASE r = NoRun
  <2>1. report' = NoReport
    BY <1>2 DEF ReadRun
  <2> QED
    BY <2>1, NoReportTyped DEF ReportInv
<1>3. CASE r # NoRun
  <2>1. report' = [report EXCEPT !.at = "trend", !.run = r,
                                 !.next = report.quarter, !.left = TrendLength]
    BY <1>3 DEF ReadRun
  <2>2. FinishedIn(r, report.quarter)
    BY <1>1, <1>3, LastOfQuarter DEF Inv, Reports
  <2>3. /\ report' \in Reports /\ report'.at = "trend" /\ report'.trend = <<>>
        /\ report'.quarter = report.quarter /\ report'.next = report.quarter
        /\ report'.run = r /\ report'.left = TrendLength
    <3>1. r \in Runs /\ report.quarter \in Quarters /\ report.trend = <<>>
      BY <1>1, <2>2 DEF FinishedIn, Reports, Inv, ReportInv
    <3> HIDE DEF r
    <3> QED
      BY <2>1, <3>1, <1>1 DEF Reports
  <2>4. \A s, q : FinishedIn(s, q) => FinishedIn(s, q)'
    BY <1>1 DEF FinishedIn
  <2>5. TrendInv'
    <3>1. Index(report.quarter) \in Int
      BY <1>1, QuarterFields DEF Reports
    <3>2. Len(report'.trend) = 0
      BY <2>3
    <3> HIDE DEF r
    <3> QED
      BY <2>2, <2>3, <2>4, <3>1, <3>2 DEF TrendInv
  <2> QED
    BY <2>3, <2>5 DEF ReportInv
<1>4. QED
  BY <1>2, <1>3

\* A point, if there is one, is put before the others.
LEMMA PointBefore ==
  ASSUME NEW p \in Points, NEW trend \in Seq(Points)
  PROVE  /\ <<p>> \o trend \in Seq(Points)
         /\ Len(<<p>> \o trend) = Len(trend) + 1 /\ Len(trend) \in Nat
         /\ (<<p>> \o trend)[1] = p
         /\ \A i \in 1..Len(trend) : (<<p>> \o trend)[i + 1] = trend[i]
<1>1. /\ <<p>> \in Seq(Points) /\ Len(<<p>>) = 1 /\ <<p>>[1] = p /\ Len(trend) \in Nat
  OBVIOUS
<1>2. /\ <<p>> \o trend \in Seq(Points)
      /\ Len(<<p>> \o trend) = Len(<<p>>) + Len(trend)
      /\ \A i \in 1..Len(<<p>>) + Len(trend) :
            (<<p>> \o trend)[i] = IF i =< Len(<<p>>) THEN <<p>>[i] ELSE trend[i - Len(<<p>>)]
  BY <1>1, ConcatProperties
<1>3. ASSUME NEW i \in 1..Len(trend)
      PROVE  (<<p>> \o trend)[i + 1] = trend[i]
  BY <1>1, <1>2
<1>4. (<<p>> \o trend)[1] = p
  BY <1>1, <1>2
<1>5. QED
  BY <1>1, <1>2, <1>3, <1>4

LEMMA ReadPointReport ==
  ASSUME Inv, ReadPoint
  PROVE  ReportInv'
<1> DEFINE r == LastFinishedRun(report.next)
           trend == report.trend
           index(i) == Index(trend[i].quarter)
<1>1. /\ report \in Reports /\ report.at = "trend" /\ report.left > 0 /\ TrendInv
      /\ UNCHANGED <<status, started>>
      /\ report' = [report EXCEPT
               !.trend = IF r = NoRun THEN @ ELSE <<QuarterPoint(r)>> \o @,
               !.next = PreviousQuarter(@), !.left = @ - 1]
  BY DEF Inv, ReportInv, ReadPoint, Reads
<1>2. /\ report.next \in Quarters /\ report.quarter \in Quarters /\ trend \in Seq(Points)
      /\ report.left \in Nat \ {0} /\ report.left - 1 \in Nat
  BY <1>1 DEF Reports
<1>3. /\ PreviousQuarter(report.next) \in Quarters
      /\ Index(PreviousQuarter(report.next)) = Index(report.next) - 1
      /\ Index(report.next) \in Int /\ Index(report.quarter) \in Int
  BY <1>2, PreviousIndex, QuarterFields
<1>4. /\ r # NoRun => FinishedIn(r, report.next)
      /\ \A s \in Runs : FinishedIn(s, report.next) => r # NoRun /\ s =< r
  BY <1>2, LastOfQuarter DEF Inv
<1>5. r # NoRun => /\ QuarterPoint(r) \in Points
                   /\ QuarterPoint(r).run = r /\ QuarterPoint(r).quarter = report.next
  BY <1>2, <1>4, PointTyped DEF FinishedIn
<1> DEFINE new == IF r = NoRun THEN trend ELSE <<QuarterPoint(r)>> \o trend
<1>6. new \in Seq(Points)
  BY <1>2, <1>5, PointBefore
<1>7. /\ report' \in Reports /\ report'.at = "trend" /\ report'.trend = new
      /\ report'.quarter = report.quarter /\ report'.run = report.run
      /\ report'.next = PreviousQuarter(report.next) /\ report'.left = report.left - 1
  <2> HIDE DEF r, new
  <2> SUFFICES ASSUME report' = [report EXCEPT !.trend = new, !.next = PreviousQuarter(@),
                                               !.left = @ - 1]
               PROVE  /\ report' \in Reports /\ report'.at = "trend" /\ report'.trend = new
                      /\ report'.quarter = report.quarter /\ report'.run = report.run
                      /\ report'.next = PreviousQuarter(report.next)
                      /\ report'.left = report.left - 1
    BY <1>1 DEF new
  <2> QED
    BY <1>1, <1>2, <1>3, <1>6 DEF Reports
\* The first point is of the report's quarter, which has the report's run.
<1>8. report.left = TrendLength => r # NoRun /\ report.run =< r /\ report.next = report.quarter
  <2> SUFFICES ASSUME report.left = TrendLength
               PROVE  r # NoRun /\ report.run =< r /\ report.next = report.quarter
    OBVIOUS
  <2>1. Index(report.next) = Index(report.quarter)
    BY <1>1, <1>3 DEF TrendInv
  <2>2. report.next = report.quarter
    BY <2>1, <1>2, IndexIsInjective
  <2>3. FinishedIn(report.run, report.next) /\ report.run \in Runs
    BY <2>2, <1>1 DEF TrendInv, FinishedIn
  <2> QED
    BY <2>2, <2>3, <1>4
<1>9. /\ report.left \in 0..TrendLength
      /\ Index(report.next) = Index(report.quarter) - (TrendLength - report.left)
      /\ FinishedIn(report.run, report.quarter)
      /\ report.left < TrendLength =>
            /\ trend # <<>> /\ trend[Len(trend)].quarter = report.quarter
            /\ trend[Len(trend)].run >= report.run
      /\ \A i \in 1..Len(trend) : /\ FinishedIn(trend[i].run, trend[i].quarter)
                                  /\ index(i) > Index(report.next)
                                  /\ index(i) =< Index(report.quarter)
      /\ \A i, j \in 1..Len(trend) : i < j => index(i) < index(j)
  BY <1>1 DEF TrendInv
<1>10. \A i \in 1..Len(trend) : index(i) \in Int
  <2>1. \A i \in 1..Len(trend) : trend[i] \in Points
    BY <1>2
  <2>2. \A x \in Points : x.quarter \in Quarters
    BY DEF Points
  <2> QED
    BY <2>1, <2>2, QuarterFields
<1>11. /\ report.left - 1 \in 0..TrendLength
       /\ Index(PreviousQuarter(report.next))
             = Index(report.quarter) - (TrendLength - (report.left - 1))
  BY <1>2, <1>3, <1>9
<1>12. /\ new # <<>> /\ new[Len(new)].quarter = report.quarter
       /\ new[Len(new)].run >= report.run
       /\ \A i \in 1..Len(new) : /\ FinishedIn(new[i].run, new[i].quarter)
                                 /\ Index(new[i].quarter) > Index(PreviousQuarter(report.next))
                                 /\ Index(new[i].quarter) =< Index(report.quarter)
       /\ \A i, j \in 1..Len(new) : i < j => Index(new[i].quarter) < Index(new[j].quarter)
  <2>1. CASE r = NoRun
    <3>1. new = trend /\ report.left < TrendLength
      BY <2>1, <1>8, <1>9
    <3> HIDE DEF r, new
    <3> QED
      BY <3>1, <1>3, <1>9, <1>10
  <2>2. CASE r # NoRun
    <3> DEFINE p == QuarterPoint(r)
               n == Len(trend)
    <3>1. /\ Len(new) = n + 1 /\ n \in Nat /\ new[1] = p
          /\ \A i \in 1..n : new[i + 1] = trend[i]
      BY <2>2, <1>2, <1>5, PointBefore
    <3>2. p.run = r /\ p.quarter = report.next /\ FinishedIn(r, report.next)
      BY <2>2, <1>4, <1>5
    <3> HIDE DEF r, new, p
    <3>3. \A i \in 1..(n + 1) : i = 1 \/ (i - 1 \in 1..n /\ new[i] = trend[i - 1])
      BY <3>1
    <3>4. ASSUME NEW i \in 1..(n + 1)
          PROVE  /\ FinishedIn(new[i].run, new[i].quarter)
                 /\ Index(new[i].quarter) > Index(PreviousQuarter(report.next))
                 /\ Index(new[i].quarter) =< Index(report.quarter)
      <4>1. Index(report.next) =< Index(report.quarter)
        BY <1>3, <1>9
      <4>2. CASE i = 1
        BY <4>1, <4>2, <3>1, <3>2, <1>3
      <4>3. CASE i # 1
        <5>1. i - 1 \in 1..n /\ new[i] = trend[i - 1]
          BY <4>3, <3>3
        <5> QED
          BY <5>1, <1>3, <1>9, <1>10
      <4> QED
        BY <4>2, <4>3
    <3>5. ASSUME NEW i \in 1..(n + 1), NEW j \in 1..(n + 1), i < j
          PROVE  Index(new[i].quarter) < Index(new[j].quarter)
      <4>1. j - 1 \in 1..n /\ new[j] = trend[j - 1]
        BY <3>3, <3>5
      <4>2. CASE i = 1
        BY <4>1, <4>2, <3>1, <3>2, <1>3, <1>9, <1>10
      <4>3. CASE i # 1
        <5>1. i - 1 \in 1..n /\ new[i] = trend[i - 1] /\ i - 1 < j - 1
          BY <4>3, <3>3, <3>5
        <5> QED
          BY <5>1, <4>1, <1>9
      <4> QED
        BY <4>2, <4>3
    <3>6. new[n + 1].quarter = report.quarter /\ new[n + 1].run >= report.run
      <4>1. CASE report.left = TrendLength
        <5>1. n = 0
          <6> SUFFICES ASSUME n # 0
                       PROVE  FALSE
            OBVIOUS
          <6>1. 1 \in 1..n
            BY <3>1
          <6> QED
            BY <6>1, <4>1, <1>3, <1>9, <1>10
        <5>2. report.run \in Nat /\ r \in Nat /\ report.run =< r /\ report.next = report.quarter
          BY <4>1, <1>8, <1>9, <3>2 DEF FinishedIn
        <5> QED
          BY <5>1, <5>2, <3>1, <3>2
      <4>2. CASE report.left < TrendLength
        <5>1. n # 0
          BY <4>2, <1>2, <1>9
        <5>2. n + 1 \in 1..(n + 1) /\ new[n + 1] = trend[n]
          BY <5>1, <3>1
        <5> QED
          BY <5>2, <4>2, <1>9
      <4> QED
        BY <4>1, <4>2, <1>9
    <3>7. new # <<>>
      BY <3>1
    <3> QED
      BY <3>1, <3>4, <3>5, <3>6, <3>7
  <2> QED
    BY <2>1, <2>2
<1>13. TrendInv'
  <2> HIDE DEF r, new
  <2>1. \A s, q : FinishedIn(s, q) => FinishedIn(s, q)'
    BY <1>1 DEF FinishedIn
  <2> QED
    BY <2>1, <1>7, <1>9, <1>11, <1>12 DEF TrendInv
<1>14. QED
  BY <1>7, <1>13 DEF ReportInv

LEMMA ReadRowsReport ==
  ASSUME Inv, ReadRows
  PROVE  ReportInv'
<1>1. /\ report \in Reports /\ TrendInv /\ report.left = 0 /\ UNCHANGED <<status, started>>
      /\ report' = [report EXCEPT !.at = "done", !.rows = RowsOf(report.run)]
  BY DEF Inv, ReportInv, ReadRows, Reads
<1>2. RowsOf(report.run) \in SUBSET FrameRows
  BY DEF RowsOf
<1>3. /\ report' \in Reports /\ report'.at = "done" /\ report'.left = 0
      /\ report'.quarter = report.quarter /\ report'.run = report.run
      /\ report'.next = report.next /\ report'.trend = report.trend
  BY <1>1, <1>2 DEF Reports
<1>4. \A s, q : FinishedIn(s, q) => FinishedIn(s, q)'
  BY <1>1 DEF FinishedIn
<1>5. TrendInv'
  BY <1>1, <1>3, <1>4 DEF TrendInv
<1>6. QED
  BY <1>3, <1>5 DEF ReportInv

LEMMA ReportStep ==
  ASSUME Inv, [Next]_vars
  PROVE  ReportInv'
<1>1. report \in Reports
  BY DEF Inv, ReportInv
<1>2. ASSUME UNCHANGED report
      PROVE  ReportInv'
  <2>1. report.meanwhile \in BOOLEAN /\ report' = [report EXCEPT !.meanwhile = report.meanwhile]
    BY <1>1, <1>2 DEF Reports
  <2> QED
    BY <1>1, <1>2, <2>1, ReportKept
<1>3. ASSUME NEW r \in Runs, Commit(r)
      PROVE  ReportInv'
  <2>1. report' = [report EXCEPT !.meanwhile = TRUE]
    BY <1>3 DEF Commit, Meanwhile
  <2>2. report' \in Reports
    BY <1>1, <2>1 DEF Reports
  <2> QED
    BY <2>1, <2>2, ReportKept
<1>4. ASSUME NEW r \in Runs,
             Open(r) \/ Correlate(r) \/ PostBatch(r) \/ PostFails(r) \/ Crash(r) \/ Fail(r)
      PROVE  ReportInv'
  BY <1>2, <1>4 DEF Open, Correlate, PostBatch, PostFails, Crash, Fail
<1>5. CASE MonthPasses \/ UNCHANGED vars
  BY <1>2, <1>5 DEF MonthPasses, vars
<1>6. CASE Ask \/ ReadRun \/ ReadPoint \/ ReadRows
  BY <1>6, AskReport, ReadRunReport, ReadPointReport, ReadRowsReport
<1>7. QED
  BY <1>3, <1>4, <1>5, <1>6 DEF Next

(***************************************************************************)
(* Invariance, and what follows from it.                                   *)
(***************************************************************************)
LEMMA Initially == Init => Inv
<1> SUFFICES ASSUME Init PROVE Inv
  OBVIOUS
<1>1. HistoryInv
  <2>1. status = [r \in Runs |-> "absent"] /\ started = [r \in Runs |-> NoMonth] /\ now \in Months
    BY DEF Init, Ledger!Init
  <2>2. \E n \in Nat : \A r \in Runs : status[r] # "absent" => r =< n
    <3>1. 0 \in Nat
      OBVIOUS
    <3> QED
      BY <2>1, <3>1
  <2> QED
    BY <2>1, <2>2 DEF HistoryInv, Statuses
<1>2. SplunkInv
  <2>1. /\ export = [r \in Runs |-> NoExport] /\ crashes = 0
        /\ sent = [r \in Runs |-> [rows |-> {}, summaries |-> {}]]
    BY DEF Init
  <2>2. \A r \in Runs : ExportInv(r)
    BY <2>1 DEF ExportInv, NoExport
  <2> QED
    BY <2>1, <2>2, NoExportTyped DEF SplunkInv, SentSets
<1>3. ReportInv
  BY NoReportTyped DEF Init, ReportInv
<1>4. QED
  BY <1>1, <1>2, <1>3 DEF Inv

LEMMA Invariance == Spec => []Inv
<1>1. Inv /\ [Next]_vars => Inv'
  BY HistoryStep, SplunkStep, ReportStep DEF Inv
<1>2. QED
  BY Initially, <1>1, PTL DEF Spec

\* Every state is well typed, and a run has a start when, and only when, it is there.
THEOREM TypeCorrect == Spec => []TypeOK
<1>1. Inv => TypeOK
  <2> SUFFICES ASSUME Inv PROVE TypeOK
    OBVIOUS
  <2>1. \A r \in Runs : /\ export[r] # NoExport => status[r] = "pending"
                        /\ sent[r].rows \subseteq FrameRows
                        /\ sent[r].summaries \subseteq SUBSET FrameRows
    BY DEF Inv, SplunkInv, ExportInv, SentSets
  <2> QED
    BY <2>1 DEF Inv, HistoryInv, Statuses, SplunkInv, ReportInv, Reports, TypeOK
<1>2. QED
  BY Invariance, <1>1, PTL

\* "A summary's presence marks its run as fully sent" (splunk_export), for every size of
\* frame and batch, and however often a callback fails half way and is delivered again.
THEOREM SummariesAreOfFullRuns == Spec => []SummaryMarksFullRun
<1>1. Inv => SummaryMarksFullRun
  BY DEF Inv, SplunkInv, ExportInv, SummaryMarksFullRun
<1>2. QED
  BY Invariance, <1>1, PTL

\* A report is of its quarter (build_quarterly_report), for every history and length of
\* the trend, whatever is finalized while it is built.
THEOREM ReportsAreOfTheirQuarter == Spec => []ReportOfItsQuarter
<1>1. Inv => ReportOfItsQuarter
  <2> SUFFICES ASSUME Inv, report.at = "done"
               PROVE  ReportOfItsQuarter
    BY DEF ReportOfItsQuarter
  <2> DEFINE trend == report.trend
  <2>1. report \in Reports /\ TrendInv /\ report.left = 0
    BY DEF Inv, ReportInv
  <2>2. /\ trend \in Seq(Points) /\ Len(trend) \in Nat
        /\ report.quarter \in Quarters /\ Index(report.quarter) \in Int
    BY <2>1, QuarterFields DEF Reports
  <2>3. \A i \in 1..Len(trend) : trend[i].quarter \in Quarters /\ Index(trend[i].quarter) \in Int
    <3>1. \A i \in 1..Len(trend) : trend[i] \in Points
      BY <2>2
    <3>2. \A x \in Points : x.quarter \in Quarters
      BY DEF Points
    <3> QED
      BY <3>1, <3>2, QuarterFields
  <2>4. ASSUME NEW r, NEW q \in Quarters, FinishedIn(r, q)
        PROVE  status[r] \in Finished /\ In(r, q)
    <3>1. r \in Runs /\ status[r] \in Finished /\ started[r] \in Nat /\ Of(started[r]) = q
      BY <2>4 DEF FinishedIn, Finished, Inv, HistoryInv
    <3>2. Index(q) = started[r] \div 3 + 1 /\ started[r] \div 3 \in Int
      BY <3>1, OfMonth
    <3> QED
      BY <3>1, <3>2, QuarterFields DEF In, Index
  <2>5. /\ FinishedIn(report.run, report.quarter)
        /\ trend # <<>> /\ trend[Len(trend)].quarter = report.quarter
        /\ trend[Len(trend)].run >= report.run
        /\ Index(report.next) = Index(report.quarter) - TrendLength
        /\ \A i \in 1..Len(trend) : /\ FinishedIn(trend[i].run, trend[i].quarter)
                                    /\ Index(trend[i].quarter) > Index(report.next)
        /\ \A i, j \in 1..Len(trend) :
              i < j => Index(trend[i].quarter) < Index(trend[j].quarter)
    BY <2>1 DEF TrendInv
  <2>6. Len(trend) > 0
    BY <2>2, <2>5
  <2>7. status[report.run] \in Finished /\ In(report.run, report.quarter)
    BY <2>2, <2>4, <2>5
  <2>8. ASSUME NEW i \in 1..Len(trend)
        PROVE  /\ status[trend[i].run] \in Finished /\ In(trend[i].run, trend[i].quarter)
               /\ Index(trend[Len(trend)].quarter) - Index(trend[i].quarter) < TrendLength
    <3>1. status[trend[i].run] \in Finished /\ In(trend[i].run, trend[i].quarter)
      BY <2>3, <2>4, <2>5
    <3>2. Index(trend[Len(trend)].quarter) - Index(trend[i].quarter) < TrendLength
      BY <2>2, <2>3, <2>5
    <3> QED
      BY <3>1, <3>2
  <2> HIDE DEF trend
  <2> QED
    BY <2>5, <2>6, <2>7, <2>8 DEF ReportOfItsQuarter, Index, trend
<1>2. QED
  BY Invariance, <1>1, PTL
=============================================================================

--------------------------- MODULE RunCommandProofs ---------------------------
(***************************************************************************)
(* Theorems about RunCommand and the EolCache it extends, for every list of *)
(* clients, every timeout, every set of processes and of answers.          *)
(***************************************************************************)
EXTENDS RunCommand, TLAPS

(***************************************************************************)
(* The cache.                                                              *)
(***************************************************************************)

Tables == {Derived[a] : a \in DOMAIN Derived}
Keys == Nat \cup {NoFile}
RefreshAt == {"idle", "fetching", "fetched", "written", "ended"}
RefreshResults == {"none", "fresh", "failed", "unchanged", "updated", "raised"}
RefreshRecord ==
    [at : RefreshAt, data : {Bundled} \cup Tables, mtime : 0..LastTick, result : RefreshResults]
LookupRecord == [key : Keys, tables : {Bundled} \cup Tables, asked : BOOLEAN, seen : Keys]

CacheType ==
    /\ clock \in 0..LastTick /\ used \subseteq Nat /\ clashed \in BOOLEAN
    /\ refresh \in [Processes -> RefreshRecord]
    /\ lookup \in [Lookers -> LookupRecord]

\* The file is of an answer, and its time is one that it has had; what a refresh
\* is about to write is of an answer too, and its time not of the future.
FileInv == file # NoFile => file.mtime \in 0..clock /\ file.mtime \in used /\ file.data \in Tables
RefreshInv ==
    \A p \in Processes :
        /\ refresh[p].at \in {"fetched", "written"} => refresh[p].data \in Tables
        /\ refresh[p].mtime \in 0..clock

\* A time that a process knows is one that the file has had, and tables it
\* keeps under the file's are the file's.
Known(key) == key = NoFile \/ key \in used
LookupInv(p) ==
    /\ Known(lookup[p].key) /\ Known(lookup[p].seen)
    /\ lookup[p].key = NoFile => lookup[p].tables = Bundled
    /\ Valid(lookup[p].tables)
    /\ lookup[p].key = KeyOf(file) /\ ~clashed => lookup[p].tables = LoadCurrent

CacheInv == CacheType /\ FileInv /\ RefreshInv /\ \A p \in Lookers : LookupInv(p)

\* The tables that are loaded are whole and valid.
LEMMA CurrentTables ==
  ASSUME FileInv
  PROVE  LoadCurrent \in {Bundled} \cup Tables /\ Valid(LoadCurrent)
  BY TablesAssumption DEF FileInv, LoadCurrent

\* There is no file yet.
LEMMA CacheInit == InitCache => CacheInv
<1> SUFFICES ASSUME InitCache PROVE CacheInv
  OBVIOUS
<1>1. CacheType
  <2>1. 0 \in 0..LastTick
    BY EolCacheAssumption
  <2>2. NotRefreshing \in RefreshRecord /\ NoLookup \in LookupRecord
    BY <2>1 DEF NotRefreshing, NoLookup, RefreshRecord, RefreshAt, RefreshResults, LookupRecord, Keys
  <2>3. QED
    BY <2>1, <2>2 DEF InitCache, CacheType
<1>2. FileInv /\ RefreshInv
  BY DEF InitCache, FileInv, RefreshInv, NotRefreshing
<1>3. ASSUME NEW p \in Lookers PROVE LookupInv(p)
  BY TablesAssumption
     DEF InitCache, LookupInv, Known, NoLookup, KeyOf, LoadCurrent
<1>4. QED
  BY <1>1, <1>2, <1>3 DEF CacheInv

\* A step of a refresh that leaves the file alone.
LEMMA RefreshKeepsCache ==
  ASSUME CacheInv, NEW p \in Processes, NEW next \in RefreshRecord,
         refresh' = [refresh EXCEPT ![p] = next], UNCHANGED <<clock, file, used, clashed, lookup>>,
         next.at \in {"fetched", "written"} => next.data \in Tables,
         next.mtime \in 0..clock
  PROVE  CacheInv'
<1>1. CacheType'
  BY DEF CacheInv, CacheType
<1>2. FileInv'
  BY DEF CacheInv, FileInv
<1>3. RefreshInv'
  <2>1. \A q \in Processes : refresh'[q] = IF q = p THEN next ELSE refresh[q]
    BY DEF CacheInv, CacheType
  <2> QED
    BY <2>1 DEF CacheInv, RefreshInv
<1>4. ASSUME NEW q \in Lookers PROVE LookupInv(q)'
  BY DEF CacheInv, LookupInv, Known, KeyOf, LoadCurrent
<1>5. QED
  BY <1>1, <1>2, <1>3, <1>4 DEF CacheInv

\* Such a step that writes nothing.
LEMMA RefreshesKeepsCache ==
  ASSUME CacheInv, NEW p \in Processes, NEW at \in RefreshAt \ {"written"},
         NEW data \in {Bundled} \cup Tables, NEW ended \in RefreshResults,
         Refreshes(p, at, data, ended), UNCHANGED <<file, used, clashed>>,
         at = "fetched" => data \in Tables
  PROVE  CacheInv'
<1> DEFINE next == [at |-> at, data |-> data, mtime |-> 0, result |-> ended]
<1>1. 0 \in 0..LastTick /\ 0 \in 0..clock
  BY EolCacheAssumption DEF CacheInv, CacheType
<1>2. next \in RefreshRecord
  BY <1>1 DEF RefreshRecord
<1>3. /\ refresh' = [refresh EXCEPT ![p] = next]
      /\ UNCHANGED <<clock, file, used, clashed, lookup>>
  BY DEF Refreshes
<1>4. next.mtime = 0 /\ next.at = at /\ next.data = data
  OBVIOUS
<1> HIDE DEF next
<1>5. QED
  BY <1>1, <1>2, <1>3, <1>4, RefreshKeepsCache

\* The steps of that kind.
LEMMA QuietRefreshKeepsCache ==
  ASSUME CacheInv, NEW p \in Processes,
         \/ \E aged \in BOOLEAN : StartRefresh(p, aged)
         \/ Fetch(p) \/ FetchFails(p) \/ WriteFails(p) \/ EndRefresh(p)
  PROVE  CacheInv'
<1>0. /\ {"idle", "fetching", "fetched", "ended"} \subseteq RefreshAt \ {"written"}
      /\ {"none", "fresh", "failed", "raised"} \subseteq RefreshResults
      /\ "idle" # "fetched" /\ "fetching" # "fetched" /\ "ended" # "fetched"
  BY DEF RefreshAt, RefreshResults
<1>1. CASE Fetch(p)
  <2>1. PICK answer \in Answers :
            IF answer \in DOMAIN Derived
            THEN Refreshes(p, "fetched", Derived[answer], "none")
            ELSE Refreshes(p, "ended", Bundled, "failed")
    BY <1>1 DEF Fetch
  <2>2. UNCHANGED <<file, used, clashed>>
    BY <1>1 DEF Fetch
  <2>3. CASE answer \in DOMAIN Derived
    <3>1. Derived[answer] \in Tables
      BY <2>3 DEF Tables
    <3>2. Refreshes(p, "fetched", Derived[answer], "none")
      BY <2>1, <2>3
    <3>3. QED
      BY <1>0, <2>2, <3>1, <3>2, RefreshesKeepsCache
  <2>4. CASE answer \notin DOMAIN Derived
    <3>1. Refreshes(p, "ended", Bundled, "failed")
      BY <2>1, <2>4
    <3>2. QED
      BY <1>0, <2>2, <3>1, RefreshesKeepsCache
  <2>5. QED
    BY <2>3, <2>4
<1>2. CASE \E aged \in BOOLEAN : StartRefresh(p, aged)
  <2>1. /\ \/ Refreshes(p, "ended", Bundled, "fresh")
           \/ Refreshes(p, "fetching", Bundled, "none")
        /\ UNCHANGED <<file, used, clashed>>
    BY <1>2 DEF StartRefresh
  <2>2. QED
    BY <1>0, <2>1, RefreshesKeepsCache
<1>3. CASE FetchFails(p) \/ WriteFails(p) \/ EndRefresh(p)
  <2>1. /\ \/ Refreshes(p, "ended", Bundled, "failed")
           \/ Refreshes(p, "ended", Bundled, "raised")
           \/ Refreshes(p, "idle", Bundled, "none")
        /\ UNCHANGED <<file, used, clashed>>
    BY <1>3 DEF FetchFails, WriteFails, EndRefresh
  <2>2. QED
    BY <1>0, <2>1, RefreshesKeepsCache
<1>4. QED
  BY <1>1, <1>2, <1>3

\* The temporary file is written.
LEMMA WriteTempKeepsCache ==
  ASSUME CacheInv, NEW p \in Processes, WriteTemp(p)
  PROVE  CacheInv'
<1>1. PICK ended \in RefreshResults :
          refresh' = [refresh EXCEPT ![p] =
                         [@ EXCEPT !.at = "written", !.mtime = clock, !.result = ended]]
  <2>1. "unchanged" \in RefreshResults /\ "updated" \in RefreshResults
    BY DEF RefreshResults
  <2>2. QED
    BY <2>1 DEF WriteTemp
<1> DEFINE next == [refresh[p] EXCEPT !.at = "written", !.mtime = clock, !.result = ended]
<1>2. /\ refresh[p] \in RefreshRecord /\ refresh[p].at = "fetched" /\ refresh[p].data \in Tables
      /\ clock \in 0..LastTick /\ clock \in 0..clock
  BY EolCacheAssumption DEF CacheInv, CacheType, RefreshInv, WriteTemp
<1>3. next \in RefreshRecord /\ next.mtime = clock /\ next.data = refresh[p].data
  BY <1>2 DEF RefreshRecord, RefreshAt
<1>4. refresh' = [refresh EXCEPT ![p] = next] /\ UNCHANGED <<clock, file, used, clashed, lookup>>
  BY <1>1 DEF WriteTemp
<1> HIDE DEF next
<1>5. QED
  BY <1>2, <1>3, <1>4, RefreshKeepsCache

\* The file is replaced: who knew the time it now has knew it from a file
\* that had the same.
LEMMA ReplaceKeepsCache ==
  ASSUME CacheInv, NEW p \in Processes, ReplaceFile(p)
  PROVE  CacheInv'
<1> DEFINE mtime == refresh[p].mtime
<1>1. /\ refresh[p].at = "written" /\ UNCHANGED <<clock, lookup>>
      /\ file' = [data |-> refresh[p].data, mtime |-> mtime]
      /\ used' = used \cup {mtime} /\ clashed' = (clashed \/ mtime \in used)
  BY DEF ReplaceFile, Refreshes
<1>2. /\ refresh[p].data \in Tables /\ mtime \in 0..clock /\ mtime \in 0..LastTick
      /\ mtime \in Nat /\ 0 \in 0..LastTick /\ 0 \in 0..clock
      /\ refresh[p].result \in RefreshResults
  <2>1. refresh[p] \in RefreshRecord /\ clock \in 0..LastTick
    BY DEF CacheInv, CacheType
  <2>2. refresh[p].data \in Tables /\ mtime \in 0..clock
    BY <1>1 DEF CacheInv, RefreshInv
  <2> QED
    BY <2>1, <2>2, EolCacheAssumption DEF RefreshRecord
<1>3. file' # NoFile /\ file'.mtime = mtime /\ file'.data = refresh[p].data
  BY <1>1, <1>2, TablesAssumption DEF Tables
<1>4. refresh' = [refresh EXCEPT ![p] = [at |-> "ended", data |-> Bundled, mtime |-> 0,
                                         result |-> refresh[p].result]]
  BY DEF ReplaceFile, Refreshes
<1>5. CacheType'
  <2>1. [at |-> "ended", data |-> Bundled, mtime |-> 0, result |-> refresh[p].result] \in RefreshRecord
    BY <1>2 DEF RefreshRecord, RefreshAt
  <2>2. refresh' \in [Processes -> RefreshRecord]
    BY <1>4, <2>1 DEF CacheInv, CacheType
  <2>3. clashed' \in BOOLEAN /\ used' \subseteq Nat
    BY <1>1, <1>2 DEF CacheInv, CacheType
  <2>4. QED
    BY <1>1, <2>2, <2>3 DEF CacheInv, CacheType
<1>6. FileInv'
  BY <1>1, <1>2, <1>3 DEF FileInv
<1>7. RefreshInv'
  BY <1>1, <1>2, <1>4 DEF CacheInv, CacheType, RefreshInv
<1>8. ASSUME NEW q \in Lookers PROVE LookupInv(q)'
  <2>1. LookupInv(q) /\ lookup'[q] = lookup[q]
    BY <1>1 DEF CacheInv
  <2>2. Known(lookup[q].key)' /\ Known(lookup[q].seen)'
    BY <1>1, <2>1 DEF Known, LookupInv
  <2>3. ASSUME lookup'[q].key = KeyOf(file)', ~clashed' PROVE FALSE
    <3>1. lookup[q].key = mtime /\ mtime # NoFile
      BY <1>2, <1>3, <2>1, <2>3, TablesAssumption DEF KeyOf
    <3>2. mtime \in used
      BY <2>1, <3>1 DEF LookupInv, Known
    <3>3. QED
      BY <1>1, <2>3, <3>2
  <2>4. QED
    BY <2>1, <2>2, <2>3 DEF LookupInv
<1>9. QED
  BY <1>5, <1>6, <1>7, <1>8 DEF CacheInv

\* A process asks for the file's time, or loads what is there by then.
LEMMA LookupKeepsCache ==
  ASSUME CacheInv, NEW p \in Lookers, StatFile(p) \/ LoadTables(p)
  PROVE  CacheInv'
<1>1. UNCHANGED <<clock, file, used, clashed, refresh>>
  BY DEF StatFile, LoadTables, Looks
<1>2. LookupInv(p) /\ lookup[p] \in LookupRecord /\ FileInv
  BY DEF CacheInv, CacheType
<1>3. KeyOf(file) \in Keys /\ Known(KeyOf(file)) /\ Known(NoFile)
      /\ (KeyOf(file) = NoFile <=> file = NoFile)
  BY <1>2, EolCacheAssumption, TablesAssumption DEF CacheInv, CacheType, FileInv, KeyOf, Known, Keys
<1>4. PICK kept \in LookupRecord :
          /\ lookup' = [lookup EXCEPT ![p] = kept]
          /\ Known(kept.key) /\ Known(kept.seen)
          /\ kept.key = NoFile => kept.tables = Bundled
          /\ Valid(kept.tables)
          /\ kept.key = KeyOf(file) /\ ~clashed => kept.tables = LoadCurrent
  <2>1. CASE StatFile(p)
    <3>1. [lookup[p] EXCEPT !.asked = TRUE, !.seen = KeyOf(file)] \in LookupRecord
      BY <1>2, <1>3 DEF LookupRecord
    <3>2. QED
      BY <1>2, <1>3, <2>1, <3>1 DEF StatFile, Looks, LookupInv, LookupRecord
  <2>2. CASE LoadTables(p)
    <3> DEFINE seen == lookup[p].seen
               tables == IF seen = lookup[p].key THEN lookup[p].tables
                         ELSE IF seen = NoFile THEN Bundled ELSE LoadCurrent
               kept == [key |-> seen, asked |-> FALSE, seen |-> NoFile, tables |-> tables]
    <3>1. /\ tables \in {Bundled} \cup Tables /\ Valid(tables)
          /\ seen = NoFile => tables = Bundled
      BY <1>2, CurrentTables, TablesAssumption DEF LookupInv, LookupRecord
    <3>2. seen = KeyOf(file) /\ ~clashed => tables = LoadCurrent
      BY <1>2, <1>3 DEF LookupInv, LoadCurrent
    <3>3. seen \in Keys /\ NoFile \in Keys /\ Known(seen)
      BY <1>2 DEF LookupInv, LookupRecord, Keys
    <3>4. lookup' = [lookup EXCEPT ![p] = kept]
      BY <2>2 DEF LoadTables, Looks
    <3> HIDE DEF tables, seen
    <3>5. kept \in LookupRecord
      BY <3>1, <3>3 DEF LookupRecord
    <3>6. QED
      BY <1>3, <3>1, <3>2, <3>3, <3>4, <3>5
  <2>3. QED
    BY <2>1, <2>2
<1>5. CacheType'
  BY <1>1, <1>4 DEF CacheInv, CacheType
<1>6. FileInv' /\ RefreshInv'
  BY <1>1 DEF CacheInv, FileInv, RefreshInv
<1>7. ASSUME NEW q \in Lookers PROVE LookupInv(q)'
  <2>1. lookup'[q] = IF q = p THEN kept ELSE lookup[q]
    BY <1>4 DEF CacheInv, CacheType
  <2>2. QED
    BY <1>1, <1>4, <2>1 DEF CacheInv, LookupInv, Known, KeyOf, LoadCurrent
<1>8. QED
  BY <1>5, <1>6, <1>7 DEF CacheInv

\* Nothing but time passes, or nothing at all.
LEMMA TickKeepsCache ==
  ASSUME CacheInv, Tick \/ UNCHANGED cache
  PROVE  CacheInv'
<1>1. UNCHANGED <<file, used, clashed, refresh, lookup>>
  BY DEF Tick, cache
<1>2. clock' \in 0..LastTick /\ \A t \in 0..clock : t \in 0..clock'
  BY EolCacheAssumption DEF Tick, cache, CacheInv, CacheType
<1>3. CacheType' /\ RefreshInv'
  BY <1>1, <1>2 DEF CacheInv, CacheType, RefreshInv, RefreshRecord
<1>4. FileInv'
  BY <1>1, <1>2 DEF CacheInv, FileInv
<1>5. ASSUME NEW q \in Lookers PROVE LookupInv(q)'
  BY <1>1 DEF CacheInv, LookupInv, Known, KeyOf, LoadCurrent
<1>6. QED
  BY <1>3, <1>4, <1>5 DEF CacheInv

(***************************************************************************)
(* The command.                                                            *)
(***************************************************************************)

Names == {Clients[n] : n \in DOMAIN Clients}
Places == {"refresh", "refreshing", "sweep", "ping", "start", "next", "waiting"} \cup Stopped
CommandRecord == [at : Places, n : Nat, failed : BOOLEAN, code : {0, 1}]

CommandType ==
    /\ options \in Options /\ cmd \in CommandRecord
    /\ patience \in 0..Timeout /\ limit \in 0..Timeout \cup {NoLimit}
    /\ runs \in [Names -> {"none", "pending"} \cup Reports]
    /\ result \in [Names -> {"none", "error", "duplicate"} \cup Reports]
    /\ told \in [Names -> {"nothing", "still running", "error"} \cup Reports]

\* A report that is no duplicate's says what became of the run.
AnswerInv(c) == result[c] \in Reports => runs[c] = result[c]

\* A client was told of, truthfully unless there was a failure.
Settled(n) ==
    /\ told[Chosen[n]] # "nothing"
    /\ ~cmd.failed => runs[Chosen[n]] \in {"complete", "partial"} /\ told[Chosen[n]] = runs[Chosen[n]]

\* The clients before the one that is waited for are settled.
ProgressInv ==
    /\ cmd.at \in {"refresh", "refreshing", "sweep", "ping"} => cmd.n = 1
    /\ cmd.at \in {"start", "waiting"} => cmd.n \in 1..Len(Chosen)
    /\ cmd.at = "next" => cmd.n \in 1..(Len(Chosen) + 1)
    /\ cmd.at \in {"next", "waiting"} => \A n \in 1..(cmd.n - 1) : Settled(n)
    /\ cmd.at = "exited" => \A n \in 1..Len(Chosen) : Settled(n)
    /\ cmd.at = "exited" => (cmd.code = 1 <=> cmd.failed)
    /\ cmd.at = "crashed" => cmd.code = 1

CommandInv == CommandType /\ (\A c \in Names : AnswerInv(c)) /\ ProgressInv

\* The chosen clients are some of the configuration's, and at least one.
LEMMA ChosenClients ==
  /\ Len(Chosen) \in Nat \ {0} /\ DOMAIN Chosen = 1..Len(Chosen)
  /\ \A n \in 1..Len(Chosen) : Chosen[n] \in Names
<1>1. /\ Clients \in Seq(Names) /\ Clients # <<>>
  BY RunCommandAssumption DEF Names
<1>2. Len(Clients) \in Nat \ {0} /\ DOMAIN Clients = 1..Len(Clients)
  BY <1>1
<1>3. CASE options.all
  BY <1>1, <1>2, <1>3 DEF Chosen, Names
<1>4. CASE ~options.all
  <2>1. Chosen = SubSeq(Clients, 1, 1)
    BY <1>4 DEF Chosen
  <2>2. Len(Chosen) = 1 /\ Chosen \in Seq(Names) /\ Chosen[1] = Clients[1]
    BY <1>1, <1>2, <2>1
  <2>3. QED
    BY <1>1, <1>2, <2>2
<1>5. QED
  BY <1>3, <1>4

\* Nothing was done yet.
LEMMA CommandInit == Init => CommandInv
<1> SUFFICES ASSUME Init PROVE CommandInv
  OBVIOUS
<1>1. cmd \in CommandRecord /\ cmd.n = 1 /\ cmd.at = "refresh"
  BY DEF Init, CommandRecord, Places
<1>2. CommandType
  <2>1. Timeout \in 0..Timeout
    BY RunCommandAssumption
  <2>2. QED
    BY <1>1, <2>1 DEF Init, CommandType, Names
<1>3. \A c \in Names : AnswerInv(c)
  BY DEF Init, AnswerInv, Names, Reports
<1>4. ProgressInv
  BY <1>1 DEF ProgressInv
<1>5. QED
  BY <1>2, <1>3, <1>4 DEF CommandInv

\* The command goes on to a label, or crashes.
LEMMA GoesOn ==
  ASSUME CommandInv, NEW at \in Places, Goes(at), Else,
         \/ at = "crashed"
         \/ /\ cmd.at \in {"refresh", "refreshing", "sweep", "ping"}
            /\ at \in {"refreshing", "sweep", "ping", "start"}
  PROVE  CommandInv'
<1>1. /\ cmd' \in CommandRecord /\ cmd'.at = at /\ cmd'.n = cmd.n
      /\ at = "crashed" => cmd'.code = 1
  BY DEF CommandInv, CommandType, CommandRecord, Goes
<1>2. /\ UNCHANGED <<options, patience, limit, runs, result, told>> /\ Chosen' = Chosen
  BY DEF Else, Chosen
<1>3. CommandType'
  BY <1>1, <1>2 DEF CommandInv, CommandType
<1>4. \A c \in Names : AnswerInv(c)'
  BY <1>2 DEF CommandInv, AnswerInv
<1>5. ProgressInv'
  <2>1. CASE at = "crashed"
    BY <1>1, <2>1 DEF ProgressInv
  <2>2. CASE at # "crashed"
    <3>1. cmd.n = 1 /\ 1 \in 1..Len(Chosen)
      BY <2>2, ChosenClients DEF CommandInv, ProgressInv
    <3>2. at \in {"refreshing", "sweep", "ping", "start"}
      BY <2>2
    <3>3. QED
      BY <1>1, <1>2, <3>1, <3>2 DEF ProgressInv
  <2>3. QED
    BY <2>1, <2>2
<1>6. QED
  BY <1>3, <1>4, <1>5 DEF CommandInv

\* A run is set with its answer.
LEMMA RunsSet ==
  ASSUME CommandInv, NEW c \in Names, NEW status \in {"pending"} \cup Reports,
         NEW answer \in {"none", "error", "duplicate"} \cup Reports, Runs(c, status, answer),
         answer \in Reports => status = answer
  PROVE  /\ runs' \in [Names -> {"none", "pending"} \cup Reports]
         /\ result' \in [Names -> {"none", "error", "duplicate"} \cup Reports]
         /\ \A d \in Names : AnswerInv(d)'
         /\ \A d \in Names \ {c} : runs'[d] = runs[d]
  BY DEF CommandInv, CommandType, AnswerInv, Runs

\* What becomes of a run, and its answer, fit.
LEMMA OutcomeSets ==
  ASSUME CommandInv, NEW c \in Names, NEW was \in {"pending"} \cup Reports, Outcome(c, was)
  PROVE  /\ runs' \in [Names -> {"none", "pending"} \cup Reports]
         /\ result' \in [Names -> {"none", "error", "duplicate"} \cup Reports]
         /\ \A d \in Names : AnswerInv(d)'
         /\ \A d \in Names \ {c} : runs'[d] = runs[d]
<1>1. "failed" \in Reports /\ "error" \notin Reports /\ "duplicate" \notin Reports
  BY DEF Reports
<1>2. CASE \E r \in Reports : Runs(c, r, r)
  BY <1>1, <1>2, RunsSet
<1>3. CASE (\E status \in {was, "failed"} : Runs(c, status, "error")) \/ Runs(c, "failed", "duplicate")
  BY <1>1, <1>3, RunsSet
<1>4. QED
  BY <1>2, <1>3 DEF Outcome

\* A start, on workers or in process.
LEMMA StartKeeps ==
  ASSUME CommandInv, StartRun
  PROVE  CommandInv'
<1>1. /\ cmd.at = "start" /\ UNCHANGED <<options, patience, limit, told>> /\ Chosen' = Chosen
      /\ cmd.n \in 1..Len(Chosen) /\ Chosen[cmd.n] \in Names
  BY ChosenClients DEF StartRun, CommandInv, ProgressInv, Chosen
<1>2. /\ runs' \in [Names -> {"none", "pending"} \cup Reports]
      /\ result' \in [Names -> {"none", "error", "duplicate"} \cup Reports]
      /\ \A d \in Names : AnswerInv(d)'
  <2>1. CASE Outcome(Chosen[cmd.n], "pending")
    BY <1>1, <2>1, OutcomeSets
  <2>2. CASE Runs(Chosen[cmd.n], "pending", "none")
    <3>1. "none" \notin Reports
      BY DEF Reports
    <3>2. QED
      BY <1>1, <2>2, <3>1, RunsSet
  <2>3. QED
    BY <2>1, <2>2 DEF StartRun
<1>3. /\ cmd' \in CommandRecord
      /\ \/ cmd'.at = "start" /\ cmd'.n \in 1..Len(Chosen)
         \/ cmd'.at = "next" /\ cmd'.n = 1
  <2>1. cmd \in CommandRecord /\ Len(Chosen) \in Nat
    BY ChosenClients DEF CommandInv, CommandType
  <2>2. CASE cmd.n < Len(Chosen)
    <3>1. cmd' = [cmd EXCEPT !.n = @ + 1]
      BY <2>2 DEF StartRun
    <3>2. QED
      BY <1>1, <2>1, <2>2, <3>1 DEF CommandRecord
  <2>3. CASE ~(cmd.n < Len(Chosen))
    <3>1. cmd' = [cmd EXCEPT !.at = "next", !.n = 1]
      BY <2>3 DEF StartRun
    <3>2. QED
      BY <2>1, <3>1 DEF CommandRecord, Places
  <2>4. QED
    BY <2>2, <2>3
<1>4. CommandType'
  BY <1>1, <1>2, <1>3 DEF CommandInv, CommandType
<1>5. ProgressInv'
  <2>1. CASE cmd'.at = "start"
    BY <1>1, <1>3, <2>1 DEF ProgressInv
  <2>2. CASE cmd'.at = "next" /\ cmd'.n = 1
    <3>1. 1 \in 1..(Len(Chosen) + 1) /\ 1..(1 - 1) = {}
      BY ChosenClients
    <3>2. QED
      BY <1>1, <2>2, <3>1 DEF ProgressInv
  <2>3. QED
    BY <1>3, <2>1, <2>2
<1>6. QED
  BY <1>2, <1>4, <1>5 DEF CommandInv

\* A start that raises.
LEMMA StartRaisesKeeps ==
  ASSUME CommandInv, StartRaises
  PROVE  CommandInv'
<1>1. /\ cmd.at = "start" /\ UNCHANGED <<options, patience, limit, told>>
      /\ Chosen[cmd.n] \in Names
  BY ChosenClients DEF StartRaises, CommandInv, ProgressInv
<1>2. /\ runs' \in [Names -> {"none", "pending"} \cup Reports]
      /\ result' \in [Names -> {"none", "error", "duplicate"} \cup Reports]
      /\ \A d \in Names : AnswerInv(d)'
  <2>1. CASE Runs(Chosen[cmd.n], "pending", "none")
    <3>1. "none" \notin Reports
      BY DEF Reports
    <3>2. QED
      BY <1>1, <2>1, <3>1, RunsSet
  <2>2. CASE UNCHANGED <<runs, result>>
    BY <2>2 DEF CommandInv, CommandType, AnswerInv
  <2>3. QED
    BY <2>1, <2>2 DEF StartRaises
<1>3. cmd' \in CommandRecord /\ cmd'.at = "crashed" /\ cmd'.code = 1
  BY DEF StartRaises, Goes, CommandInv, CommandType, CommandRecord, Places, Stopped
<1>4. CommandType' /\ ProgressInv'
  BY <1>1, <1>2, <1>3 DEF CommandInv, CommandType, ProgressInv
<1>5. QED
  BY <1>2, <1>4 DEF CommandInv

\* The wait for the next client begins.
LEMMA AwaitKeeps ==
  ASSUME CommandInv, AwaitNext
  PROVE  CommandInv'
<1>1. /\ cmd.at = "next" /\ cmd.n <= Len(Chosen) /\ cmd' = [cmd EXCEPT !.at = "waiting"]
      /\ UNCHANGED <<options, patience, runs, result, told>> /\ Chosen' = Chosen
  BY DEF AwaitNext, Chosen
<1>2. cmd' \in CommandRecord /\ cmd'.at = "waiting" /\ cmd'.n = cmd.n /\ cmd'.failed = cmd.failed
  BY <1>1 DEF CommandInv, CommandType, CommandRecord, Places
<1>3. limit' \in 0..Timeout \cup {NoLimit}
  BY DEF AwaitNext, GetTimeout, CommandInv, CommandType
<1>4. CommandType' /\ \A c \in Names : AnswerInv(c)'
  BY <1>1, <1>2, <1>3 DEF CommandInv, CommandType, AnswerInv
<1>5. ProgressInv'
  <2>1. cmd.n \in 1..Len(Chosen)
    BY <1>1, ChosenClients DEF CommandInv, ProgressInv
  <2>2. \A n \in 1..(cmd.n - 1) : Settled(n)'
    BY <1>1, <1>2 DEF CommandInv, ProgressInv, Settled
  <2>3. QED
    BY <1>1, <1>2, <2>1, <2>2 DEF ProgressInv
<1>6. QED
  BY <1>4, <1>5 DEF CommandInv

\* Counting one further.
LEMMA OneFurther ==
  ASSUME NEW m \in Nat, NEW k \in 1..m
  PROVE  /\ k + 1 \in Nat /\ k + 1 \in 1..(m + 1) /\ (k + 1) - 1 = k
         /\ \A j \in 1..k : j \in 1..m /\ (j # k => j \in 1..(k - 1))
  OBVIOUS

\* A client is told of: as what became of its run, or as a failure.
LEMMA TellsKeeps ==
  ASSUME CommandInv, cmd.at = "waiting", NEW failed \in BOOLEAN,
         NEW how \in {"still running", "error"} \cup Reports, Tells(how, failed),
         failed \/ (how \in {"complete", "partial"} /\ runs[Chosen[cmd.n]] = how)
  PROVE  CommandInv'
<1>1. /\ UNCHANGED <<options, patience, limit, runs, result>> /\ Chosen' = Chosen
      /\ told' = [told EXCEPT ![Chosen[cmd.n]] = how]
      /\ cmd' = [cmd EXCEPT !.at = "next", !.n = @ + 1, !.failed = @ \/ failed]
  BY DEF Tells, Chosen
<1>2. cmd \in CommandRecord /\ cmd.n \in 1..Len(Chosen) /\ Len(Chosen) \in Nat
  BY ChosenClients DEF CommandInv, CommandType, ProgressInv
<1>3. /\ cmd' \in CommandRecord /\ cmd'.at = "next" /\ cmd'.n = cmd.n + 1
      /\ cmd'.failed = (cmd.failed \/ failed)
  <2>1. PICK f \in BOOLEAN : f = (cmd.failed \/ failed)
    OBVIOUS
  <2>2. cmd' = [cmd EXCEPT !.at = "next", !.n = @ + 1, !.failed = f]
    BY <1>1, <2>1
  <2>3. cmd.n + 1 \in Nat
    BY <1>2, OneFurther
  <2>4. cmd' \in CommandRecord /\ cmd'.at = "next" /\ cmd'.n = cmd.n + 1 /\ cmd'.failed = f
    BY <1>2, <2>2, <2>3 DEF CommandRecord, Places
  <2>5. QED
    BY <2>1, <2>4
<1>4. /\ told' \in [Names -> {"nothing", "still running", "error"} \cup Reports]
      /\ told'[Chosen[cmd.n]] = how
      /\ \A c \in Names \ {Chosen[cmd.n]} : told'[c] = told[c]
  BY <1>1, <1>2, ChosenClients DEF CommandInv, CommandType
<1>5. CommandType' /\ \A c \in Names : AnswerInv(c)'
  BY <1>1, <1>3, <1>4 DEF CommandInv, CommandType, AnswerInv
<1>6. ASSUME NEW n \in 1..cmd.n PROVE Settled(n)'
  <2>1. how # "nothing"
    BY DEF Reports
  <2>2. Chosen[n] \in Names /\ n \in 1..Len(Chosen)
    <3>1. n \in 1..Len(Chosen)
      BY <1>2, OneFurther
    <3>2. QED
      BY <3>1, ChosenClients
  <2>3. CASE Chosen[n] = Chosen[cmd.n]
    BY <1>1, <1>3, <1>4, <2>1, <2>3 DEF Settled
  <2>4. CASE Chosen[n] # Chosen[cmd.n]
    <3>1. n \in 1..(cmd.n - 1)
      <4>1. n # cmd.n
        BY <2>4
      <4>2. QED
        BY <1>2, <4>1, OneFurther
    <3>2. Settled(n)
      BY <3>1 DEF CommandInv, ProgressInv
    <3>3. QED
      BY <1>1, <1>3, <1>4, <2>2, <2>4, <3>2 DEF Settled
  <2>5. QED
    BY <2>3, <2>4
<1>7. ProgressInv'
  <2>1. cmd'.n \in 1..(Len(Chosen) + 1) /\ cmd'.n - 1 = cmd.n
    <3>1. cmd.n + 1 \in 1..(Len(Chosen) + 1) /\ (cmd.n + 1) - 1 = cmd.n
      BY <1>2, OneFurther
    <3>2. cmd'.n = cmd.n + 1
      BY <1>3
    <3>3. QED
      BY <3>1, <3>2, Zenon
  <2>2. QED
    BY <1>1, <1>3, <1>6, <2>1 DEF ProgressInv
<1>8. QED
  BY <1>5, <1>7 DEF CommandInv

\* The report is there, or the error, or the deadline has passed.
LEMMA ReportKeeps ==
  ASSUME CommandInv, ReportReady \/ WaitTimesOut
  PROVE  CommandInv'
<1> DEFINE answer == result[Chosen[cmd.n]]
<1>1. cmd.at = "waiting"
  BY DEF ReportReady, WaitTimesOut
<1>2. CASE WaitTimesOut
  BY <1>1, <1>2, TellsKeeps DEF WaitTimesOut
<1>3. CASE ReportReady
  <2>1. answer \in Reports \cup {"error"} /\ Tells(answer, answer \in {"failed", "error"})
    BY <1>3 DEF ReportReady
  <2>2. AnswerInv(Chosen[cmd.n])
    BY <1>1, ChosenClients DEF CommandInv, ProgressInv
  <2>3. CASE answer \in {"failed", "error"}
    <3>1. Tells(answer, TRUE)
      BY <2>1, <2>3
    <3>2. QED
      BY <1>1, <2>1, <3>1, TellsKeeps
  <2>4. CASE answer \notin {"failed", "error"}
    <3>1. Tells(answer, FALSE)
      <4>1. (answer \in {"failed", "error"}) = FALSE
        BY <2>4
      <4>2. QED
        BY <2>1, <4>1
    <3>2. answer \in {"complete", "partial"} /\ runs[Chosen[cmd.n]] = answer
      BY <2>1, <2>2, <2>4 DEF AnswerInv, Reports
    <3>3. QED
      BY <1>1, <2>1, <3>1, <3>2, TellsKeeps
  <2>5. QED
    BY <2>3, <2>4
<1>4. QED
  BY <1>2, <1>3

\* The command ends.
LEMMA ExitKeeps ==
  ASSUME CommandInv, ExitRun
  PROVE  CommandInv'
<1>1. /\ cmd.at = "next" /\ cmd.n > Len(Chosen)
      /\ cmd' = [cmd EXCEPT !.at = "exited", !.code = IF cmd.failed THEN 1 ELSE 0]
      /\ UNCHANGED <<options, patience, limit, runs, result, told>> /\ Chosen' = Chosen
  BY DEF ExitRun, Else, Chosen
<1>2. /\ cmd' \in CommandRecord /\ cmd'.at = "exited" /\ cmd'.failed = cmd.failed
      /\ cmd'.code = 1 <=> cmd'.failed
  <2>1. cmd \in CommandRecord
    BY DEF CommandInv, CommandType
  <2>2. CASE cmd.failed
    <3>1. cmd' = [cmd EXCEPT !.at = "exited", !.code = 1]
      BY <1>1, <2>2
    <3>2. QED
      BY <2>1, <2>2, <3>1 DEF CommandRecord, Places, Stopped
  <2>3. CASE ~cmd.failed
    <3>1. cmd' = [cmd EXCEPT !.at = "exited", !.code = 0]
      BY <1>1, <2>3
    <3>2. /\ cmd' \in CommandRecord /\ cmd'.at = "exited" /\ cmd'.failed = cmd.failed
          /\ cmd'.code = 0
      BY <2>1, <3>1 DEF CommandRecord, Places, Stopped
    <3>3. QED
      BY <2>3, <3>2
  <2>4. QED
    BY <2>2, <2>3
<1>3. CommandType' /\ \A c \in Names : AnswerInv(c)'
  BY <1>1, <1>2 DEF CommandInv, CommandType, AnswerInv
<1>4. ASSUME NEW n \in 1..Len(Chosen) PROVE Settled(n)'
  <2>1. n \in 1..(cmd.n - 1)
    BY <1>1, ChosenClients DEF CommandInv, ProgressInv
  <2>2. QED
    BY <1>1, <1>2, <2>1 DEF CommandInv, ProgressInv, Settled
<1>5. ProgressInv'
  BY <1>1, <1>2, <1>4 DEF ProgressInv
<1>6. QED
  BY <1>3, <1>5 DEF CommandInv

\* Time passes for the command.
LEMMA ElapsesKeeps ==
  ASSUME CommandInv, Elapses
  PROVE  CommandInv'
<1>1. UNCHANGED <<options, cmd, runs, result, told>> /\ Chosen' = Chosen
  BY DEF Elapses, Chosen
<1> Timeout \in Nat
  BY RunCommandAssumption
<1>2. patience' \in 0..Timeout
  <2>1. patience \in 0..Timeout /\ patience' = IF patience > 0 THEN patience - 1 ELSE 0
    BY DEF Elapses, CommandInv, CommandType
  <2>2. QED
    BY <2>1
<1>3. limit' \in 0..Timeout \cup {NoLimit}
  <2>1. /\ limit \in 0..Timeout \cup {NoLimit}
        /\ limit' = IF limit \in {0, NoLimit} THEN limit ELSE limit - 1
    BY DEF Elapses, CommandInv, CommandType
  <2>2. QED
    BY <2>1
<1>4. CommandType' /\ (\A c \in Names : AnswerInv(c)') /\ ProgressInv'
  BY <1>1, <1>2, <1>3 DEF CommandInv, CommandType, AnswerInv, ProgressInv, Settled
<1>5. QED
  BY <1>4 DEF CommandInv

\* A run that a client was truthfully told of is not touched by the workers.
LEMMA WorkersKeep ==
  ASSUME CommandInv, NEW c \in Names, WorkerFinishes(c) \/ Redelivered(c) \/ MarkedFailed(c)
  PROVE  CommandInv'
<1>1. UNCHANGED <<options, cmd, patience, limit, told>> /\ Chosen' = Chosen
  BY DEF WorkerFinishes, Redelivered, MarkedFailed, Chosen
<1>2. /\ runs' \in [Names -> {"none", "pending"} \cup Reports]
      /\ result' \in [Names -> {"none", "error", "duplicate"} \cup Reports]
      /\ \A d \in Names : AnswerInv(d)'
      /\ \A d \in Names : runs[d] \in {"complete", "partial"} => runs'[d] = runs[d]
  <2>1. CASE WorkerFinishes(c)
    <3>1. runs[c] \in {"pending", "failed"} /\ Outcome(c, runs[c]) /\ "failed" \in Reports
      BY <2>1 DEF WorkerFinishes, Reports
    <3>2. runs[c] \notin {"complete", "partial"}
      BY <3>1
    <3>3. QED
      BY <3>1, <3>2, OutcomeSets
  <2>2. CASE Redelivered(c) \/ MarkedFailed(c)
    <3>1. CASE Redelivered(c)
      <4>1. UNCHANGED runs /\ \E again \in {"duplicate", "error"} : result' = [result EXCEPT ![c] = again]
        BY <3>1 DEF Redelivered
      <4>2. "duplicate" \notin Reports /\ "error" \notin Reports
        BY DEF Reports
      <4>3. QED
        BY <4>1, <4>2 DEF CommandInv, CommandType, AnswerInv
    <3>2. CASE MarkedFailed(c)
      <4>1. runs[c] = "pending" /\ runs' = [runs EXCEPT ![c] = "failed"] /\ UNCHANGED result
        BY <3>2 DEF MarkedFailed
      <4>2. "pending" \notin Reports /\ "failed" \in Reports
        BY DEF Reports
      <4>3. QED
        BY <4>1, <4>2 DEF CommandInv, CommandType, AnswerInv
    <3>3. QED
      BY <2>2, <3>1, <3>2
  <2>3. QED
    BY <2>1, <2>2
<1>3. CommandType'
  BY <1>1, <1>2 DEF CommandInv, CommandType
<1>4. ASSUME NEW n \in 1..Len(Chosen), Settled(n) PROVE Settled(n)'
  BY <1>1, <1>2, <1>4, ChosenClients DEF Settled
<1>5. ProgressInv'
  <2>1. cmd.at \in {"next", "waiting"} => \A n \in 1..(cmd.n - 1) : n \in 1..Len(Chosen)
    BY ChosenClients DEF CommandInv, ProgressInv
  <2>2. QED
    BY <1>1, <1>4, <2>1 DEF CommandInv, ProgressInv
<1>6. QED
  BY <1>2, <1>3, <1>5 DEF CommandInv

\* What is done beside the command does not touch it.
LEMMA BesideKeeps ==
  ASSUME CommandInv, UNCHANGED command
  PROVE  CommandInv'
<1>1. UNCHANGED <<options, cmd, patience, limit, runs, result, told>> /\ Chosen' = Chosen
  BY DEF command, Chosen
<1>2. QED
  BY <1>1 DEF CommandInv, CommandType, AnswerInv, ProgressInv, Settled

(***************************************************************************)
(* The theorems.                                                           *)
(***************************************************************************)

Inv == CacheInv /\ CommandInv

\* Every step keeps the cache's part.
LEMMA CacheStep == Inv /\ [Next]_vars => CacheInv'
<1> SUFFICES ASSUME CacheInv, [Next]_vars PROVE CacheInv'
  BY DEF Inv
<1>1. CASE UNCHANGED cache
  BY <1>1, TickKeepsCache
<1>2. CASE Tick
  BY <1>2, TickKeepsCache
<1>3. CASE \E p \in Lookers : Lookup(p)
  BY <1>3, LookupKeepsCache DEF Lookup
<1>4. CASE \E p \in Processes : BeatRefresh(p) \/ RefreshStep(p)
  BY <1>4, QuietRefreshKeepsCache, WriteTempKeepsCache, ReplaceKeepsCache
     DEF BeatRefresh, RefreshStep
<1>5. CASE RefreshData \/ RefreshEnds
  BY <1>5, RunCommandAssumption, QuietRefreshKeepsCache DEF RefreshData, RefreshEnds
<1>6. QED
  BY <1>1, <1>2, <1>3, <1>4, <1>5
     DEF Next, vars, CommandStep, SkipRefresh, Sweep, Ping, StartRun, StartRaises, AwaitNext,
         ReportReady, Tells, EchoRaises, WaitTimesOut, ExitRun, Elapses, WorkerFinishes, Redelivered,
         MarkedFailed

\* And the command's.
LEMMA CommandKept == Inv /\ [Next]_vars => CommandInv'
<1> SUFFICES ASSUME CommandInv, [Next]_vars PROVE CommandInv'
  BY DEF Inv
<1>1. CASE RefreshData \/ SkipRefresh \/ RefreshEnds \/ Sweep \/ Ping \/ EchoRaises
  <2>1. {"refreshing", "sweep", "ping", "start", "crashed"} \subseteq Places
    BY DEF Places, Stopped
  <2>2. PICK at \in {"refreshing", "sweep", "ping", "start", "crashed"} :
            /\ Goes(at) /\ Else
            /\ at = "crashed" \/ cmd.at \in {"refresh", "refreshing", "sweep", "ping"}
    BY <1>1 DEF RefreshData, SkipRefresh, RefreshEnds, Sweep, Ping, EchoRaises
  <2>3. QED
    BY <2>1, <2>2, GoesOn
<1>2. CASE StartRun
  BY <1>2, StartKeeps
<1>3. CASE StartRaises
  BY <1>3, StartRaisesKeeps
<1>4. CASE AwaitNext
  BY <1>4, AwaitKeeps
<1>5. CASE ReportReady \/ WaitTimesOut
  BY <1>5, ReportKeeps
<1>6. CASE ExitRun
  BY <1>6, ExitKeeps
<1>7. CASE Elapses
  BY <1>7, ElapsesKeeps
<1>8. CASE \E c \in DOMAIN runs : WorkerFinishes(c) \/ Redelivered(c) \/ MarkedFailed(c)
  <2>1. DOMAIN runs = Names
    BY DEF CommandInv, CommandType
  <2>2. QED
    BY <1>8, <2>1, WorkersKeep
<1>9. CASE UNCHANGED command
  BY <1>9, BesideKeeps
<1>10. QED
  BY <1>1, <1>2, <1>3, <1>4, <1>5, <1>6, <1>7, <1>8, <1>9
     DEF Next, vars, CommandStep, BeatRefresh, RefreshStep, Lookup

\* In every reachable state.
LEMMA Invariance == Spec => []Inv
<1>1. Init => Inv
  BY CacheInit, CommandInit DEF Init, Inv
<1>2. Inv /\ [Next]_vars => Inv'
  BY CacheStep, CommandKept DEF Inv
<1>3. QED
  BY <1>1, <1>2, PTL DEF Spec

\* Every reachable state is well typed: the time left is not negative, and no
\* file is of the future.
THEOREM TypeCorrect == Spec => []TypeOK
<1>1. Inv => TypeOK
  <2> SUFFICES ASSUME Inv
               PROVE  TypeOK
    OBVIOUS
  <2>1. /\ options \in Options /\ patience \in 0..Timeout /\ limit \in 0..Timeout \cup {NoLimit}
        /\ cmd.at \in Places
        /\ \A c \in DOMAIN runs : /\ runs[c] \in {"none", "pending"} \cup Reports
                                 /\ result[c] \in {"none", "error", "duplicate"} \cup Reports
    BY DEF Inv, CommandInv, CommandType, CommandRecord
  <2>2. file # NoFile => file.mtime \in 0..clock
    BY DEF Inv, CacheInv, FileInv
  <2>3. \A p \in Processes : refresh[p].at \in RefreshAt /\ refresh[p].mtime \in 0..clock
    BY DEF Inv, CacheInv, CacheType, RefreshInv, RefreshRecord
  <2> QED
    BY <2>1, <2>2, <2>3 DEF TypeOK, Places, RefreshAt
<1>2. QED
  BY Invariance, <1>1, PTL

\* The exit code of `run` can be relied on (cli.run), however many clients
\* there are and whatever the deadline is.
THEOREM ExitCodeIsHonest == Spec => []ExitIsHonest
<1>1. Inv => ExitIsHonest
  <2> SUFFICES ASSUME Inv, cmd.at \in Stopped
               PROVE  /\ cmd.code = 0 => \A n \in DOMAIN Chosen :
                            /\ runs[Chosen[n]] \in {"complete", "partial"}
                            /\ told[Chosen[n]] = runs[Chosen[n]]
                      /\ cmd.at = "exited" => \A n \in DOMAIN Chosen : told[Chosen[n]] # "nothing"
    BY DEF ExitIsHonest
  <2>1. DOMAIN Chosen = 1..Len(Chosen)
    BY ChosenClients
  <2>2. cmd.at = "crashed" => cmd.code = 1
    BY DEF Inv, CommandInv, ProgressInv
  <2>3. cmd.at = "exited" => (cmd.code = 1 <=> cmd.failed) /\ \A n \in DOMAIN Chosen : Settled(n)
    BY <2>1 DEF Inv, CommandInv, ProgressInv
  <2>4. cmd.at \in {"exited", "crashed"} /\ 0 # 1
    BY DEF Stopped
  <2>5. QED
    BY <2>2, <2>3, <2>4 DEF Settled
<1>2. QED
  BY Invariance, <1>1, PTL

\* A lookup's tables are whole, valid and the file's (os_eol._tables), whichever
\* processes refresh the file and look dates up, unless one tick of the file
\* system's clock has seen two refreshes.
THEOREM TablesAreFresh == Spec => []FreshTables
<1>1. Inv => FreshTables
  BY DEF Inv, CacheInv, CacheType, LookupRecord, LookupInv, Tables, FreshTables
<1>2. QED
  BY Invariance, <1>1, PTL
(***************************************************************************)
(* The one deadline.                                                       *)
(***************************************************************************)
\* Every step keeps it.
LEMMA DeadlineStep ==
  ASSUME Inv, DeadlineShared, [Next]_vars
  PROVE  DeadlineShared'
<1>0. /\ patience \in Nat /\ (limit # NoLimit => limit \in Nat) /\ NoLimit # 0
      /\ patience # NoLimit
  <2>1. patience \in 0..Timeout /\ limit \in 0..Timeout \cup {NoLimit}
    BY DEF Inv, CommandInv, CommandType
  <2>2. Timeout \in Nat
    BY RunCommandAssumption
  <2>3. NoLimit # 0
    <3>1. 0 \in Nat /\ NoLimit \notin Nat
      BY RunCommandAssumption
    <3> QED
      BY <3>1, Zenon
  <2>4. patience \in Nat
    BY <2>1, <2>2
  <2>5. patience # NoLimit
    <3>1. NoLimit \notin Nat
      BY RunCommandAssumption
    <3> QED
      BY <3>1, <2>4, Zenon
  <2> QED
    BY <2>1, <2>2, <2>3, <2>4, <2>5
<1>1. /\ told \in [Names -> {"nothing", "still running", "error"} \cup Reports]
      /\ cmd \in CommandRecord
  BY DEF Inv, CommandInv, CommandType
<1>2. CASE AwaitNext
  <2>1. cmd'.at = "waiting" /\ limit' = GetTimeout /\ UNCHANGED <<options, patience, told>>
    BY <1>1, <1>2 DEF AwaitNext, CommandRecord
  <2>2. IF limit' = NoLimit
        THEN ~options.timeout \/ patience = 0
        ELSE options.timeout /\ limit' = patience
    BY <1>0, <2>1 DEF GetTimeout
  <2> QED
    BY <2>1, <2>2 DEF DeadlineShared
<1>3. CASE ReportReady \/ WaitTimesOut
  <2>1. /\ cmd.at = "waiting" /\ UNCHANGED <<options, patience, limit>> /\ cmd'.at = "next"
        /\ \E how : /\ told' = [told EXCEPT ![Chosen[cmd.n]] = how]
                    /\ how = "still running" => limit = 0
    BY <1>1, <1>3 DEF ReportReady, WaitTimesOut, Tells, CommandRecord, Reports
  <2>2. limit = 0 => options.timeout /\ patience = 0
    <3>1. limit = 0 => limit # NoLimit
      BY <1>0
    <3> QED
      BY <3>1, <2>1 DEF DeadlineShared
  <2>3. \A c \in DOMAIN told' : told'[c] = "still running" => options.timeout /\ patience = 0
    BY <2>1, <2>2 DEF DeadlineShared
  <2> QED
    BY <2>1, <2>3 DEF DeadlineShared
<1>4. CASE Elapses
  <2>1. /\ UNCHANGED <<options, cmd, told>>
        /\ patience' = IF patience > 0 THEN patience - 1 ELSE 0
        /\ limit' = IF limit \in {0, NoLimit} THEN limit ELSE limit - 1
    BY <1>4 DEF Elapses
  <2>2. (patience = 0 => patience' = 0) /\ (limit = NoLimit => limit' = NoLimit)
    BY <1>0, <2>1
  <2>3. ASSUME limit # NoLimit
        PROVE  limit' # NoLimit /\ (limit = patience => limit' = patience')
    <3>1. limit \in Nat /\ limit' = IF limit = 0 THEN 0 ELSE limit - 1
      BY <1>0, <2>1, <2>3
    <3>2. limit' \in Nat
      BY <3>1
    <3>3. limit' # NoLimit
      <4>1. NoLimit \notin Nat
        BY RunCommandAssumption
      <4> QED
        BY <4>1, <3>2, Zenon
    <3>4. limit = patience => limit' = patience'
      BY <1>0, <2>1, <3>1
    <3> QED
      BY <3>3, <3>4
  <2> QED
    BY <2>1, <2>2, <2>3 DEF DeadlineShared
<1>5. CASE UNCHANGED <<options, patience, limit, told>> /\ (cmd'.at = "waiting" => cmd.at = "waiting")
  BY <1>5 DEF DeadlineShared
<1>6. CASE \/ RefreshData \/ SkipRefresh \/ RefreshEnds \/ Sweep \/ Ping \/ StartRun \/ StartRaises
           \/ EchoRaises \/ ExitRun
  <2>1. UNCHANGED <<options, patience, limit, told>>
    BY <1>6 DEF RefreshData, SkipRefresh, RefreshEnds, Sweep, Ping, StartRun, StartRaises,
                EchoRaises, ExitRun, Else
  <2>2. cmd'.at # "waiting"
    <3>1. \A at : Goes(at) => cmd'.at = at
      BY <1>1 DEF Goes, CommandRecord
    <3> QED
      BY <1>1, <1>6, <3>1
         DEF RefreshData, SkipRefresh, RefreshEnds, Sweep, Ping, StartRun, StartRaises,
             EchoRaises, ExitRun, CommandRecord
  <2> QED
    BY <2>1, <2>2, <1>5
<1>7. CASE \/ UNCHANGED command
           \/ \E c \in DOMAIN runs : WorkerFinishes(c) \/ Redelivered(c) \/ MarkedFailed(c)
  BY <1>5, <1>7 DEF command, WorkerFinishes, Redelivered, MarkedFailed
<1>8. QED
  BY <1>2, <1>3, <1>4, <1>6, <1>7
     DEF Next, vars, CommandStep, BeatRefresh, RefreshStep, Lookup

\* For any clients and answers, all waits of one command share its --timeout (cli.run).
THEOREM OneDeadline == Spec => []DeadlineShared
<1>1. Init => DeadlineShared
  <2> SUFFICES ASSUME Init
               PROVE  DeadlineShared
    OBVIOUS
  <2>1. cmd.at = "refresh" /\ told = [c \in DOMAIN runs |-> "nothing"]
    BY DEF Init
  <2> QED
    BY <2>1 DEF DeadlineShared
<1>2. QED
  BY <1>1, DeadlineStep, Invariance, PTL DEF Spec

(***************************************************************************)
(* How long the command can be.                                            *)
(***************************************************************************)
\* The steps it may still take: one for each client to start, two to wait for.
CommandRank ==
    CASE cmd.at = "refresh" -> 3 * Len(Chosen) + 5
      [] cmd.at = "refreshing" -> 3 * Len(Chosen) + 4
      [] cmd.at = "sweep" -> 3 * Len(Chosen) + 3
      [] cmd.at = "ping" -> 3 * Len(Chosen) + 2
      [] cmd.at = "start" -> 3 * Len(Chosen) + 2 - cmd.n
      [] cmd.at = "next" -> 2 * Len(Chosen) + 3 - 2 * cmd.n
      [] cmd.at = "waiting" -> 2 * Len(Chosen) + 2 - 2 * cmd.n
      [] OTHER -> 0

\* The command takes one step for each client to start and two to wait for it, beside a
\* constant number, whatever the workers do and however often a callback is delivered;
\* they do not move it, and no client is gone back to.  (What CommandEnds asks beyond
\* that is that every wait ends; the run that refutes it shows one that does not.)
CommandWindsDown ==
    /\ CommandRank \in 0..(3 * Len(Chosen) + 5)
    /\ CommandStep => CommandRank' < CommandRank
    /\ CommandStep \/ UNCHANGED cmd

\* For any clients and answers, the command is over after a bounded number of steps of
\* its own (cli.run).
THEOREM CommandIsBounded == Spec => [][CommandWindsDown]_vars
<1>1. Inv /\ [Next]_vars => CommandWindsDown
  <2> SUFFICES ASSUME Inv, [Next]_vars
               PROVE  CommandWindsDown
    OBVIOUS
  <2> DEFINE L == Len(Chosen)
  <2>1. cmd \in CommandRecord /\ cmd.n \in Nat /\ L \in Nat /\ L > 0
    <3>1. L \in Nat \ {0}
      BY ChosenClients
    <3>2. cmd \in CommandRecord /\ cmd.n \in Nat
      BY DEF Inv, CommandInv, CommandType, CommandRecord
    <3> HIDE DEF L
    <3> QED
      BY <3>1, <3>2
  <2>2. /\ cmd.at \in {"start", "waiting"} => cmd.n >= 1 /\ cmd.n =< L
        /\ cmd.at = "next" => cmd.n >= 1 /\ cmd.n =< L + 1
        /\ cmd.at \in {"refresh", "refreshing", "sweep", "ping"} => cmd.n = 1
    BY <2>1 DEF Inv, CommandInv, ProgressInv
  <2>3. CommandRank \in 0..(3 * L + 5)
    <3> DEFINE n == cmd.n
    <3>1. \/ CommandRank \in {0, 3 * L + 5, 3 * L + 4, 3 * L + 3, 3 * L + 2}
          \/ cmd.at = "start" /\ CommandRank = 3 * L + 2 - n
          \/ cmd.at = "next" /\ CommandRank = 2 * L + 3 - 2 * n
          \/ cmd.at = "waiting" /\ CommandRank = 2 * L + 2 - 2 * n
      BY DEF CommandRank
    <3>2. CASE CommandRank \in {0, 3 * L + 5, 3 * L + 4, 3 * L + 3, 3 * L + 2}
      <4> HIDE DEF L
      <4> QED
        BY <3>2, <2>1
    <3>3. CASE cmd.at = "start" /\ CommandRank = 3 * L + 2 - n
      <4>1. n \in Nat /\ n =< L /\ L \in Nat
        BY <3>3, <2>1, <2>2
      <4> HIDE DEF L, n
      <4> QED
        BY <3>3, <4>1
    <3>4. CASE cmd.at = "next" /\ CommandRank = 2 * L + 3 - 2 * n
      <4>1. n \in Nat /\ n =< L + 1 /\ L \in Nat
        BY <3>4, <2>1, <2>2
      <4> HIDE DEF L, n
      <4> QED
        BY <3>4, <4>1
    <3>5. CASE cmd.at = "waiting" /\ CommandRank = 2 * L + 2 - 2 * n
      <4>1. n \in Nat /\ n =< L /\ L \in Nat
        BY <3>5, <2>1, <2>2
      <4> HIDE DEF L, n
      <4> QED
        BY <3>5, <4>1
    <3> QED
      BY <3>1, <3>2, <3>3, <3>4, <3>5
  <2>4. cmd.at \notin Stopped => CommandRank > 0
    <3>1. cmd.at \notin Stopped => cmd.at \in Places \ Stopped
      BY <2>1 DEF CommandRecord
    <3> QED
      BY <2>1, <2>2, <3>1 DEF CommandRank, Places
  <2>5. ASSUME CommandStep
        PROVE  CommandRank' < CommandRank
    <3>1. options' = options /\ Chosen' = Chosen
      BY <2>5 DEF CommandStep, RefreshData, SkipRefresh, RefreshEnds, Sweep, Ping, StartRun,
                  StartRaises, AwaitNext, ReportReady, Tells, EchoRaises, WaitTimesOut, ExitRun,
                  Else, Chosen
    <3>2. \A at : Goes(at) => cmd'.at = at /\ cmd'.n = cmd.n
      BY <2>1 DEF Goes, CommandRecord
    <3>3. CASE cmd'.at \in Stopped /\ cmd.at \notin Stopped
      <4>1. CommandRank' = 0
        BY <3>3 DEF CommandRank, Stopped
      <4> QED
        BY <3>3, <4>1, <2>4
    <3>4. CASE RefreshData \/ SkipRefresh \/ RefreshEnds \/ Sweep \/ Ping
      <4>1. \/ cmd'.at = "crashed" /\ cmd.at \notin Stopped
            \/ /\ cmd'.n = 1 /\ cmd.n = 1
               /\ \/ cmd.at = "refresh" /\ cmd'.at \in {"refreshing", "sweep"}
                  \/ cmd.at = "refreshing" /\ cmd'.at = "sweep"
                  \/ cmd.at = "sweep" /\ cmd'.at \in {"ping", "start"}
                  \/ cmd.at = "ping" /\ cmd'.at = "start"
        BY <3>2, <3>4, <2>2 DEF RefreshData, SkipRefresh, RefreshEnds, Sweep, Ping, Stopped
      <4> QED
        BY <4>1, <3>1, <3>3, <2>1 DEF CommandRank, Stopped
    <3>5. CASE StartRun
      <4>1. \/ cmd.n < L /\ cmd'.at = "start" /\ cmd'.n = cmd.n + 1
            \/ cmd.n >= L /\ cmd'.at = "next" /\ cmd'.n = 1
        BY <3>5, <2>1 DEF StartRun, CommandRecord
      <4>2. cmd.at = "start" /\ cmd.n =< L
        BY <3>5, <2>2 DEF StartRun
      <4> QED
        BY <4>1, <4>2, <3>1, <2>1 DEF CommandRank
    <3>6. CASE StartRaises \/ EchoRaises \/ ExitRun
      <4>1. cmd.at \in {"start", "waiting", "next"} /\ cmd'.at \in Stopped
        BY <3>2, <3>6, <2>1 DEF StartRaises, EchoRaises, ExitRun, Stopped, CommandRecord
      <4> QED
        BY <4>1, <3>3 DEF Stopped
    <3>7. CASE AwaitNext
      <4>1. cmd.at = "next" /\ cmd'.at = "waiting" /\ cmd'.n = cmd.n
        BY <3>7, <2>1 DEF AwaitNext, CommandRecord
      <4> QED
        BY <4>1, <3>1, <2>1 DEF CommandRank
    <3>8. CASE ReportReady \/ WaitTimesOut
      <4>1. cmd.at = "waiting" /\ cmd'.at = "next" /\ cmd'.n = cmd.n + 1
        BY <3>8, <2>1 DEF ReportReady, WaitTimesOut, Tells, CommandRecord
      <4> QED
        BY <4>1, <3>1, <2>1 DEF CommandRank
    <3> QED
      BY <2>5, <3>4, <3>5, <3>6, <3>7, <3>8 DEF CommandStep
  <2>6. CommandStep \/ UNCHANGED cmd
    BY DEF Next, vars, command, Elapses, WorkerFinishes, Redelivered, MarkedFailed, BeatRefresh,
           RefreshStep, Lookup
  <2> QED
    BY <2>3, <2>5, <2>6 DEF CommandWindsDown
<1>2. QED
  BY <1>1, Invariance, PTL DEF Spec
=============================================================================

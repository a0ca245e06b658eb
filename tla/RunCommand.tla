----------------------------- MODULE RunCommand -----------------------------
(***************************************************************************)
(* `agent-parity run` (cli.py): the command refreshes the end-of-life data *)
(* (EolCache), sweeps the abandoned runs, starts every chosen client's     *)
(* chord, on workers or in its own process, and then waits for one client  *)
(* after the other, all of them by one deadline; its exit code says what   *)
(* became of them.  Beside it the workers finish runs, or do not, deliver  *)
(* a callback again, refresh the data by the beat's schedule and look      *)
(* dates up, and another process's sweep fails a run that is still         *)
(* pending.  What a sweep may do to a run that is finished meanwhile, and  *)
(* one callback to another's, is RunLifecycle's, not this module's.        *)
(***************************************************************************)
EXTENDS EolCache, Sequences

CONSTANTS
    Clients,    \* the clients of config.yaml, in order
    Timeout,    \* --timeout
    NoLimit     \* waiting without end

Cli == "cli"

\* A configuration without clients is refused.
ASSUME RunCommandAssumption ==
    /\ Cli \in Processes
    /\ Timeout \in Nat \ {0} /\ NoLimit \notin Nat
    /\ Clients # <<>> /\ Clients \in Seq({Clients[n] : n \in DOMAIN Clients})

VARIABLES
    options,    \* of the command
    cmd,        \* where the command is, the client it waits for, failures so far
    patience,   \* what is left of --timeout
    limit,      \* the timeout given to the wait under way, what is left of it
    runs,       \* the chosen clients' runs
    result,     \* what the result backend has of a client's callback
    told        \* the clients whose outcome was printed, and how

command == <<options, cmd, patience, limit, runs, result, told>>
vars == <<cache, command>>

Options ==
    {o \in [all : BOOLEAN, workers : BOOLEAN, timeout : BOOLEAN, csv : BOOLEAN] :
        o.timeout => o.workers}
Chosen == IF options.all THEN Clients ELSE SubSeq(Clients, 1, 1)
Reports == {"complete", "partial", "failed"}
Stopped == {"exited", "crashed"}

Init ==
    /\ InitCache /\ options \in Options
    /\ cmd = [at |-> "refresh", n |-> 1, failed |-> FALSE, code |-> 0]
    /\ patience = Timeout /\ limit = NoLimit
    /\ runs = [c \in {Clients[n] : n \in DOMAIN Clients} |-> "none"]
    /\ result = [c \in DOMAIN runs |-> "none"]
    /\ told = [c \in DOMAIN runs |-> "nothing"]

-----------------------------------------------------------------------------
(* Before the runs.                                                        *)
Goes(at) == cmd' = [cmd EXCEPT !.at = at, !.code = IF at = "crashed" THEN 1 ELSE @]
Else == UNCHANGED <<options, patience, limit, runs, result, told>>

\* A failed fetch does not stop the command; a file that cannot be written does.
RefreshData ==
    /\ cmd.at = "refresh" /\ StartRefresh(Cli, TRUE) /\ Goes("refreshing") /\ Else
SkipRefresh ==              \* refresh_os_eol: false
    cmd.at = "refresh" /\ Goes("sweep") /\ Else /\ UNCHANGED cache
RefreshEnds ==
    /\ cmd.at = "refreshing" /\ EndRefresh(Cli)
    /\ Goes(IF refresh[Cli].result = "raised" THEN "crashed" ELSE "sweep") /\ Else

\* fail_abandoned_runs, which raises if the database is locked; the deadline
\* counts from here.
Sweep ==
    /\ cmd.at = "sweep"
    /\ \E at \in {IF options.workers THEN "ping" ELSE "start", "crashed"} : Goes(at)
    /\ Else /\ UNCHANGED cache
Ping ==
    /\ cmd.at = "ping" /\ \E at \in {"start", "crashed"} : Goes(at)
    /\ Else /\ UNCHANGED cache

-----------------------------------------------------------------------------
(* The runs.  The callback answers with the report of what it made of the  *)
(* run; or with an error, and the run is failed by its error callback, or  *)
(* left as it was until that comes or if it raises too; or with the report *)
(* of a duplicate, since a sweep was first.  In process, that is when the  *)
(* start returns.                                                          *)
Runs(c, status, answer) ==
    runs' = [runs EXCEPT ![c] = status] /\ result' = [result EXCEPT ![c] = answer]
Outcome(c, was) ==
    \/ \E r \in Reports : Runs(c, r, r)
    \/ \E status \in {was, "failed"} : Runs(c, status, "error")
    \/ Runs(c, "failed", "duplicate")

StartRun ==
    /\ cmd.at = "start"
    /\ IF options.workers THEN Runs(Chosen[cmd.n], "pending", "none")
       ELSE Outcome(Chosen[cmd.n], "pending")
    /\ cmd' = IF cmd.n < Len(Chosen) THEN [cmd EXCEPT !.n = @ + 1]
              ELSE [cmd EXCEPT !.at = "next", !.n = 1]
    /\ UNCHANGED <<options, patience, limit, told, cache>>

\* The database or the broker refuses, or a unit of the fan-out raises in
\* process: outside the loop's try, so the other clients are not started.
StartRaises ==
    /\ cmd.at = "start" /\ Goes("crashed")
    /\ Runs(Chosen[cmd.n], "pending", "none") \/ UNCHANGED <<runs, result>>
    /\ UNCHANGED <<options, patience, limit, told, cache>>

\* max(0, deadline - now); Celery's backends take a timeout of 0 for none.
\* Variant: each wait has --timeout of its own.
GetTimeoutEach == IF options.timeout THEN Timeout ELSE NoLimit
GetTimeout == IF options.timeout /\ patience > 0 THEN patience ELSE NoLimit

AwaitNext ==
    /\ cmd.at = "next" /\ cmd.n =< Len(Chosen)
    /\ cmd' = [cmd EXCEPT !.at = "waiting"] /\ limit' = GetTimeout
    /\ UNCHANGED <<options, patience, runs, result, told, cache>>

Tells(how, failed) ==
    /\ told' = [told EXCEPT ![Chosen[cmd.n]] = how]
    /\ cmd' = [cmd EXCEPT !.at = "next", !.n = @ + 1, !.failed = @ \/ failed]
    /\ UNCHANGED <<options, patience, limit, runs, result, cache>>

\* Variant: only an error of the callback counts as one.
ReportReadyLeniently ==
    /\ cmd.at = "waiting" /\ result[Chosen[cmd.n]] \in Reports \cup {"error"}
    /\ Tells(result[Chosen[cmd.n]], result[Chosen[cmd.n]] = "error")
ReportReady ==
    /\ cmd.at = "waiting" /\ result[Chosen[cmd.n]] \in Reports \cup {"error"}
    /\ Tells(result[Chosen[cmd.n]], result[Chosen[cmd.n]] \in {"failed", "error"})

\* The CSV cannot be written, or the report is of a callback that found its
\* run finished: _echo_report raises, outside the try.
EchoRaises ==
    /\ cmd.at = "waiting"
    /\ \/ options.csv /\ result[Chosen[cmd.n]] \in {"complete", "partial"}
       \/ result[Chosen[cmd.n]] = "duplicate"
    /\ Goes("crashed") /\ Else /\ UNCHANGED cache

\* CeleryTimeoutError: the next client is waited for, until the same deadline.
WaitTimesOut ==
    /\ cmd.at = "waiting" /\ limit = 0
    /\ Tells("still running", TRUE)

ExitRun ==
    /\ cmd.at = "next" /\ cmd.n > Len(Chosen)
    /\ cmd' = [cmd EXCEPT !.at = "exited", !.code = IF cmd.failed THEN 1 ELSE 0]
    /\ Else /\ UNCHANGED cache

-----------------------------------------------------------------------------
(* Beside the command.                                                     *)
\* Variant: what is left is not cut off at zero.
ElapsesBelowZero ==
    /\ options.timeout /\ cmd.at \notin Stopped \cup {"refresh", "refreshing", "sweep"}
    /\ patience >= 0 /\ patience' = patience - 1
    /\ UNCHANGED <<options, cmd, limit, runs, result, told, cache>>
Elapses ==
    /\ options.timeout /\ cmd.at \notin Stopped \cup {"refresh", "refreshing", "sweep"}
    /\ patience > 0 \/ limit \notin {0, NoLimit}
    /\ patience' = IF patience > 0 THEN patience - 1 ELSE 0
    /\ limit' = IF limit \in {0, NoLimit} THEN limit ELSE limit - 1
    /\ UNCHANGED <<options, cmd, runs, result, told, cache>>

\* The callback, once or again; it may have found the run pending before a
\* sweep failed it.
WorkerFinishes(c) ==
    /\ options.workers /\ runs[c] \in {"pending", "failed"} /\ Outcome(c, runs[c])
    /\ UNCHANGED <<options, cmd, patience, limit, told, cache>>
\* The callback again, of a run that has its rows: its report or error takes
\* the first one's place.
Redelivered(c) ==
    /\ options.workers /\ runs[c] \in {"complete", "partial"}
    /\ \E again \in {"duplicate", "error"} : result' = [result EXCEPT ![c] = again]
    /\ UNCHANGED <<options, cmd, patience, limit, runs, told, cache>>

\* The error callback, later than the error; or another process's sweep.
MarkedFailed(c) ==
    /\ runs[c] = "pending" /\ runs' = [runs EXCEPT ![c] = "failed"]
    /\ UNCHANGED <<options, cmd, patience, limit, result, told, cache>>

BeatRefresh(p) ==           \* refresh_os_eol_data
    p # Cli /\ (StartRefresh(p, FALSE) \/ EndRefresh(p)) /\ UNCHANGED command
Lookup(p) == (StatFile(p) \/ LoadTables(p)) /\ UNCHANGED command
RefreshStep(p) ==
    /\ Fetch(p) \/ FetchFails(p) \/ WriteTemp(p) \/ ReplaceFile(p) \/ WriteFails(p)
    /\ UNCHANGED command

CommandStep ==
    \/ RefreshData \/ SkipRefresh \/ RefreshEnds \/ Sweep \/ Ping \/ StartRun \/ StartRaises
    \/ AwaitNext \/ ReportReady \/ EchoRaises \/ WaitTimesOut \/ ExitRun
Next ==
    \/ CommandStep \/ Elapses \/ (Tick /\ UNCHANGED command)
    \/ \E c \in DOMAIN runs : WorkerFinishes(c) \/ Redelivered(c) \/ MarkedFailed(c)
    \/ \E p \in Processes : BeatRefresh(p) \/ RefreshStep(p)
    \/ \E p \in Lookers : Lookup(p)

\* The command runs, its requests end (they have timeouts) and time passes;
\* nothing is assumed of the workers.
Spec ==
    /\ Init /\ [][Next]_vars
    /\ WF_vars(CommandStep) /\ WF_vars(RefreshStep(Cli)) /\ WF_vars(Elapses)

-----------------------------------------------------------------------------
(* Properties.                                                             *)
TypeOK ==
    /\ options \in Options /\ patience \in 0..Timeout /\ limit \in 0..Timeout \cup {NoLimit}
    /\ cmd.at \in {"refresh", "refreshing", "sweep", "ping", "start", "next", "waiting"} \cup Stopped
    /\ \A c \in DOMAIN runs :
          /\ runs[c] \in {"none", "pending"} \cup Reports
          /\ result[c] \in {"none", "error", "duplicate"} \cup Reports
    /\ file # NoFile => file.mtime \in 0..clock
    /\ \A p \in Processes :
          /\ refresh[p].at \in {"idle", "fetching", "fetched", "written", "ended"}
          /\ refresh[p].mtime \in 0..clock

\* The exit code can be relied on by whoever scripts the command: it is 0 only
\* when every chosen client has a finished run that did not fail, and every
\* client is told of unless the command crashed ("report every client, not
\* just the first failure").  A client that was given up, told of as failed or
\* not told of is never behind an exit code of 0.
ExitIsHonest ==
    cmd.at \in Stopped =>
        /\ cmd.code = 0 => \A n \in DOMAIN Chosen :
               runs[Chosen[n]] \in {"complete", "partial"} /\ told[Chosen[n]] = runs[Chosen[n]]
        /\ cmd.at = "exited" => \A n \in DOMAIN Chosen : told[Chosen[n]] # "nothing"

\* All waits share the one deadline of --timeout: while something is left of
\* it, a wait has just that, also when it is the last of many; only without
\* --timeout, or when nothing is left, is a wait without end; and no client is
\* given up ("still running") before the deadline.
DeadlineShared ==
    /\ cmd.at = "waiting" =>
          IF limit = NoLimit THEN ~options.timeout \/ patience = 0
          ELSE options.timeout /\ limit = patience
    /\ \A c \in DOMAIN told : told[c] = "still running" => options.timeout /\ patience = 0

\* "Stop waiting after this many minutes in total" (--timeout): the command
\* ends whatever becomes of the workers, and so it does in its own process.
CommandEnds == (~options.workers \/ options.timeout) ~> cmd.at \in Stopped
=============================================================================

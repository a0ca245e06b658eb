---------------------------- MODULE RunLifecycle ----------------------------
(***************************************************************************)
(* The life of a CorrelationRun: how the beat tick (and `agent-parity run`) *)
(* sweeps abandoned runs and creates new ones, how the chord callback       *)
(* finalizes a run, how the error callback fails it, and how all of them    *)
(* share one SQLite database (scheduling/tasks.py, scheduling/persistence.py).*)
(*                                                                         *)
(* A process is a Celery worker slot or a CLI.  It runs one task at a time; *)
(* an action is the code between two points where another process can be   *)
(* observed: a SELECT, a write transaction, an HTTP call, a broker call.    *)
(* SELECTs run in autocommit, so each one sees the last committed state;    *)
(* the first INSERT or UPDATE of a session takes SQLite's single write lock *)
(* and keeps it until commit or rollback.  A write transaction with nothing *)
(* but SQL in it is one action; the callback's, which calls Splunk before   *)
(* it commits, is three.                                                   *)
(***************************************************************************)
EXTENDS Integers, FiniteSets

CONSTANTS
    Procs,          \* worker slots and CLI processes
    NoProc,         \* "nobody" (the write lock is free)
    Runs,           \* the correlation_runs rows that can ever be created
    NoRun,          \* "no run"
    NumClients,     \* clients of config.yaml, numbered in slug order
    ClientOf,       \* the client a run row belongs to
    Keys,           \* device join keys
    Interval,       \* ClientConfig.sync_interval_hours
    Timeout,        \* AppConfig.pending_run_timeout_hours
    AgeCap,         \* bound: ages are not told apart from here on
    MaxDeliveries   \* bound: times the broker delivers one run's callback

Clients == 1..NumClients

ASSUME ConstantsAssumption ==
    /\ NoProc \notin Procs
    /\ NoRun \notin Runs
    /\ NumClients \in Nat
    /\ ClientOf \in [Runs -> Clients]
    /\ Interval \in Nat /\ Timeout \in Nat /\ AgeCap \in Nat
    /\ AgeCap > Timeout /\ AgeCap >= Interval
    /\ MaxDeliveries \in Nat

VARIABLES
    \* the database
    status,         \* correlation_runs.status ("absent": no such row yet)
    age,            \* hours since correlation_runs.started_at, up to AgeCap
    snapshots,      \* coverage_snapshots: committed rows per run and device
    devices,        \* devices: the join keys with a row, per client
    clientRows,     \* clients: the clients with a row
    writer,         \* who holds SQLite's write lock
    \* the broker and Splunk
    chord,          \* what has become of a run's chord
    payload,        \* what its fan-out tasks returned
    copies,         \* deliveries of its callback still waiting
    deliveries,     \* deliveries of its callback that were started
    summaries,      \* summary events Splunk holds for the run
    \* the processes
    task            \* what each process is executing

database == <<status, age, snapshots, devices, clientRows, writer>>
broker == <<chord, payload, copies, deliveries>>
vars == <<status, age, snapshots, devices, clientRows, writer,
          chord, payload, copies, deliveries, summaries, task>>

-----------------------------------------------------------------------------
Finished == {"complete", "partial", "failed"}
RunStatus == {"absent", "pending"} \cup Finished

\* The fan-out's results as the callback tells them apart: ad, at least one
\* domain's export arrived; allOk, every source's status is "ok"; rows, the
\* devices of the correlated frame (none when there is no AD data).
Payload == {w \in [ad : BOOLEAN, allOk : BOOLEAN, rows : SUBSET Keys] :
                ~w.ad => w.rows = {}}
NoPayload == [ad |-> FALSE, allOk |-> FALSE, rows |-> {}]

Tick == {"sweep", "dispatch", "sync", "insert", "publish"}
Callback == {"correlate", "store", "export", "commit"}
Errback == {"errback", "mark"}
Label == {"idle", "down"} \cup Tick \cup Callback \cup Errback

\* The local state of a task: the run it works for, the runs a sweep selected,
\* the device rows a callback loaded, the clients a tick has still to visit,
\* its `force` argument, and whether it found a row for the client it visits.
Task == [at : Label, run : Runs \cup {NoRun}, abandoned : SUBSET Runs,
         existing : SUBSET Keys, todo : SUBSET Clients, force : BOOLEAN,
         clientFound : BOOLEAN]
IdleTask == [at |-> "idle", run |-> NoRun, abandoned |-> {}, existing |-> {},
             todo |-> {}, force |-> FALSE, clientFound |-> FALSE]
DownTask == [IdleTask EXCEPT !.at = "down"]

TypeOK ==
    /\ status \in [Runs -> RunStatus]
    /\ age \in [Runs -> 0..AgeCap]
    /\ snapshots \in [Runs -> [Keys -> Nat]]
    /\ devices \in [Clients -> SUBSET Keys]
    /\ clientRows \in SUBSET Clients
    /\ writer \in Procs \cup {NoProc}
    /\ chord \in [Runs -> {"unsent", "collecting", "returned", "broken"}]
    /\ payload \in [Runs -> Payload]
    /\ copies \in [Runs -> Nat]
    /\ deliveries \in [Runs -> Nat]
    /\ summaries \in [Runs -> Nat]
    /\ task \in [Procs -> Task]

Init ==
    /\ status = [r \in Runs |-> "absent"]
    /\ age = [r \in Runs |-> 0]
    /\ snapshots = [r \in Runs |-> [k \in Keys |-> 0]]
    /\ devices = [c \in Clients |-> {}]
    /\ clientRows = {}
    /\ writer = NoProc
    /\ chord = [r \in Runs |-> "unsent"]
    /\ payload = [r \in Runs |-> NoPayload]
    /\ copies = [r \in Runs |-> 0]
    /\ deliveries = [r \in Runs |-> 0]
    /\ summaries = [r \in Runs |-> 0]
    /\ task = [p \in Procs |-> IdleTask]

-----------------------------------------------------------------------------
\* Helpers.

At(p, label) == task[p].at = label

\* Process p's task continues as t.
Become(p, t) == task' = [task EXCEPT ![p] = t]

Goto(p, label) == Become(p, [task[p] EXCEPT !.at = label])

\* The task ends: its session is closed and nothing of it is left.
Finish(p) == Become(p, IdleTask)

\* The error callback of a run, which Celery runs in the worker that saw the
\* exception, with a session of its own.
ErrbackTask(r) == [IdleTask EXCEPT !.at = "errback", !.run = r]

\* A callback raises.
Raise(p) == Become(p, ErrbackTask(task[p].run))

DatabaseFree == writer = NoProc

\* Variants of the two queries below, as a plausible mistake would write them
\* (see "Variants").
AbandonedByAge == {r \in Runs : status[r] # "absent" /\ age[r] > Timeout}
AbandonedYoung == {r \in Runs : status[r] = "pending" /\ age[r] < Timeout}
AbandonedAnyAge == {r \in Runs : status[r] = "pending"}
ClientIsDueAfterSuccess(c) ==
    \A r \in Runs : status[r] # "absent" /\ ClientOf[r] = c =>
        age[r] >= Interval /\ status[r] # "failed"

\* Runs older than the timeout that are still pending.
Abandoned == {r \in Runs : status[r] = "pending" /\ age[r] > Timeout}

\* The latest run of the client, whatever became of it, is an interval old.
ClientIsDue(c) ==
    \A r \in Runs : status[r] # "absent" /\ ClientOf[r] = c => age[r] >= Interval

\* The client a tick visits next: slugs are taken in order.
IsNext(p, c) == c \in task[p].todo /\ \A d \in task[p].todo : c <= d

Unused(c) == {r \in Runs : status[r] = "absent" /\ ClientOf[r] = c}

\* The devices the callback inserts because it saw no row for them.
NewDevices(p) == payload[task[p].run].rows \ task[p].existing

-----------------------------------------------------------------------------
\* Variants: steps as a plausible mistake would have written them.  No
\* specification uses them; putting one in the place of the step it varies
\* shows which property notices.

\* The callback without its test of the run's status.
CallbackStartUnchecked(p, r) ==
    /\ At(p, "idle")
    /\ copies[r] > 0
    /\ copies' = [copies EXCEPT ![r] = @ - 1]
    /\ deliveries' = [deliveries EXCEPT ![r] = @ + 1]
    /\ Become(p, [IdleTask EXCEPT !.at = "correlate", !.run = r])
    /\ UNCHANGED <<database, chord, payload, summaries>>

\* A tick that takes every client.
TakeClientUnchecked(p) ==
    /\ At(p, "dispatch")
    /\ \E c \in Clients : IsNext(p, c) /\ Unused(c) # {}
    /\ Goto(p, "sync")
    /\ UNCHANGED <<database, broker, summaries>>

\* A status outside RunStatus.
FailRunWithError(p) ==
    /\ At(p, "correlate")
    /\ ~payload[task[p].run].ad
    /\ DatabaseFree
    /\ status' = [status EXCEPT ![task[p].run] = "error"]
    /\ Finish(p)
    /\ UNCHANGED <<age, snapshots, devices, clientRows, writer, broker, summaries>>

\* A callback that raises puts its run back for another attempt.
CorrelateRaisesForRetry(p) ==
    /\ At(p, "correlate")
    /\ status' = [status EXCEPT ![task[p].run] = "pending"]
    /\ Raise(p)
    /\ UNCHANGED <<age, snapshots, devices, clientRows, writer, broker, summaries>>

\* The first flush without the unique constraint.
StoreUnchecked(p) ==
    /\ At(p, "store")
    /\ DatabaseFree
    /\ writer' = p
    /\ Goto(p, IF payload[task[p].run].rows # {} THEN "export" ELSE "commit")
    /\ UNCHANGED <<status, age, snapshots, devices, clientRows, broker, summaries>>

\* The commit, with the parts of it that a mistake could get wrong.
CommitWith(p, outcome, inserted) ==
    LET r == task[p].run
        rows == payload[r].rows IN
    /\ At(p, "commit")
    /\ status' = [status EXCEPT ![r] = outcome]
    /\ snapshots' = [snapshots EXCEPT ![r] =
                        [k \in Keys |-> IF k \in rows THEN snapshots[r][k] + 1
                                                      ELSE snapshots[r][k]]]
    /\ devices' = [devices EXCEPT ![ClientOf[r]] = @ \cup inserted]
    /\ UNCHANGED <<age, clientRows, broker, summaries>>

\* The rows are committed and the status is left for later.
CommitRowsOnly(p) ==
    /\ CommitWith(p, status[task[p].run], payload[task[p].run].rows)
    /\ writer' = NoProc
    /\ Finish(p)

\* A failed source is forgotten.
CommitComplete(p) ==
    /\ CommitWith(p, "complete", payload[task[p].run].rows)
    /\ writer' = NoProc
    /\ Finish(p)

\* New devices are not inserted.
CommitWithoutDevices(p) ==
    /\ CommitWith(p, IF payload[task[p].run].allOk THEN "complete" ELSE "partial", {})
    /\ writer' = NoProc
    /\ Finish(p)

\* A commit that is retried although it went through (once: snapshots <= 1).
CommitAgain(p) ==
    /\ CommitWith(p, IF payload[task[p].run].allOk THEN "complete" ELSE "partial",
                  payload[task[p].run].rows)
    /\ IF \E k \in payload[task[p].run].rows : snapshots[task[p].run][k] = 0
       THEN UNCHANGED <<writer, task>>
       ELSE writer' = NoProc /\ Finish(p)

-----------------------------------------------------------------------------
\* Time, the fan-out and the broker.

\* An hour passes for every run that exists.
Hour ==
    /\ \E r \in Runs : status[r] # "absent" /\ age[r] < AgeCap
    /\ age' = [r \in Runs |-> IF status[r] # "absent" /\ age[r] < AgeCap
                              THEN age[r] + 1 ELSE age[r]]
    /\ UNCHANGED <<status, snapshots, devices, clientRows, writer, broker,
                   summaries, task>>

\* Every fan-out task of the run has returned: the callback is queued.  A
\* fan-out task whose worker dies never returns, and this never happens.
HeaderReturns(r) ==
    /\ chord[r] = "collecting"
    /\ chord' = [chord EXCEPT ![r] = "returned"]
    /\ payload' \in {[payload EXCEPT ![r] = w] : w \in Payload}
    /\ copies' = [copies EXCEPT ![r] = 1]
    /\ UNCHANGED <<database, deliveries, summaries, task>>

\* The broker delivers a callback it has delivered before.
Redeliver(r) ==
    /\ chord[r] = "returned"
    /\ copies[r] + deliveries[r] < MaxDeliveries
    /\ copies' = [copies EXCEPT ![r] = @ + 1]
    /\ UNCHANGED <<database, chord, payload, deliveries, summaries, task>>

\* A fan-out task raised: the worker that sees it runs the error callback.
ChordError(p, r) ==
    /\ At(p, "idle")
    /\ chord[r] = "collecting"
    /\ chord' = [chord EXCEPT ![r] = "broken"]
    /\ Become(p, ErrbackTask(r))
    /\ UNCHANGED <<database, payload, copies, deliveries, summaries>>

\* The process is killed.  Its open transaction is rolled back and its task,
\* acknowledged when it was received, is lost.
Crash(p) ==
    /\ ~At(p, "idle") /\ ~At(p, "down")
    /\ writer' = IF writer = p THEN NoProc ELSE writer
    /\ Become(p, DownTask)
    /\ UNCHANGED <<status, age, snapshots, devices, clientRows, broker, summaries>>

\* The pool forks another worker process.
Restart(p) ==
    /\ At(p, "down")
    /\ Finish(p)
    /\ UNCHANGED <<database, broker, summaries>>

-----------------------------------------------------------------------------
\* dispatch_all_clients, and `agent-parity run` for chosen clients.

\* fail_abandoned_runs selects the runs it will fail; then the clients in todo
\* are visited.
StartTick(p, todo, force) ==
    /\ At(p, "idle")
    /\ Become(p, [IdleTask EXCEPT !.at = "sweep", !.abandoned = Abandoned,
                                  !.todo = todo, !.force = force])
    /\ UNCHANGED <<database, broker, summaries>>

\* Beat's hourly tick, and its forced tick at 07:00.
BeatTick(p) == \E force \in BOOLEAN : StartTick(p, Clients, force)

\* `agent-parity run` dispatches the clients it is asked for, due or not.
CliRun(p) == \E todo \in SUBSET Clients \ {{}} : StartTick(p, todo, TRUE)

\* The runs it selected become failed, whatever they are by now.
SweepWrite(p) ==
    LET lost == task[p].abandoned IN
    /\ At(p, "sweep")
    /\ lost # {} => DatabaseFree
    /\ status' = [r \in Runs |-> IF r \in lost THEN "failed" ELSE status[r]]
    /\ Become(p, [task[p] EXCEPT !.at = "dispatch", !.abandoned = {}])
    /\ UNCHANGED <<age, snapshots, devices, clientRows, writer, broker, summaries>>

\* A client that is not due is passed over.  (Bound: so is one whose run rows
\* are used up.)
SkipClient(p) ==
    /\ At(p, "dispatch")
    /\ \E c \in Clients :
        /\ IsNext(p, c)
        /\ (~task[p].force /\ ~ClientIsDue(c)) \/ Unused(c) = {}
        /\ Become(p, [task[p] EXCEPT !.todo = @ \ {c}])
    /\ UNCHANGED <<database, broker, summaries>>

TakeClient(p) ==
    /\ At(p, "dispatch")
    /\ \E c \in Clients :
        /\ IsNext(p, c)
        /\ task[p].force \/ ClientIsDue(c)
        /\ Unused(c) # {}
    /\ Goto(p, "sync")
    /\ UNCHANGED <<database, broker, summaries>>

\* sync_client_from_config looks for the client's row.
SyncClient(p) ==
    /\ At(p, "sync")
    /\ \E c \in Clients :
        /\ IsNext(p, c)
        /\ Become(p, [task[p] EXCEPT !.at = "insert",
                                     !.clientFound = c \in clientRows])
    /\ UNCHANGED <<database, broker, summaries>>

\* The pending run is committed, with the client's row if it had none.
InsertRun(p) ==
    /\ At(p, "insert")
    /\ DatabaseFree
    /\ \E c \in Clients :
        /\ IsNext(p, c)
        /\ task[p].clientFound \/ c \notin clientRows
        /\ clientRows' = clientRows \cup {c}
        /\ \E r \in Unused(c) :
            /\ status' = [status EXCEPT ![r] = "pending"]
            /\ Become(p, [task[p] EXCEPT !.at = "publish", !.run = r])
    /\ UNCHANGED <<age, snapshots, devices, writer, broker, summaries>>

\* Another process inserted the client's row meanwhile: IntegrityError, and
\* the rest of the tick is abandoned.  (Bound: so it is if the run rows are
\* used up by now.)
InsertClashes(p) ==
    /\ At(p, "insert")
    /\ DatabaseFree
    /\ \E c \in Clients :
        /\ IsNext(p, c)
        /\ (~task[p].clientFound /\ c \in clientRows) \/ Unused(c) = {}
    /\ Finish(p)
    /\ UNCHANGED <<database, broker, summaries>>

\* The chord is handed to the broker, and the tick goes on to the next client.
Publish(p) ==
    /\ At(p, "publish")
    /\ chord' = [chord EXCEPT ![task[p].run] = "collecting"]
    /\ Become(p, [task[p] EXCEPT !.at = "dispatch", !.run = NoRun,
                                 !.clientFound = FALSE,
                                 !.todo = {c \in @ : ~IsNext(p, c)}])
    /\ UNCHANGED <<database, payload, copies, deliveries, summaries>>

\* The broker cannot be reached: the exception ends the tick and the run's
\* chord is never sent.
PublishFails(p) ==
    /\ At(p, "publish")
    /\ Finish(p)
    /\ UNCHANGED <<database, broker, summaries>>

EndTick(p) ==
    /\ At(p, "dispatch")
    /\ task[p].todo = {}
    /\ Finish(p)
    /\ UNCHANGED <<database, broker, summaries>>

-----------------------------------------------------------------------------
\* correlate_client, the chord callback.

\* It reads the run and goes on only if it is pending.
CallbackStart(p, r) ==
    /\ At(p, "idle")
    /\ copies[r] > 0
    /\ copies' = [copies EXCEPT ![r] = @ - 1]
    /\ deliveries' = [deliveries EXCEPT ![r] = @ + 1]
    /\ IF status[r] = "pending"
       THEN Become(p, [IdleTask EXCEPT !.at = "correlate", !.run = r])
       ELSE UNCHANGED task
    /\ UNCHANGED <<database, chord, payload, summaries>>

\* Collecting the results, loading the configuration or correlating raises.
CorrelateRaises(p) ==
    /\ At(p, "correlate")
    /\ Raise(p)
    /\ UNCHANGED <<database, broker, summaries>>

\* Every domain failed: the run is failed without looking at its status again.
FailRun(p) ==
    LET r == task[p].run IN
    /\ At(p, "correlate")
    /\ ~payload[r].ad
    /\ DatabaseFree
    /\ status' = [status EXCEPT ![r] = "failed"]
    /\ Finish(p)
    /\ UNCHANGED <<age, snapshots, devices, clientRows, writer, broker, summaries>>

\* persist_correlation takes the run from the session (its re-check reads the
\* object CallbackStart loaded, not the database) and loads the device rows.
LoadDevices(p) ==
    LET r == task[p].run IN
    /\ At(p, "correlate")
    /\ payload[r].ad
    /\ Become(p, [task[p] EXCEPT !.at = "store",
                                 !.existing = devices[ClientOf[r]]])
    /\ UNCHANGED <<database, broker, summaries>>

\* The first flush takes the write lock; the rows stay uncommitted while they
\* are sent to Splunk.  An empty frame is not sent.
Store(p) ==
    LET r == task[p].run IN
    /\ At(p, "store")
    /\ DatabaseFree
    /\ NewDevices(p) \cap devices[ClientOf[r]] = {}
    /\ writer' = p
    /\ Goto(p, IF payload[r].rows # {} THEN "export" ELSE "commit")
    /\ UNCHANGED <<status, age, snapshots, devices, clientRows, broker, summaries>>

\* A device it takes for new has a row by now: IntegrityError.
DeviceClashes(p) ==
    /\ At(p, "store")
    /\ DatabaseFree
    /\ NewDevices(p) \cap devices[ClientOf[task[p].run]] # {}
    /\ Raise(p)
    /\ UNCHANGED <<database, broker, summaries>>

\* Splunk accepts every batch, the summary last.
ExportSucceeds(p) ==
    /\ At(p, "export")
    /\ summaries' = [summaries EXCEPT ![task[p].run] = @ + 1]
    /\ Goto(p, "commit")
    /\ UNCHANGED <<database, broker>>

\* Splunk is not configured, or fails before the summary: SplunkExportError is
\* logged.  (A summary that arrives and whose answer is lost is the case above.)
ExportFails(p) ==
    /\ At(p, "export")
    /\ Goto(p, "commit")
    /\ UNCHANGED <<database, broker, summaries>>

\* The snapshots, the new devices and the run's status are committed.
Commit(p) ==
    LET r == task[p].run
        rows == payload[r].rows IN
    /\ At(p, "commit")
    /\ status' = [status EXCEPT ![r] = IF payload[r].allOk THEN "complete"
                                                           ELSE "partial"]
    /\ snapshots' = [snapshots EXCEPT ![r] =
                        [k \in Keys |-> IF k \in rows THEN snapshots[r][k] + 1
                                                      ELSE snapshots[r][k]]]
    /\ devices' = [devices EXCEPT ![ClientOf[r]] = @ \cup rows]
    /\ writer' = NoProc
    /\ Finish(p)
    /\ UNCHANGED <<age, clientRows, broker, summaries>>

-----------------------------------------------------------------------------
\* mark_run_failed, the error callback.

MarkRead(p) ==
    /\ At(p, "errback")
    /\ IF status[task[p].run] = "pending" THEN Goto(p, "mark") ELSE Finish(p)
    /\ UNCHANGED <<database, broker, summaries>>

MarkWrite(p) ==
    /\ At(p, "mark")
    /\ DatabaseFree
    /\ status' = [status EXCEPT ![task[p].run] = "failed"]
    /\ Finish(p)
    /\ UNCHANGED <<age, snapshots, devices, clientRows, writer, broker, summaries>>

-----------------------------------------------------------------------------
\* Another process kept the write lock past SQLite's busy timeout:
\* OperationalError.  It ends a tick and an error callback, and makes a
\* callback raise.
DatabaseLocked(p) ==
    /\ ~DatabaseFree /\ writer # p
    /\ \/ /\ \/ At(p, "sweep") /\ task[p].abandoned # {}
             \/ At(p, "insert")
             \/ At(p, "mark")
          /\ Finish(p)
       \/ /\ \/ At(p, "correlate") /\ ~payload[task[p].run].ad
             \/ At(p, "store")
          /\ Raise(p)
    /\ UNCHANGED <<database, broker, summaries>>

-----------------------------------------------------------------------------
\* What a process does once it has a task, short of being killed.
Proceed(p) ==
    \/ SweepWrite(p) \/ SkipClient(p) \/ TakeClient(p) \/ SyncClient(p)
    \/ InsertRun(p) \/ InsertClashes(p) \/ Publish(p) \/ PublishFails(p)
    \/ EndTick(p)
    \/ CorrelateRaises(p) \/ FailRun(p) \/ LoadDevices(p) \/ Store(p)
    \/ DeviceClashes(p) \/ ExportSucceeds(p) \/ ExportFails(p) \/ Commit(p)
    \/ MarkRead(p) \/ MarkWrite(p)
    \/ DatabaseLocked(p)

Next ==
    \/ Hour
    \/ \E r \in Runs : HeaderReturns(r) \/ Redeliver(r)
    \/ \E p \in Procs :
        \/ BeatTick(p) \/ CliRun(p) \/ Proceed(p) \/ Crash(p) \/ Restart(p)
        \/ \E r \in Runs : CallbackStart(p, r) \/ ChordError(p, r)

Spec == Init /\ [][Next]_vars

\* Hours pass, beat's hourly ticks keep reaching a worker, a process that is
\* not killed goes on with its task, one that is killed is replaced, and
\* processes are killed finitely often.
\* Nothing says that a fan-out returns or that a callback succeeds.
Fairness ==
    /\ WF_vars(Hour)
    /\ SF_vars(\E p \in Procs : StartTick(p, Clients, FALSE))
    /\ \A p \in Procs : WF_vars(Proceed(p)) /\ WF_vars(Restart(p))
    /\ <>[][\A p \in Procs : ~Crash(p)]_vars

FairSpec == Spec /\ Fairness

-----------------------------------------------------------------------------
(***************************************************************************)
(* Safety, with any number of processes.                                   *)
(***************************************************************************)

HasLock(p) == task[p].at \in {"export", "commit"}

\* A run without a final status has no snapshot: persist_correlation commits
\* the rows and the status that says how complete they are together, and no
\* crash, lock timeout or IntegrityError leaves one without the other.
UnfinishedHasNoTable ==
    \A r \in Runs : status[r] \in {"absent", "pending"} =>
        \A k \in Keys : snapshots[r][k] = 0

\* A run that says complete had every source answer, one that says partial had
\* some source fail, and both hold every row of the frame, however many
\* callbacks, sweeps and error callbacks raced for it.
FinishedIsHonest ==
    \A r \in Runs : status[r] \in {"complete", "partial"} =>
        /\ payload[r].ad
        /\ payload[r].allOk <=> status[r] = "complete"
        /\ \A k \in payload[r].rows : snapshots[r][k] > 0

\* Snapshots refer to committed devices of the run's own client, and only
\* to rows of its own frame.
SnapshotsHaveDevices ==
    \A r \in Runs, k \in Keys : snapshots[r][k] > 0 =>
        k \in devices[ClientOf[r]] /\ k \in payload[r].rows

\* What a callback established when it took the write lock still holds when it
\* commits, across the Splunk calls in between: nobody else is writing, and no
\* device it is about to insert has appeared (uniq_device_per_client).
WriterIsAlone ==
    \A p \in Procs : HasLock(p) =>
        /\ writer = p
        /\ \A q \in Procs : HasLock(q) => q = p
        /\ NewDevices(p) \cap devices[ClientOf[task[p].run]] = {}

\* pending_run_timeout_hours is "generous on purpose" (config.py): until a run
\* is that old nothing rewrites its outcome, neither a sweep that selected it
\* before its callback finished nor an error callback, as long as the broker
\* delivers a callback once.
YoungStaysFinished ==
    [][\A r \in Runs : status[r] \in Finished /\ age[r] <= Timeout =>
            status'[r] = status[r]]_vars

\* A finished run never becomes pending again, and no row disappears.
NeverReopened ==
    [][\A r \in Runs :
        /\ status[r] \in Finished => status'[r] \in Finished
        /\ status[r] = "pending" => status'[r] # "absent"
        /\ \A k \in Keys : snapshots'[r][k] >= snapshots[r][k]]_vars

-----------------------------------------------------------------------------
(***************************************************************************)
(* What persistence.py and docs/architecture.md promise of finished runs.  *)
(* They hold when one process at a time works on the database; with two    *)
(* they do not.                                                            *)
(***************************************************************************)

\* "make a chord callback firing twice a no-op rather than double-counting
\* data" (persistence.py): a device of the frame is counted once per run.
SnapshotsOnce == \A r \in Runs, k \in Keys : snapshots[r][k] <= 1

\* "persist_correlation sees it is no longer PENDING and discards the late
\* result rather than reviving it" (persistence.py): a failed run stays failed.
NoRevival ==
    [][\A r \in Runs : status[r] = "failed" => status'[r] = "failed"]_vars

\* "A FAILED run has no table" (docs/architecture.md).
FailedHasNoTable ==
    \A r \in Runs : status[r] = "failed" => \A k \in Keys : snapshots[r][k] = 0

\* "A FAILED run has no table and sends nothing" (docs/architecture.md).  Not
\* even one process keeps this: Splunk is called before the commit.
FailedSendsNothing ==
    \A r \in Runs : status[r] = "failed" => summaries[r] = 0

\* A run is opened once, then finished once with its whole table or none.
Ledger == INSTANCE RunLedger WITH table <- snapshots
LedgerSpec == Ledger!Spec

-----------------------------------------------------------------------------
(***************************************************************************)
(* What two processes must not do for these promises to hold.              *)
(***************************************************************************)

\* Process p read that run r is pending and has still to write what follows.
Deciding(p, r) == task[p].at \in Callback \cup {"mark"} /\ task[p].run = r

\* Nobody else takes up a run, or selects it for a sweep, between the check of a
\* callback or of an error callback and its write.
NoOverlap ==
    \A p, q \in Procs, r \in Runs : p # q /\ Deciding(p, r) =>
        ~Deciding(q, r) /\ r \notin task[q].abandoned

\* "Generous on purpose" (config.py): when a run is old enough to be swept,
\* no callback or error callback is still at work on it.
TimeoutIsGenerous == \A r \in Abandoned, p \in Procs : ~Deciding(p, r)

\* Nobody asks for a client that is not due: there are hourly ticks only, no
\* 07:00 tick and no `agent-parity run`.
NobodyForces == \A p \in Procs : ~task[p].force

\* No process is killed between Splunk's answer and the commit.
CommitSurvives == [][\A p \in Procs : ~(Crash(p) /\ At(p, "commit"))]_vars

\* Two ticks are not between the check and the insertion of one client's run.
TicksApart ==
    \A p, q \in Procs, c \in Clients :
        /\ p # q
        /\ task[p].at \in {"sync", "insert"} /\ IsNext(p, c)
        /\ task[q].at \in {"sync", "insert"}
        => ~IsNext(q, c)

-----------------------------------------------------------------------------
(***************************************************************************)
(* The cadence.  dispatch_all_clients checks that a client is due and      *)
(* inserts its run later; no lock covers the two.                          *)
(***************************************************************************)

\* The client is still due when its run is inserted, unless the tick is forced.
DueWhenInserted ==
    \A p \in Procs, c \in Clients :
        task[p].at \in {"sync", "insert"} /\ ~task[p].force /\ IsNext(p, c) =>
            ClientIsDue(c)

Young(c) == {r \in Runs : /\ status[r] # "absent" /\ ClientOf[r] = c
                          /\ age[r] < Interval}
Choosing(c) == {p \in Procs : task[p].at \in {"sync", "insert"} /\ IsNext(p, c)}

\* Two ticks that both find a client due both collect it, so sync_interval_hours
\* does not promise one run per interval.  It does promise no more runs per
\* interval than there are processes, those about to be inserted included: as
\* long as nobody forces a tick, ticks that overlap, fail or are lost never pile
\* up on a client.
YoungRunsAreFew ==
    \A c \in Clients :
        Cardinality(Young(c)) + Cardinality(Choosing(c)) <= Cardinality(Procs)

-----------------------------------------------------------------------------
(***************************************************************************)
(* Liveness.                                                               *)
(***************************************************************************)

\* "a killed CLI or a dead worker can't leave a run unfinished forever"
\* (docs/architecture.md): whatever is lost, a pending run finishes.
PendingRunsFinish ==
    \A r \in Runs : status[r] = "pending" ~> status[r] \in Finished

\* A client without a run younger than its interval, whatever became of its
\* runs, gets one.  (Bound: as long as it has run rows left.)
Overdue(c) ==
    /\ Unused(c) # {}
    /\ \A r \in Runs \ Unused(c) : ClientOf[r] = c => age[r] >= Interval
DueClientsCollected == \A c \in Clients : Overdue(c) ~> ~Overdue(c)

=============================================================================

-------------------------- MODULE RunLifecycleProofs --------------------------
(***************************************************************************)
(* Theorems about RunLifecycle, for every number of processes, clients,    *)
(* runs, devices and deliveries.                                           *)
(***************************************************************************)
EXTENDS RunLifecycle, FiniteSetTheorems, TLAPS

USE ConstantsAssumption

(***************************************************************************)
(* Type correctness.                                                       *)
(***************************************************************************)

\* The tasks that work for a run, which therefore have one.
Busy == {"publish"} \cup Callback \cup Errback

ProperTask == {t \in Task : t.at \in Busy => t.run \in Runs}

TypeInv == TypeOK /\ task \in [Procs -> ProperTask]

\* A process without a task has a proper one.
LEMMA IdleIsProper == IdleTask \in ProperTask /\ DownTask \in ProperTask
  BY DEF IdleTask, DownTask, ProperTask, Task, Label, Busy, Callback, Errback

\* So is an error callback's.
LEMMA ErrbackIsProper ==
  ASSUME NEW r \in Runs
  PROVE  /\ ErrbackTask(r) \in ProperTask
         /\ ErrbackTask(r).at = "errback" /\ ErrbackTask(r).run = r
  BY DEF ErrbackTask, IdleTask, ProperTask, Task, Label, Errback

\* The payload of a run nothing was collected for is one.
LEMMA NoPayloadIsPayload == NoPayload \in Payload
  BY DEF NoPayload, Payload

\* A process that continues with a proper task leaves all tasks proper.
LEMMA BecomeProper ==
  ASSUME TypeInv, NEW p \in Procs, NEW t \in ProperTask, Become(p, t)
  PROVE  task' \in [Procs -> ProperTask] /\ task' \in [Procs -> Task]
  BY DEF TypeInv, Become, ProperTask

\* A process that works for a run has one.
LEMMA BusyTask ==
  ASSUME TypeInv, NEW p \in Procs, task[p].at \in Busy
  PROVE  task[p].run \in Runs
  BY DEF TypeInv, ProperTask

\* The initial state is well typed.
LEMMA TypeInit == Init => TypeInv
  BY IdleIsProper, NoPayloadIsPayload
     DEF Init, TypeInv, TypeOK, RunStatus, ProperTask

\* Each step keeps the types.
LEMMA TypeStep == TypeInv /\ [Next]_vars => TypeInv'
<1> SUFFICES ASSUME TypeInv, [Next]_vars PROVE TypeInv'
  OBVIOUS
<1> USE DEF TypeOK
<1>1. CASE Hour
  BY <1>1 DEF TypeInv, Hour, broker
<1>2. ASSUME NEW r \in Runs, HeaderReturns(r) PROVE TypeInv'
  <2>1. /\ chord' \in [Runs -> {"unsent", "collecting", "returned", "broken"}]
        /\ payload' \in [Runs -> Payload] /\ copies' \in [Runs -> Nat]
    <3>1. PICK w \in Payload : payload' = [payload EXCEPT ![r] = w]
      BY <1>2 DEF HeaderReturns
    <3>2. payload' \in [Runs -> Payload]
      BY <3>1 DEF TypeInv
    <3>3. /\ chord' \in [Runs -> {"unsent", "collecting", "returned", "broken"}]
          /\ copies' \in [Runs -> Nat]
      BY <1>2 DEF TypeInv, HeaderReturns
    <3>4. QED
      BY <3>2, <3>3
  <2>2. UNCHANGED <<status, age, snapshots, devices, clientRows, writer, deliveries,
                    summaries, task>>
    BY <1>2 DEF HeaderReturns, database
  <2>3. QED
    BY <2>1, <2>2 DEF TypeInv
<1>3. ASSUME NEW r \in Runs, Redeliver(r) PROVE TypeInv'
  BY <1>3 DEF TypeInv, Redeliver, database
<1>4. ASSUME NEW p \in Procs, BeatTick(p) \/ CliRun(p) PROVE TypeInv'
  <2>1. PICK t \in ProperTask : Become(p, t)
    BY <1>4
    DEF BeatTick, CliRun, StartTick, Abandoned, IdleTask, Task, ProperTask, Label, Tick, Busy, Callback, Errback
  <2>2. task' \in [Procs -> ProperTask] /\ task' \in [Procs -> Task]
    BY <2>1, BecomeProper
  <2>3. QED
    BY <1>4, <2>2 DEF TypeInv, BeatTick, CliRun, StartTick, database, broker
<1>5. ASSUME NEW p \in Procs, Crash(p) \/ Restart(p) PROVE TypeInv'
  <2>1. PICK t \in ProperTask : Become(p, t)
    BY <1>5, IdleIsProper DEF Crash, Restart, Finish
  <2>2. task' \in [Procs -> ProperTask] /\ task' \in [Procs -> Task]
    BY <2>1, BecomeProper
  <2>3. QED
    BY <1>5, <2>2 DEF TypeInv, Crash, Restart, database, broker
<1>6. ASSUME NEW p \in Procs, SweepWrite(p) PROVE TypeInv'
  <2>1. task[p] \in Task /\ (task[p].at \in Busy => task[p].run \in Runs)
    BY DEF TypeInv, ProperTask
  <2>2. PICK t \in ProperTask : Become(p, t)
    <3>1. [task[p] EXCEPT !.at = "dispatch", !.abandoned = {}] \in ProperTask
      BY <1>6, <2>1 DEF SweepWrite, At, Task, ProperTask, Label, Tick, Busy, Callback, Errback
    <3>2. QED
      BY <1>6, <3>1 DEF SweepWrite, Goto
  <2>3. task' \in [Procs -> ProperTask] /\ task' \in [Procs -> Task]
    BY <2>2, BecomeProper
  <2>4. QED
    BY <1>6, <2>3 DEF TypeInv, SweepWrite, broker, RunStatus, Finished
<1>7. ASSUME NEW p \in Procs, SkipClient(p) PROVE TypeInv'
  <2>1. task[p] \in Task /\ (task[p].at \in Busy => task[p].run \in Runs)
    BY DEF TypeInv, ProperTask
  <2>2. PICK t \in ProperTask : Become(p, t)
    <3>1. \A c \in Clients : [task[p] EXCEPT !.todo = @ \ {c}] \in ProperTask
      BY <1>7, <2>1 DEF SkipClient, At, Task, ProperTask, Label, Tick, Busy, Callback, Errback
    <3>2. QED
      BY <1>7, <3>1 DEF SkipClient, Goto
  <2>3. task' \in [Procs -> ProperTask] /\ task' \in [Procs -> Task]
    BY <2>2, BecomeProper
  <2>4. QED
    BY <1>7, <2>3 DEF TypeInv, SkipClient, database, broker
<1>8. ASSUME NEW p \in Procs, TakeClient(p) PROVE TypeInv'
  <2>1. task[p] \in Task /\ (task[p].at \in Busy => task[p].run \in Runs)
    BY DEF TypeInv, ProperTask
  <2>2. PICK t \in ProperTask : Become(p, t)
    <3>1. [task[p] EXCEPT !.at = "sync"] \in ProperTask
      BY <1>8, <2>1 DEF TakeClient, At, Task, ProperTask, Label, Tick, Busy, Callback, Errback
    <3>2. QED
      BY <1>8, <3>1 DEF TakeClient, Goto
  <2>3. task' \in [Procs -> ProperTask] /\ task' \in [Procs -> Task]
    BY <2>2, BecomeProper
  <2>4. QED
    BY <1>8, <2>3 DEF TypeInv, TakeClient, database, broker
<1>9. ASSUME NEW p \in Procs, SyncClient(p) PROVE TypeInv'
  <2>1. task[p] \in Task /\ (task[p].at \in Busy => task[p].run \in Runs)
    BY DEF TypeInv, ProperTask
  <2>2. PICK c \in Clients : Become(p, [task[p] EXCEPT !.at = "insert",
                                          !.clientFound = c \in clientRows])
    BY <1>9 DEF SyncClient
  <2>3. \A found \in BOOLEAN :
            [task[p] EXCEPT !.at = "insert", !.clientFound = found] \in ProperTask
    BY <2>1 DEF Task, ProperTask, Label, Tick, Busy, Callback, Errback
  <2>4. (c \in clientRows) \in BOOLEAN
    OBVIOUS
  <2>5. [task[p] EXCEPT !.at = "insert", !.clientFound = c \in clientRows] \in ProperTask
    BY <2>3, <2>4, Zenon
  <2>6. task' \in [Procs -> ProperTask] /\ task' \in [Procs -> Task]
    BY <2>2, <2>5, BecomeProper
  <2>7. QED
    BY <1>9, <2>6 DEF TypeInv, SyncClient, database, broker
<1>10. ASSUME NEW p \in Procs, InsertRun(p) PROVE TypeInv'
  <2>1. task[p] \in Task /\ (task[p].at \in Busy => task[p].run \in Runs)
    BY DEF TypeInv, ProperTask
  <2>2. PICK t \in ProperTask : Become(p, t)
    <3>1. \A r \in Runs : [task[p] EXCEPT !.at = "publish", !.run = r] \in ProperTask
      BY <1>10, <2>1 DEF InsertRun, At, Unused, Task, ProperTask, Label, Tick, Busy, Callback, Errback
    <3>2. QED
      BY <1>10, <3>1 DEF InsertRun, Goto, Unused
  <2>3. task' \in [Procs -> ProperTask] /\ task' \in [Procs -> Task]
    BY <2>2, BecomeProper
  <2>4. QED
    BY <1>10, <2>3 DEF TypeInv, InsertRun, Unused, broker, RunStatus
<1>11. ASSUME NEW p \in Procs, Publish(p) PROVE TypeInv'
  <2>1. task[p] \in Task /\ (task[p].at \in Busy => task[p].run \in Runs)
    BY DEF TypeInv, ProperTask
  <2>2. PICK t \in ProperTask : Become(p, t)
    <3>1. [task[p] EXCEPT !.at = "dispatch", !.run = NoRun,
                          !.clientFound = FALSE,
                          !.todo = {c \in @ : ~IsNext(p, c)}] \in ProperTask
      BY <1>11, <2>1 DEF Publish, At, Task, ProperTask, Label, Tick, Busy, Callback, Errback
    <3>2. QED
      BY <1>11, <3>1 DEF Publish, Goto
  <2>3. task' \in [Procs -> ProperTask] /\ task' \in [Procs -> Task]
    BY <2>2, BecomeProper
  <2>4. QED
    BY <1>11, <2>3, BusyTask DEF TypeInv, Publish, database
<1>12. ASSUME NEW p \in Procs, InsertClashes(p) \/ PublishFails(p) \/ EndTick(p) PROVE TypeInv'
  <2>1. PICK t \in ProperTask : Become(p, t)
    BY <1>12, IdleIsProper DEF InsertClashes, PublishFails, EndTick, Finish
  <2>2. task' \in [Procs -> ProperTask] /\ task' \in [Procs -> Task]
    BY <2>1, BecomeProper
  <2>3. QED
    BY <1>12, <2>2 DEF TypeInv, InsertClashes, PublishFails, EndTick, database, broker
<1>13. ASSUME NEW p \in Procs, NEW r \in Runs, CallbackStart(p, r) PROVE TypeInv'
  <2>1. [IdleTask EXCEPT !.at = "correlate", !.run = r] \in ProperTask
    BY DEF IdleTask, Task, ProperTask, Label, Tick, Busy, Callback, Errback
  <2>2. task' \in [Procs -> ProperTask] /\ task' \in [Procs -> Task]
    BY <1>13, <2>1, BecomeProper DEF CallbackStart, TypeInv
  <2>3. QED
    BY <1>13, <2>2 DEF TypeInv, CallbackStart, database
<1>14. ASSUME NEW p \in Procs, NEW r \in Runs, ChordError(p, r) PROVE TypeInv'
  <2>1. PICK t \in ProperTask : Become(p, t)
    BY <1>14, ErrbackIsProper DEF ChordError
  <2>2. task' \in [Procs -> ProperTask] /\ task' \in [Procs -> Task]
    BY <2>1, BecomeProper
  <2>3. QED
    BY <1>14, <2>2 DEF TypeInv, ChordError, database
<1>15. ASSUME NEW p \in Procs, CorrelateRaises(p) \/ DeviceClashes(p) PROVE TypeInv'
  <2>1. PICK t \in ProperTask : Become(p, t)
    BY <1>15, BusyTask, ErrbackIsProper DEF CorrelateRaises, DeviceClashes, Raise, At, Busy, Callback
  <2>2. task' \in [Procs -> ProperTask] /\ task' \in [Procs -> Task]
    BY <2>1, BecomeProper
  <2>3. QED
    BY <1>15, <2>2 DEF TypeInv, CorrelateRaises, DeviceClashes, database, broker
<1>16. ASSUME NEW p \in Procs, FailRun(p) PROVE TypeInv'
  <2>1. PICK t \in ProperTask : Become(p, t)
    BY <1>16, IdleIsProper DEF FailRun, Finish
  <2>2. task' \in [Procs -> ProperTask] /\ task' \in [Procs -> Task]
    BY <2>1, BecomeProper
  <2>3. QED
    BY <1>16, <2>2 DEF TypeInv, FailRun, broker, RunStatus, Finished
<1>17. ASSUME NEW p \in Procs, LoadDevices(p) PROVE TypeInv'
  <2>1. task[p] \in Task /\ (task[p].at \in Busy => task[p].run \in Runs)
    BY DEF TypeInv, ProperTask
  <2>2. PICK t \in ProperTask : Become(p, t)
    <3>1. [task[p] EXCEPT !.at = "store",
                          !.existing = devices[ClientOf[task[p].run]]] \in ProperTask
      BY <1>17, <2>1 DEF LoadDevices, At, TypeInv, Task, ProperTask, Label, Tick, Busy, Callback, Errback
    <3>2. QED
      BY <1>17, <3>1 DEF LoadDevices, Goto
  <2>3. task' \in [Procs -> ProperTask] /\ task' \in [Procs -> Task]
    BY <2>2, BecomeProper
  <2>4. QED
    BY <1>17, <2>3 DEF TypeInv, LoadDevices, database, broker
<1>18. ASSUME NEW p \in Procs, Store(p) PROVE TypeInv'
  <2>1. task[p] \in Task /\ (task[p].at \in Busy => task[p].run \in Runs)
    BY DEF TypeInv, ProperTask
  <2>2. PICK t \in ProperTask : Become(p, t)
    <3>1. \A label \in {"export", "commit"} : [task[p] EXCEPT !.at = label] \in ProperTask
      BY <1>18, <2>1 DEF Store, At, Task, ProperTask, Label, Tick, Busy, Callback, Errback
    <3>2. QED
      BY <1>18, <3>1 DEF Store, Goto
  <2>3. task' \in [Procs -> ProperTask] /\ task' \in [Procs -> Task]
    BY <2>2, BecomeProper
  <2>4. QED
    BY <1>18, <2>3 DEF TypeInv, Store, broker
<1>19. ASSUME NEW p \in Procs, ExportSucceeds(p) \/ ExportFails(p) PROVE TypeInv'
  <2>1. task[p] \in Task /\ (task[p].at \in Busy => task[p].run \in Runs)
    BY DEF TypeInv, ProperTask
  <2>2. PICK t \in ProperTask : Become(p, t)
    <3>1. [task[p] EXCEPT !.at = "commit"] \in ProperTask
      BY <1>19, <2>1 DEF ExportSucceeds, ExportFails, At, Task, ProperTask, Label, Tick, Busy, Callback, Errback
    <3>2. QED
      BY <1>19, <3>1 DEF ExportSucceeds, ExportFails, Goto
  <2>3. task' \in [Procs -> ProperTask] /\ task' \in [Procs -> Task]
    BY <2>2, BecomeProper
  <2>4. QED
    BY <1>19, <2>3 DEF TypeInv, ExportSucceeds, ExportFails, database, broker
<1>20. ASSUME NEW p \in Procs, Commit(p) PROVE TypeInv'
  <2> DEFINE r == task[p].run
  <2>1. r \in Runs /\ ClientOf[r] \in Clients
    BY <1>20, BusyTask DEF Commit, At, Busy, Callback
  <2>2. payload[r].rows \in SUBSET Keys
    BY <2>1 DEF TypeInv, Payload
  <2>3. task' \in [Procs -> ProperTask] /\ task' \in [Procs -> Task]
    BY <1>20, IdleIsProper, BecomeProper DEF Commit, Finish
  <2>4. snapshots' \in [Runs -> [Keys -> Nat]]
    <3>1. [k \in Keys |-> IF k \in payload[r].rows THEN snapshots[r][k] + 1
                                                   ELSE snapshots[r][k]]
            \in [Keys -> Nat]
      BY <2>1 DEF TypeInv
    <3>2. QED
      BY <1>20, <3>1 DEF TypeInv, Commit
  <2>5. devices' \in [Clients -> SUBSET Keys]
    BY <1>20, <2>1, <2>2 DEF TypeInv, Commit
  <2>6. status' \in [Runs -> RunStatus]
    BY <1>20 DEF TypeInv, Commit, RunStatus, Finished
  <2>7. QED
    BY <1>20, <2>3, <2>4, <2>5, <2>6 DEF TypeInv, Commit, broker
<1>21. ASSUME NEW p \in Procs, MarkRead(p) PROVE TypeInv'
  <2>1. task[p] \in Task /\ (task[p].at \in Busy => task[p].run \in Runs)
    BY DEF TypeInv, ProperTask
  <2>2. PICK t \in ProperTask : Become(p, t)
    <3>1. [task[p] EXCEPT !.at = "mark"] \in ProperTask
      BY <1>21, <2>1 DEF MarkRead, At, Task, ProperTask, Label, Tick, Busy, Callback, Errback
    <3>2. QED
      BY <1>21, <3>1, IdleIsProper DEF MarkRead, Goto, Finish
  <2>3. task' \in [Procs -> ProperTask] /\ task' \in [Procs -> Task]
    BY <2>2, BecomeProper
  <2>4. QED
    BY <1>21, <2>3 DEF TypeInv, MarkRead, database, broker
<1>22. ASSUME NEW p \in Procs, MarkWrite(p) PROVE TypeInv'
  <2>1. PICK t \in ProperTask : Become(p, t)
    BY <1>22, IdleIsProper DEF MarkWrite, Finish
  <2>2. task' \in [Procs -> ProperTask] /\ task' \in [Procs -> Task]
    BY <2>1, BecomeProper
  <2>3. QED
    BY <1>22, <2>2 DEF TypeInv, MarkWrite, broker, RunStatus, Finished
<1>23. ASSUME NEW p \in Procs, DatabaseLocked(p) PROVE TypeInv'
  <2>1. PICK t \in ProperTask : Become(p, t)
    BY <1>23, IdleIsProper, BusyTask, ErrbackIsProper DEF DatabaseLocked, Finish, Raise, At, Busy, Callback
  <2>2. task' \in [Procs -> ProperTask] /\ task' \in [Procs -> Task]
    BY <2>1, BecomeProper
  <2>3. QED
    BY <1>23, <2>2 DEF TypeInv, DatabaseLocked, database, broker
<1>24. CASE UNCHANGED vars
  BY <1>24 DEF TypeInv, vars
<1>25. QED
  BY <1>1, <1>2, <1>3, <1>4, <1>5, <1>6, <1>7, <1>8, <1>9, <1>10, <1>11, <1>12, <1>13, <1>14, <1>15, <1>16, <1>17, <1>18, <1>19, <1>20, <1>21, <1>22, <1>23, <1>24 DEF Next, Proceed

\* Every reachable state is well typed.
THEOREM TypeCorrect == Spec => []TypeOK
<1>1. TypeInv => TypeOK
  BY DEF TypeInv
<1>2. QED
  BY <1>1, TypeInit, TypeStep, PTL DEF Spec

-----------------------------------------------------------------------------
(***************************************************************************)
(* The inductive invariant.  The promises of RunLifecycle are not inductive *)
(* by themselves: a run's payload must not change once a callback has it,  *)
(* which holds because a chord is sent at most once, because the row it    *)
(* belongs to was inserted by one process; and the devices a callback saw  *)
(* as new must stay so, which holds because it has the write lock.         *)
(***************************************************************************)

\* What holds of a run's row, chord and snapshots.
RunInv(r) ==
    /\ status[r] = "absent" => chord[r] = "unsent"
    /\ copies[r] > 0 => chord[r] = "returned"
    /\ status[r] \in {"absent", "pending"} => \A k \in Keys : snapshots[r][k] = 0
    /\ status[r] \in {"complete", "partial"} =>
        /\ chord[r] = "returned"
        /\ payload[r].ad
        /\ payload[r].allOk <=> status[r] = "complete"
        /\ \A k \in payload[r].rows : snapshots[r][k] > 0
    /\ \A k \in Keys : snapshots[r][k] > 0 =>
        /\ chord[r] = "returned"
        /\ k \in payload[r].rows
        /\ k \in devices[ClientOf[r]]

\* What holds of a task t that process p executes.
TaskInv(p, t) ==
    /\ t.at \in Busy => status[t.run] # "absent"
    /\ \A r \in t.abandoned : status[r] # "absent"
    /\ t.at = "publish" => chord[t.run] = "unsent"
    /\ t.at \in Callback => chord[t.run] = "returned"
    /\ t.at \in {"store", "export", "commit"} => payload[t.run].ad
    /\ t.at \in {"export", "commit"} <=> writer = p
    /\ t.at \in {"export", "commit"} =>
        (payload[t.run].rows \ t.existing) \cap devices[ClientOf[t.run]] = {}

\* A run is published by the process that inserted it.
OnePublisher ==
    \A p, q \in Procs : /\ task[p].at = "publish" /\ task[q].at = "publish"
                        /\ task[p].run = task[q].run
                        => p = q

IInv ==
    /\ \A r \in Runs : RunInv(r)
    /\ \A p \in Procs : TaskInv(p, task[p])
    /\ OnePublisher

\* Become gives process p its new task and leaves the others theirs.
LEMMA BecomeAt ==
  ASSUME TypeInv, NEW p \in Procs, NEW t, Become(p, t)
  PROVE  /\ task'[p] = t
         /\ \A q \in Procs : q # p => task'[q] = task[q]
  BY DEF TypeInv, Become

\* What the invariant reads of a process without a task.
LEMMA IdleFields ==
  /\ IdleTask.at = "idle" /\ IdleTask.abandoned = {}
  /\ IdleTask.at \notin Busy
  /\ DownTask.at = "down" /\ DownTask.abandoned = {}
  /\ DownTask.at \notin Busy
  BY DEF IdleTask, DownTask, Busy, Callback, Errback

\* What the invariant reads of an error callback's task.
LEMMA ErrbackFields ==
  ASSUME NEW r
  PROVE  /\ ErrbackTask(r).at = "errback" /\ ErrbackTask(r).run = r
         /\ ErrbackTask(r).abandoned = {}
  BY DEF ErrbackTask, IdleTask

\* A step that changes nothing but the task of one process, which does not
\* publish and does not take or release the write lock.
LEMMA QuietStep ==
  ASSUME TypeInv, IInv,
         NEW p \in Procs, NEW t, Become(p, t), TaskInv(p, t), t.at # "publish",
         UNCHANGED <<status, snapshots, devices, writer, chord, payload, copies>>
  PROVE  IInv'
<1>1. task'[p] = t /\ \A q \in Procs : q # p => task'[q] = task[q]
  BY BecomeAt
<1>2. ASSUME NEW r \in Runs PROVE RunInv(r)'
  BY DEF IInv, RunInv
<1>3. ASSUME NEW q \in Procs PROVE TaskInv(q, task[q])'
  BY <1>1 DEF IInv, TaskInv
<1>4. OnePublisher'
  BY <1>1 DEF IInv, OnePublisher
<1>5. QED
  BY <1>2, <1>3, <1>4 DEF IInv

\* A step that fails pending or finished runs and ends a task or sends a tick on.
LEMMA FailStep ==
  ASSUME TypeInv, IInv,
         NEW p \in Procs, NEW t, Become(p, t),
         t.at \notin Busy, t.abandoned = {}, writer # p,
         NEW lost \in SUBSET Runs, \A r \in lost : status[r] # "absent",
         \A r \in lost : status'[r] = "failed",
         \A r \in Runs \ lost : status'[r] = status[r],
         UNCHANGED <<snapshots, devices, writer, chord, payload, copies>>
  PROVE  IInv'
<1>1. task'[p] = t /\ \A q \in Procs : q # p => task'[q] = task[q]
  BY BecomeAt
<1>2. ASSUME NEW r \in Runs PROVE RunInv(r)'
  BY DEF IInv, RunInv
<1>3. \A r \in Runs : status[r] # "absent" => status'[r] # "absent"
  OBVIOUS
<1>4. TaskInv(p, t)'
  BY DEF TaskInv, Busy, Callback, Errback
<1>5. ASSUME NEW q \in Procs, q # p PROVE TaskInv(q, task[q])'
  <2>1. task[q] \in Task /\ (task[q].at \in Busy => task[q].run \in Runs)
    BY DEF TypeInv, ProperTask
  <2>2. task[q].abandoned \in SUBSET Runs
    BY <2>1 DEF Task
  <2>3. TaskInv(q, task[q])
    BY DEF IInv
  <2>4. QED
    BY <1>1, <1>3, <1>5, <2>1, <2>2, <2>3 DEF TaskInv
<1>6. OnePublisher'
  BY <1>1 DEF IInv, OnePublisher, Busy
<1>7. QED
  BY <1>1, <1>2, <1>4, <1>5, <1>6 DEF IInv

\* The invariant holds of the empty database.
LEMMA IInvInit == Init => IInv
<1> SUFFICES ASSUME Init PROVE IInv
  OBVIOUS
<1>1. ASSUME NEW r \in Runs PROVE RunInv(r)
  BY DEF Init, RunInv
<1>2. ASSUME NEW p \in Procs PROVE TaskInv(p, task[p])
  BY IdleFields DEF Init, TaskInv, Busy, Callback
<1>3. OnePublisher
  BY IdleFields DEF Init, OnePublisher, Busy
<1>4. QED
  BY <1>1, <1>2, <1>3 DEF IInv

\* The ticks' steps that change only the tick's own state, and a restart.
LEMMA TickQuiet ==
  ASSUME TypeInv, IInv, NEW p \in Procs,
         \/ BeatTick(p) \/ CliRun(p) \/ SkipClient(p) \/ TakeClient(p)
         \/ SyncClient(p) \/ InsertClashes(p) \/ PublishFails(p) \/ EndTick(p)
         \/ Restart(p)
  PROVE  IInv'
<1> USE DEF At
<1>1. task[p] \in Task /\ TaskInv(p, task[p])
  BY DEF TypeInv, ProperTask, IInv
<1>2. CASE BeatTick(p) \/ CliRun(p)
  <2>1. PICK todo, force : StartTick(p, todo, force)
    BY <1>2 DEF BeatTick, CliRun
  <2> DEFINE t == [IdleTask EXCEPT !.at = "sweep", !.abandoned = Abandoned,
                                   !.todo = todo, !.force = force]
  <2>2. t.at = "sweep" /\ t.abandoned = Abandoned
    BY DEF IdleTask
  <2>3. Become(p, t)
    BY <2>1 DEF StartTick
  <2>4. TaskInv(p, t)
    BY <1>1, <2>1, <2>2 DEF StartTick, TaskInv, Abandoned, Busy, Callback, Errback
  <2>5. UNCHANGED <<status, snapshots, devices, writer, chord, payload, copies>>
    BY <2>1 DEF StartTick, database, broker
  <2> HIDE DEF t
  <2>6. QED
    BY <2>2, <2>3, <2>4, <2>5, QuietStep
<1>3. CASE SkipClient(p)
  <2>1. PICK c : Become(p, [task[p] EXCEPT !.todo = @ \ {c}])
    BY <1>3 DEF SkipClient
  <2> DEFINE t == [task[p] EXCEPT !.todo = @ \ {c}]
  <2>2. t.at = "dispatch" /\ t.abandoned = task[p].abandoned
    BY <1>1, <1>3 DEF Task, SkipClient
  <2>3. TaskInv(p, t)
    BY <1>1, <1>3, <2>2 DEF SkipClient, TaskInv, Busy, Callback, Errback
  <2>4. UNCHANGED <<status, snapshots, devices, writer, chord, payload, copies>>
    BY <1>3 DEF SkipClient, database, broker
  <2>5. Become(p, t)
    BY <2>1
  <2> HIDE DEF t
  <2>6. QED
    BY <2>2, <2>3, <2>4, <2>5, QuietStep
<1>4. CASE TakeClient(p)
  <2> DEFINE t == [task[p] EXCEPT !.at = "sync"]
  <2>1. t.at = "sync" /\ t.abandoned = task[p].abandoned
    BY <1>1 DEF Task
  <2>2. Become(p, t)
    BY <1>4 DEF TakeClient, Goto
  <2>3. TaskInv(p, t)
    BY <1>1, <1>4, <2>1 DEF TakeClient, TaskInv, Busy, Callback, Errback
  <2>4. UNCHANGED <<status, snapshots, devices, writer, chord, payload, copies>>
    BY <1>4 DEF TakeClient, database, broker
  <2> HIDE DEF t
  <2>5. QED
    BY <2>1, <2>2, <2>3, <2>4, QuietStep
<1>5. CASE SyncClient(p)
  <2>1. PICK found : Become(p, [task[p] EXCEPT !.at = "insert", !.clientFound = found])
    BY <1>5 DEF SyncClient
  <2> DEFINE t == [task[p] EXCEPT !.at = "insert", !.clientFound = found]
  <2>2. t.at = "insert" /\ t.abandoned = task[p].abandoned
    BY <1>1 DEF Task
  <2>3. TaskInv(p, t)
    BY <1>1, <1>5, <2>2 DEF SyncClient, TaskInv, Busy, Callback, Errback
  <2>4. UNCHANGED <<status, snapshots, devices, writer, chord, payload, copies>>
    BY <1>5 DEF SyncClient, database, broker
  <2>5. Become(p, t)
    BY <2>1
  <2> HIDE DEF t
  <2>6. QED
    BY <2>2, <2>3, <2>4, <2>5, QuietStep
<1>6. CASE InsertClashes(p) \/ PublishFails(p) \/ EndTick(p) \/ Restart(p)
  <2>1. Become(p, IdleTask)
    BY <1>6 DEF InsertClashes, PublishFails, EndTick, Restart, Finish
  <2>2. TaskInv(p, IdleTask)
    BY <1>1, <1>6, IdleFields
       DEF InsertClashes, PublishFails, EndTick, Restart, TaskInv, Busy, Callback
  <2>3. UNCHANGED <<status, snapshots, devices, writer, chord, payload, copies>>
    BY <1>6 DEF InsertClashes, PublishFails, EndTick, Restart, database, broker
  <2>4. QED
    BY <2>1, <2>2, <2>3, IdleFields, QuietStep
<1>7. QED
  BY <1>2, <1>3, <1>4, <1>5, <1>6

\* The steps of the two callbacks that change only their own state.
LEMMA CallbackQuiet ==
  ASSUME TypeInv, IInv, NEW p \in Procs,
         \/ CorrelateRaises(p) \/ DeviceClashes(p) \/ LoadDevices(p)
         \/ ExportSucceeds(p) \/ ExportFails(p) \/ MarkRead(p) \/ DatabaseLocked(p)
  PROVE  IInv'
<1> USE DEF At
<1>1. task[p] \in Task /\ TaskInv(p, task[p])
  BY DEF TypeInv, ProperTask, IInv
<1>2. UNCHANGED <<status, snapshots, devices, writer, chord, payload, copies>>
  BY DEF CorrelateRaises, DeviceClashes, LoadDevices, ExportSucceeds, ExportFails,
         MarkRead, DatabaseLocked, database, broker
<1>3. CASE writer # p /\ Finish(p)
  <2>1. TaskInv(p, IdleTask)
    BY <1>3, IdleFields DEF TaskInv, Busy, Callback
  <2>2. QED
    BY <1>2, <1>3, <2>1, IdleFields, QuietStep DEF Finish
<1>4. CASE writer # p /\ task[p].at \in Callback /\ Raise(p)
  <2>1. TaskInv(p, ErrbackTask(task[p].run))
    BY <1>1, <1>4, ErrbackFields DEF TaskInv, Busy, Callback, Errback
  <2>2. QED
    BY <1>2, <1>4, <2>1, ErrbackFields, QuietStep DEF Raise
<1>5. CASE CorrelateRaises(p) \/ DeviceClashes(p)
  BY <1>1, <1>4, <1>5 DEF CorrelateRaises, DeviceClashes, TaskInv, Callback
<1>6. CASE DatabaseLocked(p)
  BY <1>3, <1>4, <1>6 DEF DatabaseLocked, Callback
<1>7. CASE LoadDevices(p)
  <2> DEFINE t == [task[p] EXCEPT !.at = "store",
                                  !.existing = devices[ClientOf[task[p].run]]]
  <2>1. /\ t.at = "store" /\ t.abandoned = task[p].abandoned
        /\ t.run = task[p].run
    BY <1>1 DEF Task
  <2>2. Become(p, t)
    BY <1>7 DEF LoadDevices
  <2>3. TaskInv(p, t)
    BY <1>1, <1>7, <2>1 DEF LoadDevices, TaskInv, Busy, Callback, Errback
  <2> HIDE DEF t
  <2>4. QED
    BY <1>2, <2>1, <2>2, <2>3, QuietStep
<1>8. CASE ExportSucceeds(p) \/ ExportFails(p)
  <2> DEFINE t == [task[p] EXCEPT !.at = "commit"]
  <2>1. /\ t.at = "commit" /\ t.abandoned = task[p].abandoned
        /\ t.run = task[p].run /\ t.existing = task[p].existing
    BY <1>1 DEF Task
  <2>2. Become(p, t)
    BY <1>8 DEF ExportSucceeds, ExportFails, Goto
  <2>3. TaskInv(p, t)
    BY <1>1, <1>8, <2>1 DEF ExportSucceeds, ExportFails, TaskInv, Busy, Callback, Errback
  <2> HIDE DEF t
  <2>4. QED
    BY <1>2, <2>1, <2>2, <2>3, QuietStep
<1>9. CASE MarkRead(p)
  <2>1. writer # p
    BY <1>1, <1>9 DEF MarkRead, TaskInv
  <2>2. CASE Finish(p)
    BY <1>3, <2>1, <2>2
  <2>3. CASE Goto(p, "mark")
    <3> DEFINE t == [task[p] EXCEPT !.at = "mark"]
    <3>1. /\ t.at = "mark" /\ t.abandoned = task[p].abandoned
          /\ t.run = task[p].run
      BY <1>1 DEF Task
    <3>2. Become(p, t)
      BY <2>3 DEF Goto
    <3>3. TaskInv(p, t)
      BY <1>1, <1>9, <3>1 DEF MarkRead, TaskInv, Busy, Callback, Errback
    <3> HIDE DEF t
    <3>4. QED
      BY <1>2, <3>1, <3>2, <3>3, QuietStep
  <2>4. QED
    BY <1>9, <2>2, <2>3 DEF MarkRead
<1>10. QED
  BY <1>5, <1>6, <1>7, <1>8, <1>9

\* Time, the fan-out's return and the broker's redelivery.
LEMMA EnvironmentStep ==
  ASSUME TypeInv, IInv, Hour \/ \E r \in Runs : HeaderReturns(r) \/ Redeliver(r)
  PROVE  IInv'
<1>1. CASE Hour
  BY <1>1 DEF IInv, Hour, broker, RunInv, TaskInv, OnePublisher
<1>2. ASSUME NEW r \in Runs, HeaderReturns(r) PROVE IInv'
  <2>1. /\ chord[r] = "collecting" /\ chord'[r] = "returned"
        /\ \A s \in Runs \ {r} : /\ chord'[s] = chord[s]
                                 /\ payload'[s] = payload[s]
                                 /\ copies'[s] = copies[s]
        /\ UNCHANGED <<status, snapshots, devices, writer, task>>
    BY <1>2 DEF HeaderReturns, database, TypeInv, TypeOK
  <2>2. ASSUME NEW s \in Runs PROVE RunInv(s)'
    BY <2>1 DEF IInv, RunInv
  <2>3. ASSUME NEW p \in Procs PROVE TaskInv(p, task[p])'
    <3>1. task[p].at \in Busy => task[p].run \in Runs
      BY DEF TypeInv, ProperTask
    <3>2. TaskInv(p, task[p])
      BY DEF IInv
    <3>3. QED
      BY <2>1, <3>1, <3>2 DEF TaskInv, Busy, Callback, Errback
  <2>4. OnePublisher'
    BY <2>1 DEF IInv, OnePublisher
  <2>5. QED
    BY <2>2, <2>3, <2>4 DEF IInv
<1>3. ASSUME NEW r \in Runs, Redeliver(r) PROVE IInv'
  <2>1. /\ chord[r] = "returned"
        /\ \A s \in Runs \ {r} : copies'[s] = copies[s]
        /\ UNCHANGED <<status, snapshots, devices, writer, chord, payload, task>>
    BY <1>3 DEF Redeliver, database, TypeInv, TypeOK
  <2>2. ASSUME NEW s \in Runs PROVE RunInv(s)'
    BY <2>1 DEF IInv, RunInv
  <2>3. QED
    BY <2>1, <2>2 DEF IInv, TaskInv, OnePublisher
<1>4. QED
  BY <1>1, <1>2, <1>3

\* A killed process gives its lock back and leaves the data alone.
LEMMA CrashStep ==
  ASSUME TypeInv, IInv, NEW p \in Procs, Crash(p)
  PROVE  IInv'
<1>1. task'[p] = DownTask /\ \A q \in Procs : q # p => task'[q] = task[q]
  BY BecomeAt DEF Crash
<1>2. /\ UNCHANGED <<status, snapshots, devices, chord, payload, copies>>
      /\ writer' = IF writer = p THEN NoProc ELSE writer
  BY DEF Crash, broker
<1>3. ASSUME NEW r \in Runs PROVE RunInv(r)'
  BY <1>2 DEF IInv, RunInv
<1>4. ASSUME NEW q \in Procs PROVE TaskInv(q, task[q])'
  BY <1>1, <1>2, IdleFields DEF IInv, TaskInv, Busy, Callback
<1>5. OnePublisher'
  BY <1>1, IdleFields DEF IInv, OnePublisher
<1>6. QED
  BY <1>3, <1>4, <1>5 DEF IInv

\* The sweep, the callback without AD data and the error callback fail runs.
LEMMA FailSteps ==
  ASSUME TypeInv, IInv, NEW p \in Procs, SweepWrite(p) \/ FailRun(p) \/ MarkWrite(p)
  PROVE  IInv'
<1> USE DEF At
<1>1. /\ task[p] \in Task /\ TaskInv(p, task[p])
      /\ task[p].at \in Busy => task[p].run \in Runs
  BY DEF TypeInv, ProperTask, IInv
<1>2. /\ UNCHANGED <<snapshots, devices, writer, chord, payload, copies>>
      /\ writer # p
  BY <1>1 DEF SweepWrite, FailRun, MarkWrite, broker, TaskInv
<1>3. CASE SweepWrite(p)
  <2> DEFINE t == [task[p] EXCEPT !.at = "dispatch", !.abandoned = {}]
  <2>1. t.at = "dispatch" /\ t.at \notin Busy /\ t.abandoned = {}
    BY <1>1 DEF Task, Busy, Callback, Errback
  <2>2. Become(p, t)
    BY <1>3 DEF SweepWrite
  <2>3. task[p].abandoned \in SUBSET Runs
    BY <1>1 DEF Task
  <2>4. /\ \A r \in task[p].abandoned : status[r] # "absent" /\ status'[r] = "failed"
        /\ \A r \in Runs \ task[p].abandoned : status'[r] = status[r]
    BY <1>1, <1>3, <2>3 DEF SweepWrite, TaskInv
  <2> HIDE DEF t
  <2>5. QED
    BY <1>2, <2>1, <2>2, <2>3, <2>4, FailStep
<1>4. CASE FailRun(p) \/ MarkWrite(p)
  <2>1. task[p].run \in Runs /\ status[task[p].run] # "absent"
    BY <1>1, <1>4 DEF FailRun, MarkWrite, TaskInv, Busy, Callback, Errback
  <2>2. status' = [status EXCEPT ![task[p].run] = "failed"]
    BY <1>4 DEF FailRun, MarkWrite
  <2>3. /\ status'[task[p].run] = "failed"
        /\ \A r \in Runs \ {task[p].run} : status'[r] = status[r]
    BY <2>1, <2>2 DEF TypeInv, TypeOK
  <2>4. Become(p, IdleTask)
    BY <1>4 DEF FailRun, MarkWrite, Finish
  <2>5. {task[p].run} \in SUBSET Runs
    BY <2>1
  <2>6. \A r \in {task[p].run} : status[r] # "absent" /\ status'[r] = "failed"
    BY <2>1, <2>3
  <2>7. QED
    BY <1>2, <2>3, <2>4, <2>5, <2>6, IdleFields, FailStep
<1>5. QED
  BY <1>3, <1>4

\* A chord's failure is seen by an idle worker, which takes the error callback.
LEMMA ChordErrorStep ==
  ASSUME TypeInv, IInv, NEW p \in Procs, NEW r \in Runs, ChordError(p, r)
  PROVE  IInv'
<1>1. /\ task'[p] = ErrbackTask(r)
      /\ \A q \in Procs : q # p => task'[q] = task[q]
  BY BecomeAt DEF ChordError
<1>2. /\ chord[r] = "collecting" /\ chord'[r] = "broken"
      /\ \A s \in Runs \ {r} : chord'[s] = chord[s]
      /\ UNCHANGED <<status, snapshots, devices, writer, payload, copies>>
      /\ task[p].at = "idle"
  BY DEF ChordError, database, TypeInv, TypeOK, At
<1>3. status[r] # "absent"
  BY <1>2 DEF IInv, RunInv
<1>4. ASSUME NEW s \in Runs PROVE RunInv(s)'
  BY <1>2 DEF IInv, RunInv
<1>5. TaskInv(p, task[p])'
  BY <1>1, <1>2, <1>3, ErrbackFields DEF IInv, TaskInv, Busy, Callback, Errback
<1>6. ASSUME NEW q \in Procs, q # p PROVE TaskInv(q, task[q])'
  <2>1. TaskInv(q, task[q]) /\ (task[q].at \in Busy => task[q].run \in Runs)
    BY DEF IInv, TypeInv, ProperTask
  <2>2. QED
    BY <1>1, <1>2, <1>6, <2>1 DEF TaskInv, Busy, Callback, Errback
<1>7. OnePublisher'
  BY <1>1, ErrbackFields DEF IInv, OnePublisher
<1>8. QED
  BY <1>4, <1>5, <1>6, <1>7 DEF IInv

\* A delivery of a callback starts it, or is dropped.
LEMMA CallbackStartStep ==
  ASSUME TypeInv, IInv, NEW p \in Procs, NEW r \in Runs, CallbackStart(p, r)
  PROVE  IInv'
<1> DEFINE t == [IdleTask EXCEPT !.at = "correlate", !.run = r]
<1>1. t.at = "correlate" /\ t.run = r /\ t.abandoned = {}
  BY DEF IdleTask
<1>2. /\ copies[r] > 0
      /\ \A s \in Runs \ {r} : copies'[s] = copies[s]
      /\ UNCHANGED <<status, snapshots, devices, writer, chord, payload>>
      /\ task[p].at = "idle"
      /\ \/ status[r] = "pending" /\ Become(p, t)
         \/ UNCHANGED task
  BY DEF CallbackStart, database, TypeInv, TypeOK, At
<1> HIDE DEF t
<1>3. chord[r] = "returned"
  BY <1>2 DEF IInv, RunInv
<1>4. ASSUME NEW s \in Runs PROVE RunInv(s)'
  <2>1. copies'[s] > 0 => chord[s] = "returned"
    BY <1>2, <1>3 DEF IInv, RunInv
  <2>2. QED
    BY <1>2, <2>1 DEF IInv, RunInv
<1>5. CASE UNCHANGED task
  BY <1>2, <1>4, <1>5 DEF IInv, TaskInv, OnePublisher
<1>6. CASE status[r] = "pending" /\ Become(p, t)
  <2>1. task'[p] = t /\ \A q \in Procs : q # p => task'[q] = task[q]
    BY <1>6, BecomeAt
  <2>2. TaskInv(p, t)'
    BY <1>1, <1>2, <1>3, <1>6 DEF IInv, TaskInv, Busy, Callback, Errback
  <2>3. ASSUME NEW q \in Procs, q # p PROVE TaskInv(q, task[q])'
    BY <1>2, <2>1, <2>3 DEF IInv, TaskInv
  <2>4. OnePublisher'
    BY <1>1, <2>1 DEF IInv, OnePublisher
  <2>5. QED
    BY <1>4, <2>1, <2>2, <2>3, <2>4 DEF IInv
<1>7. QED
  BY <1>2, <1>5, <1>6

\* A tick inserts a pending run, which has no chord and no snapshot yet.
LEMMA InsertRunStep ==
  ASSUME TypeInv, IInv, NEW p \in Procs, InsertRun(p)
  PROVE  IInv'
<1>1. PICK r \in Runs : /\ status[r] = "absent"
                        /\ status' = [status EXCEPT ![r] = "pending"]
                        /\ Become(p, [task[p] EXCEPT !.at = "publish", !.run = r])
  BY DEF InsertRun, Unused
<1>0. PICK t : t = [task[p] EXCEPT !.at = "publish", !.run = r]
  OBVIOUS
<1>2. task[p] \in Task /\ TaskInv(p, task[p]) /\ task[p].at = "insert"
  BY DEF TypeInv, ProperTask, IInv, InsertRun, At
<1>3. t.at = "publish" /\ t.run = r /\ t.abandoned = task[p].abandoned
  BY <1>0, <1>2 DEF Task
<1>4. task'[p] = t /\ \A q \in Procs : q # p => task'[q] = task[q]
  BY <1>0, <1>1, BecomeAt
<1>5. /\ status'[r] = "pending"
      /\ \A s \in Runs \ {r} : status'[s] = status[s]
      /\ UNCHANGED <<snapshots, devices, writer, chord, payload, copies>>
  BY <1>1 DEF InsertRun, broker, TypeInv, TypeOK
<1>6. ASSUME NEW s \in Runs PROVE RunInv(s)'
  BY <1>1, <1>5 DEF IInv, RunInv
<1>7. task[p].abandoned \in SUBSET Runs
  BY <1>2 DEF Task
<1>8. TaskInv(p, t)'
  <2>1. chord[r] = "unsent"
    BY <1>1 DEF IInv, RunInv
  <2>2. QED
    BY <1>1, <1>2, <1>3, <1>5, <1>7, <2>1 DEF TaskInv, Busy, Callback, Errback
<1>9. ASSUME NEW q \in Procs, q # p
      PROVE  TaskInv(q, task[q])' /\ ~(task[q].at = "publish" /\ task[q].run = r)
  <2>1. /\ TaskInv(q, task[q])
        /\ task[q].at \in Busy => task[q].run \in Runs
        /\ task[q].abandoned \in SUBSET Runs
    BY DEF IInv, TypeInv, ProperTask, Task
  <2>2. QED
    BY <1>1, <1>4, <1>5, <1>9, <2>1 DEF TaskInv, Busy
<1>10. OnePublisher'
  BY <1>3, <1>4, <1>9 DEF IInv, OnePublisher
<1>11. QED
  BY <1>4, <1>6, <1>8, <1>9, <1>10 DEF IInv

\* The run's only publisher sends its chord.
LEMMA PublishStep ==
  ASSUME TypeInv, IInv, NEW p \in Procs, Publish(p)
  PROVE  IInv'
<1>0. PICK r, t : /\ r = task[p].run
                  /\ t = [task[p] EXCEPT !.at = "dispatch", !.run = NoRun,
                                         !.clientFound = FALSE,
                                         !.todo = {c \in @ : ~IsNext(p, c)}]
  OBVIOUS
<1>1. /\ task[p] \in Task /\ TaskInv(p, task[p]) /\ task[p].at = "publish"
      /\ r \in Runs
  BY <1>0 DEF TypeInv, ProperTask, IInv, Publish, At, Busy
<1>2. t.at = "dispatch" /\ t.abandoned = task[p].abandoned
  BY <1>0, <1>1 DEF Task
<1>3. task'[p] = t /\ \A q \in Procs : q # p => task'[q] = task[q]
  BY <1>0, BecomeAt DEF Publish
<1>4. /\ chord[r] = "unsent" /\ chord'[r] = "collecting"
      /\ \A s \in Runs \ {r} : chord'[s] = chord[s]
      /\ UNCHANGED <<status, snapshots, devices, writer, payload, copies>>
  BY <1>0, <1>1 DEF Publish, database, TypeInv, TypeOK, TaskInv
<1>5. status[r] # "absent"
  BY <1>0, <1>1 DEF TaskInv, Busy
<1>6. ASSUME NEW s \in Runs PROVE RunInv(s)'
  BY <1>4, <1>5 DEF IInv, RunInv
<1>7. TaskInv(p, t)'
  BY <1>1, <1>2, <1>4 DEF TaskInv, Busy, Callback, Errback
<1>8. ASSUME NEW q \in Procs, q # p PROVE TaskInv(q, task[q])'
  <2>1. TaskInv(q, task[q]) /\ (task[q].at \in Busy => task[q].run \in Runs)
    BY DEF IInv, TypeInv, ProperTask
  <2>2. task[q].at = "publish" => task[q].run # r
    BY <1>0, <1>1, <1>8 DEF IInv, OnePublisher
  <2>3. QED
    BY <1>3, <1>4, <1>8, <2>1, <2>2 DEF TaskInv, Busy, Callback, Errback
<1>9. OnePublisher'
  BY <1>2, <1>3 DEF IInv, OnePublisher
<1>10. TaskInv(p, task[p])'
  BY <1>3, <1>7
<1>11. \A q \in Procs : TaskInv(q, task[q])'
  BY <1>8, <1>10
<1>12. QED
  BY <1>6, <1>9, <1>11 DEF IInv

\* A callback takes the write lock, which nobody has.
LEMMA StoreStep ==
  ASSUME TypeInv, IInv, NEW p \in Procs, Store(p)
  PROVE  IInv'
<1>1. task[p] \in Task /\ TaskInv(p, task[p]) /\ task[p].at = "store"
  BY DEF TypeInv, ProperTask, IInv, Store, At
<1>2. PICK label \in {"export", "commit"} : Become(p, [task[p] EXCEPT !.at = label])
  BY DEF Store, Goto
<1>0. PICK t : t = [task[p] EXCEPT !.at = label]
  OBVIOUS
<1>3. /\ t.at \in {"export", "commit"} /\ t.run = task[p].run
      /\ t.abandoned = task[p].abandoned /\ t.existing = task[p].existing
  BY <1>0, <1>1, <1>2 DEF Task
<1>4. task'[p] = t /\ \A q \in Procs : q # p => task'[q] = task[q]
  BY <1>0, <1>2, BecomeAt
<1>5. /\ writer = NoProc /\ writer' = p
      /\ UNCHANGED <<status, snapshots, devices, chord, payload, copies>>
      /\ (payload[task[p].run].rows \ task[p].existing)
            \cap devices[ClientOf[task[p].run]] = {}
  BY DEF Store, DatabaseFree, NewDevices, broker
<1>6. ASSUME NEW s \in Runs PROVE RunInv(s)'
  BY <1>5 DEF IInv, RunInv
<1>7. TaskInv(p, t)'
  BY <1>1, <1>3, <1>5 DEF TaskInv, Busy, Callback, Errback
<1>8. ASSUME NEW q \in Procs, q # p PROVE TaskInv(q, task[q])'
  <2>1. TaskInv(q, task[q])
    BY DEF IInv
  <2>2. writer # q /\ writer' # q
    BY <1>5, <1>8
  <2>3. QED
    BY <1>4, <1>5, <1>8, <2>1, <2>2 DEF TaskInv
<1>9. OnePublisher'
  BY <1>3, <1>4 DEF IInv, OnePublisher
<1>10. QED
  BY <1>4, <1>6, <1>7, <1>8, <1>9 DEF IInv

\* A callback commits, alone, what its payload says.
LEMMA CommitStep ==
  ASSUME TypeInv, IInv, NEW p \in Procs, Commit(p)
  PROVE  IInv'
<1>. PICK r, c : r = task[p].run /\ c = ClientOf[r]
  OBVIOUS
<1>1. /\ TaskInv(p, task[p]) /\ task[p].at = "commit" /\ r \in Runs
      /\ c \in Clients /\ payload[r].rows \in SUBSET Keys
  <2>1. TaskInv(p, task[p]) /\ task[p].at = "commit" /\ r \in Runs
    BY DEF TypeInv, ProperTask, IInv, Commit, At, Busy, Callback
  <2>2. payload[r] \in Payload
    BY <2>1 DEF TypeInv, TypeOK
  <2>3. QED
    BY <2>1, <2>2 DEF Payload
<1>2. task'[p] = IdleTask /\ \A q \in Procs : q # p => task'[q] = task[q]
  BY BecomeAt DEF Commit, Finish
<1>3. /\ UNCHANGED <<chord, payload, copies>>
      /\ writer = p /\ writer' = NoProc
      /\ chord[r] = "returned" /\ payload[r].ad
  BY <1>1 DEF Commit, broker, TaskInv, Callback
<1>4. /\ status'[r] = IF payload[r].allOk THEN "complete" ELSE "partial"
      /\ \A s \in Runs \ {r} : status'[s] = status[s]
  BY <1>1 DEF Commit, TypeInv, TypeOK
<1>5. /\ \A k \in Keys : snapshots'[r][k] = IF k \in payload[r].rows
                                            THEN snapshots[r][k] + 1
                                            ELSE snapshots[r][k]
      /\ \A s \in Runs \ {r} : snapshots'[s] = snapshots[s]
  BY <1>1 DEF Commit, TypeInv, TypeOK
<1>6. /\ devices'[c] = devices[c] \cup payload[r].rows
      /\ \A d \in Clients \ {c} : devices'[d] = devices[d]
  BY <1>1 DEF Commit, TypeInv, TypeOK
<1>7. RunInv(r)'
  <2>1. \A k \in Keys : snapshots[r][k] \in Nat
    BY <1>1 DEF TypeInv, TypeOK
  <2>2. \A k \in payload[r].rows : snapshots'[r][k] > 0
    BY <1>1, <1>5, <2>1
  <2>3. \A k \in Keys : snapshots'[r][k] > 0 =>
            k \in payload[r].rows /\ k \in devices'[c]
    BY <1>1, <1>5, <1>6 DEF IInv, RunInv
  <2>4. QED
    BY <1>3, <1>4, <2>2, <2>3 DEF RunInv
<1>8. ASSUME NEW s \in Runs, s # r PROVE RunInv(s)'
  <2>1. RunInv(s) /\ ClientOf[s] \in Clients
    BY DEF IInv
  <2>2. devices[ClientOf[s]] \subseteq devices'[ClientOf[s]]
    BY <1>6, <2>1
  <2>3. /\ UNCHANGED <<chord, payload, copies>>
        /\ status'[s] = status[s] /\ snapshots'[s] = snapshots[s]
    BY <1>3, <1>4, <1>5, <1>8
  <2>4. QED
    BY <2>1, <2>2, <2>3 DEF RunInv
<1>9. ASSUME NEW q \in Procs PROVE TaskInv(q, task[q])'
  <2>1. CASE q = p
    BY <1>1, <1>2, <1>3, <2>1, IdleFields DEF TaskInv, Busy, Callback
  <2>2. CASE q # p
    <3>1. /\ TaskInv(q, task[q])
          /\ task[q].at \in Busy => task[q].run \in Runs
          /\ task[q].abandoned \in SUBSET Runs
      BY DEF IInv, TypeInv, ProperTask, Task
    <3>2. \A s \in Runs : status[s] # "absent" => status'[s] # "absent"
      BY <1>4
    <3>3. writer # q /\ writer' # q /\ task'[q] = task[q]
      BY <1>2, <1>3, <2>2
    <3>4. QED
      BY <1>3, <3>1, <3>2, <3>3 DEF TaskInv
  <2>3. QED
    BY <2>1, <2>2
<1>10. OnePublisher'
  BY <1>2, IdleFields DEF IInv, OnePublisher
<1>11. QED
  BY <1>7, <1>8, <1>9, <1>10 DEF IInv

\* Every step keeps the invariant.
LEMMA IInvStep == TypeInv /\ IInv /\ [Next]_vars => IInv'
<1> SUFFICES ASSUME TypeInv, IInv, [Next]_vars PROVE IInv'
  OBVIOUS
<1>1. CASE UNCHANGED vars
  BY <1>1 DEF vars, IInv, RunInv, TaskInv, OnePublisher
<1>2. CASE Hour \/ \E r \in Runs : HeaderReturns(r) \/ Redeliver(r)
  BY <1>2, EnvironmentStep
<1>3. ASSUME NEW p \in Procs, BeatTick(p) \/ CliRun(p) \/ Crash(p) \/ Restart(p)
      PROVE  IInv'
  BY <1>3, TickQuiet, CrashStep
<1>4. ASSUME NEW p \in Procs, Proceed(p) PROVE IInv'
  BY <1>4, TickQuiet, CallbackQuiet, FailSteps, InsertRunStep, PublishStep,
     StoreStep, CommitStep DEF Proceed
<1>5. ASSUME NEW p \in Procs, NEW r \in Runs, CallbackStart(p, r) \/ ChordError(p, r)
      PROVE  IInv'
  BY <1>5, CallbackStartStep, ChordErrorStep
<1>6. QED
  BY <1>1, <1>2, <1>3, <1>4, <1>5 DEF Next

\* The invariant, with the types, holds of every reachable state.
LEMMA Invariance == Spec => [](TypeInv /\ IInv)
  BY TypeInit, IInvInit, TypeStep, IInvStep, PTL DEF Spec

-----------------------------------------------------------------------------
(***************************************************************************)
(* What holds however many processes share the database.                   *)
(***************************************************************************)

\* A run without a final status has no snapshot: persist_correlation's rows
\* and finalize_run's status are committed together or not at all.
THEOREM UnfinishedCorrect == Spec => []UnfinishedHasNoTable
<1>1. IInv => UnfinishedHasNoTable
  BY DEF IInv, RunInv, UnfinishedHasNoTable
<1>2. QED
  BY <1>1, Invariance, PTL

\* A run that says complete or partial says what its sources answered, and
\* holds every row of its frame.
THEOREM FinishedCorrect == Spec => []FinishedIsHonest
<1>1. IInv => FinishedIsHonest
  BY DEF IInv, RunInv, FinishedIsHonest
<1>2. QED
  BY <1>1, Invariance, PTL

\* A snapshot's device has a committed row of the run's client and was in the
\* run's own frame.
THEOREM DevicesCorrect == Spec => []SnapshotsHaveDevices
<1>1. IInv => SnapshotsHaveDevices
  BY DEF IInv, RunInv, SnapshotsHaveDevices
<1>2. QED
  BY <1>1, Invariance, PTL

\* A callback that has flushed its rows and not yet committed them is the only
\* writer, and the devices it took for new are still new.
THEOREM WriterCorrect == Spec => []WriterIsAlone
<1>1. TypeInv /\ IInv => WriterIsAlone
  <2> SUFFICES ASSUME TypeInv, IInv, NEW p \in Procs, HasLock(p)
               PROVE  /\ writer = p
                      /\ \A q \in Procs : HasLock(q) => q = p
                      /\ NewDevices(p) \cap devices[ClientOf[task[p].run]] = {}
    BY DEF WriterIsAlone
  <2>1. \A q \in Procs : HasLock(q) => writer = q
    BY DEF HasLock, IInv, TaskInv
  <2>2. NewDevices(p) \cap devices[ClientOf[task[p].run]] = {}
    BY DEF HasLock, IInv, TaskInv, NewDevices
  <2>3. QED
    BY <2>1, <2>2
<1>2. QED
  BY <1>1, Invariance, PTL

\* Process p fails the runs in lost: all that its sweep selected, or its own.
Fails(p, lost) ==
    /\ \/ SweepWrite(p) /\ lost = task[p].abandoned
       \/ (FailRun(p) \/ MarkWrite(p)) /\ lost = {task[p].run}
    /\ status' = [r \in Runs |-> IF r \in lost THEN "failed" ELSE status[r]]
    /\ UNCHANGED snapshots

\* The three steps that fail runs are of that form.
LEMMA FailForm ==
  ASSUME TypeInv, NEW p \in Procs, SweepWrite(p) \/ FailRun(p) \/ MarkWrite(p)
  PROVE  \E lost \in SUBSET Runs : Fails(p, lost)
<1>1. CASE SweepWrite(p)
  <2>1. task[p].abandoned \in SUBSET Runs
    BY DEF TypeInv, ProperTask, Task
  <2>2. Fails(p, task[p].abandoned)
    BY <1>1 DEF SweepWrite, Fails
  <2>3. QED
    BY <2>1, <2>2
<1>2. CASE FailRun(p) \/ MarkWrite(p)
  <2>1. task[p].run \in Runs
    BY <1>2, BusyTask DEF FailRun, MarkWrite, At, Busy, Callback, Errback
  <2>2. /\ status' = [status EXCEPT ![task[p].run] = "failed"]
        /\ UNCHANGED snapshots
    BY <1>2 DEF FailRun, MarkWrite
  <2>3. Fails(p, {task[p].run})
    BY <1>2, <2>1, <2>2 DEF TypeInv, TypeOK, Fails
  <2>4. {task[p].run} \in SUBSET Runs
    BY <2>1
  <2>5. QED
    BY <2>3, <2>4
<1>3. QED
  BY <1>1, <1>2

\* What a step may do to a run's row: nothing; insert it; fail it; or, for a
\* callback that commits, finish it and add to its table.
LEMMA StatusStep ==
  ASSUME TypeInv, [Next]_vars
  PROVE  \/ UNCHANGED <<status, snapshots>>
         \/ \E p \in Procs : InsertRun(p)
         \/ \E p \in Procs, lost \in SUBSET Runs : Fails(p, lost)
         \/ \E p \in Procs : Commit(p)
<1>1. CASE UNCHANGED vars
  BY <1>1 DEF vars
<1>2. CASE Hour \/ \E r \in Runs : HeaderReturns(r) \/ Redeliver(r)
  BY <1>2 DEF Hour, HeaderReturns, Redeliver, database
<1>3. ASSUME NEW p \in Procs,
             \/ BeatTick(p) \/ CliRun(p) \/ Crash(p) \/ Restart(p)
             \/ \E r \in Runs : CallbackStart(p, r) \/ ChordError(p, r)
      PROVE  UNCHANGED <<status, snapshots>>
  BY <1>3 DEF BeatTick, CliRun, StartTick, Crash, Restart, CallbackStart, ChordError,
                database
<1>4. ASSUME NEW p \in Procs,
             \/ SkipClient(p) \/ TakeClient(p) \/ SyncClient(p) \/ InsertClashes(p)
             \/ Publish(p) \/ PublishFails(p) \/ EndTick(p)
             \/ CorrelateRaises(p) \/ LoadDevices(p) \/ Store(p) \/ DeviceClashes(p)
             \/ ExportSucceeds(p) \/ ExportFails(p) \/ MarkRead(p) \/ DatabaseLocked(p)
      PROVE  UNCHANGED <<status, snapshots>>
  BY <1>4 DEF SkipClient, TakeClient, SyncClient, InsertClashes, Publish,
              PublishFails, EndTick, CorrelateRaises, LoadDevices, Store,
              DeviceClashes, ExportSucceeds, ExportFails, MarkRead,
              DatabaseLocked, database
<1>5. QED
  BY <1>1, <1>2, <1>3, <1>4, FailForm DEF Next, Proceed

\* A finished run is never pending again, a run's row never disappears, and
\* nothing deletes a snapshot.
THEOREM HistoryIsKept == Spec => NeverReopened
<1> DEFINE Kept(r) == /\ status[r] \in Finished => status'[r] \in Finished
                      /\ status[r] = "pending" => status'[r] # "absent"
                      /\ \A k \in Keys : snapshots'[r][k] >= snapshots[r][k]
           A == \A r \in Runs : Kept(r)
<1>1. TypeInv /\ [Next]_vars => A
  <2> SUFFICES ASSUME TypeInv, [Next]_vars, NEW r \in Runs PROVE Kept(r)
    OBVIOUS
  <2>1. /\ \A k \in Keys : snapshots[r][k] \in Nat
        /\ DOMAIN status = Runs /\ DOMAIN snapshots = Runs
    BY DEF TypeInv, TypeOK
  <2>2. CASE UNCHANGED <<status, snapshots>>
    BY <2>1, <2>2
  <2>3. ASSUME NEW p \in Procs, InsertRun(p) PROVE Kept(r)
    BY <2>1, <2>3 DEF InsertRun, Unused, Finished
  <2>4. ASSUME NEW lost \in SUBSET Runs, UNCHANGED snapshots,
               status' = [s \in Runs |-> IF s \in lost THEN "failed" ELSE status[s]]
        PROVE  Kept(r)
    BY <2>1, <2>4 DEF Finished
  <2>5. ASSUME NEW p \in Procs, Commit(p) PROVE Kept(r)
    <3>1. status'[r] \in {status[r], "complete", "partial"}
      BY <2>1, <2>5 DEF Commit
    <3>2. \A k \in Keys : snapshots'[r][k] \in {snapshots[r][k], snapshots[r][k] + 1}
      BY <2>1, <2>5 DEF Commit
    <3>3. QED
      BY <2>1, <3>1, <3>2 DEF Finished
  <2>6. QED
    BY <2>2, <2>3, <2>4, <2>5, StatusStep DEF Fails
<1>2. TypeInv /\ [Next]_vars => [A]_vars
  BY <1>1
<1>3. QED
  BY <1>2, TypeInit, TypeStep, PTL DEF Spec, NeverReopened

-----------------------------------------------------------------------------
(***************************************************************************)
(* One copy of a row and one summary per delivery.  A delivery that started *)
(* a callback may still store a copy while the callback runs, and may still *)
(* send a summary until it has called Splunk; deliveries pay for both, what *)
(* is stored or sent and what may still be.                                 *)
(***************************************************************************)

Unsent == {"correlate", "store", "export"}

\* One delivery of a callback neither stores a row nor sends a summary twice: there
\* is a delivery for each stored copy, and one for each summary.
OncePerDelivery ==
    \A r \in Runs :
        /\ summaries[r] <= deliveries[r]
        /\ \A k \in Keys : snapshots[r][k] <= deliveries[r]

\* The callbacks of run r, and those that have not called Splunk yet.
Storing(r) == {p \in Procs : task[p].at \in Callback /\ task[p].run = r}
Sending(r) == {p \in Procs : task[p].at \in Unsent /\ task[p].run = r}

OwedInv ==
    \A r \in Runs :
        /\ IsFiniteSet(Storing(r)) /\ IsFiniteSet(Sending(r))
        /\ summaries[r] + Cardinality(Sending(r)) <= deliveries[r]
        /\ \A k \in Keys : snapshots[r][k] + Cardinality(Storing(r)) <= deliveries[r]

\* The numbers the invariant compares.
LEMMA CountsAreNatural ==
  ASSUME TypeInv, NEW r \in Runs
  PROVE  /\ summaries[r] \in Nat /\ deliveries[r] \in Nat
         /\ \A k \in Keys : snapshots[r][k] \in Nat
  BY DEF TypeInv, TypeOK

\* A set that gains no element, or one, or loses one, is counted accordingly.
LEMMA CountKept ==
  ASSUME NEW S, IsFiniteSet(S), NEW T, T \subseteq S
  PROVE  /\ IsFiniteSet(T) /\ Cardinality(T) \in Nat /\ Cardinality(S) \in Nat
         /\ Cardinality(T) <= Cardinality(S)
  BY FS_Subset, FS_CardinalityType

LEMMA CountGrows ==
  ASSUME NEW S, IsFiniteSet(S), NEW x, NEW T, T \subseteq S \cup {x}
  PROVE  /\ IsFiniteSet(T) /\ Cardinality(T) \in Nat /\ Cardinality(S) \in Nat
         /\ Cardinality(T) <= Cardinality(S) + 1
<1>1. /\ IsFiniteSet(S \cup {x}) /\ Cardinality(S) \in Nat
      /\ Cardinality(S \cup {x}) \in {Cardinality(S), Cardinality(S) + 1}
  BY FS_AddElement, FS_CardinalityType
<1>2. /\ IsFiniteSet(T) /\ Cardinality(T) \in Nat
      /\ Cardinality(T) <= Cardinality(S \cup {x})
  BY <1>1, CountKept
<1>3. QED
  BY <1>1, <1>2

LEMMA CountShrinks ==
  ASSUME NEW S, IsFiniteSet(S), NEW x \in S, NEW T, T \subseteq S \ {x}
  PROVE  /\ IsFiniteSet(T) /\ Cardinality(T) \in Nat /\ Cardinality(S) \in Nat
         /\ Cardinality(T) + 1 <= Cardinality(S)
<1>1. /\ IsFiniteSet(S \ {x}) /\ Cardinality(S) \in Nat
      /\ Cardinality(S \ {x}) = Cardinality(S) - 1
  BY FS_RemoveElement, FS_CardinalityType
<1>2. QED
  BY <1>1, CountKept

\* A step that starts no callback and neither stores nor sends anything.
LEMMA OwedKept ==
  ASSUME TypeInv, OwedInv, UNCHANGED <<snapshots, deliveries, summaries>>,
         \A r \in Runs : Storing(r)' \subseteq Storing(r) /\ Sending(r)' \subseteq Sending(r)
  PROVE  OwedInv'
<1> SUFFICES ASSUME NEW r \in Runs
             PROVE  /\ IsFiniteSet(Storing(r)') /\ IsFiniteSet(Sending(r)')
                    /\ summaries[r] + Cardinality(Sending(r)') <= deliveries[r]
                    /\ \A k \in Keys : snapshots[r][k] + Cardinality(Storing(r)') <= deliveries[r]
  BY DEF OwedInv
<1> QED
  BY CountKept, CountsAreNatural DEF OwedInv

\* Process p, continuing with task t, starts a callback, or sends one back to
\* before its Splunk call.
Joins(p, t) ==
    \/ t.at \in Callback /\ ~(t.run = task[p].run /\ task[p].at \in Callback)
    \/ t.at \in Unsent /\ task[p].at \notin Unsent

\* A process that does neither joins neither set.
LEMMA NobodyJoins ==
  ASSUME TypeInv, NEW p \in Procs, NEW t, Become(p, t),
         ~Joins(p, t), NEW r \in Runs
  PROVE  Storing(r)' \subseteq Storing(r) /\ Sending(r)' \subseteq Sending(r)
  BY BecomeAt DEF Joins, Storing, Sending, Callback, Unsent

\* No step of a tick, of an error callback or of a process that dies makes the
\* process a callback; a callback never goes back to before its Splunk call.
LEMMA OtherSteps ==
  ASSUME TypeInv, NEW p \in Procs,
         \/ BeatTick(p) \/ CliRun(p) \/ Crash(p) \/ Restart(p)
         \/ SweepWrite(p) \/ SkipClient(p) \/ TakeClient(p) \/ SyncClient(p)
         \/ InsertRun(p) \/ InsertClashes(p) \/ Publish(p) \/ PublishFails(p)
         \/ EndTick(p)
         \/ CorrelateRaises(p) \/ FailRun(p) \/ LoadDevices(p) \/ Store(p)
         \/ DeviceClashes(p) \/ ExportFails(p)
         \/ MarkRead(p) \/ MarkWrite(p) \/ DatabaseLocked(p)
         \/ \E r \in Runs : ChordError(p, r)
  PROVE  /\ UNCHANGED <<snapshots, deliveries, summaries>>
         /\ \E t : Become(p, t) /\ ~Joins(p, t)
<1> USE DEF At
<1>1. task[p] \in Task
  BY DEF TypeInv, ProperTask
<1>2. CASE BeatTick(p) \/ CliRun(p)
  <2>1. PICK todo, force : StartTick(p, todo, force)
    BY <1>2 DEF BeatTick, CliRun
  <2> DEFINE t == [IdleTask EXCEPT !.at = "sweep", !.abandoned = Abandoned,
                                   !.todo = todo, !.force = force]
  <2>2. t.at = "sweep"
    BY DEF IdleTask
  <2>3. Become(p, t) /\ UNCHANGED <<snapshots, deliveries, summaries>>
    BY <2>1 DEF StartTick, database, broker
  <2> HIDE DEF t
  <2>4. QED
    BY <2>2, <2>3 DEF Joins, Callback, Unsent
<1>3. CASE \/ Crash(p) \/ Restart(p) \/ InsertClashes(p) \/ PublishFails(p)
           \/ EndTick(p) \/ FailRun(p) \/ MarkWrite(p)
  <2>1. UNCHANGED <<snapshots, deliveries, summaries>>
    BY <1>3 DEF Crash, Restart, InsertClashes, PublishFails, EndTick, FailRun,
                MarkWrite, database, broker
  <2>2. Become(p, IdleTask) \/ Become(p, DownTask)
    BY <1>3 DEF Crash, Restart, InsertClashes, PublishFails, EndTick, FailRun,
                MarkWrite, Finish
  <2>3. ~Joins(p, IdleTask) /\ ~Joins(p, DownTask)
    BY IdleFields DEF Joins, Callback, Unsent
  <2>4. QED
    BY <2>1, <2>2, <2>3
<1>4. CASE \/ SweepWrite(p) \/ SkipClient(p) \/ TakeClient(p) \/ SyncClient(p)
           \/ InsertRun(p) \/ Publish(p)
  <2>1. UNCHANGED <<snapshots, deliveries, summaries>>
    BY <1>4 DEF SweepWrite, SkipClient, TakeClient, SyncClient, InsertRun, Publish,
                database, broker
  <2>2. PICK t : Become(p, t) /\ t.at \in Tick
    <3>1. CASE SweepWrite(p)
      <4>1. Become(p, [task[p] EXCEPT !.at = "dispatch", !.abandoned = {}])
        BY <3>1 DEF SweepWrite
      <4>2. [task[p] EXCEPT !.at = "dispatch", !.abandoned = {}].at = "dispatch"
        BY <1>1 DEF Task
      <4> QED
        BY <4>1, <4>2 DEF Tick
    <3>2. CASE SkipClient(p)
      BY <1>1, <3>2 DEF SkipClient, Task, Tick
    <3>3. CASE TakeClient(p)
      BY <1>1, <3>3 DEF TakeClient, Goto, Task, Tick
    <3>4. CASE SyncClient(p)
      <4>1. PICK found : Become(p, [task[p] EXCEPT !.at = "insert", !.clientFound = found])
        BY <3>4 DEF SyncClient
      <4>2. [task[p] EXCEPT !.at = "insert", !.clientFound = found].at = "insert"
        BY <1>1 DEF Task
      <4> QED
        BY <4>1, <4>2 DEF Tick
    <3>5. CASE InsertRun(p)
      <4>1. PICK r : Become(p, [task[p] EXCEPT !.at = "publish", !.run = r])
        BY <3>5 DEF InsertRun
      <4>2. [task[p] EXCEPT !.at = "publish", !.run = r].at = "publish"
        BY <1>1 DEF Task
      <4> QED
        BY <4>1, <4>2 DEF Tick
    <3>6. CASE Publish(p)
      <4> DEFINE t == [task[p] EXCEPT !.at = "dispatch", !.run = NoRun,
                                      !.clientFound = FALSE,
                                      !.todo = {c \in @ : ~IsNext(p, c)}]
      <4>1. t.at = "dispatch"
        BY <1>1 DEF Task
      <4>2. Become(p, t)
        BY <3>6 DEF Publish
      <4> HIDE DEF t
      <4> QED
        BY <4>1, <4>2 DEF Tick
    <3> QED
      BY <1>4, <3>1, <3>2, <3>3, <3>4, <3>5, <3>6
  <2>3. QED
    BY <2>1, <2>2 DEF Joins, Tick, Callback, Unsent
<1>5. CASE \/ CorrelateRaises(p) \/ DeviceClashes(p) \/ MarkRead(p) \/ DatabaseLocked(p)
           \/ \E r \in Runs : ChordError(p, r)
  <2>1. UNCHANGED <<snapshots, deliveries, summaries>>
    BY <1>5 DEF CorrelateRaises, DeviceClashes, MarkRead, DatabaseLocked, ChordError,
                database, broker
  <2>2. PICK t : Become(p, t) /\ t.at \in {"idle", "errback", "mark"}
    BY <1>1, <1>5, IdleFields, ErrbackFields
       DEF CorrelateRaises, DeviceClashes, MarkRead, DatabaseLocked, ChordError,
           Raise, Goto, Finish, Task
  <2>3. QED
    BY <2>1, <2>2 DEF Joins, Callback, Unsent
<1>6. CASE LoadDevices(p) \/ Store(p) \/ ExportFails(p)
  <2>1. UNCHANGED <<snapshots, deliveries, summaries>>
    BY <1>6 DEF LoadDevices, Store, ExportFails, database, broker
  <2>2. task[p].at \in Unsent
    BY <1>6 DEF LoadDevices, Store, ExportFails, Unsent
  <2>3. PICK t : Become(p, t) /\ t.run = task[p].run
    <3>1. \A label : [task[p] EXCEPT !.at = label].run = task[p].run
      BY <1>1 DEF Task
    <3>2. CASE LoadDevices(p)
      <4> DEFINE t == [task[p] EXCEPT !.at = "store",
                                      !.existing = devices[ClientOf[task[p].run]]]
      <4>1. t.run = task[p].run
        BY <1>1 DEF Task
      <4>2. Become(p, t)
        BY <3>2 DEF LoadDevices
      <4> HIDE DEF t
      <4> QED
        BY <4>1, <4>2
    <3>3. CASE Store(p) \/ ExportFails(p)
      <4>1. PICK label : Goto(p, label)
        BY <3>3 DEF Store, ExportFails
      <4> QED
        BY <3>1, <4>1 DEF Goto
    <3> QED
      BY <1>6, <3>2, <3>3
  <2>4. QED
    BY <2>1, <2>2, <2>3 DEF Joins, Callback, Unsent
<1>7. QED
  BY <1>2, <1>3, <1>4, <1>5, <1>6

\* They owe what they owed.
LEMMA OtherStepsOwed ==
  ASSUME TypeInv, OwedInv, NEW p \in Procs,
         UNCHANGED <<snapshots, deliveries, summaries>>,
         NEW t, Become(p, t), ~Joins(p, t)
  PROVE  OwedInv'
<1>1. \A r \in Runs : Storing(r)' \subseteq Storing(r) /\ Sending(r)' \subseteq Sending(r)
  BY NobodyJoins
<1>2. QED
  BY <1>1, OwedKept

\* A delivery that starts a callback pays for it; a dropped one owes nothing.
LEMMA CallbackStartOwed ==
  ASSUME TypeInv, OwedInv, NEW p \in Procs, NEW r \in Runs, CallbackStart(p, r)
  PROVE  OwedInv'
<1> DEFINE t == [IdleTask EXCEPT !.at = "correlate", !.run = r]
<1>1. t.at = "correlate" /\ t.run = r
  BY DEF IdleTask
<1>2. /\ deliveries'[r] = deliveries[r] + 1
      /\ \A s \in Runs \ {r} : deliveries'[s] = deliveries[s]
      /\ UNCHANGED <<snapshots, summaries>>
      /\ Become(p, t) \/ UNCHANGED task
  BY DEF CallbackStart, database, TypeInv, TypeOK
<1> HIDE DEF t
<1>3. ASSUME NEW s \in Runs
      PROVE  /\ Storing(s)' \subseteq Storing(s) \cup (IF s = r THEN {p} ELSE {})
             /\ Sending(s)' \subseteq Sending(s) \cup (IF s = r THEN {p} ELSE {})
  BY <1>1, <1>2, BecomeAt DEF Storing, Sending
<1>4. ASSUME NEW s \in Runs
      PROVE  /\ IsFiniteSet(Storing(s)') /\ IsFiniteSet(Sending(s)')
             /\ summaries[s] + Cardinality(Sending(s)') <= deliveries'[s]
             /\ \A k \in Keys : snapshots[s][k] + Cardinality(Storing(s)') <= deliveries'[s]
  <2>1. CASE s = r
    <3>1. /\ IsFiniteSet(Storing(r)') /\ Cardinality(Storing(r)') \in Nat
          /\ Cardinality(Storing(r)) \in Nat
          /\ Cardinality(Storing(r)') <= Cardinality(Storing(r)) + 1
      BY <1>3, CountGrows DEF OwedInv
    <3>2. /\ IsFiniteSet(Sending(r)') /\ Cardinality(Sending(r)') \in Nat
          /\ Cardinality(Sending(r)) \in Nat
          /\ Cardinality(Sending(r)') <= Cardinality(Sending(r)) + 1
      BY <1>3, CountGrows DEF OwedInv
    <3>3. summaries[r] + Cardinality(Sending(r)') <= deliveries'[r]
      BY <1>2, <3>2, CountsAreNatural DEF OwedInv
    <3>4. ASSUME NEW k \in Keys
          PROVE  snapshots[r][k] + Cardinality(Storing(r)') <= deliveries'[r]
      BY <1>2, <3>1, CountsAreNatural DEF OwedInv
    <3>5. QED
      BY <2>1, <3>1, <3>2, <3>3, <3>4
  <2>2. CASE s # r
    BY <1>2, <1>3, <2>2, CountKept, CountsAreNatural DEF OwedInv
  <2>3. QED
    BY <2>1, <2>2
<1>5. QED
  BY <1>2, <1>4 DEF OwedInv

\* The summary that is sent was owed to the callback that sends it.
LEMMA ExportSucceedsOwed ==
  ASSUME TypeInv, OwedInv, NEW p \in Procs, ExportSucceeds(p)
  PROVE  OwedInv'
<1>0. task[p].run \in Runs
  BY BusyTask DEF ExportSucceeds, At, Busy, Callback
<1> PICK r \in Runs : r = task[p].run
  BY <1>0
<1> DEFINE t == [task[p] EXCEPT !.at = "commit"]
<1>1. task[p].at = "export" /\ task[p] \in Task
  BY DEF ExportSucceeds, At, TypeInv, ProperTask
<1>2. t.at = "commit" /\ t.run = r
  BY <1>1 DEF Task
<1>3. /\ summaries'[r] = summaries[r] + 1
      /\ \A s \in Runs \ {r} : summaries'[s] = summaries[s]
      /\ UNCHANGED <<snapshots, deliveries>>
      /\ Become(p, t)
  BY <1>1 DEF ExportSucceeds, Goto, database, broker, TypeInv, TypeOK
<1> HIDE DEF t
<1>4. task'[p] = t /\ \A q \in Procs : q # p => task'[q] = task[q]
  BY <1>3, BecomeAt
<1>5. ASSUME NEW s \in Runs PROVE Storing(s)' \subseteq Storing(s)
  BY <1>1, <1>2, <1>4 DEF Storing, Callback
<1>6. ASSUME NEW s \in Runs PROVE Sending(s)' \subseteq Sending(s)
  BY <1>1, <1>2, <1>4 DEF Sending, Unsent
<1>7. p \in Sending(r) /\ Sending(r)' \subseteq Sending(r) \ {p}
  BY <1>1, <1>2, <1>4 DEF Sending, Unsent
<1>8. ASSUME NEW s \in Runs
      PROVE  /\ IsFiniteSet(Storing(s)') /\ IsFiniteSet(Sending(s)')
             /\ summaries'[s] + Cardinality(Sending(s)') <= deliveries[s]
             /\ \A k \in Keys : snapshots[s][k] + Cardinality(Storing(s)') <= deliveries[s]
  <2>1. /\ IsFiniteSet(Storing(s)')
        /\ \A k \in Keys : snapshots[s][k] + Cardinality(Storing(s)') <= deliveries[s]
    BY <1>5, CountKept, CountsAreNatural DEF OwedInv
  <2>2. CASE s = r
    <3>1. /\ IsFiniteSet(Sending(r)')
          /\ (summaries[r] + 1) + Cardinality(Sending(r)') <= deliveries[r]
      BY <1>1, <1>7, CountShrinks, CountsAreNatural DEF OwedInv
    <3>2. summaries'[r] + Cardinality(Sending(r)') <= deliveries[r]
      BY <1>3, <3>1, Zenon
    <3>3. QED
      BY <2>1, <2>2, <3>1, <3>2
  <2>3. CASE s # r
    BY <1>3, <1>6, <2>1, <2>3, CountKept, CountsAreNatural DEF OwedInv
  <2>4. QED
    BY <2>2, <2>3
<1>9. QED
  BY <1>3, <1>8 DEF OwedInv

\* The copy that is committed was owed to the callback that commits it.
LEMMA CommitOwed ==
  ASSUME TypeInv, OwedInv, NEW p \in Procs, Commit(p)
  PROVE  OwedInv'
<1>0. task[p].run \in Runs
  BY BusyTask DEF Commit, At, Busy, Callback
<1> PICK r \in Runs : r = task[p].run
  BY <1>0
<1>1. task[p].at = "commit"
  BY DEF Commit, At
<1>2. /\ \A k \in Keys : snapshots'[r][k] \in {snapshots[r][k], snapshots[r][k] + 1}
      /\ \A s \in Runs \ {r} : snapshots'[s] = snapshots[s]
      /\ UNCHANGED <<summaries, deliveries>>
      /\ Become(p, IdleTask)
  BY <1>1 DEF Commit, Finish, broker, TypeInv, TypeOK
<1>3. task'[p] = IdleTask /\ \A q \in Procs : q # p => task'[q] = task[q]
  BY <1>2, BecomeAt
<1>4. ASSUME NEW s \in Runs
      PROVE  Storing(s)' \subseteq Storing(s) /\ Sending(s)' \subseteq Sending(s)
  BY <1>3, IdleFields DEF Storing, Sending, Callback, Unsent
<1>5. p \in Storing(r) /\ Storing(r)' \subseteq Storing(r) \ {p}
  <2>1. p \in Storing(r)
    BY <1>1 DEF Storing, Callback
  <2>2. p \notin Storing(r)'
    BY <1>3, IdleFields DEF Storing, Callback
  <2>3. QED
    BY <1>4, <2>1, <2>2
<1>6. ASSUME NEW s \in Runs
      PROVE  /\ IsFiniteSet(Storing(s)') /\ IsFiniteSet(Sending(s)')
             /\ summaries[s] + Cardinality(Sending(s)') <= deliveries[s]
             /\ \A k \in Keys : snapshots'[s][k] + Cardinality(Storing(s)') <= deliveries[s]
  <2>1. /\ IsFiniteSet(Sending(s)')
        /\ summaries[s] + Cardinality(Sending(s)') <= deliveries[s]
    BY <1>4, CountKept, CountsAreNatural DEF OwedInv
  <2>2. CASE s = r
    <3>1. /\ IsFiniteSet(Storing(r)')
          /\ \A k \in Keys : snapshots[r][k] + 1 + Cardinality(Storing(r)') <= deliveries[r]
      BY <1>1, <1>5, CountShrinks, CountsAreNatural DEF OwedInv
    <3>2. Cardinality(Storing(r)') \in Nat
      BY <3>1, FS_CardinalityType
    <3>3. ASSUME NEW k \in Keys
          PROVE  snapshots'[r][k] + Cardinality(Storing(r)') <= deliveries[r]
      BY <1>1, <1>2, <3>1, <3>2, CountsAreNatural
    <3>4. QED
      BY <2>1, <2>2, <3>1, <3>3, Zenon
  <2>3. CASE s # r
    BY <1>2, <1>4, <2>1, <2>3, CountKept, CountsAreNatural DEF OwedInv
  <2>4. QED
    BY <2>2, <2>3
<1>7. QED
  BY <1>2, <1>6 DEF OwedInv

\* Nothing is owed at first.
LEMMA OwedInit == Init => OwedInv
<1> SUFFICES ASSUME Init, NEW r \in Runs
             PROVE  /\ IsFiniteSet(Storing(r)) /\ IsFiniteSet(Sending(r))
                    /\ summaries[r] + Cardinality(Sending(r)) <= deliveries[r]
                    /\ \A k \in Keys :
                        snapshots[r][k] + Cardinality(Storing(r)) <= deliveries[r]
  BY DEF OwedInv
<1>1. Storing(r) = {} /\ Sending(r) = {}
  BY IdleFields DEF Init, Storing, Sending, Callback, Unsent
<1>2. QED
  BY <1>1, FS_EmptySet DEF Init

\* Every step keeps to it.
LEMMA OwedStep == TypeInv /\ OwedInv /\ [Next]_vars => OwedInv'
<1> SUFFICES ASSUME TypeInv, OwedInv, [Next]_vars PROVE OwedInv'
  OBVIOUS
<1>1. CASE UNCHANGED <<snapshots, deliveries, summaries, task>>
  BY <1>1 DEF OwedInv, Storing, Sending
<1>2. CASE UNCHANGED vars \/ Hour \/ \E r \in Runs : HeaderReturns(r) \/ Redeliver(r)
  BY <1>1, <1>2 DEF vars, Hour, HeaderReturns, Redeliver, database, broker
<1>3. ASSUME NEW p \in Procs,
             \/ BeatTick(p) \/ CliRun(p) \/ Crash(p) \/ Restart(p)
             \/ \E r \in Runs : ChordError(p, r)
      PROVE  OwedInv'
  BY <1>3, OtherSteps, OtherStepsOwed
<1>4. ASSUME NEW p \in Procs, Proceed(p) PROVE OwedInv'
  BY <1>4, OtherSteps, OtherStepsOwed, ExportSucceedsOwed, CommitOwed DEF Proceed
<1>5. ASSUME NEW p \in Procs, NEW r \in Runs, CallbackStart(p, r) PROVE OwedInv'
  BY <1>5, CallbackStartOwed
<1>6. QED
  BY <1>2, <1>3, <1>4, <1>5 DEF Next

\* However often the broker delivers a callback, and however many processes
\* run it, a delivery stores at most one copy of each row and sends at most
\* one summary.
LEMMA DeliveriesPay == Spec => []OncePerDelivery
<1>1. TypeInv /\ OwedInv => OncePerDelivery
  <2> SUFFICES ASSUME TypeInv, OwedInv, NEW r \in Runs
               PROVE  /\ summaries[r] <= deliveries[r]
                      /\ \A k \in Keys : snapshots[r][k] <= deliveries[r]
    BY DEF OncePerDelivery
  <2>1. Cardinality(Storing(r)) \in Nat /\ Cardinality(Sending(r)) \in Nat
    BY FS_CardinalityType DEF OwedInv
  <2>2. QED
    BY <2>1, CountsAreNatural DEF OwedInv
<1>2. QED
  BY <1>1, TypeInit, TypeStep, OwedInit, OwedStep, PTL DEF Spec

-----------------------------------------------------------------------------
(***************************************************************************)
(* The control flow of a process: what the next task of a process that goes *)
(* on (Proceed) may be, and how far a task is from its end.                *)
(***************************************************************************)

\* A task u continues as task t.
Flow(u, t) ==
    \/ t = IdleTask
    \/ u.at = "sweep" /\ t.at = "dispatch" /\ t.abandoned = {} /\ t.todo = u.todo
    \/ /\ <<u.at, t.at>> \in {<<"dispatch", "sync">>, <<"sync", "insert">>,
                              <<"insert", "publish">>}
       /\ t.abandoned = u.abandoned /\ t.todo = u.todo
       /\ \E c \in u.todo : \A d \in u.todo : c <= d
    \/ /\ u.at \in {"dispatch", "publish"} /\ t.at = "dispatch"
       /\ t.abandoned = u.abandoned
       /\ t.todo = {c \in u.todo : ~(\A d \in u.todo : c <= d)}
       /\ u.at = "dispatch" => \E c \in u.todo : \A d \in u.todo : c <= d
    \/ /\ <<u.at, t.at>> \in {<<"correlate", "store">>, <<"store", "export">>,
                              <<"store", "commit">>, <<"export", "commit">>,
                              <<"errback", "mark">>}
       /\ t.abandoned = u.abandoned /\ t.run = u.run
    \/ /\ u.at \in {"correlate", "store"} /\ t.at = "errback"
       /\ t.abandoned = {} /\ t.run = u.run

\* Goto changes where a task is and nothing else of it.
LEMMA GotoFields ==
  ASSUME TypeInv, NEW p \in Procs, NEW label, Goto(p, label)
  PROVE  \E t : /\ Become(p, t)
                /\ t.at = label /\ t.run = task[p].run
                /\ t.abandoned = task[p].abandoned /\ t.todo = task[p].todo
                /\ t.force = task[p].force
<1>1. task[p] \in Task
  BY DEF TypeInv, ProperTask
<1>2. PICK t : t = [task[p] EXCEPT !.at = label]
  OBVIOUS
<1>3. Become(p, t)
  BY <1>2 DEF Goto
<1>4. QED
  BY <1>1, <1>2, <1>3 DEF Task

\* A tick's steps are of this form,
LEMMA TickFlow ==
  ASSUME TypeInv, NEW p \in Procs,
         \/ SweepWrite(p) \/ SkipClient(p) \/ TakeClient(p) \/ SyncClient(p)
         \/ InsertRun(p) \/ Publish(p)
  PROVE  \E t : Become(p, t) /\ Flow(task[p], t)
<1> USE DEF At
<1>1. task[p] \in Task
  BY DEF TypeInv, ProperTask
<1>2. CASE SweepWrite(p)
  <2>1. PICK t : t = [task[p] EXCEPT !.at = "dispatch", !.abandoned = {}]
    OBVIOUS
  <2>2. t.at = "dispatch" /\ t.abandoned = {} /\ t.todo = task[p].todo
    BY <1>1, <2>1 DEF Task
  <2>3. Become(p, t) /\ task[p].at = "sweep"
    BY <1>2, <2>1 DEF SweepWrite
  <2>4. QED
    BY <2>2, <2>3 DEF Flow
<1>3. CASE SkipClient(p)
  <2>1. PICK c \in Clients : /\ IsNext(p, c) /\ task[p].at = "dispatch"
                             /\ Become(p, [task[p] EXCEPT !.todo = @ \ {c}])
    BY <1>3 DEF SkipClient
  <2>2. PICK t : t = [task[p] EXCEPT !.todo = @ \ {c}]
    OBVIOUS
  <2>3. /\ t.at = "dispatch" /\ t.abandoned = task[p].abandoned
        /\ t.todo = task[p].todo \ {c}
    BY <1>1, <2>1, <2>2 DEF Task
  <2>4. task[p].todo \subseteq Clients
    BY <1>1 DEF Task
  <2>5. t.todo = {d \in task[p].todo : ~(\A e \in task[p].todo : d <= e)}
    BY <2>1, <2>3, <2>4 DEF IsNext, Clients
  <2>6. QED
    BY <2>1, <2>2, <2>3, <2>5 DEF Flow, IsNext
<1>4. CASE TakeClient(p)
  <2>1. PICK t : /\ Become(p, t) /\ t.at = "sync"
                 /\ t.abandoned = task[p].abandoned /\ t.todo = task[p].todo
    BY <1>4, GotoFields DEF TakeClient
  <2>2. QED
    BY <1>4, <2>1 DEF TakeClient, Flow, IsNext
<1>5. CASE SyncClient(p)
  <2>1. PICK c \in Clients : /\ IsNext(p, c) /\ task[p].at = "sync"
                             /\ Become(p, [task[p] EXCEPT !.at = "insert",
                                               !.clientFound = c \in clientRows])
    BY <1>5 DEF SyncClient
  <2>2. PICK t : t = [task[p] EXCEPT !.at = "insert", !.clientFound = c \in clientRows]
    OBVIOUS
  <2>3. t.at = "insert" /\ t.abandoned = task[p].abandoned /\ t.todo = task[p].todo
    BY <1>1, <2>2 DEF Task
  <2>4. QED
    BY <2>1, <2>2, <2>3 DEF Flow, IsNext
<1>6. CASE InsertRun(p)
  <2>1. PICK c \in Clients, r \in Runs :
            /\ IsNext(p, c) /\ task[p].at = "insert"
            /\ Become(p, [task[p] EXCEPT !.at = "publish", !.run = r])
    BY <1>6 DEF InsertRun, Unused
  <2>2. PICK t : t = [task[p] EXCEPT !.at = "publish", !.run = r]
    OBVIOUS
  <2>3. t.at = "publish" /\ t.abandoned = task[p].abandoned /\ t.todo = task[p].todo
    BY <1>1, <2>2 DEF Task
  <2>4. QED
    BY <2>1, <2>2, <2>3 DEF Flow, IsNext
<1>7. CASE Publish(p)
  <2>1. PICK t : t = [task[p] EXCEPT !.at = "dispatch", !.run = NoRun,
                                     !.clientFound = FALSE,
                                     !.todo = {c \in @ : ~IsNext(p, c)}]
    OBVIOUS
  <2>2. /\ t.at = "dispatch" /\ t.abandoned = task[p].abandoned
        /\ t.todo = {c \in task[p].todo : ~IsNext(p, c)}
    BY <1>1, <2>1 DEF Task
  <2>3. t.todo = {c \in task[p].todo : ~(\A d \in task[p].todo : c <= d)}
    BY <2>2 DEF IsNext
  <2>4. Become(p, t) /\ task[p].at = "publish"
    BY <1>7, <2>1 DEF Publish
  <2>5. QED
    BY <2>2, <2>3, <2>4 DEF Flow
<1>8. QED
  BY <1>2, <1>3, <1>4, <1>5, <1>6, <1>7

\* and so are all steps of a process that goes on.
LEMMA ProceedFlow ==
  ASSUME TypeInv, NEW p \in Procs, Proceed(p)
  PROVE  /\ task[p].at \notin {"idle", "down"}
         /\ \E t : Become(p, t) /\ Flow(task[p], t)
<1> USE DEF At
<1>1. task[p] \in Task
  BY DEF TypeInv, ProperTask
<1>2. CASE \/ SweepWrite(p) \/ SkipClient(p) \/ TakeClient(p) \/ SyncClient(p)
           \/ InsertRun(p) \/ Publish(p)
  BY <1>2, TickFlow DEF SweepWrite, SkipClient, TakeClient, SyncClient, InsertRun, Publish
<1>3. CASE \/ InsertClashes(p) \/ PublishFails(p) \/ EndTick(p) \/ FailRun(p)
           \/ Commit(p) \/ MarkWrite(p)
  BY <1>3 DEF InsertClashes, PublishFails, EndTick, FailRun, Commit, MarkWrite,
              Finish, Flow
<1>4. CASE LoadDevices(p)
  <2>1. PICK t : t = [task[p] EXCEPT !.at = "store",
                                     !.existing = devices[ClientOf[task[p].run]]]
    OBVIOUS
  <2>2. t.at = "store" /\ t.run = task[p].run /\ t.abandoned = task[p].abandoned
    BY <1>1, <2>1 DEF Task
  <2>3. Become(p, t) /\ task[p].at = "correlate"
    BY <1>4, <2>1 DEF LoadDevices
  <2>4. QED
    BY <2>2, <2>3 DEF Flow
<1>5. ASSUME NEW label, Goto(p, label),
             <<task[p].at, label>> \in {<<"store", "export">>, <<"store", "commit">>,
                                        <<"export", "commit">>, <<"errback", "mark">>}
      PROVE  \E t : Become(p, t) /\ Flow(task[p], t)
  <2>1. PICK t : /\ Become(p, t) /\ t.at = label
                 /\ t.abandoned = task[p].abandoned /\ t.run = task[p].run
    BY <1>5, GotoFields
  <2>2. QED
    BY <1>5, <2>1 DEF Flow
<1>6. CASE Store(p) \/ ExportSucceeds(p) \/ ExportFails(p)
  BY <1>5, <1>6 DEF Store, ExportSucceeds, ExportFails
<1>7. CASE MarkRead(p)
  BY <1>5, <1>7 DEF MarkRead, Finish, Flow
<1>8. ASSUME task[p].at \in {"correlate", "store"}, Raise(p)
      PROVE  \E t : Become(p, t) /\ Flow(task[p], t)
  <2>1. Become(p, ErrbackTask(task[p].run))
    BY <1>8 DEF Raise
  <2>2. Flow(task[p], ErrbackTask(task[p].run))
    BY <1>8, ErrbackFields DEF Flow
  <2>3. QED
    BY <2>1, <2>2
<1>9. CASE CorrelateRaises(p) \/ DeviceClashes(p)
  BY <1>8, <1>9 DEF CorrelateRaises, DeviceClashes
<1>10. CASE DatabaseLocked(p)
  BY <1>8, <1>10 DEF DatabaseLocked, Finish, Flow
<1>11. QED
  BY <1>2, <1>3, <1>4, <1>6, <1>7, <1>9, <1>10
     DEF Proceed, InsertClashes, PublishFails, EndTick, FailRun, Commit, MarkWrite,
         LoadDevices, Store, ExportSucceeds, ExportFails, MarkRead, CorrelateRaises,
         DeviceClashes, DatabaseLocked

\* The steps by which a process takes a task, loses it or is replaced.
LEMMA OtherFlow ==
  ASSUME TypeInv, NEW p \in Procs
  PROVE  /\ BeatTick(p) \/ CliRun(p) =>
                /\ task[p].at = "idle"
                /\ \E t : Become(p, t) /\ t.at = "sweep" /\ t.abandoned = Abandoned
         /\ Crash(p) => Become(p, DownTask)
         /\ Restart(p) => task[p].at = "down" /\ Become(p, IdleTask)
         /\ \A r \in Runs : ChordError(p, r) =>
                task[p].at = "idle" /\ Become(p, ErrbackTask(r))
         /\ \A r \in Runs : CallbackStart(p, r) =>
                /\ task[p].at = "idle"
                /\ \/ UNCHANGED task
                   \/ /\ status[r] = "pending"
                      /\ \E t : /\ Become(p, t) /\ t.at = "correlate"
                                /\ t.run = r /\ t.abandoned = {}
<1> USE DEF At
<1>1. ASSUME BeatTick(p) \/ CliRun(p)
      PROVE  /\ task[p].at = "idle"
             /\ \E t : Become(p, t) /\ t.at = "sweep" /\ t.abandoned = Abandoned
  <2>1. PICK todo, force : StartTick(p, todo, force)
    BY <1>1 DEF BeatTick, CliRun
  <2>2. PICK t : t = [IdleTask EXCEPT !.at = "sweep", !.abandoned = Abandoned,
                                      !.todo = todo, !.force = force]
    OBVIOUS
  <2>3. t.at = "sweep" /\ t.abandoned = Abandoned
    BY <2>2 DEF IdleTask
  <2>4. QED
    BY <2>1, <2>2, <2>3 DEF StartTick
<1>2. ASSUME NEW r \in Runs, CallbackStart(p, r)
      PROVE  /\ task[p].at = "idle"
             /\ \/ UNCHANGED task
                \/ /\ status[r] = "pending"
                   /\ \E t : /\ Become(p, t) /\ t.at = "correlate"
                             /\ t.run = r /\ t.abandoned = {}
  <2>1. PICK t : t = [IdleTask EXCEPT !.at = "correlate", !.run = r]
    OBVIOUS
  <2>2. t.at = "correlate" /\ t.run = r /\ t.abandoned = {}
    BY <2>1 DEF IdleTask
  <2>3. QED
    BY <1>2, <2>1, <2>2 DEF CallbackStart
<1>3. QED
  BY <1>1, <1>2 DEF Crash, Restart, Finish, ChordError

-----------------------------------------------------------------------------
(***************************************************************************)
(* What holds unless two processes take up one run (NoOverlap): the checks *)
(* of the callback, of the error callback and of the sweep are then still  *)
(* true when they write, with any number of processes, deliveries, crashes *)
(* and runs.                                                               *)
(***************************************************************************)

\* What a task t found out about its runs still holds.  A run that two sweeps
\* selected may have been failed by one of them.
CheckHolds(t) ==
    /\ t.at \in Callback \cup {"mark"} => status[t.run] = "pending"
    /\ \A r \in t.abandoned : status[r] \in {"pending", "failed"}

\* A failed run has no table, and no row is stored twice.
RowsOnce ==
    \A r \in Runs, k \in Keys : /\ status[r] = "failed" => snapshots[r][k] = 0
                                /\ snapshots[r][k] <= 1

ApartInv ==
    /\ \A p \in Procs : CheckHolds(task[p])
    /\ RowsOnce

\* Nothing is checked and nothing stored in the beginning.
LEMMA ApartInit == Init => ApartInv
  BY IdleFields DEF Init, ApartInv, CheckHolds, RowsOnce, Callback

\* A process takes its next task, and the rows stay as they are.
LEMMA OwnTask ==
  ASSUME TypeInv, ApartInv, UNCHANGED status,
         NEW p \in Procs, NEW t, Become(p, t), CheckHolds(t)'
  PROVE  \A q \in Procs : CheckHolds(task[q])'
<1>1. task'[p] = t /\ \A q \in Procs : q # p => task'[q] = task[q]
  BY BecomeAt
<1>2. QED
  BY <1>1 DEF ApartInv, CheckHolds

\* A step that leaves the rows alone keeps what the processes found out.
LEMMA ApartQuiet ==
  ASSUME TypeInv, ApartInv, UNCHANGED status, NEW p \in Procs,
         \/ BeatTick(p) \/ CliRun(p) \/ Crash(p) \/ Restart(p)
         \/ \E r \in Runs : CallbackStart(p, r) \/ ChordError(p, r)
         \/ SkipClient(p) \/ TakeClient(p) \/ SyncClient(p) \/ InsertClashes(p)
         \/ Publish(p) \/ PublishFails(p) \/ EndTick(p)
         \/ CorrelateRaises(p) \/ LoadDevices(p) \/ Store(p) \/ DeviceClashes(p)
         \/ ExportSucceeds(p) \/ ExportFails(p) \/ MarkRead(p) \/ DatabaseLocked(p)
  PROVE  \A q \in Procs : CheckHolds(task[q])'
<1> USE DEF At
<1>1. task[p] \in Task /\ CheckHolds(task[p])
  BY DEF TypeInv, ProperTask, ApartInv
<1>2. CASE Finish(p)
  <2>1. CheckHolds(IdleTask)'
    BY IdleFields DEF CheckHolds, Callback
  <2>2. QED
    BY <1>2, <2>1, OwnTask DEF Finish
<1>3. ASSUME NEW r, Become(p, ErrbackTask(r))
      PROVE  \A q \in Procs : CheckHolds(task[q])'
  <2>1. CheckHolds(ErrbackTask(r))'
    BY ErrbackFields DEF CheckHolds, Callback
  <2>2. QED
    BY <1>3, <2>1, OwnTask
<1>4. ASSUME NEW t, Become(p, t), t.abandoned = task[p].abandoned,
             \/ t.at \notin Callback \cup {"mark"}
             \/ t.run = task[p].run /\ task[p].at \in Callback
             \/ t.run = task[p].run /\ status[t.run] = "pending"
      PROVE  \A q \in Procs : CheckHolds(task[q])'
  <2>1. CheckHolds(t)'
    BY <1>1, <1>4 DEF CheckHolds
  <2>2. QED
    BY <1>4, <2>1, OwnTask
<1>5. CASE BeatTick(p) \/ CliRun(p)
  <2>1. PICK todo, force : StartTick(p, todo, force)
    BY <1>5 DEF BeatTick, CliRun
  <2>2. PICK t : t = [IdleTask EXCEPT !.at = "sweep", !.abandoned = Abandoned,
                                      !.todo = todo, !.force = force]
    OBVIOUS
  <2>3. Become(p, t) /\ t.at = "sweep" /\ t.abandoned = Abandoned
    BY <2>1, <2>2 DEF StartTick, IdleTask
  <2>4. CheckHolds(t)'
    BY <2>3 DEF CheckHolds, Abandoned, Callback
  <2>5. QED
    BY <2>3, <2>4, OwnTask
<1>6. ASSUME NEW r \in Runs, CallbackStart(p, r)
      PROVE  \A q \in Procs : CheckHolds(task[q])'
  <2>1. CASE UNCHANGED task
    BY <2>1 DEF ApartInv, CheckHolds
  <2>2. CASE /\ status[r] = "pending"
             /\ Become(p, [IdleTask EXCEPT !.at = "correlate", !.run = r])
    <3>1. PICK t : t = [IdleTask EXCEPT !.at = "correlate", !.run = r]
      OBVIOUS
    <3>2. Become(p, t) /\ t.run = r /\ t.abandoned = {}
      BY <2>2, <3>1 DEF IdleTask
    <3>3. CheckHolds(t)'
      BY <2>2, <3>2 DEF CheckHolds
    <3>4. QED
      BY <3>2, <3>3, OwnTask
  <2>3. QED
    BY <1>6, <2>1, <2>2 DEF CallbackStart
<1>7. CASE SkipClient(p)
  <2>1. PICK t, c : t = [task[p] EXCEPT !.todo = @ \ {c}] /\ Become(p, t)
    BY <1>7 DEF SkipClient
  <2>2. t.abandoned = task[p].abandoned /\ t.at = "dispatch"
    BY <1>1, <1>7, <2>1 DEF Task, SkipClient
  <2>3. QED
    BY <1>4, <2>1, <2>2 DEF Callback
<1>8. CASE SyncClient(p)
  <2>1. PICK t, found : /\ t = [task[p] EXCEPT !.at = "insert", !.clientFound = found]
                        /\ Become(p, t)
    BY <1>8 DEF SyncClient
  <2>2. t.abandoned = task[p].abandoned /\ t.at = "insert"
    BY <1>1, <2>1 DEF Task
  <2>3. QED
    BY <1>4, <2>1, <2>2 DEF Callback
<1>9. CASE Publish(p)
  <2>1. PICK t, todo : /\ t = [task[p] EXCEPT !.at = "dispatch", !.run = NoRun,
                                     !.clientFound = FALSE, !.todo = todo]
                       /\ Become(p, t)
    BY <1>9 DEF Publish
  <2>2. t.abandoned = task[p].abandoned /\ t.at = "dispatch"
    BY <1>1, <2>1 DEF Task
  <2>3. QED
    BY <1>4, <2>1, <2>2 DEF Callback
<1>10. CASE LoadDevices(p)
  <2>1. PICK t, existing : /\ t = [task[p] EXCEPT !.at = "store", !.existing = existing]
                           /\ Become(p, t)
    BY <1>10 DEF LoadDevices
  <2>2. t.abandoned = task[p].abandoned /\ t.run = task[p].run
    BY <1>1, <2>1 DEF Task
  <2>3. QED
    BY <1>4, <1>10, <2>1, <2>2 DEF LoadDevices, Callback
<1>11. ASSUME NEW label, Goto(p, label),
              \/ label = "sync"
              \/ task[p].at \in Callback
              \/ label = "mark" /\ status[task[p].run] = "pending"
       PROVE  \A q \in Procs : CheckHolds(task[q])'
  <2>1. PICK t : t = [task[p] EXCEPT !.at = label]
    OBVIOUS
  <2>2. /\ Become(p, t) /\ t.abandoned = task[p].abandoned
        /\ t.run = task[p].run /\ t.at = label
    BY <1>1, <1>11, <2>1 DEF Goto, Task
  <2>3. QED
    BY <1>4, <1>11, <2>2 DEF Callback
<1>12. CASE \/ TakeClient(p) \/ Store(p) \/ ExportSucceeds(p) \/ ExportFails(p)
            \/ MarkRead(p)
  BY <1>2, <1>11, <1>12
     DEF TakeClient, Store, ExportSucceeds, ExportFails, MarkRead, Callback
<1>13. CASE Restart(p) \/ InsertClashes(p) \/ PublishFails(p) \/ EndTick(p)
  BY <1>2, <1>13 DEF Restart, InsertClashes, PublishFails, EndTick
<1>14. CASE \/ \E r \in Runs : ChordError(p, r)
            \/ CorrelateRaises(p) \/ DeviceClashes(p) \/ DatabaseLocked(p)
  BY <1>2, <1>3, <1>14
     DEF ChordError, CorrelateRaises, DeviceClashes, DatabaseLocked, Raise
<1>15. CASE Crash(p)
  <2>1. CheckHolds(DownTask)'
    BY IdleFields DEF CheckHolds, Callback
  <2>2. QED
    BY <1>15, <2>1, OwnTask DEF Crash
<1>16. QED
  BY <1>5, <1>6, <1>7, <1>8, <1>9, <1>10, <1>12, <1>13, <1>14, <1>15

\* Unless there is an overlap, a step keeps the invariant and is a step of the
\* ledger: if it changes the rows at all, the runs it finishes are pending when it
\* writes, or were failed by another sweep.
LEMMA ApartStep ==
  ASSUME NoOverlap, TypeInv, IInv, ApartInv, [Next]_vars
  PROVE  ApartInv' /\ [Ledger!Next]_(Ledger!ledger)
<1> USE DEF At
<1> DEFINE Goal == ApartInv' /\ [Ledger!Next]_(Ledger!ledger)
<1>1. \A p \in Procs : /\ CheckHolds(task[p]) /\ task[p] \in Task
                       /\ task[p].at \in Busy => task[p].run \in Runs
  BY DEF ApartInv, TypeInv, ProperTask
<1>2. /\ DOMAIN status = Runs /\ DOMAIN snapshots = Runs
      /\ \A r \in Runs : snapshots[r] \in [Keys -> Nat]
  BY DEF TypeInv, TypeOK
<1>3. ASSUME UNCHANGED <<status, snapshots>>,
             \A p \in Procs : CheckHolds(task[p])'
      PROVE  Goal
  BY <1>3 DEF ApartInv, RowsOnce, Ledger!ledger
<1>4. CASE UNCHANGED vars
  <2>1. \A p \in Procs : CheckHolds(task[p])'
    BY <1>1, <1>4 DEF vars, CheckHolds
  <2>2. QED
    BY <1>3, <1>4, <2>1 DEF vars
<1>5. CASE Hour \/ \E r \in Runs : HeaderReturns(r) \/ Redeliver(r)
  <2>1. UNCHANGED <<status, snapshots, task>>
    BY <1>5 DEF Hour, HeaderReturns, Redeliver, database
  <2>2. \A p \in Procs : CheckHolds(task[p])'
    BY <1>1, <2>1 DEF CheckHolds
  <2>3. QED
    BY <1>3, <2>1, <2>2
<1>6. ASSUME NEW p \in Procs,
             \/ BeatTick(p) \/ CliRun(p) \/ Crash(p) \/ Restart(p)
             \/ \E r \in Runs : CallbackStart(p, r) \/ ChordError(p, r)
             \/ SkipClient(p) \/ TakeClient(p) \/ SyncClient(p) \/ InsertClashes(p)
             \/ Publish(p) \/ PublishFails(p) \/ EndTick(p)
             \/ CorrelateRaises(p) \/ LoadDevices(p) \/ Store(p) \/ DeviceClashes(p)
             \/ ExportSucceeds(p) \/ ExportFails(p) \/ MarkRead(p) \/ DatabaseLocked(p)
      PROVE  Goal
  <2>1. UNCHANGED <<status, snapshots>>
    BY <1>6
    DEF BeatTick, CliRun, StartTick, Crash, Restart, CallbackStart, ChordError,
        SkipClient, TakeClient, SyncClient, InsertClashes, Publish,
        PublishFails, EndTick, CorrelateRaises, LoadDevices, Store,
        DeviceClashes, ExportSucceeds, ExportFails, MarkRead, DatabaseLocked,
        database
  <2>2. \A q \in Procs : CheckHolds(task[q])'
    BY <1>6, <2>1, ApartQuiet
  <2>3. QED
    BY <1>3, <2>1, <2>2
<1>7. ASSUME NEW p \in Procs, InsertRun(p) PROVE Goal
  <2>1. PICK r \in Runs : /\ status[r] = "absent"
                          /\ status' = [status EXCEPT ![r] = "pending"]
                          /\ Become(p, [task[p] EXCEPT !.at = "publish", !.run = r])
    BY <1>7 DEF InsertRun, Unused
  <2>2. UNCHANGED snapshots
    BY <1>7 DEF InsertRun
  <2>3. PICK t : t = [task[p] EXCEPT !.at = "publish", !.run = r]
    OBVIOUS
  <2>4. t.at = "publish" /\ t.abandoned = task[p].abandoned /\ Become(p, t)
    BY <1>1, <2>1, <2>3 DEF Task
  <2>5. t.abandoned \in SUBSET Runs
    BY <1>1, <2>4 DEF Task
  <2>6. CheckHolds(t)'
    BY <1>1, <1>2, <2>1, <2>4, <2>5 DEF CheckHolds, Callback
  <2>7. ASSUME NEW q \in Procs PROVE CheckHolds(task[q])'
    <3>1. CASE q = p
      BY <2>4, <2>6, <3>1, BecomeAt DEF CheckHolds
    <3>2. CASE q # p
      <4>1. task'[q] = task[q] /\ CheckHolds(task[q]) /\ task[q].abandoned \in SUBSET Runs
        BY <1>1, <2>4, <3>2, BecomeAt DEF Task
      <4>2. \A s \in Runs : status[s] # "absent" => status'[s] = status[s]
        BY <1>2, <2>1
      <4>3. task[q].at \in Callback \cup {"mark"} => task[q].run \in Runs
        BY <1>1 DEF Busy, Errback
      <4>4. QED
        BY <4>1, <4>2, <4>3 DEF CheckHolds
    <3>3. QED
      BY <3>1, <3>2
  <2>8. RowsOnce'
    BY <1>2, <2>1, <2>2 DEF ApartInv, RowsOnce
  <2>9. Ledger!Next
    BY <2>1, <2>2 DEF Ledger!Next, Ledger!Open
  <2>10. QED
    BY <2>7, <2>8, <2>9 DEF ApartInv
<1>8. ASSUME NEW p \in Procs, NEW lost \in SUBSET Runs, Fails(p, lost)
      PROVE  Goal
  <2>1. \A r \in lost : status[r] \in {"pending", "failed"}
    BY <1>1, <1>8 DEF Fails, FailRun, MarkWrite, CheckHolds, Callback
  <2>2. ASSUME NEW q \in Procs, q # p, NEW r \in lost PROVE ~Deciding(q, r)
    <3>1. CASE SweepWrite(p)
      BY <1>8, <2>2, <3>1 DEF Fails, SweepWrite, FailRun, MarkWrite, NoOverlap
    <3>2. CASE FailRun(p) \/ MarkWrite(p)
      <4>1. Deciding(p, r)
        BY <1>8, <2>2, <3>2 DEF Fails, SweepWrite, FailRun, MarkWrite, Deciding, Callback
      <4>2. QED
        BY <2>2, <4>1 DEF NoOverlap
    <3>3. QED
      BY <1>8, <3>1, <3>2 DEF Fails
  <2>3. PICK t : Become(p, t) /\ t.abandoned = {} /\ t.at \notin Callback \cup {"mark"}
    <3>1. CASE Finish(p)
      BY <3>1, IdleFields DEF Finish, Callback
    <3>2. CASE SweepWrite(p)
      <4>1. PICK t : t = [task[p] EXCEPT !.at = "dispatch", !.abandoned = {}]
        OBVIOUS
      <4>2. Become(p, t) /\ t.abandoned = {} /\ t.at = "dispatch"
        BY <1>1, <3>2, <4>1 DEF SweepWrite, Task
      <4>3. QED
        BY <4>2 DEF Callback
    <3>3. QED
      BY <1>8, <3>1, <3>2 DEF Fails, FailRun, MarkWrite
  <2>4. \A r \in Runs : status'[r] = IF r \in lost THEN "failed" ELSE status[r]
    BY <1>8 DEF Fails
  <2>5. ASSUME NEW q \in Procs PROVE CheckHolds(task[q])'
    <3>1. CASE q = p
      BY <2>3, <3>1, BecomeAt DEF CheckHolds
    <3>2. CASE q # p
      <4>1. task'[q] = task[q] /\ CheckHolds(task[q]) /\ task[q].abandoned \in SUBSET Runs
        BY <1>1, <2>3, <3>2, BecomeAt DEF Task
      <4>2. task[q].at \in Callback \cup {"mark"} =>
                task[q].run \in Runs /\ task[q].run \notin lost
        BY <1>1, <2>2, <3>2 DEF Deciding, Busy, Errback
      <4>3. QED
        BY <2>4, <4>1, <4>2 DEF CheckHolds
    <3>3. QED
      BY <3>1, <3>2
  <2>6. UNCHANGED snapshots
    BY <1>8 DEF Fails
  <2>7. RowsOnce'
    BY <1>2, <2>1, <2>4, <2>6 DEF ApartInv, RowsOnce, IInv, RunInv
  <2>8. \E open \in SUBSET Runs : Ledger!Fail(open)
    <3>1. PICK open \in SUBSET Runs : open = {r \in lost : status[r] = "pending"}
      OBVIOUS
    <3>2. status' = [r \in Runs |-> IF r \in open THEN "failed" ELSE status[r]]
      <4>1. status' = [r \in Runs |-> IF r \in lost THEN "failed" ELSE status[r]]
        BY <1>8 DEF Fails
      <4>2. \A r \in Runs : (IF r \in lost THEN "failed" ELSE status[r])
                              = (IF r \in open THEN "failed" ELSE status[r])
        BY <2>1, <3>1
      <4>3. QED
        BY <4>1, <4>2
    <3>3. QED
      BY <2>6, <3>1, <3>2 DEF Ledger!Fail
  <2>9. QED
    BY <2>5, <2>7, <2>8 DEF ApartInv, Ledger!Next
<1>9. ASSUME NEW p \in Procs, Commit(p) PROVE Goal
  <2>1. PICK r, rows, outcome :
            /\ r = task[p].run /\ rows = payload[r].rows
            /\ outcome = IF payload[r].allOk THEN "complete" ELSE "partial"
    OBVIOUS
  <2>2. r \in Runs /\ status[r] = "pending"
    BY <1>1, <1>9, <2>1 DEF Commit, CheckHolds, Callback, Busy
  <2>3. rows \in SUBSET Keys /\ outcome \in {"complete", "partial"}
    BY <2>1, <2>2 DEF TypeInv, TypeOK, Payload
  <2>4. \A k \in Keys : snapshots[r][k] = 0
    BY <2>2 DEF IInv, RunInv
  <2>5. [k \in Keys |-> IF k \in rows THEN snapshots[r][k] + 1 ELSE snapshots[r][k]]
            = [k \in Keys |-> IF k \in rows THEN 1 ELSE 0]
    BY <2>4
  <2>6. /\ status' = [status EXCEPT ![r] = outcome]
        /\ snapshots' = [snapshots EXCEPT ![r] =
                            [k \in Keys |-> IF k \in rows THEN 1 ELSE 0]]
    BY <1>9, <2>1, <2>5 DEF Commit
  <2>7. \A q \in Procs : q # p => ~Deciding(q, r) /\ r \notin task[q].abandoned
    BY <1>9, <2>1, <2>2 DEF Commit, Deciding, Callback, NoOverlap
  <2>8. ASSUME NEW q \in Procs PROVE CheckHolds(task[q])'
    <3>1. CASE q = p
      BY <1>9, <3>1, BecomeAt, IdleFields DEF Commit, Finish, CheckHolds, Callback
    <3>2. CASE q # p
      <4>1. task'[q] = task[q] /\ CheckHolds(task[q]) /\ task[q].abandoned \in SUBSET Runs
        BY <1>1, <1>9, <3>2, BecomeAt DEF Commit, Finish, Task
      <4>2. \A s \in Runs \ {r} : status'[s] = status[s]
        BY <1>2, <2>6
      <4>3. task[q].at \in Callback \cup {"mark"} =>
                task[q].run \in Runs /\ task[q].run # r
        BY <1>1, <2>7, <3>2 DEF Deciding, Busy, Errback
      <4>4. QED
        BY <2>7, <3>2, <4>1, <4>2, <4>3 DEF CheckHolds
    <3>3. QED
      BY <3>1, <3>2
  <2>9. RowsOnce'
    <3>1. \A k \in Keys : snapshots'[r][k] = IF k \in rows THEN 1 ELSE 0
      BY <1>2, <2>2, <2>6
    <3>2. status'[r] # "failed"
      BY <1>2, <2>2, <2>3, <2>6
    <3>3. \A s \in Runs \ {r} : status'[s] = status[s] /\ snapshots'[s] = snapshots[s]
      BY <1>2, <2>6
    <3>4. QED
      BY <3>1, <3>2, <3>3 DEF ApartInv, RowsOnce
  <2>10. Ledger!Settle(r, outcome, rows)
    BY <2>2, <2>6 DEF Ledger!Settle
  <2>11. Ledger!Next
    BY <2>2, <2>3, <2>10 DEF Ledger!Next
  <2>12. QED
    BY <2>8, <2>9, <2>11 DEF ApartInv
<1>10. QED
  BY <1>4, <1>5, <1>6, <1>7, <1>8, <1>9, FailForm DEF Next, Proceed

\* The invariants hold together.
LEMMA ApartInvariance == Spec /\ []NoOverlap => [](TypeInv /\ IInv /\ ApartInv)
<1>1. NoOverlap /\ TypeInv /\ IInv /\ ApartInv /\ [Next]_vars => ApartInv'
  BY ApartStep
<1>2. QED
  BY <1>1, TypeInit, IInvInit, ApartInit, TypeStep, IInvStep, PTL DEF Spec

\* persistence.py's promise, as far as it goes: as long as no two processes take
\* up one run, a callback delivered twice stores its rows once.
THEOREM SnapshotsOnceUnlessOverlap == Spec /\ []NoOverlap => []SnapshotsOnce
<1>1. ApartInv => SnapshotsOnce
  BY DEF ApartInv, RowsOnce, SnapshotsOnce
<1>2. QED
  BY <1>1, ApartInvariance, PTL

\* A failed run has no table, as long as no two processes take up one run.
THEOREM FailedHasNoTableUnlessOverlap == Spec /\ []NoOverlap => []FailedHasNoTable
<1>1. ApartInv => FailedHasNoTable
  BY DEF ApartInv, RowsOnce, FailedHasNoTable
<1>2. QED
  BY <1>1, ApartInvariance, PTL

\* Any number of processes keep the run history the ledger describes, every run
\* opened once and finished once, with the whole table of its frame or with none,
\* unless two of them take up one run: nothing else can break the promise.
THEOREM LedgerUnlessOverlap == Spec /\ []NoOverlap => LedgerSpec
<1>1. Init => Ledger!Init
  BY DEF Init, Ledger!Init, Ledger!Empty
<1>2. NoOverlap /\ TypeInv /\ IInv /\ ApartInv /\ [Next]_vars
        => [Ledger!Next]_(Ledger!ledger)
  BY ApartStep
<1>3. QED
  BY <1>1, <1>2, ApartInvariance, PTL DEF Spec, LedgerSpec, Ledger!Spec

\* The ledger's steps leave a failed run failed; hence so do processes that do not
\* overlap.
THEOREM NoRevivalUnlessOverlap == Spec /\ []NoOverlap => NoRevival
<1> DEFINE A == \A r \in Runs : status[r] = "failed" => status'[r] = "failed"
<1>1. TypeInv /\ [Ledger!Next]_(Ledger!ledger) => A
  <2> SUFFICES ASSUME TypeInv, [Ledger!Next]_(Ledger!ledger),
                      NEW r \in Runs, status[r] = "failed"
               PROVE  status'[r] = "failed"
    OBVIOUS
  <2>1. DOMAIN status = Runs
    BY DEF TypeInv, TypeOK
  <2>2. CASE UNCHANGED Ledger!ledger
    BY <2>2 DEF Ledger!ledger
  <2>3. ASSUME NEW s \in Runs, Ledger!Open(s) PROVE status'[r] = "failed"
    BY <2>1, <2>3 DEF Ledger!Open
  <2>4. ASSUME NEW s \in Runs, NEW outcome, NEW rows, Ledger!Settle(s, outcome, rows)
        PROVE  status'[r] = "failed"
    BY <2>1, <2>4 DEF Ledger!Settle
  <2>5. ASSUME NEW lost, Ledger!Fail(lost) PROVE status'[r] = "failed"
    BY <2>5 DEF Ledger!Fail
  <2>6. QED
    BY <2>2, <2>3, <2>4, <2>5 DEF Ledger!Next
<1>2. NoOverlap /\ TypeInv /\ IInv /\ ApartInv /\ [Next]_vars => [A]_vars
  BY <1>1, ApartStep
<1>3. QED
  BY <1>2, ApartInvariance, PTL DEF Spec, NoRevival

\* One process does not overlap with itself.
OneProcess == \A p, q \in Procs : p = q

LEMMA AloneIsApart ==
  ASSUME OneProcess
  PROVE  Spec => []NoOverlap
<1>1. NoOverlap
  BY DEF OneProcess, NoOverlap
<1>2. QED
  BY <1>1, PTL

\* With one process, a callback delivered twice stores its rows once.
THEOREM SnapshotsOnceSerially ==
  ASSUME OneProcess
  PROVE  Spec => []SnapshotsOnce
  BY AloneIsApart, SnapshotsOnceUnlessOverlap, PTL

\* With one process, a failed run has no table.
THEOREM FailedHasNoTableSerially ==
  ASSUME OneProcess
  PROVE  Spec => []FailedHasNoTable
  BY AloneIsApart, FailedHasNoTableUnlessOverlap, PTL

\* One process keeps the run history the ledger describes.
THEOREM LifecycleImplementsLedger ==
  ASSUME OneProcess
  PROVE  Spec => LedgerSpec
  BY AloneIsApart, LedgerUnlessOverlap, PTL

\* With one process, a failed run stays failed.
THEOREM NoRevivalSerially ==
  ASSUME OneProcess
  PROVE  Spec => NoRevival
  BY AloneIsApart, NoRevivalUnlessOverlap, PTL

-----------------------------------------------------------------------------
(***************************************************************************)
(* What the timeout is for.  A run that a sweep selected is old, and stays *)
(* old; so if nobody works on a run that old, and its callback is delivered *)
(* once, nobody overlaps.                                                  *)
(***************************************************************************)

\* The runs a sweep selected are past the timeout.
OldInv == \A p \in Procs : \A r \in task[p].abandoned : age[r] > Timeout

\* Time does not go back.
LEMMA AgesGrow ==
  ASSUME TypeInv, [Next]_vars, NEW r \in Runs
  PROVE  age[r] \in Nat /\ age'[r] \in Nat /\ age'[r] >= age[r]
<1>1. age \in [Runs -> 0..AgeCap] /\ AgeCap \in Nat
  BY DEF TypeInv, TypeOK
<1>2. age[r] \in Nat
  BY <1>1
<1>3. CASE UNCHANGED age
  BY <1>2, <1>3
<1>4. CASE Hour
  <2>1. age'[r] = IF status[r] # "absent" /\ age[r] < AgeCap THEN age[r] + 1 ELSE age[r]
    BY <1>4 DEF Hour
  <2>2. QED
    BY <1>2, <2>1
<1>5. UNCHANGED age \/ Hour
  <2>1. CASE UNCHANGED vars
    BY <2>1 DEF vars
  <2>2. ASSUME NEW s \in Runs, HeaderReturns(s) \/ Redeliver(s) PROVE UNCHANGED age
    BY <2>2 DEF HeaderReturns, Redeliver, database
  <2>3. ASSUME NEW p \in Procs,
               \/ BeatTick(p) \/ CliRun(p) \/ Crash(p) \/ Restart(p)
               \/ \E s \in Runs : CallbackStart(p, s) \/ ChordError(p, s)
        PROVE  UNCHANGED age
    BY <2>3 DEF BeatTick, CliRun, StartTick, Crash, Restart, CallbackStart,
                ChordError, database
  <2>4. ASSUME NEW p \in Procs, Proceed(p) PROVE UNCHANGED age
    BY <2>4 DEF Proceed, SweepWrite, SkipClient, TakeClient, SyncClient, InsertRun,
                InsertClashes, Publish, PublishFails, EndTick, CorrelateRaises,
                FailRun, LoadDevices, Store, DeviceClashes, ExportSucceeds,
                ExportFails, Commit, MarkRead, MarkWrite, DatabaseLocked, database
  <2>5. QED
    BY <2>1, <2>2, <2>3, <2>4 DEF Next
<1>6. QED
  BY <1>3, <1>4, <1>5

\* What a step does to the runs a process has selected: nothing, or they are the
\* ones that are abandoned now.
LEMMA SelectedRuns ==
  ASSUME TypeInv, [Next]_vars, NEW p \in Procs
  PROVE  task'[p].abandoned \in {task[p].abandoned, {}, Abandoned}
<1>1. CASE UNCHANGED task
  BY <1>1
<1>2. ASSUME NEW q \in Procs, NEW t, Become(q, t),
             t.abandoned \in {task[q].abandoned, {}, Abandoned}
      PROVE  task'[p].abandoned \in {task[p].abandoned, {}, Abandoned}
  BY <1>2, BecomeAt
<1>3. ASSUME NEW q \in Procs, Proceed(q)
      PROVE  task'[p].abandoned \in {task[p].abandoned, {}, Abandoned}
  <2>1. PICK t : Become(q, t) /\ Flow(task[q], t)
    BY <1>3, ProceedFlow
  <2>2. t.abandoned \in {task[q].abandoned, {}}
    BY <2>1, IdleFields DEF Flow
  <2>3. QED
    BY <1>2, <2>1, <2>2
<1>4. ASSUME NEW q \in Procs,
             \/ BeatTick(q) \/ CliRun(q) \/ Crash(q) \/ Restart(q)
             \/ \E r \in Runs : CallbackStart(q, r) \/ ChordError(q, r)
      PROVE  task'[p].abandoned \in {task[p].abandoned, {}, Abandoned}
  <2>1. CASE BeatTick(q) \/ CliRun(q)
    BY <1>2, <2>1, OtherFlow
  <2>2. CASE Crash(q) \/ Restart(q)
    BY <1>2, <2>2, OtherFlow, IdleFields
  <2>3. CASE \E r \in Runs : CallbackStart(q, r)
    BY <1>1, <1>2, <2>3, OtherFlow
  <2>4. CASE \E r \in Runs : ChordError(q, r)
    BY <1>2, <2>4, OtherFlow, ErrbackFields
  <2>5. QED
    BY <1>4, <2>1, <2>2, <2>3, <2>4
<1>5. QED
  BY <1>1, <1>3, <1>4 DEF Next, vars, Hour, HeaderReturns, Redeliver

\* Every step keeps them past the timeout.
LEMMA OldStep == TypeInv /\ OldInv /\ [Next]_vars => OldInv'
<1> SUFFICES ASSUME TypeInv, OldInv, [Next]_vars,
                    NEW p \in Procs, NEW r \in task'[p].abandoned
             PROVE  age'[r] > Timeout
  BY DEF OldInv
<1>1. r \in task[p].abandoned \/ r \in Abandoned
  BY SelectedRuns
<1>2. r \in Runs
  BY <1>1 DEF Abandoned, TypeInv, ProperTask, Task
<1>3. age[r] > Timeout
  BY <1>1 DEF OldInv, Abandoned
<1>4. QED
  BY <1>2, <1>3, AgesGrow

\* Nothing is selected in the beginning.
LEMMA OldInit == Init => OldInv
  BY IdleFields DEF Init, OldInv

\* A sweep writes after it has selected, and whatever happened to a run in between,
\* it never fails one that is younger than the timeout.
SweepsOnlyOld ==
    [][\A p \in Procs, r \in Runs :
            SweepWrite(p) /\ status'[r] # status[r] => age[r] > Timeout]_vars

\* For any number of processes (persistence.fail_abandoned_runs).
THEOREM SweepsAreLate == Spec => SweepsOnlyOld
<1> DEFINE A == \A p \in Procs, r \in Runs :
                    SweepWrite(p) /\ status'[r] # status[r] => age[r] > Timeout
<1>1. OldInv => A
  BY DEF OldInv, SweepWrite
<1>2. OldInv /\ [Next]_vars => [A]_vars
  BY <1>1
<1>3. QED
  BY <1>2, TypeInit, TypeStep, OldInit, OldStep, PTL DEF Spec, SweepsOnlyOld

\* The processes at work for a run's callback or error callback.
Serving(r) == {p \in Procs : task[p].at \in Callback \cup Errback /\ task[p].run = r}

\* With one delivery per callback, a run has one process at work at most: its callback
\* and then that callback's error callback, or the error callback of a chord that broke.
ServeInv ==
    \A r \in Runs :
        /\ copies[r] + deliveries[r] <= 1
        /\ chord[r] # "returned" => copies[r] = 0 /\ deliveries[r] = 0
        /\ \A p \in Serving(r) : \/ chord[r] = "broken"
                                 \/ chord[r] = "returned" /\ deliveries[r] = 1
        /\ \A p, q \in Serving(r) : p = q

\* Nothing is delivered and nobody works in the beginning.
LEMMA ServeInit == Init => ServeInv
<1> SUFFICES ASSUME Init PROVE ServeInv
  OBVIOUS
<1>1. \A r \in Runs : Serving(r) = {}
  BY IdleFields DEF Init, Serving, Busy
<1>2. QED
  BY <1>1 DEF Init, ServeInv

\* A step by which nobody joins the processes at work and nothing is delivered.
LEMMA ServeKept ==
  ASSUME ServeInv, UNCHANGED <<copies, deliveries>>,
         \A r \in Runs : Serving(r)' \subseteq Serving(r),
         \A r \in Runs : \/ chord'[r] = chord[r]
                         \/ chord[r] = "unsent" /\ chord'[r] = "collecting"
  PROVE  ServeInv'
  BY DEF ServeInv

\* A process that goes on serves nobody it did not serve.
LEMMA NobodyServes ==
  ASSUME TypeInv, NEW p \in Procs, NEW t, Become(p, t),
         t.at \in Callback \cup Errback =>
            t.run = task[p].run /\ task[p].at \in Callback \cup Errback
  PROVE  \A r \in Runs : Serving(r)' \subseteq Serving(r)
  BY BecomeAt DEF Serving

\* A process starts to serve run s.
LEMMA OneServes ==
  ASSUME TypeInv, NEW p \in Procs, NEW t, Become(p, t), NEW s \in Runs, t.run = s
  PROVE  /\ Serving(s)' \subseteq Serving(s) \cup {p}
         /\ \A r \in Runs \ {s} : Serving(r)' \subseteq Serving(r)
  BY BecomeAt DEF Serving

\* Each step keeps the invariant, if the broker delivers each callback once.
LEMMA ServeStep ==
  ASSUME MaxDeliveries <= 1, TypeInv, IInv, ServeInv, [Next]_vars
  PROVE  ServeInv'
<1>1. /\ copies \in [Runs -> Nat] /\ deliveries \in [Runs -> Nat]
      /\ DOMAIN chord = Runs /\ MaxDeliveries \in Nat
  BY DEF TypeInv, TypeOK
<1>2. CASE UNCHANGED <<copies, deliveries, chord, task>>
  BY <1>2, ServeKept DEF Serving
<1>3. ASSUME NEW r \in Runs, HeaderReturns(r) PROVE ServeInv'
  <2>1. /\ chord[r] = "collecting" /\ chord' = [chord EXCEPT ![r] = "returned"]
        /\ copies' = [copies EXCEPT ![r] = 1]
        /\ UNCHANGED <<deliveries, task>>
    BY <1>3 DEF HeaderReturns
  <2>2. \A s \in Runs : Serving(s)' = Serving(s)
    BY <2>1 DEF Serving
  <2>3. Serving(r) = {} /\ deliveries[r] = 0
    BY <2>1 DEF ServeInv
  <2>4. /\ chord'[r] = "returned" /\ copies'[r] = 1 /\ deliveries'[r] = 0
        /\ \A s \in Runs \ {r} : /\ chord'[s] = chord[s] /\ copies'[s] = copies[s]
                                 /\ deliveries'[s] = deliveries[s]
    BY <1>1, <2>1, <2>3
  <2>5. QED
    BY <2>2, <2>3, <2>4 DEF ServeInv
<1>4. ASSUME NEW r \in Runs, Redeliver(r) PROVE ServeInv'
  <2>1. /\ chord[r] = "returned" /\ copies[r] + deliveries[r] < MaxDeliveries
        /\ copies' = [copies EXCEPT ![r] = @ + 1]
        /\ UNCHANGED <<chord, deliveries, task>>
    BY <1>4 DEF Redeliver
  <2>2. \A s \in Runs : Serving(s)' = Serving(s)
    BY <2>1 DEF Serving
  <2>3. copies[r] = 0 /\ deliveries[r] = 0
    BY <1>1, <2>1
  <2>4. QED
    BY <1>1, <2>1, <2>2, <2>3 DEF ServeInv
<1>5. ASSUME NEW p \in Procs, NEW r \in Runs, CallbackStart(p, r) PROVE ServeInv'
  <2>1. /\ copies[r] > 0
        /\ copies' = [copies EXCEPT ![r] = @ - 1]
        /\ deliveries' = [deliveries EXCEPT ![r] = @ + 1]
        /\ UNCHANGED chord
    BY <1>5 DEF CallbackStart
  <2>2. copies[r] = 1 /\ deliveries[r] = 0
    <3>1. copies[r] + deliveries[r] <= 1
      BY DEF ServeInv
    <3>2. copies[r] \in Nat /\ deliveries[r] \in Nat
      BY <1>1
    <3>3. QED
      BY <2>1, <3>1, <3>2
  <2>3. chord[r] = "returned" /\ Serving(r) = {}
    BY <1>1, <2>2 DEF ServeInv
  <2>4. /\ Serving(r)' \subseteq {p}
        /\ \A s \in Runs \ {r} : Serving(s)' \subseteq Serving(s)
    BY <1>5, <2>3, OtherFlow, OneServes DEF Serving
  <2>5. /\ copies'[r] = 0 /\ deliveries'[r] = 1
        /\ \A s \in Runs \ {r} : copies'[s] = copies[s] /\ deliveries'[s] = deliveries[s]
    BY <1>1, <2>1, <2>2
  <2>6. QED
    BY <2>1, <2>3, <2>4, <2>5 DEF ServeInv
<1>6. ASSUME NEW p \in Procs, NEW r \in Runs, ChordError(p, r) PROVE ServeInv'
  <2>1. /\ chord[r] = "collecting" /\ chord' = [chord EXCEPT ![r] = "broken"]
        /\ UNCHANGED <<copies, deliveries>>
    BY <1>6 DEF ChordError
  <2>2. Serving(r) = {} /\ copies[r] = 0 /\ deliveries[r] = 0
    BY <2>1 DEF ServeInv
  <2>3. /\ Serving(r)' \subseteq {p}
        /\ \A s \in Runs \ {r} : Serving(s)' \subseteq Serving(s)
    BY <1>6, <2>2, OtherFlow, ErrbackFields, OneServes
  <2>4. chord'[r] = "broken" /\ \A s \in Runs \ {r} : chord'[s] = chord[s]
    BY <1>1, <2>1
  <2>5. QED
    BY <2>1, <2>2, <2>3, <2>4 DEF ServeInv
<1>7. ASSUME NEW p \in Procs, BeatTick(p) \/ CliRun(p) \/ Crash(p) \/ Restart(p)
      PROVE  ServeInv'
  <2>1. UNCHANGED <<copies, deliveries, chord>>
    BY <1>7 DEF BeatTick, CliRun, StartTick, Crash, Restart, broker
  <2>2. \E t : Become(p, t) /\ t.at \in {"sweep", "down", "idle"}
    BY <1>7, OtherFlow, IdleFields
  <2>3. \A r \in Runs : Serving(r)' \subseteq Serving(r)
    BY <2>2, NobodyServes DEF Callback, Errback
  <2>4. QED
    BY <2>1, <2>3, ServeKept
<1>8. ASSUME NEW p \in Procs, Proceed(p) PROVE ServeInv'
  <2>1. PICK t : Become(p, t) /\ Flow(task[p], t)
    BY <1>8, ProceedFlow
  <2>2. t.at \in Callback \cup Errback =>
            t.run = task[p].run /\ task[p].at \in Callback \cup Errback
    BY <2>1, IdleFields DEF Flow, Callback, Errback
  <2>3. \A r \in Runs : Serving(r)' \subseteq Serving(r)
    BY <2>1, <2>2, NobodyServes
  <2>4. UNCHANGED <<copies, deliveries>>
    BY <1>8 DEF Proceed, SweepWrite, SkipClient, TakeClient, SyncClient, InsertRun,
                InsertClashes, Publish, PublishFails, EndTick, CorrelateRaises,
                FailRun, LoadDevices, Store, DeviceClashes, ExportSucceeds,
                ExportFails, Commit, MarkRead, MarkWrite, DatabaseLocked, broker
  <2>5. CASE Publish(p)
    <3>1. task[p].run \in Runs /\ chord[task[p].run] = "unsent"
      BY <2>5, BusyTask DEF Publish, At, Busy, IInv, TaskInv
    <3>2. chord' = [chord EXCEPT ![task[p].run] = "collecting"]
      BY <2>5 DEF Publish
    <3>3. QED
      BY <1>1, <2>3, <2>4, <3>1, <3>2, ServeKept
  <2>6. CASE UNCHANGED chord
    BY <2>3, <2>4, <2>6, ServeKept
  <2>7. QED
    BY <1>8, <2>5, <2>6
       DEF Proceed, SweepWrite, SkipClient, TakeClient, SyncClient, InsertRun,
           InsertClashes, PublishFails, EndTick, CorrelateRaises,
           FailRun, LoadDevices, Store, DeviceClashes, ExportSucceeds,
           ExportFails, Commit, MarkRead, MarkWrite, DatabaseLocked, broker
<1>9. QED
  BY <1>2, <1>3, <1>4, <1>5, <1>6, <1>7, <1>8 DEF Next, vars, Hour, broker

\* The invariants exclude an overlap.
LEMMA GenerousIsApart ==
  ASSUME TypeInv, ApartInv, OldInv, ServeInv, TimeoutIsGenerous
  PROVE  NoOverlap
<1> SUFFICES ASSUME NEW p \in Procs, NEW q \in Procs, NEW r \in Runs,
                    p # q, Deciding(p, r)
             PROVE  ~Deciding(q, r) /\ r \notin task[q].abandoned
  BY DEF NoOverlap
<1>1. ~Deciding(q, r)
  <2>1. \A s \in Procs : Deciding(s, r) => s \in Serving(r)
    BY DEF Deciding, Serving, Errback
  <2>2. QED
    BY <2>1 DEF ServeInv
<1>2. ASSUME r \in task[q].abandoned PROVE FALSE
  <2>1. age[r] > Timeout
    BY <1>2 DEF OldInv
  <2>2. status[r] = "pending"
    BY DEF ApartInv, CheckHolds, Deciding
  <2>3. QED
    BY <2>1, <2>2 DEF TimeoutIsGenerous, Abandoned
<1>3. QED
  BY <1>1, <1>2

\* What the timeout and the broker have to be like for the history to be kept: with
\* any number of processes, if each callback is delivered once and nobody is still
\* at work on a run when it is old enough to be swept, nobody overlaps.
THEOREM TimeoutPreventsOverlap ==
  ASSUME MaxDeliveries <= 1
  PROVE  Spec /\ []TimeoutIsGenerous => []NoOverlap
<1> DEFINE Inv == TypeInv /\ IInv /\ ApartInv /\ OldInv /\ ServeInv
<1>1. Init => Inv
  BY TypeInit, IInvInit, ApartInit, OldInit, ServeInit
<1>2. Inv /\ TimeoutIsGenerous => NoOverlap
  BY GenerousIsApart
<1>3. Inv /\ TimeoutIsGenerous /\ [Next]_vars => Inv'
  BY <1>2, TypeStep, IInvStep, ApartStep, OldStep, ServeStep
<1>4. QED
  BY <1>1, <1>2, <1>3, PTL DEF Spec

\* Then they keep the ledger.
THEOREM LedgerWithGenerousTimeout ==
  ASSUME MaxDeliveries <= 1
  PROVE  Spec /\ []TimeoutIsGenerous => LedgerSpec
  BY TimeoutPreventsOverlap, LedgerUnlessOverlap, PTL

\* If each callback is delivered once, no row is stored twice, however many
\* processes there are and whenever they sweep.
THEOREM SnapshotsOnceIfDeliveredOnce ==
  ASSUME MaxDeliveries <= 1
  PROVE  Spec => []SnapshotsOnce
<1>1. TypeInv /\ ServeInv /\ OncePerDelivery => SnapshotsOnce
  <2> SUFFICES ASSUME TypeInv, ServeInv, OncePerDelivery, NEW r \in Runs, NEW k \in Keys
               PROVE  snapshots[r][k] <= 1
    BY DEF SnapshotsOnce
  <2>1. copies[r] \in Nat
    BY DEF TypeInv, TypeOK
  <2>2. QED
    BY <2>1, CountsAreNatural DEF ServeInv, OncePerDelivery
<1>2. TypeInv /\ IInv /\ ServeInv /\ [Next]_vars => ServeInv'
  BY ServeStep
<1>3. QED
  BY <1>1, <1>2, TypeInit, TypeStep, IInvInit, IInvStep, ServeInit, DeliveriesPay,
     PTL DEF Spec

\* A process that has still to write for a run found it pending before the step or
\* finds it pending now.
LEMMA WhoDecides ==
  ASSUME TypeInv, [Next]_vars, NEW p \in Procs, NEW r \in Runs, Deciding(p, r)'
  PROVE  Deciding(p, r) \/ status[r] = "pending"
<1> USE DEF At
<1>1. task'[p].at \in Callback \cup {"mark"} /\ task'[p].run = r
  BY DEF Deciding
<1>2. CASE task'[p] = task[p]
  BY <1>1, <1>2 DEF Deciding
<1>3. ASSUME NEW q \in Procs, NEW t, Become(q, t), task'[p] # task[p]
      PROVE  q = p /\ task'[p] = t
  BY <1>3, BecomeAt
<1>4. ASSUME task'[p] # task[p], NEW q \in Procs,
             \/ BeatTick(q) \/ CliRun(q) \/ Crash(q) \/ Restart(q)
             \/ \E s \in Runs : CallbackStart(q, s) \/ ChordError(q, s)
      PROVE  status[r] = "pending"
  <2>1. CASE BeatTick(q) \/ CliRun(q)
    BY <1>1, <1>3, <1>4, <2>1, OtherFlow DEF Callback
  <2>2. CASE Crash(q) \/ Restart(q)
    BY <1>1, <1>3, <1>4, <2>2, OtherFlow, IdleFields DEF Callback
  <2>3. ASSUME NEW s \in Runs, CallbackStart(q, s) PROVE status[r] = "pending"
    BY <1>1, <1>3, <1>4, <2>3, OtherFlow
  <2>4. CASE \E s \in Runs : ChordError(q, s)
    BY <1>1, <1>3, <1>4, <2>4, OtherFlow, ErrbackFields DEF Callback
  <2>5. QED
    BY <1>4, <2>1, <2>2, <2>3, <2>4
<1>5. ASSUME task'[p] # task[p], NEW q \in Procs, Proceed(q)
      PROVE  Deciding(p, r) \/ status[r] = "pending"
  <2>1. PICK t : Become(q, t) /\ Flow(task[q], t)
    BY <1>5, ProceedFlow
  <2>2. q = p /\ t = task'[p]
    BY <1>3, <1>5, <2>1
  <2>3. /\ task[p].at \in {"correlate", "store", "export", "errback"}
        /\ task[p].run = r
        /\ task[p].at = "errback" => t.at = "mark"
    BY <1>1, <2>1, <2>2, IdleFields DEF Flow, Callback
  <2>4. CASE task[p].at = "errback"
    <3>1. MarkRead(p)
      BY <1>5, <2>2, <2>4
         DEF Proceed, SweepWrite, SkipClient, TakeClient, SyncClient, InsertRun,
             InsertClashes, Publish, PublishFails, EndTick, CorrelateRaises,
             FailRun, LoadDevices, Store, DeviceClashes, ExportSucceeds,
             ExportFails, Commit, MarkWrite, DatabaseLocked
    <3>2. ~Finish(p)
      BY <1>1, <1>3, <1>5, IdleFields DEF Finish, Callback
    <3>3. QED
      BY <2>3, <3>1, <3>2 DEF MarkRead
  <2>5. CASE task[p].at # "errback"
    BY <2>3, <2>5 DEF Deciding, Callback
  <2>6. QED
    BY <2>4, <2>5
<1>6. QED
  BY <1>2, <1>4, <1>5 DEF Next, vars, Hour, HeaderReturns, Redeliver

\* Whoever has still to write for a run that is not past the timeout finds it pending.
YoungInv ==
    \A p \in Procs, r \in Runs :
        Deciding(p, r) /\ age[r] <= Timeout => status[r] = "pending"

\* A step writes the row of such a run only if it is new, or if a process that found
\* it pending, and still does, ends its task with that.
LEMMA YoungRows ==
  ASSUME TypeInv, OldInv, YoungInv, [Next]_vars,
         NEW r \in Runs, age[r] <= Timeout, status'[r] # status[r]
  PROVE  \/ status[r] = "absent"
         \/ /\ status[r] = "pending"
            /\ \E p \in Procs : Deciding(p, r) /\ Finish(p)
<1> USE DEF At
<1>1. DOMAIN status = Runs
  BY DEF TypeInv, TypeOK
<1>2. ASSUME NEW p \in Procs, InsertRun(p) PROVE status[r] = "absent"
  BY <1>1, <1>2 DEF InsertRun, Unused
<1>3. ASSUME NEW p \in Procs, Deciding(p, r), Finish(p)
      PROVE  /\ status[r] = "pending"
             /\ \E q \in Procs : Deciding(q, r) /\ Finish(q)
  BY <1>3 DEF YoungInv
<1>4. ASSUME NEW p \in Procs, NEW lost \in SUBSET Runs, Fails(p, lost)
      PROVE  /\ status[r] = "pending"
             /\ \E q \in Procs : Deciding(q, r) /\ Finish(q)
  <2>1. r \in lost
    BY <1>4 DEF Fails
  <2>2. ~SweepWrite(p)
    <3> SUFFICES ASSUME SweepWrite(p) PROVE FALSE
      OBVIOUS
    <3>1. r \in task[p].abandoned
      BY <1>4, <2>1 DEF Fails, SweepWrite, FailRun, MarkWrite
    <3>2. age[r] > Timeout /\ age[r] \in Nat /\ Timeout \in Nat
      BY <3>1, AgesGrow, ConstantsAssumption DEF OldInv
    <3>3. QED
      BY <3>2
  <2>3. Deciding(p, r) /\ Finish(p)
    BY <1>4, <2>1, <2>2 DEF Fails, FailRun, MarkWrite, Deciding, Callback
  <2>4. QED
    BY <1>3, <2>3
<1>5. ASSUME NEW p \in Procs, Commit(p)
      PROVE  /\ status[r] = "pending"
             /\ \E q \in Procs : Deciding(q, r) /\ Finish(q)
  <2>1. task[p].run = r
    BY <1>1, <1>5 DEF Commit
  <2>2. Deciding(p, r) /\ Finish(p)
    BY <1>5, <2>1 DEF Commit, Deciding, Callback
  <2>3. QED
    BY <1>3, <2>2
<1>6. QED
  BY <1>2, <1>4, <1>5, StatusStep

\* Each step keeps it, because only one process works for a run.
LEMMA YoungStep ==
  ASSUME TypeInv, OldInv, ServeInv, YoungInv, [Next]_vars
  PROVE  YoungInv'
<1> SUFFICES ASSUME NEW p \in Procs, NEW r \in Runs,
                    Deciding(p, r)', age'[r] <= Timeout
             PROVE  status'[r] = "pending"
  BY DEF YoungInv
<1>1. age[r] <= Timeout
  BY AgesGrow, ConstantsAssumption
<1>2. status[r] = "pending"
  BY <1>1, WhoDecides DEF YoungInv
<1>3. ASSUME NEW q \in Procs, Deciding(q, r), Finish(q) PROVE FALSE
  <2>1. CASE q = p
    BY <1>3, <2>1, BecomeAt, IdleFields DEF Finish, Deciding, Callback
  <2>2. CASE q # p
    <3>1. Deciding(p, r)
      BY <1>3, <2>2, BecomeAt DEF Finish, Deciding
    <3>2. p \in Serving(r) /\ q \in Serving(r)
      BY <1>3, <3>1 DEF Deciding, Serving, Errback
    <3>3. QED
      BY <2>2, <3>2 DEF ServeInv
  <2>3. QED
    BY <2>1, <2>2
<1>4. QED
  BY <1>1, <1>2, <1>3, YoungRows

\* Nobody has to write anything in the beginning.
LEMMA YoungInit == Init => YoungInv
  BY IdleFields DEF Init, YoungInv, Deciding, Callback

\* If each callback is delivered once, a run's outcome is final until it is past the
\* timeout: only a sweep that selected it before its callback finished, and so not
\* before then, can overwrite it.
THEOREM YoungRunsStayFinished ==
  ASSUME MaxDeliveries <= 1
  PROVE  Spec => YoungStaysFinished
<1> DEFINE Inv == TypeInv /\ IInv /\ OldInv /\ ServeInv /\ YoungInv
           A == \A r \in Runs : status[r] \in Finished /\ age[r] <= Timeout =>
                                    status'[r] = status[r]
<1>1. Init => Inv
  BY TypeInit, IInvInit, OldInit, ServeInit, YoungInit
<1>2. Inv /\ [Next]_vars => Inv'
  BY TypeStep, IInvStep, OldStep, ServeStep, YoungStep
<1>3. Inv /\ [Next]_vars => [A]_vars
  BY YoungRows DEF Finished
<1>4. QED
  BY <1>1, <1>2, <1>3, PTL DEF Spec, YoungStaysFinished

-----------------------------------------------------------------------------
(***************************************************************************)
(* What breaks "a failed run sends nothing".  The summary of a run whose   *)
(* commit never comes is in Splunk; besides an overlap, only a kill between *)
(* Splunk's answer and the commit is such a case.                          *)
(***************************************************************************)

\* A callback has called Splunk and commits next.
Committing(r) == \E p \in Procs : task[p].at = "commit" /\ task[p].run = r

\* Every summary is of a run that has a table, or will have one by the next step of
\* its callback.
SentInv ==
    \A r \in Runs : summaries[r] > 0 =>
        status[r] \in {"complete", "partial"} \/ Committing(r)

\* No step takes a process away from its commit but the commit, if it is not killed.
LEMMA CommitComes ==
  ASSUME TypeInv, [Next]_vars, NEW p \in Procs, task[p].at = "commit", ~Crash(p)
  PROVE  task'[p] = task[p] \/ Commit(p)
<1>1. CASE UNCHANGED task
  BY <1>1
<1>2. ASSUME NEW q \in Procs, q # p, NEW t, Become(q, t) PROVE task'[p] = task[p]
  BY <1>2, BecomeAt
<1>3. ASSUME NEW q \in Procs, Proceed(q) PROVE task'[p] = task[p] \/ Commit(p)
  <2>1. CASE q # p
    BY <1>2, <1>3, <2>1, ProceedFlow
  <2>2. CASE q = p
    BY <1>3, <2>2
       DEF Proceed, At, SweepWrite, SkipClient, TakeClient, SyncClient, InsertRun,
           InsertClashes, Publish, PublishFails, EndTick, CorrelateRaises,
           FailRun, LoadDevices, Store, DeviceClashes, ExportSucceeds,
           ExportFails, MarkRead, MarkWrite, DatabaseLocked
  <2>3. QED
    BY <2>1, <2>2
<1>4. ASSUME NEW q \in Procs,
             \/ BeatTick(q) \/ CliRun(q) \/ Crash(q) \/ Restart(q)
             \/ \E r \in Runs : CallbackStart(q, r) \/ ChordError(q, r)
      PROVE  task'[p] = task[p]
  <2>1. CASE Crash(q)
    BY <1>2, <2>1, OtherFlow
  <2>2. CASE BeatTick(q) \/ CliRun(q) \/ Restart(q)
    BY <1>2, <2>2, OtherFlow
  <2>3. CASE \E r \in Runs : CallbackStart(q, r) \/ ChordError(q, r)
    BY <1>1, <1>2, <2>3, OtherFlow
  <2>4. QED
    BY <1>4, <2>1, <2>2, <2>3
<1>5. QED
  BY <1>1, <1>3, <1>4 DEF Next, vars, Hour, HeaderReturns, Redeliver

\* Only a callback's export adds a summary.
LEMMA SummariesStep ==
  ASSUME [Next]_vars
  PROVE  UNCHANGED summaries \/ \E p \in Procs : ExportSucceeds(p)
<1>1. CASE UNCHANGED vars \/ Hour \/ \E r \in Runs : HeaderReturns(r) \/ Redeliver(r)
  BY <1>1 DEF vars, Hour, HeaderReturns, Redeliver
<1>2. ASSUME NEW p \in Procs,
             \/ BeatTick(p) \/ CliRun(p) \/ Crash(p) \/ Restart(p)
             \/ \E r \in Runs : CallbackStart(p, r) \/ ChordError(p, r)
      PROVE  UNCHANGED summaries
  BY <1>2 DEF BeatTick, CliRun, StartTick, Crash, Restart, CallbackStart, ChordError
<1>3. ASSUME NEW p \in Procs, Proceed(p)
      PROVE  UNCHANGED summaries \/ ExportSucceeds(p)
  BY <1>3 DEF Proceed, SweepWrite, SkipClient, TakeClient, SyncClient, InsertRun,
              InsertClashes, Publish, PublishFails, EndTick, CorrelateRaises,
              FailRun, LoadDevices, Store, DeviceClashes,
              ExportFails, Commit, MarkRead, MarkWrite, DatabaseLocked
<1>4. QED
  BY <1>1, <1>2, <1>3 DEF Next

\* A run with a table keeps one, unless there is an overlap.
LEMMA TableStays ==
  ASSUME TypeInv, ApartInv, [Next]_vars,
         NEW r \in Runs, status[r] \in {"complete", "partial"}
  PROVE  status'[r] \in {"complete", "partial"}
<1>1. DOMAIN status = Runs
  BY DEF TypeInv, TypeOK
<1>2. CASE UNCHANGED <<status, snapshots>>
  BY <1>2
<1>3. ASSUME NEW p \in Procs, InsertRun(p) PROVE status'[r] = status[r]
  BY <1>1, <1>3 DEF InsertRun, Unused
<1>4. ASSUME NEW p \in Procs, NEW lost \in SUBSET Runs, Fails(p, lost)
      PROVE  status'[r] = status[r]
  <2>1. \A s \in lost : status[s] \in {"pending", "failed"}
    BY <1>4 DEF Fails, SweepWrite, FailRun, MarkWrite, At, ApartInv, CheckHolds, Callback
  <2>2. QED
    BY <1>4, <2>1 DEF Fails
<1>5. ASSUME NEW p \in Procs, Commit(p) PROVE status'[r] \in {"complete", "partial"}
  BY <1>1, <1>5 DEF Commit
<1>6. QED
  BY <1>2, <1>3, <1>4, <1>5, StatusStep

\* A step that does not kill a process before its commit keeps the invariant.
LEMMA SentStep ==
  ASSUME TypeInv, ApartInv, SentInv, [Next]_vars,
         \A p \in Procs : ~(Crash(p) /\ At(p, "commit"))
  PROVE  SentInv'
<1> SUFFICES ASSUME NEW r \in Runs, summaries'[r] > 0
             PROVE  status'[r] \in {"complete", "partial"} \/ Committing(r)'
  BY DEF SentInv
<1>1. CASE summaries[r] > 0
  <2>1. CASE status[r] \in {"complete", "partial"}
    BY <2>1, TableStays
  <2>2. CASE Committing(r)
    <3>1. PICK p \in Procs : task[p].at = "commit" /\ task[p].run = r
      BY <2>2 DEF Committing
    <3>2. task'[p] = task[p] \/ Commit(p)
      BY <3>1, CommitComes DEF At
    <3>3. CASE task'[p] = task[p]
      BY <3>1, <3>3 DEF Committing
    <3>4. CASE Commit(p)
      <4>1. DOMAIN status = Runs
        BY DEF TypeInv, TypeOK
      <4>2. QED
        BY <3>1, <3>4, <4>1 DEF Commit
    <3>5. QED
      BY <3>2, <3>3, <3>4
  <2>3. QED
    BY <1>1, <2>1, <2>2 DEF SentInv
<1>2. CASE ~(summaries[r] > 0)
  <2>1. PICK p \in Procs : ExportSucceeds(p)
    BY <1>2, SummariesStep
  <2>2. PICK t : Become(p, t) /\ t.at = "commit" /\ t.run = task[p].run
    BY <2>1, GotoFields DEF ExportSucceeds
  <2>3. task[p].run = r
    BY <1>2, <2>1 DEF ExportSucceeds, TypeInv, TypeOK
  <2>4. QED
    BY <2>2, <2>3, BecomeAt DEF Committing
<1>3. QED
  BY <1>1, <1>2

\* "A FAILED run ... sends nothing" (docs/architecture.md) holds, for any number of
\* processes, as long as no two take up one run and none is killed between Splunk's
\* answer and its commit.
THEOREM FailedSendsNothingUnlessKilled ==
  Spec /\ []NoOverlap /\ CommitSurvives => []FailedSendsNothing
<1>1. Init => SentInv
  BY DEF Init, SentInv
<1>2. /\ TypeInv /\ ApartInv /\ SentInv /\ [Next]_vars
      /\ [\A p \in Procs : ~(Crash(p) /\ At(p, "commit"))]_vars
      => SentInv'
  <2> SUFFICES ASSUME TypeInv, ApartInv, SentInv, [Next]_vars,
                      [\A p \in Procs : ~(Crash(p) /\ At(p, "commit"))]_vars
               PROVE  SentInv'
    OBVIOUS
  <2>1. CASE UNCHANGED vars
    BY <2>1 DEF vars, SentInv, Committing
  <2>2. CASE \A p \in Procs : ~(Crash(p) /\ At(p, "commit"))
    BY <2>2, SentStep
  <2>3. QED
    BY <2>1, <2>2
<1>3. TypeInv /\ ApartInv /\ SentInv => FailedSendsNothing
  <2> SUFFICES ASSUME TypeInv, ApartInv, SentInv, NEW r \in Runs, status[r] = "failed"
               PROVE  summaries[r] = 0
    BY DEF FailedSendsNothing
  <2>1. ~Committing(r)
    BY DEF Committing, ApartInv, CheckHolds, Callback
  <2>2. QED
    BY <2>1, CountsAreNatural DEF SentInv
<1>4. QED
  BY <1>1, <1>2, <1>3, ApartInvariance, PTL DEF Spec, CommitSurvives

-----------------------------------------------------------------------------
(***************************************************************************)
(* The cadence check.  It is two transactions before the insertion; only   *)
(* another tick that inserts a run of the same client comes in between.    *)
(***************************************************************************)

\* A process on the way from the check of a client to its insertion.
Chosen(t) == t.at \in {"sync", "insert"}

\* Only an insertion gives a run a row.
LEMMA RowsAppear ==
  ASSUME TypeInv, IInv, [Next]_vars, NEW r \in Runs, status[r] = "absent"
  PROVE  \/ status'[r] = "absent"
         \/ \E p \in Procs : InsertRun(p) /\ IsNext(p, ClientOf[r])
<1>1. DOMAIN status = Runs
  BY DEF TypeInv, TypeOK
<1>2. CASE UNCHANGED <<status, snapshots>>
  BY <1>2
<1>3. ASSUME NEW p \in Procs, InsertRun(p)
      PROVE  status'[r] = "absent" \/ IsNext(p, ClientOf[r])
  BY <1>1, <1>3 DEF InsertRun, Unused
<1>4. ASSUME NEW p \in Procs, NEW lost \in SUBSET Runs, Fails(p, lost)
      PROVE  status'[r] = "absent"
  <2>1. r \notin lost
    BY <1>4 DEF Fails, SweepWrite, FailRun, MarkWrite, At, IInv, TaskInv,
                Busy, Callback, Errback
  <2>2. QED
    BY <1>4, <2>1 DEF Fails
<1>5. ASSUME NEW p \in Procs, Commit(p) PROVE status'[r] = "absent"
  BY <1>1, <1>5 DEF Commit, At, IInv, TaskInv, Busy, Callback
<1>6. QED
  BY <1>2, <1>3, <1>4, <1>5, StatusStep

\* A client stays due until a run of it is inserted.
LEMMA StaysDue ==
  ASSUME TypeInv, IInv, [Next]_vars, NEW c \in Clients, ClientIsDue(c),
         \A p \in Procs : ~(InsertRun(p) /\ IsNext(p, c))
  PROVE  ClientIsDue(c)'
<1> SUFFICES ASSUME NEW r \in Runs, status'[r] # "absent", ClientOf[r] = c
             PROVE  age'[r] >= Interval
  BY DEF ClientIsDue
<1>1. status[r] # "absent"
  BY RowsAppear
<1>2. age[r] >= Interval
  BY <1>1 DEF ClientIsDue
<1>3. QED
  BY <1>2, AgesGrow

\* A process comes nearer to an insertion by taking the client or by looking for its
\* row; it keeps its list and its `force` argument.
LEMMA WhoChooses ==
  ASSUME TypeInv, [Next]_vars, NEW p \in Procs,
         Chosen(task'[p]), task'[p] # task[p]
  PROVE  /\ TakeClient(p) \/ SyncClient(p)
         /\ task'[p].todo = task[p].todo /\ task'[p].force = task[p].force
<1> USE DEF At
<1>1. task[p] \in Task
  BY DEF TypeInv, ProperTask
<1>2. task # task'
  OBVIOUS
<1>3. ASSUME NEW q \in Procs, NEW t, Become(q, t) PROVE q = p /\ task'[p] = t
  BY <1>3, BecomeAt
<1>4. ASSUME NEW q \in Procs,
             \/ BeatTick(q) \/ CliRun(q) \/ Crash(q) \/ Restart(q)
             \/ \E r \in Runs : CallbackStart(q, r) \/ ChordError(q, r)
      PROVE  FALSE
  <2>1. PICK t : Become(q, t) /\ ~Chosen(t)
    <3>1. CASE BeatTick(q) \/ CliRun(q)
      BY <3>1, OtherFlow DEF Chosen
    <3>2. CASE Crash(q) \/ Restart(q)
      BY <3>2, OtherFlow, IdleFields DEF Chosen
    <3>3. CASE \E r \in Runs : CallbackStart(q, r)
      BY <1>2, <3>3, OtherFlow DEF Chosen
    <3>4. CASE \E r \in Runs : ChordError(q, r)
      BY <3>4, OtherFlow, ErrbackFields DEF Chosen
    <3>5. QED
      BY <1>4, <3>1, <3>2, <3>3, <3>4
  <2>2. QED
    BY <1>3, <2>1
<1>5. ASSUME NEW q \in Procs, Proceed(q) PROVE TakeClient(p) \/ SyncClient(p)
  <2>1. PICK t : Become(q, t) /\ Flow(task[q], t)
    BY <1>5, ProceedFlow
  <2>2. q = p /\ task'[p] = t
    BY <1>3, <2>1
  <2>3. task[p].at \in {"dispatch", "sync"}
    BY <2>1, <2>2, IdleFields DEF Flow, Chosen
  <2>4. SkipClient(p) \/ TakeClient(p) \/ EndTick(p) \/ SyncClient(p)
    BY <1>5, <2>2, <2>3
       DEF Proceed, SweepWrite, InsertRun, InsertClashes, Publish, PublishFails,
           CorrelateRaises, FailRun, LoadDevices, Store, DeviceClashes,
           ExportSucceeds, ExportFails, Commit, MarkRead, MarkWrite, DatabaseLocked
  <2>5. ~EndTick(p)
    BY <1>3, IdleFields DEF EndTick, Finish, Chosen
  <2>6. ~SkipClient(p)
    <3> SUFFICES ASSUME SkipClient(p) PROVE FALSE
      OBVIOUS
    <3>1. PICK s, c : s = [task[p] EXCEPT !.todo = @ \ {c}] /\ Become(p, s)
      BY DEF SkipClient
    <3>2. s.at = "dispatch"
      BY <1>1, <3>1 DEF SkipClient, Task
    <3>3. QED
      BY <1>3, <3>1, <3>2 DEF Chosen
  <2>7. QED
    BY <2>4, <2>5, <2>6
<1>6. TakeClient(p) \/ SyncClient(p)
  BY <1>2, <1>4, <1>5 DEF Next, vars, Hour, HeaderReturns, Redeliver
<1>7. CASE TakeClient(p)
  BY <1>3, <1>7, GotoFields DEF TakeClient
<1>8. CASE SyncClient(p)
  <2>1. PICK t, found : /\ t = [task[p] EXCEPT !.at = "insert", !.clientFound = found]
                        /\ Become(p, t)
    BY <1>8 DEF SyncClient
  <2>2. t.todo = task[p].todo /\ t.force = task[p].force
    BY <1>1, <2>1 DEF Task
  <2>3. QED
    BY <1>3, <1>8, <2>1, <2>2
<1>9. QED
  BY <1>6, <1>7, <1>8

\* While no two ticks are about to insert a run of one client, it stays due.
LEMMA DueStep ==
  ASSUME TicksApart, TypeInv, IInv, DueWhenInserted, [Next]_vars
  PROVE  DueWhenInserted'
<1> SUFFICES ASSUME NEW p \in Procs, NEW c \in Clients,
                    Chosen(task'[p]), ~task'[p].force, IsNext(p, c)'
             PROVE  ClientIsDue(c)'
  BY DEF DueWhenInserted, Chosen
<1>1. CASE task'[p] = task[p]
  <2>1. Chosen(task[p]) /\ ~task[p].force /\ IsNext(p, c)
    BY <1>1 DEF IsNext
  <2>2. ClientIsDue(c)
    BY <2>1 DEF DueWhenInserted, Chosen
  <2>3. ASSUME NEW q \in Procs, InsertRun(q), IsNext(q, c) PROVE FALSE
    <3>1. CASE q = p
      <4>1. PICK t, r : t = [task[p] EXCEPT !.at = "publish", !.run = r] /\ Become(p, t)
        BY <2>3, <3>1 DEF InsertRun
      <4>2. t.at = "publish" /\ task'[p] = t
        BY <4>1, BecomeAt DEF TypeInv, ProperTask, Task
      <4>3. QED
        BY <4>2 DEF Chosen
    <3>2. CASE q # p
      BY <2>1, <2>3, <3>2 DEF TicksApart, InsertRun, At, Chosen
    <3>3. QED
      BY <3>1, <3>2
  <2>4. QED
    BY <2>2, <2>3, StaysDue
<1>2. CASE task'[p] # task[p]
  <2>1. /\ TakeClient(p) \/ SyncClient(p)
        /\ task'[p].todo = task[p].todo /\ task'[p].force = task[p].force
    BY <1>2, WhoChooses
  <2>2. IsNext(p, c) /\ ~task[p].force
    BY <2>1 DEF IsNext
  <2>3. \A d \in Clients : IsNext(p, d) => d = c
    BY <2>2 DEF IsNext, Clients
  <2>4. ClientIsDue(c)
    <3>1. CASE TakeClient(p)
      BY <2>2, <2>3, <3>1 DEF TakeClient
    <3>2. CASE SyncClient(p)
      BY <2>2, <3>2 DEF SyncClient, At, DueWhenInserted
    <3>3. QED
      BY <2>1, <3>1, <3>2
  <2>5. UNCHANGED <<status, age>>
    BY <2>1 DEF TakeClient, SyncClient, database
  <2>6. QED
    BY <2>4, <2>5 DEF ClientIsDue
<1>3. QED
  BY <1>1, <1>2

\* With any number of processes, the client for which a run is inserted is still due
\* then, unless the tick is forced or another tick is about to insert a run of it.
THEOREM DueUnlessTicksOverlap == Spec /\ []TicksApart => []DueWhenInserted
<1>1. Init => DueWhenInserted
  BY IdleFields DEF Init, DueWhenInserted
<1>2. TicksApart /\ TypeInv /\ IInv /\ DueWhenInserted /\ [Next]_vars
        => DueWhenInserted'
  BY DueStep
<1>3. QED
  BY <1>1, <1>2, TypeInit, TypeStep, IInvInit, IInvStep, PTL DEF Spec

\* Hence with one process.
THEOREM DueSerially ==
  ASSUME OneProcess
  PROVE  Spec => []DueWhenInserted
<1>1. TicksApart
  BY DEF OneProcess, TicksApart
<1>2. QED
  BY <1>1, DueUnlessTicksOverlap, PTL

\* How many runs of a client are younger than the interval, with those on the way.
FewInv ==
    \A c \in Clients :
        /\ IsFiniteSet(Young(c))
        /\ Cardinality(Young(c)) + Cardinality(Choosing(c)) <= Cardinality(Procs)

\* There are neither runs nor ticks in the beginning.
LEMMA FewInit ==
  ASSUME IsFiniteSet(Procs)
  PROVE  Init => FewInv
<1> SUFFICES ASSUME Init, NEW c \in Clients
             PROVE  /\ IsFiniteSet(Young(c))
                    /\ Cardinality(Young(c)) + Cardinality(Choosing(c))
                            <= Cardinality(Procs)
  BY DEF FewInv
<1>1. Young(c) = {} /\ Choosing(c) = {}
  BY IdleFields DEF Init, Young, Choosing
<1>2. Cardinality(Procs) \in Nat
  BY FS_CardinalityType
<1>3. QED
  BY <1>1, <1>2, FS_EmptySet

\* Who takes a client finds it without a young run; who inserts a run is not on the
\* way any more.
LEMMA FewStep ==
  ASSUME IsFiniteSet(Procs), NobodyForces, TypeInv, IInv, FewInv, [Next]_vars
  PROVE  FewInv'
<1> SUFFICES ASSUME NEW c \in Clients
             PROVE  /\ IsFiniteSet(Young(c)')
                    /\ Cardinality(Young(c)') + Cardinality(Choosing(c)')
                            <= Cardinality(Procs)
  BY DEF FewInv
<1> USE DEF At
<1>1. /\ IsFiniteSet(Young(c)) /\ IsFiniteSet(Choosing(c))
      /\ Choosing(c)' \subseteq Procs
      /\ Cardinality(Young(c)) + Cardinality(Choosing(c)) <= Cardinality(Procs)
      /\ Cardinality(Procs) \in Nat
  BY FS_Subset, FS_CardinalityType DEF FewInv, Choosing
<1>2. Interval \in Nat /\ DOMAIN status = Runs
      /\ \A r \in Runs : age[r] \in Nat /\ age'[r] \in Nat /\ age'[r] >= age[r]
  BY ConstantsAssumption, AgesGrow DEF TypeInv, TypeOK
<1>3. ASSUME NEW p \in Procs, TakeClient(p), IsNext(p, c)
      PROVE  /\ IsFiniteSet(Young(c)')
             /\ Cardinality(Young(c)') + Cardinality(Choosing(c)') <= Cardinality(Procs)
  <2>1. PICK d \in Clients : IsNext(p, d) /\ ClientIsDue(d)
    BY <1>3 DEF TakeClient, NobodyForces
  <2>2. c \in Int /\ d \in Int /\ c <= d /\ d <= c
    BY <1>3, <2>1 DEF IsNext, Clients
  <2>3. ClientIsDue(c)
    BY <2>1, <2>2
  <2>4. UNCHANGED <<status, age>>
    BY <1>3 DEF TakeClient, database
  <2>5. Young(c)' = {}
    BY <1>2, <2>3, <2>4 DEF Young, ClientIsDue
  <2>6. QED
    BY <1>1, <2>5, CountKept, FS_EmptySet
<1>4. ASSUME NEW p \in Procs, InsertRun(p), IsNext(p, c)
      PROVE  /\ IsFiniteSet(Young(c)')
             /\ Cardinality(Young(c)') + Cardinality(Choosing(c)') <= Cardinality(Procs)
  <2>1. PICK r \in Runs : /\ status' = [status EXCEPT ![r] = "pending"]
                          /\ Become(p, [task[p] EXCEPT !.at = "publish", !.run = r])
    BY <1>4 DEF InsertRun, Unused
  <2>2. Young(c)' \subseteq Young(c) \cup {r}
    BY <1>2, <2>1 DEF Young
  <2>3. p \in Choosing(c)
    BY <1>4 DEF InsertRun, Choosing
  <2>4. Choosing(c)' \subseteq Choosing(c) \ {p}
    <3>1. PICK t : t = [task[p] EXCEPT !.at = "publish", !.run = r]
      OBVIOUS
    <3>2. t.at = "publish"
      BY <3>1 DEF TypeInv, ProperTask, Task
    <3>3. Become(p, t)
      BY <2>1, <3>1
    <3>4. /\ task'[p].at = "publish"
          /\ \A q \in Procs : q # p => task'[q] = task[q]
      BY <3>2, <3>3, BecomeAt
    <3>5. QED
      BY <3>4 DEF Choosing, IsNext
  <2>5. /\ IsFiniteSet(Young(c)') /\ Cardinality(Young(c)') \in Nat
        /\ Cardinality(Young(c)) \in Nat
        /\ Cardinality(Young(c)') <= Cardinality(Young(c)) + 1
    BY <1>1, <2>2, CountGrows
  <2>6. /\ Cardinality(Choosing(c)') \in Nat /\ Cardinality(Choosing(c)) \in Nat
        /\ Cardinality(Choosing(c)') + 1 <= Cardinality(Choosing(c))
    BY <1>1, <2>3, <2>4, CountShrinks
  <2>7. QED
    BY <1>1, <2>5, <2>6
<1>5. ASSUME \A p \in Procs : ~(IsNext(p, c) /\ (TakeClient(p) \/ InsertRun(p)))
      PROVE  /\ IsFiniteSet(Young(c)')
             /\ Cardinality(Young(c)') + Cardinality(Choosing(c)') <= Cardinality(Procs)
  <2>1. Young(c)' \subseteq Young(c)
    <3> SUFFICES ASSUME NEW r \in Runs, status'[r] # "absent", ClientOf[r] = c,
                        age'[r] < Interval
                 PROVE  r \in Young(c)
      BY DEF Young
    <3>1. status[r] # "absent"
      BY <1>5, RowsAppear
    <3>2. age[r] < Interval
      BY <1>2
    <3>3. QED
      BY <3>1, <3>2 DEF Young
  <2>2. Choosing(c)' \subseteq Choosing(c)
    <3> SUFFICES ASSUME NEW p \in Procs, Chosen(task'[p]), IsNext(p, c)'
                 PROVE  p \in Choosing(c)
      BY DEF Choosing, Chosen
    <3>1. CASE task'[p] = task[p]
      BY <3>1 DEF Choosing, Chosen, IsNext
    <3>2. CASE task'[p] # task[p]
      <4>1. IsNext(p, c)
        BY <3>2, WhoChooses DEF IsNext
      <4>2. SyncClient(p)
        BY <1>5, <3>2, <4>1, WhoChooses
      <4>3. QED
        BY <4>1, <4>2 DEF SyncClient, Choosing
    <3>3. QED
      BY <3>1, <3>2
  <2>3. QED
    <3>1. /\ IsFiniteSet(Young(c)') /\ Cardinality(Young(c)') \in Nat
          /\ Cardinality(Young(c)) \in Nat
          /\ Cardinality(Young(c)') <= Cardinality(Young(c))
      BY <1>1, <2>1, CountKept
    <3>2. /\ Cardinality(Choosing(c)') \in Nat /\ Cardinality(Choosing(c)) \in Nat
          /\ Cardinality(Choosing(c)') <= Cardinality(Choosing(c))
      BY <1>1, <2>2, CountKept
    <3>3. QED
      BY <1>1, <3>1, <3>2
<1>6. QED
  BY <1>3, <1>4, <1>5

\* As long as nobody forces a tick, no client ever has more runs younger than its
\* interval than there are processes, however their ticks overlap, fail or are lost.
THEOREM TicksNeverPileUp ==
  ASSUME IsFiniteSet(Procs)
  PROVE  Spec /\ []NobodyForces => []YoungRunsAreFew
<1>1. Init => TypeInv /\ IInv /\ FewInv
  BY TypeInit, IInvInit, FewInit
<1>2. NobodyForces /\ TypeInv /\ IInv /\ FewInv /\ [Next]_vars => (TypeInv /\ IInv /\ FewInv)'
  BY TypeStep, IInvStep, FewStep
<1>3. FewInv => YoungRunsAreFew
  BY DEF FewInv, YoungRunsAreFew
<1>4. QED
  BY <1>1, <1>2, <1>3, PTL DEF Spec

-----------------------------------------------------------------------------
(***************************************************************************)
(* How long a task can be.  Rank counts the steps it may still take; every *)
(* step of a process that goes on lowers it, whatever the others do.       *)
(***************************************************************************)

Rank(t) ==
    LET n == Cardinality(t.todo) IN
    CASE t.at = "sweep" -> 4 * n + 2
      [] t.at = "dispatch" -> 4 * n + 1
      [] t.at = "sync" -> 4 * n
      [] t.at = "insert" -> 4 * n - 1
      [] t.at = "publish" -> 4 * n - 2
      [] t.at = "correlate" -> 6
      [] t.at = "store" -> 5
      [] t.at = "export" -> 4
      [] t.at = "commit" -> 3
      [] t.at = "errback" -> 2
      [] t.at = "mark" -> 1
      [] OTHER -> 0

LongestTask == 4 * NumClients + 6

\* There is a client that a tick on the way to an insertion works for.
HasNext(t) ==
    t.at \in {"sync", "insert", "publish"} => \E c \in t.todo : \A d \in t.todo : c <= d

NextInv == \A p \in Procs : HasNext(task[p])

\* Each value of the rank.
LEMMA Ranks ==
  ASSUME NEW t
  PROVE  /\ t.at = "sweep" => Rank(t) = 4 * Cardinality(t.todo) + 2
         /\ t.at = "dispatch" => Rank(t) = 4 * Cardinality(t.todo) + 1
         /\ t.at = "sync" => Rank(t) = 4 * Cardinality(t.todo)
         /\ t.at = "insert" => Rank(t) = 4 * Cardinality(t.todo) - 1
         /\ t.at = "publish" => Rank(t) = 4 * Cardinality(t.todo) - 2
         /\ t.at = "correlate" => Rank(t) = 6
         /\ t.at = "store" => Rank(t) = 5
         /\ t.at = "export" => Rank(t) = 4
         /\ t.at = "commit" => Rank(t) = 3
         /\ t.at = "errback" => Rank(t) = 2
         /\ t.at = "mark" => Rank(t) = 1
         /\ t.at \in {"idle", "down"} => Rank(t) = 0
  BY DEF Rank

\* A list of clients is finite, and not longer than the configuration.
LEMMA TodoIsFinite ==
  ASSUME NEW S \in SUBSET Clients
  PROVE  /\ IsFiniteSet(S) /\ Cardinality(S) \in Nat
         /\ Cardinality(S) <= NumClients
         /\ S # {} => Cardinality(S) >= 1
<1>1. IsFiniteSet(1..NumClients) /\ Cardinality(1..NumClients) = NumClients
  BY FS_Interval
<1>2. IsFiniteSet(S) /\ Cardinality(S) \in Nat /\ Cardinality(S) <= NumClients
  BY <1>1, CountKept DEF Clients
<1>3. S # {} => Cardinality(S) # 0
  BY <1>2, FS_EmptySet
<1>4. QED
  BY <1>2, <1>3

\* A task has a rank between none and the longest.
LEMMA RankIsBounded ==
  ASSUME NEW t \in Task, HasNext(t)
  PROVE  /\ Rank(t) \in 0..LongestTask
         /\ t.at \notin {"idle", "down"} => Rank(t) > 0
<1>1. /\ Cardinality(t.todo) \in Nat /\ Cardinality(t.todo) <= NumClients
      /\ t.todo # {} => Cardinality(t.todo) >= 1
  BY TodoIsFinite DEF Task
<1>2. t.at \in {"sync", "insert", "publish"} => Cardinality(t.todo) >= 1
  BY <1>1 DEF HasNext
<1>3. t.at \in Label
  BY DEF Task
<1>4. QED
  BY <1>1, <1>2, <1>3, Ranks DEF Label, Tick, Callback, Errback, LongestTask

\* A task that continues comes nearer to its end, and still has a client to work for.
LEMMA FlowLowers ==
  ASSUME NEW u \in Task, NEW t \in Task, HasNext(u), Flow(u, t),
         u.at \notin {"idle", "down"}
  PROVE  Rank(t) < Rank(u) /\ HasNext(t)
<1>1. /\ Cardinality(u.todo) \in Nat /\ Cardinality(t.todo) \in Nat
      /\ u.todo # {} => Cardinality(u.todo) >= 1
      /\ IsFiniteSet(u.todo)
  BY TodoIsFinite DEF Task
<1>2. u.at \in Label
  BY DEF Task
<1>3. CASE t = IdleTask
  <2>1. Rank(t) = 0 /\ HasNext(t)
    BY <1>3, Ranks, IdleFields DEF HasNext
  <2>2. QED
    BY <2>1, RankIsBounded DEF LongestTask
<1>4. CASE u.at = "sweep" /\ t.at = "dispatch" /\ t.abandoned = {} /\ t.todo = u.todo
  BY <1>1, <1>4, Ranks DEF HasNext
<1>5. CASE /\ <<u.at, t.at>> \in {<<"dispatch", "sync">>, <<"sync", "insert">>,
                                  <<"insert", "publish">>}
           /\ t.abandoned = u.abandoned /\ t.todo = u.todo
           /\ \E c \in u.todo : \A d \in u.todo : c <= d
  BY <1>1, <1>5, Ranks DEF HasNext
<1>6. CASE /\ u.at \in {"dispatch", "publish"} /\ t.at = "dispatch"
           /\ t.abandoned = u.abandoned
           /\ t.todo = {c \in u.todo : ~(\A d \in u.todo : c <= d)}
           /\ u.at = "dispatch" => \E c \in u.todo : \A d \in u.todo : c <= d
  <2>1. PICK c \in u.todo : \A d \in u.todo : c <= d
    BY <1>6 DEF HasNext
  <2>2. t.todo \subseteq u.todo \ {c}
    BY <1>6, <2>1
  <2>3. Cardinality(t.todo) + 1 <= Cardinality(u.todo)
    BY <1>1, <2>2, CountShrinks
  <2>4. HasNext(t)
    BY <1>6 DEF HasNext
  <2>5. /\ Rank(t) = 4 * Cardinality(t.todo) + 1
        /\ Rank(u) = 4 * Cardinality(u.todo) + 1 \/ Rank(u) = 4 * Cardinality(u.todo) - 2
    BY <1>6, Ranks
  <2>6. QED
    BY <1>1, <2>3, <2>4, <2>5
<1>7. CASE /\ <<u.at, t.at>> \in {<<"correlate", "store">>, <<"store", "export">>,
                                  <<"store", "commit">>, <<"export", "commit">>,
                                  <<"errback", "mark">>}
           /\ t.abandoned = u.abandoned /\ t.run = u.run
  BY <1>7, Ranks DEF HasNext
<1>8. CASE /\ u.at \in {"correlate", "store"} /\ t.at = "errback"
           /\ t.abandoned = {} /\ t.run = u.run
  BY <1>8, Ranks DEF HasNext
<1>9. QED
  BY <1>3, <1>4, <1>5, <1>6, <1>7, <1>8 DEF Flow

\* What a step does to a process: nothing, or it goes on, or it takes a task, or it is
\* killed or replaced.
LEMMA ProcessStep ==
  ASSUME TypeInv, [Next]_vars, NEW p \in Procs, task'[p] # task[p]
  PROVE  \/ Proceed(p)
         \/ task'[p] = DownTask
         \/ task[p].at \in {"idle", "down"} /\ task'[p].at \in {"sweep", "errback",
                                                               "correlate", "idle"}
<1>1. task # task'
  OBVIOUS
<1>2. ASSUME NEW q \in Procs, NEW t, Become(q, t) PROVE q = p /\ task'[p] = t
  BY <1>2, BecomeAt
<1>3. ASSUME NEW q \in Procs, Proceed(q) PROVE Proceed(p)
  BY <1>2, <1>3, ProceedFlow
<1>4. ASSUME NEW q \in Procs, BeatTick(q) \/ CliRun(q)
      PROVE  task[p].at = "idle" /\ task'[p].at = "sweep"
  BY <1>2, <1>4, OtherFlow
<1>5. ASSUME NEW q \in Procs, Crash(q) PROVE task'[p] = DownTask
  BY <1>2, <1>5, OtherFlow
<1>6. ASSUME NEW q \in Procs, Restart(q)
      PROVE  task[p].at = "down" /\ task'[p].at = "idle"
  BY <1>2, <1>6, OtherFlow, IdleFields
<1>7. ASSUME NEW q \in Procs, NEW r \in Runs, CallbackStart(q, r) \/ ChordError(q, r)
      PROVE  task[p].at = "idle" /\ task'[p].at \in {"correlate", "errback"}
  BY <1>1, <1>2, <1>7, OtherFlow, ErrbackFields
<1>8. QED
  BY <1>1, <1>3, <1>4, <1>5, <1>6, <1>7 DEF Next, vars, Hour, HeaderReturns, Redeliver

\* Every step keeps a client to work for, and lowers the rank of whoever goes on.
LEMMA RankStep ==
  ASSUME TypeInv, NextInv, [Next]_vars, NEW p \in Procs
  PROVE  /\ HasNext(task[p])'
         /\ Proceed(p) => Rank(task'[p]) < Rank(task[p])
         /\ \/ task'[p] = task[p]
            \/ task[p].at \in {"idle", "down"}
            \/ Rank(task'[p]) < Rank(task[p])
<1>1. task[p] \in Task /\ HasNext(task[p])
  BY DEF TypeInv, ProperTask, NextInv
<1>2. task'[p] \in Task
  BY TypeStep DEF TypeInv, ProperTask
<1>3. HasNext(task[p])' = HasNext(task'[p])
  BY DEF HasNext
<1>4. ASSUME Proceed(p)
      PROVE  Rank(task'[p]) < Rank(task[p]) /\ HasNext(task'[p])
  <2>1. PICK t : Become(p, t) /\ Flow(task[p], t)
    BY <1>4, ProceedFlow
  <2>2. task'[p] = t /\ task[p].at \notin {"idle", "down"}
    BY <1>4, <2>1, BecomeAt, ProceedFlow
  <2>3. QED
    BY <1>1, <1>2, <2>1, <2>2, FlowLowers
<1>5. CASE task'[p] = task[p]
  BY <1>1, <1>3, <1>4, <1>5
<1>6. CASE task'[p] = DownTask
  <2>1. HasNext(DownTask) /\ Rank(DownTask) = 0
    BY IdleFields, Ranks DEF HasNext
  <2>2. task[p].at \in {"idle", "down"} \/ Rank(task[p]) > 0
    BY <1>1, RankIsBounded
  <2>3. Rank(task[p]) \in Int
    BY <1>1, RankIsBounded DEF LongestTask
  <2>4. QED
    BY <1>3, <1>4, <1>6, <2>1, <2>2, <2>3
<1>7. CASE /\ task[p].at \in {"idle", "down"}
           /\ task'[p].at \in {"sweep", "errback", "correlate", "idle"}
  BY <1>3, <1>4, <1>7 DEF HasNext
<1>8. QED
  BY <1>3, <1>4, <1>5, <1>6, <1>7, ProcessStep

\* A task never takes more steps than LongestTask: whatever the other processes do, each
\* step of a process that goes on brings its task nearer to its end, and nothing takes
\* one further from it.  (What is left of PendingRunsFinish is that the steps are taken.)
TasksWindDown ==
    [][\A p \in Procs :
        /\ Rank(task[p]) \in 0..LongestTask
        /\ Proceed(p) => Rank(task'[p]) < Rank(task[p])
        /\ \/ task'[p] = task[p]
           \/ task[p].at \in {"idle", "down"}
           \/ Rank(task'[p]) < Rank(task[p])]_vars

\* For any number of processes and clients (tasks.py).
THEOREM TasksEnd == Spec => TasksWindDown
<1> DEFINE A == \A p \in Procs :
                    /\ Rank(task[p]) \in 0..LongestTask
                    /\ Proceed(p) => Rank(task'[p]) < Rank(task[p])
                    /\ \/ task'[p] = task[p]
                       \/ task[p].at \in {"idle", "down"}
                       \/ Rank(task'[p]) < Rank(task[p])
<1>1. Init => NextInv
  BY IdleFields DEF Init, NextInv, HasNext
<1>2. TypeInv /\ NextInv /\ [Next]_vars => NextInv'
  BY RankStep DEF NextInv
<1>3. TypeInv /\ NextInv /\ [Next]_vars => A
  <2> SUFFICES ASSUME TypeInv, NextInv, [Next]_vars, NEW p \in Procs
               PROVE  /\ Rank(task[p]) \in 0..LongestTask
                      /\ Proceed(p) => Rank(task'[p]) < Rank(task[p])
                      /\ \/ task'[p] = task[p]
                         \/ task[p].at \in {"idle", "down"}
                         \/ Rank(task'[p]) < Rank(task[p])
    OBVIOUS
  <2>1. Rank(task[p]) \in 0..LongestTask
    BY RankIsBounded DEF TypeInv, ProperTask, NextInv
  <2>2. QED
    BY <2>1, RankStep
<1>4. TypeInv /\ NextInv /\ [Next]_vars => [A]_vars
  BY <1>3
<1>5. QED
  BY <1>1, <1>2, <1>4, TypeInit, TypeStep, PTL DEF Spec, TasksWindDown

=============================================================================

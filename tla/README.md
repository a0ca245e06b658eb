# Verification of agent-parity

agent-parity collects, per client, an Active Directory export (a script run on a
domain controller through an EDR vendor) and the vendors' agent inventories,
correlates the two, and keeps the result as a run in a SQLite history that a
CLI, a quarterly report and a Splunk dashboard read. Collection is a Celery
chord: one task per source, then one callback that correlates and stores.

This directory holds TLA+ modules of that system, TLC configurations that check
them on small instances, and proofs checked by TLAPS. Paths below are relative to
the repository root.

## 1. Inventory

| Component | Source | State it keeps | Operations | What makes it hard |
|---|---|---|---|---|
| Scheduling | `src/agent_parity/scheduling/tasks.py`, `celery_app.py` | none of its own; messages in the broker | hourly and forced tick, start of a run, chord callback, error callback, sweep of abandoned runs | several workers and a CLI; tasks lost, delivered twice, failing half way |
| Persistence | `scheduling/persistence.py`, `scheduling/db.py` | clients, devices, runs, snapshots | upsert of client and devices, snapshots, final status, export | check and write in different transactions; an ORM session that does not read again; one writer with a busy timeout |
| Correlation | `correlation.py`, `models.py`, `os_eol.py` | none (pure) | merge, ambiguous keys, coverage, EOL, summary | many-to-many joins, blank or repeated identifiers, a source that is missing |
| Remote script execution | `script_runner.py`, `connectors/*.py`, `storage.py`, `vendor/rest_adapter.py` | vendor sessions, an uploaded object, the endpoint's executions | start, poll until a deadline, read back, clean up | timeouts against late answers, retried POSTs, leaked sessions and objects |
| Collection | `pipeline.py`, `connectors/*.py`, `tasks.py` | none; the consoles' pages move under it | one source to an envelope with a status | which failures are returned and which are raised; pages |
| Configuration | `config.py`, `vendor/config.py` | config.yaml, the environment | accounts, sites, the export's carrier | every task loads the file again |
| History, report | `scheduling/history.py`, `quarterly_report.py` | none (reads) | last finished run of a quarter, trend, table | reads during writes, calendar boundaries |
| Splunk export | `splunk_export.py` | events in Splunk | batches, the summary last | partly sent runs |
| OS EOL data | `os_eol.py`, `os_eol_live.py`, `vendor/atomic_io.py` | a cache file; tables in each process | derive, refresh, fall back, look up | two refreshes, two reads, an answer that does not validate |
| CLI | `cli.py` | none | run, compare, report | a shared deadline; one client's error among several |

How they interact: beat and the CLI write a *pending* `CorrelationRun` row and
send a chord (`tasks.start_client_run`). Its fan-out tasks return envelopes and never
touch the database. The callback (`tasks.correlate_client`) reads the row,
correlates, and calls `persistence.finalize_run`, which writes devices and snapshots
and sets the status, calls Splunk, and leaves the commit to the task. An exception in
a fan-out task or in the callback runs `tasks.mark_run_failed`. Every tick and every
`run` starts with a sweep that fails runs pending for too long. All of it
shares one SQLite file and nothing else.

What makes each component correct:

- *Scheduling and persistence*: a run finishes, once, with the whole table of its frame
  and a status that says truthfully what its sources answered, or fails without a
  table; every client that is due is collected.
- *Correlation*: every AD object and every agent is counted once, in the one class its
  evidence supports; an ambiguous pairing is flagged.
- *Remote execution*: what is read back is what this run's script uploaded; sessions
  and objects are cleaned up, up to the faults that the code lets leak; a call ends.
- *Collection*: what a source delivered is in the run, what it did not deliver is said
  of it, and an outage fails no run.
- *Configuration*: a site's inventory is of its own console and slice.
- *History*: the table and the trend of a report come from finished runs of the right
  quarters, and agree.
- *Splunk*: a summary stands for a completely sent run.
- *EOL data*: lookups use whole, valid tables, the file's present ones.
- *CLI*: the exit code can be relied on, and a deadline is one.

`PROJECT.json` lists, under `hazards`, the places of the code where these are at risk.

## 2. Modules

| Module | Content | Code |
|---|---|---|
| `RunLifecycle.tla` | Scheduling and persistence over one database | `tasks.py`, `persistence.py`, `db.py` |
| `RunLedger.tla` | What the run history promises its readers: opened once, finished once | |
| `RunLifecycleProofs.tla` | Inductive invariants and theorems of `RunLifecycle` | |
| `Collection.tla` | Configuration, units, pages, both fan-ins | `config.py`, `pipeline.py`, `connectors/` |
| `ScriptExport.tla` | One export through a vendor, the storage and the endpoint | `script_runner.py`, `storage.py`, `connectors/`, `Export-ADDevices.ps1` |
| `Correlation.tla` | The stages of `correlate` | `correlation.py`, `ad_export.py`, `agent_csv.py`, `models.py` |
| `OsEol.tla` | The end-of-life lookup (no state) | `os_eol.py` |
| `EolCache.tla` | Deriving, caching and reloading the end-of-life tables | `os_eol_live.py`, `os_eol.py`, `atomic_io.py` |
| `RunCommand.tla` | `agent-parity run` | `cli.py`, `celery_app.py` |
| `RunHistory.tla` | Quarters, reports, Splunk batches | `history.py`, `quarterly_report.py`, `splunk_export.py` |
| `ScriptExportProofs.tla`, `RunCommandProofs.tla`, `RunHistoryProofs.tla`, `CollectionProofs.tla`, `CorrelationProofs.tla` | Inductive invariants and theorems of the module each is named for (`RunCommandProofs` also those of `EolCache`) | |
| `CollectionAccountProofs.tla`, `ReportProofs.tla` | Theorems about a whole collection and a whole report, on top of `CollectionProofs` and `RunHistoryProofs` | |
| `MC*.tla` | Instances for TLC | |

What uses what: `RunLifecycle` implements `RunLedger` (`table <- snapshots`), and
`RunHistory` instantiates `RunLedger` as the writer of the history it reads, so what
`RunHistory` assumes of writers is what `RunLifecycle` guarantees, unless two processes
take up one run (`LedgerUnlessOverlap`, section 4).
`Correlation` extends `OsEol`; `RunCommand` extends `EolCache`, whose refresh its first
step is. `RunLifecycle` takes a fan-out's results as a payload with three features;
`Collection` is where they come from: whether an export arrived, whether every status is
ok, and which devices arrived.

### How `RunLifecycle` corresponds to the code

A *process* (`Procs`) is a worker slot, or a CLI. An in-process `agent-parity run`
(`celery_app.run_eagerly`) is the CLI process that also runs the callbacks. A process
executes one task at a time; `task[p].at` says where it is:

| `at` | The code's next step |
|---|---|
| `sweep` | `persistence.fail_abandoned_runs` has selected; its UPDATEs and commit follow |
| `dispatch` | the loop of `dispatch_all_clients`, or the CLI's list |
| `sync`, `insert` | `start_client_run`: the SELECT of the client; the flush and commit of client and run |
| `publish` | the row is committed; the chord is sent next |
| `correlate` | `correlate_client` found the run pending; correlation, or failing the run |
| `store` | `persist_correlation` has loaded the devices; its first flush follows |
| `export`, `commit` | rows flushed, write lock held; Splunk is called; the task commits |
| `errback`, `mark` | `mark_run_failed` before and after its SELECT |

Actions are the code between two points where processes can observe each other. The
database is SQLite through pysqlite in the transaction mode SQLAlchemy 2.1
leaves it in (the version in `uv.lock`):

- a SELECT runs in autocommit and sees the last commit;
- the first INSERT or UPDATE of a session takes the one write lock, until commit or
  rollback, and waits for it only as long as the driver's busy timeout
  (`DatabaseLocked`);
- a transaction with nothing but SQL in it is one action. The callback's is
  three (`Store`, `ExportSucceeds`/`ExportFails`, `Commit`), because Splunk is called in
  the middle;
- `session.get_one` for a row the session holds returns the object without reading
  (`persistence.py:87`): the model has no second read of the status. UPDATEs name the
  primary key only, so they overwrite whatever is there by then.

The broker: messages are acknowledged when received, so a killed worker's task is lost
(`Crash`; `Restart` is the pool
forking a new worker process), a fan-out may never return (nothing makes `HeaderReturns` happen), and a
message the broker has handed out can be handed out again (`Redeliver`). Celery
runs an error callback in the worker that saw the exception (`Raise`, `ChordError`).

Data: a fan-out's results are a `payload` with three features, whether any AD export
arrived, whether every source is ok, and which devices are in the frame; a run's age is
in hours; `snapshots[r][k]` counts the committed rows of device `k`. A connector
failure is part of the payload, because `_vendor_payload` and `collect_ad_export` return it
as a status. Not in the model: contents of rows, `finished_at`, and the reports
returned to a CLI. The CLI's abort when no worker answers (`_require_workers`, after the
sweep) is, for the database, a `Crash` at `dispatch`.

The section after `LedgerSpec` names what processes would have to avoid for the
documented promises to hold: `NoOverlap`, `TimeoutIsGenerous`, `NobodyForces`,
`CommitSurvives` and `TicksApart`. They are hypotheses of theorems, and no specification
has them but that of `lifecycle_liveness`, which has `NobodyForces`.

Definitions marked "Variant" hold steps with a plausible mistake in them, in this
module and the others. They are in no specification; each shows that a property notices
it (`mutants` in `PROJECT.json`).

### How the other modules correspond to the code

**`Collection`.** `config` is config.yaml, `loaded` what `start_client_run` or the loop
loaded of it; `Current` is what a unit sees, which for a task is the file of its own
moment. A *unit* is an element of the chord's header (`Header`): a domain controller, or a
vendor's site by index. `CollectDomain`, `CollectFixture`, `OpenInventory`/`FetchPage`/
`RequestFails` are `collect_ad_domain` and `collect_vendor_site`, split at the requests;
`UnitRaises` is what happens before their `try` (`load_config`, `sites_for`, the index). A
console answers a page from the machines it has at that moment: by cursor (SentinelOne)
or by count. Machines, labels, accounts and sites are model values; a secret is set or
not. The callback loads config.yaml too, and fails the run if it cannot. An export's own
mechanics are `ScriptExport`; here it succeeds or fails. That `correlate` may raise is
`RunLifecycle`'s (`CorrelateRaises`). A machine that two pages list is once in `got`, which
is a set; the code's list has it twice. A vendor has a task (`VENDOR_TASKS`): config.yaml
has no others.

**`ScriptExport`.** `call[c].at` is the line of `run_script_export`, or of the vendor's
`_live_deploy_and_run` below it; `run[c]` are the executions on the endpoint, which
upload while the URL lives and end when they like. A retried POST (`rest_adapter.py:59`)
may happen up to `Attempts` times at the vendor, or happen and be seen to fail. `faults`
remembers what went wrong around the call; the two clean-up properties are stated up to
it, which is exactly how far "always" reaches in the code.

**`Correlation`.** A frame is a set of rows with an AD side, an agent side and a place
(`index`), as pandas keeps it; each stage of `correlate` is an action. A hostname is its
join key and, if it was a full DNS name, that name; an OS text is the set of phrases of
the tables that it contains, which is all the code asks of it. Ages of agents are
"recent", "old" or "never". `down` are the sources whose unit was an error. Whether an
agent's blank OS text gives way to AD's depends on the column's dtype
(`correlation.py:256`), which with pandas 3, the version in `uv.lock`, is not the same for
every frame: `blankIsGap` is either.

**`EolCache`.** The file is its tables and its modification time, which is that of the
temporary file it was (`WriteTemp`, then `ReplaceFile`), so of two refreshes the later may
set it back; `used` remembers the times it has had. `refresh[p]` is a
`refresh_cache` in progress; `lookup[p]` is `_loaded` and the two reads of `_tables`. A
cycle of endoflife.date has a name, a build, dates, or `NoDate` for the booleans the API
has there: `_client_names` takes the minimum over them as they are, so some answers
cannot be derived from (`Comparable`) and others give an entry without a date, which is
written and does not validate. The failure to compare is a failed refresh here because
`fetch_lifecycle_data` turns it into `EOLFetchError`.

**`RunCommand`.** `cmd.at` is the line of `run`; `patience` is the deadline, `limit` the
timeout of the wait under way. What the workers do is what the command can see of it: a
run that ends or does not, and a result (`Outcome`): a report; an error, with the run
failed by its error callback or left as it was, because that comes later (`MarkedFailed`)
or raises too; the report of a duplicate, because a sweep came first or the callback was
delivered again (`Redelivered`). In process, the result is there when the start returns. A
wait with a timeout of 0 is one without limit (`GetTimeout`), since Celery's result
backends test `if timeout and ...`. That a sweep of beat may fail a run that is already
complete, or one callback write over another's outcome, is `RunLifecycle`'s
(`YoungStaysFinished`); here a finished run stays.

**`RunHistory`.** A moment is its month. A report is built by `ReadRun`, `ReadPoint` (one
per quarter) and `ReadRows`, each seeing the last commit; a callback is `Correlate`,
`PostBatch`, `Commit`, and may die between them and be delivered again. An empty frame is
not sent.

## 3. Runs

| Run | Instance | Checks | Distinct states |
|---|---|---|---|
| `lifecycle_overlap` | 2 processes, 2 runs of 1 client, 1 device, 1 delivery | the properties of any number of processes | 405,636 (symmetry) |
| `lifecycle_serial` | 1 process, 2 clients with a run each, 2 deliveries per callback | the documented promises; refinement of `RunLedger` | 1,122,072 |
| `lifecycle_liveness` | 2 processes, 2 runs of 1 client, hourly ticks, fairness | overlapping ticks do not pile up; a pending run finishes; a due client is collected | 115,425 |
| `collection` | 10 configurations, 2 vendors' sites and 2 domains, a page of 1, 1 edit, 1 change of a console, fairness | accounting, inventories, tolerance, termination | 154,332 |
| `script_export` | any call beside a SentinelOne one, 2 attempts of a POST, poll 1, URL 2, fairness | whose text, what is left behind, termination | 280,941 |
| `correlation` | 5 objects of 2 domains, 7 agents of 2 vendors, every subset, every outage | the frame and its summary | 317,216 |
| `report` | 3 runs in 3 months around a turn of the year, batches of 2, 1 crash | the report, the export | 529,032 |
| `cli` | 2 clients, timeout 2, 3 answers of the API, 3 ticks | the exit code, the deadline, the tables | 197,219 |
| `lifecycle_duplicate` | 2 processes, 2 runs, 2 deliveries | *violated*: a row stored once | |
| `lifecycle_revival` | the same | *violated*: a failed run stays failed | |
| `lifecycle_export` | 1 process, 1 run | *violated*: a failed run sends nothing | |
| `cli_deadline` | the instance of `cli` without the others' work on the cache, fairness | *violated*: the command ends when it has a deadline | |

Every reachable process state of `RunLifecycle` has a successor (an idle process can start
a tick), so deadlock checking is on in its runs. In the other runs a collection, a call, a
frame or a command is done at some time, so it is off.

**Bounds.** `Runs` is the set of rows that can be created: a tick passes over a client
with no row left (said where it matters: `SkipClient`, `InsertClashes`, `Overdue`). Two
runs of one client are what an overlap needs, two clients what a tick that loops needs.
One device is enough for the two callbacks that both take it for new; properties
are per device and rows do not interact. `AgeCap` is the age from which ages are not
told apart; it exceeds `Timeout` and reaches `Interval`, so "too old" and "due" both
occur and stay. `MaxDeliveries` 2 has the duplicate. With `Timeout` 0 in
`lifecycle_overlap`, a run may be swept an hour after it started, so sweeps meet every
state of a callback; `YoungStaysFinished` is about a run until then, and a run of age 0 and
one of age 1 both meet every sweep. Callbacks are delivered once there, because that is
what `YoungStaysFinished` supposes; what two deliveries can do is in `lifecycle_serial`
and `lifecycle_duplicate`, and the theorems about the other properties of the run have any
number of them.

`lifecycle_liveness` restricts the behaviours (`HourlySpec`): a callback gets nothing or
the whole frame, which no step of the schedule depends on, and nobody forces a tick, since
forced ticks and CLI runs collect a client whether or not it is due. Two rows of one client
are enough for both of `YoungRunsAreFew`'s ticks and for one run to be lost before the next
is due.

In `collection`, one machine per page makes every inventory of two machines a paginated
one; one edit and one change are enough for the properties' exceptions to occur (a site
taken away, a page that moves) and for what is outside them to be tested. The
configurations of `MCCollection` are one for each case `config.py` tells apart. In
`correlation` two domains and two vendors are the least that make a hostname ambiguous
and an agent someone else's; all subsets of the inventories are initial states. In
`script_export` two attempts give a retried POST, two calls the bucket they share; a poll
of 1 and a URL of 2 let an upload come before and after the deadline. In `report` the
months are the end of a third quarter's, the end of a fourth's and the first of the
next year, so quarters are adjacent, the year turns, and a trend of 2 can reach too far
back. In `cli` two clients share a deadline of two ticks; `Apart` explores the others'
work on the cache beside the command's refresh only, because nothing after it reads or
writes the cache: the run's states are then the sum of both parts' and not their product.

**What the runs show.** With several processes the database is never half written: rows
and status come together, statuses are truthful, devices and snapshots agree, and the
what a callback read before it took the write lock still holds when it commits, across the
Splunk call (`WriterIsAlone`). Until a run is old enough to be swept its outcome is final if
its callback is delivered once (`YoungStaysFinished`). What fails is the
*check before the write*: it is true when read and may be false when the write
commits. That is the difference between the two groups of properties in the module; the
second group holds with one process and the violation runs show each being lost with
two (or, for Splunk, with one and a crash). Section 4 says exactly how far it goes with
more.

Of the other components, what a reader might not expect to hold does: the tiebreak of
ambiguous hostnames is exactly the declarative matching wherever identities are unique
(`FrameIsReference`), no identity is lost even where they are not (`NothingVanishes`), a
missing vendor never makes a machine look covered (`PartialUnderstates`). (The last is
about machines: `coverage_pct` counts rows, and a machine with agents of two vendors has
two, so an outage of the vendor whose agent is stale raises the percentage.) The conditions
in the other properties are what the code does not promise, each reached in its run:

- an agent whose own machine was not exported (its domain did not answer, or it is in
  none) is credited to whichever machine has its hostname, unflagged; but where several
  exported machines share the hostname, only its full name can do that, and else the row is
  flagged (`RightMachine`);
- two ticks that both find a client due both collect it; the cadence is only that overlaps
  do not add up: no more runs per interval than processes (`YoungRunsAreFew`);
- two sites with one label, or an edit of config.yaml before the tasks have loaded it,
  can lose a source's error or a site (`Accounted`), and one account that does not resolve
  fails the client's whole run, although "one site down must not sink the others"; a run
  without any domain's export fails by design (`OutagesAreTolerated`);
- a vendor paged by count skips a machine when another is removed (`InventoryComplete`);
- a Live Response session that is not ready in time is never closed
  (`SessionLeftOnlyAfterFault`), and the second run of a retried start uploads after the
  object was deleted (`ObjectLeftOnlyAfterFault`);
- a run finalized between a report's reads makes trend and table disagree
  (`ReportComplete`);
- a file given a modification time that it had before (two files written within the
  clock's resolution) leaves old tables in use (`FreshTables`);
- `run` may end with a traceback before it has told of every client, but never with an
  exit code of 0 then (`ExitIsHonest`), and all its waits until the deadline share it
  (`DeadlineShared`).

### Disagreements with the documentation

1. *Duplicate callbacks* (`lifecycle_duplicate`). Two workers run two deliveries of a
   callback; both read `pending`, one commits, the other waits for the lock and
   commits too. `persistence.py:6-8` and `docs/architecture.md:204-205` promise a no-op.
   `persistence.py:79-85` relies on writer serialization, which orders the
   writes but does not repeat the check. `SnapshotsOnceUnlessOverlap` and
   `SnapshotsOnceIfDeliveredOnce` say when the promise is kept.
2. *Revival* (`lifecycle_revival`). `persistence.py:160-162` says a late callback discards
   its result. It does when it *starts* after the sweep; one that is already correlating
   does not look again. The converse happens too: a sweep that selected a run just
   before it completed writes `failed` over it. `TimeoutPreventsOverlap` says how
   generous the timeout has to be for neither to happen.
3. *Failed runs and Splunk* (`lifecycle_export`). `docs/architecture.md:288` says a
   failed run sends nothing. The export precedes the commit.
   `FailedSendsNothingUnlessKilled` says that nothing else stands in its way but an
   overlap.
4. *The deadline of `run`* (`cli_deadline`). `cli.py:82` says `--timeout` makes the command
   "stop waiting after this many minutes in total". Once the time is up, `cli.py:131` waits
   for each client left with a timeout of `max(0.0, ...)`, which is 0.0; the result backends
   of Celery, Redis by default (`celery_app.py:19`), take that for no timeout. A first client
   that uses up the time and a second whose callback never comes, and the command does not
   end. `OneDeadline` says that no other wait is without limit.

### Fairness

`Fairness` assumes: hours pass; beat's hourly tick starts infinitely often if a worker
is infinitely often idle (strong fairness, because idle workers also take callbacks; the
07:00 tick need not come); a
process goes on with its task (a worker does not stop between two statements, and its
HTTP calls have timeouts); a killed process is
replaced (it is `down` until then, which makes a kill a different step from a task's
end), and processes are killed finitely often. It does *not* assume
that a fan-out returns, that a callback is delivered or succeeds, that Splunk or
the broker answers, or that an error callback gets the lock: a pending run must finish by
the sweep alone. Fairness of `Proceed(p)` is weak and for the whole task: which
of its outcomes occurs is never forced.

Elsewhere: `ScriptExport`, a call goes on with its next step and time passes; nothing of
the endpoint, the session or a poll's request. `Collection`, a unit that can go on does
and so does the fan-in: requests have timeouts, and `RequestFails` is not what is
forced. `RunCommand`, the command goes on with its next step, its two requests for the
end-of-life data end (they have timeouts) and time passes; nothing of the workers, so
that a wait without limit may not end.

## 4. Proofs

`RunLifecycleProofs.tla` assumes of the constants what `ConstantsAssumption` says: nobody
is called `NoProc`, no run `NoRun`, `ClientOf` is a function, the numbers are naturals. There is
no bound on processes, runs, clients, devices or deliveries.

*Types.* `TypeInv` is `TypeOK` and: a task that works for a run has one. One step per
action (`TypeStep`), then `TypeCorrect`.

*Any number of processes.* None of the promises is inductive. `IInv` adds what
they lean on:

- a run's payload does not change once a callback reads it, because its chord is sent
  only once (`chord = "unsent"` while it is being published, "returned" for callbacks),
  because one process inserted it (`OnePublisher`);
- exactly the callbacks at `export` and `commit` have the write lock, and what they took
  for new devices is still new;
- a snapshot's run has returned, and its device is in the frame and committed.

`QuietStep` and `FailStep` carry the many actions that change only a task, or only fail
runs; the others have a lemma each. From `Invariance` follow `UnfinishedCorrect`,
`FinishedCorrect`, `DevicesCorrect`, `WriterCorrect`; from the types and the steps alone,
the action property `HistoryIsKept`.

*One delivery, one copy.* The lemma `DeliveriesPay` says that a delivery stores a row and
sends a summary once at most (`OncePerDelivery`). It compares two counters that different
processes move at different times. `OwedInv` closes the gap: what is stored for a run, plus
the callbacks still running for it (`Storing`), is at most the deliveries; likewise the
summaries sent plus the callbacks that have not called Splunk (`Sending`). The two sets are
finite, although `Procs` need not be. `CallbackStart` pays for what it adds,
`Commit` and `ExportSucceeds` take one from the set as they add one to the counter, and
every other step (`OtherSteps`) adds nobody. With one delivery it gives
`SnapshotsOnceIfDeliveredOnce`.

*Unless two overlap.* The second group of properties fails with several processes, and the
theorems say of what. `Deciding(p, r)` is process `p` between its check that run `r` is
pending and its last write, as a callback or an error callback; `NoOverlap` is that
nobody else is then deciding about `r`, and that no sweep has `r` in its selection. It is a
hypothesis about behaviours (`Spec /\ []NoOverlap => ...`), reachable with any number of
processes, and the two overlap runs are the counterexamples without it. `ApartInv` is the
invariant: what a process checked still holds when it writes. With `IInv` (a pending
run has no rows) every commit is then a step of the ledger: `LedgerUnlessOverlap`, and from
it or from the invariant `NoRevivalUnlessOverlap`, `SnapshotsOnceUnlessOverlap`,
`FailedHasNoTableUnlessOverlap`. One process never overlaps, so `LifecycleImplementsLedger`
and the theorems named `...Serially` are corollaries.

*When they cannot overlap.* What the code has against overlaps is the timeout
("Generous on purpose", `config.py`). `OldInv` says that whatever a sweep selected is still
past the timeout when it writes, since a run only ages (`SweepsAreLate`: a sweep never fails
a younger run). `ServeInv` says that with one delivery each run is served by one process:
the publisher, then the chord's callback or its error callback. Hence
`TimeoutPreventsOverlap`: if callbacks are delivered once and nobody still decides about
a run that is old enough to be swept (`TimeoutIsGenerous`), nobody overlaps, and the
ledger is kept by any number of processes (`LedgerWithGenerousTimeout`). Rows are stored once
with one delivery even if the timeout is not generous (`SnapshotsOnceIfDeliveredOnce`).
And even then a run's outcome is final until the run is past the timeout
(`YoungRunsStayFinished`): nobody is left who decides about a finished run that young,
since its one server has finished it and a sweep has selected nothing that young
(`YoungInv`).

*Failed runs and Splunk.* Without overlaps, a pending run has sent something only while
its callback is at `commit`, and that commit sets a status that is not failed. What is
left is the process being killed there (or the database refusing the commit, which
is no step of the model): `FailedSendsNothingUnlessKilled` assumes `CommitSurvives`.

*Cadence.* The check of `ClientIsDue` and the insertion are two steps. Between them only a
tick that inserts a run of the same client can make the check stale (`DueUnlessTicksOverlap`,
under `TicksApart`); time, sweeps, callbacks and forced ticks elsewhere cannot. With ticks
that do overlap, `TicksNeverPileUp` counts the runs younger than the interval together with
the ticks on their way to insert one: a tick joins them only if the client is due, when
there is no young run, so they are processes; an insertion makes one of the other; and
nothing else adds to either. `NobodyForces` is its hypothesis.

*No task is long.* `Flow` says which step follows which, and `Rank` counts the steps a task
has left, four for each client at most and six more (`LongestTask`). `TasksEnd`: whatever the
other processes do, each step of a process lowers its rank and nothing raises it.

### The other components

Each proof module assumes of the constants what the `ASSUME` of its component says, which
TLC also evaluates in that component's run, and nothing else: there is no bound on calls,
processes, machines, pages, runs, objects or agents.

`ScriptExportProofs` (from `TimesAssumption`). The invariant is, for each call, `TextInv`
(a text that was read is one that this call's own script put under this call's key),
`SessionInv` (a session that is open is the call's at a line where it still closes it, or
one of the faults is remembered) and `RunInv` (an execution belongs to a start that the
call, or a retry of it, made). `CallOnly` is the lemma that carries the steps which touch
one call. `TextIsOwn`, `SessionsAreClosed` and `ObjectsAreDeleted` follow from it.
`CallsAreBounded` orders the labels: every step of a call goes down `Order`, and what
others do leaves its label and can only take time from it.

`RunCommandProofs` (from `RunCommandAssumption`, `EolCacheAssumption`,
`TablesAssumption`). `ExitCodeIsHonest` rests on what is settled about each client that the
loop is past: it finished and was told of, or something was noted that makes the code
1. `TablesAreFresh` rests on the modification time a process remembers being one that the
file has had, and on equal times meaning equal tables unless one of them was given again;
that times only grow is not needed, and not so. `OneDeadline` relates the three numbers of
the wait, `patience`, `limit` and what is told of a client: each wait before the deadline
has what is left of it. `CommandIsBounded` is the command's rank: only a wait can keep it
from ending. All are about the component's specification, without the restriction `Apart`
of the run.

`RunHistoryProofs` (from `HistoryAssumption`). `QuartersPartitionTime` and
`PreviousQuarterAdjoins` are the calendar, for every month. The invariant has a part for the
history (run ids in the order of starts), one for Splunk (a callback's remaining batches
are a tail of its frame's and end with the summary; what is sent and what is left is
the whole frame) and one for the report (points read so far are of quarters in order, by
the number `Index` of a quarter, each of a finished run of that quarter). `ReportProofs` adds what
a report has looked at (`ReadInv`): as long as no run is finished, the runs of a quarter
that was read are no later than its point's, and the last point is of the report's own run,
whose rows nothing changes. From it, and from `RowAssumption` (a row has one of the four
lifecycle statuses), follows `ReportsMissNothing`.

`CollectionProofs` and `CollectionAccountProofs` (from `CollectionAssumption`). What is
hard is `InventoriesAreComplete`, over pages of any size. By cursor: every machine up to
the one listed last that stayed has been fetched. By count: every machine of a rank
below page times size has been, and only a removal moves a machine to a lower rank; that
a listing's prefix has as many machines as its length is a counting lemma proved by a
least counterexample. `RequestsAreBounded` uses the same facts for termination:
`BoundInv` says that a unit at page `n` has passed `n` full pages of distinct ranks
or cursors, so there are as many machines, whatever is enrolled or removed in between; the
loops of `_live_fetch_inventory` have no bound of their own and need none.
`NothingIsDropped` adds `Account`: while nobody edits config.yaml
the header is the loaded configuration's, each unit is the source it was made for, and
distinct labels are distinct keys, so no entry of the fan-in replaces another.
`OutagesTolerated` adds why a unit can raise at all; a run fails by itself only if no
domain was exported, and that all are out is one way for that. (That a vendor has three sites at
most in `CollectionAssumption` is how the model writes an index as a label, not
something the proofs count with.)

`CorrelationProofs` (from `SidesAssumption`, the one assumption that is about the world: an
agent that reports a full name reports that of its own machine). `ResolvedPairs` is the
correctness of the tiebreak: where identities are unique, a row stays, is left unpaired or
is left unmatched exactly as `Own` says, and each object and agent that must be
listed is, by the first of its rows; that there is a first is `FirstRow`, over any finite set
of rows. `ResolvedKeepsAll` is the same without uniqueness, up to identity. The
invariant then is only that the frame *says* what the tiebreak made of the collected
inventories, since the later stages fill in fields. `FewerAgents` compares two tiebreaks,
with some and with all agents, for `PartialFramesUnderstate`. `SummariesAddUp` counts the
rows: each has one status, so the counts add up and the percentage is one; `Rounding` says
what its rounding can hide, which is one machine in 2000. Where identities are unique the
devices counted are the hostnames collected; elsewhere only identities are sure to be
kept. `LongestPhraseDecides` and `WarnedInTime`
are about the end-of-life lookup, for any tables, texts and days.

### Only model-checked

- The liveness properties (`PendingRunsFinish`, `DueClientsCollected`, `CallsEnd`,
  `CollectionEnds`): fairness and ENABLED are outside these proofs. What is proved is the
  half without fairness (`TasksEnd`, `CallsAreBounded`, `RequestsAreBounded`): a task, a
  call and a collection have a bounded number of steps and nothing sets them back. What TLC
  adds is that the steps are possible and taken.

## 5. Plan

What is there is in section 2. What would come next:

1. `Collection` as the source of the payloads of `RunLifecycle`: a module that composes the
   two, with a collection in place of `HeaderReturns`.
2. A console that adds machines while its pages are read by cursor in an order other
   than the one of its ids, should a vendor do so.

## 6. Not modelled

- The PDF's layout and the texts in it (`quarterly_report.py` below the table and the
  trend): formatting.
- `agent-parity compare` and the parsing of options: the former is a call of `correlate`
  on two files, without state.
- The columns and dates of CSVs (`ad_export.py`, `agent_csv.py`, `vendor/tabular_io.py`):
  of a row, `Correlation` keeps the identity, the hostname, the texts and whether the
  agent was seen lately.
- A device's hostname, OS and `last_seen` in the history: no run's status depends on them;
  the hazard that two runs write them in either order is listed without a property.
- The regular expressions of build numbers and releases (`os_eol.py`): a text is the set of
  phrases found in it.
- Rate limits per vendor and the jitter of beat: they delay steps that the model may delay
  anyway.
- Defaults and types of settings, logging: no behaviour of their own.
- `tools/`, container files: not part of the running system.

## 7. Running

    tlc -config lifecycle_overlap.cfg MCRunLifecycle.tla    # and the other lifecycle_*.cfg
    tlc -config collection.cfg MCCollection.tla
    tlc -config script_export.cfg MCScriptExport.tla
    tlc -config correlation.cfg MCCorrelation.tla
    tlc -config report.cfg MCRunHistory.tla
    tlc -config cli.cfg MCRunCommand.tla                    # and cli_deadline.cfg

    tlapm RunLifecycleProofs.tla      # and ScriptExportProofs, RunCommandProofs,
                                      # RunHistoryProofs, CollectionProofs,
                                      # CollectionAccountProofs, CorrelationProofs,
                                      # ReportProofs

# A TLA+ model of vllm-optimizer

vllm-optimizer is a FastAPI backend with a React frontend that load-tests a vLLM
server, tunes its arguments with Optuna trials, and keeps metrics and history.
The backend is one process with one asyncio event loop; the vLLM server is a
KServe `InferenceService` ("CR") of a Kubernetes or OpenShift cluster, which the
backend replaces for each trial. Paths below are relative to `src/`.

This directory holds TLA+ modules that model the parts of the backend in which
the order of events matters, TLC configurations that check them on small
instances, and proofs, checked by TLAPS, of what holds for every size.

- [1. The system](#1-the-system): inventory of components
- [2. The modules](#2-the-modules): what models what
- [3. What is checked](#3-what-is-checked): the runs, bounds and fairness
- [4. What is proved](#4-what-is-proved)
- [5. Disagreements found](#5-disagreements-found)
- [6. What is not modelled](#6-what-is-not-modelled)
- [7. Plan](#7-plan)

## 1. The system

### 1.1 Components

**Load test engine** (`backend/services/load_engine.py`). One object for the
process.
*State*: `_state` (status, results, configuration), `_stop_event`,
`_sweep_running`, `_last_terminal_event`, the queues of subscribers.
*Operations*: `run` (one test: take `_state`, insert a row of `running_state`,
preflight, create dispatch tasks one by one, poll, drain, finalize, clear the
row), `run_sweep` (calls `run` once per RPS value), `stop`, `subscribe`,
`unsubscribe`, `broadcast_terminal`.
*Hard*: a dispatch task outlives the coroutine that created it; every await of
`run` is a place where `stop`, a cancellation or another `run` comes in;
exceptions of a request surface in the poll.
*Correct when*: one run at a time; RUNNING only while a run goes on; a stop is
not overwritten; COMPLETED means everything was sent and counted; every run ends
and takes its row along unless the database fails it; a late subscriber finds a
terminal event.

**Load test router** (`backend/routers/load_test.py`).
*State*: `LoadTestState`: `_active_test_task`, `_is_sweeping`, `_sweep_task`,
`_start_lock`.
*Operations*: `POST /start`, `/stop`, `/sweep`, `GET /stream`, history, presets.
*Interaction*: creates the background tasks that call the engine; each has a
`finally` that resets the router's state after the task was replaced or
cancelled.
*Hard*: three flags and two references in two objects describe one fact ("is a
test or a sweep on?") and are set and reset at different moments.
*Correct when*: 409 is answered exactly while something runs, and what runs can
be stopped.

**CR replacement** (`backend/services/k8s_operator.py`).
*State*: `_target`, `_is_args_snapshot`, the lock it shares with the tuner
(`_k8s_lock`), and the cluster.
*Operations*: `apply_params` and `rollback_to_snapshot`, each of which reads,
deletes, waits for the deletion and creates; `_recreate_from_snapshot`;
`wait_for_ready`; `set_target`.
*Hard*: between delete and create the service does not exist: each failure,
timeout or cancellation there must bring it back. API requests run in threads,
which a cancellation does not stop, so a request may land after the lock was
given away. The target may be pinned anew at any moment.
*Correct when*: the CR is not lost without a trace, what is restored is what was
deleted, the lock goes round.

**Auto-tuner session** (`backend/services/auto_tuner.py`,
`backend/services/tuner_logic.py`).
*State*: `_running`, `_cancel_event`, `_current_task`, `_study`, `_trials`,
`_best_trial`, `_lock`.
*Operations*: `start` (initialize, wait for readiness, trials, report, final
apply), `stop` (set the event, wait ten seconds, cancel).
*Hard*: one event and one flag for all sessions; a stopped session goes on for a
while; the clean-up of an old session meets a new one.
*Correct when*: one tuning at a time; a stop stops; a completed tuning ran its
trials and left the best parameters deployed; `_running` is down when nothing
runs.

**Tuner router** (`backend/routers/tuner.py`).
*Operations*: `POST /start` (check, resolve the model, pin the target,
preflight, create the task), `/stop`, `/apply-best`, the event stream, reads.
*Hard*: check and use of `is_running` are separated by awaits, and the target is
pinned before the request is accepted.

**Storage** (`backend/services/storage.py`): one SQLite connection for all
coroutines.
*State*: the tables of histories, trials, tuning sessions, benchmarks, learned
limits and `running_state`; the open transaction.
*Operations*: each write is an `execute` and a `commit`, between which other
coroutines write; failures are logged and answered with `-1`, `None`, `False` or
an empty list.
*Hard*: commits are shared and nothing is rolled back; callers cannot always
tell "nothing" from "failed"; the process may die between any two calls.
*Correct when*: after a crash the rows left are those of the runs it
interrupted; trials are archived before they are cleared; what was deleted stays
deleted.

**Storage health monitor** (`backend/services/storage_health.py`): a loop that
measures the database, prunes old rows and checkpoints the WAL near capacity.
*Correct when*: pruning spares the newest rows whatever is written meanwhile.

**Metrics collector** (`backend/services/multi_target_collector.py`).
*State*: the targets with their caches, one lock, two loops.
*Operations*: `register_target` (which asks Kubernetes with the lock held),
`get_metrics` (which may collect at once), the collection loop, the cleanup loop
that drops targets nobody asks for, `start_collection`, `stop`.
*Hard*: a target is registered, read, collected and dropped by four coroutines;
a collection compares what it scraped before an await with a counter another
collection may have replaced.
*Correct when*: a target in use is collected and found, one is the default,
rates count no token twice, requests are answered.

**Learned limits** (`backend/services/boot_diagnosis.py`): bounds read from the
logs of trials that did not boot, kept for a week. *Correct when*: no trial that
would boot is refused and no known failure is tried again.

**Event streams** (`load_engine.py` subscribers, `services/event_broadcaster.py`,
the two `stream` routes, `frontend/src/utils/reconnectingEventSource.ts`):
*Correct when*: each client sees the terminal event of what it watches, then the
stream closes.

**Start-up and shutdown** (`backend/main.py`): storage, detection of interrupted
runs, monitor, collector, all fail-open.

**Decisions without state**: the arguments of a CR and their patches
(`cr_adapter.py`, `routers/vllm_config.py`), the memory and capacity of a model
(`model_analysis.py`), the ranges of a study and the prediction of failures
(`tuner_logic.py`, `auto_tuner.py`), verdicts, alerts, sweep analysis, scores and
retries (`routers/sla.py`, `routers/alerts.py`, `load_engine.py`,
`retry_helper.py`), counters and histograms (`metric_math.py`). *Hard*: the same
figure computed at two places, rounding at both ends of a range, zeros that mean
"not measured".

**The rest**: configuration and read-only routes, LLM assistant, frontend views.

### 1.2 How they interact

    client --HTTP--> routers/load_test --task--> LoadTestEngine.run --> vLLM
                            |  cancel()                ^
                            v                          | run()
                     LoadTestEngine.stop          AutoTuner (evaluation)
                                                       ^ | apply / rollback
    client --HTTP--> routers/tuner ------task----------+ v
                            |  set_target, apply-best  K8sOperator --> cluster
                            +--------------------------^

The tuner's evaluations call `LoadTestEngine.run` directly: the load test router
knows nothing of them. `POST /apply-best` calls `apply_params` beside the
session's own calls, under the same lock.

Everything that is to outlive the process goes through the one connection of the
storage: runs and tunings write their rows beside routers and the health monitor, and
`main.py` reads what is left of them at the next start. The collector meets the rest
only through its requests: dashboards that poll `GET /latest` and `POST /batch`.

### 1.3 Granularity

Coroutines interleave only where they suspend: at a database call, an HTTP call,
a request to the API server, a sleep, a wait for other tasks. `await` on
something that is ready does not suspend, so a section under `_state_lock`,
`_subscribers_lock` or `_test_lock`, none of which suspends inside, is part of
the step it is in. Each action is the code from one suspension to the next.
Threads matter in one place: a cancelled API request goes on in its thread.

## 2. The modules

| module | models | composed of |
|---|---|---|
| `LoadTest` | load test engine and router | |
| `CRReplace` | `K8sOperator` replacing CRs, the API server's answers | |
| `TunerSession` | `AutoTuner` sessions, `POST /start`, `/stop`, `/apply-best` | `EXTENDS CRReplace`; implements it with an `INSTANCE` |
| `EventStream` | `GET /load_test/stream`: subscribers, their queues, replay | `EXTENDS LoadTest` |
| `Storage` | what is written to SQLite, by whom; crash, shutdown, restart | |
| `Collector` | targets, requests and loops of the metrics collector | |
| `LearnedLimits` | limits learned from failed boots, in a tuning and in the database | |
| `ServingArgs` | arguments and patches of a CR | |
| `ModelCapacity` | layers, KV cache, budget, calibration, capacity, suggested ranges | |
| `SearchSpace` | ranges a trial's parameters come from, out-of-memory prediction, suggestions | |
| `Verdicts` | verdicts, alerts, sweep analysis, scores, retries | |
| `MetricMath` | histograms of two scrapes | |
| `Decisions` | questions about the previous five and the properties of the answers | `EXTENDS` them |
| `LoadTestProofs` | theorems about `LoadTest` | `EXTENDS LoadTest` |
| `CRReplaceProofs` | theorems about `CRReplace` | `EXTENDS CRReplace` |
| `TunerSessionProofs` | theorems about `TunerSession`, the refinement included | `EXTENDS TunerSession, CRReplaceProofs` |
| `LearnedLimitsProofs` | theorems about `LearnedLimits` | `EXTENDS LearnedLimits` |
| `CollectorProofs` | theorems about `Collector` | `EXTENDS Collector` |
| `EventStreamProofs` | theorems about `EventStream`; its engine is that of `LoadTest` | `EXTENDS EventStream, LoadTestProofs` |
| `StorageProofs` | theorems about `Storage` | `EXTENDS Storage` |
| `DecisionsProofs` | theorems about the answers `Decisions` asks for | `EXTENDS Decisions` |
| `MC*` | instances for TLC: symmetry, scenarios, inputs | |

Definitions marked "Mutant" are wrong on purpose. No specification uses them;
putting one in the place of the definition it varies breaks a property, which
shows that the property depends on that line of code (`PROJECT.json`, mutants).

### 2.1 LoadTest

A *caller* is a coroutine that calls `run`: the background task of a
`POST /start` (`Tests`), the task of a `POST /sweep` (`Sweeps`), or an evaluation
of the tuner (`Tuners`). `pc[c]` says where it is suspended:

| `pc` | code |
|---|---|
| `idle`, `starting`, `rejected` | no request yet; handler resolving the model name and preflighting; answered with an error |
| `created` | the task exists and has not run |
| `marking` | `run` awaits `storage.set_running` |
| `preflight` | `_preflight_check` (the tuner's configurations only: the router skips it, having done its own) |
| `polling`, `sleeping` | `_execute_requests`: `asyncio.wait`, then the pause that paces requests |
| `drain` | `_drain_remaining_tasks` |
| `failing` | the `gather` in `_fail_run` |
| `saving` | `_finalize_results` of a sweep step or an evaluation awaits the storage |
| `clearing` | the `finally` of `run` awaits `clear_running` |
| `storing` | `_run_test_background` saves the result |
| `unwind` | an exception or a cancellation is in the `finally` of `run` |
| `done` | the task is over |

`reqs[c][r]` is the dispatch task of request `r`. `Advance` is the head of the
request loop, `Abort` and `FailRun` the two halves of `_fail_run`, `Stop` the
whole `POST /stop`, `CancelDelivered` and `Unwind` what `CancelledError` does at
each suspension. A task that is cancelled before its first step runs nothing, its
`finally` included (`TaskOver`). `lastTerminal` is the event replayed to late
subscribers.

`row[c]` is the rows of `running_state` a caller has not cleared: `open` is the one
`run` holds the id of, the others are named after the place where they were left
behind. `ClearRow` is `clear_running`, which logs the errors of the database and
returns all the same; a cancellation that comes while it is awaited may lose the
update or its commit. `RowFaults` selects the callers the database may fail.

Abstracted: what a request measures, statistics, and whether a sweep step is
saturated (`SweepEnds` may always happen). `results` stands for the counters
`completed_requests` and `failed_requests`; the list of results, which the code cuts to
the last 1000, only feeds the statistics and is left out. `_start_lock` is modelled by its
holder, the test in `starting`.

### 2.2 CRReplace

`cr[t]` is a CR in the cluster: `live`, `dying` (finalizers) or `absent`, with
the arguments it has or had last. `at[c]` is where a call is suspended:

| `at` | code |
|---|---|
| `queued` | waiting for `_k8s_lock` |
| `getting`, `deleting`, `waiting`, `creating` | the four parts of `apply_params`; the last three also of `rollback_to_snapshot` |
| `recreating` | the create failed and the snapshot is put back |
| `restoring`, `restore` | `_recreate_from_snapshot` waiting for the deletion, then creating |

A request to the API server succeeds, is refused (`None`, as for 404 and 409), or
fails, in which case it may have taken effect (`Answered`). A poll of a deletion wait
that raises anything but an `ApiException` ends the wait (`WaitFails`): the apply fails
without the restore that a timeout or a cancellation is followed by. A cancelled call's
request goes to `orphans` and is carried out at any later time. `left[c]` keeps
where a call was when it ended without success, so that properties can say who
gave a CR up. The lock is given in any order (the code's is FIFO), which allows
more behaviours. `Faults` selects what the environment does.

### 2.3 TunerSession

A session is one accepted or rejected `POST /start`; its calls of `CRReplace` are
`<<r, attempt>>`, with `<<r, 0>>` the final apply, and `<<b, 0>>` that of a
`POST /apply-best`. `phase[r]` is where `AutoTuner.start` is suspended.
`initializing` is the holder of `AutoTuner._lock` in the one place where it is
held across suspensions; everybody who takes that lock waits for it. `running`,
`cancelEvent`, `currentTask` and `best` are the shared attributes. A session
leaves each wait with any outcome the code tells apart: ready or not, evaluated
or failed, with any score. Scores are compared, not computed.

`Faults` reaches `CRReplace` unchanged; the only cancellations are those of
`StopKills`, and a session is cancelled once.

The module implements `CRReplace` with every caller cancellable: `ReplacesCR`
says that whatever sessions, stops and apply-best requests do, the variables of
`CRReplace` follow its specification. What is checked of `CRReplace` for
arbitrary callers thus holds for the tuner's.

### 2.4 EventStream

Adds the generators of `GET /load_test/stream` to `LoadTest`. `at[k]` is where the
generator of client `k` is, `queue[k]` its queue, `held[k]` the event it is
sending. Each step of the engine is repeated with the terminal event it
broadcasts (`RunTold`, `SweepTold`, `StopTold`) or without one (`Unheard`).
Broadcasts do not suspend, so they belong to the engine's step; sending does, and
only after it the generator asks `is_sweeping` (`Sent`). Only terminal events are
modelled: progress passes through and decides nothing. `MaxQueue` bounds the
queues of the model by keeping back stops; those of the code have no bound.

### 2.5 Storage

The state of the database is kept three times: `seen` (what the connection sees,
uncommitted statements included), `disk` (committed) and `aside` (moved away as
corrupted). `Executed` applies an actor's statement to `seen`, `Committed` makes
`disk` equal to `seen`, whoever executed what. `WriteFailed` answers for an
exception and leaves the transaction as it is. After an answer the actor goes on
(`Answered`); what it goes on with is the code of the run, the session or the
router that called. SQLite's own rollback of a transaction (disk full, I/O error)
is left out.

| actor | code |
|---|---|
| `Runs` | `set_running`, the run, `clear_running`, `save_load_test` |
| `Starts` | `POST /tuner/start`: archive and clear the trials, then the session that saves new ones |
| `Readers` | `GET /status/interrupted` |
| `Saves`, `Patches`, `Deletes` | the benchmark routes |
| `Monitor` | `StorageHealthMonitor`: threshold, then delete |
| `Shutdown` | `lifespan` after its `yield` |

`Crash` is possible at any step and `Fate` says what it does to an actor;
`Initialize`, `DetectInterrupted` and `ShutdownBegins` are the three parts of
`lifespan`. Assumed: uvicorn waits for handlers before it ends the lifespan
(background tasks go on); a checkpoint changes nothing that is read. `running` and
`stopEvent` are the tuner's flag and event: `POST /start` and the session look at the
flag only, `POST /stop` resets it at any moment (`TunerStopped`), so a start and a new
session may come beside a stopped one that still saves its last trial; trials may end
at once, as skipped ones do. `stop` may also cancel a session while it awaits
`save_trial` (`SavingCancelled`: the call it awaits goes through). Two things are
recorded for the property: `exposed` is the trials that nothing archives before
they go, because they were saved while another start was past its look at the table
(`Crowded`) or because a start could not read or archive them (`Unarchived`).
A run's task is cancelled at `set_running` only: a cancellation at its `clear_running`
is in `LoadTest` (`ClearRow`), not here, and one while it saves its history is left out.
The deletion of archived sessions by a client is left out as well. A scenario of `MCStorage` puts actors together that share a table or a
transaction.

### 2.6 Collector

A request registers its target (`Touch`, `Refresh`, `Add`: there with a fresh label,
there with an old one, not there), then asks for its metrics (`GetMetrics`), which
may start a collection of its own. `job[c][t]` is the collection of target `t` by
the loop or by a request: it takes its timestamp, scrapes the counter, stores.
`lock` is the collector's lock where it is held across a suspension. Cleanup turns
the collections of what it drops into orphans, which store into a cache nobody
has. `counted` adds up the tokens the rates account for and `generated` those the
pod produced. The calls of Kubernetes in `register_target` go through `to_thread`
without a timeout, so any time may pass while a request is at one or waits for the
lock (`Tick` has no guard about requests). A request older than `INACTIVE_TIMEOUT`
may lose its target to the cleanup and is then answered as if it were new.

`remove_target` is not modelled: nothing but the tests calls it.

### 2.7 LearnedLimits

A target is what vLLM checks at boot: the length its model supports, the sequence
its KV pool holds and the blocks of its hybrid layers, the last two by
`gpu_memory_utilization` and never less with more of it. `TrialFails` is a trial
that was not refused and does not boot: `Learn` takes the limit its log names.
`ToRow` and `FromRow` are the conversion of a limit for the table, which knows no
`None`. Assumed: the target keeps its model while its limits live, and a log names
the fault that was met.

### 2.8 Decisions

`Decisions` asks one question, of any of nine kinds, and answers nothing: each
invariant evaluates the operators of the module it is about. Quantities are whole
numbers (`GIB` units of memory, percentages, milliseconds), so that a rounding is
one the code makes. `ServingArgs` keeps arguments as items (an option with its
value, a bare flag, others as they are), `ModelCapacity` follows `analyze_model`
from the configuration to the suggested ranges, `SearchSpace` holds
`suggest_params`, `kv_cache_oom_risk` and the sanitising of suggestions,
`MetricMath` turns the buckets of two scrapes into quantiles as fractions; a pod has
its own elapsed time, given as its share of requests per second (`per`), so that pods
whose last scrape failed weigh less per request. A token may begin with the name of an
argument the tuner owns (`Extended`): `strip_tuning_args` compares prefixes and drops it.
Dictionaries are functions, joined by `Over`; loops over lists are `FlattenSeq`, sums
`SumFunction`, and the attempts of a retry a recursive function.

What may be asked is said by assumptions on the constants, which the theorems use and
TLC evaluates on the instance: a target is a configuration whose sizes are natural
numbers, observed at most once; an SLA profile has a threshold
(`at_least_one_threshold` in `models/sla.py`); a study's SLA lies between 100 ms and ten
minutes (`models/load_test.py`). Ranges and suggestions are any integers. An argument list
is a sequence of items of any length; the item after a flag without a value does not begin with
a word, which would be that flag's value (`ArgItemsAssumption`); changes and CRs are dictionaries, and the
environment variable with the arguments is the main container's (`ChangesAssumption`,
`DeploymentsAssumption`). A scrape has natural counts in finitely many buckets below
`Infinite` (`BoundsAssumption`); a pod that has not restarted shows what it did plus the
requests that ended since, each in its bucket and all above (`ScrapesAssumption`), and one
that has restarted shows anything, even counts that do not grow with the bucket. The number of
retries and the base delay are natural (`RetriedCallsAssumption`).

## 3. What is checked

Properties that hold:

| run | instance | states | shows |
|---|---|---|---|
| `LT_faults` | 1 test, 1 sweep, 1 cancellable evaluation, 1 request each, requests may raise, the database may fail one caller | 9.0 M | `EngineHeld`, `RowFollowsRun` |
| `LT_sweeps` | 2 sweeps of 2 steps, 3 requests per step, 2 at a time, first batch of 2 | 175 k | `SweepSlot`, `StopSticks`, `CompletedCounted` |
| `ES_fair` | 1 client, with a test and a sweep or with two tests, 1 request each | 181 k | `NothingMissed`, `ReplayFresh`, `RunsEnd`, `StreamEnds` |
| `CR_safe` | 3 callers, 2 targets in 2 namespaces, all faults | 939 k | `MissingExplained` |
| `TS_one` | 1 session of 2 trials and 2 attempts, 1 apply-best, 1 stop, API faults, slow deletion | 306 k | `RunningMeansTuning`, `BestDeployed`, `CompleteRanTrials`, `RollbackOwn`, `StoppedStops`, `TuningFinishes` |
| `TS_many` | 2 sessions on 2 targets, 1 stop, slow deletion, failing study | 1.8 M | `SnapshotTrue`, `ReplacesCR` |
| `ST_safe` | 5 kinds of scenarios of up to 4 actors, 2 lives of the process, all faults | 4.6 M | `KilledRunsReported`, `NoFalseAlarm`, `TrialsKept`, `PruneKeepsNewest`, `DeletedStaysDeleted` |
| `CO_polls` | 1 target polled and collected at once with a counter, or 2 targets and 2 clients | 306 k | `OneDefault`, `RegisteredIsFound`, `NoOvercount`, `FirstAnswered`, `ActiveCollected` |
| `DE_all` | nine kinds of questions over bounded inputs; learned limits of 2 machines | 198 k | the twelve properties of section 3.1, Decisions and LearnedLimits |

Properties a document or a comment states and the code does not have:
`LT_two_tests`, `TS_two_tunings` and `ES_sweep`
([section 5](#5-disagreements-found)).

`CHECK_DEADLOCK FALSE` except in `CO_polls`: the other models have finitely many
requests or questions, and a system whose clients are done stops. A collector goes
on, and `CO_polls` checks that it cannot get stuck.

### 3.1 The properties

*LoadTest.* `EngineHeld`: the engine refuses every run while its status is
RUNNING, so RUNNING must stand for the run that installed `_state` and that goes
on uncancelled; the two exceptions are named (`Lost`), a run cancelled by the
tuner and one whose request raised. `SweepSlot`: the two flags and the reference
of the router and the flag of the engine agree on the one sweep that is on.
`RowFollowsRun`: the row a run holds is open only while the run goes on; where the
database does not fail the caller, a row is left behind only by a cancelled task, at the
insert, at the clear of an orderly end, or at that of a run already lost. So `POST /stop`
anywhere between the two leaves none. `StopSticks`, `CompletedCounted`: see the module; they are
checked with sweeps, which exclude each other, and proved with tests that do not overlap. `RunsEnd`:
accepted tests and sweeps end and free engine and slot; checked by `ES_fair`, whose
instance has a client beside them.

*EventStream.* `ReplayFresh`: a client that connects for a new run is not replayed
the end of the last one, although that one may still be unwinding.
`NothingMissed`: a client that waits with an empty queue has missed no end that was
recorded, and there is a run to wait for (`AwaitsRun`): the first one, that of a test not
begun, or the end of the run that has the engine. The ends that nobody is told of are
named in it: a test that was stopped before its task ran or that the engine refused, a run
that raised, and one stopped while another had taken its status. `StreamEnds`: the stream of a client that waits during a test ends. All
three are about tests: with sweeps in between, `SweepStreamCloses` is refuted.

*CRReplace.* `MissingExplained`: a CR is absent only while a call is replacing it
or after a call gave up at one of the places where the code gives up (`GaveUp`), among
them an apply one of whose polls of the deletion raised.
`SnapshotTrue`: during an apply, what a restore would create is what was deleted.
It is checked under `TS_many`; with failing requests *and* cancellations an
orphaned create may come between.

*TunerSession.* `RunningMeansTuning`, `BestDeployed`, `CompleteRanTrials` and
`StoppedStops` are what a client may rely on with one tuning at a time; they are
checked with stops, faults and apply-best requests around one session. Two
overlapping sessions break them (`OneTuning` is refuted, and the rest follows).
`RollbackOwn`: between a boot that failed and its rollback nobody takes another snapshot,
with one tuning and as long as nobody asked it to stop. (With a second start the model's lock,
which is not first come first served as `asyncio.Lock` is, lets an apply-best that was asked
before it come between.)
`TuningFinishes`: tunings end, stops are answered, `_running` is reset and the lock
goes round.

*Storage.* `KilledRunsReported` and `NoFalseAlarm` are the two halves of "a restart
reports exactly the runs that were cut short", over crashes between any two calls,
failing calls, another actor's commits and a file moved away as corrupted; a run
whose own calls failed may be reported wrongly, and one an orderly shutdown cleared
counts as handed over. `TrialsKept`: trials a session was told are saved stay in the
table or an archive, over stopped, overlapping and restarted sessions. Two kinds are
excepted, as the code gives them up (`exposed`): a failed archive is followed by the clear
all the same, by a comment of the code (`routers/tuner.py:176`), and a trial that a stopped
session saves while the next start is past its look at the table goes with the clear
(section 5). `PruneKeepsNewest`: the rows
pruned have `keep_count` newer ones that stay, although rows are written between
the threshold's read and the delete; `ST_safe` records a third run there. `DeletedStaysDeleted`: a patch that has read a
benchmark before it was deleted does not bring it back.

*Collector.* `OneDefault` and `RegisteredIsFound` relate registration and cleanup:
a request finds the target it has registered unless it is older than `INACTIVE_TIMEOUT`.
`NoOvercount`: rates account for no token twice, over restarts of pods and
re-registration, for targets at which two collections never were at once (the others
are overcounted, section 5). `FirstAnswered`: a request is answered, whoever keeps
the lock before it (clients are interchangeable). `ActiveCollected`: a target in use
is collected.

*LearnedLimits.* `LimitsExact` has two parts. `NoGoodTrialRefused`: a limit learned at one utilization and kept
for days refuses no trial that would boot. `FailureRemembered`: a failure with a
number in its log is not met again.

*Decisions.* `ArgsPatched`: arguments survive a patch, in both forms of CR.
Flags that merely begin with the name of one the tuner owns are dropped; no flag of
vLLM does. `PatchesAgree`: two sub-patches on one named list keep its other members, and a
trial and a PATCH of the same arguments give the same CR. `KvAddsUp`: the footprint
of a sequence is the sum over its layers. `RiskAgrees`: what is predicted not to
start has no capacity for two, and what has no capacity is refused if a layer has full
attention (without that condition it is refuted, [section 5](#5-disagreements-found)).
`CalibrationReproduces`: predicting the server the overhead was calibrated on gives
its pool back. `StudyHasChoice`: suggested, requested and sanitized values leave the
study something to choose; a queued utilization is below what the study searches only if it
was suggested below. `VerdictsSound`: nothing passes without a request, and
live alerts agree with saved verdicts. `RecommendedWorks`: the rate of best
efficiency was answered, and the optimal one if its step reports any request
(without that condition it is refuted, [section 5](#5-disagreements-found)).
`ScoreOrders`: scores order trials by SLA first. `RetriesBounded`: how
often and how long `with_retry` tries. `LatencyInBucket`: a percentile lies in the
bucket that holds its rank among the requests per second of all pods.

### 3.2 Bounds

- *Callers.* The engine and the router remember one test, one sweep and one
  `_state`; a hazard is a late step of one caller after the start of another, so
  two callers of a kind show those that hold and three those that chain
  (`LT_two_tests` needs three: the cancelled, its successor and the one accepted
  in error). `LT_faults` has one caller of each kind because the kinds differ in
  how they end.
- *Requests.* Three requests with a first batch of two and two at a time has a
  request in the batch, one beyond it, one queued and two sent at once. Runs about
  who holds the engine do not depend on the number of requests and have one.
- *Steps.* Two steps of a sweep include a first, a following and a last one.
- *Calls.* Three calls are the one holding the lock, one queued, and one cancelled
  earlier whose request is still under way.
- *Targets.* Two, for the one pinned at the delete and the one pinned since.
- *Trials.* Two trials, two attempts and two scores give a best that is not the
  last.

- *Clients of the stream.* One: clients do not affect each other or the engine.
- *Lives.* Two starts of the process: one to be cut short and one that reports.
  A third only repeats what the second does with its rows.
- *Scenarios.* `ST_safe` puts together actors that share a table, with a run beside
  those that do not, for the shared transaction; the runs of a scenario are alike, and TLC looks at one
  of each kind (`SYMMETRY`). With the monitor and `Keep = 1` there are three runs: two to
  prune and to keep when the threshold is read, and one that is recorded before the delete,
  at the same moment or a later one.
- *Rows.* In `LT_faults` the database may fail the test and not the sweep and the
  evaluation, so that the part of `RowFollowsRun` about callers it does not fail says
  something; a row left behind is read by nobody in `LoadTest`. The theorem has any.
- *Time of the collector.* Units of `INACTIVE_TIMEOUT`; three show a target that
  expires, is registered anew and expires again. The label's interval is as long.
- *Inputs of decisions.* Each set has the values at which the code branches, their
  neighbours, and for lists every length up to three (arguments), four (attempts)
  or five (steps).

Symmetry is used in runs without liveness, over sets of interchangeable callers
and targets.

### 3.3 Fairness

`LoadTest!Fairness`: weak fairness of each caller's steps, each dispatch task and
the second half of a handler. The event loop runs every ready task, and everything
a task awaits ends: HTTP requests have timeouts, storage calls return or raise.
No fairness for `Stop`, for clients' requests, for cancellation by the tuner. With
`FairSpec` a request ends with some outcome, never a chosen one.

`TunerSession` assumes of the calls of `CRReplace` that they go on, that deletions end
(`Gone`; after longer than the code waits if "slow") and that threads finish.

`TunerSession!Fairness`: that of the calls, and the same for sessions and stops.
`WF` of `StopStep` lets a stop wait for its session or kill it after its ten seconds.

`EventStream!StreamSpec`: the engine's fairness, each step together with its
broadcast, and weak fairness of `Stream(k)`: a client that stays connected reads
what it is sent. It may leave at any time.

`Collector!Fairness`: weak fairness of collections and of the loop's sleep. It assumes that
the calls of Kubernetes end: those of the pods have timeouts, those that go through
`to_thread` (registration, listing of pods) have none in the code, only what the client
library and the network do. `FirstAnswered` and `ActiveCollected` hold under that
assumption; a call that never ends keeps the lock for good. Requests and the loop's turn at the lock have strong fairness:
others may take the lock again and again, but `asyncio.Lock` serves its waiters in
order.

## 4. What is proved

The theorems hold for any finite or infinite sets of callers, sessions, stops, targets,
clients and actors, any number of requests, steps and trials, any concurrency and any
inputs of a decision. They hold for every combination of the modelled faults unless a
hypothesis excludes one; section 4.9 says why each hypothesis is there.

| module | theorem | states | of run |
|---|---|---|---|
| `LoadTestProofs` | `TypeCorrect` | `Spec => []TypeOK` | |
| | `EngineNeverOrphaned` | `Spec => []EngineHeld` | `LT_faults` |
| | `SweepsExclusive` | `Spec => []SweepSlot` | `LT_sweeps` |
| | `RowsFollowRuns` | `Spec => []RowFollowsRun` | `LT_faults` |
| | `StoppedUntilRun` | `Spec /\ []TestsApart => StopSticks`, if `Tuners = {}` | `LT_sweeps` |
| | `CompletedRunsCounted` | `Spec /\ []TestsApart => CompletedCounted`, if `Tuners = {}` | `LT_sweeps` |
| `EventStreamProofs` | `StreamKeepsEngine` | `StreamSpec => Spec` (that of `LoadTest`) | |
| | `StreamTypeCorrect` | `StreamSpec => []StreamTypeOK` | |
| | `NothingIsMissed` | `StreamSpec => []NothingMissed` | `ES_fair` |
| | `ReplaysFresh` | `StreamSpec /\ []OneLiveTest => []ReplayFresh`, if no request raises | `ES_fair` |
| `CRReplaceProofs` | `ReplaceTypeCorrect` | `ReplaceSpec => []ReplaceTypeOK` | |
| | `MissingCRsExplained` | `ReplaceSpec => []MissingExplained`, if `OneNamespace = FALSE` | `CR_safe` |
| | `SnapshotsTrue` | `ReplaceSpec => []SnapshotTrue`, if `OneNamespace = FALSE` and no API request fails | `TS_many` |
| `TunerSessionProofs` | `SessionTypeCorrect` | `Spec => []TypeOK` | |
| | `TunerReplacesCR` | `Spec => ReplacesCR` | `TS_many` |
| | `TunerMissingExplained` | `Spec => []MissingExplained`, if `OneNamespace = FALSE` | `CR_safe` |
| | `TunerSnapshotTrue` | `Spec => []SnapshotTrue`, as `SnapshotsTrue` | `TS_many` |
| | `CompletedSessionsRan` | `Spec /\ []NoOverlap => []CompleteRanTrials` | `TS_one` |
| | `StoppedSessionsStop` | `Spec /\ []NoOverlap => StoppedStops` | `TS_one` |
| | `RunningIsTuning` | `Spec /\ []NoOverlap => []RunningMeansTuning`, if `StudyFails = FALSE` | `TS_one` |
| | `SessionDeploysBest` | `Spec => []BestDeployed`, if there is one session | `TS_one` |
| `StorageProofs` | `StorageTypes` | `Spec => []TypeOK` | |
| | `Reported` | `Spec => []KilledRunsReported` | `ST_safe` |
| | `NoAlarm` | `Spec => []NoFalseAlarm` | `ST_safe` |
| | `KeptTrials` | `Spec => []TrialsKept` | `ST_safe` |
| | `PruneKeeping` | `Spec => PruneKeepsNewest` | `ST_safe` |
| | `DeletedStays` | `Spec => DeletedStaysDeleted` | `ST_safe` |
| `CollectorProofs` | `CollectorTypeOK` | `Spec => []TypeOK` | |
| | `DefaultKept` | `Spec => []OneDefault` | `CO_polls` |
| | `RegisteredTargetsFound` | `Spec => []RegisteredIsFound` | `CO_polls` |
| | `TokensNotOvercounted` | `Spec => []NoOvercount` | `CO_polls` |
| `LearnedLimitsProofs` | `LimitsAreExact` | `LimitsSpec => []LimitsExact` | `DE_all` |
| `DecisionsProofs` | `StudyAlwaysHasChoice` | `DecisionsSpec => []StudyHasChoice` | `DE_all` |
| | `RiskAgreesWithCapacity` | `DecisionsSpec => []RiskAgrees` | `DE_all` |
| | `CalibrationHolds` | `DecisionsSpec => []CalibrationReproduces` | `DE_all` |
| | `VerdictsAreSound` | `DecisionsSpec => []VerdictsSound` | `DE_all` |
| | `RecommendedRatesWork` | `DecisionsSpec => []RecommendedWorks` | `DE_all` |
| | `ScoresInOrder` | `DecisionsSpec => []ScoreOrders` | `DE_all` |
| | `FootprintAddsUp` | `DecisionsSpec => []KvAddsUp` | `DE_all` |
| | `RetriesAreBounded` | `DecisionsSpec => []RetriesBounded` | `DE_all` |
| | `ArgumentsPatched` | `DecisionsSpec => []ArgsPatched` | `DE_all` |
| | `PatchesDoAgree` | `DecisionsSpec => []PatchesAgree` | `DE_all` |
| | `LatenciesInBucket` | `DecisionsSpec => []LatencyInBucket` | `DE_all` |

Every invariant and every action property of a passing run is stated by one of them, as is
the refinement; what is left to TLC is liveness (section 4.10).

Leaves are small, so that no proof depends on how fast the machine is: all of them are also
found in an eighth of the provers' usual time (`tlapm --stretch 0.12`).

Assumptions, which TLC evaluates in the runs of their modules: `CallersAssumption`
(the three kinds of callers are disjoint, a sweep is paced, only evaluations are
cancellable by the tuner), `SizesAssumption` (there is a request, the first batch is
within the requests), `ReplaceAssumption` (there is a target, `None` is no caller,
target or body), `NoneIsNoCluster` (nor the state of a cluster), `SessionAssumption`
(the callers of `CRReplace` are the calls of sessions and appliers, there is a trial and
at least as many attempts), `StorageAssumption` (an actor has one kind of work, a prune
keeps a row), `CollectorAssumption` and `LoopIsNoRequest`, `LimitsAssumption` (a pool and
its blocks do not shrink as the utilization grows, as `learn_limits` says of them),
`CapacityAssumption` and `StepsAssumption` (the constants of the code are numbers, those
it divides by are positive), `ArgsAssumption` (there are finitely many tuning
keys, and an empty value is not an absent one), `BoundsAssumption`, and the assumptions of `Decisions` on its inputs (section
2.8).

### 4.1 LoadTest

`TypeOK` is inductive; it includes that only tests reach `storing` and that only a
caller with a task is cancelled or referred to, without which the types of
`activeTest` and `sweepTask` are not preserved. Lemmas say what the shared halves
of the request loop do to `status`, `pc` and `reqs`, and each action that uses them
cites the lemmas instead of the definitions.

`EngineHeld` is inductive together with `TypeOK`: a step that keeps the status and
moves no other caller out of `InRun` leaves it alone, and the steps that take a
caller out of `InRun` set a status, or are `RunRaises` and a cancellation by the
tuner, which `Lost` names.

`SweepSlot` is inductive with `TypeOK` since its four conjuncts support each other:
`SweepRequest` needs the third and the fourth to know that no claimant is left when
both flags are down. Steps of tests and evaluations do not touch it, steps of a
sweep within its run neither, and the ways a sweep ends release it.

`RowFollowsRun` is inductive with `TypeOK`. It implies that a caller outside the
places of `HasRow` holds no row, and that one the database does not fail has left none
before its end (`NoRowBefore`), so most steps cannot disturb it (`OneCallerMoves`); the
others insert a row or clear it, with or without success (`OneRowCleared`).

`StopSticks` and `CompletedCounted` come from `RunsTold`: a run that goes on finds the
status RUNNING and the `_state` its own; while it polls, sleeps or drains nobody has set
the stop event; in the drain nothing is unsent; and what it has counted is in `results`. A
run begins only when the status is not RUNNING, so no run that goes on has another beside
it (`RunsAlone`), and only the first half of `POST /stop` may come between: it must find
the run to cancel. For sweeps `SweepSlot` says that it does, for tests `TestReferred`:
`_active_test_task` is the test that goes on. That is inductive only if a test is created
after the last one's task is over (`TestsApart`), since a cancelled test's `finally` clears
the reference. Sweeps and tests may run beside each other, and do: a test may be started
during a sweep, and one of the two is refused by the engine.

### 4.2 CRReplace

`ShapeInv` is `ReplaceTypeOK` with `CallShape`: what a call that is past the read
knows (there is a snapshot), and that a call under way has an operation and has not
`left`. `ReplaceTypeOK` alone is not inductive: a rollback would restore `None`.

`MissingExplained` is not inductive either. A CR is `dying` before it is `absent`,
and it is a later step of nobody in particular (`Gone`) that makes it so;
`AwayExplained` therefore explains every CR that is not live. A call whose wait raises
(`WaitFails`) leaves `waiting` behind as its place. An apply must still be
working on the target it deleted, although the target may be pinned anew meanwhile
(`AtTarget`), and a deletion that a cancellation has left to a thread must belong to
a call that gave up (`OrphansExplained`). The conjunction `MissingInv` is inductive.
The proof treats each step by what it does to the CRs: it moves a call only
(`QuietStep`), deletes (`DeletedAway`) or creates (`CreatedLive`).

`SnapshotInv` strengthens `SnapshotTrue` by what may fill the gap between delete and
create: a CR that a call is about to create is absent; a request left in a thread that
would create it (`Fills`) is the only one, and no call is past its deletion of that target
meanwhile (`Clears`). `Keeping` names the calls that still need their snapshot. It is
inductive with `MissingInv`, whose `AtTarget` says that an apply works on the target it
deleted. The tuner inherits it, as it does `MissingInv`, through `StepOnReplacement`.

### 4.3 TunerSession

`SessionInv` adds the tuner's own types, which hold only with two facts about the
program: the lock is held across a suspension exactly by the session in `pausing` or
`recording`, and a session in a trial has evaluated fewer than it was asked for.

The refinement: each action of `TunerSession` leaves the variables of `CRReplace`
alone or does one of its operations (`StepOnReplacement`, by action); each operation
is allowed by the instance in which every call may be cancelled
(`CallStepAllowed`, `InterruptAllowed`, `OthersAllowed`). That the callers named by
a step are callers at all needs `SessionInv`: attempts are within bounds. The same
two lemmas carry `MissingInv` over to the tuner.

`FlagsInv` is about sessions that follow one another (`NoOverlap`, which `TS_two_tunings`
shows the code does not enforce). A session that goes on finds `_running` up unless the
cancel event is set, so its loop ends early only for a stop or a failure. One that was asked to stop finds the event
set, so it asks for no further trial, and one whose apply failed finds it set, so it does
not report completion. `RunningInv` adds who will reset `_running`: it is up for a session
that goes on, the task a stop waits for has begun its trials, and so has one it has killed.

`DeployInv` follows the best parameters to the CR. Before the first trial there are none,
and `POST /apply-best` is refused (`AskersInv`); it can be accepted before the report only
when a stop or a failed apply has lowered `_running`, and then the cancel event is set and
there is no report; from the report on `best` does not change, so each apply, the session's
and the requests', makes the same body (`Making`). `CallsInv` says that no request of an
earlier call is still in a thread when the final one succeeds: only a killed session leaves
one. Afterwards whoever replaces the CR makes the best parameters or puts them back
(`DeployedInv`).

### 4.4 LearnedLimits

`NoGoodTrialRefused` speaks of the limits in force only, and they come from the table,
which earlier tunings filled. `LimitsInv` therefore says of every limit, in force or in
the table, that it is true of the target (`TrueLimit`): its maximum is what the target
has at the utilization the limit names. `RowRoundTrip` shows that a limit comes back
from the table as it went in, `LearnsTrueLimit` that what is learned is true, and
`TrueLimitExcludesFailures` that a true limit excludes failures only: it applies at
utilizations up to its own, where there is no more memory. `FailureRemembered` needs
two more conjuncts: the limit of a failure excludes it, and is in force while a tuning
runs.

### 4.5 Collector

`OneDefault` is not inductive: a second request that adds the default target would take
its flag away. `RegistryInv` says why there is none: the request that is adding a target
has the lock, and its target was not there when it took it. Cleanup spares the default.

`RegisteredIsFound` rests on time. `FoundInv` adds that the target a request has
registered was accessed since it arrived, and is there unless the request is older than
`INACTIVE_TIMEOUT` (`Known`); what cleanup removes was accessed longer ago than that. `OneRequestMoves` is
the part common to all steps of requests: accesses only move forward, so no request
takes from another what it counts on.

`CountInv` says of a target never collected twice at once that what the next sample can
count was generated since the last one: `counted + counter <= generated + prev`, for the
counter as it is and for the value a collection in flight has read. A restart of the pod
lowers the counter and keeps `generated`; a sample below the last one counts nothing. A
target whose collections once overlapped (`raced`) is excluded for good, since a later
sample may restore the older value.

`TypeOK` is `SampleTypes` (a counter shows no more than was generated, which bounds it) and
`RegistryTypes`, with `FoundInv` for the times of requests.

### 4.6 EventStream

Every step of the stream's specification is a step of the engine or leaves its variables
alone (`EngineBelow`), and its fairness is only more; so `StreamKeepsEngine` carries all
theorems of `LoadTestProofs` over to an engine with clients.

`NothingMissed` follows from `Heard` and `Awaited`. `Heard`: until somebody sweeps, what is
in a queue or being sent ends a stream, and a client that waits on an empty queue has
`lastTerminal` empty. A terminal event goes to every queue in the step that sets
`lastTerminal`, the replay covers what came before the subscription, and outside sweeps a
client that has sent one is closed. `Awaited`: while `lastTerminal` is empty there is a run
whose end has still to come, or one of those `AwaitsRun` names; the runs that end do so in a
step that sets it (`AwaitsStays` is what the other steps have in common).

`ReplaysFresh` is inductive with the engine's own invariants: `EngineHeld` and `NoRaise` say
that the engine is RUNNING only for a run that goes on, so the terminal event that a client
of a later run could be replayed was cleared when that run was accepted or began;
`OneLiveTest` and `SweepSlot` say that no other run ends in between.

### 4.7 Storage

`StorageInv` has four parts. `TypeInv` says where each kind of actor can be (`Shape`),
that a trial is saved under a number that is left (`Bounds`), and that nobody works
before the process serves, with nothing uncommitted (`Asleep`). Since a commit makes `disk`
equal to `seen` and a crash makes `seen` equal to `disk`, and either may come after any
statement of anybody, the other parts speak of both databases at once:

- `RowsInv`: a run that got its id has its row in both until it clears it or a client was
  told of it (`Known`), or has it in a file moved away; an open row is of a run that has
  not cleared it, or that the storage failed; what a reader clears it has handed out.
- `TrialsInv`, about the trials that are not `exposed`: what is in the table is in the copy
  of a start that archives (`Copied`); from then on it is in the archive, but for what that
  start's own session has saved (`Covered`); a trial that waits for its commit is not lost
  meanwhile (`Latest`); and an acknowledged trial is in both databases, in the table or an
  archive (`Kept`). Sessions may overlap; what another saves meanwhile is `exposed` at once.
- `HistoryInv`: the rows at or above a prune's threshold are at least `Keep`, whatever is
  recorded before the delete, and a row pruned but not committed has that many newer.

`PruneKeepsNewest` and `DeletedStaysDeleted` follow from these and from what each statement
does to its table.

### 4.8 Decisions

`Known` says only that a question has one of the inputs. The rest is arithmetic and sets:

- `StudyAlwaysHasChoice` needs that a suggested range is not empty after each end has been
  rounded to the grid, for every configuration. Lemmas say that quotients of the pool by a
  positive footprint are natural numbers, that rounding up or down gives a multiple of the
  step no further than a step away, and that a multiple below a number is below its
  rounding; the least and greatest of a set of numbers exist by well-foundedness of the
  naturals.
- `RiskAgreesWithCapacity`: both sides compare the same pool with multiples of the same
  footprint (`Fits`); the footprint per token is positive if a layer has full attention, and
  without one the prediction never refuses.
- `CalibrationHolds`: the overhead is rounded to whole units, and the prediction gives the
  pool back within that rounding.
- `VerdictsAreSound`, `RecommendedRatesWork`, `ScoresInOrder` compare each criterion of one
  computation with that of the other.

Five properties are about loops over data of any length. The library's induction theorems take
an operator, which these provers cannot instantiate, so the module has its own in which a *set*
takes the operator's place: `Induction` for numbers and `SetInduction` for finite sets. Each
follows from a least counterexample (`LeastExists`, `Subsets`). A step of a proof defines the
set of the numbers for which a statement holds, shows that it is closed, and hides its
definition. That recursive functions exist is proved the same way, each time by extending a
function on `0..n` by one value, and that there is one only: for sums over finite sets (`SumsExist`,
`SumsUnique`, `SumValue`), powers of two (`PowersOfTwo`), the turns of a retry (`TurnsExist`,
`LastTurn`) and the joining of sequences (`PartsExist`, `Flattened`).

- `FootprintAddsUp`: the layers that own a pool are the disjoint union of the full, the sliding
  and the linear ones (`Partition`), so the sum over them is three products (`LayersAddUp`).
- `RetriesAreBounded`: up to the first answer every turn sends and, except the last, waits;
  from there on nothing changes (`TurnByTurn`). The delays add up because each is one more
  than the sum of those before.
- `ArgumentsPatched`: `FlattenSeq` of a list longer by one item is the list joined with that
  item's tokens (`FlattenByParts`). What a list is read as (`SettingsJoined`, `LatestJoined`) and what
  is left of it (`StripJoined`) then follow item by item (`ListRead`); the one thing that crosses the
  border of two items is a flag that takes the next token, and `TakesJoined` says when. What
  is written is read back as asked for (`WrittenRead`), whatever the order of the keys.
- `PatchesDoAgree`: a PATCH merges at most two bodies into the CR; `BodyChosen` and the three
  lemmas after it say what they come to. `MergedMain` is the merge of the main container name by
  name, from which siblings are kept (`SiblingsKept`); it comes to the CR that a trial creates anew
  (`PatchIsApply`).
- `LatenciesInBucket`: the growth of all pods in a bucket is the sum of their tallies up to
  it, each times the share of its pod (`GrownProp`), which grows with the bucket (`EndedGrows`), so that the first bucket
  reaching the rank is the bucket of that request (`TallyBucket`) and the interpolation stays inside
  it (`QuantileWithin`). A lower percentage is never shown above a higher one even for counts that do
  not grow with the bucket, as after a restart (`QuantilesOrdered`).

### 4.9 Hypotheses of the theorems

None is there for the proof alone: TLC finds a counterexample without it, most of them a
defect section 5 lists.

| hypothesis | what happens without it |
|---|---|
| `OneNamespace = FALSE` | a rollback with both targets in one namespace deletes the CR of the one pinned last and recreates the other |
| `"api" \notin Faults` (`SnapshotTrue`) | a create of a cancelled call may land between another call's delete and its restore, when a request of that call fails |
| `[]NoOverlap` | a session that begins beside a stopped one clears its cancel event, and the old one resets `_running` of the new |
| `StudyFails = FALSE` | a study that cannot be set up leaves `_running` set |
| one session (`BestDeployed`) | the next session's trials are deployed over the result of the last, as they should be |
| `[]TestsApart` | a test created while a cancelled one unwinds loses its reference in the router; `POST /stop` then stops the engine and leaves the test, which overwrites the status |
| `Tuners = {}` | `POST /stop` does not know evaluations: one that waits for its row goes on after the stop, overwrites the status when its preflight fails, or counts into the `_state` of the next run |
| `[]OneLiveTest` | a test that begins while a cancelled one unwinds is dropped by the router and ends under the next |
| `"raise" \notin Outcomes` | a request that raises leaves the status RUNNING, and the next test's client finds the old end |

`NoOverlap`, `OneLiveTest` and `TestsApart` are met by every behaviour in which a client starts
the next tuning or test after the last is over; `TS_one` and `ES_fair` check their properties on
such instances, stops, cancellations and failures included.

### 4.10 What is only model-checked

- *Liveness*: `RunsEnd`, `StreamEnds`, `TuningFinishes`, `FirstAnswered`,
  `ActiveCollected`. They rest on fairness, hence on `ENABLED`, which these provers do not
  reason about.
- *Cases outside the hypotheses of section 4.9* in which a property may hold all the same, such
  as `CompletedCounted` for one evaluation beside a sweep, which TLC finds true of such an
  instance; with two evaluations it is false.

## 5. Disagreements found

Each is a counterexample of a run; `PROJECT.json` quotes the text it contradicts.

- **`LT_two_tests`** `POST /start`, `/stop`, `/start`: the first test's `finally`
  runs after the second was registered and clears the reference to it
  (`routers/load_test.py:66`). A third start is accepted beside the second.
- **`TS_two_tunings`** `stop` resets `_running` before the task has ended
  (`services/auto_tuner.py:560`): a new tuning is accepted beside the old one.
- **`ES_sweep`** a comment (`routers/load_test.py:333`) says that during a sweep the
  stream ends with `sweep_completed`. The flag is read after the event was sent, when
  `finish_sweep` has run; outside a sweep that event ends no stream, and the client
  waits for the keepalives.

How likely `TS_two_tunings` and its consequences are depends on where the stopped
session is: one in `wait_for_ready` polls the cancel event and usually sees it
within the 0.1 s pause of the next start, while one applying parameters or running
an evaluation misses it once the next start has cleared it.

Seen while modelling, with the same models and other constants or without a condition a
property has, and not kept as runs of their own:

- a trial does not boot and its logs are read; `POST /stop`, then `POST /apply-best`, whose
  apply takes the CR of that trial for its snapshot. The rollback
  (`services/k8s_operator.py:476`) then deletes the best CR and recreates the one that did not
  boot, where a comment (`services/auto_tuner.py:211`) says that it replaces the failing pod
  with a healthy one. (`RollbackOwn` without `asked = {}`.)
- a model of sliding layers only has 0 KV bytes per token, which `kv_cache_oom_risk` takes for
  "unknown" (`services/tuner_logic.py:62`): a trial of a length of which not one sequence fits
  is not skipped, although `docs/architecture.md:170` says that one sequence must fit.
  (The second half of `RiskAgrees` without `full_layers > 0`.)
- a step of a sweep whose first requests all fail alike is broken off and answers without
  statistics; the sweep reads 0 requests, takes the step for one that is not saturated and may
  recommend its rate (`services/load_engine.py:798`), "the recommended operating point" of
  `models/load_test.py:173`, at which nothing was answered. (`RecommendedWorks` without
  `total > 0`.)
- an exception that `_dispatch_request` does not catch leaves the status RUNNING
  for good (`Lost`, second case);
- dispatch tasks queued on the semaphore send their requests after a stop;
- `stop` during the drain of an evaluation lets `run` be entered again beside it,
  and the first then finalizes the `_state` of the second;
- a cancellation while `set_running` or `clear_running` is awaited may leave its row
  behind, and so does a failed commit there, which is only logged (`ClearRow`);
- a poll of the deletion wait of an apply that raises what is no `ApiException` leaves the
  CR deleted: its guard restores after a timeout or a cancellation only
  (`services/k8s_operator.py:385`), as `CHANGELOG.md:322` has it;
- an exception of `resolve_model_name` after `mark_sweep_started` keeps the sweep
  slot (`SweepRequestFails`), for ever in a process without tests or sweeps;
- a test stopped before its task ran leaves no terminal event to replay;
- the restore reads the pinned target again and misses its CR if it has changed;
- so does a rollback: with both targets in one namespace it deletes the CR of the
  target pinned last, recreates the one of the snapshot and reports success, and the
  deleted one stays away (`MissingExplained` fails with `OneNamespace = TRUE`);
- the `finally` of an old tuning resets `_running` of a new one, which then reports
  completion early; the start of a new one clears the cancel event of an old one,
  which goes on;
- a refused second `POST /start` has pinned the target of the one that runs;
- a study that cannot be set up leaves `_running` set (`StudySetupFails`);
- a sweep started after a `POST /stop` takes the status STOPPED for a stop of its
  own and ends without a step (`services/load_engine.py:725`);
- `_recreate_from_snapshot` catches `Exception`, not `CancelledError`
  (`services/k8s_operator.py:463`): a stop during a restore that a timeout has started
  leaves the CR deleted;
- a rejected `POST /start` has pinned its target (`routers/tuner.py:607`): `apply-best`
  then replaces a CR that was not tuned;
- a client still waiting for the queued `completed` of a sweep's last step takes it
  for the end once the sweep is over and misses `sweep_completed`.

Seen while writing `Storage` and `Collector`:

- an archive of trials that fails is followed by the clear (`routers/tuner.py:589`):
  the trials are lost (`Unarchived`), and a failed `get_trials` looks like "no trials";
- a session that was stopped saves its last trial while the next start is past its look at
  the table: the trial is cleared with it, or takes the number of one of the next session's
  (`Crowded`);
- a request to the collector that outlasts `INACTIVE_TIMEOUT`, at a Kubernetes call without
  a timeout, loses the target it has registered to the cleanup;
- two patches of a benchmark that overlap lose one (`routers/benchmark.py:246`);
- a failed commit leaves its statement in the open transaction, and the next commit
  of anybody makes it durable although its caller was told it failed;
- the loop and an immediate collection of one target overlap: the one that began
  earlier may store later, and tokens are counted twice (`raced`);
- `get_has_monitoring_label` without a type looks up a key that is never there, so
  `POST /batch` always says that there is no label.

Seen while writing the decisions, where the properties exclude the case by a premise
that names it:

- a trial all of whose requests fail has p99 0, meets every SLA and scores 0, better
  than any SLA violation (`services/tuner_logic.py:207`), and makes `best.sla_met` true,
  which `docs/details/api-spec.md:802` says is false when no trial met the SLA;
- with an error threshold of 100 % a step of a sweep that fails altogether can be the
  recommended one (the premise of `RecommendedWorks`); if the first step fails, the
  latency criterion never applies;
- the collector's `mean_*_ms` are medians (`services/multi_target_collector.py:841`),
  which alerts compare with thresholds for means, and the live p99 is compared with
  thresholds for p95;
- an LLMInferenceService keeps its arguments in one string: joining them drops the
  quotes of JSON values (`services/cr_adapter.py:115`);
- a hybrid model with few blocks has a suggested range of one value, which the
  validation of a start rejects: whenever the blocks do not exceed the suggested lower end,
  which may be as high as 256 (`services/model_analysis.py:559`). `StudyHasChoice` names the
  case by its premise `cap > 256`; the proof found the premise of an earlier version, a cap of 32,
  too weak, and the instance now has the observation that shows it (100 blocks);
- a sanitized suggestion may fall below a lower end that is not a multiple of 32, and its
  utilization below the lower end that `suggest_params` raises for the weights
  (`services/tuner_logic.py:172`): the code brings it into the range of the request only.

## 6. What is not modelled

- The tuner's event stream and `event_broadcaster.py`: a set of queues without replay.
  The stream ends on `tuning_complete` or after 21 keepalives, so `tuning_stopped` and
  `tuning_error` leave a client to the latter.
- The composition of `TunerSession` with `LoadTest`: an evaluation is an outcome in
  the one and a caller in the other; what a refused evaluation scores is in `Verdicts`.
- `PATCH /vllm-config` beside a tuning: its check of `is_running` and its patch are
  separated by awaits. `ServingArgs` has the body of the patch, not its timing.
- Study internals: pruning, the second fidelity, importance, Optuna's choices; a trial's
  score is any.
- `serving_advisor.py`, the reader of a model's files and its cache, the rules of
  `boot_diagnosis.py` that name no limit, LLM answers: advice, no state the rest reads.
- PromQL, the exposition format and DCGM: parsing of what another system sends.
- `remove_target` and `_compute_histogram_stats`: no caller outside the tests.
- `wait_for_ready` is an outcome; its polling only reads.
- Statistics of a run (`_compute_stats`): `LoadTest` counts requests.
- Presets, SLA profiles, saved sweep results, imports, listings, runtime configuration:
  routes that read or write once; and the frontend's views.
- `auto_tuner.py`'s warm-up load: the engine sees it as a further evaluation.

## 7. Plan

Done: `LoadTest`, `CRReplace`, `TunerSession`, `EventStream`, `Storage`, `Collector`,
`LearnedLimits`, `Decisions` and what it is made of.

Theorems: those of section 4 are done. One is left, `CompletedCounted` with one evaluation of the
tuner beside sweeps, where it holds on small instances although `StopSticks` does not.

Modules, if the model is to grow: `PATCH /vllm-config` as a caller of `CRReplace` that
takes no lock; the cache of model analyses with its refresh; the tuner's stream.

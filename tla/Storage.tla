------------------------------ MODULE Storage -------------------------------
(***************************************************************************)
(* What the backend keeps in SQLite (services/storage.py), who writes it   *)
(* (runs, tuning sessions, routers, the health monitor) and what is left   *)
(* of it over a crash, a shutdown and a restart (main.py).                 *)
(*                                                                         *)
(* One connection serves every coroutine.  A write is two calls, execute   *)
(* and commit, each of which suspends, and the transaction that execute    *)
(* opens is the connection's: a commit makes durable whatever anybody has  *)
(* executed by then, a read sees what nobody has committed yet, and        *)
(* nothing is ever rolled back by the code.                                *)
(***************************************************************************)
EXTENDS Integers, FiniteSets

CONSTANTS Runs,      \* load tests and tunings that record themselves
          Starts,    \* requests POST /tuner/start, and the sessions they begin
          Readers,   \* requests GET /status/interrupted
          Saves,     \* requests that save the benchmark
          Patches,   \* requests PATCH /benchmark/{id}/metadata, each of a
                     \* field of its own
          Deletes,   \* requests DELETE /benchmark/{id}
          Monitor,   \* the task of StorageHealthMonitor
          Shutdown,  \* the part of lifespan() after its yield
          Scenarios, \* the sets of actors an instance looks at together
          MaxTrials, \* trials of a session
          Keep,      \* keep_count of a prune
          MaxClock,  \* bound on timestamps
          Lives,     \* bound on starts of the process
          Faults     \* "read", "write": the database refuses; "corrupt": the
                     \* integrity check fails; "cancel": a run is cancelled

Clearers == Readers \cup {Shutdown}
Handlers == Readers \cup Saves \cup Patches \cup Deletes
Actors == Runs \cup Starts \cup Handlers \cup {Monitor, Shutdown}

\* An actor has one kind of work.
Kinds ==
  <<Runs, Starts, Readers, Saves, Patches, Deletes, {Monitor}, {Shutdown}>>

ASSUME StorageAssumption ==
  /\ \A i, j \in 1 .. 8 : i # j => Kinds[i] \cap Kinds[j] = {}
  /\ Keep \in Nat \ {0} /\ MaxTrials \in Nat /\ MaxClock \in Nat /\ Lives \in Nat
  /\ Scenarios \subseteq SUBSET Actors
  /\ Faults \subseteq {"read", "write", "corrupt", "cancel"}

VARIABLES
  present,      \* the scenario
  disk,         \* the committed database
  seen,         \* the database as the connection sees it
  aside,        \* what was moved away as corrupted
  life,         \* where the process is in lifespan()
  lives,        \* how often it was started
  connected,    \* storage._conn is not None
  interrupted,  \* routers.status._interrupted_runs
  pc,           \* where each actor is
  stage,        \* which call of a write it awaits: execute or commit
  hasId,        \* runs whose set_running returned a row id
  taken,        \* rows a clearer has yet to clear
  copy,         \* trials a start has read
  number,       \* the trial a session saves
  meta,         \* metadata a patch has merged
  stamp, clock, \* timestamps
  threshold,    \* the prune's threshold
  running,      \* AutoTuner._running
  stopEvent,    \* AutoTuner._cancel_event is set
  failed,       \* actors the storage has answered with a failure
  given,        \* rows handed to a client or cleared by a shutdown
  saved,        \* trials whose save was acknowledged
  exposed       \* trials that nothing archives before they are cleared, see
                \* Crowded and Unarchived

dbVars == <<disk, seen>>
lifeVars == <<aside, life, lives, connected>>
localVars == <<hasId, taken, copy, number, meta, stamp, clock, threshold>>
tunerVars == <<running, stopEvent>>
ghostVars == <<failed, given, saved, exposed>>
vars == <<present, dbVars, lifeVars, interrupted, pc, stage, localVars, tunerVars, ghostVars>>

Trials == Starts \X (0 .. MaxTrials - 1)

\* open: uncleared rows of running_state; bench: {} or the one benchmark's
\* metadata, as the set of patches it shows.
Databases ==
  [open : SUBSET Runs, trials : SUBSET Trials,
   archive : SUBSET [by : Starts, trials : SUBSET Trials],
   history : SUBSET (Runs \X (0 .. MaxClock)), bench : SUBSET SUBSET Patches]

EmptyDatabase ==
  [open |-> {}, trials |-> {}, archive |-> {}, history |-> {}, bench |-> {}]

Init ==
  /\ present \in Scenarios
  /\ disk = EmptyDatabase /\ seen = EmptyDatabase /\ aside = EmptyDatabase
  /\ life = "down" /\ lives = 0 /\ connected = FALSE /\ interrupted = {}
  /\ pc = [a \in Actors |-> "idle"] /\ stage = [a \in Actors |-> "none"]
  /\ hasId = {} /\ taken = [a \in Clearers |-> {}]
  /\ copy = [s \in Starts |-> {}] /\ number = [s \in Starts |-> 0]
  /\ meta = [p \in Patches |-> {}]
  /\ stamp = [r \in Runs |-> 0] /\ clock = 0 /\ threshold = 0
  /\ running = FALSE /\ stopEvent = FALSE
  /\ failed = {} /\ given = {} /\ saved = {} /\ exposed = {}

-----------------------------------------------------------------------------
(* The statements                                                          *)

SetRunning(r, db) == [db EXCEPT !.open = @ \cup {r}]

ClearRunning(r, db) == [db EXCEPT !.open = @ \ {r}]
SaveLoadTest(r, db) == [db EXCEPT !.history = @ \cup {<<r, stamp[r]>>}]

\* The trial's number is the primary key, in whatever session.
SaveTrial(s, db) ==
  [db EXCEPT !.trials = {t \in @ : t[2] # number[s]} \cup {<<s, number[s]>>}]

SaveTuningSession(s, db) ==
  [db EXCEPT !.archive = @ \cup {[by |-> s, trials |-> copy[s]]}]

ClearTrials(db) == [db EXCEPT !.trials = {}]

SaveBenchmark(db) == [db EXCEPT !.bench = {{}}]

\* Mutant: the update inserts what is not there.
UpsertMetadata(p, db) == [db EXCEPT !.bench = {meta[p]}]

UpdateBenchmarkMetadata(p, db) ==
  [db EXCEPT !.bench = IF @ = {} THEN {} ELSE {meta[p]}]

DeleteBenchmark(db) == [db EXCEPT !.bench = {}]

\* Mutant: the threshold's own row goes too.
PruneThrough(db) == [db EXCEPT !.history = {h \in @ : h[2] > threshold}]

Prune(db) == [db EXCEPT !.history = {h \in @ : h[2] >= threshold}]

\* The row a clearer is at: it goes through its list one by one.
Row(a) == CHOOSE r \in taken[a] : TRUE

Statement(a, db) ==
  CASE pc[a] = "marking"   -> SetRunning(a, db)
    [] pc[a] = "clearing"  -> IF a \in hasId THEN ClearRunning(a, db) ELSE db
    [] pc[a] = "recording" -> SaveLoadTest(a, db)
    [] pc[a] = "saving"    -> SaveTrial(a, db)
    [] pc[a] = "archiving" -> SaveTuningSession(a, db)
    [] pc[a] = "wiping"    -> ClearTrials(db)
    [] pc[a] = "reporting" -> ClearRunning(Row(a), db)
    [] pc[a] = "inserting" -> SaveBenchmark(db)
    [] pc[a] = "updating"  -> UpdateBenchmarkMetadata(a, db)
    [] pc[a] = "deleting"  -> DeleteBenchmark(db)
    [] pc[a] = "pruning"   -> Prune(db)

-----------------------------------------------------------------------------
(* A write: execute, commit, and what its caller does with the answer.     *)

\* Between its look at the trials and the end of its session, a start clears
\* what is in the table or replaces what has the number of a trial of its own.
PastLook(s) ==
  pc[s] \in {"archiving", "wiping", "starting", "trying", "evaluating", "saving"}

\* What a session saves while another start has come so far is in nobody's
\* archive when it goes.
Crowded(s) == IF \E u \in Starts \ {s} : PastLook(u) THEN {<<s, number[s]>>} ELSE {}

\* So is what a start clears although it could not read or archive it.
Unarchived == seen.trials

\* The caller awaits a write of its own next.
Writes(a, where) ==
  /\ pc' = [pc EXCEPT ![a] = where]
  /\ stage' = [stage EXCEPT ![a] = "execute"]

Goes(a, where) ==
  /\ pc' = [pc EXCEPT ![a] = where]
  /\ stage' = [stage EXCEPT ![a] = "none"]

RunAnswered(r, ok) ==
  /\ CASE pc[r] = "marking"   -> Goes(r, "running")
       [] pc[r] = "clearing"  -> Writes(r, "recording")
       [] pc[r] = "recording" -> Goes(r, "done")
  /\ hasId' = IF pc[r] = "marking" /\ ok THEN hasId \cup {r} ELSE hasId
  /\ \E t \in {clock, clock + 1} \cap (0 .. MaxClock) :
       IF pc[r] = "clearing" THEN clock' = t /\ stamp' = [stamp EXCEPT ![r] = t]
       ELSE UNCHANGED <<clock, stamp>>
  /\ UNCHANGED <<taken, number, saved>>

StartAnswered(s, ok) ==
  /\ CASE pc[s] = "archiving" -> Writes(s, "wiping")
       [] pc[s] = "wiping"    -> Goes(s, "starting")
       [] pc[s] = "saving"    -> Goes(s, "trying")
  /\ IF pc[s] = "saving"
     THEN /\ number' = [number EXCEPT ![s] = @ + 1]
          /\ saved' = IF ok THEN saved \cup {<<s, number[s]>>} ELSE saved
     ELSE UNCHANGED <<number, saved>>
  /\ UNCHANGED <<hasId, taken, clock, stamp>>

ClearerAnswered(a) ==
  /\ taken' = [taken EXCEPT ![a] = @ \ {Row(a)}]
  /\ IF taken'[a] = {} THEN Goes(a, "done") ELSE Writes(a, "reporting")
  /\ UNCHANGED <<hasId, number, saved, clock, stamp>>

Answered(a, ok) ==
  /\ failed' = IF ok THEN failed ELSE failed \cup {a}
  /\ exposed' = exposed \cup (IF pc[a] = "archiving" /\ ~ok THEN Unarchived ELSE {})
  /\ \/ a \in Runs /\ RunAnswered(a, ok)
     \/ a \in Starts /\ StartAnswered(a, ok)
     \/ a \in Clearers /\ ClearerAnswered(a)
     \/ /\ a \in Saves \cup Patches \cup Deletes
        /\ Goes(a, "done")
        /\ UNCHANGED <<hasId, taken, number, saved, clock, stamp>>
     \/ /\ a = Monitor
        /\ Goes(a, "idle")
        /\ UNCHANGED <<hasId, taken, number, saved, clock, stamp>>
  /\ UNCHANGED <<present, lifeVars, interrupted, copy, meta, threshold, tunerVars, given>>

Executed(a) ==
  /\ stage[a] = "execute" /\ connected
  /\ seen' = Statement(a, seen)
  /\ stage' = [stage EXCEPT ![a] = "commit"]
  /\ exposed' = exposed \cup (IF pc[a] = "saving" THEN Crowded(a) ELSE {})
  /\ UNCHANGED <<present, disk, lifeVars, interrupted, pc, localVars, tunerVars,
                 failed, given, saved>>

\* Mutant: a write is answered before its commit.
CommittedNot(a) ==
  /\ stage[a] = "commit"
  /\ UNCHANGED dbVars
  /\ Answered(a, TRUE)

Committed(a) ==
  /\ stage[a] = "commit"
  /\ disk' = seen
  /\ UNCHANGED seen
  /\ Answered(a, TRUE)

\* Execute or commit raises and the storage answers for the exception: -1,
\* None, False or nothing.  What was executed stays in the open transaction.
\* Without a connection every call answers so at once.
WriteFailed(a) ==
  /\ \/ stage[a] = "execute" /\ ~connected
     \/ stage[a] \in {"execute", "commit"} /\ "write" \in Faults
  /\ UNCHANGED dbVars
  /\ Answered(a, FALSE)

-----------------------------------------------------------------------------
(* Runs                                                                    *)

Serving(a) == life = "serving" /\ a \in present /\ pc[a] = "idle"

RunBegins(r) ==
  /\ Serving(r)
  /\ Writes(r, "marking")
  /\ UNCHANGED <<present, dbVars, lifeVars, interrupted, localVars, tunerVars, ghostVars>>

RunOver(r) ==
  /\ pc[r] = "running"
  /\ Writes(r, "clearing")
  /\ UNCHANGED <<present, dbVars, lifeVars, interrupted, localVars, tunerVars, ghostVars>>

\* The run's task is cancelled while it awaits set_running: the call it awaits
\* goes through in the database thread, and nobody has the id.
MarkingCancelled(r) ==
  /\ pc[r] = "marking" /\ connected /\ "cancel" \in Faults
  /\ IF stage[r] = "execute"
     THEN seen' = SetRunning(r, seen) /\ UNCHANGED disk
     ELSE disk' = seen /\ UNCHANGED seen
  /\ Goes(r, "done")
  /\ failed' = failed \cup {r}
  /\ UNCHANGED <<present, lifeVars, interrupted, localVars, tunerVars, given, saved, exposed>>

-----------------------------------------------------------------------------
(* POST /tuner/start and its session                                       *)

Tuning(s) == pc[s] \in {"trying", "evaluating", "saving"}

\* The router asks for the flag only; a session that was stopped may still be
\* at its last trial.
StartRequested(s) ==
  /\ Serving(s) /\ ~running
  /\ Goes(s, "reading")
  /\ UNCHANGED <<present, dbVars, lifeVars, interrupted, localVars, tunerVars, ghostVars>>

\* Mutant: the trials are cleared without being archived.
TrialsReadForNothing(s) ==
  /\ pc[s] = "reading"
  /\ copy' = [copy EXCEPT ![s] = seen.trials]
  /\ Writes(s, "wiping")
  /\ UNCHANGED <<present, dbVars, lifeVars, interrupted, hasId, taken, number,
                 meta, stamp, clock, threshold, tunerVars, ghostVars>>

\* _auto_save_tuning_session: get_trials answers an empty list for a failure,
\* which is the answer for no trials.
TrialsRead(s) ==
  /\ pc[s] = "reading"
  /\ \/ /\ connected
        /\ copy' = [copy EXCEPT ![s] = seen.trials]
        /\ UNCHANGED <<failed, exposed>>
     \/ /\ ~connected \/ "read" \in Faults
        /\ copy' = [copy EXCEPT ![s] = {}]
        /\ failed' = failed \cup {s}
        /\ exposed' = exposed \cup Unarchived
  /\ Writes(s, IF copy'[s] = {} THEN "wiping" ELSE "archiving")
  /\ UNCHANGED <<present, dbVars, lifeVars, interrupted, hasId, taken, number,
                 meta, stamp, clock, threshold, tunerVars, given, saved>>

\* The preflight fails, or AutoTuner.start finds another session running.
StartRejected(s) ==
  /\ pc[s] = "starting"
  /\ Goes(s, "done")
  /\ UNCHANGED <<present, dbVars, lifeVars, interrupted, localVars, tunerVars, ghostVars>>

SessionBegins(s) ==
  /\ pc[s] = "starting" /\ ~running
  /\ running' = TRUE /\ stopEvent' = FALSE
  /\ Goes(s, "trying")
  /\ UNCHANGED <<present, dbVars, lifeVars, interrupted, localVars, ghostVars>>

TrialBegins(s) ==
  /\ pc[s] = "trying" /\ number[s] < MaxTrials
  /\ running /\ ~stopEvent
  /\ Goes(s, "evaluating")
  /\ UNCHANGED <<present, dbVars, lifeVars, interrupted, localVars, tunerVars, ghostVars>>

\* A trial that was measured, failed or was skipped is saved; one that is
\* skipped is saved at once.
TrialEnds(s) ==
  /\ pc[s] = "evaluating"
  /\ Writes(s, "saving")
  /\ UNCHANGED <<present, dbVars, lifeVars, interrupted, localVars, tunerVars, ghostVars>>

\* One whose wait is given up for a stop, or whose apply fails, is not; the
\* latter stops the tuning.
TrialUnsaved(s) ==
  /\ pc[s] = "evaluating"
  /\ \/ stopEvent /\ UNCHANGED tunerVars
     \/ running' = FALSE /\ stopEvent' = TRUE
  /\ number' = [number EXCEPT ![s] = @ + 1]
  /\ Goes(s, "trying")
  /\ UNCHANGED <<present, dbVars, lifeVars, interrupted, hasId, taken, copy, meta,
                 stamp, clock, threshold, ghostVars>>

\* Its trials are done, it was stopped, or anything raised; the flag is reset
\* whosever it is.
SessionEnds(s) ==
  /\ pc[s] \in {"trying", "evaluating"}
  /\ running' = FALSE
  /\ Goes(s, "done")
  /\ UNCHANGED <<present, dbVars, lifeVars, interrupted, localVars, stopEvent, ghostVars>>

\* stop() waits no longer and cancels the task while it awaits save_trial: the
\* call it awaits goes through.
SavingCancelled(s) ==
  /\ pc[s] = "saving" /\ connected /\ "cancel" \in Faults
  /\ IF stage[s] = "execute"
     THEN seen' = SaveTrial(s, seen) /\ exposed' = exposed \cup Crowded(s) /\ UNCHANGED disk
     ELSE disk' = seen /\ UNCHANGED <<seen, exposed>>
  /\ running' = FALSE
  /\ Goes(s, "done")
  /\ UNCHANGED <<present, lifeVars, interrupted, localVars, stopEvent, failed, given, saved>>

\* POST /tuner/stop: the flag is reset before the session has ended.
TunerStopped ==
  /\ life = "serving" /\ running
  /\ running' = FALSE /\ stopEvent' = TRUE
  /\ UNCHANGED <<present, dbVars, lifeVars, interrupted, pc, stage, localVars, ghostVars>>

-----------------------------------------------------------------------------
(* Routers                                                                 *)

\* GET /status/interrupted takes the list, then clears its rows.
InterruptedRead(g) ==
  /\ Serving(g)
  /\ taken' = [taken EXCEPT ![g] = interrupted]
  /\ given' = given \cup interrupted
  /\ interrupted' = {}
  /\ IF interrupted = {} THEN Goes(g, "done") ELSE Writes(g, "reporting")
  /\ UNCHANGED <<present, dbVars, lifeVars, hasId, copy, number, meta, stamp,
                 clock, threshold, tunerVars, failed, saved, exposed>>

SaveRequested(b) ==
  /\ Serving(b)
  /\ Writes(b, "inserting")
  /\ UNCHANGED <<present, dbVars, lifeVars, interrupted, localVars, tunerVars, ghostVars>>

\* The router reads the benchmark and merges; the storage looks again whether
\* it is there (BenchmarkFound) and updates.  A failed read is a 404.
BenchmarkRead(p) ==
  /\ Serving(p)
  /\ \/ \E m \in seen.bench :
          /\ connected
          /\ meta' = [meta EXCEPT ![p] = m \cup {p}]
          /\ Goes(p, "merged")
     \/ /\ seen.bench = {} \/ ~connected \/ "read" \in Faults
        /\ Goes(p, "done")
        /\ UNCHANGED meta
  /\ UNCHANGED <<present, dbVars, lifeVars, interrupted, hasId, taken, copy,
                 number, stamp, clock, threshold, tunerVars, ghostVars>>

BenchmarkFound(p) ==
  /\ pc[p] = "merged"
  /\ \/ connected /\ seen.bench # {} /\ Writes(p, "updating")
     \/ (seen.bench = {} \/ ~connected \/ "read" \in Faults) /\ Goes(p, "done")
  /\ UNCHANGED <<present, dbVars, lifeVars, interrupted, localVars, tunerVars, ghostVars>>

DeleteRequested(d) ==
  /\ Serving(d)
  /\ Writes(d, "deleting")
  /\ UNCHANGED <<present, dbVars, lifeVars, interrupted, localVars, tunerVars, ghostVars>>

-----------------------------------------------------------------------------
(* StorageHealthMonitor, near the capacity.  A checkpoint moves what is    *)
(* committed from one file to another and changes nothing here.            *)

Newer(h, rows) == {g \in rows : g[2] > h[2]}

\* The keep_count-th newest timestamp, if there are that many rows.
Thresholds(rows) ==
  {h[2] : h \in {g \in rows :
     /\ Cardinality(Newer(g, rows)) < Keep
     /\ Cardinality({f \in rows : f[2] >= g[2]}) >= Keep}}

PruneBegins ==
  /\ Serving(Monitor) /\ connected
  /\ \E t \in Thresholds(seen.history) :
       /\ \E h \in seen.history : h[2] < t
       /\ threshold' = t
  /\ Writes(Monitor, "pruning")
  /\ UNCHANGED <<present, dbVars, lifeVars, interrupted, hasId, taken, copy,
                 number, meta, stamp, clock, tunerVars, ghostVars>>

-----------------------------------------------------------------------------
(* lifespan()                                                              *)

Boot ==
  /\ life = "down" /\ lives < Lives
  /\ life' = "opening" /\ lives' = lives + 1
  /\ UNCHANGED <<present, dbVars, aside, connected, interrupted, pc, stage,
                 localVars, tunerVars, ghostVars>>

Merged(x, y) == [f \in DOMAIN x |-> x[f] \cup y[f]]

\* initialize(): a file that fails the integrity check is moved away and the
\* next attempt begins with a new one; three attempts that raise leave the
\* process without a storage.
Initialize ==
  /\ life = "opening"
  /\ life' = "detecting"
  /\ \/ connected' = TRUE /\ UNCHANGED <<dbVars, aside>>
     \/ "write" \in Faults /\ UNCHANGED <<dbVars, aside, connected>>
     \/ /\ "corrupt" \in Faults /\ lives > 1
        /\ connected' = TRUE
        /\ aside' = Merged(aside, disk)
        /\ disk' = EmptyDatabase /\ seen' = EmptyDatabase
  /\ UNCHANGED <<present, lives, interrupted, pc, stage, localVars, tunerVars, ghostVars>>

\* Mutant: get_interrupted_runs without its WHERE.
DetectInterruptedAll ==
  /\ life = "detecting"
  /\ life' = "serving"
  /\ interrupted' = hasId \cup seen.open
  /\ UNCHANGED <<present, dbVars, aside, lives, connected, pc, stage, localVars,
                 tunerVars, ghostVars>>

\* What get_interrupted_runs finds goes to the status router; a failure is an
\* empty list.
DetectInterrupted ==
  /\ life = "detecting"
  /\ life' = "serving"
  /\ \/ connected /\ interrupted' = seen.open
     \/ (~connected \/ "read" \in Faults) /\ interrupted' = {}
  /\ UNCHANGED <<present, dbVars, aside, lives, connected, pc, stage, localVars,
                 tunerVars, ghostVars>>

\* Where a death of the process leaves an actor: a run was cut short, or was
\* over with its row yet to clear, or has nothing to report.
Fate(a) ==
  CASE pc[a] = "idle" \/ a \in {Monitor, Shutdown} -> "idle"
    [] a \in Runs /\ pc[a] \in {"marking", "running"} -> "killed"
    [] a \in Runs /\ pc[a] = "clearing" -> "unclear"
    [] pc[a] \in {"killed", "unclear"} -> pc[a]
    [] OTHER -> "done"

Dies ==
  /\ life' = "down" /\ connected' = FALSE /\ seen' = disk /\ interrupted' = {}
  /\ pc' = [a \in Actors |-> Fate(a)]
  /\ stage' = [a \in Actors |-> "none"]
  /\ taken' = [a \in Clearers |-> {}]
  /\ running' = FALSE /\ stopEvent' = FALSE
  /\ UNCHANGED <<present, disk, aside, lives, hasId, copy, number, meta, stamp,
                 clock, threshold, ghostVars>>

Crash == life # "down" /\ Dies

Busy(a) == pc[a] \notin {"idle", "done"}

\* The server has answered its requests; background tasks go on.  The monitor
\* is cancelled, and a call it awaits goes through.
ShutdownBegins ==
  /\ life = "serving" /\ Shutdown \in present
  /\ \A a \in Handlers : ~Busy(a)
  /\ \A s \in Starts : ~Busy(s) \/ Tuning(s)
  /\ life' = "stopping"
  /\ seen' = IF connected /\ pc[Monitor] = "pruning" THEN Prune(seen) ELSE seen
  /\ disk' = IF stage[Monitor] = "commit" THEN seen ELSE disk
  /\ \/ connected /\ taken' = [taken EXCEPT ![Shutdown] = seen.open]
     \/ (~connected \/ "read" \in Faults)
          /\ taken' = [taken EXCEPT ![Shutdown] = {}]
  /\ given' = given \cup taken'[Shutdown]
  /\ pc' = [pc EXCEPT ![Monitor] = "idle",
              ![Shutdown] = IF taken'[Shutdown] = {} THEN "done" ELSE "reporting"]
  /\ stage' = [stage EXCEPT ![Monitor] = "none",
              ![Shutdown] = IF taken'[Shutdown] = {} THEN "none" ELSE "execute"]
  /\ UNCHANGED <<present, aside, lives, connected, interrupted, hasId, copy,
                 number, meta, stamp, clock, threshold, tunerVars, failed, saved, exposed>>

\* storage.close(), and the process ends with the tasks that are left.
Close == life = "stopping" /\ pc[Shutdown] = "done" /\ Dies

-----------------------------------------------------------------------------
Write(a) == Executed(a) \/ Committed(a) \/ WriteFailed(a)

Lifespan ==
  Boot \/ Initialize \/ DetectInterrupted \/ Crash \/ ShutdownBegins \/ Close

Next ==
  \/ Lifespan \/ PruneBegins
  \/ \E a \in Actors : Write(a)
  \/ \E r \in Runs : RunBegins(r) \/ RunOver(r) \/ MarkingCancelled(r)
  \/ \E s \in Starts : \/ StartRequested(s) \/ TrialsRead(s) \/ StartRejected(s)
                       \/ SessionBegins(s) \/ TrialBegins(s) \/ TrialEnds(s)
                       \/ TrialUnsaved(s) \/ SessionEnds(s) \/ SavingCancelled(s)
  \/ TunerStopped
  \/ \E g \in Readers : InterruptedRead(g)
  \/ \E b \in Saves : SaveRequested(b)
  \/ \E p \in Patches : BenchmarkRead(p) \/ BenchmarkFound(p)
  \/ \E d \in Deletes : DeleteRequested(d)

Spec == Init /\ [][Next]_vars

-----------------------------------------------------------------------------
(* Properties                                                              *)

Locations ==
  {"idle", "marking", "running", "clearing", "recording", "reading", "archiving",
   "wiping", "starting", "trying", "evaluating", "saving", "reporting", "inserting", "merged",
   "updating", "deleting", "pruning", "done", "killed", "unclear"}

TypeOK ==
  /\ present \in Scenarios
  /\ disk \in Databases /\ seen \in Databases /\ aside \in Databases
  /\ life \in {"down", "opening", "detecting", "serving", "stopping"}
  /\ lives \in 0 .. Lives /\ connected \in BOOLEAN
  /\ interrupted \subseteq Runs
  /\ pc \in [Actors -> Locations]
  /\ stage \in [Actors -> {"none", "execute", "commit"}]
  /\ hasId \subseteq Runs /\ taken \in [Clearers -> SUBSET Runs]
  /\ copy \in [Starts -> SUBSET Trials] /\ number \in [Starts -> 0 .. MaxTrials]
  /\ meta \in [Patches -> SUBSET Patches]
  /\ stamp \in [Runs -> 0 .. MaxClock] /\ clock \in 0 .. MaxClock
  /\ threshold \in 0 .. MaxClock
  /\ running \in BOOLEAN /\ stopEvent \in BOOLEAN
  /\ failed \subseteq Actors /\ given \subseteq Runs
  /\ saved \subseteq Trials /\ exposed \subseteq Trials

\* A run that was cut short is not forgotten: its row stays open over any
\* number of crashes and failed reads until a client has asked for it or an
\* orderly shutdown has cleared it, or it went away with a corrupted file,
\* whoever commits or clears around it.
KilledRunsReported ==
  \A r \in hasId :
    pc[r] = "killed" => r \in disk.open \cup aside.open \cup given

\* What a restart reports as interrupted was: a run that ended and whose row
\* was written and cleared without a failure is never among it.
NoFalseAlarm ==
  \A r \in interrupted : pc[r] \in {"killed", "unclear"} \/ r \in failed

\* A trial whose save was acknowledged is in the table or in an archived
\* session over crashes, starts that are rejected, sessions stopped at their
\* last trial and later sessions that use its number.  The code gives two kinds
\* up: a trial saved while another start was past its look at the trials, and
\* what was in the table when a start could not read or archive it.
TrialsKept ==
  \A t \in saved \ exposed :
    \/ t \in disk.trials \cup aside.trials
    \/ \E x \in disk.archive \cup aside.archive : t \in x.trials

\* Pruning leaves the keep_count newest entries alone, whatever is recorded
\* between its reading the threshold and its delete: a row that goes has that
\* many newer ones that stay.
PruneKeepsNewest ==
  [][\A h \in disk.history \ disk'.history :
       \/ h \in aside'.history
       \/ Cardinality(Newer(h, disk'.history)) >= Keep]_vars

\* A patch that read the benchmark before it was deleted does not bring it
\* back: the benchmark appears by a save only.
DeletedStaysDeleted ==
  [][seen.bench = {} /\ seen'.bench # {} /\ life' # "down"
       => \E b \in Saves : pc[b] = "inserting"]_vars
=============================================================================

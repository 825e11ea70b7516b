--------------------------- MODULE TunerSession ---------------------------
(***************************************************************************)
(* AutoTuner (services/auto_tuner.py, services/tuner_logic.py) and the     *)
(* handlers of routers/tuner.py that start it, stop it and apply its best  *)
(* parameters, on top of the CR replacement of CRReplace.                  *)
(*                                                                         *)
(* A session is one POST /start and the task it creates.  All sessions     *)
(* share the flag _running, the event _cancel_event, the reference         *)
(* _current_task and the best trial of the one AutoTuner object.  _lock is *)
(* held across suspensions by the initialisation of a session only.        *)
(***************************************************************************)
EXTENDS CRReplace

CONSTANTS Sessions,   \* POST /start requests
          Appliers,   \* POST /apply-best requests
          Stops,      \* POST /stop requests
          Trials,     \* config.n_trials
          Attempts,   \* config.n_trials * MAX_ATTEMPTS_PER_TRIAL
          MaxScore,   \* scores are 1 .. MaxScore
          StudyFails  \* whether optuna may fail to set up a study

\* The callers of CRReplace: attempt k of a session, 0 for its final apply.
Calls == (Sessions \X (0 .. Attempts)) \cup (Appliers \X {0})

ASSUME SessionAssumption ==
  /\ Callers = Calls
  /\ Sessions \cap Appliers = {} /\ None \notin Sessions \cup Appliers
  /\ Trials \in Nat \ {0} /\ Attempts \in Nat /\ Trials <= Attempts
  /\ MaxScore \in Nat \ {0} /\ StudyFails \in BOOLEAN

VARIABLES
  running,       \* AutoTuner._running
  cancelEvent,   \* AutoTuner._cancel_event
  currentTask,   \* AutoTuner._current_task
  initializing,  \* the session that holds _lock in _initialize_start_state
  best,          \* AutoTuner._best_trial
  phase,         \* where each session is suspended
  want,          \* the target its request asked for
  attempt,       \* trials a session has asked the study for
  evaluated,     \* those that count against n_trials
  ending,        \* how a session ends
  killed,        \* sessions whose task stop() has cancelled
  asked,         \* history: the sessions at work when stop() was called
  stopping,      \* where each POST /stop is
  waitsFor       \* the task it waits for

flags == <<running, cancelEvent, currentTask, initializing, best>>
progress == <<phase, attempt, evaluated, ending>>
stopVars == <<stopping, waitsFor, asked>>
sessionVars == <<flags, progress, want, killed, stopVars>>
vars == <<replaceVars, sessionVars>>

-----------------------------------------------------------------------------
\* saving, checking: in the handler; created: the task has not run yet; from
\* pausing to recording it holds _lock; ready: the first wait_for_ready; failing:
\* an apply failed, _lock is awaited; logs: the boot logs are read before a
\* rollback; closing: in the finally clause.
Working == {"ready", "skipping", "applying", "failing", "booting", "logs",
            "rolling", "evaluating", "reporting", "finalizing", "settling"}
SessionPhases == Working \cup {"idle", "saving", "checking", "rejected", "created",
                               "pausing", "recording", "closing", "over"}
Endings == {"none", "complete", "stopped", "error", "refused", "killed"}

InCall(r) == phase[r] \in {"applying", "rolling", "finalizing"}
Call(r) == <<r, IF phase[r] = "finalizing" THEN 0 ELSE attempt[r]>>

InitSession ==
  /\ ReplaceInit
  /\ running = FALSE /\ cancelEvent = FALSE /\ currentTask = None
  /\ initializing = None /\ best = None
  /\ killed = {} /\ asked = {}
  /\ phase = [r \in Sessions |-> "idle"]
  /\ want = [r \in Sessions |-> target]
  /\ attempt = [r \in Sessions |-> 0]
  /\ evaluated = [r \in Sessions |-> 0]
  /\ ending = [r \in Sessions |-> "none"]
  /\ stopping = [s \in Stops |-> "idle"]
  /\ waitsFor = [s \in Stops |-> None]

Move(r, to) == phase' = [phase EXCEPT ![r] = to]

\* The task goes to the finally clause of start().
Close(r, how) ==
  /\ Move(r, "closing")
  /\ ending' = [ending EXCEPT ![r] = how]

-----------------------------------------------------------------------------
(* POST /start                                                             *)

StartRequest(r, t) ==
  /\ phase[r] = "idle" /\ ~running
  /\ Move(r, "saving")
  /\ want' = [want EXCEPT ![r] = t]
  /\ UNCHANGED <<replaceVars, flags, attempt, evaluated, ending, killed, stopVars>>

\* Mutant: the snapshot is dropped with the old target.
PinTargetAnew(r) ==
  /\ phase[r] = "saving"
  /\ target' = want[r] /\ snapshot' = None
  /\ Move(r, "checking")
  /\ UNCHANGED <<cr, holder, orphans, callVars, flags, attempt, evaluated, ending, want, killed, stopVars>>

\* The old trials are saved and cleared: the new target is pinned.
PinTarget(r) ==
  /\ phase[r] = "saving"
  /\ Retarget(want[r])
  /\ Move(r, "checking")
  /\ UNCHANGED <<flags, attempt, evaluated, ending, want, killed, stopVars>>

\* The configuration or the preflight check is answered with an error.
StartRejected(r) ==
  /\ phase[r] = "checking"
  /\ Move(r, "rejected")
  /\ UNCHANGED <<replaceVars, flags, attempt, evaluated, ending, want, killed, stopVars>>

StartAccepted(r) ==
  /\ phase[r] = "checking"
  /\ Move(r, "created")
  /\ currentTask' = r
  /\ UNCHANGED <<replaceVars, running, cancelEvent, initializing, best, attempt,
                 evaluated, ending, want, killed, stopVars>>

-----------------------------------------------------------------------------
(* AutoTuner.start: initialisation                                         *)

StartRefused(r) ==
  /\ phase[r] = "created" /\ initializing = None /\ running /\ r \notin killed
  /\ Move(r, "over")
  /\ ending' = [ending EXCEPT ![r] = "refused"]
  /\ UNCHANGED <<replaceVars, flags, attempt, evaluated, want, killed, stopVars>>

\* A set _cancel_event makes the task sleep before it is cleared.
Pause(r) ==
  /\ phase[r] = "created" /\ initializing = None /\ ~running /\ cancelEvent
  /\ r \notin killed
  /\ initializing' = r
  /\ Move(r, "pausing")
  /\ UNCHANGED <<replaceVars, running, cancelEvent, currentTask, best, attempt,
                 evaluated, ending, want, killed, stopVars>>

Record(r) ==
  /\ \/ phase[r] = "created" /\ initializing = None /\ ~running /\ ~cancelEvent
     \/ phase[r] = "pausing"
  /\ r \notin killed
  /\ initializing' = r
  /\ cancelEvent' = FALSE /\ running' = TRUE
  /\ Move(r, "recording")
  /\ UNCHANGED <<replaceVars, currentTask, best, attempt, evaluated, ending, want,
                 killed, stopVars>>

\* Mutant: _lock is kept.
InitializedKeepsLock(r) ==
  /\ phase[r] = "recording" /\ r \notin killed
  /\ best' = None
  /\ Move(r, "ready")
  /\ UNCHANGED <<replaceVars, running, cancelEvent, currentTask, initializing,
                 attempt, evaluated, ending, want, killed, stopVars>>

\* The study is set up; _init_tuning_state dropped the trials before.
Initialized(r) ==
  /\ phase[r] = "recording" /\ r \notin killed
  /\ initializing' = None /\ best' = None
  /\ Move(r, "ready")
  /\ UNCHANGED <<replaceVars, running, cancelEvent, currentTask, attempt, evaluated,
                 ending, want, killed, stopVars>>

\* setup_study raises TunerError: state_initialized is not set yet, and the
\* finally clause leaves _running alone.
StudySetupFails(r) ==
  /\ phase[r] = "recording" /\ r \notin killed /\ StudyFails
  /\ initializing' = None /\ best' = None
  /\ Move(r, "over")
  /\ ending' = [ending EXCEPT ![r] = "error"]
  /\ UNCHANGED <<replaceVars, running, cancelEvent, currentTask, attempt,
                 evaluated, want, killed, stopVars>>

-----------------------------------------------------------------------------
(* AutoTuner.start: the trials                                             *)

\* Mutant: neither _cancel_event nor _running is looked at.
GoOnUnchecked(r, e) ==
  /\ evaluated' = [evaluated EXCEPT ![r] = e]
  /\ IF attempt[r] < Attempts /\ e < Trials
     THEN /\ \/ /\ Move(r, "skipping")
                /\ UNCHANGED replaceVars
             \/ /\ Move(r, "applying")
                /\ \E s \in Specs \ {Original} : Apply(<<r, attempt[r] + 1>>, s)
          /\ attempt' = [attempt EXCEPT ![r] = @ + 1]
          /\ UNCHANGED ending
     ELSE /\ IF cancelEvent THEN Close(r, "stopped")
             ELSE Move(r, "reporting") /\ UNCHANGED ending
          /\ UNCHANGED <<replaceVars, attempt>>

\* The head of the loop, e trials being evaluated.
GoOn(r, e) ==
  /\ evaluated' = [evaluated EXCEPT ![r] = e]
  /\ IF attempt[r] < Attempts /\ e < Trials /\ ~cancelEvent /\ running
     THEN /\ \/ /\ Move(r, "skipping")
                /\ UNCHANGED replaceVars
             \/ /\ Move(r, "applying")
                /\ \E s \in Specs \ {Original} : Apply(<<r, attempt[r] + 1>>, s)
          /\ attempt' = [attempt EXCEPT ![r] = @ + 1]
          /\ UNCHANGED ending
     ELSE /\ IF cancelEvent THEN Close(r, "stopped")
             ELSE Move(r, "reporting") /\ UNCHANGED ending
          /\ UNCHANGED <<replaceVars, attempt>>

\* wait_for_ready answers TRUE or, after a timeout or the cancel event, FALSE.
FirstReady(r) ==
  /\ phase[r] = "ready" /\ r \notin killed
  /\ \/ GoOn(r, 0)
     \/ Close(r, "error") /\ UNCHANGED <<replaceVars, attempt, evaluated>>
  /\ UNCHANGED <<flags, want, killed, stopVars>>

\* A trial predicted not to boot is recorded and not counted.
Skipped(r) ==
  /\ phase[r] = "skipping" /\ initializing = None /\ r \notin killed
  /\ GoOn(r, evaluated[r])
  /\ UNCHANGED <<flags, want, killed, stopVars>>

Applied(r) ==
  /\ phase[r] = "applying" /\ result[Call(r)] = "ok" /\ r \notin killed
  /\ Move(r, "booting")
  /\ UNCHANGED <<replaceVars, flags, attempt, evaluated, ending, want, killed, stopVars>>

\* Mutant: _cancel_event is not set.
ApplyFailedGoesOn(r) ==
  /\ phase[r] = "applying" /\ result[Call(r)] = "failed" /\ r \notin killed
  /\ Move(r, "failing")
  /\ UNCHANGED <<replaceVars, running, cancelEvent, currentTask, initializing, best, attempt,
                 evaluated, ending, want, killed, stopVars>>

ApplyFailed(r) ==
  /\ phase[r] = "applying" /\ result[Call(r)] = "failed" /\ r \notin killed
  /\ cancelEvent' = TRUE
  /\ Move(r, "failing")
  /\ UNCHANGED <<replaceVars, running, currentTask, initializing, best, attempt,
                 evaluated, ending, want, killed, stopVars>>

TuningFails(r) ==
  /\ phase[r] = "failing" /\ initializing = None /\ r \notin killed
  /\ running' = FALSE
  /\ IF cancelEvent THEN Close(r, "stopped")
     ELSE Move(r, "reporting") /\ UNCHANGED ending
  /\ evaluated' = [evaluated EXCEPT ![r] = @ + 1]
  /\ UNCHANGED <<replaceVars, cancelEvent, currentTask, initializing, best, attempt,
                 want, killed, stopVars>>

Booted(r) ==
  /\ phase[r] = "booting" /\ r \notin killed
  /\ Move(r, "evaluating")
  /\ UNCHANGED <<replaceVars, flags, attempt, evaluated, ending, want, killed, stopVars>>

\* Not ready: the trial is over, or is rolled back once the logs are read.
BootFailed(r) ==
  /\ phase[r] = "booting" /\ r \notin killed
  /\ IF cancelEvent THEN GoOn(r, evaluated[r] + 1)
     ELSE /\ Move(r, "logs")
          /\ UNCHANGED <<replaceVars, attempt, evaluated, ending>>
  /\ UNCHANGED <<flags, want, killed, stopVars>>

LogsRead(r) ==
  /\ phase[r] = "logs" /\ r \notin killed
  /\ Rollback(Call(r))
  /\ Move(r, "rolling")
  /\ UNCHANGED <<flags, attempt, evaluated, ending, want, killed, stopVars>>

RolledBack(r) ==
  /\ phase[r] = "rolling" /\ result[Call(r)] \in {"ok", "failed"}
  /\ initializing = None /\ r \notin killed
  /\ GoOn(r, evaluated[r] + 1)
  /\ UNCHANGED <<flags, want, killed, stopVars>>

\* The evaluation failed or was pruned, or its score is compared with the best.
Evaluated(r) ==
  /\ phase[r] = "evaluating" /\ initializing = None /\ r \notin killed
  /\ \/ UNCHANGED best
     \/ \E sc \in 1 .. MaxScore :
          best' = IF best = None \/ sc > best.score
                  THEN [score |-> sc, spec |-> arg[Call(r)].spec]
                  ELSE best
  /\ GoOn(r, evaluated[r] + 1)
  /\ UNCHANGED <<running, cancelEvent, currentTask, initializing, want, killed, stopVars>>

-----------------------------------------------------------------------------
(* AutoTuner.start: the end                                                *)

\* Mutant: the last trial is deployed.
FinalizeLast(r) ==
  /\ phase[r] = "reporting" /\ r \notin killed
  /\ IF best = None THEN Close(r, "complete") /\ UNCHANGED replaceVars
     ELSE /\ Move(r, "finalizing")
          /\ Apply(<<r, 0>>, arg[<<r, attempt[r]>>].spec)
          /\ UNCHANGED ending
  /\ UNCHANGED <<flags, attempt, evaluated, want, killed, stopVars>>

\* finalize_tuning_for_tuner, after the report.
Finalize(r) ==
  /\ phase[r] = "reporting" /\ r \notin killed
  /\ IF best = None THEN Close(r, "complete") /\ UNCHANGED replaceVars
     ELSE /\ Move(r, "finalizing")
          /\ Apply(<<r, 0>>, best.spec)
          /\ UNCHANGED ending
  /\ UNCHANGED <<flags, attempt, evaluated, want, killed, stopVars>>

BestApplied(r) ==
  /\ phase[r] = "finalizing" /\ result[Call(r)] \in {"ok", "failed"} /\ r \notin killed
  /\ IF result[Call(r)] = "ok" THEN Move(r, "settling") /\ UNCHANGED ending
     ELSE Close(r, "complete")
  /\ UNCHANGED <<replaceVars, flags, attempt, evaluated, want, killed, stopVars>>

\* The service is ready or not, and the benchmark is saved or not.
Settled(r) ==
  /\ phase[r] = "settling" /\ r \notin killed
  /\ Close(r, "complete")
  /\ UNCHANGED <<replaceVars, flags, attempt, evaluated, want, killed, stopVars>>

\* The exception of a call to CRReplace goes through start().
CallRaised(r) ==
  /\ InCall(r) /\ result[Call(r)] = "raised" /\ r \notin killed
  /\ Close(r, "error")
  /\ UNCHANGED <<replaceVars, flags, attempt, evaluated, want, killed, stopVars>>

\* Mutant: _running is not reset.
ClosedKeepsRunning(r) ==
  /\ phase[r] = "closing" /\ initializing = None
  /\ currentTask' = IF currentTask = r THEN None ELSE currentTask
  /\ Move(r, "over")
  /\ UNCHANGED <<replaceVars, running, cancelEvent, initializing, best, attempt, evaluated,
                 ending, want, killed, stopVars>>

\* The finally clause, whoever _running is about by now.
Closed(r) ==
  /\ phase[r] = "closing" /\ initializing = None
  /\ running' = FALSE
  /\ currentTask' = IF currentTask = r THEN None ELSE currentTask
  /\ Move(r, "over")
  /\ UNCHANGED <<replaceVars, cancelEvent, initializing, best, attempt, evaluated,
                 ending, want, killed, stopVars>>

-----------------------------------------------------------------------------
(* POST /stop                                                              *)

StopRefused(s) ==
  /\ stopping[s] = "idle" /\ initializing = None /\ ~running
  /\ stopping' = [stopping EXCEPT ![s] = "refused"]
  /\ UNCHANGED <<replaceVars, flags, progress, want, killed, waitsFor, asked>>

StopRequest(s) ==
  /\ stopping[s] = "idle" /\ initializing = None /\ running
  /\ cancelEvent' = TRUE /\ running' = FALSE
  /\ waitsFor' = [waitsFor EXCEPT ![s] = currentTask]
  /\ stopping' = [stopping EXCEPT ![s] = "waiting"]
  /\ asked' = asked \cup {r \in Sessions : phase[r] \in Working}
  /\ UNCHANGED <<replaceVars, currentTask, initializing, best, progress, want, killed>>

\* There is no task to wait for, or it has ended.
StopReturns(s) ==
  /\ stopping[s] = "waiting" /\ initializing = None
  /\ waitsFor[s] \notin {r \in Sessions : phase[r] # "over"}
  /\ stopping' = [stopping EXCEPT ![s] = "stopped"]
  /\ currentTask' = IF currentTask = waitsFor[s] THEN None ELSE currentTask
  /\ UNCHANGED <<replaceVars, running, cancelEvent, initializing, best, progress,
                 want, killed, waitsFor, asked>>

\* Ten seconds have passed: the task is cancelled, once in this model.
StopKills(s) ==
  /\ stopping[s] = "waiting"
  /\ \E r \in Sessions \ killed :
       /\ waitsFor[s] = r /\ phase[r] # "over"
       /\ killed' = killed \cup {r}
       /\ IF InCall(r) /\ at[Call(r)] # "idle"
          THEN Interrupt(Call(r)) ELSE UNCHANGED replaceVars
  /\ stopping' = [stopping EXCEPT ![s] = "stopped"]
  /\ UNCHANGED <<flags, progress, want, waitsFor, asked>>

\* CancelledError is raised where the session is suspended.  Before start()
\* has got state_initialized its finally clause does nothing.
Killed(r) ==
  /\ r \in killed /\ ending[r] # "killed"
  /\ \/ /\ \/ phase[r] \in {"created", "pausing", "recording"}
           \/ phase[r] = "closing" /\ initializing # None
        /\ Move(r, "over")
        /\ ending' = [ending EXCEPT ![r] = "killed"]
        /\ initializing' = IF initializing = r THEN None ELSE initializing
     \/ /\ phase[r] \in Working /\ (InCall(r) => at[Call(r)] = "idle")
        /\ Close(r, "killed")
        /\ UNCHANGED initializing
  /\ UNCHANGED <<replaceVars, running, cancelEvent, currentTask, best, attempt,
                 evaluated, want, killed, stopVars>>

-----------------------------------------------------------------------------
(* POST /apply-best *)

\* Mutant: it is not asked whether a tuning runs.
ApplyBestUnasked(b) ==
  /\ best # None
  /\ Apply(<<b, 0>>, best.spec)
  /\ UNCHANGED sessionVars

ApplyBest(b) ==
  /\ best # None /\ ~running
  /\ Apply(<<b, 0>>, best.spec)
  /\ UNCHANGED sessionVars

-----------------------------------------------------------------------------
Replacement ==
  /\ \/ \E c \in Calls : CallStep(c)
     \/ \E q \in orphans : Orphaned(q)
     \/ \E t \in Targets : Gone(t)
  /\ UNCHANGED sessionVars

SessionStep(r) ==
  \/ StartRefused(r) \/ Pause(r) \/ Record(r) \/ Initialized(r)
  \/ StudySetupFails(r)
  \/ FirstReady(r) \/ Skipped(r) \/ Applied(r) \/ ApplyFailed(r) \/ TuningFails(r)
  \/ Booted(r) \/ BootFailed(r) \/ LogsRead(r) \/ RolledBack(r) \/ Evaluated(r)
  \/ Finalize(r) \/ BestApplied(r) \/ Settled(r) \/ CallRaised(r) \/ Closed(r)
  \/ Killed(r)

StopStep(s) == StopReturns(s) \/ StopKills(s)

Next ==
  \/ Replacement
  \/ \E r \in Sessions :
       \/ \E t \in Targets : StartRequest(r, t)
       \/ PinTarget(r) \/ StartRejected(r) \/ StartAccepted(r)
       \/ SessionStep(r)
  \/ \E s \in Stops : StopRefused(s) \/ StopRequest(s) \/ StopStep(s)
  \/ \E b \in Appliers : ApplyBest(b)

Spec == InitSession /\ [][Next]_vars

\* As in CRReplace; the waits of a session have timeouts.
Fairness ==
  /\ \A c \in Calls : WF_vars(CallStep(c) /\ UNCHANGED sessionVars)
  /\ \A t \in Targets : WF_vars(Gone(t) /\ UNCHANGED sessionVars)
  /\ \A r \in Sessions : WF_vars(SessionStep(r))
  /\ \A s \in Stops : WF_vars(StopStep(s))

FairSpec == Spec /\ Fairness
-----------------------------------------------------------------------------
(* Properties                                                              *)

Bests == [score : 1 .. MaxScore, spec : Specs]

TypeOK ==
  /\ ReplaceTypeOK
  /\ running \in BOOLEAN /\ cancelEvent \in BOOLEAN
  /\ currentTask \in Sessions \cup {None} /\ best \in Bests \cup {None}
  /\ phase \in [Sessions -> SessionPhases] /\ ending \in [Sessions -> Endings]
  /\ want \in [Sessions -> Targets]
  /\ attempt \in [Sessions -> 0 .. Attempts] /\ evaluated \in [Sessions -> 0 .. Trials]
  /\ killed \subseteq Sessions /\ asked \subseteq Sessions
  /\ stopping \in [Stops -> {"idle", "waiting", "refused", "stopped"}]
  /\ waitsFor \in [Stops -> Sessions \cup {None}]
  /\ initializing \in Sessions \cup {None}
  /\ \A r \in Sessions : initializing = r <=> phase[r] \in {"pausing", "recording"}

\* What sessions, stops and apply-best requests do to the CR is what CRReplace
\* allows its callers, cancelled calls included.
Replaces == INSTANCE CRReplace WITH Faults <- Faults \cup {"cancel"}
ReplacesCR == Replaces!ReplaceSpec

Active(r) == phase[r] \in Working

\* POST /start answers "already running" while _running is up, so it is up only
\* for a session that goes on or has still to reset it.  This and the next
\* three are about sessions that do not overlap, as those of one client are;
\* overlapping ones (OneTuning) share the flags and break them, and so does a
\* study that cannot be set up this one (StudySetupFails).
RunningMeansTuning ==
  running => \E r \in Sessions : Active(r) \/ phase[r] \in {"recording", "closing"}

\* A tuning that reports completion and could apply its best parameters leaves
\* the service running with them, whatever requests to apply came in meanwhile.
BestDeployed ==
  \A r \in Sessions :
    /\ phase[r] = "over" /\ ending[r] = "complete" /\ result[<<r, 0>>] = "ok"
    /\ holder = None /\ cr[want[r]].phase = "live"
    => cr[want[r]].spec = best.spec

\* A tuning reports completion only when it has evaluated the number of trials
\* it was started with, or has run out of attempts.
CompleteRanTrials ==
  \A r \in Sessions :
    ending[r] = "complete" => evaluated[r] = Trials \/ attempt[r] = Attempts

\* A tuning that POST /stop was called on starts no further trial.
StoppedStops ==
  [][\A r \in asked : attempt'[r] = attempt[r]]_vars

\* POST /start is refused while a tuning runs, so only one is at work.  Not so
\* after POST /stop, which resets _running first (run TS_two_tunings).
OneTuning == \A r, q \in Sessions : Active(r) /\ Active(q) => r = q

\* services/auto_tuner.py, before the logs are read: the rollback "replaces the
\* failing pod with a healthy one".  It does if it puts back what the trial's own
\* apply replaced: nobody takes another snapshot between the boot that failed and
\* the rollback, as long as no tuning was asked to stop.  (After POST /stop,
\* POST /apply-best and the next tuning do.)
RollbackOwn ==
  [][\A r \in Sessions :
       /\ asked = {}
       /\ phase[r] = "logs" \/ (phase[r] = "rolling" /\ at[Call(r)] = "queued")
       => snapshot' = snapshot]_vars

\* Every tuning that was accepted is over in the end.
TuningEnds == \A r \in Sessions : phase[r] = "created" ~> phase[r] = "over"

\* Every stop is answered.
StopAnswered ==
  \A s \in Stops : stopping[s] = "waiting" ~> stopping[s] = "stopped"

\* _running does not stay up.
RunningFreed == running ~> ~running

\* Whatever fails, every tuning that was accepted is over in the end, every stop
\* is answered, the lock of the CR goes round and the next tuning can start.
TuningFinishes == TuningEnds /\ StopAnswered /\ RunningFreed /\ CallsEnd
=============================================================================

------------------------------ MODULE LoadTest ------------------------------
(***************************************************************************)
(* The load test engine (services/load_engine.py) and the HTTP handlers    *)
(* that drive it (routers/load_test.py).                                   *)
(*                                                                         *)
(* One process serves every request on one asyncio event loop, so a step   *)
(* of the specification is what a coroutine does between two points where  *)
(* it really suspends: a database call, an HTTP call, a sleep, a wait on   *)
(* other tasks.  None of the sections guarded by _state_lock,              *)
(* _subscribers_lock and _test_lock suspends, so those locks are never     *)
(* contended and such a section is part of the step it is in.  _start_lock *)
(* is held across suspensions and is modelled.                             *)
(*                                                                         *)
(* A caller is a coroutine that calls LoadTestEngine.run: the background   *)
(* task of one POST /start, the task of one POST /sweep, or one evaluation *)
(* made by the auto-tuner, which the router knows nothing of.              *)
(***************************************************************************)
EXTENDS Naturals, FiniteSets

CONSTANTS Tests,        \* background tasks that POST /start may create
          Sweeps,       \* tasks that POST /sweep may create
          Tuners,       \* calls of run() the auto-tuner makes
          Cancellable,  \* those of Tuners whose task AutoTuner.stop cancels
          Paced,        \* callers whose configuration has rps > 0
          N,            \* config.total_requests
          FirstBatch,   \* min(5, config.total_requests)
          Concurrency,  \* config.concurrency
          MaxSteps,     \* number of RPS values a sweep goes through
          Outcomes,     \* how a request may end; "raise": an answer the code
                        \* does not expect makes it raise
          RowFaults,    \* callers on whose rows a statement of the database,
                        \* or its commit, may fail
          NoCaller      \* None

Callers == Tests \cup Sweeps \cup Tuners
Requests == 1 .. N

ASSUME CallersAssumption ==
  /\ Tests \cap Sweeps = {} /\ Tests \cap Tuners = {} /\ Sweeps \cap Tuners = {}
  /\ Cancellable \subseteq Tuners
  /\ Paced \subseteq Callers /\ Sweeps \subseteq Paced
  /\ RowFaults \subseteq Callers
  /\ NoCaller \notin Callers

ASSUME SizesAssumption ==
  /\ N \in Nat \ {0} /\ FirstBatch \in Requests
  /\ Concurrency \in Nat \ {0} /\ MaxSteps \in Nat \ {0}
  /\ Outcomes \subseteq {"ok", "bad", "raise"}

VARIABLES
  status,        \* _state.status
  owner,         \* the caller whose run() installed the current _state
  results,       \* the <<caller, request>> pairs counted in completed_requests
                 \* and failed_requests of _state; its list of results, cut to
                 \* the last 1000, only feeds the statistics and is left out
  stopEvent,     \* _stop_event
  lastTerminal,  \* type of _last_terminal_event, "none" for None
  sweepRunning,  \* LoadTestEngine._sweep_running
  steps,         \* steps a sweep has run
  pc,            \* where each caller is suspended
  cancelled,     \* callers whose task has been cancelled
  reqs,          \* the state of each dispatch task of each caller
  row,           \* each caller's rows of running_state that are not cleared
  activeTest,    \* LoadTestState._active_test_task
  isSweeping,    \* LoadTestState._is_sweeping
  sweepTask      \* LoadTestState._sweep_task

engineVars == <<status, owner, results, stopEvent, lastTerminal, sweepRunning>>
routerVars == <<activeTest, isSweeping, sweepTask>>
callerVars == <<steps, pc, cancelled, reqs, row>>
vars == <<engineVars, routerVars, callerVars>>

-----------------------------------------------------------------------------
Statuses == {"idle", "running", "completed", "failed", "stopped"}
Terminals == {"none", "completed", "stopped", "error", "sweep_completed"}

\* The part of run() between taking _state and giving it back.
InRun == {"marking", "preflight", "polling", "sleeping", "drain", "failing"}
Locations == InRun \cup {"idle", "starting", "rejected", "created", "saving",
                         "clearing", "storing", "unwind", "done"}

\* new: not created yet; queued: waiting for the semaphore; sent: holding it;
\* ok, bad, raise: the task has ended; success, failure: counted by run().
RequestStates == {"new", "queued", "sent", "ok", "bad", "raise",
                  "success", "failure", "cancelled"}

\* open: the row whose id run() holds; the others nobody will clear, and are
\* named after the place where the caller was when it was left behind.
RowStates == {"open", "marking", "clearing", "unwind"}

Live(c) == pc[c] \notin {"idle", "starting", "rejected", "done"}
Done(c) == c \notin {d \in Callers : pc[d] # "done"}

Init ==
  /\ status = "idle" /\ owner = NoCaller /\ results = {}
  /\ stopEvent = FALSE /\ lastTerminal = "none" /\ sweepRunning = FALSE
  /\ activeTest = NoCaller /\ isSweeping = FALSE /\ sweepTask = NoCaller
  /\ steps = [c \in Callers |-> 0]
  /\ pc = [c \in Callers |-> "idle"]
  /\ cancelled = {}
  /\ reqs = [c \in Callers |-> [r \in Requests |-> "new"]]
  /\ row = [c \in Callers |-> {}]

-----------------------------------------------------------------------------
(* POST /start                                                             *)

\* _start_lock is free and no test is running: the handler goes on to
\* resolve the model name and to run the preflight request.
StartRequest(t) ==
  /\ pc[t] = "idle"
  /\ \A u \in Tests : pc[u] # "starting"
  /\ Done(activeTest)
  /\ pc' = [pc EXCEPT ![t] = "starting"]
  /\ UNCHANGED <<engineVars, routerVars, steps, cancelled, reqs, row>>

StartRejected(t) ==
  /\ pc[t] = "starting"
  /\ pc' = [pc EXCEPT ![t] = "rejected"]
  /\ UNCHANGED <<engineVars, routerVars, steps, cancelled, reqs, row>>

\* Mutant: clear_terminal_event is left to run().
StartAcceptedReplays(t) ==
  /\ pc[t] = "starting"
  /\ \A u \in Tests \cap cancelled : pc[u] \in {"failing", "unwind", "done"}
  /\ activeTest' = t
  /\ pc' = [pc EXCEPT ![t] = "created"]
  /\ UNCHANGED <<engineVars, isSweeping, sweepTask, steps, cancelled, reqs, row>>

\* The preflight takes more turns of the event loop than it takes to deliver a
\* cancellation, and a test that is being cancelled was so before the handler
\* came this far; only the gather of _fail_run may hold one up.
StartAccepted(t) ==
  /\ pc[t] = "starting"
  /\ \A u \in Tests \cap cancelled : pc[u] \in {"failing", "unwind", "done"}
  /\ lastTerminal' = "none"
  /\ activeTest' = t
  /\ pc' = [pc EXCEPT ![t] = "created"]
  /\ UNCHANGED <<status, owner, results, stopEvent, sweepRunning, isSweeping,
                 sweepTask, steps, cancelled, reqs, row>>

(* POST /sweep                                                             *)

\* Mutant: the engine's own flag is not asked.
SweepRequestRouterOnly(s) ==
  /\ pc[s] = "idle"
  /\ Done(activeTest) /\ ~isSweeping
  /\ isSweeping' = TRUE
  /\ pc' = [pc EXCEPT ![s] = "starting"]
  /\ UNCHANGED <<engineVars, activeTest, sweepTask, steps, cancelled, reqs, row>>

SweepRequest(s) ==
  /\ pc[s] = "idle"
  /\ Done(activeTest) /\ ~isSweeping /\ ~sweepRunning
  /\ isSweeping' = TRUE
  /\ pc' = [pc EXCEPT ![s] = "starting"]
  /\ UNCHANGED <<engineVars, activeTest, sweepTask, steps, cancelled, reqs, row>>

SweepAccepted(s) ==
  /\ pc[s] = "starting"
  /\ lastTerminal' = "none"
  /\ sweepTask' = s
  /\ pc' = [pc EXCEPT ![s] = "created"]
  /\ UNCHANGED <<status, owner, results, stopEvent, sweepRunning, activeTest,
                 isSweeping, steps, cancelled, reqs, row>>

\* resolve_model_name raised what it does not catch: nothing takes back
\* mark_sweep_started.
SweepRequestFails(s) ==
  /\ pc[s] = "starting" /\ "raise" \in Outcomes
  /\ pc' = [pc EXCEPT ![s] = "rejected"]
  /\ UNCHANGED <<engineVars, routerVars, steps, cancelled, reqs, row>>

\* Mutant: POST /stop leaves the sweep's task to the stop event.
StopWithoutCancel ==
  /\ stopEvent' = TRUE
  /\ status' = "stopped"
  /\ lastTerminal' = IF status = "running" \/ sweepRunning
                     THEN "stopped" ELSE lastTerminal
  /\ UNCHANGED <<owner, results, sweepRunning, routerVars, steps, pc,
                 cancelled, reqs, row>>

(* POST /stop: the engine's stop(), then the two cancellations; nothing in *)
(* it suspends.                                                            *)
Stop ==
  LET victims == {c \in {activeTest, sweepTask} : ~Done(c)} IN
  /\ stopEvent' = TRUE
  /\ status' = "stopped"
  /\ lastTerminal' = IF status = "running" \/ sweepRunning
                     THEN "stopped" ELSE lastTerminal
  /\ cancelled' = cancelled \cup victims
  /\ activeTest' = IF activeTest \in victims THEN NoCaller ELSE activeTest
  /\ IF sweepTask \in victims
     THEN sweepTask' = NoCaller /\ isSweeping' = FALSE
     ELSE UNCHANGED <<sweepTask, isSweeping>>
  /\ UNCHANGED <<owner, results, sweepRunning, steps, pc, reqs, row>>

-----------------------------------------------------------------------------
(* LoadTestEngine.run                                                      *)

\* The head of run(): a new _state in which the caller is running.
Begin(c) ==
  /\ status # "running"
  /\ status' = "running" /\ owner' = c /\ results' = {}
  /\ lastTerminal' = "none"
  /\ reqs' = [reqs EXCEPT ![c] = [r \in Requests |-> "new"]]
  /\ pc' = [pc EXCEPT ![c] = "marking"]

TestBegins(t) ==
  /\ pc[t] = "created" /\ t \notin cancelled
  /\ Begin(t)
  /\ UNCHANGED <<stopEvent, sweepRunning, routerVars, steps, cancelled, row>>

\* run() answers "already_running"; the answer is stored as the test's result.
TestRefused(t) ==
  /\ pc[t] = "created" /\ t \notin cancelled
  /\ status = "running"
  /\ pc' = [pc EXCEPT ![t] = "storing"]
  /\ UNCHANGED <<engineVars, routerVars, steps, cancelled, reqs, row>>

TunerBegins(u) ==
  /\ pc[u] = "idle"
  /\ Begin(u)
  /\ UNCHANGED <<stopEvent, sweepRunning, routerVars, steps, cancelled, row>>

TunerRefused(u) ==
  /\ pc[u] = "idle"
  /\ status = "running"
  /\ pc' = [pc EXCEPT ![u] = "done"]
  /\ UNCHANGED <<engineVars, routerVars, steps, cancelled, reqs, row>>

\* Mutant: requests on their way are forgotten.
PendingNotSent(R) == {r \in Requests : R[r] \in {"queued", "ok", "bad", "raise"}}

\* Requests created by run() whose result it has not counted.
Pending(R) == {r \in Requests : R[r] \in {"queued", "sent", "ok", "bad", "raise"}}

Count(R) == [r \in Requests |-> IF R[r] = "ok" THEN "success"
                               ELSE IF R[r] = "bad" THEN "failure" ELSE R[r]]

Counted(R) == {r \in Requests : R[r] \in {"success", "failure"}}

\* check_consecutive_failures: it looks once, when the last result of the
\* first batch comes in; "same" is whether all the errors are equal.
FirstBatchFailed(old, new, same) ==
  /\ \A r \in 1 .. FirstBatch : new[r] = "failure"
  /\ \E r \in 1 .. FirstBatch : old[r] # "failure"
  /\ same

\* _finalize_results up to its first suspension.
Finalize(c) ==
  /\ status' = IF status = "stopped" THEN "stopped" ELSE "completed"
  /\ lastTerminal' = "completed"
  /\ pc' = [pc EXCEPT ![c] = IF c \in Tests THEN "clearing" ELSE "saving"]

\* The head of the loop of _execute_requests: create the next request, or
\* leave the loop and drain, or finish when there is nothing to drain.
Advance(c, R, stopping) ==
  \/ /\ ~stopping
     /\ \E r \in Requests :
          /\ R[r] = "new" /\ \A q \in 1 .. r - 1 : R[q] # "new"
          /\ reqs' = [reqs EXCEPT ![c] = [R EXCEPT ![r] = "queued"]]
     /\ pc' = [pc EXCEPT ![c] = "polling"]
     /\ UNCHANGED <<status, lastTerminal>>
  \/ /\ stopping \/ \A r \in Requests : R[r] # "new"
     /\ Pending(R) # {}
     /\ reqs' = [reqs EXCEPT ![c] = R]
     /\ pc' = [pc EXCEPT ![c] = "drain"]
     /\ UNCHANGED <<status, lastTerminal>>
  \/ /\ stopping \/ \A r \in Requests : R[r] # "new"
     /\ Pending(R) = {}
     /\ reqs' = [reqs EXCEPT ![c] = R]
     /\ Finalize(c)

\* _fail_run up to its gather: requests that have not ended are cancelled.
Abort(c, R) ==
  /\ lastTerminal' = "error"
  /\ stopEvent' = TRUE
  /\ reqs' = [reqs EXCEPT ![c] =
                [r \in Requests |-> IF R[r] \in {"queued", "sent"}
                                    THEN "cancelled" ELSE R[r]]]
  /\ pc' = [pc EXCEPT ![c] = "failing"]
  /\ UNCHANGED status

\* set_running returns, with a row or with the -1 of a storage failure: the
\* row is there all the same when it was the commit that failed, since the
\* connection is shared and the next commit of anyone takes it along.
RunRecorded(c) ==
  /\ pc[c] = "marking" /\ c \notin cancelled
  /\ \E got \in {{}, {"open"}} \cup {{"marking"} : f \in RowFaults \cap {c}} :
       row' = [row EXCEPT ![c] = @ \cup got]
  /\ stopEvent' = FALSE
  /\ IF c \in Tuners
     THEN /\ pc' = [pc EXCEPT ![c] = "preflight"]
          /\ UNCHANGED <<reqs, status, lastTerminal>>
     ELSE Advance(c, reqs[c], FALSE)
  /\ UNCHANGED <<owner, results, sweepRunning, routerVars, steps, cancelled>>

PreflightPassed(c) ==
  /\ pc[c] = "preflight" /\ c \notin cancelled
  /\ Advance(c, reqs[c], stopEvent)
  /\ UNCHANGED <<owner, results, stopEvent, sweepRunning, routerVars, steps,
                 cancelled, row>>

\* _fail_run with no pending task does not suspend.
PreflightFailed(c) ==
  /\ pc[c] = "preflight" /\ c \notin cancelled
  /\ lastTerminal' = "error" /\ stopEvent' = TRUE
  /\ status' = "failed"
  /\ pc' = [pc EXCEPT ![c] = "clearing"]
  /\ UNCHANGED <<owner, results, sweepRunning, routerVars, steps, cancelled,
                 reqs, row>>

\* asyncio.wait returns: count the requests that have ended, look for a
\* failed first batch, then sleep or go round the loop.
Poll(c) ==
  LET R == Count(reqs[c]) IN
  /\ pc[c] = "polling" /\ c \notin cancelled
  /\ \A r \in Requests : reqs[c][r] # "raise"
  /\ results' = results \cup ({c} \X (Counted(R) \ Counted(reqs[c])))
  /\ \E same \in BOOLEAN :
       IF FirstBatchFailed(reqs[c], R, same) THEN Abort(c, R)
       ELSE /\ IF c \in Paced
               THEN /\ reqs' = [reqs EXCEPT ![c] = R]
                    /\ pc' = [pc EXCEPT ![c] = "sleeping"]
                    /\ UNCHANGED <<status, lastTerminal>>
               ELSE Advance(c, R, stopEvent)
            /\ UNCHANGED stopEvent
  /\ UNCHANGED <<owner, sweepRunning, routerVars, steps, cancelled, row>>

Wake(c) ==
  /\ pc[c] = "sleeping" /\ c \notin cancelled
  /\ Advance(c, reqs[c], stopEvent)
  /\ UNCHANGED <<owner, results, stopEvent, sweepRunning, routerVars, steps,
                 cancelled, row>>

\* One turn of the as_completed loop of _drain_remaining_tasks.
Drain(c) ==
  /\ pc[c] = "drain" /\ c \notin cancelled
  /\ \E r \in Requests, same \in BOOLEAN :
       LET R == [reqs[c] EXCEPT ![r] = Count(reqs[c])[r]] IN
       /\ reqs[c][r] \in {"ok", "bad"}
       /\ results' = results \cup {<<c, r>>}
       /\ IF FirstBatchFailed(reqs[c], R, same) THEN Abort(c, R)
          ELSE /\ Advance(c, R, TRUE)
               /\ UNCHANGED stopEvent
  /\ UNCHANGED <<owner, sweepRunning, routerVars, steps, cancelled, row>>

\* A request ended with an exception _dispatch_request does not catch: it is
\* raised again in run(), which leaves through its finally clause.  A poll may
\* have counted some of the other requests before it came to that one.
RunRaises(c) ==
  /\ pc[c] \in {"polling", "drain"} /\ c \notin cancelled
  /\ \E r \in Requests : reqs[c][r] = "raise"
  /\ \E S \in SUBSET {r \in Requests : reqs[c][r] \in {"ok", "bad"}} :
       /\ S = {} \/ pc[c] = "polling"
       /\ results' = results \cup ({c} \X S)
  /\ pc' = [pc EXCEPT ![c] = "unwind"]
  /\ UNCHANGED <<status, owner, stopEvent, lastTerminal, sweepRunning,
                 routerVars, steps, cancelled, reqs, row>>

\* Mutant: a failed run does not set the status.
FailRunKeepsStatus(c) ==
  /\ pc[c] = "failing" /\ c \notin cancelled
  /\ pc' = [pc EXCEPT ![c] = "clearing"]
  /\ UNCHANGED <<engineVars, routerVars, steps, cancelled, reqs, row>>

FailRun(c) ==
  /\ pc[c] = "failing" /\ c \notin cancelled
  /\ status' = "failed"
  /\ pc' = [pc EXCEPT ![c] = "clearing"]
  /\ UNCHANGED <<owner, results, stopEvent, lastTerminal, sweepRunning,
                 routerVars, steps, cancelled, reqs, row>>

\* save_load_test inside _finalize_results (persist=True), fail-open.
ResultSaved(c) ==
  /\ pc[c] = "saving" /\ c \notin cancelled
  /\ pc' = [pc EXCEPT ![c] = "clearing"]
  /\ UNCHANGED <<engineVars, routerVars, steps, cancelled, reqs, row>>

\* clear_running returns or raises CancelledError.  It logs the errors of
\* the database, and run() every other: nobody hears that the row is still
\* there.  "lost" is whether the statement or its commit may be.
ClearRow(c, lost) ==
  \/ row' = [row EXCEPT ![c] = @ \ {"open"}]
  \/ /\ lost /\ "open" \in row[c]
     /\ row' = [row EXCEPT ![c] = (@ \ {"open"}) \cup {pc[c]}]

\* Mutant: the row is left to the next run.
RunReturnsKeepsRow(c) ==
  /\ pc[c] = "clearing" /\ c \notin cancelled /\ c \notin Sweeps
  /\ pc' = [pc EXCEPT ![c] = IF c \in Tests THEN "storing" ELSE "done"]
  /\ UNCHANGED <<engineVars, routerVars, steps, cancelled, reqs, row>>

\* clear_running returns and so does run(); a test goes on to store its
\* result, a tuner call is over.  A sweep is in SweepStep and SweepEnds.
RunReturns(c) ==
  /\ pc[c] = "clearing" /\ c \notin cancelled /\ c \notin Sweeps
  /\ ClearRow(c, c \in RowFaults)
  /\ pc' = [pc EXCEPT ![c] = IF c \in Tests THEN "storing" ELSE "done"]
  /\ UNCHANGED <<engineVars, routerVars, steps, cancelled, reqs>>

\* _run_test_background: the entry is saved and the finally clause drops the
\* router's reference to the active test, whichever test that is by now.
TestEnds(t) ==
  /\ pc[t] = "storing" /\ t \notin cancelled
  /\ activeTest' = NoCaller
  /\ pc' = [pc EXCEPT ![t] = "done"]
  /\ UNCHANGED <<engineVars, isSweeping, sweepTask, steps, cancelled, reqs, row>>

-----------------------------------------------------------------------------
(* LoadTestEngine.run_sweep, in the task of POST /sweep                    *)

\* Mutant: finish_sweep only drops the task.
EndSweepKeepsFlag(s) ==
  /\ lastTerminal' = "sweep_completed"
  /\ sweepTask' = NoCaller
  /\ pc' = [pc EXCEPT ![s] = "done"]
  /\ UNCHANGED isSweeping

\* The task ends: sweep_completed is broadcast and finish_sweep runs.
EndSweep(s) ==
  /\ lastTerminal' = "sweep_completed"
  /\ isSweeping' = FALSE /\ sweepTask' = NoCaller
  /\ pc' = [pc EXCEPT ![s] = "done"]

\* A sweep goes to its first step, unless the engine was left stopped.
SweepStarts(s) ==
  /\ pc[s] = "created" /\ s \notin cancelled
  /\ status \notin {"running", "stopped"} /\ ~sweepRunning
  /\ sweepRunning' = TRUE
  /\ stopEvent' = FALSE
  /\ steps' = [steps EXCEPT ![s] = 1]
  /\ Begin(s)
  /\ UNCHANGED <<routerVars, cancelled, row>>

SweepStartsEmpty(s) ==
  /\ pc[s] = "created" /\ s \notin cancelled
  /\ status \in {"running", "stopped"} \/ sweepRunning
  /\ EndSweep(s)
  /\ UNCHANGED <<status, owner, results, stopEvent, sweepRunning, activeTest,
                 steps, cancelled, reqs, row>>

SweepStep(s) ==
  /\ pc[s] = "clearing" /\ s \in Sweeps /\ s \notin cancelled
  /\ status # "stopped" /\ steps[s] < MaxSteps
  /\ ClearRow(s, s \in RowFaults)
  /\ stopEvent' = FALSE
  /\ steps' = [steps EXCEPT ![s] = @ + 1]
  /\ Begin(s)
  /\ UNCHANGED <<sweepRunning, routerVars, cancelled>>

\* Stopped, saturated, failing or at the last RPS value; or another run has
\* the engine and every step left is answered "already_running" at once.
\* Only that last case clears the event again before the sweep is over.
SweepEnds(s) ==
  /\ pc[s] = "clearing" /\ s \in Sweeps /\ s \notin cancelled
  /\ ClearRow(s, s \in RowFaults)
  /\ sweepRunning' = FALSE
  /\ IF status = "running" /\ steps[s] < MaxSteps
     THEN stopEvent' \in {stopEvent, FALSE} ELSE UNCHANGED stopEvent
  /\ EndSweep(s)
  /\ UNCHANGED <<status, owner, results, activeTest, steps, cancelled, reqs>>

-----------------------------------------------------------------------------
(* Cancellation                                                            *)

\* AutoTuner.stop gives up waiting and cancels the tuning task.
TunerCancelled(u) ==
  /\ u \in Cancellable /\ Live(u)
  /\ cancelled' = cancelled \cup {u}
  /\ UNCHANGED <<engineVars, routerVars, steps, pc, reqs, row>>

\* The caller's task leaves its coroutine.  A task that had not started ends
\* without running anything, its finally clauses included.
TaskOver(c) ==
  /\ pc' = [pc EXCEPT ![c] = "done"]
  /\ IF pc[c] = "created" THEN UNCHANGED <<sweepRunning, routerVars>>
     ELSE /\ activeTest' = IF c \in Tests THEN NoCaller ELSE activeTest
          /\ IF c \in Sweeps
             THEN sweepRunning' = FALSE /\ isSweeping' = FALSE
                  /\ sweepTask' = NoCaller
             ELSE UNCHANGED <<sweepRunning, isSweeping, sweepTask>>

\* CancelledError is raised where the task is suspended.  run() has a row id
\* to clear unless it was still waiting for it; the insert goes through in
\* the database thread all the same, and nobody holds its id.  If it was
\* waiting for the clear, the update or its commit may be lost.
CancelDelivered(c) ==
  /\ c \in cancelled /\ Live(c) /\ pc[c] # "unwind"
  /\ IF pc[c] \in (InRun \ {"marking"}) \cup {"saving"}
     THEN /\ pc' = [pc EXCEPT ![c] = "unwind"]
          /\ UNCHANGED <<sweepRunning, routerVars, row>>
     ELSE /\ TaskOver(c)
          /\ IF pc[c] = "marking"
             THEN row' = [row EXCEPT ![c] = @ \cup {"marking"}]
             ELSE ClearRow(c, pc[c] = "clearing")
  /\ UNCHANGED <<status, owner, results, stopEvent, lastTerminal, steps,
                 cancelled, reqs>>

\* The two ways a run is over without having set a status: its task was
\* cancelled by the tuner, not by POST /stop, or a request of it raised.
Lost(c) ==
  c \in cancelled \cap Cancellable \/ \E r \in Requests : reqs[c][r] = "raise"

\* clear_running returns in the finally clause of run(); a sweep that raised
\* may also broadcast an empty sweep_completed.  A cancellation can come in
\* only here if none has ended the run: POST /stop cancels a task once, and
\* only AutoTuner.stop may do so again.
Unwind(c) ==
  /\ pc[c] = "unwind"
  /\ TaskOver(c)
  /\ ClearRow(c, c \in RowFaults \/ (c \in cancelled /\ Lost(c)))
  /\ \/ UNCHANGED lastTerminal
     \/ /\ c \in Sweeps \ cancelled
        /\ lastTerminal' = "sweep_completed"
  /\ UNCHANGED <<status, owner, results, stopEvent, steps, cancelled, reqs>>

-----------------------------------------------------------------------------
(* _dispatch_request: a task of its own, which goes on when run() is gone. *)

RequestSent(c, r) ==
  /\ reqs[c][r] = "queued"
  /\ Cardinality({q \in Requests : reqs[c][q] = "sent"}) < Concurrency
  /\ reqs' = [reqs EXCEPT ![c][r] = "sent"]
  /\ UNCHANGED <<engineVars, routerVars, steps, pc, cancelled, row>>

RequestEnds(c, r) ==
  /\ reqs[c][r] = "sent"
  /\ \E o \in Outcomes : reqs' = [reqs EXCEPT ![c][r] = o]
  /\ UNCHANGED <<engineVars, routerVars, steps, pc, cancelled, row>>

-----------------------------------------------------------------------------
Handler ==
  \/ Stop
  \/ \E t \in Tests : StartRequest(t) \/ StartRejected(t) \/ StartAccepted(t)
  \/ \E s \in Sweeps : SweepRequest(s) \/ SweepAccepted(s) \/ SweepRequestFails(s)

RunStep(c) ==
  \/ RunRecorded(c) \/ PreflightPassed(c) \/ PreflightFailed(c)
  \/ Poll(c) \/ Wake(c) \/ Drain(c) \/ RunRaises(c)
  \/ FailRun(c) \/ ResultSaved(c) \/ RunReturns(c)
  \/ CancelDelivered(c) \/ Unwind(c)

TestStep(t) == TestBegins(t) \/ TestRefused(t) \/ TestEnds(t)
SweepTaskStep(s) ==
  SweepStarts(s) \/ SweepStartsEmpty(s) \/ SweepStep(s) \/ SweepEnds(s)
TunerStep(u) == TunerBegins(u) \/ TunerRefused(u)
RequestStep(c) == \E r \in Requests : RequestSent(c, r) \/ RequestEnds(c, r)

Next ==
  \/ Handler
  \/ \E c \in Callers : RunStep(c) \/ RequestStep(c)
  \/ \E t \in Tests : TestStep(t)
  \/ \E s \in Sweeps : SweepTaskStep(s)
  \/ \E u \in Tuners : TunerStep(u) \/ TunerCancelled(u)

Spec == Init /\ [][Next]_vars

\* The event loop runs every task that is ready; a request, a database call and
\* the preflight of a handler end: they have timeouts.  Nothing makes clients
\* send requests.
Fairness ==
  /\ \A c \in Callers : WF_vars(RunStep(c))
  /\ \A c \in Callers, r \in Requests :
       WF_vars(RequestSent(c, r)) /\ WF_vars(RequestEnds(c, r))
  /\ \A t \in Tests : WF_vars(TestStep(t))
  /\ \A s \in Sweeps : WF_vars(SweepTaskStep(s))
  /\ \A t \in Tests : WF_vars(StartAccepted(t) \/ StartRejected(t))
  /\ \A s \in Sweeps : WF_vars(SweepAccepted(s) \/ SweepRequestFails(s))

FairSpec == Spec /\ Fairness

-----------------------------------------------------------------------------
(* Properties                                                              *)

\* The callers that have a task.
Tasks == {c \in Callers : pc[c] \notin {"idle", "starting", "rejected"}}

TypeOK ==
  /\ status \in Statuses /\ owner \in Callers \cup {NoCaller}
  /\ results \subseteq Callers \X Requests
  /\ stopEvent \in BOOLEAN /\ lastTerminal \in Terminals
  /\ sweepRunning \in BOOLEAN
  /\ steps \in [Callers -> 0 .. MaxSteps]
  /\ pc \in [Callers -> Locations] /\ cancelled \subseteq Tasks
  /\ \A c \in Callers \ Tests : pc[c] # "storing"
  /\ reqs \in [Callers -> [Requests -> RequestStates]]
  /\ row \in [Callers -> SUBSET RowStates]
  /\ activeTest \in (Tests \cap Tasks) \cup {NoCaller} /\ isSweeping \in BOOLEAN
  /\ sweepTask \in (Sweeps \cap Tasks) \cup {NoCaller}

Running(c) == pc[c] \in InRun /\ c \notin cancelled

\* The engine refuses every run while its status is RUNNING, so a RUNNING
\* that nobody is going to take back wedges it.  It is only ever RUNNING for
\* the run that installed _state, while that run goes on and has not been
\* cancelled, or after it was lost.
EngineHeld ==
  status = "running" => owner \in Callers /\ (Running(owner) \/ Lost(owner))

\* A sweep whose task is between the two assignments to _sweep_running.
InSweep(s) == pc[s] \in InRun \cup {"saving", "clearing", "unwind"}

\* A sweep that POST /stop has to cancel.
OpenSweep(s) == (InSweep(s) \/ pc[s] = "created") /\ s \notin cancelled

\* A sweep that must keep the router from starting another.
ClaimsSweep(s) == pc[s] = "starting" \/ InSweep(s) \/ OpenSweep(s)

\* Two flags of the router and one of the engine, each set and reset at its
\* own moment, keep two sweeps apart: at most one is starting or running, the
\* engine's flag is up exactly while one runs, the router's while one is
\* starting or can still be cancelled, and that one is the one POST /stop
\* cancels.  The reset in a cancelled sweep's finally clause never undoes what
\* a later POST /sweep has set.
SweepSlot ==
  /\ \A s1, s2 \in Sweeps : ClaimsSweep(s1) /\ ClaimsSweep(s2) => s1 = s2
  /\ sweepRunning = \E s \in Sweeps : InSweep(s)
  /\ \A s \in Sweeps : sweepTask = s <=> OpenSweep(s)
  /\ \A s \in Sweeps : pc[s] = "starting" \/ OpenSweep(s) => isSweeping

\* A row of running_state makes the next start report an interrupted run.
\* The row run() holds is there only while its run is: however the run ends,
\* the row goes too.  A row is left behind only where the database failed the
\* caller, or by a task that was cancelled: at the insert, at the clear that
\* ends an orderly run, or at that of a run already lost.  A test or a sweep
\* that POST /stop cancels anywhere else clears its row as it unwinds.
RowFollowsRun ==
  \A c \in Callers :
    /\ "open" \in row[c] => InSweep(c) /\ pc[c] # "marking"
    /\ c \notin RowFaults =>
         /\ row[c] \ {"open"} # {} => c \in cancelled /\ pc[c] = "done"
         /\ "unwind" \in row[c] => Lost(c)

\* POST /start is refused while a test runs, so no two tests are on at once.
\* The code does not see to that: the finally clause of a cancelled test drops
\* the reference to whatever test is active by then (run LT_two_tests).
OneLiveTest ==
  \A t, u \in Tests :
    Live(t) /\ Live(u) /\ {t, u} \cap cancelled = {} => t = u

\* A stopped engine leaves that status only for a new run: a run that ends
\* after the stop does not overwrite it with its own verdict.  This and the
\* next hold where runs exclude each other, as sweeps do (SweepSlot); tests
\* and the tuner's evaluations do not (OneLiveTest).
StopSticks ==
  [][status = "stopped" => status' \in {"stopped", "running"}]_vars

\* A run that reports COMPLETED has sent all its requests and counted the
\* result of each.
CompletedCounted ==
  [][\A c \in Callers :
       /\ pc[c] \in InRun /\ pc'[c] \in {"saving", "clearing"}
       /\ status' = "completed"
       => /\ \A r \in Requests : reqs'[c][r] \in {"success", "failure"}
          /\ {c} \X Requests \subseteq results']_vars

\* Every test and every sweep that was accepted is over in the end.
TestsEnd == \A c \in Tests \cup Sweeps : pc[c] = "created" ~> pc[c] = "done"

\* No run keeps the engine for ever.
EngineFreed == status = "running" ~> status # "running"

\* No sweep keeps the router's slot for ever.
SweepFreed == isSweeping ~> ~isSweeping

\* However requests fail and stops come in, every test and every sweep that was
\* accepted is over in the end, and the engine and the sweep slot are free for
\* the next.
RunsEnd == TestsEnd /\ EngineFreed /\ SweepFreed
=============================================================================

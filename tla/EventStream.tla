---------------------------- MODULE EventStream -----------------------------
(***************************************************************************)
(* GET /load_test/stream (routers/load_test.py) on top of the engine: what *)
(* the clients of the event stream are sent of the terminal events that    *)
(* LoadTestEngine.broadcast_terminal records and puts into their queues.   *)
(*                                                                         *)
(* Only terminal events are modelled.  The others (progress, sweep_step)   *)
(* and the keepalives pass through the stream and change nothing.  A       *)
(* broadcast does not suspend: it is part of the engine's step.            *)
(***************************************************************************)
EXTENDS LoadTest, Sequences

CONSTANTS Clients,
          Scenarios, \* the sets of tests and sweeps an instance looks at together
          MaxQueue   \* bound on a queue of the model; those of the code have none

ASSUME StreamAssumption ==
  MaxQueue \in Nat /\ Scenarios \subseteq SUBSET (Tests \cup Sweeps)

VARIABLES
  present, \* the scenario
  at,     \* where the generator of a client's stream is
  queue,  \* its queue
  held    \* the event it has taken and is sending

streamVars == <<present, at, queue, held>>
allVars == <<vars, streamVars>>

StreamInit ==
  /\ Init
  /\ present \in Scenarios
  /\ at = [k \in Clients |-> "away"]
  /\ queue = [k \in Clients |-> <<>>]
  /\ held = [k \in Clients |-> "none"]

-----------------------------------------------------------------------------
(* The engine's steps, each with the terminal event it broadcasts          *)

Subscribed == {k \in Clients : at[k] \in {"connected", "waiting", "sending"}}

Broadcast(event) ==
  /\ queue' = [k \in Clients |->
                 IF k \in Subscribed THEN Append(queue[k], event) ELSE queue[k]]
  /\ UNCHANGED <<present, at, held>>

Silent == UNCHANGED streamVars

\* _finalize_results and _fail_run, at their beginning.
Speaks(c) ==
  pc[c] \in InRun \ {"failing"} /\ pc'[c] \in {"failing", "saving", "clearing"}

RunTold(c) ==
  RunStep(c) /\ IF Speaks(c) THEN Broadcast(lastTerminal')
                ELSE IF pc[c] = "unwind" /\ lastTerminal' # lastTerminal
                THEN Broadcast("sweep_completed") ELSE Silent

\* run_sweep_task: sweep_completed, then finish_sweep.
SweepTold(s) ==
  SweepTaskStep(s) /\ IF pc'[s] = "done" THEN Broadcast("sweep_completed") ELSE Silent

StopTold ==
  /\ \A k \in Clients : Len(queue[k]) < MaxQueue
  /\ Stop
  /\ IF status = "running" \/ sweepRunning THEN Broadcast("stopped") ELSE Silent

Unheard ==
  /\ \/ \E t \in Tests \cap present : StartRequest(t)
     \/ \E t \in Tests : StartRejected(t) \/ StartAccepted(t) \/ TestStep(t)
     \/ \E s \in Sweeps \cap present : SweepRequest(s)
     \/ \E s \in Sweeps : SweepAccepted(s)
     \/ \E c \in Callers : RequestStep(c)
  /\ Silent

EngineStep ==
  \/ StopTold \/ Unheard
  \/ \E c \in Callers : RunTold(c)
  \/ \E s \in Sweeps : SweepTold(s)

-----------------------------------------------------------------------------
(* A client                                                                *)

Connect(k) ==
  /\ at[k] = "away"
  /\ at' = [at EXCEPT ![k] = "connected"]
  /\ UNCHANGED <<vars, present, queue, held>>

\* unsubscribe in the finally clause.
Close(k) ==
  /\ at' = [at EXCEPT ![k] = "closed"]
  /\ queue' = [queue EXCEPT ![k] = <<>>]
  /\ held' = [held EXCEPT ![k] = "none"]

\* The generator starts: it replays the last terminal event and is done, or
\* waits on its queue.
Replay(k) ==
  /\ at[k] = "connected"
  /\ IF lastTerminal # "none" THEN Close(k)
     ELSE at' = [at EXCEPT ![k] = "waiting"] /\ UNCHANGED <<queue, held>>
  /\ UNCHANGED <<vars, present>>

Take(k) ==
  /\ at[k] = "waiting" /\ queue[k] # <<>>
  /\ at' = [at EXCEPT ![k] = "sending"]
  /\ held' = [held EXCEPT ![k] = Head(queue[k])]
  /\ queue' = [queue EXCEPT ![k] = Tail(@)]
  /\ UNCHANGED <<vars, present>>

\* Mutant: an aborted run does not end the stream.
EndingNoError ==
  IF isSweeping THEN {"sweep_completed", "stopped"} ELSE {"completed", "stopped"}

Ending ==
  IF isSweeping THEN {"sweep_completed", "stopped", "error"}
  ELSE {"completed", "stopped", "error"}

\* The client has the event; only now the router is asked for a sweep.
Sent(k) ==
  /\ at[k] = "sending"
  /\ IF held[k] \in Ending THEN Close(k)
     ELSE /\ at' = [at EXCEPT ![k] = "waiting"]
          /\ held' = [held EXCEPT ![k] = "none"]
          /\ UNCHANGED queue
  /\ UNCHANGED <<vars, present>>

Disconnect(k) ==
  /\ k \in Subscribed
  /\ Close(k)
  /\ UNCHANGED <<vars, present>>

Stream(k) == Replay(k) \/ Take(k) \/ Sent(k)

StreamNext ==
  \/ EngineStep
  \/ \E k \in Clients : Connect(k) \/ Stream(k) \/ Disconnect(k)

\* In addition to the engine's: a client that stays connected reads.
StreamSpec ==
  /\ StreamInit /\ [][StreamNext]_allVars
  /\ \A c \in Callers : WF_allVars(RunTold(c))
  /\ \A c \in Callers, r \in Requests :
       /\ WF_allVars(RequestSent(c, r) /\ Silent)
       /\ WF_allVars(RequestEnds(c, r) /\ Silent)
  /\ \A t \in Tests : WF_allVars(TestStep(t) /\ Silent)
  /\ \A s \in Sweeps : WF_allVars(SweepTold(s))
  /\ \A t \in Tests : WF_allVars((StartAccepted(t) \/ StartRejected(t)) /\ Silent)
  /\ \A s \in Sweeps : WF_allVars(SweepAccepted(s) /\ Silent)
  /\ \A k \in Clients : WF_allVars(Stream(k))

-----------------------------------------------------------------------------
(* Properties                                                              *)

StreamTypeOK ==
  /\ TypeOK
  /\ present \in Scenarios
  /\ at \in [Clients -> {"away", "connected", "waiting", "sending", "closed"}]
  /\ \A k \in Clients : /\ queue[k] \in Seq(Terminals \ {"none"})
                        /\ held[k] = "none" <=> at[k] # "sending"

NoSweepYet == \A s \in Sweeps : pc[s] = "idle"

\* A test whose run has not sent anything: it is still to begin, or it is over
\* without, because it was stopped before its task ran or found the engine taken.
NotBegun(t) ==
  pc[t] \in {"created", "storing", "done"} /\ \A r \in Requests : reqs[t][r] = "new"

\* What there is to wait for while no end has been recorded: the first run,
\* that of a test not begun, or the end of the run that has the engine.  The
\* cases in which nothing will come are those of NotBegun, a run that raised
\* (Lost), and one that was stopped when another had taken its RUNNING away.
AwaitsRun ==
  \/ owner = NoCaller
  \/ \E t \in Tests : NotBegun(t)
  \/ pc[owner] \in InRun \ {"failing"} \/ Lost(owner) \/ owner \in cancelled

\* A client that waits with nothing in its queue, whenever it subscribed, has
\* missed no end: none has been recorded since the last test was accepted or
\* the last run began, and there is a run to wait for, but for the ends that
\* the engine tells nobody (AwaitsRun).  With a sweep it may have missed one:
\* see SweepStreamCloses.
NothingMissed ==
  NoSweepYet =>
    \A k \in Clients :
      at[k] = "waiting" /\ queue[k] = <<>> => lastTerminal = "none" /\ AwaitsRun

\* A client that connects when its test is to run, or runs and was not stopped,
\* is not replayed the end of an earlier one, although that may still unwind,
\* where tests exclude each other (OneLiveTest): with a third test they may not.
ReplayFresh ==
  NoSweepYet =>
    \A t \in Tests \ cancelled :
      \/ pc[t] = "created"
      \/ pc[t] \in InRun \ {"failing"} /\ status = "running"
      => lastTerminal = "none"

\* A client that waits while a test runs sees its stream end, whether the test
\* completes, is aborted or is stopped, as long as nobody sweeps.
StreamEnds ==
  []NoSweepYet =>
    \A k \in Clients : at[k] = "waiting" /\ status = "running" ~> at[k] = "closed"

\* "During sweep: only break on sweep_completed or stopped": the stream ends
\* with the event that ends the sweep.  It does not: when the client has that
\* event, finish_sweep has run, and outside a sweep the event is not one that
\* ends a stream (run ES_sweep).
SweepStreamCloses ==
  [][\A k \in Clients :
       held[k] = "sweep_completed" /\ held'[k] = "none" => at'[k] = "closed"]_allVars
=============================================================================

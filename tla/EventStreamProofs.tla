-------------------------- MODULE EventStreamProofs --------------------------
(***************************************************************************)
(* Proofs about EventStream for every set of clients, tests, sweeps and    *)
(* tuners: a step of the stream is a step of the engine or none, so what   *)
(* LoadTestProofs shows of the engine holds here too.                      *)
(***************************************************************************)
EXTENDS EventStream, LoadTestProofs, SequenceTheorems

(***************************************************************************)
(* The engine below the stream.                                            *)
(***************************************************************************)

\* A step of the stream is a step of the engine, or leaves it alone.
LEMMA EngineBelow ==
  [StreamNext]_allVars => [Next]_vars
<1>1. EngineStep => Next
  BY DEF EngineStep, StopTold, Unheard, RunTold, SweepTold, Next, Handler, Callers
<1>2. ASSUME NEW k \in Clients, Connect(k) \/ Stream(k) \/ Disconnect(k)
      PROVE  UNCHANGED vars
  BY <1>2 DEF Connect, Stream, Replay, Take, Sent, Disconnect
<1>3. UNCHANGED allVars => UNCHANGED vars
  BY DEF allVars
<1> QED
  BY <1>1, <1>2, <1>3 DEF StreamNext

\* The stream's engine is the engine of LoadTest: the streams read it and
\* never hold it up or change its course.
THEOREM StreamKeepsEngine == StreamSpec => Spec
<1>1. StreamInit => Init
  BY DEF StreamInit
<1> QED
  BY <1>1, EngineBelow, PTL DEF StreamSpec, Spec

\* What a step of a run may say and to whom it matters: other callers stay
\* where they are, and the last terminal event changes only when the run ends
\* or aborts before it was cancelled, or when a sweep unwinds.
LEMMA RunWords ==
  ASSUME TypeOK, NEW c \in Callers, RunStep(c)
  PROVE  /\ cancelled' = cancelled
         /\ \A d \in Callers \ {c} : pc'[d] = pc[d]
         /\ pc[c] # "idle" /\ pc'[c] \notin {"idle", "created"}
         /\ pc'[c] \in InRun => pc[c] \in InRun \ {"failing"}
         /\ status' = "running" => status = "running"
         /\ c \notin Sweeps => isSweeping' = isSweeping
         /\ lastTerminal' # lastTerminal =>
              \/ c \notin cancelled /\ Speaks(c)
              \/ c \in Sweeps /\ pc[c] = "unwind"
         /\ Speaks(c) => lastTerminal' \in {"completed", "error"}
<1> DEFINE Words ==
      /\ cancelled' = cancelled
      /\ \A d \in Callers \ {c} : pc'[d] = pc[d]
      /\ pc[c] # "idle" /\ pc'[c] \notin {"idle", "created"}
      /\ pc'[c] \in InRun => pc[c] \in InRun \ {"failing"}
      /\ status' = "running" => status = "running"
      /\ c \notin Sweeps => isSweeping' = isSweeping
      /\ lastTerminal' # lastTerminal =>
           \/ c \notin cancelled /\ Speaks(c)
           \/ c \in Sweeps /\ pc[c] = "unwind"
      /\ Speaks(c) => lastTerminal' \in {"completed", "error"}
<1>a. pc \in [Callers -> Locations]
  BY DEF TypeOK
\* The head of the request loop.
<1>1. ASSUME NEW R, NEW stopping, Advance(c, R, stopping), pc[c] \in InRun \ {"failing"},
             c \notin cancelled, UNCHANGED <<cancelled, isSweeping>>
      PROVE  Words
  BY <1>1, <1>a DEF Advance, Finalize, Speaks, InRun
\* The abort of a run.
<1>2. ASSUME NEW R, Abort(c, R), pc[c] \in InRun \ {"failing"},
             c \notin cancelled, UNCHANGED <<cancelled, isSweeping>>
      PROVE  Words
  BY <1>2, <1>a DEF Abort, Speaks, InRun
<1>3. CASE RunRecorded(c)
  <2>1. pc[c] \in InRun \ {"failing"} /\ c \notin cancelled /\ UNCHANGED <<cancelled, isSweeping>>
    BY <1>3 DEF RunRecorded, routerVars, InRun
  <2>2. CASE c \in Tuners
    BY <1>3, <1>a, <2>1, <2>2 DEF RunRecorded, Speaks, InRun
  <2>3. CASE c \notin Tuners
    BY <1>3, <1>1, <2>1, <2>3 DEF RunRecorded
  <2> QED BY <2>2, <2>3
<1>4. CASE PreflightPassed(c) \/ Wake(c)
  BY <1>4, <1>1 DEF PreflightPassed, Wake, routerVars, InRun
<1>5. CASE PreflightFailed(c)
  BY <1>5, <1>a DEF PreflightFailed, routerVars, Speaks, InRun
<1>6. CASE Poll(c)
  <2>1. pc[c] \in InRun \ {"failing"} /\ c \notin cancelled /\ UNCHANGED <<cancelled, isSweeping>>
    BY <1>6 DEF Poll, routerVars, InRun
  <2>2. CASE Abort(c, Count(reqs[c]))
    BY <1>2, <2>1, <2>2
  <2>3. CASE Advance(c, Count(reqs[c]), stopEvent)
    BY <1>1, <2>1, <2>3
  <2>4. CASE pc' = [pc EXCEPT ![c] = "sleeping"] /\ UNCHANGED <<status, lastTerminal>>
    BY <1>a, <2>1, <2>4 DEF Speaks, InRun
  <2> QED BY <1>6, <2>2, <2>3, <2>4 DEF Poll
<1>7. CASE Drain(c)
  <2>1. pc[c] \in InRun \ {"failing"} /\ c \notin cancelled /\ UNCHANGED <<cancelled, isSweeping>>
    BY <1>7 DEF Drain, routerVars, InRun
  <2>2. \E R : Abort(c, R) \/ Advance(c, R, TRUE)
    BY <1>7 DEF Drain
  <2> QED BY <1>1, <1>2, <2>1, <2>2
<1>8. CASE RunRaises(c) \/ FailRun(c) \/ ResultSaved(c) \/ RunReturns(c)
  BY <1>8, <1>a DEF RunRaises, FailRun, ResultSaved, RunReturns, engineVars, routerVars,
                   Speaks, InRun
<1>9. CASE CancelDelivered(c)
  BY <1>9, <1>a DEF CancelDelivered, TaskOver, Live, routerVars, Speaks, InRun
<1>10. CASE Unwind(c)
  BY <1>10, <1>a DEF Unwind, TaskOver, routerVars, Speaks, InRun
<1> QED
  BY <1>3, <1>4, <1>5, <1>6, <1>7, <1>8, <1>9, <1>10 DEF RunStep

\* Nobody goes back to before the first sweep.
LEMMA SweepsLeave ==
  ASSUME TypeOK, [Next]_vars, NoSweepYet'
  PROVE  NoSweepYet
<1>a. pc \in [Callers -> Locations] /\ Sweeps \subseteq Callers
  BY DEF TypeOK, Callers
<1>b. (\A s \in Sweeps : pc'[s] = "idle" => pc[s] = "idle") => NoSweepYet
  BY DEF NoSweepYet
<1>1. CASE UNCHANGED vars
  BY <1>1 DEF vars, callerVars, NoSweepYet
<1>2. CASE Handler
  BY <1>2, <1>a, <1>b
     DEF Handler, Stop, StartRequest, StartRejected, StartAccepted, SweepRequest,
         SweepAccepted, SweepRequestFails, Callers
<1>3. ASSUME NEW c \in Callers, RunStep(c) PROVE NoSweepYet
  BY <1>3, <1>a, <1>b, RunWords
<1>4. ASSUME NEW c \in Callers, RequestStep(c) PROVE NoSweepYet
  BY <1>4, <1>b DEF RequestStep, RequestSent, RequestEnds
<1>5. ASSUME NEW t \in Tests, TestStep(t) PROVE NoSweepYet
  BY <1>5, <1>a, <1>b DEF TestStep, TestBegins, TestRefused, TestEnds, Begin, Callers
<1>6. ASSUME NEW s \in Sweeps, SweepTaskStep(s) PROVE NoSweepYet
  BY <1>6, <1>a, <1>b
     DEF SweepTaskStep, SweepStarts, SweepStartsEmpty, SweepStep, SweepEnds, EndSweep, Begin
<1>7. ASSUME NEW u \in Tuners, TunerStep(u) \/ TunerCancelled(u) PROVE NoSweepYet
  BY <1>7, <1>a, <1>b DEF TunerStep, TunerBegins, TunerRefused, TunerCancelled, Begin, Callers
<1> QED
  BY <1>1, <1>2, <1>3, <1>4, <1>5, <1>6, <1>7 DEF Next

\* As long as nobody sweeps, the router does not hold a sweep.
LEMMA NotSweeping ==
  ASSUME TypeOK, [Next]_vars, NoSweepYet', NoSweepYet => ~isSweeping
  PROVE  ~isSweeping'
<1>a. ~isSweeping /\ pc \in [Callers -> Locations] /\ Sweeps \subseteq Callers /\ NoSweepYet
  BY SweepsLeave DEF TypeOK, Callers
<1>b. \A s \in Sweeps : pc'[s] = "idle" /\ pc[s] = "idle"
  BY <1>a DEF NoSweepYet
<1>1. CASE UNCHANGED vars
  BY <1>1, <1>a DEF vars, routerVars
<1>2. CASE Handler
  BY <1>2, <1>a, <1>b
     DEF Handler, Stop, StartRequest, StartRejected, StartAccepted, SweepRequest,
         SweepAccepted, SweepRequestFails, routerVars
<1>3. ASSUME NEW c \in Callers, RunStep(c) PROVE ~isSweeping'
  BY <1>3, <1>a, <1>b, RunWords
<1>4. ASSUME NEW c \in Callers, RequestStep(c) PROVE ~isSweeping'
  BY <1>4, <1>a DEF RequestStep, RequestSent, RequestEnds, routerVars
<1>5. ASSUME NEW t \in Tests, TestStep(t) PROVE ~isSweeping'
  BY <1>5, <1>a DEF TestStep, TestBegins, TestRefused, TestEnds, routerVars
<1>6. ASSUME NEW s \in Sweeps, SweepTaskStep(s) PROVE ~isSweeping'
  BY <1>6, <1>b DEF SweepTaskStep, SweepStarts, SweepStartsEmpty, SweepStep, SweepEnds
<1>7. ASSUME NEW u \in Tuners, TunerStep(u) \/ TunerCancelled(u) PROVE ~isSweeping'
  BY <1>7, <1>a DEF TunerStep, TunerBegins, TunerRefused, TunerCancelled, routerVars
<1> QED
  BY <1>1, <1>2, <1>3, <1>4, <1>5, <1>6, <1>7 DEF Next

(***************************************************************************)
(* What the clients are sent.                                              *)
(***************************************************************************)

\* The events that end a stream outside a sweep.
Ends == {"completed", "stopped", "error"}

\* A step of the engine puts one terminal event into every queue, the one it
\* records if nobody has swept, or it puts none and records none.
LEMMA EngineTells ==
  ASSUME TypeOK, EngineStep
  PROVE  \/ Silent /\ (NoSweepYet' => lastTerminal' \in {lastTerminal, "none"})
         \/ \E e \in Terminals \ {"none"} : Broadcast(e) /\ (NoSweepYet' => e \in Ends)
<1>a. pc \in [Callers -> Locations] /\ Sweeps \subseteq Callers
  BY DEF TypeOK, Callers
<1>1. CASE StopTold
  BY <1>1 DEF StopTold, Stop, Terminals, Ends
<1>2. CASE Unheard
  <2>1. ASSUME NEW t \in Tests, StartRequest(t) \/ StartRejected(t) \/ StartAccepted(t)
        PROVE  lastTerminal' \in {lastTerminal, "none"}
    BY <2>1 DEF StartRequest, StartRejected, StartAccepted, engineVars
  <2>2. ASSUME NEW t \in Tests, TestStep(t) PROVE lastTerminal' \in {lastTerminal, "none"}
    BY <2>2 DEF TestStep, TestBegins, TestRefused, TestEnds, Begin, engineVars
  <2>3. ASSUME NEW s \in Sweeps, SweepRequest(s) \/ SweepAccepted(s)
        PROVE  lastTerminal' \in {lastTerminal, "none"}
    BY <2>3 DEF SweepRequest, SweepAccepted, engineVars
  <2>4. ASSUME NEW c \in Callers, RequestStep(c) PROVE lastTerminal' = lastTerminal
    BY <2>4 DEF RequestStep, RequestSent, RequestEnds, engineVars
  <2> QED BY <1>2, <2>1, <2>2, <2>3, <2>4 DEF Unheard
<1>3. ASSUME NEW c \in Callers, RunTold(c)
      PROVE  \/ Silent /\ (NoSweepYet' => lastTerminal' \in {lastTerminal, "none"})
             \/ \E e \in Terminals \ {"none"} : Broadcast(e) /\ (NoSweepYet' => e \in Ends)
  <2>1. RunStep(c)
    BY <1>3 DEF RunTold
  <2>2. CASE Speaks(c)
    BY <1>3, <2>1, <2>2, RunWords DEF RunTold, Terminals, Ends
  <2>3. CASE ~Speaks(c) /\ pc[c] = "unwind" /\ lastTerminal' # lastTerminal
    <3>1. Broadcast("sweep_completed") /\ c \in Sweeps /\ pc'[c] # "idle"
      BY <1>3, <2>1, <2>3, RunWords DEF RunTold, Unwind, Speaks, InRun
    <3> QED BY <3>1 DEF Terminals, NoSweepYet
  <2>4. CASE ~Speaks(c) /\ ~(pc[c] = "unwind" /\ lastTerminal' # lastTerminal)
    BY <1>3, <2>1, <2>4, RunWords DEF RunTold
  <2> QED BY <2>2, <2>3, <2>4
<1>4. ASSUME NEW s \in Sweeps, SweepTold(s)
      PROVE  \/ Silent /\ (NoSweepYet' => lastTerminal' \in {lastTerminal, "none"})
             \/ \E e \in Terminals \ {"none"} : Broadcast(e) /\ (NoSweepYet' => e \in Ends)
  <2>1. pc'[s] # "idle"
    BY <1>4, <1>a
       DEF SweepTold, SweepTaskStep, SweepStarts, SweepStartsEmpty, SweepStep, SweepEnds,
           EndSweep, Begin
  <2> QED BY <1>4, <2>1 DEF SweepTold, NoSweepYet, Terminals
<1> QED
  BY <1>1, <1>2, <1>3, <1>4 DEF EngineStep

\* The stream's own variables keep their types.
ClientTypes ==
  /\ present \in Scenarios
  /\ at \in [Clients -> {"away", "connected", "waiting", "sending", "closed"}]
  /\ queue \in [Clients -> Seq(Terminals \ {"none"})]
  /\ held \in [Clients -> Terminals]
  /\ \A k \in Clients : held[k] = "none" <=> at[k] # "sending"

LEMMA ClientTypesStep ==
  ASSUME TypeOK, ClientTypes, [StreamNext]_allVars
  PROVE  ClientTypes'
<1>1. CASE UNCHANGED allVars
  BY <1>1 DEF ClientTypes, allVars, streamVars
<1>2. CASE EngineStep
  <2>1. CASE Silent
    BY <2>1 DEF Silent, streamVars, ClientTypes
  <2>2. ASSUME NEW e \in Terminals \ {"none"}, Broadcast(e) PROVE ClientTypes'
    <3>1. \A k \in Clients : Append(queue[k], e) \in Seq(Terminals \ {"none"})
      BY <2>2, AppendProperties DEF ClientTypes
    <3> QED BY <2>2, <3>1 DEF Broadcast, ClientTypes
  <2> QED BY <1>2, <2>1, <2>2, EngineTells
<1>3. ASSUME NEW k \in Clients, Connect(k) PROVE ClientTypes'
  BY <1>3 DEF Connect, ClientTypes
<1>4. ASSUME NEW k \in Clients, Close(k), UNCHANGED present PROVE ClientTypes'
  <2>1. <<>> \in Seq(Terminals \ {"none"})
    OBVIOUS
  <2> QED BY <1>4, <2>1 DEF Close, ClientTypes, Terminals
<1>5. ASSUME NEW k \in Clients, Replay(k) PROVE ClientTypes'
  BY <1>4, <1>5 DEF Replay, ClientTypes
<1>6. ASSUME NEW k \in Clients, Take(k) PROVE ClientTypes'
  <2>1. Head(queue[k]) \in Terminals \ {"none"} /\ Tail(queue[k]) \in Seq(Terminals \ {"none"})
    BY <1>6, HeadTailProperties DEF Take, ClientTypes
  <2> QED BY <1>6, <2>1 DEF Take, ClientTypes
<1>7. ASSUME NEW k \in Clients, Sent(k) PROVE ClientTypes'
  <2>1. CASE Close(k)
    BY <1>4, <1>7, <2>1 DEF Sent
  <2>2. CASE ~Close(k)
    BY <1>7, <2>2 DEF Sent, ClientTypes, Terminals
  <2> QED BY <2>1, <2>2
<1>8. ASSUME NEW k \in Clients, Disconnect(k) PROVE ClientTypes'
  BY <1>4, <1>8 DEF Disconnect
<1> QED
  BY <1>1, <1>2, <1>3, <1>5, <1>6, <1>7, <1>8 DEF StreamNext, Stream

\* The engine's variables and the stream's keep their types.
THEOREM StreamTypeCorrect == StreamSpec => []StreamTypeOK
<1>1. StreamInit => ClientTypes
  <2>1. <<>> \in Seq(Terminals \ {"none"})
    OBVIOUS
  <2> QED BY <2>1 DEF StreamInit, ClientTypes, Terminals
<1>2. TypeOK /\ ClientTypes => StreamTypeOK
  BY DEF StreamTypeOK, ClientTypes
<1>3. TypeOK /\ ClientTypes /\ [StreamNext]_allVars => ClientTypes'
  BY ClientTypesStep
<1> QED
  BY <1>1, <1>2, <1>3, StreamKeepsEngine, TypeCorrect, PTL DEF StreamSpec

\* Until somebody sweeps, the queues hold nothing but events that end a
\* stream, and a client that waits on an empty one has missed none.
Heard ==
  NoSweepYet =>
    /\ ~isSweeping
    /\ \A k \in Clients :
         /\ queue[k] \in Seq(Ends)
         /\ at[k] = "sending" => held[k] \in Ends
         /\ at[k] = "waiting" /\ queue[k] = <<>> => lastTerminal = "none"

LEMMA HeardStep ==
  ASSUME TypeOK, ClientTypes, Heard, [StreamNext]_allVars
  PROVE  Heard'
<1> SUFFICES ASSUME NoSweepYet' PROVE Heard'
  BY DEF Heard
<1>a. NoSweepYet /\ ~isSweeping /\ ~isSweeping'
  BY SweepsLeave, EngineBelow, NotSweeping DEF Heard
<1>b. SUFFICES ASSUME NEW k \in Clients
               PROVE  /\ queue'[k] \in Seq(Ends)
                      /\ at'[k] = "sending" => held'[k] \in Ends
                      /\ at'[k] = "waiting" /\ queue'[k] = <<>> => lastTerminal' = "none"
  BY <1>a DEF Heard
<1>c. /\ queue[k] \in Seq(Ends)
      /\ at[k] = "sending" => held[k] \in Ends
      /\ at[k] = "waiting" /\ queue[k] = <<>> => lastTerminal = "none"
  BY <1>a DEF Heard
<1>d. /\ at \in [Clients -> {"away", "connected", "waiting", "sending", "closed"}]
      /\ DOMAIN queue = Clients /\ DOMAIN held = Clients
      /\ <<>> \in Seq(Ends)
  BY DEF ClientTypes
<1>1. CASE UNCHANGED allVars
  BY <1>1, <1>c DEF allVars, streamVars, vars, engineVars
<1>2. CASE EngineStep
  <2>1. CASE Silent /\ lastTerminal' \in {lastTerminal, "none"}
    BY <2>1, <1>c DEF Silent, streamVars
  <2>2. ASSUME NEW e \in Ends, Broadcast(e)
        PROVE  /\ queue'[k] \in Seq(Ends)
               /\ at'[k] = "sending" => held'[k] \in Ends
               /\ at'[k] = "waiting" => queue'[k] # <<>>
    <3>1. Append(queue[k], e) \in Seq(Ends) /\ Append(queue[k], e) # <<>>
      BY <1>c, <2>2, AppendProperties
    <3> QED BY <1>c, <1>d, <2>2, <3>1 DEF Broadcast, Subscribed
  <2> QED BY <1>2, <2>1, <2>2, EngineTells
<1>3. ASSUME NEW j \in Clients, Connect(j) \/ Replay(j) \/ Disconnect(j)
      PROVE  /\ queue'[k] \in Seq(Ends)
             /\ at'[k] = "sending" => held'[k] \in Ends
             /\ at'[k] = "waiting" /\ queue'[k] = <<>> => lastTerminal' = "none"
  BY <1>3, <1>c, <1>d DEF Connect, Replay, Disconnect, Close, vars, engineVars
<1>4. ASSUME NEW j \in Clients, Take(j)
      PROVE  /\ queue'[k] \in Seq(Ends)
             /\ at'[k] = "sending" => held'[k] \in Ends
             /\ at'[k] = "waiting" /\ queue'[k] = <<>> => lastTerminal' = "none"
  <2>1. k = j => Head(queue[k]) \in Ends /\ Tail(queue[k]) \in Seq(Ends)
    BY <1>4, <1>c, HeadTailProperties DEF Take
  <2> QED BY <1>4, <1>c, <1>d, <2>1 DEF Take, vars, engineVars
<1>5. ASSUME NEW j \in Clients, Sent(j)
      PROVE  /\ queue'[k] \in Seq(Ends)
             /\ at'[k] = "sending" => held'[k] \in Ends
             /\ at'[k] = "waiting" /\ queue'[k] = <<>> => lastTerminal' = "none"
  <2>1. held[j] \in Ends
    BY <1>5, <1>a DEF Sent, Heard
  <2>2. Close(j) /\ UNCHANGED lastTerminal
    BY <1>5, <1>a, <2>1 DEF Sent, Ending, Ends, vars, engineVars
  <2> QED BY <2>2, <1>c, <1>d DEF Close
<1> QED
  BY <1>1, <1>2, <1>3, <1>4, <1>5 DEF StreamNext, Stream

\* What a step of a run does to requests, and how the run may leave its loop:
\* with a word, cancelled or by an exception.
LEMMA RunRequests ==
  ASSUME TypeOK, NEW c \in Callers, RunStep(c)
  PROVE  /\ owner' = owner
         /\ \A d \in Callers \ {c} : reqs'[d] = reqs[d]
         /\ \A r \in Requests : reqs[c][r] = "raise" => reqs'[c][r] = "raise"
         /\ pc[c] \notin InRun => reqs' = reqs
         /\ pc[c] \notin {"idle", "starting"}
         /\ pc'[c] \notin {"idle", "starting", "created"}
         /\ pc[c] = "storing" \/ pc[c] = "created" => pc'[c] = "done"
         /\ pc[c] # "done"
         /\ pc[c] \in InRun \ {"failing"} =>
              \/ pc'[c] \in InRun \ {"failing"}
              \/ lastTerminal' # "none" \/ c \in cancelled \/ Lost(c)
<1> DEFINE Effect ==
      /\ owner' = owner
      /\ \A d \in Callers \ {c} : reqs'[d] = reqs[d]
      /\ \A r \in Requests : reqs[c][r] = "raise" => reqs'[c][r] = "raise"
      /\ pc[c] \notin InRun => reqs' = reqs
      /\ pc[c] \notin {"idle", "starting"}
      /\ pc'[c] \notin {"idle", "starting", "created"}
      /\ pc[c] = "storing" \/ pc[c] = "created" => pc'[c] = "done"
      /\ pc[c] # "done"
      /\ pc[c] \in InRun \ {"failing"} =>
           \/ pc'[c] \in InRun \ {"failing"}
           \/ lastTerminal' # "none" \/ c \in cancelled \/ Lost(c)
<1>a. pc \in [Callers -> Locations] /\ reqs \in [Callers -> [Requests -> RequestStates]]
  BY DEF TypeOK
<1>b. \A r \in Requests : reqs[c][r] = "raise" => Count(reqs[c])[r] = "raise"
  BY DEF Count
\* The head of the request loop, and the abort of a run.
<1>1. ASSUME NEW R \in [Requests -> RequestStates], NEW stopping,
             \A r \in Requests : reqs[c][r] = "raise" => R[r] = "raise",
             Abort(c, R) \/ Advance(c, R, stopping), pc[c] \in InRun \ {"failing"},
             owner' = owner
      PROVE  Effect
  <2>1. CASE Abort(c, R)
    BY <1>1, <1>a, <2>1 DEF Abort, InRun
  <2>2. CASE Advance(c, R, stopping)
    <3>1. /\ \A d \in Callers \ {c} : reqs'[d] = reqs[d]
          /\ \A r \in Requests : R[r] = "raise" => reqs'[c][r] = "raise"
      BY <1>1, <1>a, <2>2 DEF Advance
    <3>2. pc' = [pc EXCEPT ![c] = "polling"] \/ pc' = [pc EXCEPT ![c] = "drain"]
          \/ Finalize(c)
      BY <2>2 DEF Advance
    <3> QED BY <1>1, <1>a, <3>1, <3>2 DEF Finalize, InRun
  <2> QED BY <1>1, <2>1, <2>2
<1>2. CASE RunRecorded(c)
  <2>1. pc[c] \in InRun \ {"failing"} /\ owner' = owner
    BY <1>2 DEF RunRecorded, InRun
  <2>2. CASE c \in Tuners
    BY <1>2, <1>a, <2>1, <2>2 DEF RunRecorded, InRun
  <2>3. CASE c \notin Tuners
    BY <1>1, <1>2, <1>a, <2>1, <2>3 DEF RunRecorded
  <2> QED BY <2>2, <2>3
<1>3. CASE PreflightPassed(c) \/ Wake(c)
  <2>1. /\ pc[c] \in InRun \ {"failing"} /\ owner' = owner
        /\ Advance(c, reqs[c], stopEvent)
    BY <1>3 DEF PreflightPassed, Wake, InRun
  <2> QED BY <1>1, <1>a, <2>1
<1>4. CASE PreflightFailed(c)
  BY <1>4, <1>a DEF PreflightFailed, InRun
<1>5. CASE Poll(c)
  <2>1. /\ pc[c] \in InRun \ {"failing"} /\ owner' = owner
        /\ Count(reqs[c]) \in [Requests -> RequestStates]
    BY <1>5, <1>a, CountType DEF Poll, InRun
  <2>2. CASE Abort(c, Count(reqs[c])) \/ Advance(c, Count(reqs[c]), stopEvent)
    BY <1>1, <1>b, <2>1, <2>2
  <2>3. CASE /\ pc' = [pc EXCEPT ![c] = "sleeping"]
             /\ reqs' = [reqs EXCEPT ![c] = Count(reqs[c])]
    BY <1>a, <1>b, <2>1, <2>3 DEF InRun
  <2> QED BY <1>5, <2>2, <2>3 DEF Poll
<1>6. CASE Drain(c)
  <2>1. /\ pc[c] \in InRun \ {"failing"} /\ owner' = owner
        /\ \E r \in Requests :
             LET R == [reqs[c] EXCEPT ![r] = Count(reqs[c])[r]]
             IN  Abort(c, R) \/ Advance(c, R, TRUE)
    BY <1>6 DEF Drain, InRun
  <2>2. ASSUME NEW r \in Requests, NEW R, R = [reqs[c] EXCEPT ![r] = Count(reqs[c])[r]]
        PROVE  /\ R \in [Requests -> RequestStates]
               /\ \A q \in Requests : reqs[c][q] = "raise" => R[q] = "raise"
    BY <1>a, <1>b, <2>2, CountType
  <2> QED BY <1>1, <2>1, <2>2
<1>7. CASE RunRaises(c)
  BY <1>7, <1>a DEF RunRaises, InRun, Lost
<1>8. CASE FailRun(c) \/ ResultSaved(c) \/ RunReturns(c)
  BY <1>8, <1>a DEF FailRun, ResultSaved, RunReturns, engineVars, InRun
<1>9. CASE CancelDelivered(c)
  BY <1>9, <1>a DEF CancelDelivered, TaskOver, Live, InRun
<1>10. CASE Unwind(c)
  BY <1>10, <1>a DEF Unwind, TaskOver, InRun
<1> QED
  BY <1>2, <1>3, <1>4, <1>5, <1>6, <1>7, <1>8, <1>9, <1>10 DEF RunStep

\* Requests of a test that has not begun are not created yet.
Fresh ==
  \A t \in Tests : pc[t] \in {"idle", "starting", "created"} =>
    \A r \in Requests : reqs[t][r] = "new"

\* While no end is recorded there is a run to wait for, or one of those that
\* end untold; until somebody sweeps.
Awaited ==
  NoSweepYet => Fresh /\ (lastTerminal = "none" => AwaitsRun)

\* A step that keeps the owner and records no end keeps what there is to wait
\* for, if the owner does not leave its run unheard and no test begins.
LEMMA AwaitsStays ==
  ASSUME TypeOK, AwaitsRun, owner' = owner, cancelled \subseteq cancelled',
         \A t \in Tests : NotBegun(t) => NotBegun(t)',
         owner \in Callers => \A r \in Requests :
           reqs[owner][r] = "raise" => reqs'[owner][r] = "raise",
         owner \in Callers /\ pc[owner] \in InRun \ {"failing"} =>
           \/ pc'[owner] \in InRun \ {"failing"}
           \/ owner \in cancelled \/ Lost(owner)
  PROVE  AwaitsRun'
<1>1. CASE owner = NoCaller \/ \E t \in Tests : NotBegun(t)
  BY <1>1 DEF AwaitsRun
<1>2. CASE owner \in Callers
  <2>1. Lost(owner) => Lost(owner)'
    BY <1>2 DEF Lost
  <2> QED BY <1>1, <1>2, <2>1 DEF AwaitsRun
<1> QED BY <1>1, <1>2 DEF TypeOK

LEMMA AwaitedStep ==
  ASSUME TypeOK, Awaited, [StreamNext]_allVars
  PROVE  Awaited'
<1> SUFFICES ASSUME NoSweepYet' PROVE Fresh' /\ (lastTerminal' = "none" => AwaitsRun')
  BY DEF Awaited
<1>a. NoSweepYet /\ Fresh /\ (lastTerminal = "none" => AwaitsRun)
  BY SweepsLeave, EngineBelow DEF Awaited
<1>b. /\ pc \in [Callers -> Locations] /\ reqs \in [Callers -> [Requests -> RequestStates]]
      /\ Tests \subseteq Callers /\ owner \in Callers \cup {NoCaller}
      /\ NoCaller \notin Callers
  BY CallersAssumption DEF TypeOK, Callers
\* A step that moves no caller and touches no request.
<1>c. ASSUME UNCHANGED <<owner, pc, reqs>>, cancelled \subseteq cancelled',
             lastTerminal' = "none" => lastTerminal = "none"
      PROVE  Fresh' /\ (lastTerminal' = "none" => AwaitsRun')
  <2>1. Fresh'
    BY <1>a, <1>c DEF Fresh
  <2>2. lastTerminal' = "none" => AwaitsRun'
    BY <1>a, <1>c, AwaitsStays DEF NotBegun
  <2> QED BY <2>1, <2>2
\* A step of one test that does not begin.
<1>d. ASSUME NEW t \in Tests, UNCHANGED <<owner, reqs, cancelled>>, NEW l,
             pc' = [pc EXCEPT ![t] = l],
             \/ lastTerminal' = lastTerminal /\ pc[t] \notin InRun
                /\ (NotBegun(t) => l \in {"storing", "done"})
                /\ (l \in {"idle", "starting", "created"} => pc[t] = "idle")
             \/ pc[t] = "starting" /\ l = "created"
      PROVE  Fresh' /\ (lastTerminal' = "none" => AwaitsRun')
  <2>1. Fresh'
    BY <1>a, <1>b, <1>d DEF Fresh
  <2>2. CASE pc[t] = "starting" /\ l = "created"
    <3>1. NotBegun(t)'
      BY <1>a, <1>b, <1>d, <2>2 DEF NotBegun, Fresh
    <3> QED BY <2>1, <3>1 DEF AwaitsRun
  <2>3. CASE /\ lastTerminal' = lastTerminal /\ pc[t] \notin InRun
             /\ NotBegun(t) => l \in {"storing", "done"}
    <3>1. \A u \in Tests : NotBegun(u) => NotBegun(u)'
      BY <1>b, <1>d, <2>3 DEF NotBegun
    <3>2. owner \in Callers /\ pc[owner] \in InRun \ {"failing"} =>
            pc'[owner] \in InRun \ {"failing"}
      BY <1>b, <1>d, <2>3
    <3> QED BY <1>a, <1>d, <2>1, <2>3, <3>1, <3>2, AwaitsStays
  <2> QED BY <1>d, <2>2, <2>3
<1>1. CASE UNCHANGED allVars
  BY <1>1, <1>c DEF allVars, vars, engineVars, callerVars
<1>2. CASE StopTold
  BY <1>2, <1>c DEF StopTold, Stop
<1>3. ASSUME NEW t \in Tests, StartRequest(t) \/ StartRejected(t) \/ StartAccepted(t)
      PROVE  Fresh' /\ (lastTerminal' = "none" => AwaitsRun')
  <2>1. \E l \in {"starting", "rejected", "created"} :
          /\ pc' = [pc EXCEPT ![t] = l]
          /\ UNCHANGED <<owner, reqs, cancelled>>
          /\ \/ pc[t] = "idle" /\ l = "starting" /\ lastTerminal' = lastTerminal
             \/ pc[t] = "starting" /\ l = "rejected" /\ lastTerminal' = lastTerminal
             \/ pc[t] = "starting" /\ l = "created"
    BY <1>3 DEF StartRequest, StartRejected, StartAccepted, engineVars
  <2> QED BY <1>d, <2>1 DEF NotBegun, InRun
<1>4. ASSUME NEW t \in Tests, TestRefused(t) \/ TestEnds(t)
      PROVE  Fresh' /\ (lastTerminal' = "none" => AwaitsRun')
  <2>1. \E l \in {"storing", "done"} :
          /\ pc' = [pc EXCEPT ![t] = l] /\ pc[t] \in {"created", "storing"}
          /\ UNCHANGED <<owner, reqs, cancelled, lastTerminal>>
    BY <1>4 DEF TestRefused, TestEnds, engineVars
  <2> QED BY <1>d, <2>1 DEF InRun
<1>5. ASSUME NEW t \in Tests, TestBegins(t)
      PROVE  Fresh' /\ (lastTerminal' = "none" => AwaitsRun')
  <2>1. pc'[t] = "marking" /\ owner' = t
    BY <1>5, <1>b DEF TestBegins, Begin
  <2>2. Fresh'
    BY <1>5, <1>a, <1>b DEF TestBegins, Begin, Fresh
  <2> QED BY <2>1, <2>2 DEF AwaitsRun, InRun
<1>6. ASSUME NEW s \in Sweeps, SweepRequest(s) \/ SweepAccepted(s) PROVE FALSE
  <2>1. pc'[s] # "idle"
    BY <1>6, <1>b DEF SweepRequest, SweepAccepted, Callers
  <2> QED BY <2>1 DEF NoSweepYet
<1>7. ASSUME NEW c \in Callers, NEW r \in Requests, RequestSent(c, r) \/ RequestEnds(c, r)
      PROVE  Fresh' /\ (lastTerminal' = "none" => AwaitsRun')
  <2>1. /\ reqs[c][r] \in {"queued", "sent"}
        /\ UNCHANGED <<owner, pc, cancelled, lastTerminal>>
        /\ \E o : reqs' = [reqs EXCEPT ![c][r] = o]
    BY <1>7 DEF RequestSent, RequestEnds, engineVars
  <2>2. ASSUME NEW d \in Callers, NEW q \in Requests, reqs[d][q] \in {"raise", "new"}
        PROVE  reqs'[d][q] = reqs[d][q]
    BY <1>b, <2>1, <2>2
  <2>3. Fresh'
    BY <1>a, <1>b, <2>1, <2>2 DEF Fresh
  <2>4. \A t \in Tests : NotBegun(t) => NotBegun(t)'
    BY <1>b, <2>1, <2>2 DEF NotBegun
  <2> QED BY <1>a, <2>1, <2>2, <2>3, <2>4, AwaitsStays
<1>8. ASSUME NEW c \in Callers, RunTold(c)
      PROVE  Fresh' /\ (lastTerminal' = "none" => AwaitsRun')
  <2>1. RunStep(c)
    BY <1>8 DEF RunTold
  <2>2. /\ owner' = owner /\ cancelled' = cancelled
        /\ \A d \in Callers \ {c} : pc'[d] = pc[d] /\ reqs'[d] = reqs[d]
        /\ \A r \in Requests : reqs[c][r] = "raise" => reqs'[c][r] = "raise"
        /\ pc[c] \notin InRun => reqs' = reqs
        /\ pc[c] # "done" /\ pc'[c] \notin {"idle", "starting", "created"}
        /\ pc[c] = "storing" \/ pc[c] = "created" => pc'[c] = "done"
        /\ pc[c] \in InRun \ {"failing"} =>
             \/ pc'[c] \in InRun \ {"failing"}
             \/ lastTerminal' # "none" \/ c \in cancelled \/ Lost(c)
    BY <2>1, RunRequests, RunWords
  <2>3. lastTerminal' = "none" => lastTerminal = "none"
    <3>1. pc'[c] # "idle"
      BY <2>2
    <3>2. c \notin Sweeps
      BY <3>1 DEF NoSweepYet
    <3> QED BY <2>1, <3>2, RunWords
  <2>4. Fresh'
    BY <1>a, <1>b, <2>2 DEF Fresh
  <2>5. \A t \in Tests : NotBegun(t) => NotBegun(t)'
    BY <1>b, <2>2 DEF NotBegun, InRun
  <2> QED BY <1>a, <2>2, <2>3, <2>4, <2>5, AwaitsStays
<1>9. ASSUME NEW s \in Sweeps, SweepTold(s) PROVE FALSE
  <2>1. pc'[s] # "idle"
    BY <1>9, <1>b
       DEF SweepTold, SweepTaskStep, SweepStarts, SweepStartsEmpty, SweepStep, SweepEnds,
           EndSweep, Begin, Callers
  <2> QED BY <2>1 DEF NoSweepYet
<1>10. ASSUME NEW k \in Clients, Connect(k) \/ Stream(k) \/ Disconnect(k)
       PROVE  Fresh' /\ (lastTerminal' = "none" => AwaitsRun')
  BY <1>10, <1>c
     DEF Connect, Stream, Replay, Take, Sent, Disconnect, vars, engineVars, callerVars
<1>11. CASE Unheard
  BY <1>11, <1>3, <1>4, <1>5, <1>6, <1>7 DEF Unheard, TestStep, RequestStep
<1> QED
  BY <1>1, <1>2, <1>8, <1>9, <1>10, <1>11 DEF StreamNext, EngineStep

\* A client that waits on an empty queue has missed nothing, whenever it
\* subscribed and whatever ends between its subscription and the replay: no
\* end is recorded, and there is a run to wait for, unless that run is one of
\* those AwaitsRun names, which end without a word.
THEOREM NothingIsMissed == StreamSpec => []NothingMissed
<1>1. StreamInit => Heard /\ ClientTypes
  <2>1. <<>> \in Seq(Ends) /\ <<>> \in Seq(Terminals \ {"none"})
    OBVIOUS
  <2> QED BY <2>1 DEF StreamInit, Init, Heard, ClientTypes, Terminals
<1>2. TypeOK /\ ClientTypes /\ [StreamNext]_allVars => ClientTypes'
  BY ClientTypesStep
<1>3. TypeOK /\ ClientTypes /\ Heard /\ [StreamNext]_allVars => Heard'
  BY HeardStep
<1>4. StreamInit => Awaited
  BY DEF StreamInit, Init, Awaited, Fresh, AwaitsRun, Callers
<1>5. TypeOK /\ Awaited /\ [StreamNext]_allVars => Awaited'
  BY AwaitedStep
<1>6. Heard /\ Awaited => NothingMissed
  BY DEF Heard, Awaited, NothingMissed
<1> QED
  BY <1>1, <1>2, <1>3, <1>4, <1>5, <1>6, StreamKeepsEngine, TypeCorrect, PTL DEF StreamSpec

(***************************************************************************)
(* What a client is not replayed.                                          *)
(***************************************************************************)

\* The streams are looked at without the auto-tuner, whose evaluations the
\* router knows nothing of.
TunersIdle == \A u \in Tuners : pc[u] = "idle"

LEMMA TunersIdleStep ==
  ASSUME TypeOK, TunersIdle, [StreamNext]_allVars
  PROVE  TunersIdle'
<1>a. /\ pc \in [Callers -> Locations] /\ Tuners \subseteq Callers
      /\ \A u \in Tuners : u \notin Tests /\ u \notin Sweeps
  BY CallersAssumption DEF TypeOK, Callers
<1> SUFFICES ASSUME NEW u \in Tuners PROVE pc'[u] = "idle"
  BY DEF TunersIdle
<1>b. pc[u] = "idle"
  BY DEF TunersIdle
<1>1. CASE pc' = pc
  BY <1>1, <1>b
<1>2. CASE StopTold
  BY <1>2, <1>b DEF StopTold, Stop
<1>3. CASE Unheard
  <2>1. ASSUME NEW t \in Tests, StartRequest(t) \/ StartRejected(t) \/ StartAccepted(t)
        PROVE  pc'[u] = "idle"
    BY <2>1, <1>a, <1>b DEF StartRequest, StartRejected, StartAccepted
  <2>2. ASSUME NEW t \in Tests, TestStep(t) PROVE pc'[u] = "idle"
    BY <2>2, <1>a, <1>b DEF TestStep, TestBegins, TestRefused, TestEnds, Begin
  <2>3. ASSUME NEW s \in Sweeps, SweepRequest(s) \/ SweepAccepted(s) PROVE pc'[u] = "idle"
    BY <2>3, <1>a, <1>b DEF SweepRequest, SweepAccepted
  <2>4. ASSUME NEW c \in Callers, RequestStep(c) PROVE pc'[u] = "idle"
    BY <2>4, <1>b DEF RequestStep, RequestSent, RequestEnds
  <2> QED BY <1>3, <2>1, <2>2, <2>3, <2>4 DEF Unheard
<1>4. ASSUME NEW c \in Callers, RunTold(c) PROVE pc'[u] = "idle"
  BY <1>4, <1>a, <1>b, RunWords DEF RunTold
<1>5. ASSUME NEW s \in Sweeps, SweepTold(s) PROVE pc'[u] = "idle"
  BY <1>5, <1>a, <1>b
     DEF SweepTold, SweepTaskStep, SweepStarts, SweepStartsEmpty, SweepStep, SweepEnds,
         EndSweep, Begin
<1>6. ASSUME NEW k \in Clients, Connect(k) \/ Stream(k) \/ Disconnect(k) PROVE pc' = pc
  BY <1>6 DEF Connect, Stream, Replay, Take, Sent, Disconnect, vars, callerVars
<1>7. UNCHANGED allVars => pc' = pc
  BY DEF allVars, vars, callerVars
<1> QED
  BY <1>1, <1>2, <1>3, <1>4, <1>5, <1>6, <1>7 DEF StreamNext, EngineStep

\* A request whose answer is one the code expects never raises.
NoRaise == \A c \in Callers, r \in Requests : reqs[c][r] # "raise"

LEMMA NoRaiseStep ==
  ASSUME "raise" \notin Outcomes, TypeOK, NoRaise, [Next]_vars
  PROVE  NoRaise'
<1>a. reqs \in [Callers -> [Requests -> RequestStates]]
  BY DEF TypeOK
\* What the head of the request loop, and the abort, leave of the requests.
<1>b. ASSUME NEW c \in Callers, NEW R \in [Requests -> RequestStates],
             \A r \in Requests : R[r] # "raise",
             Abort(c, R) \/ \E b \in BOOLEAN : Advance(c, R, b)
      PROVE  NoRaise'
  BY <1>a, <1>b DEF Abort, Advance, NoRaise
<1>c. ASSUME NEW c \in Callers
      PROVE  /\ reqs[c] \in [Requests -> RequestStates]
             /\ Count(reqs[c]) \in [Requests -> RequestStates]
             /\ \A r \in Requests : reqs[c][r] # "raise" /\ Count(reqs[c])[r] # "raise"
  BY <1>a, CountType DEF Count, NoRaise
<1>1. CASE reqs' = reqs
  BY <1>1 DEF NoRaise
<1>2. ASSUME NEW c \in Callers, Begin(c) PROVE NoRaise'
  BY <1>2, <1>a DEF Begin, NoRaise
<1>3. CASE UNCHANGED vars \/ Handler
  BY <1>1, <1>3
     DEF vars, callerVars, Handler, Stop, StartRequest, StartRejected, StartAccepted,
         SweepRequest, SweepAccepted, SweepRequestFails
<1>4. ASSUME NEW c \in Callers, RunStep(c) PROVE NoRaise'
  <2>1. CASE RunRecorded(c)
    BY <2>1, <1>1, <1>b, <1>c DEF RunRecorded
  <2>2. CASE PreflightPassed(c) \/ Wake(c)
    <3>1. stopEvent \in BOOLEAN
      BY DEF TypeOK
    <3> QED BY <2>2, <3>1, <1>b, <1>c DEF PreflightPassed, Wake
  <2>3. CASE Poll(c)
    <3>1. stopEvent \in BOOLEAN
      BY DEF TypeOK
    <3>2. CASE reqs' = [reqs EXCEPT ![c] = Count(reqs[c])]
      BY <3>2, <1>a, <1>c DEF NoRaise
    <3> QED BY <2>3, <3>1, <3>2, <1>b, <1>c DEF Poll
  <2>4. CASE Drain(c)
    <3>1. \E r \in Requests :
            LET R == [reqs[c] EXCEPT ![r] = Count(reqs[c])[r]]
            IN  Abort(c, R) \/ Advance(c, R, TRUE)
      BY <2>4 DEF Drain
    <3>2. ASSUME NEW r \in Requests, NEW R, R = [reqs[c] EXCEPT ![r] = Count(reqs[c])[r]],
                 Abort(c, R) \/ Advance(c, R, TRUE)
          PROVE  NoRaise'
      <4>1. R \in [Requests -> RequestStates] /\ \A q \in Requests : R[q] # "raise"
        BY <3>2, <1>c
      <4> QED BY <3>2, <4>1, <1>b
    <3> QED BY <3>1, <3>2
  <2>5. CASE \/ PreflightFailed(c) \/ RunRaises(c) \/ FailRun(c) \/ ResultSaved(c)
             \/ RunReturns(c) \/ CancelDelivered(c) \/ Unwind(c)
    BY <2>5, <1>1
       DEF PreflightFailed, RunRaises, FailRun, ResultSaved, RunReturns, CancelDelivered, Unwind
  <2> QED BY <1>4, <2>1, <2>2, <2>3, <2>4, <2>5 DEF RunStep
<1>5. ASSUME NEW c \in Callers, RequestStep(c) PROVE NoRaise'
  BY <1>5, <1>a DEF RequestStep, RequestSent, RequestEnds, NoRaise
<1>6. ASSUME NEW t \in Tests, TestStep(t) PROVE NoRaise'
  BY <1>6, <1>1, <1>2 DEF TestStep, TestBegins, TestRefused, TestEnds, Callers
<1>7. ASSUME NEW s \in Sweeps, SweepTaskStep(s) PROVE NoRaise'
  BY <1>7, <1>1, <1>2
     DEF SweepTaskStep, SweepStarts, SweepStartsEmpty, SweepStep, SweepEnds, Callers
<1>8. ASSUME NEW u \in Tuners, TunerStep(u) \/ TunerCancelled(u) PROVE NoRaise'
  BY <1>8, <1>1, <1>2 DEF TunerStep, TunerBegins, TunerRefused, TunerCancelled, Callers
<1> QED
  BY <1>3, <1>4, <1>5, <1>6, <1>7, <1>8 DEF Next

\* A test that is to run, with none beside it, finds the engine free.
LEMMA EngineFreeForCreated ==
  ASSUME TypeOK, EngineHeld, OneLiveTest, NoSweepYet, TunersIdle, NoRaise,
         NEW t \in Tests \ cancelled, pc[t] = "created"
  PROVE  status # "running"
<1> SUFFICES ASSUME status = "running" PROVE FALSE
  OBVIOUS
<1>1. owner \in Callers /\ (Running(owner) \/ Lost(owner))
  BY DEF EngineHeld
<1>2. pc[owner] # "idle" => owner \in Tests
  BY <1>1 DEF NoSweepYet, TunersIdle, Callers
<1>3. Running(owner)
  <2>1. owner \notin cancelled \cap Cancellable
    BY CallersAssumption DEF TypeOK, Tasks, TunersIdle
  <2> QED BY <1>1, <2>1 DEF Lost, NoRaise
<1>4. owner \in Tests /\ Live(owner) /\ Live(t) /\ {t, owner} \cap cancelled = {} /\ owner # t
  BY <1>2, <1>3 DEF Running, Live, InRun
<1> QED BY <1>4 DEF OneLiveTest

\* A test that runs keeps others from replaying an end: what the engine does
\* between two of its states.
LEMMA ReplayFreshStep ==
  ASSUME TypeOK, EngineHeld, SweepSlot, OneLiveTest, TunersIdle, TunersIdle', NoRaise,
         ReplayFresh, [Next]_vars
  PROVE  ReplayFresh'
<1> DEFINE EndsLater(t) == \/ pc[t] = "created"
                           \/ pc[t] \in InRun \ {"failing"} /\ status = "running"
<1>a. SUFFICES ASSUME NoSweepYet', NEW t \in Tests, t \notin cancelled', EndsLater(t)'
               PROVE  lastTerminal' = "none"
  BY DEF ReplayFresh
<1>b. NoSweepYet /\ (t \notin cancelled /\ EndsLater(t) => lastTerminal = "none")
  BY SweepsLeave, <1>a DEF ReplayFresh
<1>c. /\ pc \in [Callers -> Locations] /\ Tests \subseteq Callers /\ Sweeps \subseteq Callers
      /\ \A s \in Sweeps : pc[s] = "idle" /\ pc'[s] = "idle"
      /\ \A u \in Tuners : pc[u] = "idle" /\ pc'[u] = "idle"
  BY <1>a, <1>b DEF TypeOK, Callers, NoSweepYet, TunersIdle
<1>1. CASE UNCHANGED vars
  BY <1>1, <1>a, <1>b DEF vars, engineVars, callerVars
<1>2. CASE Stop
  <2>1. t \notin cancelled /\ pc[t] = "created"
    BY <1>2, <1>a DEF Stop
  <2>2. status # "running"
    BY <1>b, <2>1, EngineFreeForCreated
  <2>3. ~sweepRunning
    BY <1>c DEF SweepSlot, InSweep, InRun
  <2> QED BY <1>2, <1>b, <2>1, <2>2, <2>3 DEF Stop
<1>3. ASSUME NEW u \in Tests, StartRequest(u) \/ StartRejected(u) \/ StartAccepted(u)
      PROVE  lastTerminal' = "none"
  BY <1>3, <1>a, <1>b, <1>c DEF StartRequest, StartRejected, StartAccepted, engineVars, InRun
<1>4. ASSUME NEW s \in Sweeps, SweepRequest(s) \/ SweepAccepted(s) \/ SweepRequestFails(s)
      PROVE  FALSE
  BY <1>4, <1>c DEF SweepRequest, SweepAccepted, SweepRequestFails
<1>5. ASSUME NEW c \in Callers, RunStep(c) PROVE lastTerminal' = "none"
  <2>1. c \in Tests
    BY <1>5, <1>c, RunWords DEF Callers
  <2>2. CASE c = t
    <3>1. t \notin cancelled /\ EndsLater(t) /\ ~Speaks(t)
      BY <1>5, <1>a, <2>2, RunWords DEF Speaks, InRun
    <3> QED BY <1>5, <1>b, <1>c, <2>1, <2>2, <3>1, RunWords
  <2>3. CASE c # t
    <3>1. t \notin cancelled /\ pc'[t] = pc[t] /\ EndsLater(t)
      BY <1>5, <1>a, <1>c, <2>3, RunWords
    <3>2. c \in cancelled
      <4>1. Live(t) /\ (Live(c) \/ pc[c] \in {"starting", "rejected", "done"})
        BY <1>5, <3>1, RunWords DEF Live, InRun
      <4>2. pc[c] \notin {"starting", "rejected", "done"}
        BY <1>5
           DEF RunStep, RunRecorded, PreflightPassed, PreflightFailed, Poll, Wake, Drain,
               RunRaises, FailRun, ResultSaved, RunReturns, CancelDelivered, Unwind, Live
      <4> QED BY <2>1, <2>3, <3>1, <4>1, <4>2 DEF OneLiveTest
    <3> QED BY <1>5, <1>b, <1>c, <2>1, <3>1, <3>2, RunWords, CallersAssumption
  <2> QED BY <2>2, <2>3
<1>6. ASSUME NEW c \in Callers, RequestStep(c) PROVE lastTerminal' = "none"
  BY <1>6, <1>a, <1>b DEF RequestStep, RequestSent, RequestEnds, engineVars
<1>7. ASSUME NEW u \in Tests, TestStep(u) PROVE lastTerminal' = "none"
  BY <1>7, <1>a, <1>b, <1>c DEF TestStep, TestBegins, TestRefused, TestEnds, Begin, engineVars,
                                  InRun
<1>8. ASSUME NEW s \in Sweeps, SweepTaskStep(s) PROVE FALSE
  BY <1>8, <1>c DEF SweepTaskStep, SweepStarts, SweepStartsEmpty, SweepStep, SweepEnds
<1>9. ASSUME NEW u \in Tuners, TunerStep(u) \/ TunerCancelled(u) PROVE FALSE
  BY <1>9, <1>c DEF TunerStep, TunerBegins, TunerRefused, TunerCancelled, Begin, Live, Callers
<1> QED
  BY <1>1, <1>2, <1>3, <1>4, <1>5, <1>6, <1>7, <1>8, <1>9 DEF Next, Handler

\* A client that connects when its test is to run, or runs, is not replayed the
\* end of an earlier one, for any number of tests that come one after another
\* as OneLiveTest has it.  Where tests do not exclude each other, or a request
\* raises and leaves the engine RUNNING, it may be: a test that begins while a
\* cancelled one unwinds is dropped by the router, and ends under the next.
THEOREM ReplaysFresh ==
  ASSUME "raise" \notin Outcomes
  PROVE  StreamSpec /\ []OneLiveTest => []ReplayFresh
<1>1. StreamInit => TunersIdle /\ NoRaise /\ ReplayFresh
  BY DEF StreamInit, Init, TunersIdle, NoRaise, ReplayFresh, InRun, Callers
<1>2. TypeOK /\ TunersIdle /\ [StreamNext]_allVars => TunersIdle'
  BY TunersIdleStep
<1>3. TypeOK /\ NoRaise /\ [StreamNext]_allVars => NoRaise'
  BY NoRaiseStep, EngineBelow
<1>4. TypeOK /\ EngineHeld /\ SweepSlot /\ OneLiveTest /\ TunersIdle /\ TunersIdle' /\ NoRaise
        /\ ReplayFresh /\ [StreamNext]_allVars => ReplayFresh'
  BY ReplayFreshStep, EngineBelow
<1> QED
  BY <1>1, <1>2, <1>3, <1>4, StreamKeepsEngine, TypeCorrect, EngineNeverOrphaned,
     SweepsExclusive, PTL DEF StreamSpec
=============================================================================

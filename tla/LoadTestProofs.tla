--------------------------- MODULE LoadTestProofs ---------------------------
(***************************************************************************)
(* Proofs about LoadTest for every set of callers, every number of         *)
(* requests and of sweep steps, and every outcome of the requests.         *)
(***************************************************************************)
EXTENDS LoadTest, TLAPS

(***************************************************************************)
(* Lemmas about the operators the actions are built from.                  *)
(***************************************************************************)

\* Counting keeps request states request states.
LEMMA CountType ==
  ASSUME NEW R \in [Requests -> RequestStates]
  PROVE  Count(R) \in [Requests -> RequestStates]
BY DEF Count, RequestStates

\* What the head of the request loop does to the state: it touches the caller
\* it is for and no other, and it goes on with the status as it is or gives
\* the engine back.
LEMMA AdvanceEffect ==
  ASSUME TypeOK,
         NEW c \in Callers,
         NEW R \in [Requests -> RequestStates],
         NEW stopping \in BOOLEAN,
         Advance(c, R, stopping)
  PROVE  /\ status' \in Statuses /\ lastTerminal' \in Terminals
         /\ reqs' \in [Callers -> [Requests -> RequestStates]]
         /\ \A d \in Callers \ {c} : reqs'[d] = reqs[d]
         /\ \E l \in Locations :
              /\ pc' = [pc EXCEPT ![c] = l]
              /\ \/ l \in {"polling", "drain"} /\ status' = status
                 \/ l \in {"saving", "clearing"} /\ status' # "running"
<1>1. CASE /\ ~stopping
           /\ \E r \in Requests :
                /\ R[r] = "new" /\ \A q \in 1 .. r - 1 : R[q] # "new"
                /\ reqs' = [reqs EXCEPT ![c] = [R EXCEPT ![r] = "queued"]]
           /\ pc' = [pc EXCEPT ![c] = "polling"]
           /\ UNCHANGED <<status, lastTerminal>>
  BY <1>1 DEF TypeOK, Locations, InRun, RequestStates
<1>2. CASE /\ reqs' = [reqs EXCEPT ![c] = R]
           /\ pc' = [pc EXCEPT ![c] = "drain"]
           /\ UNCHANGED <<status, lastTerminal>>
  BY <1>2 DEF TypeOK, Locations, InRun
<1>3. CASE /\ reqs' = [reqs EXCEPT ![c] = R]
           /\ Finalize(c)
  BY <1>3 DEF TypeOK, Locations, InRun, Finalize, Statuses, Terminals
<1> QED
  BY <1>1, <1>2, <1>3 DEF Advance

\* The same in the form the steps below need: where callers are.
LEMMA AdvanceMoves ==
  ASSUME TypeOK,
         NEW c \in Callers,
         NEW R \in [Requests -> RequestStates],
         NEW stopping \in BOOLEAN,
         Advance(c, R, stopping)
  PROVE  /\ status' \in Statuses /\ lastTerminal' \in Terminals
         /\ reqs' \in [Callers -> [Requests -> RequestStates]]
         /\ pc' \in [Callers -> Locations]
         /\ \A d \in Callers \ {c} : reqs'[d] = reqs[d] /\ pc'[d] = pc[d]
         /\ pc'[c] \in {"polling", "drain", "saving", "clearing"}
         /\ \/ pc'[c] \in InRun /\ status' = status
            \/ status' # "running"
         /\ \A d \in Callers \ Tests : pc'[d] # "storing"
         /\ Tasks \subseteq Tasks'
<1>1. PICK l \in Locations :
        /\ pc' = [pc EXCEPT ![c] = l]
        /\ \/ l \in {"polling", "drain"} /\ status' = status
           \/ l \in {"saving", "clearing"} /\ status' # "running"
  BY AdvanceEffect
<1>2. pc \in [Callers -> Locations] /\ \A d \in Callers \ Tests : pc[d] # "storing"
  BY DEF TypeOK
<1>3. /\ pc' \in [Callers -> Locations]
      /\ pc'[c] = l /\ \A d \in Callers \ {c} : pc'[d] = pc[d]
  BY <1>1, <1>2
<1>4. l \in {"polling", "drain", "saving", "clearing"}
  BY <1>1
<1>5. \A d \in Callers \ Tests : pc'[d] # "storing"
  BY <1>2, <1>3, <1>4
<1>6. Tasks \subseteq Tasks'
  BY <1>3, <1>4 DEF Tasks
<1>7. \/ pc'[c] \in InRun /\ status' = status
      \/ status' # "running"
  BY <1>1, <1>3 DEF InRun
<1> QED
  BY <1>3, <1>4, <1>5, <1>6, <1>7, AdvanceEffect

\* What the abort of a run whose first batch failed does to the state.
LEMMA AbortEffect ==
  ASSUME TypeOK,
         NEW c \in Callers,
         NEW R \in [Requests -> RequestStates],
         Abort(c, R)
  PROVE  /\ status' = status /\ lastTerminal' \in Terminals
         /\ stopEvent' \in BOOLEAN
         /\ reqs' \in [Callers -> [Requests -> RequestStates]]
         /\ \A d \in Callers \ {c} : reqs'[d] = reqs[d]
         /\ pc' = [pc EXCEPT ![c] = "failing"]
BY DEF Abort, TypeOK, Terminals, RequestStates

(***************************************************************************)
(* The variables keep their types.                                         *)
(***************************************************************************)

\* A step within a run touches neither the router nor its references, so the
\* types of what it does touch are enough.
LEMMA TypeByParts ==
  ASSUME TypeOK,
         UNCHANGED <<owner, sweepRunning, routerVars, steps, cancelled>>,
         status' \in Statuses, lastTerminal' \in Terminals,
         results' \subseteq Callers \X Requests, stopEvent' \in BOOLEAN,
         reqs' \in [Callers -> [Requests -> RequestStates]],
         row' \in [Callers -> SUBSET RowStates],
         pc' \in [Callers -> Locations],
         \A d \in Callers \ Tests : pc'[d] # "storing",
         Tasks \subseteq Tasks'
  PROVE  TypeOK'
<1>1. /\ activeTest' = activeTest /\ isSweeping' = isSweeping
      /\ sweepTask' = sweepTask /\ cancelled' = cancelled
  BY DEF routerVars
<1>2. /\ cancelled' \subseteq Tasks'
      /\ activeTest' \in (Tests \cap Tasks') \cup {NoCaller}
      /\ sweepTask' \in (Sweeps \cap Tasks') \cup {NoCaller}
  BY <1>1 DEF TypeOK
<1> QED
  BY <1>1, <1>2 DEF TypeOK

\* A row that is cleared, or left at the clear, is a row.
LEMMA ClearRowType ==
  ASSUME TypeOK, NEW c \in Callers,
         \/ row' = [row EXCEPT ![c] = @ \ {"open"}]
         \/ /\ row' = [row EXCEPT ![c] = (@ \ {"open"}) \cup {pc[c]}]
            /\ pc[c] \in {"clearing", "unwind"}
  PROVE  row' \in [Callers -> SUBSET RowStates]
<1>1. row \in [Callers -> SUBSET RowStates] /\ row[c] \subseteq RowStates
  BY DEF TypeOK
<1>2. (row[c] \ {"open"}) \cup {pc[c]} \subseteq RowStates \/ pc[c] \notin {"clearing", "unwind"}
  BY <1>1 DEF RowStates
<1>3. row[c] \ {"open"} \subseteq RowStates
  BY <1>1
<1> QED
  BY <1>1, <1>2, <1>3

\* No step of the engine, of a handler or of a request takes a variable out
\* of its type.
LEMMA TypeStep ==
  TypeOK /\ [Next]_vars => TypeOK'
<1> SUFFICES ASSUME TypeOK, [Next]_vars
             PROVE  TypeOK'
  OBVIOUS
<1> USE DEF Statuses, Terminals, Locations, InRun, RequestStates, Callers,
    Tasks
<1>1. CASE UNCHANGED vars
  BY <1>1 DEF TypeOK, vars, engineVars, routerVars, callerVars
<1>2. ASSUME NEW t \in Tests, StartRequest(t) PROVE TypeOK'
  BY <1>2 DEF StartRequest, TypeOK, engineVars, routerVars, callerVars
<1>3. ASSUME NEW t \in Tests, StartRejected(t) PROVE TypeOK'
  BY <1>3 DEF StartRejected, TypeOK, engineVars, routerVars, callerVars
<1>4. ASSUME NEW t \in Tests, StartAccepted(t) PROVE TypeOK'
  BY <1>4 DEF StartAccepted, TypeOK, engineVars, routerVars, callerVars
<1>5. ASSUME NEW s \in Sweeps, SweepRequest(s) PROVE TypeOK'
  BY <1>5 DEF SweepRequest, TypeOK, engineVars, routerVars, callerVars
<1>6. ASSUME NEW s \in Sweeps, SweepAccepted(s) PROVE TypeOK'
  BY <1>6 DEF SweepAccepted, TypeOK, engineVars, routerVars, callerVars
<1>7. ASSUME NEW s \in Sweeps, SweepRequestFails(s) PROVE TypeOK'
  BY <1>7 DEF SweepRequestFails, TypeOK, engineVars, routerVars, callerVars
<1>8. CASE Stop
  <2> DEFINE victims == {c \in {activeTest, sweepTask} : ~Done(c)}
  <2>1. victims \subseteq Tasks
    BY CallersAssumption DEF Done, TypeOK
  <2>2. cancelled' \subseteq Tasks' /\ status' \in Statuses
    BY <1>8, <2>1 DEF Stop, TypeOK
  <2>3. activeTest' \in (Tests \cap Tasks') \cup {NoCaller} /\ stopEvent' \in BOOLEAN
    BY <1>8 DEF Stop, TypeOK
  <2>4. sweepTask' \in (Sweeps \cap Tasks') \cup {NoCaller} /\ isSweeping' \in BOOLEAN
    BY <1>8 DEF Stop, TypeOK
  <2>5. lastTerminal' \in Terminals
    BY <1>8 DEF Stop, TypeOK
  <2> QED
    BY <1>8, <2>2, <2>3, <2>4, <2>5 DEF Stop, TypeOK
<1>9. ASSUME NEW t \in Tests, TestBegins(t) PROVE TypeOK'
  BY <1>9 DEF TestBegins, Begin, TypeOK, engineVars, routerVars, callerVars
<1>10. ASSUME NEW u \in Tuners, TunerBegins(u) PROVE TypeOK'
  BY <1>10 DEF TunerBegins, Begin, TypeOK, engineVars, routerVars, callerVars
<1>11. ASSUME NEW t \in Tests, TestRefused(t) PROVE TypeOK'
  BY <1>11 DEF TestRefused, TypeOK, engineVars, routerVars, callerVars
<1>12. ASSUME NEW u \in Tuners, TunerRefused(u) PROVE TypeOK'
  BY <1>12 DEF TunerRefused, TypeOK, engineVars, routerVars, callerVars
<1>13. ASSUME NEW c \in Callers, PreflightFailed(c) PROVE TypeOK'
  BY <1>13 DEF PreflightFailed, TypeOK, engineVars, routerVars, callerVars
<1>14. ASSUME NEW c \in Callers, FailRun(c) PROVE TypeOK'
  BY <1>14 DEF FailRun, TypeOK, engineVars, routerVars, callerVars
<1>15. ASSUME NEW c \in Callers, ResultSaved(c) PROVE TypeOK'
  BY <1>15 DEF ResultSaved, TypeOK, engineVars, routerVars, callerVars
<1>16. ASSUME NEW c \in Callers, RunReturns(c) PROVE TypeOK'
  <2>1. pc[c] = "clearing" /\ ClearRow(c, c \in RowFaults)
    BY <1>16 DEF RunReturns
  <2>2. row' \in [Callers -> SUBSET RowStates]
    BY <2>1, ClearRowType DEF ClearRow
  <2> QED
    BY <1>16, <2>2 DEF RunReturns, TypeOK, engineVars, routerVars
<1>17. ASSUME NEW c \in Callers, RunRaises(c) PROVE TypeOK'
  BY <1>17 DEF RunRaises, TypeOK, engineVars, routerVars, callerVars
<1>18. ASSUME NEW t \in Tests, TestEnds(t) PROVE TypeOK'
  BY <1>18 DEF TestEnds, TypeOK, engineVars, routerVars, callerVars
<1>19. ASSUME NEW u \in Tuners, TunerCancelled(u) PROVE TypeOK'
  <2>1. cancelled' \subseteq Tasks'
    BY <1>19 DEF TunerCancelled, Live, TypeOK, callerVars
  <2> QED
    BY <1>19, <2>1 DEF TunerCancelled, TypeOK, engineVars, routerVars
<1>20. ASSUME NEW c \in Callers, CancelDelivered(c) PROVE TypeOK'
  <2>1. \E l \in {"unwind", "done"} : pc' = [pc EXCEPT ![c] = l]
    BY <1>20 DEF CancelDelivered, TaskOver
  <2>2. /\ pc' \in [Callers -> Locations]
        /\ \A d \in Callers \ Tests : pc'[d] # "storing"
        /\ \A d \in Tasks : pc'[d] \notin {"idle", "starting", "rejected"}
    BY <2>1 DEF TypeOK
  <2>3. /\ lastTerminal' \in Terminals /\ sweepRunning' \in BOOLEAN
    BY <1>20 DEF CancelDelivered, TaskOver, TypeOK, routerVars
  <2>4. /\ activeTest' \in {activeTest, NoCaller} /\ isSweeping' \in BOOLEAN
        /\ sweepTask' \in {sweepTask, NoCaller}
    BY <1>20 DEF CancelDelivered, TaskOver, TypeOK, routerVars
  <2>5. row' \in [Callers -> SUBSET RowStates]
    <3>1. row \in [Callers -> SUBSET RowStates]
      BY DEF TypeOK
    <3>2. \/ UNCHANGED row
          \/ row' = [row EXCEPT ![c] = @ \cup {"marking"}]
          \/ ClearRow(c, pc[c] = "clearing")
      BY <1>20 DEF CancelDelivered
    <3>3. CASE row' = [row EXCEPT ![c] = @ \cup {"marking"}]
      <4>1. row[c] \cup {"marking"} \subseteq RowStates
        BY <3>1 DEF RowStates
      <4> QED
        BY <3>1, <3>3, <4>1
    <3>4. CASE ClearRow(c, pc[c] = "clearing")
      BY <3>4, ClearRowType DEF ClearRow
    <3> QED
      BY <3>1, <3>2, <3>3, <3>4
  <2> QED
    BY <1>20, <2>2, <2>3, <2>4, <2>5 DEF CancelDelivered, TypeOK
<1>21. ASSUME NEW c \in Callers, Unwind(c) PROVE TypeOK'
  <2>1. \E l \in {"unwind", "done"} : pc' = [pc EXCEPT ![c] = l]
    BY <1>21 DEF Unwind, TaskOver
  <2>2. /\ pc' \in [Callers -> Locations]
        /\ \A d \in Callers \ Tests : pc'[d] # "storing"
        /\ \A d \in Tasks : pc'[d] \notin {"idle", "starting", "rejected"}
    BY <2>1 DEF TypeOK
  <2>3. /\ lastTerminal' \in Terminals /\ sweepRunning' \in BOOLEAN
    BY <1>21 DEF Unwind, TaskOver, TypeOK, routerVars, Terminals
  <2>5. /\ pc[c] = "unwind"
        /\ ClearRow(c, c \in RowFaults \/ (c \in cancelled /\ Lost(c)))
    BY <1>21 DEF Unwind
  <2>6. row' \in [Callers -> SUBSET RowStates]
    BY <2>5, ClearRowType DEF ClearRow
  <2>4. /\ activeTest' \in {activeTest, NoCaller} /\ isSweeping' \in BOOLEAN
        /\ sweepTask' \in {sweepTask, NoCaller}
    BY <1>21 DEF Unwind, TaskOver, TypeOK, routerVars
  <2> QED
    BY <1>21, <2>2, <2>3, <2>4, <2>6 DEF Unwind, TypeOK
<1>22. ASSUME NEW c \in Callers, NEW r \in Requests, RequestSent(c, r) PROVE TypeOK'
  BY <1>22, SizesAssumption DEF RequestSent, TypeOK, engineVars, routerVars,
      callerVars
<1>23. ASSUME NEW c \in Callers, NEW r \in Requests, RequestEnds(c, r) PROVE TypeOK'
  BY <1>23, SizesAssumption DEF RequestEnds, TypeOK, engineVars, routerVars,
      callerVars
<1>24. ASSUME NEW c \in Callers, RunRecorded(c) PROVE TypeOK'
  <2>1. row' \in [Callers -> SUBSET RowStates]
    BY <1>24 DEF RunRecorded, TypeOK, RowStates
  <2>2. /\ UNCHANGED <<owner, results, sweepRunning, routerVars, steps, cancelled>>
        /\ stopEvent' = FALSE /\ results' \subseteq Callers \X Requests
    BY <1>24 DEF RunRecorded, TypeOK
  <2>3. CASE c \in Tuners
    <3>1. /\ pc' = [pc EXCEPT ![c] = "preflight"]
          /\ UNCHANGED <<reqs, status, lastTerminal>>
      BY <1>24, <2>3 DEF RunRecorded
    <3>2. /\ pc' \in [Callers -> Locations]
          /\ \A d \in Callers \ Tests : pc'[d] # "storing"
          /\ Tasks \subseteq Tasks'
          /\ reqs' \in [Callers -> [Requests -> RequestStates]]
          /\ status' \in Statuses /\ lastTerminal' \in Terminals
      BY <3>1 DEF TypeOK
    <3> QED
      BY <2>1, <2>2, <3>2, TypeByParts
  <2>4. CASE c \notin Tuners
    <3>1. Advance(c, reqs[c], FALSE) /\ reqs[c] \in [Requests -> RequestStates]
      BY <1>24, <2>4 DEF RunRecorded, TypeOK
    <3> QED
      BY <2>1, <2>2, <3>1, AdvanceMoves, TypeByParts
  <2> QED
    BY <2>3, <2>4
<1>25. ASSUME NEW c \in Callers, PreflightPassed(c) PROVE TypeOK'
  <2>1. /\ Advance(c, reqs[c], stopEvent)
        /\ UNCHANGED <<owner, results, stopEvent, sweepRunning, routerVars, steps,
                       cancelled, row>>
    BY <1>25 DEF PreflightPassed
  <2>2. /\ reqs[c] \in [Requests -> RequestStates] /\ stopEvent \in BOOLEAN
        /\ results \subseteq Callers \X Requests
        /\ row \in [Callers -> SUBSET RowStates]
    BY DEF TypeOK
  <2> QED
    BY <2>1, <2>2, AdvanceMoves, TypeByParts
<1>26. ASSUME NEW c \in Callers, Wake(c) PROVE TypeOK'
  <2>1. /\ Advance(c, reqs[c], stopEvent)
        /\ UNCHANGED <<owner, results, stopEvent, sweepRunning, routerVars, steps,
                       cancelled, row>>
    BY <1>26 DEF Wake
  <2>2. /\ reqs[c] \in [Requests -> RequestStates] /\ stopEvent \in BOOLEAN
        /\ results \subseteq Callers \X Requests
        /\ row \in [Callers -> SUBSET RowStates]
    BY DEF TypeOK
  <2> QED
    BY <2>1, <2>2, AdvanceMoves, TypeByParts
<1>27. ASSUME NEW c \in Callers, Poll(c) PROVE TypeOK'
  <2> DEFINE R == Count(reqs[c])
  <2>1. R \in [Requests -> RequestStates]
    BY CountType DEF TypeOK
  <2>2. results' \subseteq Callers \X Requests
    BY <1>27 DEF Poll, Counted, TypeOK
  <2>3. CASE Abort(c, R)
    BY <1>27, <2>1, <2>2, <2>3, AbortEffect DEF Poll, TypeOK, routerVars
  <2>4. CASE /\ reqs' = [reqs EXCEPT ![c] = R]
             /\ pc' = [pc EXCEPT ![c] = "sleeping"]
             /\ UNCHANGED <<status, lastTerminal, stopEvent>>
    BY <1>27, <2>1, <2>2, <2>4 DEF Poll, TypeOK, routerVars
  <2>5. CASE Advance(c, R, stopEvent) /\ UNCHANGED stopEvent
    <3>1. stopEvent \in BOOLEAN /\ row \in [Callers -> SUBSET RowStates]
      BY DEF TypeOK
    <3>2. UNCHANGED <<owner, sweepRunning, routerVars, steps, cancelled, row>>
      BY <1>27 DEF Poll
    <3> HIDE DEF R
    <3> QED
      BY <2>1, <2>2, <2>5, <3>1, <3>2, AdvanceMoves, TypeByParts
  <2> QED
    BY <1>27, <2>3, <2>4, <2>5 DEF Poll
<1>28. ASSUME NEW c \in Callers, Drain(c) PROVE TypeOK'
  <2>1. PICK r \in Requests, same \in BOOLEAN :
          LET R == [reqs[c] EXCEPT ![r] = Count(reqs[c])[r]] IN
          /\ results' = results \cup {<<c, r>>}
          /\ IF FirstBatchFailed(reqs[c], R, same) THEN Abort(c, R)
             ELSE Advance(c, R, TRUE) /\ UNCHANGED stopEvent
    BY <1>28 DEF Drain
  <2> DEFINE R == [reqs[c] EXCEPT ![r] = Count(reqs[c])[r]]
  <2>2. R \in [Requests -> RequestStates]
    BY CountType DEF TypeOK
  <2>3. results' \subseteq Callers \X Requests
    BY <2>1 DEF TypeOK
  <2>4. CASE Abort(c, R)
    BY <1>28, <2>2, <2>3, <2>4, AbortEffect DEF Drain, TypeOK, routerVars
  <2>5. CASE Advance(c, R, TRUE) /\ UNCHANGED stopEvent
    <3>1. stopEvent \in BOOLEAN /\ row \in [Callers -> SUBSET RowStates]
      BY DEF TypeOK
    <3>2. UNCHANGED <<owner, sweepRunning, routerVars, steps, cancelled, row>>
      BY <1>28 DEF Drain
    <3> HIDE DEF R
    <3> QED
      BY <2>2, <2>3, <2>5, <3>1, <3>2, AdvanceMoves, TypeByParts
  <2> QED
    BY <2>1, <2>4, <2>5
<1>29. ASSUME NEW s \in Sweeps, SweepStarts(s) PROVE TypeOK'
  <2>1. steps' \in [Callers -> 0 .. MaxSteps]
    BY <1>29, SizesAssumption DEF SweepStarts, TypeOK
  <2>2. reqs' \in [Callers -> [Requests -> RequestStates]]
    BY <1>29 DEF SweepStarts, Begin, TypeOK
  <2> QED
    BY <1>29, <2>1, <2>2 DEF SweepStarts, Begin, TypeOK, routerVars
<1>30. ASSUME NEW s \in Sweeps, SweepStep(s) PROVE TypeOK'
  <2>1. steps' \in [Callers -> 0 .. MaxSteps]
    BY <1>30, SizesAssumption DEF SweepStep, TypeOK
  <2>2. reqs' \in [Callers -> [Requests -> RequestStates]]
    BY <1>30 DEF SweepStep, Begin, TypeOK
  <2>3. pc[s] = "clearing" /\ ClearRow(s, s \in RowFaults)
    BY <1>30 DEF SweepStep
  <2>4. row' \in [Callers -> SUBSET RowStates]
    BY <2>3, ClearRowType DEF ClearRow
  <2> QED
    BY <1>30, <2>1, <2>2, <2>4 DEF SweepStep, Begin, TypeOK, routerVars
<1>31. ASSUME NEW s \in Sweeps, SweepStartsEmpty(s) PROVE TypeOK'
  BY <1>31 DEF SweepStartsEmpty, EndSweep, TypeOK, engineVars, routerVars,
      callerVars
<1>32. ASSUME NEW s \in Sweeps, SweepEnds(s) PROVE TypeOK'
  <2>1. pc[s] = "clearing" /\ ClearRow(s, s \in RowFaults)
    BY <1>32 DEF SweepEnds
  <2>2. row' \in [Callers -> SUBSET RowStates]
    BY <2>1, ClearRowType DEF ClearRow
  <2> QED
    BY <1>32, <2>2 DEF SweepEnds, EndSweep, TypeOK, engineVars, routerVars
<1> QED
  BY <1>1, <1>2, <1>3, <1>4, <1>5, <1>6, <1>7, <1>8, <1>9, <1>10, <1>11, <1>12,
      <1>13, <1>14, <1>15, <1>16, <1>17, <1>18, <1>19, <1>20, <1>21, <1>22,
      <1>23, <1>24, <1>25, <1>26, <1>27, <1>28, <1>29, <1>30, <1>31, <1>32
     DEF Next, Handler, RunStep, TestStep, SweepTaskStep, TunerStep, RequestStep

\* Type correctness, in every behaviour and for every value of the constants.
THEOREM TypeCorrect == Spec => []TypeOK
<1>1. Init => TypeOK
  <2> USE DEF Init, Statuses, Terminals, Locations, InRun, RequestStates
  <2>1. Init => steps \in [Callers -> 0 .. MaxSteps]
    BY SizesAssumption
  <2>2. Init => reqs \in [Callers -> [Requests -> RequestStates]]
    OBVIOUS
  <2>3. Init => /\ pc \in [Callers -> Locations] /\ results \subseteq Callers \X Requests
                /\ row \in [Callers -> SUBSET RowStates]
    OBVIOUS
  <2> QED
    BY <2>1, <2>2, <2>3 DEF TypeOK
<1> QED
  BY <1>1, TypeStep, PTL DEF Spec

(***************************************************************************)
(* The engine is never RUNNING for nobody.                                 *)
(***************************************************************************)

\* A caller's run goes on, or was lost, in the next state if it was in this
\* one and the step leaves the caller alone.
LEMMA HeldUndisturbed ==
  ASSUME TypeOK, EngineHeld,
         owner' = owner,
         status' = "running" => status = "running",
         cancelled \subseteq cancelled',
         owner \in Callers => /\ reqs'[owner] = reqs[owner]
                              /\ pc[owner] \in InRun => pc'[owner] = pc[owner],
         owner \notin cancelled => owner \notin cancelled'
  PROVE  EngineHeld'
BY DEF EngineHeld, Running, Lost

\* A step of a run keeps EngineHeld when the run goes on or gives the engine
\* back.
LEMMA HeldByRun ==
  ASSUME EngineHeld,
         NEW c \in Callers, c \notin cancelled,
         UNCHANGED <<owner, cancelled>>,
         \A d \in Callers \ {c} : reqs'[d] = reqs[d] /\ pc'[d] = pc[d],
         \/ pc'[c] \in InRun /\ status' = status
         \/ status' # "running"
  PROVE  EngineHeld'
BY DEF EngineHeld, Running, Lost

\* EngineHeld is inductive, given the types.
LEMMA EngineHeldStep ==
  TypeOK /\ EngineHeld /\ [Next]_vars => EngineHeld'
<1> SUFFICES ASSUME TypeOK, EngineHeld, [Next]_vars
             PROVE  EngineHeld'
  OBVIOUS
<1>1. CASE UNCHANGED vars
  BY <1>1, HeldUndisturbed DEF vars, engineVars, callerVars
<1>2. ASSUME NEW t \in Tests, StartRequest(t) PROVE EngineHeld'
  BY <1>2, HeldUndisturbed DEF StartRequest, InRun, Callers, TypeOK,
      engineVars, routerVars, callerVars
<1>3. ASSUME NEW t \in Tests, StartRejected(t) PROVE EngineHeld'
  BY <1>3, HeldUndisturbed DEF StartRejected, InRun, Callers, TypeOK,
      engineVars, routerVars, callerVars
<1>4. ASSUME NEW t \in Tests, StartAccepted(t) PROVE EngineHeld'
  BY <1>4, HeldUndisturbed DEF StartAccepted, InRun, Callers, TypeOK,
      engineVars, routerVars, callerVars
<1>5. ASSUME NEW s \in Sweeps, SweepRequest(s) PROVE EngineHeld'
  BY <1>5, HeldUndisturbed DEF SweepRequest, InRun, Callers, TypeOK,
      engineVars, routerVars, callerVars
<1>6. ASSUME NEW s \in Sweeps, SweepAccepted(s) PROVE EngineHeld'
  BY <1>6, HeldUndisturbed DEF SweepAccepted, InRun, Callers, TypeOK,
      engineVars, routerVars, callerVars
<1>7. ASSUME NEW s \in Sweeps, SweepRequestFails(s) PROVE EngineHeld'
  BY <1>7, HeldUndisturbed DEF SweepRequestFails, InRun, Callers, TypeOK,
      engineVars, routerVars, callerVars
<1>8. ASSUME NEW t \in Tests, TestRefused(t) PROVE EngineHeld'
  BY <1>8, HeldUndisturbed DEF TestRefused, InRun, Callers, TypeOK, engineVars,
      routerVars, callerVars
<1>9. ASSUME NEW u \in Tuners, TunerRefused(u) PROVE EngineHeld'
  BY <1>9, HeldUndisturbed DEF TunerRefused, InRun, Callers, TypeOK,
      engineVars, routerVars, callerVars
<1>10. ASSUME NEW t \in Tests, TestEnds(t) PROVE EngineHeld'
  BY <1>10, HeldUndisturbed DEF TestEnds, InRun, Callers, TypeOK, engineVars,
      routerVars, callerVars
<1>11. ASSUME NEW c \in Callers, ResultSaved(c) PROVE EngineHeld'
  BY <1>11, HeldUndisturbed DEF ResultSaved, InRun, Callers, TypeOK,
      engineVars, routerVars, callerVars
<1>12. ASSUME NEW c \in Callers, RunReturns(c) PROVE EngineHeld'
  BY <1>12, HeldUndisturbed DEF RunReturns, InRun, Callers, TypeOK, engineVars,
      routerVars, callerVars
<1>13. ASSUME NEW s \in Sweeps, SweepStartsEmpty(s) PROVE EngineHeld'
  BY <1>13, HeldUndisturbed DEF SweepStartsEmpty, EndSweep, InRun, Callers,
      TypeOK, engineVars, routerVars, callerVars
<1>14. ASSUME NEW s \in Sweeps, SweepEnds(s) PROVE EngineHeld'
  BY <1>14, HeldUndisturbed DEF SweepEnds, EndSweep, InRun, Callers, TypeOK,
      engineVars, routerVars, callerVars
<1>15. CASE Stop
  BY <1>15 DEF Stop, EngineHeld
<1>16. ASSUME NEW t \in Tests, TestBegins(t) PROVE EngineHeld'
  BY <1>16 DEF TestBegins, Begin, EngineHeld, Running, InRun, Callers, TypeOK
<1>17. ASSUME NEW u \in Tuners, TunerBegins(u) PROVE EngineHeld'
  BY <1>17 DEF TunerBegins, Begin, EngineHeld, Running, InRun, Callers, TypeOK,
      Tasks
<1>18. ASSUME NEW s \in Sweeps, SweepStarts(s) PROVE EngineHeld'
  BY <1>18 DEF SweepStarts, Begin, EngineHeld, Running, InRun, Callers, TypeOK
<1>19. ASSUME NEW s \in Sweeps, SweepStep(s) PROVE EngineHeld'
  BY <1>19 DEF SweepStep, Begin, EngineHeld, Running, InRun, Callers, TypeOK
<1>20. ASSUME NEW c \in Callers, PreflightFailed(c) PROVE EngineHeld'
  BY <1>20 DEF PreflightFailed, EngineHeld
<1>21. ASSUME NEW c \in Callers, FailRun(c) PROVE EngineHeld'
  BY <1>21 DEF FailRun, EngineHeld
<1>22. ASSUME NEW c \in Callers, RunRaises(c) PROVE EngineHeld'
  BY <1>22 DEF RunRaises, EngineHeld, Running, Lost, InRun, TypeOK
<1>23. ASSUME NEW u \in Tuners, TunerCancelled(u) PROVE EngineHeld'
  BY <1>23 DEF TunerCancelled, EngineHeld, Running, Lost, engineVars
<1>24. ASSUME NEW c \in Callers, CancelDelivered(c) PROVE EngineHeld'
  BY <1>24 DEF CancelDelivered, TaskOver, EngineHeld, Running, Lost, InRun,
      TypeOK
<1>25. ASSUME NEW c \in Callers, Unwind(c) PROVE EngineHeld'
  BY <1>25 DEF Unwind, TaskOver, EngineHeld, Running, Lost, InRun, TypeOK
<1>26. ASSUME NEW c \in Callers, NEW r \in Requests, RequestSent(c, r) PROVE EngineHeld'
  BY <1>26 DEF RequestSent, EngineHeld, Running, Lost, TypeOK, engineVars
<1>27. ASSUME NEW c \in Callers, NEW r \in Requests, RequestEnds(c, r) PROVE EngineHeld'
  BY <1>27 DEF RequestEnds, EngineHeld, Running, Lost, TypeOK, engineVars
<1>28. ASSUME NEW c \in Callers, RunRecorded(c) PROVE EngineHeld'
  <2>1. c \notin cancelled /\ UNCHANGED <<owner, cancelled>>
    BY <1>28 DEF RunRecorded
  <2>2. CASE c \in Tuners
    <3>1. /\ pc' = [pc EXCEPT ![c] = "preflight"]
          /\ UNCHANGED <<reqs, status>>
      BY <1>28, <2>2 DEF RunRecorded
    <3>2. /\ pc'[c] \in InRun
          /\ \A d \in Callers \ {c} : reqs'[d] = reqs[d] /\ pc'[d] = pc[d]
      BY <3>1 DEF InRun, TypeOK
    <3> QED
      BY <2>1, <3>1, <3>2, HeldByRun
  <2>3. CASE c \notin Tuners
    <3>1. Advance(c, reqs[c], FALSE) /\ reqs[c] \in [Requests -> RequestStates]
      BY <1>28, <2>3 DEF RunRecorded, TypeOK
    <3> QED
      BY <2>1, <3>1, AdvanceMoves, HeldByRun
  <2> QED
    BY <2>2, <2>3
<1>29. ASSUME NEW c \in Callers, PreflightPassed(c) PROVE EngineHeld'
  <2>1. /\ Advance(c, reqs[c], stopEvent)
        /\ c \notin cancelled /\ UNCHANGED <<owner, cancelled>>
    BY <1>29 DEF PreflightPassed
  <2>2. reqs[c] \in [Requests -> RequestStates] /\ stopEvent \in BOOLEAN
    BY DEF TypeOK
  <2> QED
    BY <2>1, <2>2, AdvanceMoves, HeldByRun
<1>30. ASSUME NEW c \in Callers, Wake(c) PROVE EngineHeld'
  <2>1. /\ Advance(c, reqs[c], stopEvent)
        /\ c \notin cancelled /\ UNCHANGED <<owner, cancelled>>
    BY <1>30 DEF Wake
  <2>2. reqs[c] \in [Requests -> RequestStates] /\ stopEvent \in BOOLEAN
    BY DEF TypeOK
  <2> QED
    BY <2>1, <2>2, AdvanceMoves, HeldByRun
<1>31. ASSUME NEW c \in Callers, Poll(c) PROVE EngineHeld'
  <2> DEFINE R == Count(reqs[c])
  <2>1. R \in [Requests -> RequestStates] /\ stopEvent \in BOOLEAN
    BY CountType DEF TypeOK
  <2>2. c \notin cancelled /\ UNCHANGED <<owner, cancelled>>
    BY <1>31 DEF Poll
  <2>3. CASE Abort(c, R)
    <3> HIDE DEF R
    <3> QED
      BY <2>1, <2>2, <2>3, AbortEffect, HeldByRun DEF TypeOK, InRun
  <2>4. CASE /\ reqs' = [reqs EXCEPT ![c] = R]
             /\ pc' = [pc EXCEPT ![c] = "sleeping"]
             /\ UNCHANGED status
    <3> HIDE DEF R
    <3>1. /\ pc'[c] \in InRun
          /\ \A d \in Callers \ {c} : reqs'[d] = reqs[d] /\ pc'[d] = pc[d]
      BY <2>4 DEF InRun, TypeOK
    <3> QED
      BY <2>2, <2>4, <3>1, HeldByRun
  <2>5. CASE Advance(c, R, stopEvent)
    <3> HIDE DEF R
    <3> QED
      BY <2>1, <2>2, <2>5, AdvanceMoves, HeldByRun
  <2> QED
    BY <1>31, <2>3, <2>4, <2>5 DEF Poll
<1>32. ASSUME NEW c \in Callers, Drain(c) PROVE EngineHeld'
  <2>1. PICK r \in Requests, same \in BOOLEAN :
          LET R == [reqs[c] EXCEPT ![r] = Count(reqs[c])[r]] IN
          /\ IF FirstBatchFailed(reqs[c], R, same) THEN Abort(c, R)
             ELSE Advance(c, R, TRUE)
    BY <1>32 DEF Drain
  <2> DEFINE R == [reqs[c] EXCEPT ![r] = Count(reqs[c])[r]]
  <2>2. R \in [Requests -> RequestStates]
    BY CountType DEF TypeOK
  <2>3. c \notin cancelled /\ UNCHANGED <<owner, cancelled>>
    BY <1>32 DEF Drain
  <2>4. CASE Abort(c, R)
    <3> HIDE DEF R
    <3> QED
      BY <2>2, <2>3, <2>4, AbortEffect, HeldByRun DEF TypeOK, InRun
  <2>5. CASE Advance(c, R, TRUE)
    <3> HIDE DEF R
    <3> QED
      BY <2>2, <2>3, <2>5, AdvanceMoves, HeldByRun
  <2> QED
    BY <2>1, <2>4, <2>5
<1> QED
  BY <1>1, <1>2, <1>3, <1>4, <1>5, <1>6, <1>7, <1>8, <1>9, <1>10, <1>11,
     <1>12, <1>13, <1>14, <1>15, <1>16, <1>17, <1>18, <1>19, <1>20,
     <1>21, <1>22, <1>23, <1>24, <1>25, <1>26, <1>27, <1>28, <1>29,
     <1>30, <1>31, <1>32
     DEF Next, Handler, RunStep, TestStep, SweepTaskStep, TunerStep, RequestStep

\* The engine is RUNNING only for the run that holds it, or for one that a
\* cancellation by the tuner or an unexpected exception has ended.
THEOREM EngineNeverOrphaned == Spec => []EngineHeld
<1>1. Init => EngineHeld
  BY DEF Init, EngineHeld
<1> QED
  BY <1>1, TypeCorrect, EngineHeldStep, PTL DEF Spec

(***************************************************************************)
(* Two sweeps never run together.                                          *)
(***************************************************************************)

\* SweepSlot survives a step that leaves alone where sweeps are and the three
\* variables that guard them.
LEMMA SlotUndisturbed ==
  ASSUME TypeOK, SweepSlot,
         UNCHANGED <<sweepRunning, isSweeping, sweepTask>>,
         cancelled \cap Sweeps = cancelled' \cap Sweeps,
         \A s \in Sweeps : pc'[s] = pc[s] \/ (InSweep(s) /\ InSweep(s)')
  PROVE  SweepSlot'
<1>1. \A s \in Sweeps : InSweep(s)' <=> InSweep(s)
  BY DEF InSweep
<1>2. \A s \in Sweeps : \A l \in {"starting", "created"} : pc'[s] = l <=> pc[s] = l
  BY DEF InSweep, InRun
<1>3. \A s \in Sweeps : OpenSweep(s)' <=> OpenSweep(s)
  BY <1>1, <1>2 DEF OpenSweep
<1>4. \A s \in Sweeps : ClaimsSweep(s)' <=> ClaimsSweep(s)
  BY <1>1, <1>2, <1>3 DEF ClaimsSweep
<1> QED
  BY <1>1, <1>2, <1>3, <1>4 DEF SweepSlot

\* So it does a step of a run from one of its places to another.
LEMMA SlotInRun ==
  ASSUME TypeOK, SweepSlot,
         NEW c \in Callers, pc[c] \in InRun,
         UNCHANGED <<sweepRunning, routerVars, cancelled>>,
         \/ pc' = [pc EXCEPT ![c] = "sleeping"]
         \/ \E R \in [Requests -> RequestStates] :
              Abort(c, R) \/ \E b \in BOOLEAN : Advance(c, R, b)
  PROVE  SweepSlot'
<1>1. PICK l \in {"sleeping", "failing", "polling", "drain", "saving", "clearing"} :
             pc' = [pc EXCEPT ![c] = l]
  BY AdvanceEffect, AbortEffect
<1>2. \A s \in Sweeps : pc'[s] = pc[s] \/ (InSweep(s) /\ InSweep(s)')
  BY <1>1 DEF InSweep, InRun, TypeOK, Callers
<1> QED
  BY <1>2, SlotUndisturbed DEF routerVars

\* The end of the sweep that has the slot gives the slot back.
LEMMA SlotReleased ==
  ASSUME TypeOK, SweepSlot,
         NEW s \in Sweeps, ClaimsSweep(s),
         pc' = [pc EXCEPT ![s] = "done"],
         sweepTask' = NoCaller, sweepRunning' = FALSE,
         cancelled' = cancelled
  PROVE  SweepSlot'
<1>1. \A q \in Sweeps \ {s} : ~ClaimsSweep(q) /\ pc'[q] = pc[q]
  BY DEF SweepSlot, TypeOK
<1>2. pc'[s] = "done"
  BY DEF TypeOK, Callers
<1>3. \A q \in Sweeps : ~InSweep(q)' /\ pc'[q] # "starting"
  BY <1>1, <1>2 DEF ClaimsSweep, InSweep, InRun
<1>4. \A q \in Sweeps : pc'[q] = "created" => q \in cancelled'
  BY <1>1, <1>2 DEF ClaimsSweep, OpenSweep
<1>5. \A q \in Sweeps : ~OpenSweep(q)' /\ sweepTask' # q
  BY <1>3, <1>4, CallersAssumption DEF OpenSweep, Callers
<1>6. sweepRunning' = \E q \in Sweeps : InSweep(q)'
  BY <1>3
<1> QED
  BY <1>3, <1>5, <1>6 DEF SweepSlot, ClaimsSweep

\* SweepSlot is inductive, given the types.
LEMMA SweepSlotStep ==
  TypeOK /\ SweepSlot /\ [Next]_vars => SweepSlot'
<1> SUFFICES ASSUME TypeOK, SweepSlot, [Next]_vars
             PROVE  SweepSlot'
  OBVIOUS
<1> USE DEF InSweep, InRun
<1>1. CASE UNCHANGED vars
  BY <1>1, SlotUndisturbed DEF vars, engineVars, routerVars, callerVars
<1>2. ASSUME NEW t \in Tests, StartRequest(t) PROVE SweepSlot'
  BY <1>2, SlotUndisturbed, CallersAssumption
     DEF StartRequest, Callers, TypeOK, engineVars, routerVars, callerVars
<1>3. ASSUME NEW t \in Tests, StartRejected(t) PROVE SweepSlot'
  BY <1>3, SlotUndisturbed, CallersAssumption
     DEF StartRejected, Callers, TypeOK, engineVars, routerVars, callerVars
<1>4. ASSUME NEW t \in Tests, StartAccepted(t) PROVE SweepSlot'
  BY <1>4, SlotUndisturbed, CallersAssumption
     DEF StartAccepted, Callers, TypeOK, engineVars, routerVars, callerVars
<1>5. ASSUME NEW t \in Tests, TestRefused(t) PROVE SweepSlot'
  BY <1>5, SlotUndisturbed, CallersAssumption
     DEF TestRefused, Callers, TypeOK, engineVars, routerVars, callerVars
<1>6. ASSUME NEW u \in Tuners, TunerRefused(u) PROVE SweepSlot'
  BY <1>6, SlotUndisturbed, CallersAssumption
     DEF TunerRefused, Callers, TypeOK, engineVars, routerVars, callerVars
<1>7. ASSUME NEW t \in Tests, TestEnds(t) PROVE SweepSlot'
  BY <1>7, SlotUndisturbed, CallersAssumption
     DEF TestEnds, Callers, TypeOK, engineVars, routerVars, callerVars
<1>8. ASSUME NEW u \in Tuners, TunerCancelled(u) PROVE SweepSlot'
  BY <1>8, SlotUndisturbed, CallersAssumption
     DEF TunerCancelled, Callers, TypeOK, engineVars, routerVars, callerVars
<1>9. ASSUME NEW c \in Callers, RunReturns(c) PROVE SweepSlot'
  BY <1>9, SlotUndisturbed, CallersAssumption
     DEF RunReturns, Callers, TypeOK, engineVars, routerVars, callerVars
<1>10. ASSUME NEW c \in Callers, ResultSaved(c) PROVE SweepSlot'
  BY <1>10, SlotUndisturbed, CallersAssumption
     DEF ResultSaved, Callers, TypeOK, engineVars, routerVars, callerVars
<1>11. ASSUME NEW c \in Callers, PreflightFailed(c) PROVE SweepSlot'
  BY <1>11, SlotUndisturbed, CallersAssumption
     DEF PreflightFailed, Callers, TypeOK, engineVars, routerVars, callerVars
<1>12. ASSUME NEW c \in Callers, FailRun(c) PROVE SweepSlot'
  BY <1>12, SlotUndisturbed, CallersAssumption
     DEF FailRun, Callers, TypeOK, engineVars, routerVars, callerVars
<1>13. ASSUME NEW c \in Callers, RunRaises(c) PROVE SweepSlot'
  BY <1>13, SlotUndisturbed, CallersAssumption
     DEF RunRaises, Callers, TypeOK, engineVars, routerVars, callerVars
<1>14. ASSUME NEW t \in Tests, TestBegins(t) PROVE SweepSlot'
  BY <1>14, SlotUndisturbed, CallersAssumption
     DEF TestBegins, Begin, Callers, TypeOK, routerVars
<1>15. ASSUME NEW u \in Tuners, TunerBegins(u) PROVE SweepSlot'
  BY <1>15, SlotUndisturbed, CallersAssumption
     DEF TunerBegins, Begin, Callers, TypeOK, routerVars
<1>16. ASSUME NEW c \in Callers, NEW r \in Requests, RequestSent(c, r) PROVE SweepSlot'
  BY <1>16, SlotUndisturbed DEF RequestSent, engineVars, routerVars
<1>17. ASSUME NEW c \in Callers, NEW r \in Requests, RequestEnds(c, r) PROVE SweepSlot'
  BY <1>17, SlotUndisturbed DEF RequestEnds, engineVars, routerVars
<1>18. ASSUME NEW c \in Callers, RunRecorded(c) PROVE SweepSlot'
  <2>1. CASE c \in Tuners
    BY <1>18, <2>1, SlotUndisturbed, CallersAssumption DEF RunRecorded, TypeOK,
        routerVars, Callers
  <2>2. CASE c \notin Tuners
    <3>1. reqs[c] \in [Requests -> RequestStates] /\ FALSE \in BOOLEAN
      BY DEF TypeOK
    <3> QED
      BY <1>18, <2>2, <3>1, SlotInRun DEF RunRecorded
  <2> QED
    BY <2>1, <2>2
<1>19. ASSUME NEW c \in Callers, PreflightPassed(c) PROVE SweepSlot'
  <2>1. reqs[c] \in [Requests -> RequestStates] /\ stopEvent \in BOOLEAN
    BY DEF TypeOK
  <2> QED
    BY <1>19, <2>1, SlotInRun DEF PreflightPassed
<1>20. ASSUME NEW c \in Callers, Wake(c) PROVE SweepSlot'
  <2>1. reqs[c] \in [Requests -> RequestStates] /\ stopEvent \in BOOLEAN
    BY DEF TypeOK
  <2> QED
    BY <1>20, <2>1, SlotInRun DEF Wake
<1>21. ASSUME NEW c \in Callers, Poll(c) PROVE SweepSlot'
  <2>1. Count(reqs[c]) \in [Requests -> RequestStates] /\ stopEvent \in BOOLEAN
    BY CountType DEF TypeOK
  <2> QED
    BY <1>21, <2>1, SlotInRun DEF Poll
<1>22. ASSUME NEW c \in Callers, Drain(c) PROVE SweepSlot'
  <2>1. \E r \in Requests, same \in BOOLEAN :
          LET R == [reqs[c] EXCEPT ![r] = Count(reqs[c])[r]] IN
          Abort(c, R) \/ Advance(c, R, TRUE)
    BY <1>22 DEF Drain
  <2>2. \A r \in Requests : [reqs[c] EXCEPT ![r] = Count(reqs[c])[r]] \in [Requests -> RequestStates]
    BY CountType DEF TypeOK
  <2> QED
    BY <1>22, <2>1, <2>2, SlotInRun DEF Drain
<1>23. ASSUME NEW s \in Sweeps, SweepRequest(s) PROVE SweepSlot'
  BY <1>23 DEF SweepRequest, SweepSlot, ClaimsSweep, OpenSweep, TypeOK,
      Callers, engineVars, routerVars
<1>24. ASSUME NEW s \in Sweeps, SweepAccepted(s) PROVE SweepSlot'
  <2>1. \A q \in Sweeps : InSweep(q)' <=> InSweep(q)
    BY <1>24 DEF SweepAccepted, TypeOK, Callers
  <2>2. \A q \in Sweeps \ {s} : ~ClaimsSweep(q) /\ pc'[q] = pc[q]
    BY <1>24 DEF SweepAccepted, SweepSlot, ClaimsSweep, TypeOK, Callers
  <2>3. /\ pc'[s] = "created" /\ sweepTask' = s /\ isSweeping'
        /\ sweepRunning' = sweepRunning /\ cancelled' = cancelled
    BY <1>24 DEF SweepAccepted, SweepSlot, TypeOK, Callers
  <2>4. s \notin cancelled
    BY <1>24 DEF SweepAccepted, TypeOK, Tasks
  <2> QED
    BY <2>1, <2>2, <2>3, <2>4 DEF SweepSlot, ClaimsSweep, OpenSweep
<1>25. ASSUME NEW s \in Sweeps, SweepRequestFails(s) PROVE SweepSlot'
  BY <1>25 DEF SweepRequestFails, SweepSlot, ClaimsSweep, OpenSweep, TypeOK,
      Callers, engineVars, routerVars
<1>26. CASE Stop
  <2>1. CASE sweepTask \in Sweeps
    <3>1. OpenSweep(sweepTask) /\ ~Done(sweepTask)
      BY <2>1 DEF SweepSlot, OpenSweep, Done, Callers
    <3>2. /\ sweepTask' = NoCaller /\ ~isSweeping' /\ sweepTask \in cancelled'
          /\ pc' = pc /\ sweepRunning' = sweepRunning /\ cancelled \subseteq cancelled'
      BY <1>26, <3>1 DEF Stop
    <3> QED
      BY <2>1, <3>1, <3>2, CallersAssumption DEF SweepSlot, ClaimsSweep,
          OpenSweep, Callers
  <2>2. CASE sweepTask \notin Sweeps
    <3>1. sweepTask' = sweepTask /\ isSweeping' = isSweeping
      BY <1>26, <2>2, CallersAssumption DEF Stop, Done, TypeOK
    <3>2. cancelled' \cap Sweeps = cancelled \cap Sweeps
      BY <1>26, <2>2, CallersAssumption DEF Stop, Done, TypeOK
    <3> QED
      BY <1>26, <3>1, <3>2, SlotUndisturbed DEF Stop
  <2> QED
    BY <2>1, <2>2
<1>27. ASSUME NEW s \in Sweeps, SweepStarts(s) PROVE SweepSlot'
  BY <1>27 DEF SweepStarts, Begin, SweepSlot, ClaimsSweep, OpenSweep, TypeOK,
      Callers, routerVars
<1>28. ASSUME NEW s \in Sweeps, SweepStep(s) PROVE SweepSlot'
  BY <1>28 DEF SweepStep, Begin, SweepSlot, ClaimsSweep, OpenSweep, TypeOK,
      Callers, routerVars
<1>29. ASSUME NEW s \in Sweeps, SweepStartsEmpty(s) PROVE SweepSlot'
  <2>1. ClaimsSweep(s) /\ pc' = [pc EXCEPT ![s] = "done"]
    BY <1>29 DEF SweepStartsEmpty, EndSweep, ClaimsSweep, OpenSweep
  <2>2. \A q \in Sweeps : ~InSweep(q)
    BY <1>29, <2>1 DEF SweepStartsEmpty, SweepSlot, ClaimsSweep
  <2>3. sweepRunning' = FALSE
    BY <1>29, <2>2 DEF SweepStartsEmpty, SweepSlot
  <2> QED
    BY <1>29, <2>1, <2>3, SlotReleased DEF SweepStartsEmpty, EndSweep
<1>30. ASSUME NEW s \in Sweeps, SweepEnds(s) PROVE SweepSlot'
  <2>1. ClaimsSweep(s) /\ pc' = [pc EXCEPT ![s] = "done"]
    BY <1>30 DEF SweepEnds, EndSweep, ClaimsSweep
  <2> QED
    BY <1>30, <2>1, SlotReleased DEF SweepEnds, EndSweep
<1>31. ASSUME NEW c \in Callers, CancelDelivered(c) PROVE SweepSlot'
  <2>1. CASE c \notin Sweeps
    <3>1. UNCHANGED <<sweepRunning, isSweeping, sweepTask, cancelled>>
      BY <1>31, <2>1 DEF CancelDelivered, TaskOver, routerVars
    <3>2. \A q \in Sweeps : pc'[q] = pc[q]
      <4>1. \E l \in {"unwind", "done"} : pc' = [pc EXCEPT ![c] = l]
        BY <1>31 DEF CancelDelivered, TaskOver
      <4> QED
        BY <2>1, <4>1 DEF TypeOK
    <3> HIDE DEF InSweep
    <3> QED
      BY <3>1, <3>2, SlotUndisturbed
  <2>2. CASE c \in Sweeps /\ pc'[c] = "unwind"
    <3>1. /\ pc[c] \in InRun \cup {"saving"} /\ pc' = [pc EXCEPT ![c] = "unwind"]
          /\ UNCHANGED <<sweepRunning, isSweeping, sweepTask, cancelled>>
      BY <1>31, <2>2 DEF CancelDelivered, TaskOver, TypeOK, routerVars
    <3>2. \A q \in Sweeps : pc'[q] = pc[q] \/ (InSweep(q) /\ InSweep(q)')
      BY <2>2, <3>1 DEF TypeOK
    <3> HIDE DEF InSweep
    <3> QED
      BY <3>1, <3>2, SlotUndisturbed
  <2>3. CASE c \in Sweeps /\ pc'[c] # "unwind" /\ pc[c] = "created"
    <3>1. /\ pc' = [pc EXCEPT ![c] = "done"] /\ c \in cancelled
          /\ UNCHANGED <<sweepRunning, isSweeping, sweepTask, cancelled>>
      BY <1>31, <2>3 DEF CancelDelivered, TaskOver, routerVars
    <3>2. \A q \in Sweeps : /\ InSweep(q)' <=> InSweep(q)
                            /\ pc'[q] = "starting" <=> pc[q] = "starting"
                            /\ OpenSweep(q)' <=> OpenSweep(q)
      BY <2>3, <3>1 DEF TypeOK, OpenSweep
    <3> QED
      BY <3>1, <3>2 DEF SweepSlot, ClaimsSweep
  <2>4. CASE c \in Sweeps /\ pc'[c] # "unwind" /\ pc[c] # "created"
    <3>1. InSweep(c)
      BY <1>31, <2>4, CallersAssumption
         DEF CancelDelivered, Live, TypeOK, Locations, Callers
    <3>2. /\ pc' = [pc EXCEPT ![c] = "done"] /\ cancelled' = cancelled
          /\ sweepRunning' = FALSE /\ sweepTask' = NoCaller
      BY <1>31, <2>4 DEF CancelDelivered, TaskOver, TypeOK
    <3> QED
      BY <2>4, <3>1, <3>2, SlotReleased DEF ClaimsSweep
  <2> QED
    BY <2>1, <2>2, <2>3, <2>4
<1>32. ASSUME NEW c \in Callers, Unwind(c) PROVE SweepSlot'
  <2>1. CASE c \notin Sweeps
    <3>1. UNCHANGED <<sweepRunning, isSweeping, sweepTask, cancelled>>
      BY <1>32, <2>1 DEF Unwind, TaskOver, routerVars
    <3>2. \A q \in Sweeps : pc'[q] = pc[q]
      BY <1>32, <2>1 DEF Unwind, TaskOver, TypeOK
    <3> HIDE DEF InSweep
    <3> QED
      BY <3>1, <3>2, SlotUndisturbed
  <2>2. CASE c \in Sweeps
    <3>1. /\ pc' = [pc EXCEPT ![c] = "done"] /\ cancelled' = cancelled
          /\ sweepRunning' = FALSE /\ sweepTask' = NoCaller
      BY <1>32, <2>2 DEF Unwind, TaskOver
    <3> QED
      BY <1>32, <2>2, <3>1, SlotReleased DEF Unwind, ClaimsSweep
  <2> QED
    BY <2>1, <2>2
<1> QED
  BY <1>1, <1>2, <1>3, <1>4, <1>5, <1>6, <1>7, <1>8, <1>9, <1>10, <1>11,
     <1>12, <1>13, <1>14, <1>15, <1>16, <1>17, <1>18, <1>19, <1>20,
     <1>21, <1>22, <1>23, <1>24, <1>25, <1>26, <1>27, <1>28, <1>29,
     <1>30, <1>31, <1>32
     DEF Next, Handler, RunStep, TestStep, SweepTaskStep, TunerStep, RequestStep

\* However many sweeps clients ask for, one at a time is starting or running,
\* the engine's flag says so, and POST /stop can find it.
THEOREM SweepsExclusive == Spec => []SweepSlot
<1>1. Init => SweepSlot
  <2> SUFFICES ASSUME Init PROVE SweepSlot
    OBVIOUS
  <2>1. \A s \in Sweeps : pc[s] = "idle" /\ sweepTask # s
    BY CallersAssumption DEF Init, Callers
  <2>2. \A s \in Sweeps : ~ClaimsSweep(s) /\ ~InSweep(s) /\ ~OpenSweep(s)
    BY <2>1 DEF ClaimsSweep, OpenSweep, InSweep, InRun
  <2> QED
    BY <2>1, <2>2 DEF Init, SweepSlot
<1> QED
  BY <1>1, TypeCorrect, SweepSlotStep, PTL DEF Spec
(***************************************************************************)
(* A row of running_state goes with its run.                               *)
(***************************************************************************)

\* Where a run has a row: from the answer of set_running to the clearing of
\* it, in the finally clause after an exception.
HasRow == (InRun \ {"marking"}) \cup {"saving", "clearing", "unwind"}

\* Outside those places, and before its end, a caller holds no row, and has
\* left none behind if the database did not fail it.
LEMMA NoRowBefore ==
  ASSUME TypeOK, RowFollowsRun, NEW c \in Callers
  PROVE  /\ pc[c] \notin HasRow => "open" \notin row[c]
         /\ pc[c] # "done" /\ c \notin RowFaults => row[c] \subseteq {"open"}
BY DEF TypeOK, RowFollowsRun, InSweep, HasRow, InRun

\* A step that leaves the rows alone keeps RowFollowsRun if a caller that holds
\* one stays where it may, and the callers that are over stay as they are.
LEMMA RowsUndisturbed ==
  ASSUME TypeOK, RowFollowsRun, UNCHANGED row, cancelled \subseteq cancelled',
         \A c \in Callers : pc[c] = "done" =>
           /\ pc'[c] = "done"
           /\ \A r \in Requests : reqs[c][r] = "raise" => reqs'[c][r] = "raise",
         \A c \in Callers : \/ pc'[c] = pc[c]
                            \/ "open" \notin row[c]
                            \/ pc[c] \in HasRow /\ pc'[c] \in HasRow
  PROVE  RowFollowsRun'
<1>1. \A c \in Callers : "open" \in row'[c] => InSweep(c)' /\ pc'[c] # "marking"
  BY DEF RowFollowsRun, InSweep, HasRow, InRun
<1>2. ASSUME NEW c \in Callers, c \notin RowFaults, row[c] \ {"open"} # {}
      PROVE  c \in cancelled' /\ pc'[c] = "done" /\ (Lost(c) => Lost(c)')
  BY <1>2 DEF RowFollowsRun, Lost
<1> QED
  BY <1>1, <1>2 DEF RowFollowsRun

\* The same for a step of one caller.
LEMMA OneCallerMoves ==
  ASSUME TypeOK, RowFollowsRun, UNCHANGED row, cancelled \subseteq cancelled',
         NEW c \in Callers,
         \A d \in Callers \ {c} : pc'[d] = pc[d] /\ reqs'[d] = reqs[d],
         \/ pc[c] \notin HasRow \cup {"done"}
         \/ pc[c] \in HasRow /\ pc'[c] \in HasRow
  PROVE  RowFollowsRun'
<1>1. pc[c] \notin HasRow => "open" \notin row[c]
  BY NoRowBefore
<1>2. pc[c] # "done"
  BY DEF HasRow, InRun
<1> QED
  BY <1>1, <1>2, RowsUndisturbed

\* And for a step that clears the row of a caller that was not cancelled.
LEMMA OneRowCleared ==
  ASSUME TypeOK, RowFollowsRun, UNCHANGED cancelled,
         NEW c \in Callers, pc[c] \in HasRow,
         ClearRow(c, c \in RowFaults),
         \A d \in Callers \ {c} : pc'[d] = pc[d] /\ reqs'[d] = reqs[d]
  PROVE  RowFollowsRun'
<1>1. /\ \A d \in Callers \ {c} : row'[d] = row[d]
      /\ "open" \notin row'[c]
      /\ c \notin RowFaults => row'[c] = {}
  BY NoRowBefore DEF ClearRow, TypeOK, HasRow, InRun
<1>2. ASSUME NEW d \in Callers, d # c
      PROVE  (InSweep(d)' <=> InSweep(d)) /\ (Lost(d)' <=> Lost(d))
  BY <1>2 DEF InSweep, Lost
<1> QED
  BY <1>1, <1>2 DEF RowFollowsRun

\* And for the end of a caller that may leave its row behind.
LEMMA OneCallerEnds ==
  ASSUME TypeOK, RowFollowsRun, UNCHANGED <<cancelled, reqs>>,
         NEW c \in Callers, pc[c] # "done", pc' = [pc EXCEPT ![c] = "done"],
         \A d \in Callers \ {c} : row'[d] = row[d],
         "open" \notin row'[c],
         c \notin RowFaults =>
           \A w \in row'[c] : c \in cancelled /\ (w = "unwind" => Lost(c))
  PROVE  RowFollowsRun'
<1>1. \A d \in Callers : pc'[d] = IF d = c THEN "done" ELSE pc[d]
  BY DEF TypeOK
<1>2. ASSUME NEW d \in Callers, d # c PROVE InSweep(d)' <=> InSweep(d)
  BY <1>1, <1>2 DEF InSweep
<1>3. ASSUME NEW d \in Callers PROVE Lost(d)' <=> Lost(d)
  BY DEF Lost
<1> QED
  BY <1>1, <1>2, <1>3 DEF RowFollowsRun

\* RowFollowsRun is inductive, given the types.
LEMMA RowStep ==
  TypeOK /\ RowFollowsRun /\ [Next]_vars => RowFollowsRun'
<1> SUFFICES ASSUME TypeOK, RowFollowsRun, [Next]_vars
             PROVE  RowFollowsRun'
  OBVIOUS
<1> USE DEF HasRow, InRun, Callers
<1>1. CASE UNCHANGED vars
  BY <1>1, RowsUndisturbed DEF vars, callerVars
<1>2. CASE Stop
  BY <1>2, RowsUndisturbed DEF Stop
<1>3. ASSUME NEW t \in Tests,
             \/ StartRequest(t) \/ StartRejected(t) \/ StartAccepted(t)
             \/ TestBegins(t) \/ TestRefused(t)
      PROVE  RowFollowsRun'
  BY <1>3, OneCallerMoves
     DEF StartRequest, StartRejected, StartAccepted, TestBegins, TestRefused, Begin, TypeOK
<1>4. ASSUME NEW t \in Tests, TestEnds(t) PROVE RowFollowsRun'
  BY <1>4, OneCallerMoves DEF TestEnds, TypeOK
<1>5. ASSUME NEW s \in Sweeps,
             \/ SweepRequest(s) \/ SweepAccepted(s) \/ SweepRequestFails(s)
             \/ SweepStarts(s) \/ SweepStartsEmpty(s)
      PROVE  RowFollowsRun'
  BY <1>5, OneCallerMoves
     DEF SweepRequest, SweepAccepted, SweepRequestFails, SweepStarts, SweepStartsEmpty,
         Begin, EndSweep, TypeOK
<1>6. ASSUME NEW s \in Sweeps, SweepStep(s) \/ SweepEnds(s) PROVE RowFollowsRun'
  <2>1. /\ pc[s] \in HasRow /\ UNCHANGED cancelled
        /\ ClearRow(s, s \in RowFaults)
        /\ \A d \in Callers \ {s} : pc'[d] = pc[d] /\ reqs'[d] = reqs[d]
    BY <1>6 DEF SweepStep, SweepEnds, Begin, EndSweep, TypeOK
  <2> QED
    BY <2>1, OneRowCleared
<1>7. ASSUME NEW u \in Tuners, TunerBegins(u) \/ TunerRefused(u) PROVE RowFollowsRun'
  BY <1>7, OneCallerMoves DEF TunerBegins, TunerRefused, Begin, TypeOK
<1>8. ASSUME NEW u \in Tuners, TunerCancelled(u) PROVE RowFollowsRun'
  BY <1>8, RowsUndisturbed DEF TunerCancelled
<1>9. ASSUME NEW c \in Callers, NEW r \in Requests, RequestSent(c, r) \/ RequestEnds(c, r)
      PROVE  RowFollowsRun'
  <2>1. UNCHANGED <<pc, cancelled, row>> /\ reqs[c][r] \in {"queued", "sent"}
    BY <1>9 DEF RequestSent, RequestEnds
  <2>2. ASSUME NEW d \in Callers, NEW q \in Requests, reqs[d][q] = "raise"
        PROVE  reqs'[d][q] = "raise"
    <3>1. \E o : reqs' = [reqs EXCEPT ![c][r] = o]
      BY <1>9 DEF RequestSent, RequestEnds
    <3>2. ~(d = c /\ q = r)
      BY <2>1, <2>2
    <3> QED
      BY <2>2, <3>1, <3>2 DEF TypeOK
  <2> QED
    BY <2>1, <2>2, RowsUndisturbed
<1>10. ASSUME NEW c \in Callers,
              PreflightFailed(c) \/ FailRun(c) \/ RunRaises(c) \/ ResultSaved(c)
       PROVE  RowFollowsRun'
  BY <1>10, OneCallerMoves DEF PreflightFailed, FailRun, RunRaises,
      ResultSaved, TypeOK
<1>11. ASSUME NEW c \in Callers, RunReturns(c) PROVE RowFollowsRun'
  <2>1. /\ pc[c] \in HasRow /\ UNCHANGED <<cancelled, reqs>>
        /\ ClearRow(c, c \in RowFaults)
        /\ \A d \in Callers \ {c} : pc'[d] = pc[d]
    BY <1>11 DEF RunReturns, TypeOK
  <2> QED
    BY <2>1, OneRowCleared
<1>12. ASSUME NEW c \in Callers, Unwind(c) PROVE RowFollowsRun'
  <2>1. /\ pc[c] = "unwind" /\ pc' = [pc EXCEPT ![c] = "done"]
        /\ UNCHANGED <<cancelled, reqs>>
        /\ ClearRow(c, c \in RowFaults \/ (c \in cancelled /\ Lost(c)))
    BY <1>12 DEF Unwind, TaskOver
  <2>2. /\ \A d \in Callers \ {c} : row'[d] = row[d]
        /\ "open" \notin row'[c]
        /\ c \notin RowFaults => \A w \in row'[c] : c \in cancelled /\ Lost(c)
    BY <2>1, NoRowBefore DEF ClearRow, TypeOK
  <2> QED
    BY <2>1, <2>2, OneCallerEnds
<1>13. ASSUME NEW c \in Callers, CancelDelivered(c) PROVE RowFollowsRun'
  <2>1. CASE pc[c] \in (InRun \ {"marking"}) \cup {"saving"}
    BY <1>13, <2>1, OneCallerMoves DEF CancelDelivered, TypeOK
  <2>2. CASE pc[c] \notin (InRun \ {"marking"}) \cup {"saving"}
    <3>1. /\ pc[c] \notin {"unwind", "done"} /\ pc' = [pc EXCEPT ![c] = "done"]
          /\ UNCHANGED <<cancelled, reqs>>
          /\ c \in cancelled
          /\ IF pc[c] = "marking" THEN row' = [row EXCEPT ![c] = @ \cup {"marking"}]
             ELSE ClearRow(c, pc[c] = "clearing")
      BY <1>13, <2>2 DEF CancelDelivered, TaskOver, Live
    <3>2. /\ \A d \in Callers \ {c} : row'[d] = row[d]
          /\ "open" \notin row'[c]
          /\ c \notin RowFaults => \A w \in row'[c] : w # "unwind"
      BY <3>1, NoRowBefore DEF ClearRow, TypeOK
    <3> QED
      BY <3>1, <3>2, OneCallerEnds
  <2> QED
    BY <2>1, <2>2
<1>14. ASSUME NEW c \in Callers, RunRecorded(c) PROVE RowFollowsRun'
  <2>1. /\ pc[c] = "marking" /\ UNCHANGED cancelled
        /\ \E got \in {{}, {"open"}} \cup {{"marking"} : f \in RowFaults \cap {c}} :
             row' = [row EXCEPT ![c] = @ \cup got]
    BY <1>14 DEF RunRecorded
  <2>2. /\ pc'[c] \in HasRow
        /\ \A d \in Callers \ {c} : pc'[d] = pc[d] /\ reqs'[d] = reqs[d]
    <3>1. CASE c \in Tuners
      BY <1>14, <3>1 DEF RunRecorded, TypeOK
    <3>2. CASE c \notin Tuners
      <4>1. Advance(c, reqs[c], FALSE) /\ reqs[c] \in [Requests -> RequestStates]
        BY <1>14, <3>2 DEF RunRecorded, TypeOK
      <4> QED
        BY <4>1, AdvanceMoves
    <3> QED
      BY <3>1, <3>2
  <2>3. /\ \A d \in Callers \ {c} : row'[d] = row[d]
        /\ c \notin RowFaults => row'[c] \subseteq {"open"}
    BY <2>1, NoRowBefore DEF TypeOK
  <2>4. ASSUME NEW d \in Callers, d # c
        PROVE  (InSweep(d)' <=> InSweep(d)) /\ (Lost(d)' <=> Lost(d))
    BY <2>1, <2>2, <2>4 DEF InSweep, Lost
  <2>5. InSweep(c)' /\ pc'[c] # "marking"
    BY <2>2 DEF InSweep
  <2> QED
    BY <2>1, <2>2, <2>3, <2>4, <2>5 DEF RowFollowsRun
<1>15. ASSUME NEW c \in Callers, PreflightPassed(c) \/ Wake(c) PROVE RowFollowsRun'
  <2>1. /\ Advance(c, reqs[c], stopEvent) /\ UNCHANGED <<cancelled, row>>
        /\ pc[c] \in HasRow
    BY <1>15 DEF PreflightPassed, Wake
  <2>2. reqs[c] \in [Requests -> RequestStates] /\ stopEvent \in BOOLEAN
    BY DEF TypeOK
  <2> QED
    BY <2>1, <2>2, AdvanceMoves, OneCallerMoves
<1>16. ASSUME NEW c \in Callers, Poll(c) PROVE RowFollowsRun'
  <2> DEFINE R == Count(reqs[c])
  <2>1. R \in [Requests -> RequestStates] /\ stopEvent \in BOOLEAN
    BY CountType DEF TypeOK
  <2>2. UNCHANGED <<cancelled, row>> /\ pc[c] \in HasRow
    BY <1>16 DEF Poll
  <2>3. pc'[c] \in HasRow /\ \A d \in Callers \ {c} : pc'[d] = pc[d] /\ reqs'[d] = reqs[d]
    <3>1. CASE Abort(c, R)
      BY <3>1 DEF Abort, TypeOK
    <3>2. CASE /\ pc' = [pc EXCEPT ![c] = "sleeping"]
               /\ reqs' = [reqs EXCEPT ![c] = R]
      BY <3>2 DEF TypeOK
    <3>3. CASE Advance(c, R, stopEvent)
      <4> HIDE DEF R
      <4> QED
        BY <2>1, <3>3, AdvanceMoves
    <3> QED
      BY <1>16, <3>1, <3>2, <3>3 DEF Poll
  <2> QED
    BY <2>2, <2>3, OneCallerMoves
<1>17. ASSUME NEW c \in Callers, Drain(c) PROVE RowFollowsRun'
  <2>1. PICK r \in Requests, same \in BOOLEAN :
          LET R == [reqs[c] EXCEPT ![r] = Count(reqs[c])[r]] IN
          IF FirstBatchFailed(reqs[c], R, same) THEN Abort(c, R)
          ELSE Advance(c, R, TRUE)
    BY <1>17 DEF Drain
  <2> DEFINE R == [reqs[c] EXCEPT ![r] = Count(reqs[c])[r]]
  <2>2. R \in [Requests -> RequestStates]
    BY CountType DEF TypeOK
  <2>3. UNCHANGED <<cancelled, row>> /\ pc[c] \in HasRow
    BY <1>17 DEF Drain
  <2>4. pc'[c] \in HasRow /\ \A d \in Callers \ {c} : pc'[d] = pc[d] /\ reqs'[d] = reqs[d]
    <3>1. CASE Abort(c, R)
      BY <3>1 DEF Abort, TypeOK
    <3>2. CASE Advance(c, R, TRUE)
      <4> HIDE DEF R
      <4> QED
        BY <2>2, <3>2, AdvanceMoves
    <3> QED
      BY <2>1, <3>1, <3>2
  <2> QED
    BY <2>3, <2>4, OneCallerMoves
<1> QED
  BY <1>1, <1>2, <1>3, <1>4, <1>5, <1>6, <1>7, <1>8, <1>9, <1>10, <1>11, <1>12,
     <1>13, <1>14, <1>15, <1>16, <1>17
     DEF Next, Handler, RunStep, TestStep, SweepTaskStep, TunerStep, RequestStep

\* However a run ends, the row it holds goes with it.  What a restart reports
\* as interrupted though it was not is the row of a caller whose statements the
\* database failed, or whose task was cancelled at the insert, at the clear that
\* ends an orderly run, or at the clear of a run already lost.
THEOREM RowsFollowRuns == Spec => []RowFollowsRun
<1>1. Init => RowFollowsRun
  BY DEF Init, RowFollowsRun
<1>2. TypeOK /\ RowFollowsRun /\ [Next]_vars => RowFollowsRun'
  BY RowStep
<1> QED
  BY <1>1, <1>2, TypeCorrect, PTL DEF Spec

(***************************************************************************)
(* Without the auto-tuner, and as long as tests do not overlap: a stopped  *)
(* engine stays so, and a run that reports COMPLETED has counted all its   *)
(* requests.                                                               *)
(***************************************************************************)

\* A test is created when the task of the last one is over, cancelled or not.
TestsApart == \A t, u \in Tests : Live(t) /\ Live(u) => t = u

\* POST /stop finds the test that it has to cancel.
TestReferred == \A t \in Tests : Live(t) /\ t \notin cancelled => activeTest = t

\* What goes with a run that has not been cancelled: the engine is its own.
Told(s) ==
  /\ status = "running" /\ owner = s /\ pc[s] # "preflight"
  /\ pc[s] # "failing" => \A r \in Requests : reqs[s][r] # "cancelled"
  /\ pc[s] \in {"polling", "sleeping", "drain"} => ~stopEvent
  /\ pc[s] = "drain" => \A r \in Requests : reqs[s][r] # "new"
  /\ \A r \in Counted(reqs[s]) : <<s, r>> \in results

RunsTold == \A s \in Callers : Running(s) => Told(s)

\* The head of the request loop, for requests none of which was given up: it
\* finishes the run only when each has been counted.
LEMMA AdvanceCounted ==
  ASSUME TypeOK, NEW c \in Callers, NEW R \in [Requests -> RequestStates],
         \A r \in Requests : R[r] # "cancelled",
         NEW stopping \in BOOLEAN, stopping => \A r \in Requests : R[r] # "new",
         Advance(c, R, stopping)
  PROVE  /\ pc'[c] \in {"polling", "drain", "saving", "clearing"}
         /\ pc'[c] \in {"polling", "drain"} => status' = status
         /\ status = "stopped" => status' = "stopped"
         /\ \A r \in Requests : reqs'[c][r] # "cancelled"
         /\ pc'[c] = "drain" => \A r \in Requests : reqs'[c][r] # "new"
         /\ pc'[c] \in {"saving", "clearing"} =>
              \A r \in Requests : reqs'[c][r] \in {"success", "failure"}
         /\ Counted(reqs'[c]) = Counted(R)
<1>a. pc \in [Callers -> Locations] /\ reqs \in [Callers -> [Requests -> RequestStates]]
  BY DEF TypeOK
<1>1. ASSUME ~stopping, NEW r \in Requests, R[r] = "new",
             reqs' = [reqs EXCEPT ![c] = [R EXCEPT ![r] = "queued"]],
             pc' = [pc EXCEPT ![c] = "polling"], UNCHANGED <<status, lastTerminal>>
      PROVE  /\ pc'[c] = "polling" /\ status' = status
             /\ \A q \in Requests : reqs'[c][q] # "cancelled"
             /\ Counted(reqs'[c]) = Counted(R)
  BY <1>1, <1>a DEF Counted
<1>2. CASE /\ \A r \in Requests : R[r] # "new"
           /\ reqs' = [reqs EXCEPT ![c] = R]
           /\ pc' = [pc EXCEPT ![c] = "drain"]
           /\ UNCHANGED <<status, lastTerminal>>
  BY <1>2, <1>a DEF Counted
<1>3. CASE /\ \A r \in Requests : R[r] # "new"
           /\ Pending(R) = {}
           /\ reqs' = [reqs EXCEPT ![c] = R]
           /\ Finalize(c)
  <2>1. \A r \in Requests : R[r] \in {"success", "failure"}
    BY <1>3 DEF Pending, RequestStates
  <2> QED BY <1>3, <1>a, <2>1 DEF Finalize, Counted
<1> QED
  BY <1>1, <1>2, <1>3 DEF Advance

\* One step of a run that has not been cancelled.
LEMMA ToldRunStep ==
  ASSUME Tuners = {}, TypeOK, NEW s \in Callers, Running(s), Told(s), RunStep(s)
  PROVE  /\ Running(s)' => Told(s)'
         /\ pc'[s] \in {"saving", "clearing"} /\ status' = "completed" =>
              /\ \A r \in Requests : reqs'[s][r] \in {"success", "failure"}
              /\ {s} \X Requests \subseteq results'
<1> DEFINE Good ==
      /\ Running(s)' => Told(s)'
      /\ pc'[s] \in {"saving", "clearing"} /\ status' = "completed" =>
           /\ \A r \in Requests : reqs'[s][r] \in {"success", "failure"}
           /\ {s} \X Requests \subseteq results'
<1>a. /\ pc \in [Callers -> Locations] /\ reqs \in [Callers -> [Requests -> RequestStates]]
      /\ stopEvent \in BOOLEAN /\ s \notin cancelled /\ pc[s] \in InRun
  BY DEF TypeOK, Running
\* The head of the request loop, with what has been counted in the results.
<1>b. ASSUME NEW R \in [Requests -> RequestStates], \A r \in Requests : R[r] # "cancelled",
             NEW stopping \in BOOLEAN, stopping => \A r \in Requests : R[r] # "new",
             Advance(s, R, stopping), stopEvent' = FALSE, owner' = owner,
             \A r \in Counted(R) : <<s, r>> \in results'
      PROVE  Good
  <2>1. pc'[s] \in {"saving", "clearing"} => {s} \X Requests \subseteq results'
    BY <1>a, <1>b, AdvanceCounted DEF Counted
  <2> QED BY <1>a, <1>b, <2>1, AdvanceCounted DEF Told, Running, InRun
\* The abort of a run.
<1>c. ASSUME NEW R, Abort(s, R), owner' = owner, \A r \in Counted(R) : <<s, r>> \in results'
      PROVE  Good
  <2>1. /\ pc'[s] = "failing" /\ status' = "running"
        /\ Counted(reqs'[s]) \subseteq Counted(R)
    BY <1>a, <1>c DEF Abort, Counted, Told
  <2> QED BY <1>c, <2>1 DEF Told
<1>1. CASE RunRecorded(s)
  <2>1. \A r \in Requests : reqs[s][r] # "cancelled"
    BY <1>1 DEF RunRecorded, Told
  <2> QED BY <1>1, <1>a, <1>b, <2>1 DEF RunRecorded, Told
<1>2. CASE PreflightPassed(s) \/ PreflightFailed(s)
  BY <1>2 DEF PreflightPassed, PreflightFailed, Told
<1>3. CASE Wake(s)
  <2>1. ~stopEvent /\ \A r \in Requests : reqs[s][r] # "cancelled"
    BY <1>3 DEF Wake, Told
  <2> QED BY <1>3, <1>a, <1>b, <2>1 DEF Wake, Told
<1>4. CASE Poll(s)
  <2> DEFINE R == Count(reqs[s])
  <2>1. /\ R \in [Requests -> RequestStates] /\ ~stopEvent
        /\ \A r \in Requests : R[r] # "cancelled"
    BY <1>4, <1>a, CountType DEF Poll, Told, Count
  <2>2. (\A r \in Counted(R) : <<s, r>> \in results') /\ owner' = owner
    BY <1>4 DEF Poll, Told
  <2>3. CASE /\ reqs' = [reqs EXCEPT ![s] = R] /\ pc' = [pc EXCEPT ![s] = "sleeping"]
             /\ UNCHANGED <<status, lastTerminal, stopEvent>>
    <3> HIDE DEF R
    <3> QED BY <1>a, <2>1, <2>2, <2>3 DEF Told
  <2>4. CASE Abort(s, R)
    BY <1>c, <2>2, <2>4
  <2>5. CASE Advance(s, R, stopEvent) /\ UNCHANGED stopEvent
    <3> HIDE DEF R
    <3> QED BY <1>a, <1>b, <2>1, <2>2, <2>5
  <2> QED BY <1>4, <2>3, <2>4, <2>5 DEF Poll
<1>5. CASE Drain(s)
  <2>1. PICK r \in Requests, same \in BOOLEAN :
          LET R == [reqs[s] EXCEPT ![r] = Count(reqs[s])[r]] IN
          /\ reqs[s][r] \in {"ok", "bad"}
          /\ results' = results \cup {<<s, r>>} /\ owner' = owner
          /\ \/ Abort(s, R)
             \/ Advance(s, R, TRUE) /\ UNCHANGED stopEvent
    BY <1>5 DEF Drain
  <2>2. ASSUME NEW R, R = [reqs[s] EXCEPT ![r] = Count(reqs[s])[r]],
               Abort(s, R) \/ (Advance(s, R, TRUE) /\ UNCHANGED stopEvent)
        PROVE  Good
    <3>1. /\ R \in [Requests -> RequestStates] /\ ~stopEvent
          /\ \A q \in Requests : R[q] \notin {"cancelled", "new"}
      BY <1>5, <1>a, <2>1, <2>2, CountType DEF Drain, Told, Count
    <3>2. (\A q \in Counted(R) : <<s, q>> \in results') /\ owner' = owner
      <4>1. \A q \in Requests \ {r} : R[q] = reqs[s][q]
        BY <1>a, <2>2
      <4>2. results' = results \cup {<<s, r>>} /\ owner' = owner
        BY <2>1
      <4>3. \A q \in Counted(reqs[s]) : <<s, q>> \in results
        BY DEF Told
      <4>4. \A q \in Counted(R) : q = r \/ q \in Counted(reqs[s])
        BY <4>1 DEF Counted
      <4> QED BY <4>2, <4>3, <4>4
    <3> QED BY <1>a, <1>b, <1>c, <2>2, <3>1, <3>2
  <2> QED BY <2>1, <2>2
<1>6. CASE FailRun(s)
  BY <1>6, <1>a DEF FailRun, Running, InRun
<1>7. CASE RunRaises(s)
  BY <1>7, <1>a DEF RunRaises, Running, InRun
<1>8. CASE ResultSaved(s) \/ RunReturns(s) \/ CancelDelivered(s) \/ Unwind(s)
  BY <1>8, <1>a DEF ResultSaved, RunReturns, CancelDelivered, Unwind, InRun
<1> QED
  BY <1>1, <1>2, <1>3, <1>4, <1>5, <1>6, <1>7, <1>8 DEF RunStep

\* Who moves beside a run that has not been cancelled has none of his own.
LEMMA RunsAlone ==
  ASSUME RunsTold, NEW c \in Callers, NEW d \in Callers, Running(c), Running(d)
  PROVE  c = d
BY DEF RunsTold, Told

\* Whoever steps in a run moves nobody else, and cancels nobody.
LEMMA RunStepMoves ==
  ASSUME TypeOK, NEW q \in Callers, RunStep(q)
  PROVE  /\ \A c \in Callers \ {q} : pc'[c] = pc[c]
         /\ UNCHANGED cancelled
<1>a. pc \in [Callers -> Locations] /\ reqs[q] \in [Requests -> RequestStates]
      /\ stopEvent \in BOOLEAN
  BY DEF TypeOK
<1>1. UNCHANGED cancelled
  BY DEF RunStep, RunRecorded, PreflightPassed, PreflightFailed, Poll, Wake, Drain, RunRaises,
         FailRun, ResultSaved, RunReturns, CancelDelivered, Unwind
<1>2. CASE \E R \in [Requests -> RequestStates], b \in BOOLEAN : Abort(q, R) \/ Advance(q, R, b)
  BY <1>a, <1>1, <1>2, AdvanceMoves, AbortEffect
<1>3. CASE \E l : pc' = [pc EXCEPT ![q] = l]
  BY <1>a, <1>1, <1>3
<1>4. CASE RunRecorded(q) \/ PreflightPassed(q) \/ Wake(q)
  BY <1>a, <1>2, <1>3, <1>4 DEF RunRecorded, PreflightPassed, Wake
<1>5. CASE Poll(q)
  <2>1. Count(reqs[q]) \in [Requests -> RequestStates]
    BY <1>a, CountType
  <2> QED BY <1>a, <1>2, <1>3, <1>5, <2>1 DEF Poll
<1>6. CASE Drain(q)
  <2>1. \A r \in Requests : [reqs[q] EXCEPT ![r] = Count(reqs[q])[r]]
                              \in [Requests -> RequestStates]
    BY <1>a, CountType
  <2> QED BY <1>2, <1>6, <2>1 DEF Drain
<1>7. CASE \/ PreflightFailed(q) \/ RunRaises(q) \/ FailRun(q) \/ ResultSaved(q)
           \/ RunReturns(q) \/ CancelDelivered(q) \/ Unwind(q)
  BY <1>3, <1>7
     DEF PreflightFailed, RunRaises, FailRun, ResultSaved, RunReturns, CancelDelivered, Unwind,
         TaskOver
<1> QED BY <1>4, <1>5, <1>6, <1>7 DEF RunStep

LEMMA TestReferredStep ==
  ASSUME Tuners = {}, TypeOK, TestsApart, TestsApart', TestReferred, [Next]_vars
  PROVE  TestReferred'
<1>a. /\ pc \in [Callers -> Locations] /\ Tests \subseteq Callers
      /\ \A c \in Callers \ Tests : c \in Sweeps
      /\ \A s \in Sweeps : s \in Callers /\ s \notin Tests
  BY CallersAssumption DEF TypeOK, Callers
<1> SUFFICES ASSUME NEW t \in Tests, Live(t)', t \notin cancelled' PROVE activeTest' = t
  BY DEF TestReferred
<1>b. Live(t) /\ t \notin cancelled => activeTest = t
  BY DEF TestReferred
<1>1. CASE UNCHANGED vars
  BY <1>1, <1>b DEF vars, routerVars, callerVars, Live
<1>2. CASE Stop
  BY <1>2, <1>a, <1>b DEF Stop, Live, Done
<1>3. ASSUME NEW u \in Tests, StartRequest(u) \/ StartRejected(u) \/ TestBegins(u) \/ TestRefused(u)
      PROVE  activeTest' = t
  BY <1>3, <1>a, <1>b
     DEF StartRequest, StartRejected, TestBegins, TestRefused, Begin, routerVars, Live
<1>4. ASSUME NEW u \in Tests, StartAccepted(u) PROVE activeTest' = t
  <2>1. Live(u)'
    BY <1>4, <1>a DEF StartAccepted, Live
  <2> QED BY <1>4, <2>1 DEF StartAccepted, TestsApart
<1>5. ASSUME NEW u \in Tests, TestEnds(u) PROVE activeTest' = t
  <2>1. Live(u) /\ t # u /\ Live(t)
    BY <1>5, <1>a DEF TestEnds, Live
  <2> QED BY <2>1 DEF TestsApart
<1>6. ASSUME NEW s \in Sweeps,
             SweepRequest(s) \/ SweepAccepted(s) \/ SweepRequestFails(s) \/ SweepTaskStep(s)
      PROVE  activeTest' = t
  <2>1. activeTest' = activeTest /\ cancelled' = cancelled /\ \E l : pc' = [pc EXCEPT ![s] = l]
    BY <1>6
       DEF SweepRequest, SweepAccepted, SweepRequestFails, SweepTaskStep, SweepStarts,
           SweepStartsEmpty, SweepStep, SweepEnds, EndSweep, Begin, routerVars
  <2> QED BY <1>a, <1>b, <2>1 DEF Live
<1>7. ASSUME NEW c \in Callers, RequestStep(c) PROVE activeTest' = t
  BY <1>7, <1>b DEF RequestStep, RequestSent, RequestEnds, routerVars, Live
<1>8. ASSUME NEW c \in Callers, RunStep(c) PROVE activeTest' = t
  <2>1. Live(c) /\ cancelled' = cancelled /\ \A d \in Callers \ {c} : pc'[d] = pc[d]
    BY <1>8, RunStepMoves
       DEF RunStep, RunRecorded, PreflightPassed, PreflightFailed, Poll, Wake, Drain, RunRaises,
           FailRun, ResultSaved, RunReturns, CancelDelivered, Unwind, Live
  <2>2. Live(t)
    BY <1>a, <2>1 DEF Live
  <2>3. activeTest' = activeTest \/ (c \in Tests /\ pc'[c] = "done")
    BY <1>8, <1>a
       DEF RunStep, RunRecorded, PreflightPassed, PreflightFailed, Poll, Wake, Drain, RunRaises,
           FailRun, ResultSaved, RunReturns, CancelDelivered, Unwind, TaskOver, routerVars
  <2>4. c \in Tests => c = t
    BY <2>1, <2>2 DEF TestsApart
  <2>5. ~(c \in Tests /\ pc'[c] = "done")
    BY <2>4 DEF Live
  <2> QED BY <1>b, <2>1, <2>2, <2>3, <2>5
<1> QED
  BY <1>1, <1>2, <1>3, <1>4, <1>5, <1>6, <1>7, <1>8 DEF Next, Handler, TestStep

LEMMA RunsToldStep ==
  ASSUME Tuners = {}, TypeOK, SweepSlot, TestReferred, RunsTold, [Next]_vars
  PROVE  RunsTold'
<1>a. /\ Callers = Tests \cup Sweeps
      /\ pc \in [Callers -> Locations] /\ reqs \in [Callers -> [Requests -> RequestStates]]
  BY DEF TypeOK, Callers
<1>b. SUFFICES ASSUME NEW s \in Callers, Running(s)' PROVE Told(s)'
  BY DEF RunsTold
<1>c. Running(s) => Told(s)
  BY DEF RunsTold
\* A run is begun by whoever finds none under way.
<1>d. ASSUME NEW q \in Callers, Begin(q), UNCHANGED cancelled PROVE Told(s)'
  <2>1. ~Running(s)
    BY <1>c, <1>d DEF Begin, Told
  <2>2. s = q
    BY <1>a, <1>b, <1>d, <2>1 DEF Begin, Running
  <2>3. status' = "running" /\ owner' = s /\ pc'[s] = "marking"
    BY <1>a, <1>d, <2>2 DEF Begin
  <2>4. \A r \in Requests : reqs'[s][r] = "new"
    BY <1>a, <1>d, <2>2 DEF Begin
  <2>5. Counted(reqs'[s]) = {}
    BY <2>4 DEF Counted
  <2>6. Counted(reqs[s])' = Counted(reqs'[s])
    BY DEF Counted
  <2> QED BY <2>3, <2>4, <2>5, <2>6 DEF Told
\* A step that moves nobody within a run, and leaves the engine to its owner.
<1>e. ASSUME UNCHANGED <<status, owner, results, cancelled, reqs>>,
             ~stopEvent => ~stopEvent', pc'[s] = pc[s]
      PROVE  Told(s)'
  BY <1>b, <1>c, <1>e DEF Told, Running, Counted
<1>f. ASSUME NEW q \in Callers, NEW l, l \notin InRun, pc' = [pc EXCEPT ![q] = l]
      PROVE  pc'[s] = pc[s]
  BY <1>a, <1>b, <1>f DEF Running
<1>1. CASE UNCHANGED vars
  BY <1>1, <1>b, <1>c DEF vars, engineVars, callerVars, Told, Running
<1>2. CASE Stop
  <2>1. ~Done(s) /\ Live(s) /\ s \notin cancelled /\ pc[s] \in InRun
    BY <1>2, <1>a, <1>b DEF Stop, Running, Done, InRun, Live
  <2>2. s \in {activeTest, sweepTask}
    BY <1>a, <2>1 DEF TestReferred, SweepSlot, OpenSweep, InSweep
  <2> QED BY <1>2, <1>b, <2>1, <2>2 DEF Stop, Running
<1>3. ASSUME NEW q \in Tests, StartRequest(q) \/ StartRejected(q) \/ StartAccepted(q)
      PROVE  Told(s)'
  <2>1. PICK l \in {"starting", "rejected", "created"} : pc' = [pc EXCEPT ![q] = l]
    BY <1>3 DEF StartRequest, StartRejected, StartAccepted
  <2>2. pc'[s] = pc[s]
    BY <1>3, <1>a, <1>f, <2>1 DEF InRun
  <2> QED
    BY <1>3, <1>e, <2>2 DEF StartRequest, StartRejected, StartAccepted, engineVars
<1>4. ASSUME NEW q \in Sweeps, SweepRequest(q) \/ SweepAccepted(q) \/ SweepRequestFails(q)
      PROVE  Told(s)'
  <2>1. PICK l \in {"starting", "rejected", "created"} : pc' = [pc EXCEPT ![q] = l]
    BY <1>4 DEF SweepRequest, SweepAccepted, SweepRequestFails
  <2>2. pc'[s] = pc[s]
    BY <1>4, <1>a, <1>f, <2>1 DEF InRun
  <2> QED
    BY <1>4, <1>e, <2>2 DEF SweepRequest, SweepAccepted, SweepRequestFails, engineVars
<1>5. CASE RunStep(s)
  <2>1. Running(s)
    BY <1>5, <1>a, <1>b
       DEF RunStep, RunRecorded, PreflightPassed, PreflightFailed, Poll, Wake, Drain, RunRaises,
           FailRun, ResultSaved, RunReturns, CancelDelivered, TaskOver, Unwind, Running, InRun
  <2> QED BY <1>5, <1>b, <1>c, <2>1, ToldRunStep
<1>6. ASSUME NEW q \in Callers \ {s}, RunStep(q) PROVE Told(s)'
  <2>1. pc'[s] = pc[s] /\ UNCHANGED cancelled
    BY <1>6, RunStepMoves
  <2>2. ~Running(q)
    BY <1>b, <1>6, <2>1, RunsAlone DEF Running
  <2>3. UNCHANGED <<stopEvent, reqs, results, status, owner>>
    BY <1>6, <1>a, <2>2
       DEF RunStep, RunRecorded, PreflightPassed, PreflightFailed, Poll, Wake, Drain, RunRaises,
           FailRun, ResultSaved, RunReturns, CancelDelivered, TaskOver, Unwind, InRun, Running,
           engineVars
  <2> QED BY <1>e, <2>1, <2>3
<1>7. ASSUME NEW c \in Callers, RequestStep(c) PROVE Told(s)'
  <2>1. PICK r \in Requests : RequestSent(c, r) \/ RequestEnds(c, r)
    BY <1>7 DEF RequestStep
  <2>2. /\ UNCHANGED <<engineVars, pc, cancelled>>
        /\ \E new \in {"sent", "ok", "bad", "raise"} : reqs' = [reqs EXCEPT ![c][r] = new]
        /\ reqs[c][r] \in {"queued", "sent"}
    BY <2>1, SizesAssumption DEF RequestSent, RequestEnds
  <2>3. \A q \in Requests : \/ reqs'[s][q] = reqs[s][q]
                            \/ reqs'[s][q] \in {"sent", "ok", "bad", "raise"}
    BY <1>a, <2>2
  <2> QED BY <1>b, <1>c, <2>2, <2>3 DEF Told, Running, Counted, engineVars
<1>8. ASSUME NEW q \in Tests, TestBegins(q) \/ TestRefused(q) \/ TestEnds(q) PROVE Told(s)'
  <2>1. CASE TestBegins(q)
    BY <1>a, <1>d, <2>1 DEF TestBegins
  <2>2. CASE TestRefused(q)
    BY <1>a, <1>e, <1>f, <2>2 DEF TestRefused, engineVars, InRun
  <2>3. CASE TestEnds(q)
    BY <1>a, <1>e, <1>f, <2>3 DEF TestEnds, engineVars, InRun
  <2> QED BY <1>8, <2>1, <2>2, <2>3
<1>9. ASSUME NEW q \in Sweeps, SweepTaskStep(q) PROVE Told(s)'
  <2>1. CASE SweepStarts(q) \/ SweepStep(q)
    BY <1>a, <1>d, <2>1 DEF SweepStarts, SweepStep
  <2>2. CASE SweepStartsEmpty(q)
    BY <1>a, <1>e, <1>f, <2>2 DEF SweepStartsEmpty, EndSweep, InRun
  <2>3. CASE SweepEnds(q)
    BY <1>a, <1>e, <1>f, <2>3 DEF SweepEnds, EndSweep, InRun
  <2> QED BY <1>9, <2>1, <2>2, <2>3 DEF SweepTaskStep
<1> QED
  BY <1>1, <1>2, <1>3, <1>4, <1>5, <1>6, <1>7, <1>8, <1>9
     DEF Next, Handler, TestStep

\* Who reports completion is in a run of his own.
LEMMA OnlyRunsFinish ==
  ASSUME Tuners = {}, TypeOK, [Next]_vars, NEW c \in Callers,
         pc[c] \in InRun, pc'[c] \in {"saving", "clearing"}, status' = "completed"
  PROVE  Running(c) /\ RunStep(c)
<1>a. pc \in [Callers -> Locations] /\ pc'[c] # pc[c]
  BY DEF TypeOK, InRun
<1>1. ~(UNCHANGED vars) /\ ~Stop
  BY <1>a DEF vars, callerVars, Stop
<1>2. ASSUME NEW q, \/ StartRequest(q) \/ StartRejected(q) \/ StartAccepted(q) \/ TestStep(q)
                    \/ SweepRequest(q) \/ SweepAccepted(q) \/ SweepRequestFails(q)
      PROVE  FALSE
  BY <1>2, <1>a
     DEF StartRequest, StartRejected, StartAccepted, TestStep, TestBegins, TestRefused, TestEnds,
         SweepRequest, SweepAccepted, SweepRequestFails, Begin
<1>3. ASSUME NEW q \in Sweeps, SweepTaskStep(q) PROVE FALSE
  BY <1>3, <1>a
     DEF SweepTaskStep, SweepStarts, SweepStartsEmpty, SweepStep, SweepEnds, EndSweep, Begin, InRun
<1>4. ASSUME NEW q \in Callers, RequestStep(q) PROVE FALSE
  BY <1>4, <1>a DEF RequestStep, RequestSent, RequestEnds
<1>5. PICK q \in Callers : RunStep(q)
  BY <1>1, <1>2, <1>3, <1>4 DEF Next, Handler
<1>6. q = c
  BY <1>a, <1>5, RunStepMoves
<1>7. c \notin cancelled
  BY <1>5, <1>6, <1>a
     DEF RunStep, RunRecorded, PreflightPassed, PreflightFailed, Poll, Wake, Drain, RunRaises,
         FailRun, ResultSaved, RunReturns, CancelDelivered, TaskOver, Unwind, InRun
<1> QED BY <1>5, <1>6, <1>7 DEF Running

LEMMA RunsToldInvariant ==
  ASSUME Tuners = {}
  PROVE  Spec /\ []TestsApart => []RunsTold
<1>1. Init => RunsTold /\ TestReferred
  BY DEF Init, RunsTold, TestReferred, Running, InRun, Callers, Live
<1>2. TypeOK /\ TestsApart /\ TestsApart' /\ TestReferred /\ [Next]_vars => TestReferred'
  BY TestReferredStep
<1>3. TypeOK /\ SweepSlot /\ TestReferred /\ RunsTold /\ [Next]_vars => RunsTold'
  BY RunsToldStep
<1> QED BY <1>1, <1>2, <1>3, TypeCorrect, SweepsExclusive, PTL DEF Spec

\* A stopped engine leaves that status only for a new run, however many sweeps
\* are asked for, stopped and cancelled, and tests one after another.
THEOREM StoppedUntilRun ==
  ASSUME Tuners = {}
  PROVE  Spec /\ []TestsApart => StopSticks
<1>1. TypeOK /\ RunsTold /\ [Next]_vars =>
        [status = "stopped" => status' \in {"stopped", "running"}]_vars
  <2> SUFFICES ASSUME TypeOK, RunsTold, [Next]_vars, status = "stopped"
               PROVE  status' \in {"stopped", "running"}
    OBVIOUS
  <2>a. \A c \in Callers : ~Running(c)
    BY DEF RunsTold, Told
  <2>1. CASE UNCHANGED vars \/ Stop
    BY <2>1 DEF vars, engineVars, Stop
  <2>2. ASSUME NEW s, \/ SweepRequest(s) \/ SweepAccepted(s) \/ SweepRequestFails(s)
                      \/ StartRequest(s) \/ StartRejected(s) \/ StartAccepted(s)
                      \/ SweepTaskStep(s) \/ TestStep(s)
        PROVE  status' \in {"stopped", "running"}
    BY <2>2
       DEF SweepRequest, SweepAccepted, SweepRequestFails, StartRequest, StartRejected,
           StartAccepted, SweepTaskStep, SweepStarts, SweepStartsEmpty, SweepStep, SweepEnds,
           TestStep, TestBegins, TestRefused, TestEnds, Begin, engineVars
  <2>3. ASSUME NEW c \in Callers, RequestStep(c) PROVE status' = "stopped"
    BY <2>3 DEF RequestStep, RequestSent, RequestEnds, engineVars
  <2>4. ASSUME NEW c \in Callers, RunStep(c) PROVE status' = "stopped"
    <3>1. ~Running(c)
      BY <2>a
    <3> QED
      BY <2>4, <3>1
         DEF RunStep, RunRecorded, PreflightPassed, PreflightFailed, Poll, Wake, Drain, RunRaises,
             FailRun, ResultSaved, RunReturns, CancelDelivered, Unwind, Running, InRun, engineVars
  <2> QED BY <2>1, <2>2, <2>3, <2>4 DEF Next, Handler
<1> QED
  BY <1>1, TypeCorrect, RunsToldInvariant, PTL DEF Spec, StopSticks

\* A run that reports COMPLETED has sent all its requests and counted each of
\* them, whatever was stopped, aborted or raised before it, and whatever sweep
\* or cancelled test is beside it.
THEOREM CompletedRunsCounted ==
  ASSUME Tuners = {}
  PROVE  Spec /\ []TestsApart => CompletedCounted
<1> DEFINE Finished == \A c \in Callers :
             /\ pc[c] \in InRun /\ pc'[c] \in {"saving", "clearing"}
             /\ status' = "completed"
             => /\ \A r \in Requests : reqs'[c][r] \in {"success", "failure"}
                /\ {c} \X Requests \subseteq results'
<1>1. TypeOK /\ RunsTold /\ [Next]_vars => Finished
  <2> SUFFICES ASSUME TypeOK, RunsTold, [Next]_vars, NEW c \in Callers,
                      pc[c] \in InRun, pc'[c] \in {"saving", "clearing"}, status' = "completed"
               PROVE  /\ \A r \in Requests : reqs'[c][r] \in {"success", "failure"}
                      /\ {c} \X Requests \subseteq results'
    OBVIOUS
  <2>1. Running(c) /\ RunStep(c) /\ Told(c)
    BY OnlyRunsFinish DEF RunsTold
  <2> QED BY <2>1, ToldRunStep
<1> QED
  BY <1>1, TypeCorrect, RunsToldInvariant, PTL DEF Spec, CompletedCounted
=============================================================================

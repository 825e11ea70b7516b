------------------------ MODULE TunerSessionProofs ------------------------
(***************************************************************************)
(* Proofs about TunerSession for any number of sessions, stops, requests   *)
(* to apply, trials and targets, and every combination of faults: types,   *)
(* what sessions do to the CR, and what sessions that do not overlap do.   *)
(***************************************************************************)
EXTENDS TunerSession, CRReplaceProofs

(***************************************************************************)
(* Each step of the replacement within a session is one that CRReplace     *)
(* allows a caller whose task may be cancelled.                            *)
(***************************************************************************)

\* The steps of a call are steps of CRReplace.
LEMMA CallStepAllowed ==
  ASSUME NEW c \in Callers, CallStep(c)
  PROVE  Replaces!CallStep(c)
<1> USE DEF Fail, Leave, Goto, Reraise, Restore, Succeed, Answered, Deleted,
    Created, Body,
            Replaces!Fail, Replaces!Leave, Replaces!Goto, Replaces!Reraise, Replaces!Restore,
            Replaces!Succeed, Replaces!Answered, Replaces!Deleted, Replaces!Created, Replaces!Body
<1>1. Enter(c) => Replaces!Enter(c)
  BY DEF Enter, Replaces!Enter
<1>2. Get(c) => Replaces!Get(c)
  BY DEF Get, Replaces!Get
<1>3. Delete(c) => Replaces!Delete(c)
  BY DEF Delete, Replaces!Delete
<1>4. SeenGone(c) => Replaces!SeenGone(c)
  BY DEF SeenGone, Replaces!SeenGone
<1>5. WaitTimedOut(c) => Replaces!WaitTimedOut(c)
  BY DEF WaitTimedOut, Replaces!WaitTimedOut
<1>6. Create(c) => Replaces!Create(c)
  BY DEF Create, Replaces!Create
<1>7. Recreate(c) => Replaces!Recreate(c)
  BY DEF Recreate, Replaces!Recreate
<1>8. RestoreSeesGone(c) => Replaces!RestoreSeesGone(c)
  BY DEF RestoreSeesGone, Replaces!RestoreSeesGone
<1>9. RestoreTimedOut(c) => Replaces!RestoreTimedOut(c)
  BY DEF RestoreTimedOut, Replaces!RestoreTimedOut
<1>10. RestoreCreate(c) => Replaces!RestoreCreate(c)
  BY DEF RestoreCreate, Replaces!RestoreCreate
<1>11. WaitFails(c) => Replaces!WaitFails(c)
  BY DEF WaitFails, Replaces!WaitFails
<1> QED
  BY <1>1, <1>2, <1>3, <1>4, <1>5, <1>6, <1>7, <1>8, <1>9, <1>10, <1>11
     DEF CallStep, Replaces!CallStep

\* So is what a stop does to the call of the session it kills.
LEMMA InterruptAllowed ==
  ASSUME NEW c \in Callers, Interrupt(c)
  PROVE  Replaces!Cancel(c)
BY DEF Interrupt, InFlight, Restore, Leave, Goto,
       Replaces!Cancel, Replaces!Interrupt, Replaces!InFlight, Replaces!Restore,
       Replaces!Leave, Replaces!Goto

\* The rest of what happens in CRReplace does not depend on the faults.
LEMMA OthersAllowed ==
  /\ \A c \in Callers, s \in Specs : Apply(c, s) => Replaces!Apply(c, s)
  /\ \A c \in Callers : Rollback(c) => Replaces!Rollback(c)
  /\ \A r \in orphans : Orphaned(r) => Replaces!Orphaned(r)
  /\ \A t \in Targets : Gone(t) => Replaces!Gone(t)
  /\ \A t \in Targets : Retarget(t) => Replaces!Retarget(t)
BY DEF Apply, Rollback, Orphaned, Gone, Retarget, Deleted, Created, callVars,
       Replaces!Apply, Replaces!Rollback, Replaces!Orphaned, Replaces!Gone,
       Replaces!Retarget, Replaces!Deleted, Replaces!Created, Replaces!callVars

\* Where a session is in a trial: the trials evaluated so far are fewer than
\* those it was asked for.
Trialing == {"skipping", "applying", "failing", "booting", "logs", "rolling", "evaluating"}

\* The types of what TunerSession adds to CRReplace.
OwnTypes ==
  /\ running \in BOOLEAN /\ cancelEvent \in BOOLEAN
  /\ currentTask \in Sessions \cup {None} /\ best \in Bests \cup {None}
  /\ phase \in [Sessions -> SessionPhases] /\ ending \in [Sessions -> Endings]
  /\ want \in [Sessions -> Targets]
  /\ attempt \in [Sessions -> 0 .. Attempts] /\ evaluated \in [Sessions -> 0 .. Trials]
  /\ killed \subseteq Sessions /\ asked \subseteq Sessions
  /\ stopping \in [Stops -> {"idle", "waiting", "refused", "stopped"}]
  /\ waitsFor \in [Stops -> Sessions \cup {None}]
  /\ initializing \in Sessions \cup {None}
  /\ \A r \in Sessions : initializing = r <=> phase[r] \in {"pausing", "recording"}
  /\ \A r \in Sessions : phase[r] \in Trialing => evaluated[r] < Trials

SessionInv == ShapeInv /\ OwnTypes

LEMMA OwnTypesComplete == SessionInv => TypeOK
BY DEF SessionInv, OwnTypes, TypeOK, ShapeInv

\* The call a session is in is one of the callers of CRReplace.
LEMMA CallIsCaller ==
  ASSUME OwnTypes, NEW r \in Sessions
  PROVE  Call(r) \in Callers /\ <<r, 0>> \in Callers
<1>1. attempt[r] \in 0 .. Attempts /\ 0 \in 0 .. Attempts
  BY SessionAssumption DEF OwnTypes
<1> QED
  BY <1>1, SessionAssumption DEF Call, Calls

\* The head of the trial loop applies parameters or leaves the CR alone.
LEMMA GoOnApplies ==
  ASSUME OwnTypes, NEW r \in Sessions, NEW e, GoOn(r, e)
  PROVE  \/ \E c \in Callers, s \in Specs : Apply(c, s)
         \/ UNCHANGED replaceVars
<1>1. CASE UNCHANGED replaceVars
  BY <1>1
<1>2. CASE /\ attempt[r] < Attempts
           /\ \E s \in Specs \ {Original} : Apply(<<r, attempt[r] + 1>>, s)
  <2>1. attempt[r] + 1 \in 0 .. Attempts
    BY <1>2, SessionAssumption DEF OwnTypes
  <2>2. <<r, attempt[r] + 1>> \in Callers
    BY <2>1, SessionAssumption DEF Calls
  <2> QED
    BY <1>2, <2>2
<1> QED
  BY <1>1, <1>2 DEF GoOn

\* What a step of TunerSession does to the variables of CRReplace.
OnReplacement ==
  \/ UNCHANGED replaceVars
  \/ \E c \in Callers : (\E s \in Specs : Apply(c, s)) \/ Rollback(c)
  \/ \E c \in Callers : CallStep(c) \/ Interrupt(c)
  \/ \E q \in orphans : Orphaned(q)
  \/ \E t \in Targets : Gone(t) \/ Retarget(t)

LEMMA StepOnReplacement ==
  ASSUME OwnTypes, [Next]_vars
  PROVE  OnReplacement
<1>1. CASE UNCHANGED vars
  BY <1>1 DEF vars, OnReplacement
<1>2. CASE Replacement
  BY <1>2, SessionAssumption DEF Replacement, OnReplacement
<1>3. ASSUME NEW r \in Sessions, NEW t \in Targets, StartRequest(r, t) PROVE OnReplacement
  BY <1>3 DEF StartRequest, OnReplacement
<1>4. ASSUME NEW r \in Sessions, PinTarget(r) PROVE OnReplacement
  <2>1. want[r] \in Targets
    BY DEF OwnTypes
  <2> QED
    BY <1>4, <2>1 DEF PinTarget, OnReplacement
<1>5. ASSUME NEW r \in Sessions,
             \/ StartRejected(r) \/ StartAccepted(r) \/ StartRefused(r) \/ Pause(r)
             \/ Record(r) \/ Initialized(r) \/ StudySetupFails(r) \/ Applied(r)
             \/ ApplyFailed(r) \/ TuningFails(r) \/ Booted(r) \/ BestApplied(r)
             \/ Settled(r) \/ CallRaised(r) \/ Closed(r) \/ Killed(r)
      PROVE  OnReplacement
  BY <1>5 DEF StartRejected, StartAccepted, StartRefused, Pause, Record,
      Initialized,
              StudySetupFails, Applied, ApplyFailed, TuningFails, Booted, BestApplied,
              Settled, CallRaised, Closed, Killed, OnReplacement
<1>6. ASSUME NEW r \in Sessions,
             \/ FirstReady(r) \/ Skipped(r) \/ BootFailed(r) \/ RolledBack(r) \/ Evaluated(r)
      PROVE  OnReplacement
  <2>1. UNCHANGED replaceVars \/ \E e : GoOn(r, e)
    BY <1>6 DEF FirstReady, Skipped, BootFailed, RolledBack, Evaluated
  <2> QED
    BY <2>1, GoOnApplies DEF OnReplacement
<1>7. ASSUME NEW r \in Sessions, LogsRead(r) PROVE OnReplacement
  BY <1>7, CallIsCaller DEF LogsRead, OnReplacement
<1>8. ASSUME NEW r \in Sessions, Finalize(r) PROVE OnReplacement
  <2>1. best # None => best.spec \in Specs
    BY DEF OwnTypes, Bests
  <2> QED
    BY <1>8, <2>1, CallIsCaller DEF Finalize, OnReplacement
<1>9. ASSUME NEW s \in Stops, StopRefused(s) \/ StopRequest(s) \/ StopReturns(s)
      PROVE  OnReplacement
  BY <1>9 DEF StopRefused, StopRequest, StopReturns, OnReplacement
<1>10. ASSUME NEW s \in Stops, StopKills(s) PROVE OnReplacement
  BY <1>10, CallIsCaller DEF StopKills, OnReplacement
<1>11. ASSUME NEW b \in Appliers, ApplyBest(b) PROVE OnReplacement
  <2>1. best # None /\ best \in Bests /\ best.spec \in Specs
    BY <1>11 DEF ApplyBest, OwnTypes, Bests
  <2>2. <<b, 0>> \in Callers
    BY SessionAssumption DEF Calls
  <2> QED
    BY <1>11, <2>1, <2>2 DEF ApplyBest, OnReplacement
<1> QED
  BY <1>1, <1>2, <1>3, <1>4, <1>5, <1>6, <1>7, <1>8, <1>9, <1>10, <1>11
     DEF Next, SessionStep, StopStep

\* So it is a step of CRReplace, or the interruption of one of its calls.
LEMMA OnReplacementSteps ==
  ASSUME OnReplacement
  PROVE  ReplaceStep
BY DEF OnReplacement, ReplaceStep, ReplaceNext

\* And a step that CRReplace allows when calls may be cancelled.
LEMMA OnReplacementAllowed ==
  ASSUME OnReplacement
  PROVE  [Replaces!ReplaceNext]_replaceVars
<1>1. CASE UNCHANGED replaceVars
  BY <1>1
<1>2. ASSUME NEW c \in Callers, (\E s \in Specs : Apply(c, s)) \/ Rollback(c)
      PROVE  Replaces!ReplaceNext
  BY <1>2, OthersAllowed DEF Replaces!ReplaceNext
<1>3. ASSUME NEW c \in Callers, CallStep(c) \/ Interrupt(c) PROVE Replaces!ReplaceNext
  BY <1>3, CallStepAllowed, InterruptAllowed DEF Replaces!ReplaceNext
<1>4. ASSUME NEW q \in orphans, Orphaned(q) PROVE Replaces!ReplaceNext
  BY <1>4, OthersAllowed DEF Replaces!ReplaceNext
<1>5. ASSUME NEW t \in Targets, Gone(t) \/ Retarget(t) PROVE Replaces!ReplaceNext
  BY <1>5, OthersAllowed DEF Replaces!ReplaceNext
<1> QED
  BY <1>1, <1>2, <1>3, <1>4, <1>5 DEF OnReplacement

(***************************************************************************)
(* Types.                                                                  *)
(***************************************************************************)

\* The head of the loop: a new trial starts only while some are left.
LEMMA GoOnTypes ==
  ASSUME OwnTypes, NEW r \in Sessions, NEW e \in 0 .. Trials, GoOn(r, e),
         phase[r] \notin {"pausing", "recording"},
         best' \in Bests \cup {None},
         UNCHANGED <<running, cancelEvent, currentTask, initializing, want, killed, stopVars>>
  PROVE  OwnTypes'
<1>1. evaluated' = [evaluated EXCEPT ![r] = e]
  BY DEF GoOn
<1>2. CASE /\ attempt[r] < Attempts /\ e < Trials
           /\ \E to \in {"skipping", "applying"} : Move(r, to)
           /\ attempt' = [attempt EXCEPT ![r] = @ + 1]
           /\ UNCHANGED ending
  BY <1>1, <1>2, SessionAssumption
     DEF OwnTypes, Move, SessionPhases, Working, Trialing, stopVars
<1>3. CASE /\ \E to \in {"closing", "reporting"} : Move(r, to)
           /\ \E how \in Endings : ending' = [ending EXCEPT ![r] = how]
           /\ UNCHANGED attempt
  BY <1>1, <1>3 DEF OwnTypes, Move, SessionPhases, Working, Trialing, stopVars
<1>4. CASE /\ \E to \in {"closing", "reporting"} : Move(r, to)
           /\ UNCHANGED <<ending, attempt>>
  BY <1>1, <1>4 DEF OwnTypes, Move, SessionPhases, Working, Trialing, stopVars
<1> QED
  BY <1>2, <1>3, <1>4 DEF GoOn, Close, Endings

\* A step that moves one session outside its trials, and changes nothing else
\* that has a type of its own.
LEMMA MoveTypes ==
  ASSUME OwnTypes, NEW r \in Sessions, NEW to \in SessionPhases, Move(r, to),
         to \notin Trialing \/ evaluated[r] < Trials,
         ending' \in [Sessions -> Endings],
         running' \in BOOLEAN, cancelEvent' \in BOOLEAN,
         currentTask' \in Sessions \cup {None}, best' \in Bests \cup {None},
         initializing' \in Sessions \cup {None},
         \A q \in Sessions : initializing' = q <=> phase'[q] \in {"pausing", "recording"},
         UNCHANGED <<attempt, evaluated, want, killed, stopVars>>
  PROVE  OwnTypes'
BY DEF OwnTypes, Move, stopVars

LEMMA OwnTypesStep ==
  ASSUME SessionInv, [Next]_vars
  PROVE  OwnTypes'
<1> USE DEF SessionPhases, Working, Trialing, Endings
<1>a. OwnTypes /\ ReplaceTypeOK
  BY DEF SessionInv, ShapeInv
<1>b. ASSUME UNCHANGED sessionVars PROVE OwnTypes'
  BY <1>a, <1>b DEF OwnTypes, sessionVars, flags, progress, stopVars
<1>1. CASE UNCHANGED vars
  BY <1>1, <1>b DEF vars
<1>2. CASE Replacement
  BY <1>2, <1>b DEF Replacement
<1>3. ASSUME NEW r \in Sessions, NEW t \in Targets, StartRequest(r, t) PROVE OwnTypes'
  BY <1>3, <1>a DEF StartRequest, Move, OwnTypes, flags, stopVars
<1>4. ASSUME NEW r \in Sessions, PinTarget(r) \/ StartRejected(r) PROVE OwnTypes'
  BY <1>4, <1>a DEF PinTarget, StartRejected, Move, OwnTypes, flags, stopVars
<1>5. ASSUME NEW r \in Sessions, StartAccepted(r) \/ StartRefused(r) PROVE OwnTypes'
  BY <1>5, <1>a DEF StartAccepted, StartRefused, Move, OwnTypes, flags,
      stopVars
<1>6. ASSUME NEW r \in Sessions, Pause(r) \/ Record(r) PROVE OwnTypes'
  <2>1. PICK to \in {"pausing", "recording"} : Move(r, to)
    BY <1>6 DEF Pause, Record
  <2>2. initializing' = r /\ initializing \in {None, r}
    BY <1>6, <1>a DEF Pause, Record, OwnTypes
  <2>3. \A q \in Sessions : initializing' = q <=> phase'[q] \in {"pausing", "recording"}
    BY <2>1, <2>2, <1>a, SessionAssumption DEF Move, OwnTypes
  <2>4. running' \in BOOLEAN /\ cancelEvent' \in BOOLEAN
    BY <1>6, <1>a DEF Pause, Record, OwnTypes
  <2> QED
    BY <1>6, <1>a, <2>1, <2>2, <2>3, <2>4, MoveTypes DEF Pause, Record,
        OwnTypes
<1>7. ASSUME NEW r \in Sessions, Initialized(r) \/ StudySetupFails(r) PROVE OwnTypes'
  BY <1>7, <1>a, SessionAssumption DEF Initialized, StudySetupFails, Move,
      OwnTypes, stopVars
<1>8. ASSUME NEW r \in Sessions, FirstReady(r) PROVE OwnTypes'
  <2>1. CASE GoOn(r, 0)
    BY <1>8, <1>a, <2>1, GoOnTypes, SessionAssumption DEF FirstReady, flags,
        OwnTypes
  <2>2. CASE Close(r, "error") /\ UNCHANGED <<attempt, evaluated>>
    BY <1>8, <1>a, <2>2 DEF FirstReady, Close, Move, OwnTypes, flags, stopVars
  <2> QED
    BY <1>8, <2>1, <2>2 DEF FirstReady
<1>9. ASSUME NEW r \in Sessions, Skipped(r) PROVE OwnTypes'
  BY <1>9, <1>a, GoOnTypes DEF Skipped, flags, OwnTypes
<1>10. ASSUME NEW r \in Sessions, Applied(r) \/ ApplyFailed(r) \/ Booted(r) PROVE OwnTypes'
  <2>1. PICK to \in {"booting", "failing", "evaluating"} : Move(r, to)
    BY <1>10 DEF Applied, ApplyFailed, Booted
  <2>2. phase[r] \in {"applying", "booting"}
    BY <1>10 DEF Applied, ApplyFailed, Booted
  <2>3. cancelEvent' \in BOOLEAN
    BY <1>10, <1>a DEF Applied, ApplyFailed, Booted, OwnTypes, flags
  <2>4. \A q \in Sessions : initializing' = q <=> phase'[q] \in {"pausing", "recording"}
    BY <1>10, <1>a, <2>1, <2>2 DEF Applied, ApplyFailed, Booted, Move,
        OwnTypes, flags
  <2>5. UNCHANGED <<running, currentTask, initializing, best, attempt, evaluated, ending,
                    want, killed, stopVars>>
    BY <1>10 DEF Applied, ApplyFailed, Booted, flags
  <2>6. /\ running' \in BOOLEAN /\ best' \in Bests \cup {None} /\ ending' \in [Sessions -> Endings]
        /\ currentTask' \in Sessions \cup {None} /\ initializing' \in Sessions \cup {None}
    BY <1>a, <2>5 DEF OwnTypes
  <2>7. evaluated[r] < Trials
    BY <1>a, <2>2 DEF OwnTypes, Trialing
  <2> QED
    BY <1>a, <2>1, <2>3, <2>4, <2>5, <2>6, <2>7, MoveTypes
<1>11. ASSUME NEW r \in Sessions, TuningFails(r) PROVE OwnTypes'
  <2>1. phase[r] = "failing" /\ evaluated[r] + 1 \in 0 .. Trials
    BY <1>11, <1>a, SessionAssumption DEF TuningFails, OwnTypes
  <2>2. evaluated' \in [Sessions -> 0 .. Trials]
    BY <1>11, <1>a, <2>1 DEF TuningFails, OwnTypes
  <2>3. \A q \in Sessions : q # r => evaluated'[q] = evaluated[q]
    BY <1>11, <1>a DEF TuningFails, OwnTypes
  <2>4. PICK to \in {"closing", "reporting"} : Move(r, to)
    BY <1>11 DEF TuningFails, Close
  <2>5. ending' \in [Sessions -> Endings]
    BY <1>11, <1>a DEF TuningFails, Close, OwnTypes
  <2>6. /\ \A q \in Sessions : initializing' = q <=> phase'[q] \in {"pausing", "recording"}
        /\ \A q \in Sessions : phase'[q] \in Trialing => evaluated'[q] < Trials
        /\ phase' \in [Sessions -> SessionPhases]
    BY <1>11, <1>a, <2>1, <2>3, <2>4 DEF TuningFails, Move, OwnTypes
  <2> QED
    BY <1>11, <1>a, <2>2, <2>5, <2>6 DEF TuningFails, OwnTypes, stopVars
<1>12. ASSUME NEW r \in Sessions, BootFailed(r) PROVE OwnTypes'
  <2>1. phase[r] = "booting" /\ evaluated[r] + 1 \in 0 .. Trials
    BY <1>12, <1>a, SessionAssumption DEF BootFailed, OwnTypes
  <2>2. CASE GoOn(r, evaluated[r] + 1)
    BY <1>12, <1>a, <2>1, <2>2, GoOnTypes DEF BootFailed, flags, OwnTypes
  <2>3. CASE Move(r, "logs") /\ UNCHANGED <<attempt, evaluated, ending>>
    BY <1>12, <1>a, <2>1, <2>3 DEF BootFailed, Move, OwnTypes, flags, stopVars
  <2> QED
    BY <1>12, <2>2, <2>3 DEF BootFailed
<1>13. ASSUME NEW r \in Sessions, LogsRead(r) PROVE OwnTypes'
  BY <1>13, <1>a DEF LogsRead, Move, OwnTypes, flags, stopVars
<1>14. ASSUME NEW r \in Sessions, RolledBack(r) PROVE OwnTypes'
  <2>1. phase[r] = "rolling" /\ evaluated[r] + 1 \in 0 .. Trials
    BY <1>14, <1>a, SessionAssumption DEF RolledBack, OwnTypes
  <2> QED
    BY <1>14, <1>a, <2>1, GoOnTypes DEF RolledBack, flags, OwnTypes
<1>15. ASSUME NEW r \in Sessions, Evaluated(r) PROVE OwnTypes'
  <2>1. phase[r] = "evaluating" /\ evaluated[r] + 1 \in 0 .. Trials
    BY <1>15, <1>a, SessionAssumption DEF Evaluated, OwnTypes
  <2>2. arg[Call(r)].spec \in Specs
    BY <1>a, CallIsCaller DEF ReplaceTypeOK, Bodies
  <2>3. best' \in Bests \cup {None}
    BY <1>15, <1>a, <2>2 DEF Evaluated, OwnTypes, Bests
  <2> QED
    BY <1>15, <1>a, <2>1, <2>3, GoOnTypes DEF Evaluated
<1>16. ASSUME NEW r \in Sessions, Finalize(r) \/ BestApplied(r) \/ Settled(r) \/ CallRaised(r)
       PROVE  OwnTypes'
  <2>1. PICK to \in {"finalizing", "settling", "closing"} : Move(r, to)
    BY <1>16 DEF Finalize, BestApplied, Settled, CallRaised, Close
  <2>2. ending' \in [Sessions -> Endings]
    BY <1>16, <1>a DEF Finalize, BestApplied, Settled, CallRaised, Close,
        OwnTypes
  <2>3. phase[r] \notin {"pausing", "recording"}
    BY <1>16 DEF Finalize, BestApplied, Settled, CallRaised, InCall
  <2>4. UNCHANGED <<flags, attempt, evaluated, want, killed, stopVars>>
    BY <1>16 DEF Finalize, BestApplied, Settled, CallRaised
  <2>5. \A q \in Sessions : initializing' = q <=> phase'[q] \in {"pausing", "recording"}
    BY <1>a, <2>1, <2>3, <2>4 DEF Move, OwnTypes, flags
  <2> QED
    BY <1>a, <2>1, <2>2, <2>4, <2>5, MoveTypes DEF OwnTypes, flags
<1>17. ASSUME NEW r \in Sessions, Closed(r) PROVE OwnTypes'
  BY <1>17, <1>a DEF Closed, Move, OwnTypes, stopVars
<1>18. ASSUME NEW r \in Sessions, Killed(r) PROVE OwnTypes'
  <2>1. PICK to \in {"over", "closing"} : Move(r, to)
    BY <1>18 DEF Killed, Close
  <2>2. ending' \in [Sessions -> Endings]
    BY <1>18, <1>a DEF Killed, Close, OwnTypes
  <2>3. initializing' = (IF initializing = r THEN None ELSE initializing)
    BY <1>18, <1>a DEF Killed, OwnTypes
  <2>4. \A q \in Sessions : initializing' = q <=> phase'[q] \in {"pausing", "recording"}
    BY <2>1, <2>3, <1>a, SessionAssumption DEF Move, OwnTypes
  <2>5. UNCHANGED <<running, cancelEvent, currentTask, best, attempt, evaluated, want,
                    killed, stopVars>>
    BY <1>18 DEF Killed
  <2>6. /\ running' \in BOOLEAN /\ cancelEvent' \in BOOLEAN /\ best' \in Bests \cup {None}
        /\ currentTask' \in Sessions \cup {None} /\ initializing' \in Sessions \cup {None}
    BY <1>a, <2>3, <2>5 DEF OwnTypes
  <2> QED
    BY <1>a, <2>1, <2>2, <2>4, <2>5, <2>6, MoveTypes
<1>19. ASSUME NEW s \in Stops, StopRefused(s) \/ StopRequest(s) PROVE OwnTypes'
  <2>1. CASE StopRefused(s)
    BY <1>a, <2>1 DEF StopRefused, OwnTypes, flags, progress
  <2>2. CASE StopRequest(s)
    <3>1. waitsFor' \in [Stops -> Sessions \cup {None}]
      BY <1>a, <2>2 DEF StopRequest, OwnTypes
    <3>2. asked' \subseteq Sessions
      BY <1>a, <2>2 DEF StopRequest, OwnTypes
    <3>3. stopping' \in [Stops -> {"idle", "waiting", "refused", "stopped"}]
      BY <1>a, <2>2 DEF StopRequest, OwnTypes
    <3> QED
      BY <1>a, <2>2, <3>1, <3>2, <3>3 DEF StopRequest, OwnTypes, progress
  <2> QED
    BY <1>19, <2>1, <2>2
<1>20. ASSUME NEW s \in Stops, StopReturns(s) \/ StopKills(s) PROVE OwnTypes'
  <2>1. UNCHANGED <<running, cancelEvent, initializing, best, progress, want, waitsFor, asked>>
    BY <1>20 DEF StopReturns, StopKills, flags
  <2>2. currentTask' \in Sessions \cup {None}
    BY <1>20, <1>a DEF StopReturns, StopKills, OwnTypes, flags
  <2>3. killed' \subseteq Sessions
    BY <1>20, <1>a DEF StopReturns, StopKills, OwnTypes
  <2>4. stopping' = [stopping EXCEPT ![s] = "stopped"]
    BY <1>20 DEF StopReturns, StopKills
  <2> QED
    BY <1>a, <2>1, <2>2, <2>3, <2>4 DEF OwnTypes, progress
<1>21. ASSUME NEW b \in Appliers, ApplyBest(b) PROVE OwnTypes'
  BY <1>21, <1>b DEF ApplyBest
<1> QED
  BY <1>1, <1>2, <1>3, <1>4, <1>5, <1>6, <1>7, <1>8, <1>9, <1>10, <1>11, <1>12,
      <1>13,
     <1>14, <1>15, <1>16, <1>17, <1>18, <1>19, <1>20, <1>21 DEF Next, SessionStep, StopStep

(***************************************************************************)
(* The theorems.                                                           *)
(***************************************************************************)

LEMMA SessionInvInit == InitSession => SessionInv
<1> SUFFICES ASSUME InitSession PROVE SessionInv
  OBVIOUS
<1>1. ShapeInv
  BY ReplaceInitShape DEF InitSession
<1>2. target \in Targets
  BY <1>1 DEF ShapeInv, ReplaceTypeOK
<1>3. \A r \in Sessions : initializing # r
  BY SessionAssumption DEF InitSession
<1>4. /\ running \in BOOLEAN /\ cancelEvent \in BOOLEAN
      /\ currentTask \in Sessions \cup {None} /\ best \in Bests \cup {None}
      /\ killed \subseteq Sessions /\ asked \subseteq Sessions
      /\ initializing \in Sessions \cup {None}
  BY DEF InitSession
<1>5. phase \in [Sessions -> SessionPhases] /\ ending \in [Sessions -> Endings]
  BY DEF InitSession, SessionPhases, Endings
<1>6. /\ want \in [Sessions -> Targets]
      /\ attempt \in [Sessions -> 0 .. Attempts] /\ evaluated \in [Sessions -> 0 .. Trials]
  BY <1>2, SessionAssumption DEF InitSession
<1>7. /\ stopping \in [Stops -> {"idle", "waiting", "refused", "stopped"}]
      /\ waitsFor \in [Stops -> Sessions \cup {None}]
  BY DEF InitSession
<1>8. \A r \in Sessions : phase[r] \notin {"pausing", "recording"} \cup Trialing
  BY DEF InitSession, Trialing
<1>9. OwnTypes
  BY <1>3, <1>4, <1>5, <1>6, <1>7, <1>8 DEF OwnTypes
<1> QED
  BY <1>1, <1>9 DEF SessionInv

LEMMA SessionInvStep ==
  ASSUME SessionInv, [Next]_vars
  PROVE  SessionInv'
<1>1. OnReplacement
  BY StepOnReplacement DEF SessionInv
<1>2. ReplaceStep
  BY <1>1, OnReplacementSteps
<1>3. ShapeInv'
  BY <1>2, ReplaceShapeStep DEF SessionInv
<1>4. OwnTypes'
  BY OwnTypesStep
<1> QED
  BY <1>3, <1>4 DEF SessionInv

LEMMA SessionInvariant == Spec => []SessionInv
<1>1. SessionInv /\ [Next]_vars => SessionInv'
  BY SessionInvStep
<1> QED
  BY <1>1, SessionInvInit, PTL DEF Spec

\* Type correctness of AutoTuner and of the replacement under it: among others,
\* never more than n_trials trials are counted, MAX_ATTEMPTS_PER_TRIAL times
\* as many are asked for, and _lock is kept across a suspension exactly by the
\* session that is initialising.
THEOREM SessionTypeCorrect == Spec => []TypeOK
BY SessionInvariant, OwnTypesComplete, PTL

\* AutoTuner's trials, rollbacks, final apply, stops and POST /apply-best
\* replace the CR only as CRReplace lets its callers, whose tasks may be
\* cancelled.
THEOREM TunerReplacesCR == Spec => ReplacesCR
<1>1. InitSession => Replaces!ReplaceInit
  BY DEF InitSession, ReplaceInit, Replaces!ReplaceInit, Body, Replaces!Body
<1>2. SessionInv /\ [Next]_vars => [Replaces!ReplaceNext]_(Replaces!replaceVars)
  <2> SUFFICES ASSUME SessionInv, [Next]_vars
               PROVE  [Replaces!ReplaceNext]_(Replaces!replaceVars)
    OBVIOUS
  <2>1. [Replaces!ReplaceNext]_replaceVars
    BY StepOnReplacement, OnReplacementAllowed DEF SessionInv
  <2> QED
    BY <2>1 DEF replaceVars, callVars, Replaces!replaceVars, Replaces!callVars
<1> QED
  BY <1>1, <1>2, SessionInvariant, PTL DEF Spec, ReplacesCR,
      Replaces!ReplaceSpec

\* Whatever sessions, stops and requests to apply come together, a CR that is
\* missing is about to be recreated, or was lost to a fault that CRReplace
\* names.  Targets are in namespaces of their own, as in MissingCRsExplained.
THEOREM TunerMissingExplained ==
  ASSUME OneNamespace = FALSE
  PROVE  Spec => []MissingExplained
<1>1. InitSession => MissingInv
  BY MissingInit DEF InitSession
<1>2. SessionInv /\ MissingInv /\ [Next]_vars => MissingInv'
  <2> SUFFICES ASSUME SessionInv, MissingInv, [Next]_vars PROVE MissingInv'
    OBVIOUS
  <2>1. ReplaceStep
    BY StepOnReplacement, OnReplacementSteps DEF SessionInv
  <2> QED
    BY <2>1, MissingStep
<1>3. MissingInv => MissingExplained
  BY DEF MissingInv, AwayExplained, MissingExplained, Explains
<1> QED
  BY <1>1, <1>2, <1>3, SessionInvariant, PTL DEF Spec

(***************************************************************************)
(* Sessions that do not overlap: the next one is accepted when the last    *)
(* one is over, as the requests of one client are.                         *)
(***************************************************************************)

\* A session whose task has been created and is not over.
Busy(r) == phase[r] \notin {"idle", "saving", "checking", "rejected", "over"}
NoOverlap == \A r, q \in Sessions : Busy(r) /\ Busy(q) => r = q

\* What a session has done that reports completion.
Done(r) == evaluated[r] = Trials \/ attempt[r] = Attempts
Begun == Working \cup {"closing", "over"}

\* A session that goes on finds _running up or _cancel_event set, and the event
\* set after a failed apply or a stop.
SessionFlags(r) ==
  /\ Active(r) \/ phase[r] = "recording" => running \/ cancelEvent
  /\ phase[r] = "failing" => cancelEvent
  /\ phase[r] \in {"reporting", "finalizing", "settling"} \/ ending[r] = "complete" => Done(r)
  /\ ending[r] = "complete" => phase[r] \in {"closing", "over"}
  /\ r \in asked => phase[r] \in Begun /\ (Active(r) => cancelEvent)

FlagsInv == \A r \in Sessions : SessionFlags(r)

\* The flags of one session matter to no other.
LEMMA OneFlags ==
  ASSUME OwnTypes, FlagsInv, NoOverlap, NEW r \in Sessions, Busy(r),
         \A q \in Sessions \ {r} : /\ phase'[q] = phase[q] /\ ending'[q] = ending[q]
                                   /\ attempt'[q] = attempt[q] /\ evaluated'[q] = evaluated[q],
         asked' = asked, SessionFlags(r)'
  PROVE  FlagsInv'
<1>1. ASSUME NEW q \in Sessions \ {r} PROVE SessionFlags(q)'
  <2>1. SessionFlags(q) /\ ~Busy(q)
    BY DEF FlagsInv, NoOverlap
  <2> QED BY <2>1 DEF SessionFlags, Busy, Active, Working, Begun, Done
<1> QED BY <1>1 DEF FlagsInv

\* Nor does a step of a session that is not in its trials, or ends.
LEMMA GoOnFlags ==
  ASSUME OwnTypes, FlagsInv, NoOverlap, NEW r \in Sessions, NEW e \in 0 .. Trials, GoOn(r, e),
         Active(r), UNCHANGED <<running, cancelEvent, asked>>
  PROVE  FlagsInv' /\ (r \in asked => attempt' = attempt)
<1>0. SessionFlags(r) /\ Busy(r)
  BY DEF FlagsInv, Active, Busy, Working
<1>1. \A q \in Sessions \ {r} : /\ phase'[q] = phase[q] /\ ending'[q] = ending[q]
                                /\ attempt'[q] = attempt[q] /\ evaluated'[q] = evaluated[q]
  BY DEF GoOn, Move, Close, OwnTypes
<1>2. CASE attempt[r] < Attempts /\ e < Trials /\ ~cancelEvent /\ running
  <2>1. phase'[r] \in {"skipping", "applying"} /\ ending'[r] = ending[r] /\ r \notin asked
    BY <1>0, <1>2 DEF GoOn, Move, OwnTypes, SessionFlags
  <2>2. SessionFlags(r)'
    BY <1>0, <1>2, <2>1 DEF SessionFlags, Active, Working, Done, Begun
  <2> QED BY <1>0, <1>1, <2>1, <2>2, OneFlags
<1>3. CASE ~(attempt[r] < Attempts /\ e < Trials /\ ~cancelEvent /\ running)
  <2>1. /\ attempt' = attempt /\ evaluated'[r] = e
        /\ IF cancelEvent THEN phase'[r] = "closing" /\ ending'[r] = "stopped"
           ELSE phase'[r] = "reporting" /\ ending'[r] = ending[r]
    BY <1>3 DEF GoOn, Move, Close, OwnTypes
  <2>2. ~cancelEvent => e = Trials \/ attempt[r] = Attempts
    BY <1>0, <1>3, SessionAssumption DEF SessionFlags, OwnTypes
  <2>3. SessionFlags(r)'
    BY <1>0, <2>1, <2>2 DEF SessionFlags, Active, Working, Done, Begun
  <2> QED BY <1>0, <1>1, <2>1, <2>3, OneFlags
<1> QED BY <1>2, <1>3

LEMMA FlagsInvNext ==
  ASSUME OwnTypes, FlagsInv, NoOverlap, [Next]_vars
  PROVE  FlagsInv' /\ \A r \in asked : attempt'[r] = attempt[r]
<1> DEFINE Goal == FlagsInv' /\ \A r \in asked : attempt'[r] = attempt[r]
<1>a. \A r \in Sessions : SessionFlags(r)
  BY DEF FlagsInv
<1>b. asked \subseteq Sessions
  BY DEF OwnTypes
<1> USE DEF stopVars
<1>1. ASSUME UNCHANGED <<running, cancelEvent, phase, attempt, evaluated, ending, asked>>
      PROVE  Goal
  BY <1>1, <1>a DEF FlagsInv, SessionFlags, Active, Done
<1>2. CASE Replacement \/ (\E b \in Appliers : ApplyBest(b)) \/ UNCHANGED vars
  BY <1>1, <1>2 DEF Replacement, ApplyBest, vars, sessionVars, flags, progress
<1>3. ASSUME NEW r \in Sessions,
             \/ \E t \in Targets : StartRequest(r, t)
             \/ PinTarget(r) \/ StartRejected(r) \/ StartAccepted(r)
      PROVE  Goal
  <2>1. /\ UNCHANGED <<running, cancelEvent, attempt, evaluated, ending, asked>>
        /\ phase[r] \in {"idle", "saving", "checking"}
        /\ \E to \in {"saving", "checking", "rejected", "created"} : Move(r, to)
    BY <1>3 DEF StartRequest, PinTarget, StartRejected, StartAccepted, flags
  <2> QED BY <2>1, <1>a DEF FlagsInv, SessionFlags, Active, Working, Begun,
      Done, Move, OwnTypes
<1>4. ASSUME NEW r \in Sessions,
             \/ StartRefused(r) \/ Pause(r) \/ Record(r)
             \/ Initialized(r) \/ StudySetupFails(r)
      PROVE  Goal
  <2>1. /\ UNCHANGED <<attempt, evaluated, asked>>
        /\ phase[r] \in {"created", "pausing", "recording"}
        /\ \/ /\ Move(r, "over")
              /\ \E how \in {"refused", "error"} : ending' = [ending EXCEPT ![r] = how]
           \/ Move(r, "pausing") /\ UNCHANGED ending
           \/ Move(r, "recording") /\ running' /\ UNCHANGED ending
           \/ /\ Move(r, "ready") /\ phase[r] = "recording"
              /\ UNCHANGED <<running, cancelEvent, ending>>
    BY <1>4 DEF StartRefused, Pause, Record, Initialized, StudySetupFails,
        flags
  <2>2. Busy(r) /\ r \notin asked
    BY <1>a, <2>1 DEF Busy, SessionFlags, Begun, Working
  <2>3. SessionFlags(r)'
    BY <1>a, <2>1, <2>2 DEF SessionFlags, Active, Working, Begun, Done, Move,
        OwnTypes
  <2>4. \A q \in Sessions \ {r} : phase'[q] = phase[q] /\ ending'[q] = ending[q]
    BY <2>1 DEF Move, OwnTypes
  <2> QED BY <2>1, <2>2, <2>3, <2>4, OneFlags
<1>5. ASSUME NEW r \in Sessions,
             \/ FirstReady(r) \/ Skipped(r) \/ BootFailed(r) \/ RolledBack(r) \/ Evaluated(r)
      PROVE  Goal
  <2>1. /\ UNCHANGED <<running, cancelEvent, asked>> /\ Active(r)
        /\ \/ \E e \in 0 .. Trials : GoOn(r, e)
           \/ Close(r, "error") /\ UNCHANGED <<attempt, evaluated>>
           \/ Move(r, "logs") /\ UNCHANGED <<attempt, evaluated, ending>>
    <3>1. phase[r] \in Trialing => evaluated[r] \in 0 .. Trials /\ evaluated[r] + 1 \in 0 .. Trials
      BY SessionAssumption DEF OwnTypes
    <3> QED BY <1>5, <3>1, SessionAssumption
            DEF FirstReady, Skipped, BootFailed, RolledBack, Evaluated, flags,
                Active, Working, Trialing
  <2>2. CASE \E e \in 0 .. Trials : GoOn(r, e)
    <3>1. FlagsInv' /\ (r \in asked => attempt' = attempt)
      BY <2>1, <2>2, GoOnFlags
    <3>2. \A q \in Sessions \ {r} : attempt'[q] = attempt[q]
      BY <2>2 DEF GoOn, OwnTypes
    <3> QED BY <1>b, <3>1, <3>2
  <2>3. CASE /\ UNCHANGED <<attempt, evaluated>>
             /\ \/ Close(r, "error")
                \/ Move(r, "logs") /\ UNCHANGED ending
    <3>1. \A q \in Sessions \ {r} : phase'[q] = phase[q] /\ ending'[q] = ending[q]
      BY <2>3 DEF Close, Move, OwnTypes
    <3>2. SessionFlags(r)' /\ Busy(r)
      BY <1>a, <2>1, <2>3 DEF SessionFlags, Active, Working, Begun, Done, Busy,
          Close, Move, OwnTypes
    <3> QED BY <2>1, <2>3, <3>1, <3>2, OneFlags
  <2> QED BY <2>1, <2>2, <2>3
<1>6. ASSUME NEW r \in Sessions, Applied(r) \/ ApplyFailed(r) \/ Booted(r) \/ LogsRead(r)
      PROVE  Goal
  <2>1. /\ UNCHANGED <<running, attempt, evaluated, ending, asked>> /\ Active(r)
        /\ \/ UNCHANGED cancelEvent /\ \E to \in {"booting", "evaluating", "rolling"} : Move(r, to)
           \/ cancelEvent' /\ Move(r, "failing")
    BY <1>6 DEF Applied, ApplyFailed, Booted, LogsRead, flags, Active, Working
  <2>2. SessionFlags(r)' /\ Busy(r)
    BY <1>a, <2>1 DEF SessionFlags, Active, Working, Begun, Done, Busy, Move,
        OwnTypes
  <2>3. \A q \in Sessions \ {r} : phase'[q] = phase[q]
    BY <2>1 DEF Move, OwnTypes
  <2> QED BY <2>1, <2>2, <2>3, OneFlags
<1>7. ASSUME NEW r \in Sessions, TuningFails(r) PROVE Goal
  <2>1. phase[r] = "failing" /\ cancelEvent /\ Busy(r)
    BY <1>7, <1>a DEF TuningFails, SessionFlags, Busy
  <2>2. SessionFlags(r)'
    BY <1>7, <1>a, <2>1 DEF TuningFails, SessionFlags, Active, Working, Begun,
        Done, Close, Move, OwnTypes
  <2>3. \A q \in Sessions \ {r} : /\ phase'[q] = phase[q] /\ ending'[q] = ending[q]
                                  /\ evaluated'[q] = evaluated[q]
    BY <1>7 DEF TuningFails, Close, Move, OwnTypes
  <2> QED BY <1>7, <2>1, <2>2, <2>3, OneFlags DEF TuningFails
<1>8. ASSUME NEW r \in Sessions, Finalize(r) \/ BestApplied(r) \/ Settled(r) \/ CallRaised(r)
      PROVE  Goal
  <2>1. /\ UNCHANGED <<running, cancelEvent, attempt, evaluated, asked>> /\ Active(r)
        /\ \/ /\ phase[r] \in {"reporting", "finalizing", "settling"}
              /\ \/ Close(r, "complete")
                 \/ UNCHANGED ending /\ \E to \in {"finalizing", "settling"} : Move(r, to)
           \/ Close(r, "error")
    BY <1>8 DEF Finalize, BestApplied, Settled, CallRaised, InCall, flags,
        Active, Working
  <2>2. SessionFlags(r)' /\ Busy(r)
    BY <1>a, <2>1 DEF SessionFlags, Active, Working, Begun, Done, Busy, Close,
        Move, OwnTypes
  <2>3. \A q \in Sessions \ {r} : phase'[q] = phase[q] /\ ending'[q] = ending[q]
    BY <2>1 DEF Close, Move, OwnTypes
  <2> QED BY <2>1, <2>2, <2>3, OneFlags
<1>9. ASSUME NEW r \in Sessions, Closed(r) \/ Killed(r) PROVE Goal
  <2>1. /\ UNCHANGED <<attempt, evaluated, asked>>
        /\ \/ phase[r] = "closing" /\ Move(r, "over") /\ UNCHANGED ending
           \/ /\ phase[r] \in {"created", "pausing", "recording", "closing"} /\ Move(r, "over")
              /\ ending' = [ending EXCEPT ![r] = "killed"]
           \/ phase[r] \in Working /\ Close(r, "killed")
    BY <1>9 DEF Closed, Killed
  <2>2. SessionFlags(r)' /\ Busy(r)
    BY <1>a, <2>1 DEF SessionFlags, Active, Working, Begun, Done, Busy, Close,
        Move, OwnTypes
  <2>3. \A q \in Sessions \ {r} : phase'[q] = phase[q] /\ ending'[q] = ending[q]
    BY <2>1 DEF Close, Move, OwnTypes
  <2> QED BY <2>1, <2>2, <2>3, OneFlags
<1>10. ASSUME NEW s \in Stops, StopRequest(s) PROVE Goal
  BY <1>10, <1>a DEF StopRequest, progress, FlagsInv, SessionFlags, Active,
      Done, Begun
<1>11. ASSUME NEW s \in Stops, StopRefused(s) \/ StopReturns(s) \/ StopKills(s) PROVE Goal
  BY <1>1, <1>11 DEF StopRefused, StopReturns, StopKills, progress, flags
<1> QED
  BY <1>2, <1>3, <1>4, <1>5, <1>6, <1>7, <1>8, <1>9, <1>10, <1>11
     DEF Next, SessionStep, StopStep

LEMMA FlagsInvariant == Spec /\ []NoOverlap => []FlagsInv
<1>1. InitSession => FlagsInv
  BY DEF InitSession, FlagsInv, SessionFlags, Active, Working
<1>2. SessionInv /\ FlagsInv /\ NoOverlap /\ [Next]_vars => FlagsInv'
  BY FlagsInvNext DEF SessionInv
<1> QED BY <1>1, <1>2, SessionInvariant, PTL DEF Spec

\* A session that reports completion has evaluated its n_trials or run out of
\* attempts, when sessions do not overlap: the flags it reads are its own.
THEOREM CompletedSessionsRan == Spec /\ []NoOverlap => []CompleteRanTrials
<1>1. FlagsInv => CompleteRanTrials
  BY DEF FlagsInv, SessionFlags, Done, CompleteRanTrials
<1> QED BY <1>1, FlagsInvariant, PTL

\* A session that POST /stop was called on asks the study for no further trial,
\* when sessions do not overlap.
THEOREM StoppedSessionsStop == Spec /\ []NoOverlap => StoppedStops
<1>1. SessionInv /\ FlagsInv /\ NoOverlap /\ [Next]_vars
      => [\A r \in asked : attempt'[r] = attempt[r]]_vars
  BY FlagsInvNext DEF SessionInv
<1> QED BY <1>1, SessionInvariant, FlagsInvariant, PTL DEF Spec, StoppedStops

\* _running is up only for a session that resets it; the task that a stop waits
\* for, or has cancelled, is of a session that has come to its trials.
RunningInv ==
  /\ RunningMeansTuning
  /\ currentTask # None => phase[currentTask] \notin {"idle", "saving", "checking", "rejected"}
  /\ \A s \in Stops : waitsFor[s] # None => phase[waitsFor[s]] \in Begun
  /\ \A r \in killed : phase[r] \in Begun

\* A step that moves one session on, but not out of its trials, keeps who has
\* begun, and keeps _running explained.
LEMMA OnwardRunning ==
  ASSUME OwnTypes, RunningInv, NEW r \in Sessions, NEW to \in SessionPhases, Move(r, to),
         currentTask' \in {currentTask, None}, UNCHANGED <<waitsFor, killed>>,
         phase[r] \notin {"idle", "saving", "checking", "rejected"} =>
            to \notin {"idle", "saving", "checking", "rejected"},
         phase[r] \in Begun => to \in Begun,
         running' => /\ running \/ to \in Working \cup {"recording", "closing"}
                     /\ phase[r] \in Working \cup {"recording", "closing"} =>
                          to \in Working \cup {"recording", "closing"}
  PROVE  RunningInv'
<1>1. \A q \in Sessions : phase'[q] = IF q = r THEN to ELSE phase[q]
  BY DEF Move, OwnTypes
<1>2. RunningMeansTuning'
  BY <1>1 DEF RunningInv, RunningMeansTuning, Active
<1>3. currentTask' # None => phase'[currentTask'] \notin {"idle", "saving", "checking", "rejected"}
  BY <1>1 DEF RunningInv, OwnTypes
<1>4. \A s \in Stops : waitsFor'[s] # None => phase'[waitsFor'[s]] \in Begun
  BY <1>1 DEF RunningInv, OwnTypes
<1>5. \A q \in killed' : phase'[q] \in Begun
  BY <1>1 DEF RunningInv, OwnTypes
<1> QED BY <1>2, <1>3, <1>4, <1>5 DEF RunningInv

LEMMA RunningInvNext ==
  ASSUME StudyFails = FALSE, OwnTypes, RunningInv, NoOverlap, [Next]_vars
  PROVE  RunningInv'
<1> USE DEF stopVars
<1> DEFINE Before == {"idle", "saving", "checking", "rejected"}
           Up == Working \cup {"recording", "closing"}
<1>1. CASE UNCHANGED <<running, currentTask, phase, waitsFor, killed>>
  BY <1>1 DEF RunningInv, RunningMeansTuning, Active
<1>2. CASE Replacement \/ (\E b \in Appliers : ApplyBest(b)) \/ UNCHANGED vars
  BY <1>1, <1>2 DEF Replacement, ApplyBest, vars, sessionVars, flags, progress
<1>3. ASSUME NEW r \in Sessions,
             (\E t \in Targets : StartRequest(r, t)) \/ PinTarget(r) \/ StartRejected(r)
      PROVE  RunningInv'
  <2>1. /\ UNCHANGED <<running, currentTask, waitsFor, killed>> /\ phase[r] \in Before
        /\ \E to \in Before : Move(r, to)
    BY <1>3 DEF StartRequest, PinTarget, StartRejected, flags
  <2> QED BY <2>1, OnwardRunning DEF SessionPhases, Working, Begun
<1>4. ASSUME NEW r \in Sessions, StartAccepted(r) PROVE RunningInv'
  <2>1. /\ \A q \in Sessions : phase'[q] = IF q = r THEN "created" ELSE phase[q]
        /\ phase[r] = "checking" /\ currentTask' = r
        /\ UNCHANGED <<running, waitsFor, killed>>
    BY <1>4 DEF StartAccepted, Move, OwnTypes
  <2>2. RunningMeansTuning'
    BY <2>1 DEF RunningInv, RunningMeansTuning, Active, Working
  <2>3. \A s \in Stops : waitsFor'[s] # None => phase'[waitsFor'[s]] \in Begun
    BY <2>1 DEF RunningInv, OwnTypes, Begun, Working
  <2>4. \A q \in killed' : phase'[q] \in Begun
    BY <2>1 DEF RunningInv, OwnTypes, Begun, Working
  <2> QED BY <2>1, <2>2, <2>3, <2>4 DEF RunningInv
<1>5. ASSUME NEW r \in Sessions, StartRefused(r) \/ Pause(r) \/ Record(r) \/ Initialized(r)
      PROVE  RunningInv'
  <2>1. /\ UNCHANGED <<currentTask, waitsFor, killed>>
        /\ \/ /\ phase[r] = "created" /\ UNCHANGED running
              /\ Move(r, "over") \/ Move(r, "pausing")
           \/ phase[r] \in {"created", "pausing"} /\ Move(r, "recording")
           \/ phase[r] = "recording" /\ Move(r, "ready")
    BY <1>5 DEF StartRefused, Pause, Record, Initialized, flags
  <2> QED BY <2>1, OnwardRunning DEF SessionPhases, Working, Begun
<1>6. ASSUME NEW r \in Sessions,
             \/ FirstReady(r) \/ Skipped(r) \/ BootFailed(r) \/ RolledBack(r) \/ Evaluated(r)
             \/ Applied(r) \/ ApplyFailed(r) \/ TuningFails(r) \/ Booted(r) \/ LogsRead(r)
             \/ Finalize(r) \/ BestApplied(r) \/ Settled(r) \/ CallRaised(r)
      PROVE  RunningInv'
  <2>1. /\ UNCHANGED <<currentTask, waitsFor, killed>> /\ phase[r] \in Working
        /\ \E to \in Working \cup {"closing"} : Move(r, to)
        /\ running' => running
    BY <1>6 DEF FirstReady, Skipped, BootFailed, RolledBack, Evaluated,
        Applied, ApplyFailed,
                TuningFails, Booted, LogsRead, Finalize, BestApplied, Settled, CallRaised,
                GoOn, Close, InCall, flags, Working
  <2> QED BY <2>1, OnwardRunning DEF SessionPhases, Working, Begun
<1>7. ASSUME NEW r \in Sessions, Closed(r) PROVE RunningInv'
  <2>1. /\ currentTask' \in {currentTask, None} /\ UNCHANGED <<waitsFor, killed>>
        /\ phase[r] = "closing" /\ Move(r, "over") /\ ~running'
    BY <1>7 DEF Closed
  <2> QED BY <2>1, OnwardRunning DEF SessionPhases, Working, Begun
<1>8. ASSUME NEW r \in Sessions, Killed(r) PROVE RunningInv'
  <2>1. r \in killed /\ UNCHANGED <<running, currentTask, waitsFor, killed>>
    BY <1>8 DEF Killed
  <2>2. phase[r] \in Begun
    BY <2>1 DEF RunningInv
  <2>3. ~(phase[r] = "closing" /\ initializing # None)
    BY DEF NoOverlap, Busy, OwnTypes
  <2>4. phase[r] \in Working /\ Move(r, "closing")
    BY <1>8, <2>2, <2>3 DEF Killed, Close, Begun, Working
  <2> QED BY <2>1, <2>4, OnwardRunning DEF SessionPhases, Working, Begun
<1>9. ASSUME NEW s \in Stops, StopRequest(s) PROVE RunningInv'
  <2>1. /\ running /\ initializing = None /\ ~running'
        /\ waitsFor' = [waitsFor EXCEPT ![s] = currentTask]
        /\ UNCHANGED <<currentTask, phase, killed>>
    BY <1>9 DEF StopRequest, progress
  <2>2. PICK r \in Sessions : phase[r] \in Working \cup {"closing"}
    BY <2>1, SessionAssumption DEF RunningInv, RunningMeansTuning, Active,
        OwnTypes
  <2>3. currentTask # None => phase[currentTask] \in Begun
    BY <2>1, <2>2 DEF RunningInv, NoOverlap, Busy, Begun, Working, OwnTypes
  <2>4. \A p \in Stops : waitsFor'[p] # None => phase'[waitsFor'[p]] \in Begun
    BY <2>1, <2>3 DEF RunningInv, OwnTypes
  <2> QED BY <2>1, <2>4 DEF RunningInv, RunningMeansTuning
<1>10. ASSUME NEW s \in Stops, StopRefused(s) \/ StopReturns(s) PROVE RunningInv'
  <2>1. UNCHANGED <<running, phase, waitsFor, killed>> /\ currentTask' \in {currentTask, None}
    BY <1>10 DEF StopRefused, StopReturns, flags, progress
  <2> QED BY <2>1 DEF RunningInv, RunningMeansTuning, Active
<1>11. ASSUME NEW s \in Stops, StopKills(s) PROVE RunningInv'
  <2>1. /\ UNCHANGED <<running, currentTask, phase, waitsFor>>
        /\ \E r \in Sessions : waitsFor[s] = r /\ killed' = killed \cup {r}
    BY <1>11 DEF StopKills, flags, progress
  <2>2. \A r \in killed' : phase[r] \in Begun
    BY <2>1, SessionAssumption DEF RunningInv
  <2> QED BY <2>1, <2>2 DEF RunningInv, RunningMeansTuning, Active
<1>12. \A r \in Sessions : ~StudySetupFails(r)
  BY DEF StudySetupFails
<1> QED BY <1>2, <1>3, <1>4, <1>5, <1>6, <1>7, <1>8, <1>9, <1>10, <1>11, <1>12
        DEF Next, SessionStep, StopStep

\* _running is up only for a session that goes on or has still to reset it,
\* when sessions do not overlap and every study can be set up.  So a start is
\* refused only while something runs.
THEOREM RunningIsTuning ==
  ASSUME StudyFails = FALSE
  PROVE  Spec /\ []NoOverlap => []RunningMeansTuning
<1>1. InitSession => RunningInv
  BY DEF InitSession, RunningInv, RunningMeansTuning
<1>2. SessionInv /\ RunningInv /\ NoOverlap /\ [Next]_vars => RunningInv'
  BY RunningInvNext DEF SessionInv
<1>3. RunningInv => RunningMeansTuning
  BY DEF RunningInv
<1> QED BY <1>1, <1>2, <1>3, SessionInvariant, PTL DEF Spec

(***************************************************************************)
(* One session, with any number of POST /apply-best and POST /stop.        *)
(***************************************************************************)

OneSession == \A r, q \in Sessions : r = q

Final(r) == <<r, 0>>
Asker(b) == <<b, 0>>

\* Before its first trial the session has no best parameters to apply.
Early == {"idle", "saving", "checking", "created", "pausing", "recording"}

\* From its report on, the best parameters do not change.
Deploying(r) == op[Final(r)] # "none" \/ phase[r] \in {"reporting", "finalizing", "settling"}

\* POST /apply-best comes before the report only if a stop or a failed apply
\* has reset _running, and then there is no report.
AskersInv(r) ==
  /\ phase[r] \in Early => best = None /\ \A b \in Appliers : op[Asker(b)] = "none"
  /\ phase[r] \in Trialing \cup {"ready"} =>
       cancelEvent \/ \A b \in Appliers : op[Asker(b)] = "none"
  /\ \A b \in Appliers : op[Asker(b)] \in {"none", "apply"}
  /\ Deploying(r) => \A b \in Appliers :
       op[Asker(b)] # "none" => best # None /\ arg[Asker(b)].spec = best.spec

\* The call makes the best parameters, for this CR.
Making(c, t) == at[c] \in Past \cup {"getting"} => loc[c] = t /\ arg[c] = Body(t, best.spec)

FinalInv(r) ==
  /\ phase[r] \notin {"idle", "saving"} => target = want[r]
  /\ op[Final(r)] # "none" =>
       /\ phase[r] \in {"finalizing", "settling", "closing", "over"}
       /\ op[Final(r)] = "apply" /\ best # None /\ arg[Final(r)].spec = best.spec
  /\ Making(Final(r), want[r])

\* The session makes one call at a time, and a request of it goes on in a thread
\* only when it was killed, and then its final call does not succeed.
CallsInv(r) ==
  /\ \A k \in 0 .. Attempts : at[<<r, k>>] # "idle" => InCall(r) /\ Call(r) = <<r, k>>
  /\ orphans # {} => /\ r \in killed /\ at[Final(r)] \in {"idle", "restoring", "restore"}
                     /\ result[Final(r)] # "ok"

\* Once the final apply has succeeded, whoever replaces the CR makes the best
\* parameters, or puts them back.
DeployedInv(r) ==
  result[Final(r)] = "ok" =>
    /\ cr[want[r]].spec = best.spec
    /\ \A b \in Appliers : /\ Making(Asker(b), want[r])
                           /\ at[Asker(b)] \in Past => snapshot = Body(want[r], best.spec)

DeployInv == \A r \in Sessions : AskersInv(r) /\ FinalInv(r) /\ CallsInv(r) /\ DeployedInv(r)

LEMMA CallersApart ==
  ASSUME OwnTypes, NEW r \in Sessions
  PROVE  /\ Final(r) \in Callers /\ Call(r) \in Callers
         /\ \A k \in 0 .. Attempts : <<r, k>> \in Callers
         /\ \A b \in Appliers : Asker(b) \in Callers /\ \A k : Asker(b) # <<r, k>>
         /\ OneSession => \A c \in Callers : (\E b \in Appliers : c = Asker(b))
                                             \/ (\E k \in 0 .. Attempts : c = <<r, k>>)
<1>1. \A b \in Appliers : b # r
  BY SessionAssumption
<1> QED BY <1>1, CallIsCaller, SessionAssumption DEF Calls, Final, Asker,
    OneSession

\* A step of a call under way, as far as it matters here.
CallMoves(c) ==
  /\ at[c] # "idle" /\ UNCHANGED <<op, target, orphans>>
  /\ \A d \in Callers \ {c} : /\ at'[d] = at[d] /\ loc'[d] = loc[d]
                              /\ arg'[d] = arg[d] /\ result'[d] = result[d]

LEMMA CallStepMoves ==
  ASSUME ShapeInv, NEW c \in Callers, CallStep(c)
  PROVE  CallMoves(c)
<1> USE DEF Answered, Fail, Succeed, Leave, Goto, Reraise, Restore
<1>1. /\ at[c] # "idle" /\ UNCHANGED <<op, target, orphans>>
  BY DEF CallStep, Enter, Get, Delete, SeenGone, WaitTimedOut,
         WaitFails, Create, Recreate, RestoreSeesGone, RestoreTimedOut, RestoreCreate
<1>2. \A d \in Callers \ {c} : at'[d] = at[d] /\ loc'[d] = loc[d] /\ result'[d] = result[d]
  BY DEF CallStep, Enter, Get, Delete, SeenGone, WaitTimedOut,
         WaitFails, Create, Recreate, RestoreSeesGone, RestoreTimedOut,
         RestoreCreate, ShapeInv, ReplaceTypeOK
<1>3. \A d \in Callers \ {c} : arg'[d] = arg[d]
  BY DEF CallStep, Enter, Get, Delete, SeenGone, WaitTimedOut,
         WaitFails, Create, Recreate, RestoreSeesGone, RestoreTimedOut,
         RestoreCreate, ShapeInv, ReplaceTypeOK
<1> QED BY <1>1, <1>2, <1>3 DEF CallMoves

\* An apply of the best parameters goes on making them, for the target.
LEMMA MakingStep ==
  ASSUME ShapeInv, NEW c \in Callers, CallStep(c), op[c] = "apply", arg[c].spec = best.spec,
         Making(c, target), best' = best
  PROVE  /\ Making(c, target)' /\ arg'[c].spec = best'.spec
         /\ at[c] \in {"restoring", "restore"} => at'[c] \in {"idle", "restore"}
         /\ result'[c] = "ok" => at[c] = "creating" /\ cr'[target].spec = best.spec
<1>a. /\ at \in [Callers -> Places] /\ loc \in [Callers -> Targets] /\ arg \in [Callers -> Bodies]
      /\ result \in [Callers -> {"none", "ok", "failed", "raised"}] /\ cr \in Clusters
      /\ target \in Targets
      /\ result[c] # "none" => at[c] = "idle"
  BY DEF ShapeInv, ReplaceTypeOK, CallShape, Clusters
<1> USE DEF Making, Past
<1>1. CASE Enter(c)
  <2>1. arg'[c] = [arg[c] EXCEPT !.target = target] /\ loc'[c] = target /\ at'[c] = "getting"
    BY <1>a, <1>1 DEF Enter
  <2>2. arg'[c] = Body(target, best.spec)
    BY <1>a, <2>1 DEF Body, Bodies
  <2> QED BY <1>1, <1>a, <2>1, <2>2 DEF Enter, Body
<1>2. CASE Create(c)
  <2>1. /\ at[c] = "creating" /\ UNCHANGED <<target, loc, arg>> /\ arg[c] = Body(target, best.spec)
        /\ result[c] = "none"
    BY <1>a, <1>2 DEF Create, Places
  <2>2. /\ at'[c] \in {"idle", "recreating"}
        /\ \/ result'[c] # "ok"
           \/ Created(loc[c], arg[c]) # None /\ cr' = Created(loc[c], arg[c])
    BY <1>a, <1>2, <2>1 DEF Create, Answered, Succeed, Goto, Fail, Leave
  <2>3. ASSUME Created(loc[c], arg[c]) # None, cr' = Created(loc[c], arg[c])
        PROVE  cr'[target].spec = best.spec
    <3>1. arg[c].target = target /\ arg[c].spec = best.spec
      BY <2>1 DEF Body
    <3> QED BY <2>3, <3>1, <1>a DEF Created, Clusters
  <2> QED BY <2>1, <2>2, <2>3 DEF Places
<1>3. CASE \/ Get(c) \/ Delete(c) \/ SeenGone(c) \/ Recreate(c)
           \/ RestoreSeesGone(c) \/ RestoreTimedOut(c) \/ RestoreCreate(c) \/ WaitFails(c)
  <2>1. /\ UNCHANGED <<target, loc, arg>> /\ at[c] \notin {"idle", "queued"} /\ result'[c] # "ok"
        /\ at[c] \in {"restoring", "restore"} => at'[c] \in {"idle", "restore"}
    BY <1>3, <1>a DEF Get, Delete, SeenGone, Recreate, RestoreSeesGone,
                      RestoreTimedOut, RestoreCreate, WaitFails, Answered,
                      Fail, Leave, Goto, Reraise
  <2> QED BY <2>1, <1>a DEF Places
<1>4. CASE WaitTimedOut(c)
  <2>1. /\ UNCHANGED <<target, arg>> /\ at[c] = "waiting" /\ result'[c] # "ok"
        /\ loc'[c] = target
    BY <1>4, <1>a DEF WaitTimedOut, Restore, Goto
  <2> QED BY <2>1, <1>a DEF Places
<1> QED BY <1>1, <1>2, <1>3, <1>4 DEF CallStep

\* Where the best parameters are noted for the target, such an apply keeps them.
LEMMA KeepingStep ==
  ASSUME ShapeInv, NEW c \in Callers, CallStep(c), op[c] = "apply", Making(c, target),
         cr[target].spec = best.spec,
         at[c] \in Past => snapshot = Body(target, best.spec)
  PROVE  /\ cr'[target].spec = best.spec
         /\ at'[c] \in Past => snapshot' = Body(target, best.spec)
<1>a. /\ at \in [Callers -> Places] /\ cr \in Clusters /\ target \in Targets
      /\ loc \in [Callers -> Targets]
  BY DEF ShapeInv, ReplaceTypeOK, Clusters
<1> USE DEF Past
<1>b. ASSUME NEW b \in Bodies, b = Body(target, best.spec), NEW t \in Targets, Created(t, b) # None
      PROVE  Created(t, b)[target].spec = best.spec
  BY <1>a, <1>b DEF Created, Clusters, Body
<1>c. Body(target, cr[target].spec) \in Bodies
  BY <1>a DEF Body, Bodies, Clusters
<1>1. CASE Enter(c)
  BY <1>1, <1>a DEF Enter
<1>2. CASE Get(c)
  BY <1>2, <1>a DEF Get, Fail, Leave, Goto, Making
<1>3. CASE Delete(c)
  <2>1. \A t \in Targets : Deleted(t) # None => Deleted(t)[target].spec = cr[target].spec
    BY <1>a DEF Deleted, Clusters
  <2> QED BY <1>3, <1>a, <2>1 DEF Delete, Answered
<1>4. CASE \/ SeenGone(c) \/ WaitTimedOut(c) \/ WaitFails(c)
           \/ RestoreSeesGone(c) \/ RestoreTimedOut(c)
  BY <1>4, <1>a DEF SeenGone, WaitTimedOut, WaitFails, RestoreSeesGone, RestoreTimedOut
<1>5. CASE Create(c)
  <2>1. at[c] = "creating" /\ arg[c] = Body(target, best.spec) /\ snapshot' = snapshot
    BY <1>5, <1>a DEF Create, Making, Places
  <2> QED BY <1>5, <1>a, <1>b, <1>c, <2>1 DEF Create, Answered, Places
<1>6. CASE Recreate(c) \/ RestoreCreate(c)
  <2>1. /\ at[c] \in {"recreating", "restore"}
        /\ snapshot = Body(target, best.spec) /\ snapshot' = snapshot
    BY <1>6, <1>a DEF Recreate, RestoreCreate, Places
  <2> QED BY <1>6, <1>a, <1>b, <1>c, <2>1 DEF Recreate, RestoreCreate,
      Answered, Places
<1> QED BY <1>1, <1>2, <1>3, <1>4, <1>5, <1>6 DEF CallStep

\* A call under way keeps what it is to create.
LEMMA ApplyArg ==
  ASSUME ShapeInv, NEW c \in Callers, CallStep(c), op[c] = "apply"
  PROVE  arg'[c].spec = arg[c].spec
<1>1. CASE Enter(c)
  <2>1. arg[c] \in Bodies /\ arg'[c] = [arg[c] EXCEPT !.target = target]
    BY <1>1 DEF Enter, ShapeInv, ReplaceTypeOK
  <2> QED BY <2>1 DEF Bodies
<1>2. CASE ~Enter(c)
  BY <1>2 DEF CallStep, Get, Delete, SeenGone, WaitTimedOut, WaitFails, Create,
              Recreate, RestoreSeesGone, RestoreTimedOut, RestoreCreate
<1> QED BY <1>1, <1>2

\* A step of a call.
LEMMA CallStepDeploys ==
  ASSUME OneSession, SessionInv, DeployInv, NEW c \in Callers, CallStep(c), UNCHANGED sessionVars
  PROVE  DeployInv'
<1>a. ShapeInv /\ OwnTypes
  BY DEF SessionInv
<1>b. UNCHANGED <<phase, best, want, attempt, killed, cancelEvent>>
  BY DEF sessionVars, flags, progress
<1> SUFFICES ASSUME NEW r \in Sessions
             PROVE  AskersInv(r)' /\ FinalInv(r)' /\ CallsInv(r)' /\ DeployedInv(r)'
  BY DEF DeployInv
<1>c. AskersInv(r) /\ FinalInv(r) /\ CallsInv(r) /\ DeployedInv(r)
  BY DEF DeployInv
<1>d. CallMoves(c)
  BY <1>a, CallStepMoves
<1>e. /\ Final(r) \in Callers /\ \A k \in 0 .. Attempts : <<r, k>> \in Callers
      /\ \A b \in Appliers : Asker(b) \in Callers /\ Asker(b) # Final(r)
  BY <1>a, CallersApart DEF Final
<1>f. \A d \in Callers : op[d] = "apply" => arg'[d].spec = arg[d].spec
  BY <1>a, <1>d, ApplyArg DEF CallMoves
<1>g. op[Final(r)] # "none" => target = want[r]
  BY <1>c DEF FinalInv
<1>1. AskersInv(r)'
  <2>1. UNCHANGED op
    BY <1>d DEF CallMoves
  <2>2. \A b \in Appliers : op[Asker(b)] # "none" => arg'[Asker(b)].spec = arg[Asker(b)].spec
    BY <1>c, <1>e, <1>f DEF AskersInv
  <2> QED BY <1>b, <1>c, <2>1, <2>2 DEF AskersInv, Deploying, Final, Asker
<1>2. FinalInv(r)'
  <2>1. Making(Final(r), want[r])'
    <3>1. CASE c = Final(r)
      <4>1. op[c] # "none"
        BY <1>a, <1>d DEF CallMoves, ShapeInv, CallShape
      <4> QED BY <1>a, <1>b, <1>c, <1>d, <1>g, <3>1, <4>1, MakingStep DEF
          FinalInv, Making, CallMoves
    <3>2. CASE c # Final(r)
      BY <1>b, <1>c, <1>d, <1>e, <3>2 DEF FinalInv, Making, CallMoves, Final
    <3> QED BY <3>1, <3>2
  <2> QED BY <1>b, <1>c, <1>d, <1>e, <1>f, <2>1 DEF FinalInv, CallMoves, Final
<1>3. CallsInv(r)'
  <2>1. \A k \in 0 .. Attempts : at'[<<r, k>>] # "idle" => at[<<r, k>>] # "idle"
    BY <1>d, <1>e DEF CallMoves
  <2>2. \A k \in 0 .. Attempts : at'[<<r, k>>] # "idle" => InCall(r)' /\ Call(r)' = <<r, k>>
    BY <1>b, <1>c, <2>1 DEF CallsInv, InCall, Call
  <2>3. CASE c = Final(r)
    <3>1. op[c] # "none"
      BY <1>a, <1>d DEF CallMoves, ShapeInv, CallShape
    <3>2. /\ at[c] \in {"restoring", "restore"} => at'[c] \in {"idle", "restore"}
          /\ result'[c] = "ok" => at[c] = "creating"
      BY <1>a, <1>b, <1>c, <1>g, <2>3, <3>1, MakingStep DEF FinalInv
    <3> QED BY <1>b, <1>c, <1>d, <2>2, <2>3, <3>2 DEF CallsInv, CallMoves,
        Final
  <2>4. CASE c # Final(r)
    BY <1>b, <1>c, <1>d, <1>e, <2>2, <2>4 DEF CallsInv, CallMoves, Final
  <2> QED BY <2>3, <2>4
<1>4. DeployedInv(r)'
  <2> SUFFICES ASSUME result'[Final(r)] = "ok" PROVE DeployedInv(r)'
    BY DEF DeployedInv, Final
  <2>1. \A d \in Callers \ {c} : at'[d] \notin Past \cup {"getting"}
    BY <1>a, <1>d, OneHolds DEF CallMoves, Past
  <2>2. CASE c = Final(r)
    <3>1. op[c] # "none"
      BY <1>a, <1>d DEF CallMoves, ShapeInv, CallShape
    <3>2. cr'[want'[r]].spec = best'.spec
      BY <1>a, <1>b, <1>c, <1>g, <2>2, <3>1, MakingStep DEF FinalInv
    <3> QED BY <1>e, <2>1, <2>2, <3>2 DEF DeployedInv, Making, Final, Asker
  <2>3. CASE c # Final(r)
    <3>1. result[Final(r)] = "ok" /\ op[Final(r)] # "none" /\ at[Final(r)] = "idle"
      BY <1>a, <1>d, <1>e, <2>3 DEF CallMoves, ShapeInv, CallShape, Final
    <3>2. PICK b \in Appliers : c = Asker(b)
      <4>1. ASSUME NEW k \in 0 .. Attempts, c = <<r, k>> PROVE FALSE
        <5>1. InCall(r) /\ Call(r) = <<r, k>> /\ phase[r] = "finalizing"
          BY <1>c, <1>d, <3>1, <4>1 DEF CallsInv, FinalInv, CallMoves, InCall
        <5> QED BY <2>3, <4>1, <5>1 DEF Call, Final
      <4> QED BY <1>a, <4>1, CallersApart
    <3>3. op[c] = "apply" /\ arg[c].spec = best.spec
      <4>1. op[c] # "none"
        BY <1>a, <1>d DEF CallMoves, ShapeInv, CallShape
      <4> QED BY <1>c, <3>1, <3>2, <4>1 DEF AskersInv, Deploying
    <3>4. /\ cr[target].spec = best.spec /\ Making(c, target)
          /\ at[c] \in Past => snapshot = Body(target, best.spec)
      BY <1>c, <1>g, <3>1, <3>2 DEF DeployedInv
    <3>5. /\ Making(c, target)' /\ cr'[target].spec = best.spec
          /\ at'[c] \in Past => snapshot' = Body(target, best.spec)
      BY <1>a, <1>b, <3>3, <3>4, MakingStep, KeepingStep
    <3>6. target' = target /\ target = want'[r]
      BY <1>b, <1>d, <1>g, <3>1 DEF CallMoves
    <3>7. \A a \in Appliers : Asker(a) # c => at'[Asker(a)] \notin Past \cup {"getting"}
      BY <1>e, <2>1
    <3> QED BY <1>b, <3>5, <3>6, <3>7 DEF DeployedInv, Making, Asker
  <2> QED BY <2>2, <2>3
<1> QED BY <1>1, <1>2, <1>3, <1>4

\* A step of the cluster, or of a request that goes on in a thread.
LEMMA ClusterDeploys ==
  ASSUME SessionInv, DeployInv, UNCHANGED sessionVars,
         (\E q \in orphans : Orphaned(q)) \/ (\E t \in Targets : Gone(t))
  PROVE  DeployInv'
<1>1. /\ UNCHANGED <<phase, best, want, attempt, killed, cancelEvent>>
      /\ UNCHANGED <<target, snapshot, op, at, loc, arg, result>> /\ orphans' \subseteq orphans
  BY DEF sessionVars, flags, progress, Orphaned, Gone, callVars
<1>2. orphans = {} => \A t \in Targets : cr'[t].spec = cr[t].spec
  BY DEF Gone, SessionInv, ShapeInv, ReplaceTypeOK
<1>3. want \in [Sessions -> Targets]
  BY DEF SessionInv, OwnTypes
<1>4. ASSUME NEW r \in Sessions
      PROVE  AskersInv(r)' /\ FinalInv(r)' /\ CallsInv(r)' /\ DeployedInv(r)'
  <2>1. AskersInv(r) /\ FinalInv(r) /\ CallsInv(r) /\ DeployedInv(r)
    BY DEF DeployInv
  <2>2. AskersInv(r)' /\ FinalInv(r)' /\ CallsInv(r)'
    BY <1>1, <2>1 DEF AskersInv, FinalInv, CallsInv, Deploying, Making, InCall,
        Call, Final, Asker
  <2>3. DeployedInv(r)'
    BY <1>1, <1>2, <1>3, <2>1 DEF DeployedInv, CallsInv, Making, Final, Asker
  <2> QED BY <2>2, <2>3
<1> QED BY <1>4 DEF DeployInv

Deploys(r) == AskersInv(r) /\ FinalInv(r) /\ CallsInv(r) /\ DeployedInv(r)

\* A session's call that has an outcome, or has not been made, is nowhere.
LEMMA CallOver ==
  ASSUME ShapeInv, OwnTypes, NEW r \in Sessions, Deploys(r),
         \/ ~InCall(r) \/ result[Call(r)] # "none" \/ at[Call(r)] = "idle"
  PROVE  \A k \in 0 .. Attempts : at[<<r, k>>] = "idle"
BY CallersApart DEF Deploys, CallsInv, ShapeInv, CallShape

\* Before the final apply has been asked for it has no outcome.
LEMMA FinalAhead ==
  ASSUME ShapeInv, OwnTypes, NEW r \in Sessions, FinalInv(r),
         phase[r] \notin {"finalizing", "settling", "closing", "over"}
  PROVE  /\ op[Final(r)] = "none" /\ at[Final(r)] = "idle" /\ result[Final(r)] = "none"
BY CallersApart DEF FinalInv, ShapeInv, CallShape

\* The steps of the start of a session.
LEMMA StartDeploys ==
  ASSUME ShapeInv, OwnTypes, NEW r \in Sessions, Deploys(r),
         \/ \E t \in Targets : StartRequest(r, t)
         \/ PinTarget(r) \/ StartRejected(r) \/ StartAccepted(r)
         \/ StartRefused(r) \/ Pause(r) \/ Record(r) \/ Initialized(r) \/ StudySetupFails(r)
  PROVE  Deploys(r)'
<1>1. /\ op[Final(r)] = "none" /\ at[Final(r)] = "idle" /\ result[Final(r)] = "none"
      /\ \A k \in 0 .. Attempts : at[<<r, k>>] = "idle"
      /\ phase[r] \in Early
  <2>1. phase[r] \in Early
    BY DEF StartRequest, PinTarget, StartRejected, StartAccepted,
           StartRefused, Pause, Record, Initialized, StudySetupFails, Early
  <2> QED BY <2>1, FinalAhead, CallOver DEF Early, InCall, Deploys
<1>2. /\ UNCHANGED <<op, at, loc, arg, result, orphans, killed>> /\ best' \in {best, None}
      /\ \/ /\ Move(r, "saving") /\ phase[r] = "idle"
         \/ /\ Move(r, "checking") /\ target' = want[r] /\ want' = want
         \/ /\ phase[r] \notin {"idle", "saving"} /\ UNCHANGED <<target, want>>
            /\ \E to \in {"rejected", "created", "over", "pausing", "recording", "ready"} :
                 Move(r, to)
  BY DEF StartRequest, PinTarget, StartRejected, StartAccepted, StartRefused,
      Pause, Record,
         Initialized, StudySetupFails, replaceVars, callVars, flags, Retarget
<1>3. AskersInv(r)'
  BY <1>1, <1>2 DEF Deploys, AskersInv, Deploying, Early, Trialing, Move,
      OwnTypes, Final, Asker
<1>4. FinalInv(r)'
  BY <1>1, <1>2 DEF Deploys, FinalInv, Making, Move, OwnTypes, Final, Past
<1>5. CallsInv(r)' /\ DeployedInv(r)'
  BY <1>1, <1>2 DEF Deploys, CallsInv, DeployedInv, Final
<1> QED BY <1>3, <1>4, <1>5 DEF Deploys

\* The head of the loop: a trial is applied only while nothing was asked, and
\* a session that comes to its report has not been stopped.
LEMMA GoOnDeploys ==
  ASSUME ShapeInv, OwnTypes, NEW r \in Sessions, Deploys(r), NEW e, GoOn(r, e),
         phase[r] \in Trialing \cup {"ready"},
         \A k \in 0 .. Attempts : at[<<r, k>>] = "idle",
         r \notin killed, UNCHANGED <<cancelEvent, want, killed>>
  PROVE  Deploys(r)'
<1>1. op[Final(r)] = "none" /\ at[Final(r)] = "idle" /\ result[Final(r)] = "none"
  BY FinalAhead DEF Trialing, Deploys
<1>2. orphans = {} /\ target = want[r]
  BY DEF Deploys, CallsInv, FinalInv, Trialing
<1>3. Final(r) \in Callers /\ (\A k \in 0 .. Attempts : <<r, k>> \in Callers)
      /\ \A b \in Appliers : Asker(b) \in Callers /\ \A k : Asker(b) # <<r, k>>
  BY CallersApart
<1>4. CASE /\ attempt[r] < Attempts /\ attempt' = [attempt EXCEPT ![r] = @ + 1]
           /\ Move(r, "applying")
           /\ \E s \in Specs : Apply(<<r, attempt[r] + 1>>, s)
  <2> DEFINE k == attempt[r] + 1
             c == <<r, k>>
  <2>1. k \in 1 .. Attempts /\ c # Final(r) /\ c \in Callers
    BY <1>3, <1>4, SessionAssumption DEF OwnTypes, Final
  <2>2. /\ UNCHANGED <<target, orphans, result>>
        /\ \A d \in Callers \ {c} : op'[d] = op[d] /\ at'[d] = at[d] /\ arg'[d] = arg[d]
        /\ op' = [op EXCEPT ![c] = "apply"]
    BY <1>4, <2>1 DEF Apply, ShapeInv, ReplaceTypeOK
  <2>3. phase'[r] = "applying" /\ Call(r)' = c /\ InCall(r)'
    BY <1>4, <2>1, SessionAssumption DEF Move, OwnTypes, Call, InCall
  <2> HIDE DEF k, c
  <2>4. \A b \in Appliers : op'[Asker(b)] = op[Asker(b)]
    BY <1>3, <2>1, <2>2 DEF c
  <2>5. AskersInv(r)'
    BY <1>1, <1>3, <2>1, <2>2, <2>3, <2>4
       DEF Deploys, AskersInv, Deploying, Early, Trialing, Final, Asker
  <2>6. FinalInv(r)'
    BY <1>1, <1>2, <1>3, <2>1, <2>2, <2>3 DEF FinalInv, Making, Final, Past
  <2>7. \A j \in 0 .. Attempts : at'[<<r, j>>] # "idle" => <<r, j>> = c
    BY <1>3, <2>2
  <2>8. CallsInv(r)'
    BY <1>2, <2>2, <2>3, <2>7 DEF CallsInv
  <2> QED BY <1>1, <2>2, <2>5, <2>6, <2>8 DEF Deploys, DeployedInv, Final
<1>5. CASE UNCHANGED replaceVars /\ \E to \in {"skipping", "closing", "reporting"} : Move(r, to)
  <2>1. PICK to \in {"skipping", "closing", "reporting"} : phase'[r] = to
    BY <1>5 DEF Move, OwnTypes
  <2>2. UNCHANGED <<target, op, at, arg, loc, result, orphans>>
    BY <1>5 DEF replaceVars, callVars
  <2>3. to = "reporting" => ~cancelEvent
    BY <1>5, <2>1 DEF GoOn, Move, Close, OwnTypes
  <2>4. AskersInv(r)'
    BY <1>1, <2>1, <2>2, <2>3 DEF Deploys, AskersInv, Deploying, Early,
        Trialing, Final, Asker
  <2>5. FinalInv(r)'
    BY <1>1, <1>2, <2>1, <2>2 DEF FinalInv, Making, Final, Past
  <2> QED BY <1>1, <1>2, <2>2, <2>4, <2>5 DEF Deploys, CallsInv, DeployedInv,
      Final
<1> QED BY <1>4, <1>5 DEF GoOn, Close

\* The other steps of the trials.
LEMMA TrialDeploys ==
  ASSUME ShapeInv, OwnTypes, NEW r \in Sessions, Deploys(r), SessionFlags(r),
         \/ FirstReady(r) \/ Skipped(r) \/ Applied(r) \/ ApplyFailed(r) \/ TuningFails(r)
         \/ Booted(r) \/ BootFailed(r) \/ LogsRead(r) \/ RolledBack(r) \/ Evaluated(r)
  PROVE  Deploys(r)'
<1>0. phase[r] \in Trialing \cup {"ready"} /\ r \notin killed
  BY DEF FirstReady, Skipped, Applied, ApplyFailed, TuningFails, Booted,
      BootFailed, LogsRead,
         RolledBack, Evaluated, Trialing
<1>1. op[Final(r)] = "none" /\ at[Final(r)] = "idle" /\ result[Final(r)] = "none"
  BY <1>0, FinalAhead DEF Trialing, Deploys
<1>2. orphans = {} /\ target = want[r]
  BY <1>0 DEF Deploys, CallsInv, FinalInv, Trialing
<1>3. \A k \in 0 .. Attempts : at[<<r, k>>] = "idle"
  BY CallOver DEF FirstReady, Skipped, Applied, ApplyFailed, TuningFails,
      Booted, BootFailed,
                  LogsRead, RolledBack, Evaluated, InCall
<1>4. CASE \E e : GoOn(r, e) /\ UNCHANGED <<cancelEvent, want, killed>>
  BY <1>0, <1>3, <1>4, GoOnDeploys
<1>5. CASE LogsRead(r)
  <2> DEFINE c == Call(r)
  <2>1. c \in Callers /\ \A b \in Appliers : Asker(b) \in Callers /\ Asker(b) # c
    BY <1>5, CallersApart DEF LogsRead, Call
  <2>2. op[c] = "apply" /\ c # Final(r)
    BY <1>1, <1>5 DEF LogsRead, Rollback
  <2>3. /\ UNCHANGED <<target, orphans, arg, loc, best, cancelEvent, want, killed>>
        /\ \A d \in Callers \ {c} : op'[d] = op[d] /\ at'[d] = at[d] /\ result'[d] = result[d]
    BY <1>5, <2>1 DEF LogsRead, Rollback, flags, ShapeInv, ReplaceTypeOK
  <2>4. phase'[r] = "rolling" /\ Call(r)' = c /\ InCall(r)'
    BY <1>5 DEF LogsRead, Move, OwnTypes, Call, InCall
  <2> HIDE DEF c
  <2>5. Final(r) \in Callers /\ \A k \in 0 .. Attempts : <<r, k>> \in Callers
    BY CallersApart
  <2>6. AskersInv(r)'
    BY <1>0, <1>1, <2>1, <2>2, <2>3, <2>4, <2>5
       DEF Deploys, AskersInv, Deploying, Early, Trialing, Final, Asker
  <2>7. FinalInv(r)' /\ DeployedInv(r)'
    BY <1>1, <1>2, <2>2, <2>3, <2>4, <2>5 DEF FinalInv, DeployedInv, Making,
        Final, Past
  <2>8. CallsInv(r)'
    BY <1>2, <1>3, <2>3, <2>4, <2>5 DEF CallsInv
  <2> QED BY <2>6, <2>7, <2>8 DEF Deploys
<1>6. CASE /\ UNCHANGED <<replaceVars, best, want, killed>>
           /\ \/ UNCHANGED cancelEvent
                 /\ \E to \in {"booting", "evaluating", "logs", "closing"} : Move(r, to)
              \/ cancelEvent' /\ Move(r, "failing")
  <2>1. /\ UNCHANGED <<target, op, at, arg, loc, result, orphans, cr, snapshot>>
        /\ phase'[r] \in {"booting", "evaluating", "logs", "closing", "failing"}
        /\ cancelEvent => cancelEvent'
    BY <1>6 DEF replaceVars, callVars, Move, OwnTypes
  <2>2. AskersInv(r)'
    BY <1>0, <1>1, <1>6, <2>1 DEF Deploys, AskersInv, Deploying, Early,
        Trialing, Final, Asker
  <2>3. FinalInv(r)' /\ DeployedInv(r)' /\ CallsInv(r)'
    BY <1>1, <1>2, <1>3, <1>6, <2>1 DEF FinalInv, DeployedInv, CallsInv,
        Making, Final, Past
  <2> QED BY <2>2, <2>3 DEF Deploys
<1>7. TuningFails(r) => Close(r, "stopped") /\ UNCHANGED <<cancelEvent, best>>
  BY DEF TuningFails, SessionFlags
<1> QED BY <1>4, <1>5, <1>6, <1>7
        DEF FirstReady, Skipped, Applied, ApplyFailed, TuningFails, Booted, BootFailed,
            RolledBack, Evaluated, Close, flags

\* The steps of the end of a session.
LEMMA EndDeploys ==
  ASSUME ShapeInv, OwnTypes, NEW r \in Sessions, Deploys(r),
         \/ BestApplied(r) \/ Settled(r) \/ CallRaised(r) \/ Closed(r) \/ Killed(r)
         \/ Finalize(r) /\ best = None
  PROVE  Deploys(r)'
<1>1. /\ UNCHANGED <<replaceVars, best, want, killed, cancelEvent>>
      /\ phase'[r] \in {"settling", "closing", "over"}
      /\ phase[r] \in {"idle", "saving"} => FALSE
      /\ phase'[r] = "settling" => phase[r] = "finalizing"
  BY DEF BestApplied, Settled, CallRaised, Closed, Killed, Finalize, Close,
      Move, OwnTypes, flags,
         InCall, Working
<1>2. UNCHANGED <<target, op, at, arg, loc, result, orphans, cr, snapshot>>
  BY <1>1 DEF replaceVars, callVars
<1>3. \A k \in 0 .. Attempts : at[<<r, k>>] = "idle"
  BY CallOver DEF BestApplied, Settled, CallRaised, Closed, Killed, Finalize,
      InCall, Working
<1>4. AskersInv(r)'
  BY <1>1, <1>2 DEF Deploys, AskersInv, Deploying, Early, Trialing, Final,
      Asker
<1>5. FinalInv(r)' /\ CallsInv(r)' /\ DeployedInv(r)'
  BY <1>1, <1>2, <1>3 DEF Deploys, FinalInv, CallsInv, DeployedInv, Making,
      Final, Asker
<1> QED BY <1>4, <1>5 DEF Deploys

LEMMA FinalizeDeploys ==
  ASSUME ShapeInv, OwnTypes, NEW r \in Sessions, Deploys(r), Finalize(r), best # None
  PROVE  Deploys(r)'
<1>1. /\ op[Final(r)] = "none" /\ at[Final(r)] = "idle" /\ result[Final(r)] = "none"
      /\ \A k \in 0 .. Attempts : at[<<r, k>>] = "idle"
  BY FinalAhead, CallOver DEF Deploys, Finalize, InCall
<1>2. /\ orphans = {} /\ target = want[r] /\ phase[r] = "reporting" /\ r \notin killed
  BY DEF Deploys, CallsInv, FinalInv, Finalize
<1>3. /\ Final(r) \in Callers /\ (\A k \in 0 .. Attempts : <<r, k>> \in Callers)
      /\ \A b \in Appliers : Asker(b) \in Callers /\ Asker(b) # Final(r)
  BY CallersApart DEF Final
<1>4. /\ UNCHANGED <<target, orphans, result, best, cancelEvent, want, killed>>
      /\ \A d \in Callers \ {Final(r)} : op'[d] = op[d] /\ at'[d] = at[d] /\ arg'[d] = arg[d]
      /\ op'[Final(r)] = "apply" /\ at'[Final(r)] = "queued" /\ arg'[Final(r)].spec = best.spec
    BY <1>3 DEF Finalize, Apply, flags, ShapeInv, ReplaceTypeOK, Final, Bodies
<1>5. phase'[r] = "finalizing" /\ Call(r)' = Final(r) /\ InCall(r)'
  BY DEF Finalize, Move, OwnTypes, Call, InCall, Final
<1>6. AskersInv(r)'
  <2>1. Deploying(r)
    BY <1>2 DEF Deploying
  <2> QED BY <1>3, <1>4, <1>5, <2>1 DEF Deploys, AskersInv, Early, Trialing,
      Asker
<1>7. FinalInv(r)'
  BY <1>2, <1>4, <1>5 DEF FinalInv, Making, Final, Past
<1>8. CallsInv(r)'
  BY <1>1, <1>2, <1>3, <1>4, <1>5 DEF CallsInv, Final
<1> QED BY <1>1, <1>4, <1>6, <1>7, <1>8 DEF Deploys, DeployedInv, Final

LEMMA StopDeploys ==
  ASSUME OneSession, ShapeInv, OwnTypes, NEW r \in Sessions, Deploys(r), NEW s \in Stops,
         StopRefused(s) \/ StopRequest(s) \/ StopReturns(s) \/ StopKills(s)
  PROVE  Deploys(r)'
<1>1. /\ UNCHANGED <<best, phase, attempt, want>>
      /\ (cancelEvent => cancelEvent') /\ killed \subseteq killed'
  BY DEF StopRefused, StopRequest, StopReturns, StopKills, flags, progress
<1>2. Call(r)' = Call(r) /\ InCall(r)' = InCall(r)
  BY <1>1 DEF Call, InCall
<1>3. CASE UNCHANGED replaceVars
  <2>1. UNCHANGED <<target, op, at, arg, loc, result, orphans, cr, snapshot>>
    BY <1>3 DEF replaceVars, callVars
  <2>2. AskersInv(r)'
    BY <1>1, <2>1 DEF Deploys, AskersInv, Deploying, Early, Trialing, Final,
        Asker
  <2> QED BY <1>1, <1>2, <2>1, <2>2 DEF Deploys, FinalInv, CallsInv,
      DeployedInv, Making, Final, Asker
<1>4. CASE InCall(r) /\ at[Call(r)] # "idle" /\ Interrupt(Call(r)) /\ r \in killed'
  <2> DEFINE c == Call(r)
  <2>1. c \in Callers /\ Final(r) \in Callers /\ (\A k \in 0 .. Attempts : <<r, k>> \in Callers)
        /\ \A b \in Appliers : Asker(b) \in Callers /\ Asker(b) # c
    BY CallersApart DEF Call
  <2>2. /\ UNCHANGED <<cr, target, snapshot, op, arg>>
        /\ \A d \in Callers \ {c} : at'[d] = at[d] /\ loc'[d] = loc[d] /\ result'[d] = result[d]
        /\ \/ at'[c] = "restoring" /\ loc'[c] = target /\ result'[c] = result[c]
           \/ at'[c] = "idle" /\ result'[c] = "raised"
    BY <1>4, <2>1 DEF Interrupt, Restore, Goto, Leave, ShapeInv, ReplaceTypeOK
  <2>3. result[c] = "none"
    BY <1>4, <2>1 DEF ShapeInv, CallShape, ReplaceTypeOK
  <2>4. c # Final(r) => op[Final(r)] = "none" /\ at[Final(r)] = "idle" /\ result[Final(r)] = "none"
    BY <1>4, FinalAhead DEF Call, InCall, Final, Deploys
  <2>5. op[Final(r)] # "none" => target = want[r]
    BY DEF Deploys, FinalInv
  <2>6. c = Final(r) => op[Final(r)] # "none"
    BY <1>4, <2>1 DEF ShapeInv, CallShape
  <2>8. at[c] # "idle" /\ InCall(r)
    BY <1>4
  <2> HIDE DEF c
  <2>9. AskersInv(r)'
    BY <1>1, <2>2 DEF Deploys, AskersInv, Deploying, Early, Trialing, Final,
        Asker
  <2>10. Making(Final(r), want[r])'
    <3>1. CASE c = Final(r) /\ at'[c] = "restoring"
      <4>1. loc'[c] = want[r] /\ at[c] = "waiting"
        BY <1>4, <2>1, <2>2, <2>5, <2>6, <3>1 DEF c, Interrupt, Leave,
            ShapeInv, ReplaceTypeOK
      <4> QED BY <1>1, <2>2, <3>1, <4>1 DEF Deploys, FinalInv, Making, Final,
          Past, Places
    <3>2. CASE at'[Final(r)] = "idle"
      BY <3>2 DEF Making, Past, Final
    <3> QED BY <2>1, <2>2, <2>4, <3>1, <3>2
  <2>11. FinalInv(r)'
    BY <1>1, <2>2, <2>10 DEF Deploys, FinalInv, Final
  <2>12. CallsInv(r)'
    <3>1. \A k \in 0 .. Attempts : at'[<<r, k>>] # "idle" => InCall(r)' /\ Call(r)' = <<r, k>>
      BY <1>2, <2>1, <2>2, <2>8 DEF Deploys, CallsInv, c
    <3>2. at'[Final(r)] \in {"idle", "restoring"} /\ result'[Final(r)] # "ok"
      BY <2>1, <2>2, <2>3, <2>4
    <3> QED BY <1>4, <3>1, <3>2 DEF CallsInv, Final
  <2>13. DeployedInv(r)'
    BY <2>1, <2>2, <2>3, <2>4 DEF DeployedInv, Final
  <2> QED BY <2>9, <2>11, <2>12, <2>13 DEF Deploys
<1> QED BY <1>3, <1>4 DEF StopRefused, StopRequest, StopReturns, StopKills,
    OneSession

\* POST /apply-best finds the parameters that the session deploys.
LEMMA ApplyBestDeploys ==
  ASSUME ShapeInv, OwnTypes, NEW r \in Sessions, Deploys(r), SessionFlags(r),
         NEW b \in Appliers, ApplyBest(b)
  PROVE  Deploys(r)'
<1>1. /\ Final(r) \in Callers /\ (\A k \in 0 .. Attempts : <<r, k>> \in Callers)
      /\ \A a \in Appliers : Asker(a) \in Callers /\ \A k : Asker(a) # <<r, k>>
  BY CallersApart
<1>2. /\ UNCHANGED <<best, phase, attempt, want, killed, cancelEvent, running>>
      /\ best # None /\ ~running /\ op[Asker(b)] = "none"
      /\ UNCHANGED <<target, orphans, result, cr, snapshot, loc>>
      /\ \A d \in Callers \ {Asker(b)} : op'[d] = op[d] /\ at'[d] = at[d] /\ arg'[d] = arg[d]
      /\ op'[Asker(b)] = "apply" /\ at'[Asker(b)] = "queued" /\ arg'[Asker(b)].spec = best.spec
  BY <1>1 DEF ApplyBest, Apply, sessionVars, flags, progress, ShapeInv,
      ReplaceTypeOK, Asker, Bodies
<1>3. Call(r)' = Call(r) /\ InCall(r)' = InCall(r) /\ Final(r) # Asker(b)
  BY <1>1, <1>2 DEF Call, InCall, Final
<1>4. phase[r] \in Trialing \cup {"ready"} => cancelEvent
  BY <1>2 DEF SessionFlags, Active, Working, Trialing
<1>5. AskersInv(r)'
  <2>1. \A a \in Appliers : Asker(a) = Asker(b) \/ (op'[Asker(a)] = op[Asker(a)]
                                                   /\ arg'[Asker(a)] = arg[Asker(a)])
    BY <1>1, <1>2
  <2>2. Deploying(r)' = Deploying(r)
    BY <1>1, <1>2, <1>3 DEF Deploying, Final
  <2> QED BY <1>2, <1>4, <2>1, <2>2 DEF Deploys, AskersInv, Asker
<1>6. FinalInv(r)'
  BY <1>1, <1>2, <1>3 DEF Deploys, FinalInv, Making, Final
<1>7. CallsInv(r)'
  BY <1>1, <1>2, <1>3 DEF Deploys, CallsInv, Final
<1>8. DeployedInv(r)'
  <2>1. \A a \in Appliers : at'[Asker(a)] \in Past \cup {"getting"} =>
          /\ Asker(a) # Asker(b) /\ at'[Asker(a)] = at[Asker(a)] /\ arg'[Asker(a)] = arg[Asker(a)]
    BY <1>1, <1>2 DEF Past
  <2> QED BY <1>2, <2>1 DEF Deploys, DeployedInv, Making, Final, Asker
<1> QED BY <1>5, <1>6, <1>7, <1>8 DEF Deploys

LEMMA DeployInvNext ==
  ASSUME OneSession, SessionInv, FlagsInv, DeployInv, [Next]_vars
  PROVE  DeployInv'
<1>0. ShapeInv /\ OwnTypes /\ \A r \in Sessions : Deploys(r) /\ SessionFlags(r)
  BY DEF SessionInv, DeployInv, FlagsInv, Deploys
<1>1. ASSUME \A r \in Sessions : Deploys(r)' PROVE DeployInv'
  BY <1>1 DEF DeployInv, Deploys
<1>2. CASE Replacement
  BY <1>2, CallStepDeploys, ClusterDeploys, SessionAssumption DEF Replacement
<1>3. ASSUME NEW r \in Sessions,
             \/ \E t \in Targets : StartRequest(r, t)
             \/ PinTarget(r) \/ StartRejected(r) \/ StartAccepted(r) \/ SessionStep(r)
      PROVE  DeployInv'
  <2>1. Deploys(r)'
    BY <1>0, <1>3, StartDeploys, TrialDeploys, EndDeploys, FinalizeDeploys DEF
        SessionStep
  <2> QED BY <1>1, <2>1 DEF OneSession
<1>4. ASSUME NEW s \in Stops, StopRefused(s) \/ StopRequest(s) \/ StopStep(s) PROVE DeployInv'
  BY <1>0, <1>1, <1>4, StopDeploys DEF StopStep
<1>5. ASSUME NEW b \in Appliers, ApplyBest(b) PROVE DeployInv'
  BY <1>0, <1>1, <1>5, ApplyBestDeploys
<1>6. CASE UNCHANGED vars
  <2>1. UNCHANGED <<target, op, at, arg, loc, result, orphans, cr, snapshot,
                    phase, best, want, attempt, killed, cancelEvent>>
    BY <1>6 DEF vars, replaceVars, callVars, sessionVars, flags, progress
  <2> SUFFICES ASSUME NEW r \in Sessions PROVE Deploys(r)'
    BY <1>1
  <2>2. AskersInv(r)' /\ FinalInv(r)'
    BY <1>0, <2>1 DEF Deploys, AskersInv, FinalInv, Deploying, Making, Final,
        Asker
  <2>3. CallsInv(r)' /\ DeployedInv(r)'
    BY <1>0, <2>1 DEF Deploys, CallsInv, DeployedInv, Making, InCall, Call,
        Final, Asker
  <2> QED BY <2>2, <2>3 DEF Deploys
<1> QED BY <1>2, <1>3, <1>4, <1>5, <1>6 DEF Next

\* When the final apply of a session has succeeded, its CR has the best
\* parameters whenever it is there, however many requests to apply them and to
\* stop come in, and whatever fails.
THEOREM SessionDeploysBest ==
  ASSUME OneSession
  PROVE  Spec => []BestDeployed
<1>1. InitSession => DeployInv
  <2> SUFFICES ASSUME InitSession, NEW r \in Sessions
               PROVE  AskersInv(r) /\ FinalInv(r) /\ CallsInv(r) /\ DeployedInv(r)
    BY DEF DeployInv
  <2>1. /\ Final(r) \in Callers /\ (\A k \in 0 .. Attempts : <<r, k>> \in Callers)
        /\ \A b \in Appliers : Asker(b) \in Callers
    BY SessionInvInit, CallersApart DEF SessionInv
  <2> QED BY <2>1 DEF InitSession, ReplaceInit, AskersInv, FinalInv, CallsInv,
      DeployedInv,
                      Deploying, Making, Early, Trialing, Past, Final, Asker
<1>2. SessionInv /\ FlagsInv /\ DeployInv /\ [Next]_vars => DeployInv'
  BY DeployInvNext
<1>3. DeployInv => BestDeployed
  BY DEF DeployInv, DeployedInv, BestDeployed, Final
<1>4. NoOverlap
  BY DEF NoOverlap, OneSession
<1>5. NoOverlap /\ SessionInv /\ FlagsInv /\ [Next]_vars => FlagsInv'
  BY FlagsInvNext DEF SessionInv
<1>6. InitSession => FlagsInv
  BY DEF InitSession, FlagsInv, SessionFlags, Active, Working
<1> QED BY <1>1, <1>2, <1>3, <1>4, <1>5, <1>6, SessionInvariant, PTL DEF Spec

\* No session, stop or request to apply puts back a CR other than the last,
\* whatever comes together, if no request to Kubernetes fails.
THEOREM TunerSnapshotTrue ==
  ASSUME OneNamespace = FALSE, "api" \notin Faults
  PROVE  Spec => []SnapshotTrue
<1>1. InitSession => MissingInv /\ SnapshotInv
  BY MissingInit, SnapshotInit DEF InitSession
<1>2. SessionInv /\ MissingInv /\ SnapshotInv /\ [Next]_vars => MissingInv' /\ SnapshotInv'
  <2> SUFFICES ASSUME SessionInv, MissingInv, SnapshotInv, [Next]_vars
               PROVE  MissingInv' /\ SnapshotInv'
    OBVIOUS
  <2>1. ReplaceStep
    BY StepOnReplacement, OnReplacementSteps DEF SessionInv
  <2> QED BY <2>1, MissingStep, SnapshotStep
<1>3. SnapshotInv => SnapshotTrue
  BY SnapshotKept
<1> QED BY <1>1, <1>2, <1>3, SessionInvariant, PTL DEF Spec
=============================================================================

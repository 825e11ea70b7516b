-------------------------- MODULE CRReplaceProofs --------------------------
(***************************************************************************)
(* Proofs about CRReplace for every set of callers, targets and argument   *)
(* sets, and every combination of faults.                                  *)
(***************************************************************************)
EXTENDS CRReplace, TLAPS

(***************************************************************************)
(* Types, and the exclusion of the lock.                                   *)
(***************************************************************************)

\* Places in which the snapshot may be used.
Past == Places \ {"idle", "queued", "getting"}

\* A call that has not been made, or that has an outcome, is nowhere; who may
\* use the snapshot comes after an apply that has taken one; and a call is
\* marked as cut off only when it has ended without success.
CallShape ==
  /\ \A c \in Callers :
       /\ op[c] = "none" \/ result[c] # "none" => at[c] = "idle"
       /\ op[c] = "none" => result[c] = "none"
       /\ left[c] # "idle" => result[c] \in {"failed", "raised"}
       /\ at[c] \in {"recreating", "restoring", "restore", "getting"} => op[c] = "apply"
       /\ at[c] \in Past \/ result[c] = "ok" \/ op[c] = "rollback" => snapshot # None

ShapeInv == ReplaceTypeOK /\ CallShape

Clusters == [Targets -> [phase : Phases, spec : Specs]]

\* The effect of a request is a cluster, unless the request is refused.
LEMMA DeletedType ==
  ASSUME cr \in Clusters, NEW t \in Targets, Deleted(t) # None
  PROVE  Deleted(t) \in Clusters
<1>1. Deleted(t) = [cr EXCEPT ![t].phase = "dying"]
  BY DEF Deleted
<1>2. [cr[t] EXCEPT !.phase = "dying"] \in [phase : Phases, spec : Specs]
  BY DEF Clusters, Phases
<1> QED
  BY <1>1, <1>2 DEF Clusters

LEMMA CreatedType ==
  ASSUME cr \in Clusters, NEW t \in Targets, NEW b \in Bodies, Created(t, b) # None
  PROVE  Created(t, b) \in Clusters
<1>1. Created(t, b) = [cr EXCEPT ![b.target] = [phase |-> "live", spec |-> b.spec]]
  BY DEF Created
<1>2. b.target \in Targets /\ [phase |-> "live", spec |-> b.spec] \in [phase : Phases, spec : Specs]
  BY DEF Bodies, Phases
<1> QED
  BY <1>1, <1>2 DEF Clusters

\* So an answered request leaves a cluster.
LEMMA AnsweredType ==
  ASSUME NEW c, NEW STATE effect, NEW ACTION Good, NEW ACTION Bad,
         cr \in Clusters, effect # None => effect \in Clusters,
         Answered(c, effect, Good, Bad)
  PROVE  cr' \in Clusters /\ (Good \/ Bad)
BY DEF Answered

\* What a step of a call under way leaves alone or keeps in its type.
StepFrame ==
  /\ cr' \in Clusters /\ UNCHANGED <<target, op>>
  /\ loc' \in [Callers -> Targets] /\ arg' \in [Callers -> Bodies]
  /\ snapshot' \in Bodies \cup {None} /\ (snapshot # None => snapshot' # None)
  /\ cancelled' \subseteq Callers /\ orphans' \subseteq Requests

\* A call that ends without success keeps the shape.
LEMMA LeaveShape ==
  ASSUME ShapeInv, StepFrame, NEW c \in Callers, at[c] # "idle",
         NEW how \in {"failed", "raised"}, Leave(c, how)
  PROVE  ShapeInv'
<1>1. /\ result' = [result EXCEPT ![c] = how]
      /\ left' = [left EXCEPT ![c] = at[c]]
      /\ at' = [at EXCEPT ![c] = "idle"]
      /\ holder' = IF holder = c THEN None ELSE holder
  BY DEF Leave
<1>2. holder' \in Callers \cup {None}
      /\ \A d \in Callers : holder' = d <=> at'[d] \notin {"idle", "queued"}
  BY <1>1, ReplaceAssumption DEF ShapeInv, ReplaceTypeOK
<1>3. ReplaceTypeOK'
  BY <1>1, <1>2 DEF ShapeInv, ReplaceTypeOK, StepFrame, Clusters, Places
<1>4. CallShape'
  BY <1>1 DEF ShapeInv, ReplaceTypeOK, CallShape, StepFrame, Past
<1> QED
  BY <1>3, <1>4 DEF ShapeInv

\* So does one that succeeds.
LEMMA SucceedShape ==
  ASSUME ShapeInv, StepFrame, NEW c \in Callers, at[c] \in Past, Succeed(c)
  PROVE  ShapeInv'
<1>1. /\ result' = [result EXCEPT ![c] = "ok"]
      /\ at' = [at EXCEPT ![c] = "idle"]
      /\ holder' = None /\ UNCHANGED left
  BY DEF Succeed
<1>2. holder = c
  BY DEF ShapeInv, ReplaceTypeOK, Past
<1>3. \A d \in Callers : holder' = d <=> at'[d] \notin {"idle", "queued"}
  BY <1>1, <1>2, ReplaceAssumption DEF ShapeInv, ReplaceTypeOK
<1>4. ReplaceTypeOK'
  BY <1>1, <1>3 DEF ShapeInv, ReplaceTypeOK, StepFrame, Clusters, Places
<1>5. CallShape'
  <2>1. left[c] = "idle" /\ snapshot # None
    BY DEF ShapeInv, CallShape, Past
  <2> QED
    BY <1>1, <2>1 DEF ShapeInv, ReplaceTypeOK, CallShape, StepFrame, Past
<1> QED
  BY <1>4, <1>5 DEF ShapeInv

\* And one that goes on, with the lock and the snapshot.
LEMMA GotoShape ==
  ASSUME ShapeInv, StepFrame, NEW c \in Callers, at[c] \notin {"idle", "queued"},
         snapshot' # None, NEW place \in Past,
         place \in {"recreating", "restoring", "restore"} => op[c] = "apply",
         Goto(c, place)
  PROVE  ShapeInv'
<1>1. /\ at' = [at EXCEPT ![c] = place]
      /\ UNCHANGED <<result, left, holder>>
  BY DEF Goto
<1>2. \A d \in Callers : holder' = d <=> at'[d] \notin {"idle", "queued"}
  BY <1>1 DEF ShapeInv, ReplaceTypeOK, Past
<1>3. ReplaceTypeOK'
  BY <1>1, <1>2 DEF ShapeInv, ReplaceTypeOK, StepFrame, Clusters, Past
<1>4. CallShape'
  BY <1>1 DEF ShapeInv, ReplaceTypeOK, CallShape, StepFrame, Past
<1> QED
  BY <1>3, <1>4 DEF ShapeInv

\* A step of the replacement, or the interruption of a call by whoever uses it.
ReplaceStep == [ReplaceNext]_replaceVars \/ \E c \in Callers : Interrupt(c)

\* The types and the shape of calls are inductive.
LEMMA ReplaceShapeStep ==
  ASSUME ShapeInv, ReplaceStep
  PROVE  ShapeInv'
<1>a. /\ cr \in Clusters /\ target \in Targets /\ snapshot \in Bodies \cup {None}
      /\ loc \in [Callers -> Targets] /\ arg \in [Callers -> Bodies]
      /\ cancelled \subseteq Callers /\ orphans \subseteq Requests
  BY DEF ShapeInv, ReplaceTypeOK, Clusters
<1>b. ASSUME NEW c \in Callers, at[c] \in Past PROVE snapshot # None
  BY <1>b DEF ShapeInv, CallShape
<1>1. CASE UNCHANGED replaceVars
  BY <1>1 DEF replaceVars, callVars, ShapeInv, ReplaceTypeOK, CallShape
<1>2. ASSUME NEW c \in Callers, NEW s \in Specs, Apply(c, s) PROVE ShapeInv'
  <2>1. at[c] = "idle" /\ [arg[c] EXCEPT !.spec = s] \in Bodies
    BY <1>2, <1>a DEF Apply, ShapeInv, CallShape, Bodies
  <2>2. /\ op' \in [Callers -> {"none", "apply", "rollback"}]
        /\ at' \in [Callers -> Places] /\ arg' \in [Callers -> Bodies]
        /\ \A d \in Callers : holder' = d <=> at'[d] \notin {"idle", "queued"}
    BY <1>2, <1>a, <2>1 DEF Apply, ShapeInv, ReplaceTypeOK, Places
  <2>3. ReplaceTypeOK'
    BY <1>2, <2>2 DEF Apply, ShapeInv, ReplaceTypeOK
  <2>4. CallShape'
    BY <1>2 DEF Apply, ShapeInv, ReplaceTypeOK, CallShape, Places, Past
  <2> QED
    BY <2>3, <2>4 DEF ShapeInv
<1>3. ASSUME NEW c \in Callers, Rollback(c) PROVE ShapeInv'
  <2>1. at[c] = "idle" /\ left[c] = "idle" /\ snapshot # None
    BY <1>3 DEF Rollback, ShapeInv, CallShape
  <2>2. ReplaceTypeOK'
    BY <1>3, <2>1 DEF Rollback, ShapeInv, ReplaceTypeOK, Places
  <2>3. CallShape'
    BY <1>3, <2>1 DEF Rollback, ShapeInv, ReplaceTypeOK, CallShape, Places, Past
  <2> QED
    BY <2>2, <2>3 DEF ShapeInv
<1>4. ASSUME NEW c \in Callers, Enter(c) PROVE ShapeInv'
  <2>1. /\ at[c] = "queued" /\ holder = None /\ holder' = c
        /\ UNCHANGED <<cr, target, snapshot, orphans, op, result, left, cancelled>>
        /\ loc' = [loc EXCEPT ![c] = target]
    BY <1>4 DEF Enter
  <2>2. \A d \in Callers : at[d] \in {"idle", "queued"}
    BY <2>1, ReplaceAssumption DEF ShapeInv, ReplaceTypeOK
  <2>3. op[c] # "none" /\ result[c] = "none" /\ left[c] = "idle"
    BY <2>1 DEF ShapeInv, ReplaceTypeOK, CallShape
  <2>4. CASE op[c] = "apply"
    <3>1. /\ at' = [at EXCEPT ![c] = "getting"]
          /\ arg' = [arg EXCEPT ![c].target = target]
      BY <1>4, <2>4 DEF Enter
    <3>2. [arg[c] EXCEPT !.target = target] \in Bodies
      BY <1>a DEF Bodies
    <3>3. arg' \in [Callers -> Bodies]
      BY <1>a, <3>1, <3>2
    <3>4. ReplaceTypeOK'
      BY <2>1, <2>2, <3>1, <3>3 DEF ShapeInv, ReplaceTypeOK, Places
    <3>5. CallShape'
      BY <2>1, <2>3, <2>4, <3>1 DEF ShapeInv, ReplaceTypeOK, CallShape, Places, Past
    <3> QED
      BY <3>4, <3>5 DEF ShapeInv
  <2>5. CASE op[c] = "rollback"
    <3>1. /\ at' = [at EXCEPT ![c] = "deleting"]
          /\ arg' = [arg EXCEPT ![c] = snapshot]
      BY <1>4, <2>5 DEF Enter
    <3>2. snapshot \in Bodies /\ snapshot # None
      BY <1>a, <2>5 DEF ShapeInv, CallShape
    <3>3. ReplaceTypeOK'
      BY <2>1, <2>2, <3>1, <3>2 DEF ShapeInv, ReplaceTypeOK, Places
    <3>4. CallShape'
      BY <2>1, <2>3, <2>5, <3>1, <3>2 DEF ShapeInv, ReplaceTypeOK, CallShape, Places, Past
    <3> QED
      BY <3>3, <3>4 DEF ShapeInv
  <2> QED
    BY <2>3, <2>4, <2>5 DEF ShapeInv, ReplaceTypeOK
<1>5. ASSUME NEW c \in Callers, Get(c) PROVE ShapeInv'
  <2>1. at[c] = "getting" /\ UNCHANGED <<cr, target, orphans, op, loc, arg, cancelled>>
    BY <1>5 DEF Get
  <2>2. CASE snapshot' = Body(loc[c], cr[loc[c]].spec) /\ Goto(c, "deleting")
    <3>1. snapshot' \in Bodies /\ snapshot' # None
      <4>1. loc[c] \in Targets /\ cr[loc[c]] \in [phase : Phases, spec : Specs]
        BY <1>a DEF Clusters
      <4> QED
        BY <2>2, <4>1, ReplaceAssumption DEF Body, Bodies
    <3>2. StepFrame
      BY <1>a, <2>1, <3>1 DEF StepFrame
    <3> QED
      BY <2>1, <2>2, <3>1, <3>2, GotoShape DEF Past, Places
  <2>3. CASE Fail(c) /\ UNCHANGED snapshot
    <3>1. StepFrame
      BY <1>a, <2>1, <2>3 DEF StepFrame
    <3> QED
      BY <2>1, <2>3, <3>1, LeaveShape DEF Fail
  <2> QED
    BY <1>5, <2>2, <2>3 DEF Get
<1>6. ASSUME NEW c \in Callers, Delete(c) PROVE ShapeInv'
  <2>1. /\ at[c] = "deleting" /\ loc[c] \in Targets
        /\ UNCHANGED <<target, snapshot, orphans, op, loc, arg, cancelled>>
    BY <1>6, <1>a DEF Delete
  <2>2. cr' \in Clusters /\ (Goto(c, "waiting") \/ Fail(c))
    BY <1>6, <1>a, <2>1, DeletedType DEF Delete, Answered
  <2>3. StepFrame /\ snapshot' # None
    BY <1>a, <1>b, <2>1, <2>2 DEF StepFrame, Past, Places
  <2> QED
    BY <2>1, <2>2, <2>3, GotoShape, LeaveShape DEF Fail, Past, Places
<1>7. ASSUME NEW c \in Callers, SeenGone(c) PROVE ShapeInv'
  <2>1. StepFrame /\ snapshot' # None /\ at[c] = "waiting" /\ Goto(c, "creating")
    BY <1>7, <1>a, <1>b DEF SeenGone, StepFrame, Past, Places
  <2> QED
    BY <2>1, GotoShape DEF Past, Places
<1>8. ASSUME NEW c \in Callers, WaitTimedOut(c) PROVE ShapeInv'
  <2>1. at[c] = "waiting" /\ UNCHANGED <<cr, target, snapshot, orphans, op, arg, cancelled>>
    BY <1>8 DEF WaitTimedOut
  <2>2. \/ op[c] = "apply" /\ Restore(c)
        \/ Leave(c, "raised") /\ UNCHANGED loc
    BY <1>8 DEF WaitTimedOut
  <2>3. StepFrame /\ snapshot' # None
    BY <1>a, <1>b, <2>1, <2>2 DEF StepFrame, Restore, Past, Places
  <2> QED
    BY <2>1, <2>2, <2>3, GotoShape, LeaveShape DEF Restore, Past, Places
<1>9. ASSUME NEW c \in Callers, Create(c) PROVE ShapeInv'
  <2>1. /\ at[c] = "creating" /\ loc[c] \in Targets /\ arg[c] \in Bodies
        /\ UNCHANGED <<target, snapshot, orphans, op, loc, arg, cancelled>>
    BY <1>9, <1>a DEF Create
  <2>2. /\ cr' \in Clusters
        /\ Succeed(c) \/ (op[c] = "apply" /\ Goto(c, "recreating")) \/ Fail(c)
    BY <1>9, <1>a, <2>1, CreatedType DEF Create, Answered
  <2>3. StepFrame /\ snapshot' # None
    BY <1>a, <1>b, <2>1, <2>2 DEF StepFrame, Past, Places
  <2> QED
    BY <2>1, <2>2, <2>3, SucceedShape, GotoShape, LeaveShape DEF Fail, Past, Places
<1>10. ASSUME NEW c \in Callers, Recreate(c) PROVE ShapeInv'
  <2>1. /\ at[c] = "recreating" /\ loc[c] \in Targets /\ snapshot \in Bodies
        /\ UNCHANGED <<target, snapshot, orphans, op, loc, arg, cancelled>>
    BY <1>10, <1>a, <1>b DEF Recreate, Past, Places
  <2>2. cr' \in Clusters /\ Leave(c, "failed")
    BY <1>10, <1>a, <2>1, CreatedType DEF Recreate, Answered
  <2>3. StepFrame
    BY <1>a, <2>1, <2>2 DEF StepFrame
  <2> QED
    BY <2>1, <2>2, <2>3, LeaveShape
<1>11. ASSUME NEW c \in Callers, RestoreSeesGone(c) PROVE ShapeInv'
  <2>1. /\ StepFrame /\ snapshot' # None /\ at[c] = "restoring" /\ op[c] = "apply"
        /\ Goto(c, "restore")
    BY <1>11, <1>a, <1>b DEF RestoreSeesGone, StepFrame, Past, Places, ShapeInv, CallShape
  <2> QED
    BY <2>1, GotoShape DEF Past, Places
<1>12. ASSUME NEW c \in Callers, RestoreTimedOut(c) PROVE ShapeInv'
  <2>1. StepFrame /\ at[c] = "restoring" /\ Reraise(c)
    BY <1>12, <1>a DEF RestoreTimedOut, StepFrame
  <2> QED
    BY <2>1, LeaveShape DEF Reraise
<1>13. ASSUME NEW c \in Callers, RestoreCreate(c) PROVE ShapeInv'
  <2>1. /\ at[c] = "restore" /\ loc[c] \in Targets /\ snapshot \in Bodies
        /\ UNCHANGED <<target, snapshot, orphans, op, loc, arg, cancelled>>
    BY <1>13, <1>a, <1>b DEF RestoreCreate, Past, Places
  <2>2. cr' \in Clusters /\ Reraise(c)
    BY <1>13, <1>a, <2>1, CreatedType DEF RestoreCreate, Answered
  <2>3. StepFrame
    BY <1>a, <2>1, <2>2 DEF StepFrame
  <2> QED
    BY <2>1, <2>2, <2>3, LeaveShape DEF Reraise
<1>14. ASSUME NEW c \in Callers, Interrupt(c) PROVE ShapeInv'
  <2>1. /\ at[c] # "idle" /\ cancelled' = cancelled \cup {c}
        /\ orphans' = orphans \cup InFlight(c)
        /\ UNCHANGED <<cr, target, snapshot, op, arg>>
    BY <1>14 DEF Interrupt
  <2>2. \/ at[c] = "waiting" /\ op[c] = "apply" /\ Restore(c)
        \/ Leave(c, "raised") /\ UNCHANGED loc
    BY <1>14 DEF Interrupt
  <2>3. InFlight(c) \subseteq Requests
    BY <1>a, <1>b DEF InFlight, Requests, Past, Places
  <2>4. StepFrame
    BY <1>a, <2>1, <2>2, <2>3 DEF StepFrame, Restore
  <2>5. at[c] = "waiting" => snapshot' # None
    BY <1>b, <2>1 DEF Past, Places
  <2> QED
    BY <2>1, <2>2, <2>4, <2>5, GotoShape, LeaveShape DEF Restore, Past, Places
<1>15. ASSUME NEW r \in orphans, Orphaned(r) PROVE ShapeInv'
  <2>1. r.loc \in Targets /\ r.body \in Bodies
    BY <1>a DEF Requests
  <2>2. cr' \in Clusters
    BY <1>15, <1>a, <2>1, DeletedType, CreatedType DEF Orphaned
  <2>3. /\ orphans' \subseteq Requests
        /\ UNCHANGED <<target, snapshot, holder, callVars>>
    BY <1>15, <1>a DEF Orphaned
  <2> QED
    BY <2>2, <2>3 DEF callVars, ShapeInv, ReplaceTypeOK, CallShape, Clusters
<1>16. ASSUME NEW t \in Targets, Gone(t) PROVE ShapeInv'
  <2>1. cr' \in Clusters
    <3>1. [cr[t] EXCEPT !.phase = "absent"] \in [phase : Phases, spec : Specs]
      BY <1>a DEF Clusters, Phases
    <3> QED
      BY <1>16, <1>a, <3>1 DEF Gone, Clusters
  <2> QED
    BY <1>16, <2>1 DEF Gone, callVars, ShapeInv, ReplaceTypeOK, CallShape, Clusters
<1>17. ASSUME NEW t \in Targets, Retarget(t) PROVE ShapeInv'
  BY <1>17 DEF Retarget, callVars, ShapeInv, ReplaceTypeOK, CallShape
<1>18. ASSUME NEW c \in Callers, WaitFails(c) PROVE ShapeInv'
  <2>1. /\ StepFrame /\ at[c] # "idle"
        /\ Leave(c, "failed") \/ Leave(c, "raised")
    BY <1>18, <1>a DEF WaitFails, Reraise, StepFrame
  <2> QED
    BY <2>1, LeaveShape
<1> QED
  BY <1>1, <1>2, <1>3, <1>4, <1>5, <1>6, <1>7, <1>8, <1>9, <1>10, <1>11, <1>12,
     <1>13, <1>14, <1>15, <1>16, <1>17, <1>18 DEF ReplaceStep, ReplaceNext, CallStep, Cancel

\* The initial states have the shape.
LEMMA ReplaceInitShape ==
  ASSUME ReplaceInit
  PROVE  ShapeInv
<1>1. [phase |-> "live", spec |-> Original] \in [phase : Phases, spec : Specs]
  BY ReplaceAssumption DEF Phases
<1>2. Body(target, Original) \in Bodies
  BY ReplaceAssumption DEF ReplaceInit, Body, Bodies
<1>3. ReplaceTypeOK
  BY <1>1, <1>2, ReplaceAssumption DEF ReplaceInit, ReplaceTypeOK, Places
<1>4. CallShape
  BY DEF ReplaceInit, CallShape, Past
<1> QED
  BY <1>3, <1>4 DEF ShapeInv

\* Every variable of the CR replacement keeps its type, and the lock has at
\* most one holder: the call that is past the acquisition and not over.
THEOREM ReplaceTypeCorrect == ReplaceSpec => []ReplaceTypeOK
<1>1. ReplaceInit => ShapeInv
  BY ReplaceInitShape
<1>2. ShapeInv /\ [ReplaceNext]_replaceVars => ShapeInv'
  BY ReplaceShapeStep DEF ReplaceStep
<1>3. ShapeInv => ReplaceTypeOK
  BY DEF ShapeInv
<1> QED
  BY <1>1, <1>2, <1>3, PTL DEF ReplaceSpec

(***************************************************************************)
(* A missing CR has an explanation.                                        *)
(***************************************************************************)

\* A call that answers for the absence of a CR.
Explains(c, t) == Subject(c) = t /\ (Replacing(c) \/ GaveUp(c))

\* Until an apply is cut off it works on the CR it has read the target for.
AtTarget ==
  \A c \in Callers :
    op[c] = "apply" /\ at[c] \in {"getting", "deleting", "waiting", "creating", "recreating"}
    => arg[c].target = loc[c]

\* A CR that is being deleted has an explanation as well.
AwayExplained ==
  \A t \in Targets : cr[t].phase # "live" => \E c \in Callers : Explains(c, t)

\* A deletion that goes on in a thread was given up by the call that asked for
\* it.
OrphansExplained ==
  \A r \in orphans : r.verb = "delete" =>
    \E c \in Callers : Subject(c) = r.loc /\ left[c] = "deleting"

MissingInv == ShapeInv /\ AtTarget /\ AwayExplained /\ OrphansExplained

\* Caller c may have moved, nobody else has.
OnlyMoves(c) ==
  \A d \in Callers \ {c} :
    /\ op'[d] = op[d] /\ at'[d] = at[d] /\ loc'[d] = loc[d]
    /\ arg'[d] = arg[d] /\ left'[d] = left[d] /\ result'[d] = result[d]

\* A deletion takes away the CR it is for.
LEMMA DeletedAway ==
  ASSUME cr \in Clusters, NEW t \in Targets, Deleted(t) # None, NEW u \in Targets, u # t
  PROVE  Deleted(t)[u] = cr[u]
BY DEF Deleted, Clusters

\* A creation takes none away, and brings back the CR of its body.
LEMMA CreatedLive ==
  ASSUME cr \in Clusters, NEW t \in Targets, NEW b \in Bodies, Created(t, b) # None
  PROVE  /\ Created(t, b)[b.target].phase = "live"
         /\ \A u \in Targets : Created(t, b)[u].phase # "live" => cr[u].phase # "live"
         /\ ~OneNamespace => b.target = t
<1>1. /\ Created(t, b) = [cr EXCEPT ![b.target] = [phase |-> "live", spec |-> b.spec]]
      /\ t = b.target \/ OneNamespace
  BY DEF Created
<1>2. b.target \in Targets
  BY DEF Bodies
<1> QED
  BY <1>1, <1>2 DEF Clusters

\* A call under way has not been given up yet.
LEMMA UnderWay ==
  ASSUME ShapeInv, NEW c \in Callers, at[c] # "idle" \/ op[c] = "none" \/ result[c] = "ok"
  PROVE  left[c] = "idle"
BY DEF ShapeInv, ReplaceTypeOK, CallShape

\* The explanations of absent CRs survive a step of one call, if that call
\* goes on answering for its CR until it is back, and answers for any CR it
\* takes away.
LEMMA AwayStep ==
  ASSUME AwayExplained, NEW c \in Callers, OnlyMoves(c),
         \A t \in Targets : cr'[t].phase # "live" =>
            \/ cr[t].phase # "live" /\ (Explains(c, t) => Explains(c, t)')
            \/ Explains(c, t)'
  PROVE  AwayExplained'
<1> SUFFICES ASSUME NEW t \in Targets, cr'[t].phase # "live"
             PROVE  \E d \in Callers : Explains(d, t)'
  BY DEF AwayExplained
<1>1. CASE Explains(c, t)'
  BY <1>1
<1>2. CASE cr[t].phase # "live" /\ ~Explains(c, t)
  <2>1. PICK d \in Callers : Explains(d, t)
    BY <1>2 DEF AwayExplained
  <2>2. d # c
    BY <1>2, <2>1
  <2>3. Explains(d, t)'
    BY <2>1, <2>2 DEF OnlyMoves, Explains, Subject, Replacing, GaveUp
  <2> QED
    BY <2>3
<1> QED
  BY <1>1, <1>2

\* A call under way that has no request given up yet leaves the explanations
\* of the requests in threads as they are.
LEMMA OrphansStep ==
  ASSUME ShapeInv, OrphansExplained, NEW c \in Callers, OnlyMoves(c), left[c] = "idle",
         \A r \in orphans' \ orphans :
            r.verb = "delete" => Subject(c)' = r.loc /\ left'[c] = "deleting"
  PROVE  OrphansExplained'
<1> SUFFICES ASSUME NEW r \in orphans', r.verb = "delete"
             PROVE  \E d \in Callers : Subject(d)' = r.loc /\ left'[d] = "deleting"
  BY DEF OrphansExplained
<1>1. CASE r \in orphans
  <2>1. PICK d \in Callers : Subject(d) = r.loc /\ left[d] = "deleting"
    BY <1>1 DEF OrphansExplained
  <2>2. d # c
    BY <2>1
  <2> QED
    BY <2>1, <2>2 DEF OnlyMoves, Subject
<1>2. CASE r \notin orphans
  BY <1>2
<1> QED
  BY <1>1, <1>2

\* A step of a call that takes no CR away and creates no request in a thread.
LEMMA QuietStep ==
  ASSUME MissingInv, NEW c \in Callers, OnlyMoves(c), UNCHANGED orphans,
         left[c] = "idle",
         \A t \in Targets : cr'[t].phase # "live" => cr[t].phase # "live",
         \A t \in Targets : Explains(c, t) => cr'[t].phase = "live" \/ Explains(c, t)',
         op'[c] = "apply" /\ at'[c] \in {"getting", "deleting", "waiting", "creating", "recreating"}
           => arg'[c].target = loc'[c]
  PROVE  AtTarget' /\ AwayExplained' /\ OrphansExplained'
<1>1. AtTarget'
  BY DEF MissingInv, AtTarget, OnlyMoves
<1>2. AwayExplained'
  BY AwayStep DEF MissingInv
<1>3. OrphansExplained'
  BY OrphansStep DEF MissingInv
<1> QED
  BY <1>1, <1>2, <1>3

\* MissingInv is inductive when each target is in a namespace of its own.
LEMMA MissingStep ==
  ASSUME OneNamespace = FALSE, MissingInv, ReplaceStep
  PROVE  MissingInv'
<1> DEFINE Rest == AtTarget' /\ AwayExplained' /\ OrphansExplained'
<1> USE DEF Places, Past
<1>a. ShapeInv' /\ ShapeInv
  BY ReplaceShapeStep DEF MissingInv
<1>b. /\ cr \in Clusters /\ target \in Targets /\ snapshot \in Bodies \cup {None}
      /\ loc \in [Callers -> Targets] /\ arg \in [Callers -> Bodies]
      /\ op \in [Callers -> {"none", "apply", "rollback"}]
      /\ at \in [Callers -> Places] /\ left \in [Callers -> Places]
      /\ result \in [Callers -> {"none", "ok", "failed", "raised"}]
  BY <1>a DEF ShapeInv, ReplaceTypeOK, Clusters
<1>c. ASSUME NEW c \in Callers, at[c] \notin {"idle", "queued"}
      PROVE  op[c] \in {"apply", "rollback"} /\ left[c] = "idle"
  BY <1>a, <1>b, <1>c, UnderWay DEF ShapeInv, CallShape
<1>1. ASSUME UNCHANGED replaceVars PROVE Rest
  BY <1>1 DEF replaceVars, callVars, MissingInv, AtTarget, AwayExplained, OrphansExplained,
              Explains, Subject, Replacing, GaveUp
<1>2. ASSUME NEW c \in Callers, NEW s \in Specs, Apply(c, s) PROVE Rest
  <2>1. left[c] = "idle" /\ at[c] = "idle"
    BY <1>2, <1>a, UnderWay DEF Apply, ShapeInv, CallShape
  <2>2. OnlyMoves(c) /\ UNCHANGED <<cr, orphans>> /\ at'[c] = "queued"
    BY <1>2, <1>b DEF Apply, OnlyMoves
  <2>3. \A t \in Targets : ~Explains(c, t)
    BY <2>1 DEF Explains, Replacing, GaveUp
  <2> QED
    BY <2>1, <2>2, <2>3, QuietStep
<1>3. ASSUME NEW c \in Callers, Rollback(c) PROVE Rest
  <2>1. left[c] = "idle" /\ at[c] = "idle"
    BY <1>3, <1>a, UnderWay DEF Rollback, ShapeInv, CallShape
  <2>2. OnlyMoves(c) /\ UNCHANGED <<cr, orphans>> /\ at'[c] = "queued"
    BY <1>3, <1>b DEF Rollback, OnlyMoves
  <2>3. \A t \in Targets : ~Explains(c, t)
    BY <2>1 DEF Explains, Replacing, GaveUp
  <2> QED
    BY <2>1, <2>2, <2>3, QuietStep
<1>4. ASSUME NEW c \in Callers, Enter(c) PROVE Rest
  <2>1. left[c] = "idle" /\ at[c] = "queued"
    BY <1>4, <1>a, UnderWay DEF Enter
  <2>2. OnlyMoves(c) /\ UNCHANGED <<cr, orphans, op>> /\ loc'[c] = target
    BY <1>4, <1>b DEF Enter, OnlyMoves
  <2>3. op[c] = "apply" => arg'[c].target = target
    BY <1>4, <1>b DEF Enter, Bodies
  <2>4. \A t \in Targets : ~Explains(c, t)
    BY <2>1 DEF Explains, Replacing, GaveUp
  <2> QED
    BY <2>1, <2>2, <2>3, <2>4, QuietStep
<1>5. ASSUME NEW c \in Callers, Get(c) PROVE Rest
  <2>1. left[c] = "idle" /\ at[c] = "getting"
    BY <1>5, <1>c DEF Get
  <2>2. /\ OnlyMoves(c) /\ UNCHANGED <<cr, orphans, op, loc, arg>>
        /\ at'[c] \in {"deleting", "idle"}
    BY <1>5, <1>b DEF Get, Goto, Fail, Leave, OnlyMoves
  <2>3. \A t \in Targets : ~Explains(c, t)
    BY <2>1 DEF Explains, Replacing, GaveUp
  <2>4. op[c] = "apply" => arg[c].target = loc[c]
    BY <2>1 DEF MissingInv, AtTarget
  <2> QED
    BY <2>1, <2>2, <2>3, <2>4, QuietStep
<1>6. ASSUME NEW c \in Callers, Delete(c) PROVE Rest
  <2>1. /\ left[c] = "idle" /\ at[c] = "deleting" /\ op[c] \in {"apply", "rollback"}
        /\ UNCHANGED <<op, loc, arg, orphans>>
    BY <1>6, <1>c DEF Delete
  <2>2. /\ OnlyMoves(c)
        /\ at'[c] = "waiting" \/ (at'[c] = "idle" /\ left'[c] = "deleting")
    BY <1>6, <1>b DEF Delete, Answered, Goto, Fail, Leave, OnlyMoves
  <2>3. op[c] = "apply" => arg[c].target = loc[c]
    BY <2>1 DEF MissingInv, AtTarget
  <2>4. Explains(c, loc[c])'
    BY <2>1, <2>2, <2>3 DEF Explains, Subject, Replacing, GaveUp
  <2>5. \A t \in Targets \ {loc[c]} : cr'[t] = cr[t]
    BY <1>6, <1>b, DeletedAway DEF Delete, Answered
  <2>6. \A t \in Targets : ~Explains(c, t)
    BY <2>1 DEF Explains, Replacing, GaveUp
  <2>7. AtTarget'
    BY <2>1, <2>2, <2>3 DEF MissingInv, AtTarget, OnlyMoves
  <2>8. AwayExplained'
    BY <2>2, <2>4, <2>5, <2>6, AwayStep, <2>1 DEF MissingInv
  <2>9. OrphansExplained'
    BY <1>a, <2>1, <2>2, OrphansStep DEF MissingInv
  <2> QED
    BY <2>7, <2>8, <2>9
<1>7. ASSUME NEW c \in Callers, SeenGone(c) \/ RestoreSeesGone(c) PROVE Rest
  <2>1. /\ left[c] = "idle" /\ at[c] \in {"waiting", "restoring"}
        /\ UNCHANGED <<cr, op, loc, arg, orphans>>
    BY <1>7, <1>c DEF SeenGone, RestoreSeesGone
  <2>2. /\ OnlyMoves(c)
        /\ \/ at[c] = "waiting" /\ at'[c] = "creating"
           \/ at'[c] = "restore"
    BY <1>7, <1>b DEF SeenGone, RestoreSeesGone, Goto, OnlyMoves
  <2>3. \A t \in Targets : Explains(c, t) => Explains(c, t)'
    BY <2>1, <2>2 DEF Explains, Subject, Replacing
  <2>4. op[c] = "apply" /\ at[c] = "waiting" => arg[c].target = loc[c]
    BY DEF MissingInv, AtTarget
  <2> QED
    BY <2>1, <2>2, <2>3, <2>4, QuietStep
<1>8. ASSUME NEW c \in Callers, WaitTimedOut(c) PROVE Rest
  <2>1. /\ left[c] = "idle" /\ at[c] = "waiting" /\ op[c] \in {"apply", "rollback"}
        /\ UNCHANGED <<cr, op, arg, orphans>>
    BY <1>8, <1>c DEF WaitTimedOut
  <2>2. /\ OnlyMoves(c)
        /\ \/ op[c] = "apply" /\ at'[c] = "restoring"
           \/ op[c] # "apply" /\ UNCHANGED loc /\ at'[c] = "idle" /\ left'[c] = "waiting"
    BY <1>8, <1>b DEF WaitTimedOut, Restore, Goto, Leave, OnlyMoves
  <2>3. \A t \in Targets : Explains(c, t) => Explains(c, t)'
    BY <2>1, <2>2 DEF Explains, Subject, Replacing, GaveUp
  <2> QED
    BY <2>1, <2>2, <2>3, QuietStep
<1>9. ASSUME NEW c \in Callers, Create(c) PROVE Rest
  <2>1. /\ left[c] = "idle" /\ at[c] = "creating" /\ op[c] \in {"apply", "rollback"}
        /\ UNCHANGED <<op, loc, arg, orphans>>
    BY <1>9, <1>c DEF Create
  <2>2. op[c] = "apply" => arg[c].target = loc[c]
    BY <2>1 DEF MissingInv, AtTarget
  <2>3. /\ OnlyMoves(c)
        /\ \/ at'[c] = "idle" /\ left'[c] = "creating"
           \/ at'[c] = "recreating"
           \/ at'[c] = "idle" /\ Created(loc[c], arg[c]) # None /\ cr' = Created(loc[c], arg[c])
    BY <1>9, <1>b DEF Create, Answered, Goto, Fail, Leave, Succeed, OnlyMoves
  <2>4. \A t \in Targets : cr'[t].phase # "live" => cr[t].phase # "live"
    BY <1>9, <1>b, CreatedLive DEF Create, Answered
  <2>5. \A t \in Targets : Explains(c, t) => cr'[t].phase = "live" \/ Explains(c, t)'
    <3>1. CASE Created(loc[c], arg[c]) # None /\ cr' = Created(loc[c], arg[c])
      <4>1. cr'[loc[c]].phase = "live" /\ arg[c].target = loc[c]
        BY <3>1, <1>b, CreatedLive
      <4> QED
        BY <4>1 DEF Explains, Subject
    <3>2. CASE at'[c] = "recreating" \/ (at'[c] = "idle" /\ left'[c] = "creating")
      BY <2>1, <3>2 DEF Explains, Subject, Replacing, GaveUp
    <3> QED
      BY <2>3, <3>1, <3>2
  <2> QED
    BY <2>1, <2>2, <2>3, <2>4, <2>5, QuietStep
<1>10. ASSUME NEW c \in Callers, Recreate(c) \/ RestoreCreate(c) PROVE Rest
  <2>1. /\ left[c] = "idle" /\ at[c] \in {"recreating", "restore"}
        /\ UNCHANGED <<op, loc, arg, orphans>>
    BY <1>10, <1>c DEF Recreate, RestoreCreate
  <2>2. snapshot \in Bodies
    BY <1>a, <1>b, <2>1 DEF ShapeInv, CallShape
  <2>3. OnlyMoves(c) /\ at'[c] = "idle" /\ left'[c] = at[c]
    BY <1>10, <1>b DEF Recreate, RestoreCreate, Reraise, Answered, Leave, OnlyMoves
  <2>4. \A t \in Targets : cr'[t].phase # "live" => cr[t].phase # "live"
    BY <1>10, <1>b, <2>2, CreatedLive DEF Recreate, RestoreCreate, Answered
  <2>5. \A t \in Targets : Explains(c, t) => Explains(c, t)'
    BY <2>1, <2>3 DEF Explains, Subject, GaveUp
  <2> QED
    BY <2>1, <2>3, <2>4, <2>5, QuietStep
<1>11. ASSUME NEW c \in Callers, RestoreTimedOut(c) PROVE Rest
  <2>1. /\ left[c] = "idle" /\ at[c] = "restoring"
        /\ UNCHANGED <<cr, op, loc, arg, orphans>>
    BY <1>11, <1>c DEF RestoreTimedOut
  <2>2. OnlyMoves(c) /\ at'[c] = "idle" /\ left'[c] = "restoring"
    BY <1>11, <1>b DEF RestoreTimedOut, Reraise, Leave, OnlyMoves
  <2>3. \A t \in Targets : Explains(c, t) => Explains(c, t)'
    BY <2>1, <2>2 DEF Explains, Subject, GaveUp
  <2> QED
    BY <2>1, <2>2, <2>3, QuietStep
<1>16. ASSUME NEW c \in Callers, WaitFails(c) PROVE Rest
  <2>1. /\ left[c] = "idle" /\ at[c] \in {"waiting", "restoring"} /\ "api" \in Faults
        /\ op[c] \in {"apply", "rollback"} /\ UNCHANGED <<cr, op, loc, arg, orphans>>
    BY <1>16, <1>c DEF WaitFails
  <2>2. OnlyMoves(c) /\ at'[c] = "idle" /\ left'[c] = at[c]
    BY <1>16, <1>b DEF WaitFails, Reraise, Leave, OnlyMoves
  <2>3. at[c] = "waiting" /\ op[c] = "apply" => result'[c] = "failed"
    BY <1>16, <1>b DEF WaitFails, Leave
  <2>4. \A t \in Targets : Explains(c, t) => Explains(c, t)'
    BY <2>1, <2>2, <2>3 DEF Explains, Subject, GaveUp
  <2> QED
    BY <2>1, <2>2, <2>4, QuietStep
<1>12. ASSUME NEW c \in Callers, Interrupt(c) PROVE Rest
  <2>1. /\ at[c] # "idle" /\ UNCHANGED <<cr, op, arg>>
        /\ orphans' = orphans \cup InFlight(c)
    BY <1>12 DEF Interrupt
  <2>2. left[c] = "idle" /\ op[c] # "none"
    BY <1>a, <2>1, UnderWay DEF ShapeInv, CallShape
  <2>3. /\ OnlyMoves(c)
        /\ \/ at[c] = "waiting" /\ op[c] = "apply" /\ at'[c] = "restoring"
           \/ ~(at[c] = "waiting" /\ op[c] = "apply") /\ UNCHANGED loc
              /\ at'[c] = "idle" /\ left'[c] = at[c]
    BY <1>12, <1>b DEF Interrupt, Restore, Goto, Leave, OnlyMoves
  <2>4. \A t \in Targets : Explains(c, t) => Explains(c, t)'
    <3>1. op[c] \in {"apply", "rollback"}
      BY <1>b, <2>2
    <3> QED
      BY <2>1, <2>2, <2>3, <3>1 DEF Explains, Subject, Replacing, GaveUp
  <2>5. AtTarget'
    BY <2>1, <2>3 DEF MissingInv, AtTarget, OnlyMoves
  <2>6. AwayExplained'
    BY <2>1, <2>3, <2>4, AwayStep DEF MissingInv
  <2>7. ASSUME NEW r \in orphans' \ orphans, r.verb = "delete"
        PROVE  Subject(c)' = r.loc /\ left'[c] = "deleting"
    <3>1. r \in InFlight(c)
      BY <2>1
    <3>2. at[c] = "deleting" /\ r.loc = loc[c]
      BY <2>7, <3>1 DEF InFlight
    <3>3. op[c] = "apply" => arg[c].target = loc[c]
      BY <3>2 DEF MissingInv, AtTarget
    <3> QED
      BY <2>1, <2>3, <3>2, <3>3 DEF Subject
  <2>8. OrphansExplained'
    BY <1>a, <2>2, <2>3, <2>7, OrphansStep DEF MissingInv
  <2> QED
    BY <2>5, <2>6, <2>8
<1>13. ASSUME NEW r \in orphans, Orphaned(r) PROVE Rest
  <2>1. /\ orphans' \subseteq orphans /\ UNCHANGED callVars
        /\ r.loc \in Targets /\ r.body \in Bodies
    BY <1>13, <1>a DEF Orphaned, ShapeInv, ReplaceTypeOK, Requests
  <2>2. \A t \in Targets : cr'[t].phase # "live" =>
           cr[t].phase # "live" \/ (r.verb = "delete" /\ t = r.loc)
    BY <1>13, <1>b, <2>1, DeletedAway, CreatedLive DEF Orphaned
  <2>3. ASSUME NEW t \in Targets, cr'[t].phase # "live"
        PROVE  \E c \in Callers : Explains(c, t)
    <3>1. CASE cr[t].phase # "live"
      BY <3>1 DEF MissingInv, AwayExplained
    <3>2. CASE r.verb = "delete" /\ t = r.loc
      BY <3>2 DEF MissingInv, OrphansExplained, Explains, GaveUp
    <3> QED
      BY <2>2, <2>3, <3>1, <3>2
  <2> QED
    BY <2>1, <2>3 DEF callVars, MissingInv, AtTarget, AwayExplained, OrphansExplained,
                      Explains, Subject, Replacing, GaveUp
<1>14. ASSUME NEW t \in Targets, Gone(t) PROVE Rest
  <2>1. \A u \in Targets : cr'[u].phase # "live" => cr[u].phase # "live"
    BY <1>14, <1>b DEF Gone, Clusters
  <2> QED
    BY <1>14, <2>1 DEF Gone, callVars, MissingInv, AtTarget, AwayExplained, OrphansExplained,
                       Explains, Subject, Replacing, GaveUp
<1>15. ASSUME NEW t \in Targets, Retarget(t) PROVE Rest
  BY <1>15 DEF Retarget, callVars, MissingInv, AtTarget, AwayExplained, OrphansExplained,
               Explains, Subject, Replacing, GaveUp
<1> QED
  BY <1>a, <1>1, <1>2, <1>3, <1>4, <1>5, <1>6, <1>7, <1>8, <1>9, <1>10, <1>11, <1>12,
     <1>13, <1>14, <1>15, <1>16 DEF ReplaceStep, ReplaceNext, CallStep, Cancel, MissingInv

\* The initial states, in which every CR is there.
LEMMA MissingInit ==
  ASSUME ReplaceInit
  PROVE  MissingInv
BY ReplaceInitShape
   DEF ReplaceInit, MissingInv, AtTarget, AwayExplained, OrphansExplained

\* A CR is missing only while a call is replacing it or after a call gave it up
\* at one of the known places, when each target is in a namespace of its own.
THEOREM MissingCRsExplained ==
  ASSUME OneNamespace = FALSE
  PROVE  ReplaceSpec => []MissingExplained
<1>1. ReplaceInit => MissingInv
  BY MissingInit
<1>2. MissingInv /\ [ReplaceNext]_replaceVars => MissingInv'
  BY MissingStep DEF ReplaceStep
<1>3. MissingInv => MissingExplained
  BY DEF MissingInv, AwayExplained, MissingExplained, Explains
<1> QED
  BY <1>1, <1>2, <1>3, PTL DEF ReplaceSpec

(***************************************************************************)
(* What an apply would put back is the CR that was there, if no request to *)
(* the API server fails.                                                   *)
(***************************************************************************)

\* Two calls do not both have the lock, and one that has no place yet waits.
LEMMA OneHolds ==
  ASSUME ShapeInv, NEW c \in Callers, CallStep(c), NEW d \in Callers \ {c}
  PROVE  at[d] \in {"idle", "queued"}
<1>1. CASE Enter(c)
  BY <1>1, ReplaceAssumption DEF Enter, ShapeInv, ReplaceTypeOK
<1>2. CASE ~Enter(c)
  <2>1. at[c] \notin {"idle", "queued"}
    BY <1>2 DEF CallStep, Get, Delete, SeenGone, WaitTimedOut, WaitFails, Create,
               Recreate, RestoreSeesGone, RestoreTimedOut, RestoreCreate
  <2> QED BY <2>1 DEF ShapeInv, ReplaceTypeOK
<1> QED BY <1>1, <1>2

\* A request in a thread that creates the CR it is sent to.  Others are refused,
\* when each target is in a namespace of its own.
Fills(q, t) == q.verb = "create" /\ q.loc = t /\ q.body.target = t

\* An apply that has its snapshot and has not come to its end.
Keeping(c) ==
  op[c] = "apply" /\ at[c] \in {"deleting", "waiting", "creating", "restoring", "restore"}

\* A call that nobody else may fill this target for.
Clears(c, t) ==
  \/ at[c] \in {"waiting", "creating"} /\ loc[c] = t
  \/ Keeping(c) /\ arg[c].target = t

\* A CR that a call is about to create, or a request in a thread, is absent;
\* no such request goes on while a call replaces the CR, nor do two of them.
SnapshotInv ==
  /\ \A c \in Callers :
       /\ at[c] # "recreating"
       /\ at[c] = "creating" \/ (at[c] = "restore" /\ loc[c] = arg[c].target) =>
            cr[loc[c]].phase = "absent"
       /\ Keeping(c) => snapshot = Body(arg[c].target, cr[arg[c].target].spec)
  /\ \A t \in Targets, q \in orphans : Fills(q, t) =>
       /\ cr[t].phase = "absent" /\ \A c \in Callers : ~Clears(c, t)
       /\ \A p \in orphans : Fills(p, t) => p = q

LEMMA SnapshotInit == ReplaceInit => SnapshotInv
BY DEF ReplaceInit, SnapshotInv, Keeping

LEMMA SnapshotKept == SnapshotInv => SnapshotTrue
BY DEF SnapshotInv, SnapshotTrue, Keeping, Subject

\* A step of a call that has the lock or gets it.
LEMMA SnapshotCallStep ==
  ASSUME OneNamespace = FALSE, "api" \notin Faults, ShapeInv, AtTarget, SnapshotInv,
         NEW c \in Callers, CallStep(c)
  PROVE  SnapshotInv'
<1>a. /\ cr \in Clusters /\ target \in Targets /\ snapshot \in Bodies \cup {None}
      /\ loc \in [Callers -> Targets] /\ arg \in [Callers -> Bodies]
      /\ op \in [Callers -> {"none", "apply", "rollback"}]
      /\ at \in [Callers -> Places] /\ op[c] # "none"
  BY DEF ShapeInv, ReplaceTypeOK, Clusters, CallShape, CallStep, Enter, Get, Delete, SeenGone,
         WaitTimedOut, WaitFails, Create, Recreate, RestoreSeesGone, RestoreTimedOut, RestoreCreate
<1>b. \A d \in Callers \ {c} : at[d] \in {"idle", "queued"}
  BY OneHolds
<1> USE DEF Fail, Leave, Goto, Succeed, Reraise, Restore, Answered
<1>c. /\ \A d \in Callers \ {c} : at'[d] \in {"idle", "queued"} /\ op'[d] = op[d]
      /\ UNCHANGED <<op, orphans>>
  BY <1>a, <1>b DEF CallStep, Enter, Get, Delete, SeenGone, WaitTimedOut, WaitFails, Create,
                    Recreate, RestoreSeesGone, RestoreTimedOut, RestoreCreate
<1>d. ASSUME at'[c] # "recreating",
             at'[c] = "creating" \/ (at'[c] = "restore" /\ loc'[c] = arg'[c].target) =>
               cr'[loc'[c]].phase = "absent",
             Keeping(c)' => snapshot' = Body(arg'[c].target, cr'[arg'[c].target].spec),
             \A t \in Targets, q \in orphans : Fills(q, t) =>
               cr'[t].phase = "absent" /\ ~Clears(c, t)'
      PROVE  SnapshotInv'
  BY <1>b, <1>c, <1>d DEF SnapshotInv, Keeping, Clears
<1>e. \A t \in Targets, q \in orphans : Fills(q, t) => cr[t].phase = "absent" /\ ~Clears(c, t)
  BY DEF SnapshotInv
<1>1. CASE Enter(c)
  BY <1>1, <1>a, <1>d, <1>e DEF Enter, Keeping, Clears
<1>2. CASE Get(c)
  <2>1. CASE at'[c] = "idle" /\ UNCHANGED <<cr, op>>
    BY <2>1, <1>d, <1>e DEF Keeping, Clears
  <2>2. CASE /\ cr[loc[c]].phase # "absent" /\ at'[c] = "deleting"
             /\ snapshot' = Body(loc[c], cr[loc[c]].spec) /\ UNCHANGED <<cr, op, loc, arg>>
    <3>1. op[c] = "apply" /\ arg[c].target = loc[c]
      BY <1>2 DEF Get, ShapeInv, CallShape, AtTarget
    <3> QED BY <2>2, <3>1, <1>a, <1>d, <1>e DEF Keeping, Clears
  <2> QED BY <1>2, <1>a, <2>1, <2>2 DEF Get
<1>3. CASE Delete(c)
  <2>1. CASE at'[c] = "idle" /\ UNCHANGED <<cr, op>>
    BY <2>1, <1>d, <1>e DEF Keeping, Clears
  <2>2. CASE /\ at[c] = "deleting" /\ at'[c] = "waiting" /\ cr[loc[c]].phase # "absent"
             /\ cr' = [cr EXCEPT ![loc[c]].phase = "dying"] /\ UNCHANGED <<snapshot, op, loc, arg>>
    <3>1. /\ \A t \in Targets : cr'[t].spec = cr[t].spec
          /\ \A t \in Targets \ {loc[c]} : cr'[t] = cr[t]
      BY <1>a, <2>2 DEF Clusters
    <3>2. op[c] = "apply" => Keeping(c) /\ arg[c].target = loc[c] /\ arg[c].target \in Targets
      BY <1>a, <2>2 DEF Keeping, AtTarget, Bodies
    <3>3. Keeping(c)' => snapshot' = Body(arg'[c].target, cr'[arg'[c].target].spec)
      BY <2>2, <3>1, <3>2 DEF Keeping, SnapshotInv
    <3> QED BY <2>2, <3>1, <3>2, <3>3, <1>a, <1>d, <1>e DEF Keeping, Clears
  <2> QED BY <1>3, <1>a, <2>1, <2>2 DEF Delete, Deleted
<1>4. CASE SeenGone(c)
  BY <1>4, <1>a, <1>d, <1>e DEF SeenGone, Keeping, Clears, SnapshotInv
<1>5. CASE WaitTimedOut(c)
  BY <1>5, <1>a, <1>d, <1>e DEF WaitTimedOut, Keeping, Clears, SnapshotInv
<1>6. CASE Create(c)
  <2>1. /\ at[c] = "creating" /\ cr[loc[c]].phase = "absent"
        /\ op[c] = "apply" => arg[c].target = loc[c]
        /\ UNCHANGED <<snapshot, loc, arg>>
    BY <1>6 DEF Create, SnapshotInv, AtTarget
  <2>2. op[c] = "apply" => Created(loc[c], arg[c]) # None
    <3> DEFINE b == arg[c]
    <3>1. CASE op[c] = "apply"
      <4>1. /\ Created(loc[c], b) = [cr EXCEPT ![b.target] = [phase |-> "live", spec |-> b.spec]]
            /\ b.spec \in Specs
        BY <1>a, <2>1, <3>1 DEF Created, Bodies
      <4>2. /\ b.target \in Targets
            /\ [phase |-> "live", spec |-> b.spec] \in [phase : Phases, spec : Specs]
        BY <1>a DEF Bodies, Phases
      <4>3. Created(loc[c], b) \in Clusters
        BY <1>a, <4>1, <4>2 DEF Clusters
      <4> QED BY <4>3, NoneIsNoCluster DEF Clusters
    <3> QED BY <3>1
  <2>3. at'[c] = "idle"
    BY <1>6, <1>a, <2>2 DEF Create
  <2>4. ASSUME NEW t \in Targets, NEW q \in orphans, Fills(q, t) PROVE cr'[t].phase = "absent"
    <3>1. cr[t].phase = "absent" /\ loc[c] # t
      BY <1>e, <2>1, <2>4 DEF Clears
    <3>2. cr' = cr \/ (Created(loc[c], arg[c]) # None /\ cr' = Created(loc[c], arg[c]))
      BY <1>6 DEF Create
    <3>3. cr'[t] = cr[t]
      BY <1>a, <3>1, <3>2 DEF Created, Clusters
    <3> QED BY <3>1, <3>3
  <2> QED BY <1>d, <2>3, <2>4 DEF Keeping, Clears
<1>7. CASE Recreate(c)
  BY <1>7 DEF Recreate, SnapshotInv
<1>8. CASE RestoreSeesGone(c)
  BY <1>8, <1>a, <1>d, <1>e DEF RestoreSeesGone, Keeping, Clears, SnapshotInv
<1>9. CASE RestoreTimedOut(c)
  BY <1>9, <1>a, <1>d, <1>e DEF RestoreTimedOut, Keeping, Clears
<1>10. CASE RestoreCreate(c)
  <2>1. /\ at[c] = "restore" /\ op[c] = "apply" /\ at'[c] = "idle" /\ Keeping(c)
        /\ snapshot.target = arg[c].target /\ snapshot \in Bodies
    BY <1>10, <1>a DEF RestoreCreate, ShapeInv, CallShape, SnapshotInv, Keeping, Body, Past, Places
  <2>2. ASSUME NEW t \in Targets, NEW q \in orphans, Fills(q, t) PROVE cr'[t].phase = "absent"
    <3>1. cr[t].phase = "absent" /\ snapshot.target # t
      BY <1>e, <2>1, <2>2 DEF Clears
    <3>2. cr' = cr \/ (Created(loc[c], snapshot) # None /\ cr' = Created(loc[c], snapshot))
      BY <1>10 DEF RestoreCreate
    <3>3. cr'[t] = cr[t]
      BY <1>a, <2>1, <3>1, <3>2 DEF Created, Clusters
    <3> QED BY <3>1, <3>3
  <2> QED BY <1>d, <2>1, <2>2 DEF Keeping, Clears
<1>11. CASE WaitFails(c)
  BY <1>11 DEF WaitFails
<1> QED BY <1>1, <1>2, <1>3, <1>4, <1>5, <1>6, <1>7, <1>8, <1>9, <1>10, <1>11 DEF CallStep

\* A call that is cut off leaves the request it waits for to a thread.
LEMMA SnapshotInterrupt ==
  ASSUME ShapeInv, AtTarget, SnapshotInv, NEW c \in Callers, Interrupt(c)
  PROVE  SnapshotInv'
<1>a. /\ cr \in Clusters /\ target \in Targets /\ snapshot \in Bodies \cup {None}
      /\ loc \in [Callers -> Targets] /\ arg \in [Callers -> Bodies]
      /\ at \in [Callers -> Places]
      /\ \A d \in Callers : holder = d <=> at[d] \notin {"idle", "queued"}
  BY DEF ShapeInv, ReplaceTypeOK, Clusters
<1>1. /\ at[c] # "idle" /\ UNCHANGED <<cr, target, snapshot, op, arg>>
      /\ orphans' = orphans \cup InFlight(c)
      /\ \A d \in Callers \ {c} : at'[d] = at[d] /\ loc'[d] = loc[d]
      /\ \/ at[c] = "waiting" /\ op[c] = "apply" /\ at'[c] = "restoring"
         \/ at'[c] = "idle"
  BY <1>a DEF Interrupt, Restore, Goto, Leave
<1>2. \A d \in Callers : Keeping(d)' => Keeping(d)
  BY <1>1 DEF Keeping
<1>3. \A d \in Callers, t \in Targets : Clears(d, t)' => Clears(d, t)
  BY <1>1 DEF Clears, Keeping
<1>4. ASSUME NEW d \in Callers
      PROVE  /\ at'[d] # "recreating"
             /\ at'[d] = "creating" \/ (at'[d] = "restore" /\ loc'[d] = arg'[d].target) =>
                  cr'[loc'[d]].phase = "absent"
             /\ Keeping(d)' => snapshot' = Body(arg'[d].target, cr'[arg'[d].target].spec)
  BY <1>1, <1>2 DEF SnapshotInv
<1>5. ASSUME NEW t \in Targets, NEW q \in InFlight(c), Fills(q, t)
      PROVE  /\ cr[t].phase = "absent" /\ at'[c] = "idle" /\ Clears(c, t)
             /\ \A d \in Callers \ {c} : at[d] \in {"idle", "queued"}
             /\ \A p \in InFlight(c) : p = q
  <2>1. at[c] \in {"creating", "restore"} /\ q.loc = loc[c] /\ loc[c] = t
    BY <1>5 DEF InFlight, Fills, SnapshotInv
  <2>2. at[c] = "restore" => /\ op[c] = "apply" /\ q.body = snapshot /\ Keeping(c)
                             /\ snapshot = Body(arg[c].target, cr[arg[c].target].spec)
    BY <1>5, <2>1 DEF InFlight, ShapeInv, CallShape, Keeping, SnapshotInv
  <2>3. at[c] = "restore" => arg[c].target = t
    BY <1>5, <2>2 DEF Fills, Body
  <2> QED BY <1>a, <1>1, <2>1, <2>2, <2>3 DEF SnapshotInv, Clears, InFlight
<1>6. ASSUME NEW t \in Targets, NEW q \in orphans', Fills(q, t)
      PROVE  /\ cr'[t].phase = "absent" /\ \A d \in Callers : ~Clears(d, t)'
             /\ \A p \in orphans' : Fills(p, t) => p = q
  <2>1. CASE \E p \in InFlight(c) : Fills(p, t)
    <3>1. \A p \in orphans : ~Fills(p, t)
      BY <1>5, <2>1 DEF SnapshotInv
    <3>2. \A d \in Callers : ~Clears(d, t)'
      BY <1>1, <1>5, <2>1 DEF Clears, Keeping
    <3> QED BY <1>1, <1>5, <1>6, <2>1, <3>1, <3>2
  <2>2. CASE \A p \in InFlight(c) : ~Fills(p, t)
    BY <1>1, <1>3, <1>6, <2>2 DEF SnapshotInv
  <2> QED BY <2>1, <2>2
<1> QED BY <1>4, <1>6 DEF SnapshotInv, Fills

\* SnapshotInv is inductive when no request fails and each target is in a
\* namespace of its own.
LEMMA SnapshotStep ==
  ASSUME OneNamespace = FALSE, "api" \notin Faults, MissingInv, SnapshotInv, ReplaceStep
  PROVE  SnapshotInv'
<1>a. ShapeInv /\ AtTarget /\ cr \in Clusters
  BY DEF MissingInv, ShapeInv, ReplaceTypeOK, Clusters
<1>1. CASE UNCHANGED replaceVars
  BY <1>1 DEF replaceVars, callVars, SnapshotInv, Keeping, Clears
<1>2. ASSUME NEW c \in Callers, (\E s \in Specs : Apply(c, s)) \/ Rollback(c) PROVE SnapshotInv'
  <2>1. /\ UNCHANGED <<cr, snapshot, orphans, loc>>
        /\ \A d \in Callers \ {c} : op'[d] = op[d] /\ at'[d] = at[d] /\ arg'[d] = arg[d]
        /\ at'[c] = "queued"
    BY <1>2, <1>a DEF Apply, Rollback, ShapeInv, ReplaceTypeOK
  <2> QED BY <2>1 DEF SnapshotInv, Keeping, Clears
<1>3. ASSUME NEW q \in orphans, Orphaned(q) PROVE SnapshotInv'
  <2>1. /\ UNCHANGED <<snapshot, callVars>> /\ orphans' = orphans \ {q}
        /\ q.loc \in Targets /\ q.body \in Bodies /\ q.body.target \in Targets
    BY <1>3, <1>a DEF Orphaned, ShapeInv, ReplaceTypeOK, Requests, Bodies
  <2>2. CASE \A t \in Targets : /\ cr'[t].spec = cr[t].spec
                                /\ cr[t].phase = "absent" => cr'[t] = cr[t]
    <3>1. \A c \in Callers : Keeping(c) => arg[c].target \in Targets
      BY <1>a DEF ShapeInv, ReplaceTypeOK, Bodies
    <3>2. loc \in [Callers -> Targets]
      BY <1>a DEF ShapeInv, ReplaceTypeOK
    <3> QED BY <2>1, <2>2, <3>1, <3>2 DEF callVars, SnapshotInv, Keeping, Clears
  <2>3. CASE q.verb = "create" /\ Created(q.loc, q.body) # None /\ cr' = Created(q.loc, q.body)
    <3> DEFINE t == q.body.target
    <3>1. Fills(q, t) /\ \A u \in Targets \ {t} : cr'[u] = cr[u]
      BY <1>a, <2>1, <2>3 DEF Created, Clusters, Fills
    <3>2. /\ \A c \in Callers : ~Clears(c, t)
          /\ \A p \in orphans' : ~Fills(p, t)
      BY <2>1, <3>1 DEF SnapshotInv
    <3>3. \A c \in Callers : Keeping(c) => arg[c].target \in Targets \ {t}
      BY <1>a, <3>2 DEF ShapeInv, ReplaceTypeOK, Bodies, Clears
    <3>4. \A c \in Callers :
            at[c] = "creating" \/ (at[c] = "restore" /\ loc[c] = arg[c].target)
              => loc[c] \in Targets \ {t}
      BY <1>a, <3>2 DEF ShapeInv, ReplaceTypeOK, CallShape, Clears, Keeping
    <3> HIDE DEF t
    <3> QED BY <2>1, <3>1, <3>2, <3>3, <3>4 DEF callVars, SnapshotInv, Keeping, Clears
  <2>4. q.verb = "delete" => \A t \in Targets : /\ cr'[t].spec = cr[t].spec
                                                 /\ (cr[t].phase = "absent" => cr'[t] = cr[t])
    BY <1>3, <1>a, <2>1 DEF Orphaned, Deleted, Clusters
  <2> QED BY <1>3, <1>a, <2>2, <2>3, <2>4 DEF Orphaned, ShapeInv, ReplaceTypeOK, Requests
<1>4. ASSUME NEW t \in Targets, Gone(t) \/ Retarget(t) PROVE SnapshotInv'
  <2>1. /\ UNCHANGED <<snapshot, callVars, orphans>>
        /\ \A u \in Targets : /\ cr'[u].spec = cr[u].spec
                              /\ cr[u].phase = "absent" => cr'[u].phase = "absent"
    BY <1>4, <1>a DEF Gone, Retarget, Clusters
  <2>2. \A c \in Callers : loc[c] \in Targets /\ arg[c].target \in Targets
    BY <1>a DEF ShapeInv, ReplaceTypeOK, Bodies
  <2> QED BY <2>1, <2>2 DEF callVars, SnapshotInv, Keeping, Clears
<1> QED BY <1>a, <1>1, <1>2, <1>3, <1>4, SnapshotCallStep, SnapshotInterrupt
        DEF ReplaceStep, ReplaceNext, Cancel

\* What an apply would put back is what was last in the cluster, for any number
\* of callers and targets, cancelled calls and slow deletions, when no request
\* to the API server fails and each target is in a namespace of its own.  Both
\* are needed: three calls that share a namespace, or one request that fails
\* beside a cancelled call, put back a CR that somebody else has replaced since.
THEOREM SnapshotsTrue ==
  ASSUME OneNamespace = FALSE, "api" \notin Faults
  PROVE  ReplaceSpec => []SnapshotTrue
<1>1. ReplaceInit => MissingInv /\ SnapshotInv
  BY MissingInit, SnapshotInit
<1>2. MissingInv /\ SnapshotInv /\ [ReplaceNext]_replaceVars => MissingInv' /\ SnapshotInv'
  BY MissingStep, SnapshotStep DEF ReplaceStep
<1>3. SnapshotInv => SnapshotTrue
  BY SnapshotKept
<1> QED BY <1>1, <1>2, <1>3, PTL DEF ReplaceSpec
=============================================================================

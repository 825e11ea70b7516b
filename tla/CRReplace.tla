----------------------------- MODULE CRReplace -----------------------------
(***************************************************************************)
(* K8sOperator (services/k8s_operator.py): the InferenceService is changed *)
(* by deleting it, waiting until it is gone and creating it anew.  Calls   *)
(* of apply_params and rollback_to_snapshot take turns under one lock; the *)
(* auto-tuner makes them for its trials and POST /apply-best makes them    *)
(* too.                                                                    *)
(*                                                                         *)
(* Every request to the API server runs in a thread (asyncio.to_thread).   *)
(* Cancelling the coroutine that waits for it does not stop the thread, so *)
(* such a request is carried out later, whoever holds the lock by then.    *)
(***************************************************************************)
EXTENDS Naturals, FiniteSets

CONSTANTS Callers,       \* each makes one apply, and may roll it back
          Targets,       \* the CRs the operator may be pinned to
          Specs,         \* argument sets an apply may ask for
          Original,      \* the arguments deployed by the user
          OneNamespace,  \* whether all targets are in one namespace
          Faults,        \* of the environment, see FaultKinds
          None

\* cancel: AutoTuner.stop cancels the task.  api: a request fails, perhaps
\* after it took effect.  slow: the deletion outlasts _wait_for_deletion.
\* stuck: it also outlasts the longer wait of _recreate_from_snapshot.
FaultKinds == {"cancel", "api", "slow", "stuck"}

ASSUME ReplaceAssumption ==
  /\ Original \in Specs /\ OneNamespace \in BOOLEAN /\ Faults \subseteq FaultKinds
  /\ None \notin Callers /\ None \notin Targets
  /\ None \notin [target : Targets, spec : Specs]
  /\ Targets # {}

VARIABLES
  cr,         \* the CRs in the cluster; a spec stays noted when its CR is gone
  target,     \* K8sOperator._target
  snapshot,   \* K8sOperator._is_args_snapshot
  holder,     \* who has AutoTuner._k8s_lock
  op,         \* the method each caller called last
  at,         \* where that call is suspended
  loc,        \* its namespace and is_name
  arg,        \* what it is to create
  result,     \* its outcome, "none" while it has none
  left,       \* where the call was when it ended without success
  cancelled,  \* callers whose task was cancelled
  orphans     \* requests going on in threads nobody waits for

callVars == <<op, at, loc, arg, result, left, cancelled>>
replaceVars == <<cr, target, snapshot, holder, orphans, callVars>>

-----------------------------------------------------------------------------
Bodies == [target : Targets, spec : Specs]
Phases == {"live", "dying", "absent"}

\* The answer None is no state of the cluster.
ASSUME NoneIsNoCluster == None \notin [Targets -> [phase : Phases, spec : Specs]]

Places == {"idle", "queued", "getting", "deleting", "waiting", "creating",
           "recreating", "restoring", "restore"}
Requests == [verb : {"delete", "create"}, loc : Targets, body : Bodies]

Body(t, s) == [target |-> t, spec |-> s]

\* What the API server does; None is what it answers 404 or 409 to.
Deleted(t) ==
  IF cr[t].phase = "absent" THEN None ELSE [cr EXCEPT ![t].phase = "dying"]

\* The path holds a namespace only, the name is in the body; a namespace that
\* is not the body's own is refused.
Created(t, b) ==
  IF cr[b.target].phase = "absent" /\ (t = b.target \/ OneNamespace)
  THEN [cr EXCEPT ![b.target] = [phase |-> "live", spec |-> b.spec]]
  ELSE None

ReplaceInit ==
  /\ cr = [t \in Targets |-> [phase |-> "live", spec |-> Original]]
  /\ target \in Targets
  /\ snapshot = None /\ holder = None /\ orphans = {} /\ cancelled = {}
  /\ op = [c \in Callers |-> "none"]
  /\ at = [c \in Callers |-> "idle"]
  /\ loc = [c \in Callers |-> target]
  /\ arg = [c \in Callers |-> Body(target, Original)]
  /\ result = [c \in Callers |-> "none"]
  /\ left = [c \in Callers |-> "idle"]

-----------------------------------------------------------------------------
(* Ways a call ends.  The lock is given back.                              *)

Succeed(c) ==
  /\ result' = [result EXCEPT ![c] = "ok"]
  /\ at' = [at EXCEPT ![c] = "idle"]
  /\ holder' = None
  /\ UNCHANGED left

\* failed: the caller is told so; raised: an exception reaches the caller.
Leave(c, how) ==
  /\ result' = [result EXCEPT ![c] = how]
  /\ left' = [left EXCEPT ![c] = at[c]]
  /\ at' = [at EXCEPT ![c] = "idle"]
  /\ holder' = IF holder = c THEN None ELSE holder

\* apply_params turns every exception into an answer, rollback_to_snapshot
\* only an ApiException; CancelledError is none of these.
Fail(c) ==
  \/ Leave(c, "failed")
  \/ op[c] = "rollback" /\ "api" \in Faults /\ Leave(c, "raised")

Goto(c, place) ==
  /\ at' = [at EXCEPT ![c] = place]
  /\ UNCHANGED <<result, left, holder>>

-----------------------------------------------------------------------------
Apply(c, s) ==
  /\ op[c] = "none" /\ c \notin cancelled
  /\ op' = [op EXCEPT ![c] = "apply"]
  /\ at' = [at EXCEPT ![c] = "queued"]
  /\ arg' = [arg EXCEPT ![c].spec = s]
  /\ UNCHANGED <<cr, target, snapshot, holder, orphans, loc, result, left, cancelled>>

Rollback(c) ==
  /\ op[c] = "apply" /\ result[c] = "ok" /\ c \notin cancelled
  /\ op' = [op EXCEPT ![c] = "rollback"]
  /\ result' = [result EXCEPT ![c] = "none"]
  /\ at' = [at EXCEPT ![c] = "queued"]
  /\ UNCHANGED <<cr, target, snapshot, holder, orphans, loc, arg, left, cancelled>>

\* The lock is had and the target read; a rollback takes the body from the
\* snapshot now and has nothing to read first.
Enter(c) ==
  /\ at[c] = "queued" /\ holder = None
  /\ holder' = c
  /\ loc' = [loc EXCEPT ![c] = target]
  /\ IF op[c] = "apply"
     THEN /\ arg' = [arg EXCEPT ![c].target = target]
          /\ at' = [at EXCEPT ![c] = "getting"]
     ELSE /\ arg' = [arg EXCEPT ![c] = snapshot]
          /\ at' = [at EXCEPT ![c] = "deleting"]
  /\ UNCHANGED <<cr, target, snapshot, orphans, op, result, left, cancelled>>

\* Mutant: a snapshot once taken is kept.
GetKeepsSnapshot(c) ==
  /\ at[c] = "getting"
  /\ \/ /\ cr[loc[c]].phase # "absent"
        /\ snapshot' = IF snapshot = None THEN Body(loc[c], cr[loc[c]].spec) ELSE snapshot
        /\ Goto(c, "deleting")
     \/ /\ cr[loc[c]].phase = "absent" \/ "api" \in Faults
        /\ Fail(c)
        /\ UNCHANGED snapshot
  /\ UNCHANGED <<cr, target, orphans, op, loc, arg, cancelled>>

Get(c) ==
  /\ at[c] = "getting"
  /\ \/ /\ cr[loc[c]].phase # "absent"
        /\ snapshot' = Body(loc[c], cr[loc[c]].spec)
        /\ Goto(c, "deleting")
     \/ /\ cr[loc[c]].phase = "absent" \/ "api" \in Faults
        /\ Fail(c)
        /\ UNCHANGED snapshot
  /\ UNCHANGED <<cr, target, orphans, op, loc, arg, cancelled>>

\* A request of c with this effect on the cluster: it is carried out and
\* answered, or refused, or fails either way.
Answered(c, effect, Good, Bad) ==
  \/ effect # None /\ cr' = effect /\ Good
  \/ effect = None /\ UNCHANGED cr /\ Bad
  \/ effect # None /\ "api" \in Faults /\ cr' \in {cr, effect} /\ Bad

Delete(c) ==
  /\ at[c] = "deleting"
  /\ Answered(c, Deleted(loc[c]), Goto(c, "waiting"), Fail(c))
  /\ UNCHANGED <<target, snapshot, orphans, op, loc, arg, cancelled>>

\* _wait_for_deletion sees that the CR is gone.
SeenGone(c) ==
  /\ at[c] = "waiting" /\ cr[loc[c]].phase = "absent"
  /\ Goto(c, "creating")
  /\ UNCHANGED <<cr, target, snapshot, orphans, op, loc, arg, cancelled>>

\* What an apply does when its wait is cut short: _recreate_from_snapshot
\* reads the target again and waits once more.
Restore(c) ==
  /\ loc' = [loc EXCEPT ![c] = target]
  /\ Goto(c, "restoring")

WaitTimedOut(c) ==
  /\ at[c] = "waiting" /\ cr[loc[c]].phase # "absent"
  /\ "slow" \in Faults \/ cr[loc[c]].phase = "live"
  /\ IF op[c] = "apply" THEN Restore(c) ELSE Leave(c, "raised") /\ UNCHANGED loc
  /\ UNCHANGED <<cr, target, snapshot, orphans, op, arg, cancelled>>

\* The interruption goes on to the caller once the restore is over.
Reraise(c) == Leave(c, IF c \in cancelled THEN "raised" ELSE "failed")

\* A poll of the wait raises what is no ApiException: a connection that is
\* refused, a read that fails.  The guard of an apply's wait is for the timeout
\* and the cancellation; that of its restore is for everything.
WaitFails(c) ==
  /\ "api" \in Faults
  /\ \/ at[c] = "waiting" /\ Leave(c, IF op[c] = "apply" THEN "failed" ELSE "raised")
     \/ at[c] = "restoring" /\ Reraise(c)
  /\ UNCHANGED <<cr, target, snapshot, orphans, op, loc, arg, cancelled>>

Create(c) ==
  /\ at[c] = "creating"
  /\ Answered(c, Created(loc[c], arg[c]), Succeed(c),
              IF op[c] = "apply" THEN Goto(c, "recreating") ELSE Fail(c))
  /\ UNCHANGED <<target, snapshot, orphans, op, loc, arg, cancelled>>

\* The create failed: the snapshot is put back, whatever comes of it.
Recreate(c) ==
  /\ at[c] = "recreating"
  /\ Answered(c, Created(loc[c], snapshot), Leave(c, "failed"), Leave(c, "failed"))
  /\ UNCHANGED <<target, snapshot, orphans, op, loc, arg, cancelled>>

RestoreSeesGone(c) ==
  /\ at[c] = "restoring" /\ cr[loc[c]].phase = "absent"
  /\ Goto(c, "restore")
  /\ UNCHANGED <<cr, target, snapshot, orphans, op, loc, arg, cancelled>>

RestoreTimedOut(c) ==
  /\ at[c] = "restoring" /\ cr[loc[c]].phase # "absent"
  /\ "stuck" \in Faults \/ cr[loc[c]].phase = "live"
  /\ Reraise(c)
  /\ UNCHANGED <<cr, target, snapshot, orphans, op, loc, arg, cancelled>>

RestoreCreate(c) ==
  /\ at[c] = "restore"
  /\ Answered(c, Created(loc[c], snapshot), Reraise(c), Reraise(c))
  /\ UNCHANGED <<target, snapshot, orphans, op, loc, arg, cancelled>>

-----------------------------------------------------------------------------
(* Cancellation                                                            *)

\* The request a call waits for, if it changes the cluster.
InFlight(c) ==
  IF at[c] = "deleting" THEN {[verb |-> "delete", loc |-> loc[c], body |-> arg[c]]}
  ELSE IF at[c] = "creating" THEN {[verb |-> "create", loc |-> loc[c], body |-> arg[c]]}
  ELSE IF at[c] \in {"recreating", "restore"}
       THEN {[verb |-> "create", loc |-> loc[c], body |-> snapshot]}
  ELSE {}

\* Mutant: the deletion wait is guarded against TimeoutError only.
InterruptUnguarded(c) ==
  /\ at[c] # "idle" /\ c \notin cancelled
  /\ cancelled' = cancelled \cup {c}
  /\ Leave(c, "raised")
  /\ orphans' = orphans \cup InFlight(c)
  /\ UNCHANGED <<cr, target, snapshot, op, arg, loc>>

\* Only the deletion wait of an apply is guarded against CancelledError.
Interrupt(c) ==
  /\ at[c] # "idle" /\ c \notin cancelled
  /\ cancelled' = cancelled \cup {c}
  /\ IF at[c] = "waiting" /\ op[c] = "apply"
     THEN Restore(c)
     ELSE Leave(c, "raised") /\ UNCHANGED loc
  /\ orphans' = orphans \cup InFlight(c)
  /\ UNCHANGED <<cr, target, snapshot, op, arg>>

Cancel(c) == "cancel" \in Faults /\ Interrupt(c)

-----------------------------------------------------------------------------
(* The cluster                                                             *)

Orphaned(r) ==
  /\ r \in orphans
  /\ orphans' = orphans \ {r}
  /\ LET effect == IF r.verb = "delete" THEN Deleted(r.loc)
                   ELSE Created(r.loc, r.body)
     IN cr' = IF effect = None THEN cr ELSE effect
  /\ UNCHANGED <<target, snapshot, holder, callVars>>

\* The finalizers are done.
Gone(t) ==
  /\ cr[t].phase = "dying"
  /\ cr' = [cr EXCEPT ![t].phase = "absent"]
  /\ UNCHANGED <<target, snapshot, holder, orphans, callVars>>

(* POST /api/tuner/start pins another target. *)
Retarget(t) ==
  /\ target' = t
  /\ UNCHANGED <<cr, snapshot, holder, orphans, callVars>>

-----------------------------------------------------------------------------
CallStep(c) ==
  \/ Enter(c) \/ Get(c) \/ Delete(c) \/ SeenGone(c) \/ WaitTimedOut(c) \/ WaitFails(c)
  \/ Create(c) \/ Recreate(c)
  \/ RestoreSeesGone(c) \/ RestoreTimedOut(c) \/ RestoreCreate(c)

ReplaceNext ==
  \/ \E c \in Callers : (\E s \in Specs : Apply(c, s)) \/ Rollback(c)
  \/ \E c \in Callers : CallStep(c) \/ Cancel(c)
  \/ \E r \in orphans : Orphaned(r)
  \/ \E t \in Targets : Gone(t) \/ Retarget(t)

ReplaceSpec == ReplaceInit /\ [][ReplaceNext]_replaceVars
-----------------------------------------------------------------------------
(* Properties                                                              *)

ReplaceTypeOK ==
  /\ cr \in [Targets -> [phase : Phases, spec : Specs]]
  /\ target \in Targets /\ snapshot \in Bodies \cup {None}
  /\ holder \in Callers \cup {None}
  /\ op \in [Callers -> {"none", "apply", "rollback"}]
  /\ at \in [Callers -> Places] /\ left \in [Callers -> Places]
  /\ loc \in [Callers -> Targets] /\ arg \in [Callers -> Bodies]
  /\ result \in [Callers -> {"none", "ok", "failed", "raised"}]
  /\ cancelled \subseteq Callers /\ orphans \subseteq Requests
  /\ \A c \in Callers : holder = c <=> at[c] \notin {"idle", "queued"}

\* The CR a call sets out to replace.
Subject(c) == IF op[c] = "apply" THEN arg[c].target ELSE loc[c]

\* A call that has deleted its CR and not given up on it.
Replacing(c) ==
  at[c] \in {"waiting", "creating", "recreating", "restoring", "restore"}

\* What an apply would put back is what was last in the cluster: neither a
\* rollback, another apply nor a request left behind by a cancelled call comes
\* between its snapshot and its delete.  It takes both a failed create and a
\* cancelled one to break that; the run TS_many has no failed requests.
SnapshotTrue ==
  \A c \in Callers :
    LET t == Subject(c) IN
    /\ op[c] = "apply" /\ cr[t].phase # "live"
    /\ at[c] \in {"waiting", "creating", "restoring", "restore"}
    => snapshot = Body(t, cr[t].spec)

\* Places where the code gives the CR up: a request that was cut off or went
\* wrong, a restore that was, in an apply a poll of its wait that raised what the
\* guard does not catch, and in a rollback any end of the wait but the good one.
GaveUp(c) ==
  \/ left[c] \in {"deleting", "creating", "recreating", "restoring", "restore"}
  \/ left[c] = "waiting" /\ op[c] = "rollback"
  \/ left[c] = "waiting" /\ result[c] = "failed" /\ "api" \in Faults

\* A CR is missing only while a call is replacing it or after one gave it up.
\* An apply whose deletion wait times out or is cancelled, or that cannot create
\* the new CR, does not leave without an attempt to put the old one back.
\* Targets are in namespaces of their own: within one, a rollback after a new
\* target is pinned deletes the new target's CR and recreates the old one's.
MissingExplained ==
  \A t \in Targets : cr[t].phase = "absent" =>
    \E c \in Callers : Subject(c) = t /\ (Replacing(c) \/ GaveUp(c))

\* Every call ends, so the lock goes round.
CallsEnd == \A c \in Callers : at[c] # "idle" ~> at[c] = "idle"
=============================================================================

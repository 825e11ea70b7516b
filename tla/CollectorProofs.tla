--------------------------- MODULE CollectorProofs ----------------------------
(***************************************************************************)
(* Proofs about the collector, for any number of targets, requests and     *)
(* collections, however slow or many: one default target as soon as there  *)
(* is any, targets that a request finds again, rates that count no token   *)
(* twice, and the types.                                                   *)
(***************************************************************************)
EXTENDS Collector, TLAPS

Places == {"idle", "registering", "refreshing", "adding", "verifying", "asking", "collecting"}
Holding == {"refreshing", "adding"}

\* The collector's lock is that of the request that asks Kubernetes, and a
\* target that is being added is not there meanwhile: nobody else adds it.
RegistryInv ==
  /\ scene \in Scenes
  /\ pc \in [Requests -> Places]
  /\ asks \in [Requests -> Targets \cup {None}]
  /\ \A q \in Requests : pc[q] \in Holding => lock = {q}
  /\ \A q \in Requests : pc[q] = "adding" => asks[q] \notin targets
  /\ OneDefault

\* A step that does not touch the targets, and in which a request that has no
\* part of the lock moves to such a place, if any moves.
LEMMA QuietStep ==
  ASSUME RegistryInv, UNCHANGED <<scene, targets, default, lock>>,
         asks' \in [Requests -> Targets \cup {None}],
         NEW q \in Requests, NEW where \in Places \ Holding,
         pc[q] \notin Holding, pc' = [pc EXCEPT ![q] = where],
         \A p \in Requests \ {q} : asks'[p] = asks[p]
  PROVE  RegistryInv'
<1>1. pc' \in [Requests -> Places]
  BY DEF RegistryInv
<1>2. \A p \in Requests : pc'[p] \in Holding => p # q /\ pc[p] = pc'[p]
  BY DEF RegistryInv
<1>3. \A p \in Requests : pc'[p] \in Holding => lock' = {p}
  BY <1>2 DEF RegistryInv
<1>4. \A p \in Requests : pc'[p] = "adding" => asks'[p] \notin targets'
  BY <1>2 DEF RegistryInv, Holding
<1>5. OneDefault'
  BY DEF RegistryInv, OneDefault
<1> QED BY <1>1, <1>3, <1>4, <1>5 DEF RegistryInv

\* A step that leaves the registry and the requests alone.
LEMMA OtherStep ==
  ASSUME RegistryInv, UNCHANGED <<scene, targets, default, lock, pc, asks>>
  PROVE  RegistryInv'
BY DEF RegistryInv, OneDefault

\* A request that takes the lock, to add a target that is not there if to add.
LEMMA LockStep ==
  ASSUME RegistryInv, UNCHANGED <<scene, targets, default, asks>>, lock = {},
         NEW q \in Requests, NEW where \in Holding,
         where = "adding" => asks[q] \notin targets,
         pc' = [pc EXCEPT ![q] = where], lock' = {q}
  PROVE  RegistryInv'
<1>1. pc' \in [Requests -> Places]
  BY DEF RegistryInv, Places, Holding
<1>2. \A p \in Requests : pc'[p] \in Holding => p = q
  BY DEF RegistryInv
<1>3. pc'[q] = where
  BY DEF RegistryInv
<1>4. \A p \in Requests : pc'[p] = "adding" => asks'[p] \notin targets'
  BY <1>2, <1>3 DEF Holding
<1>5. OneDefault'
  BY DEF RegistryInv, OneDefault
<1> QED BY <1>1, <1>2, <1>4, <1>5 DEF RegistryInv

\* The request that has the lock gives it back.
LEMMA UnlockStep ==
  ASSUME RegistryInv, UNCHANGED <<scene, asks>>, OneDefault',
         NEW q \in Requests, pc[q] \in Holding,
         NEW where \in Places \ Holding, pc' = [pc EXCEPT ![q] = where]
  PROVE  RegistryInv'
<1>1. pc' \in [Requests -> Places]
  BY DEF RegistryInv
<1>2. \A p \in Requests \ {q} : pc[p] \notin Holding
  BY DEF RegistryInv
<1>3. \A p \in Requests : pc'[p] \notin Holding
  BY <1>2 DEF RegistryInv
<1> QED BY <1>1, <1>3 DEF RegistryInv, Holding

\* Cleanup spares the default target, and no target is being added: it waits
\* for the lock.
LEMMA CleanupStep ==
  ASSUME RegistryInv, Cleanup
  PROVE  RegistryInv'
<1>1. UNCHANGED <<scene, default, lock, pc, asks>> /\ targets' \subseteq targets
  BY DEF Cleanup, reqVars
<1>2. OneDefault'
  <2> SUFFICES ASSUME targets' # {} PROVE \E t \in targets' : default' = {t}
    BY DEF OneDefault
  <2>1. PICK t \in targets : default = {t}
    BY <1>1 DEF RegistryInv, OneDefault
  <2>2. t \in targets'
    BY <2>1 DEF Cleanup, Expired
  <2> QED BY <1>1, <2>1, <2>2
<1> QED BY <1>1, <1>2 DEF RegistryInv

\* The target that is added becomes the default if it is the only one, and is
\* not the default if it is not, since it was not there before.
LEMMA AddedStep ==
  ASSUME RegistryInv, NEW q \in Requests, Added(q)
  PROVE  RegistryInv'
<1>1. /\ UNCHANGED <<scene, asks>>
      /\ pc[q] = "adding" /\ pc' = [pc EXCEPT ![q] = "verifying"]
      /\ targets' = targets \cup {asks[q]}
      /\ default' = IF targets = {} THEN {asks[q]} ELSE default \ {asks[q]}
  BY DEF Added
<1>2. asks[q] \notin targets
  BY <1>1 DEF RegistryInv
<1>3. OneDefault'
  <2>1. CASE targets = {}
    BY <1>1, <2>1 DEF OneDefault
  <2>2. CASE targets # {}
    <3>1. PICK t \in targets : default = {t}
      BY <2>2 DEF RegistryInv, OneDefault
    <3>2. default' = {t} /\ t \in targets'
      BY <1>1, <1>2, <2>2, <3>1
    <3> QED BY <3>2 DEF OneDefault
  <2> QED BY <2>1, <2>2
<1> QED BY <1>1, <1>3, UnlockStep DEF Holding, Places

LEMMA RequestStep ==
  ASSUME RegistryInv, NEW q \in Requests, Request(q)
  PROVE  RegistryInv'
<1>1. CASE Touch(q)
  <2>1. /\ UNCHANGED <<scene, targets, default, lock, asks>>
        /\ pc[q] \notin Holding /\ pc' = [pc EXCEPT ![q] = "asking"]
    BY <1>1 DEF Touch, Holding
  <2> QED BY <2>1, QuietStep DEF Places, Holding, RegistryInv
<1>2. CASE Refresh(q)
  <2>1. /\ UNCHANGED <<scene, targets, default, asks>> /\ lock = {} /\ lock' = {q}
        /\ pc' = [pc EXCEPT ![q] = "refreshing"]
    BY <1>2 DEF Refresh
  <2> QED BY <2>1, LockStep DEF Holding
<1>3. CASE Refreshed(q)
  <2>1. /\ UNCHANGED <<scene, targets, default, asks>> /\ pc[q] \in Holding
        /\ pc' = [pc EXCEPT ![q] = "asking"]
    BY <1>3 DEF Refreshed, Holding
  <2>2. OneDefault'
    BY <2>1 DEF RegistryInv, OneDefault
  <2> QED BY <2>1, <2>2, UnlockStep DEF Places, Holding
<1>4. CASE Add(q)
  <2>1. /\ UNCHANGED <<scene, targets, default, asks>> /\ lock = {} /\ lock' = {q}
        /\ pc' = [pc EXCEPT ![q] = "adding"] /\ asks[q] \notin targets
    BY <1>4 DEF Add, regVars
  <2> QED BY <2>1, LockStep DEF Holding
<1>5. CASE Added(q)
  BY <1>5, AddedStep
<1>6. CASE CRVerified(q)
  <2>1. /\ UNCHANGED <<scene, targets, default, lock, asks>>
        /\ pc[q] \notin Holding /\ pc' = [pc EXCEPT ![q] = "asking"]
    BY <1>6 DEF CRVerified, Holding, regVars
  <2> QED BY <2>1, QuietStep DEF Places, Holding, RegistryInv
<1>7. CASE GetMetrics(q)
  <2>1. UNCHANGED <<scene, targets, default, lock>> /\ pc[q] \notin Holding
    BY <1>7 DEF GetMetrics, Holding
  <2>2. CASE pc' = [pc EXCEPT ![q] = "collecting"] /\ UNCHANGED asks
    BY <2>1, <2>2, QuietStep DEF Places, Holding, RegistryInv
  <2>3. CASE Answered(q)
    <3>1. /\ pc' = [pc EXCEPT ![q] = "idle"]
          /\ asks' \in [Requests -> Targets \cup {None}]
          /\ \A p \in Requests \ {q} : asks'[p] = asks[p]
      BY <2>3 DEF Answered, RegistryInv
    <3> QED BY <2>1, <3>1, QuietStep DEF Places, Holding
  <2> QED BY <1>7, <2>2, <2>3 DEF GetMetrics
<1>8. CASE CollectedNow(q)
  <2>1. /\ UNCHANGED <<scene, targets, default, lock>> /\ pc[q] \notin Holding
        /\ pc' = [pc EXCEPT ![q] = "idle"]
        /\ asks' \in [Requests -> Targets \cup {None}]
        /\ \A p \in Requests \ {q} : asks'[p] = asks[p]
    BY <1>8 DEF CollectedNow, Answered, Holding, regVars, RegistryInv
  <2> QED BY <2>1, QuietStep DEF Places, Holding, RegistryInv
<1> QED BY <1>1, <1>2, <1>3, <1>4, <1>5, <1>6, <1>7, <1>8 DEF Request

LEMMA RegistryInvNext == RegistryInv /\ [Next]_vars => RegistryInv'
<1> SUFFICES ASSUME RegistryInv, [Next]_vars
             PROVE  RegistryInv'
  OBVIOUS
<1>1. ASSUME NEW t \in Targets, Generates(t) \/ PodRestarts(t)
      PROVE  RegistryInv'
  BY <1>1, OtherStep DEF Generates, PodRestarts, regVars, reqVars
<1>2. CASE Tick \/ StartCollection \/ Stop
  BY <1>2, OtherStep DEF Tick, StartCollection, Stop, regVars, reqVars
<1>3. ASSUME NEW q \in Requests, Arrive(q)
      PROVE  RegistryInv'
  <2>1. /\ UNCHANGED <<scene, targets, default, lock>> /\ pc[q] \notin Holding
        /\ pc' = [pc EXCEPT ![q] = "registering"]
        /\ asks' \in [Requests -> Targets \cup {None}]
        /\ \A p \in Requests \ {q} : asks'[p] = asks[p]
    BY <1>3, CollectorAssumption DEF Arrive, Holding, regVars, RegistryInv
  <2> QED BY <2>1, QuietStep DEF Places, Holding, RegistryInv
<1>4. ASSUME NEW q \in Requests, Request(q)
      PROVE  RegistryInv'
  BY <1>4, RequestStep
<1>5. ASSUME NEW c \in Collectors, Collection(c)
      PROVE  RegistryInv'
  BY <1>5, OtherStep
     DEF Collection, Scrape, Store, CollectFails, regVars, reqVars
<1>6. CASE CollectActive \/ LoopSleeps
  BY <1>6, OtherStep DEF CollectActive, LoopSleeps, regVars, reqVars
<1>7. CASE Cleanup
  BY <1>7, CleanupStep
<1>8. CASE UNCHANGED vars
  BY <1>8, OtherStep DEF vars, regVars, reqVars
<1> QED BY <1>1, <1>2, <1>3, <1>4, <1>5, <1>6, <1>7, <1>8 DEF Next

\* There is one default target as soon as there is any, for any number of
\* targets that come and go and of requests that register them at once.
THEOREM DefaultKept == Spec => []OneDefault
<1>1. Init => RegistryInv
  BY DEF Init, RegistryInv, OneDefault, Places, Holding
<1>2. RegistryInv => OneDefault
  BY DEF RegistryInv
<1> QED BY <1>1, <1>2, RegistryInvNext, PTL DEF Spec

-----------------------------------------------------------------------------
(* What a request registers is there until it is answered                  *)

Registered == {"refreshing", "verifying", "asking"}

\* A target that a request has registered was accessed since the request
\* arrived, and is there unless the request is older than the timeout.
OnTime(q) ==
  /\ began[q] <= clock
  /\ pc[q] # "idle" => asks[q] \in Targets

Known(q) ==
  pc[q] \in Registered =>
    /\ asks[q] \in targets \/ clock - began[q] > Timeout
    /\ began[q] <= accessed[asks[q]]

FoundInv ==
  /\ RegistryInv
  /\ targets \subseteq Targets
  /\ clock \in Nat /\ began \in [Requests -> Nat] /\ accessed \in [Targets -> Nat]
  /\ \A t \in Targets : accessed[t] <= clock
  /\ \A q \in Requests : OnTime(q) /\ Known(q)

\* A step of one request, which may register or access a target.
LEMMA OneRequestMoves ==
  ASSUME FoundInv, RegistryInv', clock' = clock,
         targets \subseteq targets', targets' \subseteq Targets,
         accessed' \in [Targets -> Nat], began' \in [Requests -> Nat],
         \A t \in Targets : accessed[t] <= accessed'[t] /\ accessed'[t] <= clock,
         NEW q \in Requests,
         \A p \in Requests \ {q} :
           pc'[p] = pc[p] /\ asks'[p] = asks[p] /\ began'[p] = began[p],
         OnTime(q)', Known(q)'
  PROVE  FoundInv'
<1>1. ASSUME NEW p \in Requests \ {q}
      PROVE  OnTime(p)' /\ Known(p)'
  <2>1. OnTime(p)'
    BY <1>1 DEF FoundInv, OnTime
  <2>2. ASSUME pc[p] \in Registered
        PROVE  /\ asks[p] \in targets' \/ clock - began[p] > Timeout
               /\ began[p] <= accessed'[asks[p]]
    <3>1. /\ asks[p] \in targets' \/ clock - began[p] > Timeout
          /\ asks[p] \in Targets /\ began[p] <= accessed[asks[p]]
      BY <2>2 DEF FoundInv, Known, OnTime, Registered
    <3>2. /\ accessed[asks[p]] <= accessed'[asks[p]] /\ began[p] \in Nat
          /\ accessed[asks[p]] \in Nat /\ accessed'[asks[p]] \in Nat
      BY <3>1 DEF FoundInv
    <3> QED BY <3>1, <3>2
  <2>3. Known(p)'
    BY <2>2 DEF Known
  <2> QED BY <2>1, <2>3
<1> QED BY <1>1 DEF FoundInv

LEMMA OtherStepFound ==
  ASSUME FoundInv, RegistryInv',
         UNCHANGED <<targets, accessed, clock, pc, asks, began>>
  PROVE  FoundInv'
BY DEF FoundInv, OnTime, Known

LEMMA TickFound ==
  ASSUME FoundInv, RegistryInv', Tick
  PROVE  FoundInv'
<1>1. /\ clock' = clock + 1
      /\ UNCHANGED <<targets, accessed, pc, asks, began>>
  BY DEF Tick, regVars, reqVars
<1>2. \A q \in Requests : OnTime(q)'
  BY <1>1 DEF FoundInv, OnTime
<1>3. \A q \in Requests : Known(q)'
  BY <1>1, CollectorAssumption DEF FoundInv, Known
<1> QED BY <1>1, <1>2, <1>3 DEF FoundInv

\* What cleanup removes has not been accessed since a request of its age or a
\* younger one arrived.
LEMMA CleanupFound ==
  ASSUME FoundInv, RegistryInv', Cleanup
  PROVE  FoundInv'
<1>1. /\ targets' = targets \ Expired
      /\ UNCHANGED <<accessed, clock, pc, asks, began>>
  BY DEF Cleanup, reqVars
<1>2. ASSUME NEW q \in Requests, pc[q] \in Registered
      PROVE  asks[q] \in targets \ Expired \/ clock - began[q] > Timeout
  <2>1. /\ asks[q] \in targets \/ clock - began[q] > Timeout
        /\ asks[q] \in Targets /\ began[q] <= accessed[asks[q]]
    BY <1>2 DEF FoundInv, Known, OnTime, Registered
  <2>2. CASE ~Active(asks[q])
    BY <2>1, <2>2, CollectorAssumption DEF FoundInv, Active
  <2>3. CASE Active(asks[q])
    BY <2>1, <2>3 DEF Expired
  <2> QED BY <2>2, <2>3
<1>3. \A q \in Requests : Known(q)'
  BY <1>1, <1>2 DEF FoundInv, Known
<1>4. \A q \in Requests : OnTime(q)'
  BY <1>1 DEF FoundInv, OnTime
<1> QED BY <1>1, <1>3, <1>4 DEF FoundInv

LEMMA ArriveFound ==
  ASSUME FoundInv, RegistryInv', NEW q \in Requests, Arrive(q)
  PROVE  FoundInv'
<1>1. PICK t \in scene.asked : asks' = [asks EXCEPT ![q] = t]
  BY DEF Arrive
<1>2. t \in Targets
  BY CollectorAssumption DEF FoundInv, RegistryInv
<1>3. /\ UNCHANGED <<targets, accessed, clock>>
      /\ pc' = [pc EXCEPT ![q] = "registering"]
      /\ began' = [began EXCEPT ![q] = clock]
  BY DEF Arrive, regVars
<1>4. pc'[q] = "registering" /\ began'[q] = clock /\ asks'[q] = t
  BY <1>1, <1>3 DEF FoundInv, RegistryInv
<1>5. OnTime(q)' /\ Known(q)'
  BY <1>2, <1>3, <1>4, CollectorAssumption DEF FoundInv, OnTime, Known,
      Registered
<1> QED BY <1>1, <1>3, <1>5, OneRequestMoves DEF FoundInv, RegistryInv

\* A step of a request that may access its target, and registers it if it then
\* goes where it counts on it.
LEMMA RegisterStep ==
  ASSUME FoundInv, RegistryInv', NEW q \in Requests, NEW where \in Places,
         UNCHANGED <<clock, asks, began>>, pc[q] # "idle",
         pc' = [pc EXCEPT ![q] = where],
         targets' = targets \/ targets' = targets \cup {asks[q]},
         \/ accessed' = [accessed EXCEPT ![asks[q]] = clock] /\ asks[q] \in targets'
         \/ accessed' = accessed /\ (where \in Registered => pc[q] \in Registered)
  PROVE  FoundInv'
<1>1. /\ asks[q] \in Targets /\ began[q] <= clock
      /\ clock \in Nat /\ accessed \in [Targets -> Nat] /\ began[q] \in Nat
  BY DEF FoundInv, OnTime
<1>2. /\ accessed' \in [Targets -> Nat]
      /\ \A t \in Targets : accessed[t] <= accessed'[t] /\ accessed'[t] <= clock
  BY <1>1 DEF FoundInv
<1>3. pc'[q] = where /\ \A p \in Requests \ {q} : pc'[p] = pc[p]
  BY DEF FoundInv, RegistryInv
<1>4. OnTime(q)'
  BY <1>1 DEF OnTime
<1>5. Known(q)'
  <2>1. CASE accessed' = [accessed EXCEPT ![asks[q]] = clock] /\ asks[q] \in targets'
    BY <1>1, <2>1 DEF Known
  <2>2. CASE accessed' = accessed /\ (where \in Registered => pc[q] \in Registered)
    BY <1>3, <2>2 DEF FoundInv, Known
  <2> QED BY <2>1, <2>2
<1>6. targets \subseteq targets' /\ targets' \subseteq Targets
  BY <1>1 DEF FoundInv
<1> QED BY <1>2, <1>3, <1>4, <1>5, <1>6, OneRequestMoves DEF FoundInv

\* A request that is answered.
LEMMA AnsweredFound ==
  ASSUME FoundInv, RegistryInv', NEW q \in Requests, Answered(q), pc[q] # "idle",
         UNCHANGED <<targets, clock>>,
         \/ UNCHANGED accessed
         \/ accessed' = [accessed EXCEPT ![asks[q]] = clock]
  PROVE  FoundInv'
<1>1. asks[q] \in Targets /\ clock \in Nat /\ accessed \in [Targets -> Nat]
  BY DEF FoundInv, OnTime
<1>2. /\ accessed' \in [Targets -> Nat]
      /\ \A t \in Targets : accessed[t] <= accessed'[t] /\ accessed'[t] <= clock
  BY <1>1 DEF FoundInv
<1>3. /\ pc' = [pc EXCEPT ![q] = "idle"] /\ began' = [began EXCEPT ![q] = 0]
      /\ asks' = [asks EXCEPT ![q] = None]
  BY DEF Answered
<1>4. pc'[q] = "idle" /\ began'[q] = 0
  BY <1>3 DEF FoundInv, RegistryInv
<1>5. OnTime(q)' /\ Known(q)'
  BY <1>1, <1>4 DEF OnTime, Known, Registered
<1> QED BY <1>2, <1>3, <1>5, OneRequestMoves DEF FoundInv, RegistryInv

LEMMA RequestFound ==
  ASSUME FoundInv, RegistryInv', NEW q \in Requests, Request(q)
  PROVE  FoundInv'
<1>1. CASE Touch(q)
  BY <1>1, RegisterStep DEF Touch, Places
<1>2. CASE Refresh(q)
  BY <1>2, RegisterStep DEF Refresh, Places
<1>3. CASE Refreshed(q)
  BY <1>3, RegisterStep DEF Refreshed, Places, Registered
<1>4. CASE Add(q)
  BY <1>4, RegisterStep DEF Add, Places, Registered, regVars
<1>5. CASE Added(q)
  <2>1. asks[q] \in targets'
    BY <1>5 DEF Added
  <2> QED BY <1>5, <2>1, RegisterStep DEF Added, Places
<1>6. CASE CRVerified(q)
  BY <1>6, RegisterStep DEF CRVerified, Places, Registered, regVars
<1>7. CASE GetMetrics(q)
  <2>1. /\ UNCHANGED <<targets, clock>> /\ pc[q] = "asking"
        /\ \/ UNCHANGED accessed
           \/ accessed' = [accessed EXCEPT ![asks[q]] = clock]
    BY <1>7 DEF GetMetrics
  <2>2. CASE asks[q] \in targets /\ UNCHANGED <<asks, began>>
             /\ pc' = [pc EXCEPT ![q] = "collecting"]
    BY <2>1, <2>2, RegisterStep DEF Places, Registered
  <2>3. CASE Answered(q)
    BY <2>1, <2>3, AnsweredFound
  <2> QED BY <1>7, <2>2, <2>3 DEF GetMetrics
<1>8. CASE CollectedNow(q)
  BY <1>8, AnsweredFound DEF CollectedNow, regVars
<1> QED BY <1>1, <1>2, <1>3, <1>4, <1>5, <1>6, <1>7, <1>8 DEF Request

LEMMA FoundInvNext == FoundInv /\ [Next]_vars => FoundInv'
<1> SUFFICES ASSUME FoundInv, [Next]_vars
             PROVE  FoundInv'
  OBVIOUS
<1>0. RegistryInv'
  BY RegistryInvNext DEF FoundInv
<1>1. ASSUME NEW t \in Targets, Generates(t) \/ PodRestarts(t)
      PROVE  FoundInv'
  BY <1>0, <1>1, OtherStepFound DEF Generates, PodRestarts, regVars, reqVars
<1>2. CASE StartCollection \/ Stop
  BY <1>0, <1>2, OtherStepFound DEF StartCollection, Stop, regVars, reqVars
<1>3. CASE Tick
  BY <1>0, <1>3, TickFound
<1>4. ASSUME NEW q \in Requests, Arrive(q) \/ Request(q)
      PROVE  FoundInv'
  BY <1>0, <1>4, ArriveFound, RequestFound
<1>5. ASSUME NEW c \in Collectors, Collection(c)
      PROVE  FoundInv'
  BY <1>0, <1>5, OtherStepFound
     DEF Collection, Scrape, Store, CollectFails, regVars, reqVars
<1>6. CASE CollectActive \/ LoopSleeps
  BY <1>0, <1>6, OtherStepFound DEF CollectActive, LoopSleeps, regVars, reqVars
<1>7. CASE Cleanup
  BY <1>0, <1>7, CleanupFound
<1>8. CASE UNCHANGED vars
  BY <1>0, <1>8, OtherStepFound DEF vars, regVars, reqVars
<1> QED BY <1>1, <1>2, <1>3, <1>4, <1>5, <1>6, <1>7, <1>8 DEF Next

LEMMA FoundInvariant == Spec => []FoundInv
<1>1. Init => FoundInv
  BY DEF Init, FoundInv, RegistryInv, OneDefault, Places, Holding, OnTime,
      Known,
         Registered
<1> QED BY <1>1, FoundInvNext, PTL DEF Spec

\* A request finds the target it registered as long as it is not older than
\* INACTIVE_TIMEOUT, for any number of targets, requests and expiries
\* (register_target, get_metrics, _cleanup_loop).
THEOREM RegisteredTargetsFound == Spec => []RegisteredIsFound
<1>1. FoundInv => RegisteredIsFound
  BY DEF FoundInv, Known, Registered, RegisteredIsFound
<1> QED BY <1>1, FoundInvariant, PTL

-----------------------------------------------------------------------------
(* Tokens                                                                  *)

Stages == {"none", "listed", "scraped", "orphan"}
Job == [stage : Stages, ts : Nat \cup {None}, value : Nat]
Sample == [value : Nat, ts : Nat \cup {None}]

\* The collections in flight, the samples and the tokens are numbers.
CountTypes ==
  /\ job \in [Collectors -> [Targets -> Job]]
  /\ prev \in [Targets -> Sample]
  /\ counter \in [Targets -> Nat] /\ generated \in [Targets -> Nat]
  /\ counted \in [Targets -> Nat] /\ clock \in Nat

\* What the next sample can count, be it of the counter as it is or of the
\* value a collection in flight has read, was generated since the last one.
Counts(t) ==
  /\ \A c, d \in Collectors :
       job[c][t].stage # "none" /\ job[d][t].stage # "none" => c = d
  /\ counted[t] <= generated[t]
  /\ prev[t].ts # None => counted[t] + counter[t] <= generated[t] + prev[t].value
  /\ \A c \in Collectors : job[c][t].stage = "scraped" =>
       /\ counted[t] + counter[t] <= generated[t] + job[c][t].value
       /\ prev[t].ts # None =>
            counted[t] + job[c][t].value <= generated[t] + prev[t].value

CountInv == CountTypes /\ \A t \in Targets \ raced : Counts(t)

\* A step in which collections are over, cancelled or cut off from the cache,
\* and none begins.
LEMMA FewerJobs ==
  ASSUME CountInv, UNCHANGED <<counter, generated, prev, counted>>, clock' \in Nat,
         raced \subseteq raced', job' \in [Collectors -> [Targets -> Job]],
         \A c \in Collectors, t \in Targets :
           \/ job'[c][t] = job[c][t] \/ job'[c][t].stage = "none"
           \/ job[c][t].stage # "none" /\ job'[c][t].stage = "orphan"
  PROVE  CountInv'
<1>1. ASSUME NEW t \in Targets \ raced' PROVE Counts(t)'
  <2>1. Counts(t)
    BY DEF CountInv
  <2>2. \A c \in Collectors :
          /\ job'[c][t].stage # "none" => job[c][t].stage # "none"
          /\ job'[c][t].stage = "scraped" => job'[c][t] = job[c][t]
    OBVIOUS
  <2> QED BY <2>1, <2>2 DEF Counts
<1> QED BY <1>1 DEF CountInv, CountTypes

LEMMA NoJobTypes == NoJob \in Job /\ NoSample \in Sample
BY DEF NoJob, NoSample, Job, Sample, Stages

LEMMA GeneratesCounts ==
  ASSUME CountInv, NEW u \in Targets, Generates(u) \/ PodRestarts(u)
  PROVE  CountInv'
<1>1. /\ UNCHANGED <<job, prev, counted, clock, raced>>
      /\ \/ /\ counter' = [counter EXCEPT ![u] = @ + 1]
            /\ generated' = [generated EXCEPT ![u] = @ + 1]
         \/ counter' = [counter EXCEPT ![u] = 0] /\ generated' = generated
  BY DEF Generates, PodRestarts, metricVars
<1>2. CountTypes'
  BY <1>1 DEF CountInv, CountTypes
<1>3. ASSUME NEW t \in Targets \ raced PROVE Counts(t)'
  <2>1. /\ counter[t] \in Nat /\ generated[t] \in Nat /\ counted[t] \in Nat
        /\ prev[t].value \in Nat /\ \A c \in Collectors : job[c][t].value \in Nat
    BY DEF CountInv, CountTypes, Sample, Job
  <2>2. \/ counter'[t] = counter[t] + 1 /\ generated'[t] = generated[t] + 1
        \/ counter'[t] = 0 /\ generated'[t] = generated[t]
        \/ counter'[t] = counter[t] /\ generated'[t] = generated[t]
    BY <1>1 DEF CountInv, CountTypes
  <2>3. Counts(t)
    BY DEF CountInv
  <2> QED BY <1>1, <2>1, <2>2, <2>3 DEF Counts
<1> QED BY <1>1, <1>2, <1>3 DEF CountInv

\* A collection that begins alone reads a value of its own.
LEMMA BeginsCounts ==
  ASSUME CountInv, UNCHANGED <<counter, generated, prev, counted, clock>>,
         raced \subseteq raced', job' \in [Collectors -> [Targets -> Job]],
         NEW c \in Collectors,
         \A d \in Collectors \ {c} : job'[d] = job[d],
         \A t \in Targets \ raced' :
           \/ job'[c][t] \in {job[c][t], NoJob}
           \/ job'[c][t] = Listed /\ Collecting(t) = {}
  PROVE  CountInv'
<1>1. ASSUME NEW t \in Targets \ raced' PROVE Counts(t)'
  <2>1. Counts(t)
    BY DEF CountInv
  <2>2. CASE job'[c][t] \in {job[c][t], NoJob}
    BY <2>1, <2>2 DEF Counts, NoJob
  <2>3. CASE job'[c][t] = Listed /\ Collecting(t) = {}
    <3>1. job'[c][t].stage = "listed" /\ \A d \in Collectors : job[d][t].stage = "none"
      BY <2>3 DEF Listed, Collecting
    <3> QED BY <2>1, <3>1 DEF Counts
  <2> QED BY <2>2, <2>3
<1> QED BY <1>1 DEF CountInv, CountTypes

LEMMA GetMetricsCounts ==
  ASSUME CountInv, NEW q \in Requests, GetMetrics(q)
  PROVE  CountInv'
<1>1. /\ UNCHANGED <<counter, generated, prev, counted, clock>>
      /\ \/ UNCHANGED <<job, raced>>
         \/ /\ job' = [job EXCEPT ![q][asks[q]] = Listed]
            /\ raced' = IF Collecting(asks[q]) = {} THEN raced ELSE raced \cup {asks[q]}
  BY DEF GetMetrics, podVars, metricVars
<1>2. q \in Collectors /\ Listed \in Job
  BY DEF Collectors, Listed, Job, Stages, CountInv, CountTypes
<1>3. CASE UNCHANGED <<job, raced>>
  BY <1>1, <1>3, FewerJobs DEF CountInv, CountTypes
<1>4. CASE /\ job' = [job EXCEPT ![q][asks[q]] = Listed]
           /\ raced' = IF Collecting(asks[q]) = {} THEN raced ELSE raced \cup {asks[q]}
  <2>1. job' \in [Collectors -> [Targets -> Job]]
    BY <1>2, <1>4 DEF CountInv, CountTypes
  <2>2. \A t \in Targets \ raced' :
          job'[q][t] = job[q][t] \/ (job'[q][t] = Listed /\ Collecting(t) = {})
    BY <1>2, <1>4 DEF CountInv, CountTypes
  <2>3. \A d \in Collectors \ {q} : job'[d] = job[d]
    BY <1>2, <1>4 DEF CountInv, CountTypes
  <2> QED BY <1>1, <1>2, <1>4, <2>1, <2>2, <2>3, BeginsCounts
<1> QED BY <1>1, <1>3, <1>4

LEMMA CollectActiveCounts == ASSUME CountInv, CollectActive PROVE CountInv'
<1>1. /\ UNCHANGED <<counter, generated, prev, counted, clock>>
      /\ raced' = raced \cup {t \in Targets : Active(t) /\ Collecting(t) # {}}
      /\ job' = [job EXCEPT ![Loop] =
                   [t \in Targets |-> IF t \in targets /\ Active(t) THEN Listed ELSE NoJob]]
  BY DEF CollectActive, podVars, metricVars
<1>2. Loop \in Collectors /\ Listed \in Job /\ NoJob \in Job
  BY NoJobTypes DEF Collectors, Listed, Job, Stages, CountInv, CountTypes
<1>3. job' \in [Collectors -> [Targets -> Job]]
  BY <1>1, <1>2 DEF CountInv, CountTypes
<1>4. \A t \in Targets \ raced' :
        job'[Loop][t] = NoJob \/ (job'[Loop][t] = Listed /\ Collecting(t) = {})
  BY <1>1, <1>2 DEF CountInv, CountTypes
<1>5. \A d \in Collectors \ {Loop} : job'[d] = job[d]
  BY <1>1, <1>2 DEF CountInv, CountTypes
<1> QED BY <1>1, <1>2, <1>3, <1>4, <1>5, BeginsCounts

LEMMA ScrapeCounts ==
  ASSUME CountInv, NEW c \in Collectors, NEW u \in Targets, Scrape(c, u)
  PROVE  CountInv'
<1>1. /\ UNCHANGED <<counter, generated, prev, counted, clock, raced>>
      /\ job[c][u].stage = "listed"
      /\ job' = [job EXCEPT ![c][u].stage = "scraped", ![c][u].value = counter[u]]
  BY DEF Scrape, podVars, metricVars
<1> DEFINE j == [stage |-> "scraped", ts |-> job[c][u].ts, value |-> counter[u]]
<1>0. job[c][u] \in Job /\ counter[u] \in Nat
  BY DEF CountInv, CountTypes
<1>2. j \in Job /\ job' = [job EXCEPT ![c] = [job[c] EXCEPT ![u] = j]]
  <2> DEFINE half == [job[c][u] EXCEPT !.stage = "scraped"]
             job1 == [job EXCEPT ![c] = [job[c] EXCEPT ![u] = half]]
  <2>1. j \in Job /\ j = [half EXCEPT !.value = counter[u]]
    <3>1. job[c][u] = [stage |-> job[c][u].stage, ts |-> job[c][u].ts,
                       value |-> job[c][u].value]
      BY <1>0 DEF Job
    <3>2. half = [stage |-> "scraped", ts |-> job[c][u].ts, value |-> job[c][u].value]
      BY <3>1
    <3> HIDE DEF half
    <3>3. j = [half EXCEPT !.value = counter[u]]
      BY <3>2
    <3> QED BY <1>0, <3>3 DEF Job, Stages
  <2>2. job1[c][u] = half
    BY DEF CountInv, CountTypes
  <2>3. job' = [job1 EXCEPT ![c] = [job1[c] EXCEPT ![u] =
                                      [job1[c][u] EXCEPT !.value = counter[u]]]]
    BY <1>1
  <2> HIDE DEF half, j
  <2> QED BY <2>1, <2>2, <2>3 DEF CountInv, CountTypes
<1> HIDE DEF j
<1>3. /\ job'[c][u] = j
      /\ \A d \in Collectors, t \in Targets : d # c \/ t # u => job'[d][t] = job[d][t]
      /\ job' \in [Collectors -> [Targets -> Job]]
  BY <1>2 DEF CountInv, CountTypes
<1>5. job'[c][u].stage = "scraped" /\ job'[c][u].value = counter[u]
  BY <1>3 DEF j
<1>4. ASSUME NEW t \in Targets \ raced PROVE Counts(t)'
  <2>1. /\ counter[t] \in Nat /\ generated[t] \in Nat /\ counted[t] \in Nat
        /\ prev[t].value \in Nat
    BY DEF CountInv, CountTypes, Sample
  <2>2. Counts(t)
    BY DEF CountInv
  <2>3. CASE t # u
    BY <1>1, <1>3, <2>2, <2>3 DEF Counts
  <2>4. CASE t = u
    <3>1. \A d \in Collectors : d # c => job'[d][t].stage = "none"
      BY <1>1, <1>3, <2>2, <2>4 DEF Counts
    <3>2. /\ counted[t] <= generated[t]
          /\ prev[t].ts # None => counted[t] + counter[t] <= generated[t] + prev[t].value
      BY <2>2 DEF Counts
    <3>3. counted[t] + counter[t] <= generated[t] + job'[c][t].value
      BY <1>5, <2>1, <2>4, <3>2
    <3> QED BY <1>1, <1>5, <2>4, <3>1, <3>2, <3>3 DEF Counts
  <2> QED BY <2>3, <2>4
<1> QED BY <1>1, <1>3, <1>4 DEF CountInv, CountTypes

\* What a rate accounts for lies between the last sample and this one.
LEMMA StoreCounts ==
  ASSUME CountInv, NEW c \in Collectors, NEW u \in Targets, Store(c, u)
  PROVE  CountInv'
<1> DEFINE r == ComputeRates(prev[u], job[c][u].value, job[c][u].ts)
<1>1. /\ UNCHANGED <<counter, generated, clock, raced>>
      /\ job[c][u].stage = "scraped" /\ job' = [job EXCEPT ![c][u] = NoJob]
      /\ \/ UNCHANGED <<prev, counted>>
         \/ /\ prev' = [prev EXCEPT ![u] = r.sample]
            /\ counted' = [counted EXCEPT ![u] = @ + r.delta]
  BY DEF Store, podVars
<1>2. /\ job'[c][u] = NoJob /\ job' \in [Collectors -> [Targets -> Job]]
      /\ \A d \in Collectors, t \in Targets : d # c \/ t # u => job'[d][t] = job[d][t]
  BY <1>1, NoJobTypes DEF CountInv, CountTypes
<1>3. CASE UNCHANGED <<prev, counted>>
  <2>1. \A d \in Collectors, t \in Targets :
          job'[d][t] = job[d][t] \/ job'[d][t].stage = "none"
    BY <1>2 DEF NoJob
  <2> QED BY <1>1, <1>2, <1>3, <2>1, FewerJobs DEF CountInv, CountTypes
<1>4. CASE /\ prev' = [prev EXCEPT ![u] = r.sample]
           /\ counted' = [counted EXCEPT ![u] = @ + r.delta]
  <2> DEFINE old == prev[u]
             value == job[c][u].value
             ts == job[c][u].ts
  <2>1. /\ counter[u] \in Nat /\ generated[u] \in Nat /\ counted[u] \in Nat
        /\ old \in Sample /\ value \in Nat /\ ts \in Nat \cup {None}
    BY DEF CountInv, CountTypes, Sample, Job
  <2>2. \/ r.sample = old /\ r.delta = 0 /\ old.ts # None
        \/ /\ r.sample = [value |-> value, ts |-> ts]
           /\ r.delta = 0 \/ (old.ts # None /\ r.delta = value - old.value /\ old.value <= value)
    BY <2>1 DEF ComputeRates, Sample
  <2>3. r.sample \in Sample /\ r.delta \in Nat
    BY <2>1, <2>2 DEF Sample
  <2> HIDE DEF r
  <2>4. CountTypes'
    BY <1>1, <1>2, <1>4, <2>3 DEF CountInv, CountTypes
  <2>5. ASSUME NEW t \in Targets \ raced PROVE Counts(t)'
    <3>1. Counts(t)
      BY DEF CountInv
    <3>2. CASE t # u
      BY <1>1, <1>2, <1>4, <3>1, <3>2 DEF Counts, CountInv, CountTypes
    <3>3. CASE t = u
      <4>1. \A d \in Collectors : job'[d][t].stage = "none"
        BY <1>1, <1>2, <3>1, <3>3 DEF Counts, NoJob
      <4>2. prev'[u] = r.sample /\ counted'[u] = counted[u] + r.delta
        BY <1>4 DEF CountInv, CountTypes
      <4>3. /\ counted[u] <= generated[u]
            /\ old.ts # None => counted[u] + counter[u] <= generated[u] + old.value
            /\ counted[u] + counter[u] <= generated[u] + value
            /\ old.ts # None => counted[u] + value <= generated[u] + old.value
        BY <1>1, <3>1, <3>3 DEF Counts
      <4>4. /\ counted[u] + r.delta <= generated[u]
            /\ r.sample.ts # None =>
                 counted[u] + r.delta + counter[u] <= generated[u] + r.sample.value
        <5>1. CASE r.sample = old /\ r.delta = 0 /\ old.ts # None
          BY <2>1, <4>3, <5>1 DEF Sample
        <5>2. CASE r.sample = [value |-> value, ts |-> ts] /\ r.delta = 0
          BY <2>1, <4>3, <5>2
        <5>3. CASE /\ r.sample = [value |-> value, ts |-> ts] /\ old.ts # None
                   /\ r.delta = value - old.value /\ old.value <= value
          BY <2>1, <4>3, <5>3 DEF Sample
        <5> QED BY <2>2, <5>1, <5>2, <5>3
      <4> QED BY <1>1, <3>3, <4>1, <4>2, <4>4 DEF Counts
    <3> QED BY <3>2, <3>3
  <2> QED BY <1>1, <2>4, <2>5 DEF CountInv
<1> QED BY <1>1, <1>3, <1>4

LEMMA AddedCounts ==
  ASSUME CountInv, NEW q \in Requests, Added(q)
  PROVE  CountInv'
<1>1. /\ UNCHANGED <<counter, generated, counted, clock, job, raced>>
      /\ prev' = [prev EXCEPT ![asks[q]] = NoSample]
  BY DEF Added, podVars
<1>2. CountTypes'
  BY <1>1, NoJobTypes DEF CountInv, CountTypes
<1>3. \A t \in Targets : prev'[t] \in {prev[t], NoSample}
  BY <1>1 DEF CountInv, CountTypes
<1>4. \A t \in Targets \ raced : Counts(t)'
  BY <1>1, <1>3 DEF CountInv, Counts, NoSample
<1> QED BY <1>1, <1>2, <1>4 DEF CountInv

LEMMA CountInvNext == CountInv /\ [Next]_vars => CountInv'
<1> SUFFICES ASSUME CountInv, [Next]_vars PROVE CountInv'
  OBVIOUS
<1> USE DEF podVars, metricVars
<1>1. ASSUME NEW t \in Targets, Generates(t) \/ PodRestarts(t) PROVE CountInv'
  BY <1>1, GeneratesCounts
<1>2. CASE Tick
  BY <1>2, FewerJobs DEF Tick, CountInv, CountTypes
<1>3. CASE StartCollection
  BY <1>3, FewerJobs DEF StartCollection, CountInv, CountTypes
<1>4. CASE Stop
  <2>1. job' = [job EXCEPT ![Loop] = [t \in Targets |-> NoJob]]
    BY <1>4 DEF Stop
  <2>2. /\ job' \in [Collectors -> [Targets -> Job]]
        /\ \A c \in Collectors, t \in Targets :
             job'[c][t] = job[c][t] \/ job'[c][t].stage = "none"
    BY <2>1, NoJobTypes DEF CountInv, CountTypes, NoJob
  <2> QED BY <1>4, <2>2, FewerJobs DEF Stop, CountInv, CountTypes
<1>5. ASSUME NEW q \in Requests, Arrive(q) PROVE CountInv'
  BY <1>5, FewerJobs DEF Arrive, CountInv, CountTypes
<1>6. ASSUME NEW q \in Requests, Request(q) PROVE CountInv'
  <2>1. CASE GetMetrics(q)
    BY <2>1, GetMetricsCounts
  <2>2. CASE Added(q)
    BY <2>2, AddedCounts
  <2>3. CASE CollectedNow(q)
    <3>1. job' = [job EXCEPT ![q] = [t \in Targets |-> NoJob]]
      BY <2>3 DEF CollectedNow
    <3>2. /\ job' \in [Collectors -> [Targets -> Job]]
          /\ \A c \in Collectors, t \in Targets :
               job'[c][t] = job[c][t] \/ job'[c][t].stage = "none"
      BY <3>1, NoJobTypes DEF CountInv, CountTypes, NoJob
    <3> QED BY <2>3, <3>2, FewerJobs DEF CollectedNow, CountInv, CountTypes
  <2>4. CASE Touch(q) \/ Refresh(q) \/ Refreshed(q) \/ Add(q) \/ CRVerified(q)
    BY <2>4, FewerJobs DEF Touch, Refresh, Refreshed, Add, CRVerified,
        CountInv, CountTypes
  <2> QED BY <1>6, <2>1, <2>2, <2>3, <2>4 DEF Request
<1>7. ASSUME NEW c \in Collectors, NEW t \in Targets,
             Scrape(c, t) \/ Store(c, t) \/ CollectFails(c, t)
      PROVE  CountInv'
  <2>1. CASE CollectFails(c, t)
    <3>1. job' = [job EXCEPT ![c][t] = NoJob]
      BY <2>1 DEF CollectFails
    <3>2. /\ job' \in [Collectors -> [Targets -> Job]]
          /\ \A d \in Collectors, u \in Targets :
               job'[d][u] = job[d][u] \/ job'[d][u].stage = "none"
      BY <3>1, NoJobTypes DEF CountInv, CountTypes, NoJob
    <3> QED BY <2>1, <3>2, FewerJobs DEF CollectFails, CountInv, CountTypes
  <2> QED BY <1>7, <2>1, ScrapeCounts, StoreCounts
<1>8. CASE CollectActive
  BY <1>8, CollectActiveCounts
<1>9. CASE LoopSleeps
  BY <1>9, FewerJobs DEF LoopSleeps, CountInv, CountTypes
<1>10. CASE Cleanup
  <2>1. /\ UNCHANGED <<counter, generated, prev, counted, clock, raced>>
        /\ job' = [c \in Collectors |-> [t \in Targets |->
                     IF t \in Expired /\ job[c][t].stage # "none"
                     THEN [job[c][t] EXCEPT !.stage = "orphan"] ELSE job[c][t]]]
    BY <1>10 DEF Cleanup
  <2>2. job' \in [Collectors -> [Targets -> Job]]
    <3>1. \A x \in Job : [x EXCEPT !.stage = "orphan"] \in Job
      BY DEF Job, Stages
    <3> QED BY <2>1, <3>1 DEF CountInv, CountTypes
  <2>3. \A c \in Collectors, t \in Targets :
          \/ job'[c][t] = job[c][t]
          \/ job[c][t].stage # "none" /\ job'[c][t].stage = "orphan"
    BY <2>1 DEF CountInv, CountTypes, Job
  <2> QED BY <2>1, <2>2, <2>3, FewerJobs DEF CountInv, CountTypes
<1>11. CASE UNCHANGED vars
  BY <1>11, FewerJobs DEF vars, CountInv, CountTypes
<1> QED BY <1>1, <1>2, <1>3, <1>4, <1>5, <1>6, <1>7, <1>8, <1>9, <1>10, <1>11
     DEF Next, Collection

\* For any number of collections, restarts of the pod and registrations: the
\* rates account for no more tokens than were generated, unless two collections
\* of the target were in flight together (_compute_rates).
THEOREM TokensNotOvercounted == Spec => []NoOvercount
<1>1. Init => CountInv
  BY NoJobTypes DEF Init, CountInv, CountTypes, Counts, NoJob, NoSample
<1>2. CountInv => NoOvercount
  BY DEF CountInv, Counts, NoOvercount
<1> QED BY <1>1, <1>2, CountInvNext, PTL DEF Spec

-----------------------------------------------------------------------------
(* Types                                                                   *)

SmallJob == [stage : Stages, ts : Times \cup {None}, value : 0 .. MaxCounter]

\* The samples, the pods and the collections in flight; a counter shows no
\* more than was generated.
SampleTypes ==
  /\ job \in [Collectors -> [Targets -> SmallJob]]
  /\ prev \in [Targets -> Samples]
  /\ counter \in [Targets -> 0 .. MaxCounter] /\ generated \in [Targets -> 0 .. MaxCounter]
  /\ \A t \in Targets : counter[t] <= generated[t]
  /\ counted \in [Targets -> Nat] /\ raced \subseteq Targets

\* The registry, its loops and the requests.
RegistryTypes ==
  /\ scene \in Scenes /\ clock \in Times
  /\ running \in BOOLEAN /\ loop \in {"off", "top", "gathering"}
  /\ targets \subseteq Targets /\ default \subseteq Targets
  /\ accessed \in [Targets -> Times] /\ checked \in [Targets -> Times]
  /\ lock \subseteq Requests /\ pc \in [Requests -> Places]
  /\ asks \in [Requests -> Targets \cup {None}] /\ wants \in [Requests -> BOOLEAN]
  /\ began \in [Requests -> Times]

\* A request in flight asks for one of the targets.
LEMMA AsksForTarget ==
  ASSUME FoundInv, NEW q \in Requests, pc[q] # "idle" PROVE asks[q] \in Targets
BY DEF FoundInv, OnTime

LEMMA SceneStays == [Next]_vars => scene' = scene
BY DEF Next, Collection, Request, vars, Generates, PodRestarts, Tick,
    StartCollection, Stop,
       Arrive, Touch, Refresh, Refreshed, Add, Added, CRVerified, GetMetrics, CollectedNow,
       Scrape, Store, CollectFails, CollectActive, LoopSleeps, Cleanup

LEMMA RegistryTypesNext ==
  ASSUME RegistryTypes, FoundInv, [Next]_vars
  PROVE  RegistryTypes'
<1> USE CollectorAssumption DEF RegistryTypes, regVars, reqVars
<1>0. /\ scene' = scene /\ Times' = Times
      /\ Times = 0 .. scene.until /\ scene.until \in Nat /\ 0 \in Times
      /\ scene.asked \subseteq Targets /\ scene.wants \subseteq BOOLEAN
  BY SceneStays DEF Times
<1>1. ASSUME NEW t \in Targets, Generates(t) \/ PodRestarts(t) PROVE RegistryTypes'
  BY <1>0, <1>1 DEF Generates, PodRestarts
<1>2. CASE Tick
  <2>1. clock' \in Times
    BY <1>0, <1>2 DEF Tick
  <2> QED BY <1>0, <1>2, <2>1 DEF Tick
<1>3. CASE StartCollection \/ Stop
  BY <1>0, <1>3 DEF StartCollection, Stop, EnsureCollectLoop
<1>4. ASSUME NEW q \in Requests, Arrive(q) PROVE RegistryTypes'
  <2>1. PICK t \in Targets, w \in BOOLEAN : asks' = [asks EXCEPT ![q] = t] /\ wants' = [wants EXCEPT ![q] = w]
    BY <1>0, <1>4 DEF Arrive
  <2>2. asks' \in [Requests -> Targets \cup {None}] /\ wants' \in [Requests -> BOOLEAN]
    BY <2>1
  <2>3. pc' \in [Requests -> Places] /\ began' \in [Requests -> Times]
    BY <1>4 DEF Arrive, Places
  <2> QED BY <1>0, <1>4, <2>2, <2>3 DEF Arrive
<1>5. ASSUME NEW q \in Requests, Request(q) PROVE RegistryTypes'
  <2>0. pc[q] # "idle" => asks[q] \in Targets
    BY AsksForTarget
  <2>1. CASE Touch(q)
    BY <1>0, <2>0, <2>1 DEF Touch, EnsureCollectLoop, Places
  <2>2. CASE Refresh(q)
    BY <1>0, <2>0, <2>2 DEF Refresh, Places
  <2>3. CASE Refreshed(q)
    BY <1>0, <2>0, <2>3 DEF Refreshed, EnsureCollectLoop, Places
  <2>4. CASE Add(q)
    BY <1>0, <2>4 DEF Add, Places
  <2>5. CASE Added(q)
    BY <1>0, <2>0, <2>5 DEF Added, Places
  <2>6. CASE CRVerified(q)
    BY <1>0, <2>6 DEF CRVerified, EnsureCollectLoop, Places
  <2>7. CASE GetMetrics(q)
    <3>1. /\ accessed' = accessed \/ accessed' = [accessed EXCEPT ![asks[q]] = clock]
          /\ running' = running \/ running' = TRUE
          /\ loop' = loop \/ loop' = "top"
      BY <2>7 DEF GetMetrics, EnsureCollectLoop
    <3>2. /\ \/ pc' = [pc EXCEPT ![q] = "collecting"]
             \/ pc' = [pc EXCEPT ![q] = "idle"]
          /\ asks' = asks \/ asks' = [asks EXCEPT ![q] = None]
          /\ wants' = wants \/ wants' = [wants EXCEPT ![q] = FALSE]
          /\ began' = began \/ began' = [began EXCEPT ![q] = 0]
      BY <2>7 DEF GetMetrics, Answered
    <3>3. pc' \in [Requests -> Places] /\ asks' \in [Requests -> Targets \cup {None}]
      BY <3>2 DEF Places
    <3>4. wants' \in [Requests -> BOOLEAN]
      BY <3>2
    <3>5. began' \in [Requests -> Times]
      BY <1>0, <3>2
    <3>6. accessed' \in [Targets -> Times]
      BY <3>1
    <3> QED BY <1>0, <2>7, <3>1, <3>3, <3>4, <3>5, <3>6 DEF GetMetrics
  <2>8. CASE CollectedNow(q)
    BY <1>0, <2>8 DEF CollectedNow, Answered, Places
  <2> QED BY <1>5, <2>1, <2>2, <2>3, <2>4, <2>5, <2>6, <2>7, <2>8 DEF Request
<1>6. ASSUME NEW c \in Collectors, NEW t \in Targets,
             Scrape(c, t) \/ Store(c, t) \/ CollectFails(c, t)
      PROVE  RegistryTypes'
  BY <1>0, <1>6 DEF Scrape, Store, CollectFails
<1>7. CASE CollectActive \/ LoopSleeps \/ Cleanup
  BY <1>0, <1>7 DEF CollectActive, LoopSleeps, Cleanup
<1>8. CASE UNCHANGED vars
  BY <1>0, <1>8 DEF vars
<1> QED BY <1>1, <1>2, <1>3, <1>4, <1>5, <1>6, <1>7, <1>8 DEF Next, Collection

LEMMA SmallJobs ==
  ASSUME clock \in Times
  PROVE  /\ NoJob \in SmallJob
         /\ 0 \in 0 .. MaxCounter => Listed \in SmallJob
         /\ \A x \in SmallJob : [x EXCEPT !.stage = "orphan"] \in SmallJob
BY CollectorAssumption DEF NoJob, Listed, SmallJob, Stages

LEMMA SampleTypesNext ==
  ASSUME SampleTypes, RegistryTypes, FoundInv, [Next]_vars
  PROVE  SampleTypes'
<1> USE CollectorAssumption DEF SampleTypes, metricVars, podVars
<1>0. /\ Times' = Times /\ SmallJob' = SmallJob /\ Samples' = Samples
      /\ NoJob \in SmallJob /\ Listed \in SmallJob /\ NoSample \in Samples
      /\ \A x \in SmallJob : [x EXCEPT !.stage = "orphan"] \in SmallJob
  <2>1. Times' = Times
    BY SceneStays DEF Times
  <2>2. SmallJob' = SmallJob /\ Samples' = Samples
    BY <2>1 DEF SmallJob, Stages, Samples
  <2>3. 0 \in 0 .. MaxCounter /\ clock \in Times
    BY DEF RegistryTypes
  <2>4. NoSample \in Samples
    BY <2>3 DEF NoSample, Samples
  <2> QED BY <2>1, <2>2, <2>3, <2>4, SmallJobs
<1>1. ASSUME NEW t \in Targets, Generates(t) \/ PodRestarts(t) PROVE SampleTypes'
  BY <1>0, <1>1 DEF Generates, PodRestarts
<1>2. CASE Tick \/ StartCollection \/ LoopSleeps
  BY <1>0, <1>2 DEF Tick, StartCollection, LoopSleeps
<1>3. CASE Stop
  BY <1>0, <1>3 DEF Stop
<1>4. ASSUME NEW q \in Requests, Arrive(q) PROVE SampleTypes'
  BY <1>0, <1>4 DEF Arrive
<1>5. ASSUME NEW q \in Requests, Request(q) PROVE SampleTypes'
  <2>0. pc[q] # "idle" => asks[q] \in Targets
    BY AsksForTarget
  <2>1. CASE Touch(q) \/ Refresh(q) \/ Refreshed(q) \/ Add(q) \/ CRVerified(q)
    BY <1>0, <2>1 DEF Touch, Refresh, Refreshed, Add, CRVerified
  <2>2. CASE Added(q)
    BY <1>0, <2>0, <2>2 DEF Added
  <2>3. CASE GetMetrics(q)
    <3>1. q \in Collectors /\ asks[q] \in Targets
      BY <2>0, <2>3 DEF GetMetrics, Collectors
    <3>2. job' \in [Collectors -> [Targets -> SmallJob]] /\ raced' \subseteq Targets
      BY <1>0, <2>3, <3>1 DEF GetMetrics
    <3> QED BY <1>0, <2>3, <3>2 DEF GetMetrics
  <2>4. CASE CollectedNow(q)
    BY <1>0, <2>4 DEF CollectedNow
  <2> QED BY <1>5, <2>1, <2>2, <2>3, <2>4 DEF Request
<1>6. ASSUME NEW c \in Collectors, NEW t \in Targets,
             Scrape(c, t) \/ Store(c, t) \/ CollectFails(c, t)
      PROVE  SampleTypes'
  <2>1. CASE Scrape(c, t)
    <3> DEFINE half == [job[c][t] EXCEPT !.stage = "scraped"]
               job1 == [job EXCEPT ![c] = [job[c] EXCEPT ![t] = half]]
               full == [job1[c][t] EXCEPT !.value = counter[t]]
    <3>1. job[c][t] \in SmallJob /\ counter[t] \in 0 .. MaxCounter
      OBVIOUS
    <3>2. half \in SmallJob /\ [half EXCEPT !.value = counter[t]] \in SmallJob
      BY <3>1 DEF SmallJob, Stages
    <3>3. job1[c][t] = half /\ job1 \in [Collectors -> [Targets -> SmallJob]]
      BY <3>2
    <3>4. job' = [job1 EXCEPT ![c] = [job1[c] EXCEPT ![t] = full]]
      BY <2>1 DEF Scrape
    <3>5. full \in SmallJob
      BY <3>2, <3>3
    <3> HIDE DEF half, full, job1
    <3>6. job' \in [Collectors -> [Targets -> SmallJob]]
      BY <3>3, <3>4, <3>5
    <3> QED BY <1>0, <2>1, <3>6 DEF Scrape
  <2>2. CASE CollectFails(c, t)
    <3>1. job' \in [Collectors -> [Targets -> SmallJob]]
      BY <1>0, <2>2 DEF CollectFails
    <3> QED BY <1>0, <2>2, <3>1 DEF CollectFails
  <2>3. CASE Store(c, t)
    <3>1. job' \in [Collectors -> [Targets -> SmallJob]]
      BY <1>0, <2>3 DEF Store
    <3> DEFINE r == ComputeRates(prev[t], job[c][t].value, job[c][t].ts)
    <3>2. prev[t] \in Samples /\ job[c][t] \in SmallJob /\ Times \subseteq Nat
      BY DEF RegistryTypes, Times
    <3>3. r.sample \in Samples /\ r.delta \in Nat
      BY <3>2 DEF ComputeRates, Samples, SmallJob
    <3> HIDE DEF r
    <3>4. \/ UNCHANGED <<prev, counted>>
          \/ /\ prev' = [prev EXCEPT ![t] = r.sample]
             /\ counted' = [counted EXCEPT ![t] = @ + r.delta]
      BY <2>3 DEF Store, r
    <3>5. prev' \in [Targets -> Samples] /\ counted' \in [Targets -> Nat]
      BY <3>3, <3>4
    <3> QED BY <1>0, <2>3, <3>1, <3>5 DEF Store
  <2> QED BY <1>6, <2>1, <2>2, <2>3
<1>7. CASE CollectActive
  <2>1. job' \in [Collectors -> [Targets -> SmallJob]]
    BY <1>0, <1>7 DEF CollectActive
  <2> QED BY <1>0, <1>7, <2>1 DEF CollectActive
<1>8. CASE Cleanup
  <2>1. job' \in [Collectors -> [Targets -> SmallJob]]
    BY <1>0, <1>8 DEF Cleanup
  <2> QED BY <1>0, <1>8, <2>1 DEF Cleanup
<1>9. CASE UNCHANGED vars
  BY <1>0, <1>9 DEF vars
<1> QED BY <1>1, <1>2, <1>3, <1>4, <1>5, <1>6, <1>7, <1>8, <1>9 DEF Next,
    Collection

\* Every variable has its type, whatever the instance.
THEOREM CollectorTypeOK == Spec => []TypeOK
<1> DEFINE Types == SampleTypes /\ RegistryTypes
<1>1. Init => Types
  <2> SUFFICES ASSUME Init PROVE Types
    OBVIOUS
  <2>1. scene \in Scenes /\ clock = 0 /\ clock \in Times /\ Times = 0 .. scene.until
    BY CollectorAssumption DEF Init, Times
  <2>2. NoJob \in SmallJob /\ NoSample \in Samples
    BY <2>1, SmallJobs, CollectorAssumption DEF NoSample, Samples
  <2>3. SampleTypes
    BY <2>2, CollectorAssumption DEF Init, SampleTypes
  <2>4. RegistryTypes
    BY <2>1, CollectorAssumption DEF Init, RegistryTypes, Places
  <2> QED BY <2>3, <2>4
<1>2. Types /\ FoundInv /\ [Next]_vars => Types'
  BY RegistryTypesNext, SampleTypesNext
<1>3. Types => TypeOK
  BY DEF SampleTypes, RegistryTypes, SmallJob, Stages, Places, TypeOK
<1> QED BY <1>1, <1>2, <1>3, FoundInvariant, PTL DEF Spec
=============================================================================

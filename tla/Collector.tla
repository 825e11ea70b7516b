----------------------------- MODULE Collector ------------------------------
(***************************************************************************)
(* The multi-target metrics collector (services/multi_target_collector.py) *)
(* with the requests of routers/metrics.py that register a target and ask  *)
(* for its metrics, the collection loop, the cleanup loop, and the rates   *)
(* metric_math.py computes from two scrapes of a counter.                  *)
(*                                                                         *)
(* A collection of a target has three steps: it takes its timestamp, reads *)
(* the pod's counter, and stores what it computed.  The loop and a request *)
(* that names a metrics_source may collect one target at the same time.    *)
(***************************************************************************)
EXTENDS Integers, FiniteSets

CONSTANTS Targets,      \* the keys namespace/name/type
          Requests,     \* clients of GET /latest and POST /batch
          Timeout,      \* INACTIVE_TIMEOUT
          MaxCounter,   \* bound on a pod's counter
          Scenes,       \* which clients ask for which targets, with or
                        \* without a source, whose pods have a counter, and
                        \* until when
          None          \* a timestamp or a target that is not there

ASSUME CollectorAssumption ==
  /\ Timeout \in Nat \ {0} /\ MaxCounter \in Nat
  /\ Scenes \subseteq [clients : SUBSET Requests, asked : SUBSET Targets,
                      wants : SUBSET BOOLEAN, metered : SUBSET Targets,
                      until : Nat]
  /\ None \notin Nat \cup Targets

Loop == "loop"
Collectors == Requests \cup {Loop}

ASSUME LoopIsNoRequest == Loop \notin Requests

VARIABLES
  scene,
  running,   \* _running, and with it both tasks
  targets,   \* the keys of _targets
  default,   \* those with is_default
  accessed,  \* last_accessed
  checked,   \* last_label_check
  prev,      \* prev_counters: the value and the time of the last sample
  lock,      \* {}, or the set of the request that holds _lock
  pc, asks, wants, began,  \* a request's place, target, metrics_source, arrival
  loop,      \* where the collection loop is
  job,       \* the collections in flight
  clock,
  counter,   \* the pod's counter
  generated, \* ghost: tokens generated while the target was sampled
  counted,   \* ghost: tokens the rates account for
  raced      \* ghost: targets two collections were at together

regVars == <<targets, default, accessed, checked>>
metricVars == <<prev, counted>>
reqVars == <<pc, asks, wants, began>>
podVars == <<counter, generated>>
vars == <<scene, running, regVars, metricVars, lock, reqVars, loop, job, clock, podVars, raced>>

NoJob == [stage |-> "none", ts |-> None, value |-> 0]
NoSample == [value |-> 0, ts |-> None]

Init ==
  /\ scene \in Scenes
  /\ running = FALSE /\ loop = "off"
  /\ targets = {} /\ default = {}
  /\ accessed = [t \in Targets |-> 0] /\ checked = [t \in Targets |-> 0]
  /\ prev = [t \in Targets |-> NoSample]
  /\ lock = {}
  /\ pc = [q \in Requests |-> "idle"] /\ began = [q \in Requests |-> 0]
  /\ asks = [q \in Requests |-> None] /\ wants = [q \in Requests |-> FALSE]
  /\ job = [c \in Collectors |-> [t \in Targets |-> NoJob]]
  /\ clock = 0
  /\ counter = [t \in Targets |-> 0] /\ generated = [t \in Targets |-> 0]
  /\ counted = [t \in Targets |-> 0] /\ raced = {}

-----------------------------------------------------------------------------
(* The pods and the time                                                   *)

Generates(t) ==
  /\ t \in scene.metered /\ generated[t] < MaxCounter
  /\ counter' = [counter EXCEPT ![t] = @ + 1]
  /\ generated' = [generated EXCEPT ![t] = @ + 1]
  /\ UNCHANGED <<scene, running, regVars, metricVars, lock, reqVars, loop, job, clock, raced>>

PodRestarts(t) ==
  /\ counter[t] > 0
  /\ counter' = [counter EXCEPT ![t] = 0]
  /\ UNCHANGED <<scene, running, regVars, metricVars, lock, reqVars, loop, job, clock,
                 generated, raced>>

\* A call of Kubernetes has no timeout: any time may pass while a request is at
\* one or waits for the lock.
Tick ==
  /\ clock < scene.until
  /\ clock' = clock + 1
  /\ UNCHANGED <<scene, running, regVars, metricVars, lock, reqVars, loop, job, podVars, raced>>

-----------------------------------------------------------------------------
(* Start and stop                                                          *)

EnsureCollectLoop ==
  /\ running' = TRUE
  /\ loop' = IF loop = "off" THEN "top" ELSE loop

\* The shim's task calls start_collection.
StartCollection ==
  /\ ~running
  /\ EnsureCollectLoop
  /\ UNCHANGED <<scene, regVars, metricVars, lock, reqVars, job, clock, podVars, raced>>

\* stop(), after the server has answered its requests: the tasks are cancelled
\* wherever they wait, and the loop's collections with them.
Stop ==
  /\ running /\ \A q \in Requests : pc[q] = "idle"
  /\ running' = FALSE /\ loop' = "off"
  /\ job' = [job EXCEPT ![Loop] = [t \in Targets |-> NoJob]]
  /\ UNCHANGED <<scene, regVars, metricVars, lock, reqVars, clock, podVars, raced>>

-----------------------------------------------------------------------------
(* Requests                                                                *)

Arrive(q) ==
  /\ running /\ q \in scene.clients /\ pc[q] = "idle"
  /\ \E t \in scene.asked, w \in scene.wants :
       /\ asks' = [asks EXCEPT ![q] = t]
       /\ wants' = [wants EXCEPT ![q] = w]
  /\ pc' = [pc EXCEPT ![q] = "registering"]
  /\ began' = [began EXCEPT ![q] = clock]
  /\ UNCHANGED <<scene, running, regVars, metricVars, lock, loop, job, clock, podVars, raced>>

\* register_target of a target that is there, its label still fresh.
Touch(q) ==
  /\ pc[q] = "registering" /\ asks[q] \in targets /\ lock = {}
  /\ clock - checked[asks[q]] <= Timeout
  /\ accessed' = [accessed EXCEPT ![asks[q]] = clock]
  /\ EnsureCollectLoop
  /\ pc' = [pc EXCEPT ![q] = "asking"]
  /\ UNCHANGED <<scene, targets, default, checked, metricVars, lock, asks, wants, began,
                 job, clock, podVars, raced>>

\* Mutant: last_accessed is left to get_metrics.
RefreshUntouched(q) ==
  /\ pc[q] = "registering" /\ asks[q] \in targets /\ lock = {}
  /\ clock - checked[asks[q]] > Timeout
  /\ lock' = {q}
  /\ pc' = [pc EXCEPT ![q] = "refreshing"]
  /\ UNCHANGED <<scene, running, regVars, metricVars, asks, wants, began, loop, job,
                 clock, podVars, raced>>

\* Else it asks Kubernetes for the label and the model's name, and holds the
\* lock meanwhile.
Refresh(q) ==
  /\ pc[q] = "registering" /\ asks[q] \in targets /\ lock = {}
  /\ clock - checked[asks[q]] > Timeout
  /\ accessed' = [accessed EXCEPT ![asks[q]] = clock]
  /\ lock' = {q}
  /\ pc' = [pc EXCEPT ![q] = "refreshing"]
  /\ UNCHANGED <<scene, running, targets, default, checked, metricVars, asks, wants, began,
                 loop, job, clock, podVars, raced>>

\* Mutant: the lock is kept.
RefreshedLocked(q) ==
  /\ pc[q] = "refreshing"
  /\ checked' = [checked EXCEPT ![asks[q]] = clock]
  /\ EnsureCollectLoop
  /\ pc' = [pc EXCEPT ![q] = "asking"]
  /\ UNCHANGED <<scene, targets, default, accessed, metricVars, lock, asks, wants, began,
                 job, clock, podVars, raced>>

Refreshed(q) ==
  /\ pc[q] = "refreshing"
  /\ checked' = [checked EXCEPT ![asks[q]] = clock]
  /\ lock' = {}
  /\ EnsureCollectLoop
  /\ pc' = [pc EXCEPT ![q] = "asking"]
  /\ UNCHANGED <<scene, targets, default, accessed, metricVars, asks, wants, began, job,
                 clock, podVars, raced>>

Add(q) ==
  /\ pc[q] = "registering" /\ asks[q] \notin targets /\ lock = {}
  /\ lock' = {q}
  /\ pc' = [pc EXCEPT ![q] = "adding"]
  /\ UNCHANGED <<scene, running, regVars, metricVars, asks, wants, began, loop, job,
                 clock, podVars, raced>>

\* Mutant: whether the target is the first is not asked.
AddedAsDefault(q) ==
  LET t == asks[q] IN
  /\ pc[q] = "adding"
  /\ targets' = targets \cup {t}
  /\ default' = default \cup {t}
  /\ accessed' = [accessed EXCEPT ![t] = clock]
  /\ checked' = [checked EXCEPT ![t] = clock]
  /\ prev' = [prev EXCEPT ![t] = NoSample]
  /\ lock' = {}
  /\ pc' = [pc EXCEPT ![q] = "verifying"]
  /\ UNCHANGED <<scene, running, counted, asks, wants, began, loop, job, clock,
                 podVars, raced>>

\* The first target becomes the default.  The cache starts empty.
Added(q) ==
  LET t == asks[q] IN
  /\ pc[q] = "adding"
  /\ targets' = targets \cup {t}
  /\ default' = IF targets = {} THEN {t} ELSE default \ {t}
  /\ accessed' = [accessed EXCEPT ![t] = clock]
  /\ checked' = [checked EXCEPT ![t] = clock]
  /\ prev' = [prev EXCEPT ![t] = NoSample]
  /\ lock' = {}
  /\ pc' = [pc EXCEPT ![q] = "verifying"]
  /\ UNCHANGED <<scene, running, counted, asks, wants, began, loop, job, clock, podVars, raced>>

\* _check_cr_exists, outside the lock.
CRVerified(q) ==
  /\ pc[q] = "verifying"
  /\ EnsureCollectLoop
  /\ pc' = [pc EXCEPT ![q] = "asking"]
  /\ UNCHANGED <<scene, regVars, metricVars, lock, asks, wants, began, job, clock, podVars, raced>>

Answered(q) ==
  /\ pc' = [pc EXCEPT ![q] = "idle"]
  /\ asks' = [asks EXCEPT ![q] = None] /\ wants' = [wants EXCEPT ![q] = FALSE]
  /\ began' = [began EXCEPT ![q] = 0]

Collecting(t) == {c \in Collectors : job[c][t].stage # "none"}
Listed == [stage |-> "listed", ts |-> clock, value |-> 0]

\* get_metrics: None for a target that is not there, else the cached metrics,
\* or those of an immediate collection.
GetMetrics(q) ==
  LET t == asks[q] IN
  /\ pc[q] = "asking" /\ lock = {}
  /\ IF t \in targets
     THEN accessed' = [accessed EXCEPT ![t] = clock] /\ EnsureCollectLoop
     ELSE UNCHANGED <<accessed, running, loop>>
  /\ IF t \in targets /\ wants[q]
     THEN /\ pc' = [pc EXCEPT ![q] = "collecting"]
          /\ job' = [job EXCEPT ![q][t] = Listed]
          /\ raced' = IF Collecting(t) = {} THEN raced ELSE raced \cup {t}
          /\ UNCHANGED <<asks, wants, began>>
     ELSE Answered(q) /\ UNCHANGED <<job, raced>>
  /\ UNCHANGED <<scene, targets, default, checked, metricVars, lock, clock, podVars>>

\* The collection is over, or IMMEDIATE_COLLECT_TIMEOUT has cancelled it.
CollectedNow(q) ==
  /\ pc[q] = "collecting"
  /\ Answered(q)
  /\ job' = [job EXCEPT ![q] = [t \in Targets |-> NoJob]]
  /\ UNCHANGED <<scene, running, regVars, metricVars, lock, loop, clock, podVars, raced>>

-----------------------------------------------------------------------------
(* A collection                                                            *)

Scrape(c, t) ==
  /\ job[c][t].stage = "listed"
  /\ job' = [job EXCEPT ![c][t].stage = "scraped", ![c][t].value = counter[t]]
  /\ UNCHANGED <<scene, running, regVars, metricVars, lock, reqVars, loop, clock, podVars, raced>>

\* Mutant: after a reset of the counter the old sample stays.
ComputeRatesStuck(old, value, ts) ==
  IF old.ts = None THEN [sample |-> [value |-> value, ts |-> ts], delta |-> 0]
  ELSE IF ts <= old.ts \/ value < old.value THEN [sample |-> old, delta |-> 0]
  ELSE [sample |-> [value |-> old.value, ts |-> ts], delta |-> value - old.value]

\* _compute_rates: no rate for a first sample, for one that is no later than
\* the last, and over a reset of the counter; the last keeps the old sample.
ComputeRates(old, value, ts) ==
  IF old.ts # None /\ ts <= old.ts THEN [sample |-> old, delta |-> 0]
  ELSE [sample |-> [value |-> value, ts |-> ts],
        delta |-> IF old.ts = None \/ value < old.value THEN 0
                  ELSE value - old.value]

\* What it has computed goes to the cache it began with, which cleanup may
\* have dropped.  The rate over the interval accounts for delta tokens.
Store(c, t) ==
  /\ job[c][t].stage = "scraped"
  /\ IF t \in scene.metered
     THEN LET r == ComputeRates(prev[t], job[c][t].value, job[c][t].ts) IN
            /\ prev' = [prev EXCEPT ![t] = r.sample]
            /\ counted' = [counted EXCEPT ![t] = @ + r.delta]
     ELSE UNCHANGED <<prev, counted>>
  /\ job' = [job EXCEPT ![c][t] = NoJob]
  /\ UNCHANGED <<scene, running, regVars, lock, reqVars, loop, clock, podVars, raced>>

\* The pods cannot be listed or scraped, or the cache is dropped: nothing is
\* stored.
CollectFails(c, t) ==
  /\ job[c][t].stage \in {"listed", "scraped", "orphan"}
  /\ job' = [job EXCEPT ![c][t] = NoJob]
  /\ UNCHANGED <<scene, running, regVars, metricVars, lock, reqVars, loop, clock, podVars, raced>>

-----------------------------------------------------------------------------
(* The loops                                                               *)

Active(t) == clock - accessed[t] <= Timeout

\* Mutant: the loop collects the default target only.
CollectDefaultOnly ==
  /\ loop = "top" /\ lock = {}
  /\ job' = [job EXCEPT ![Loop] =
               [t \in Targets |-> IF t \in default /\ Active(t) THEN Listed ELSE NoJob]]
  /\ loop' = "gathering"
  /\ UNCHANGED <<scene, running, regVars, metricVars, lock, reqVars, clock, podVars, raced>>

CollectActive ==
  /\ loop = "top" /\ lock = {}
  /\ job' = [job EXCEPT ![Loop] =
               [t \in Targets |-> IF t \in targets /\ Active(t) THEN Listed ELSE NoJob]]
  /\ raced' = raced \cup {t \in Targets : Active(t) /\ Collecting(t) # {}}
  /\ loop' = "gathering"
  /\ UNCHANGED <<scene, running, regVars, metricVars, lock, reqVars, clock, podVars>>

\* gather() is over, failures included; the loop sleeps and begins again.
LoopSleeps ==
  /\ loop = "gathering" /\ \A t \in Targets : job[Loop][t].stage = "none"
  /\ loop' = "top"
  /\ UNCHANGED <<scene, running, regVars, metricVars, lock, reqVars, job, clock, podVars, raced>>

Expired == {t \in targets \ default : ~Active(t)}

\* An iteration of _cleanup_loop that finds something to remove.
Cleanup ==
  /\ running /\ lock = {} /\ Expired # {}
  /\ targets' = targets \ Expired
  /\ job' = [c \in Collectors |-> [t \in Targets |->
               IF t \in Expired /\ job[c][t].stage # "none"
               THEN [job[c][t] EXCEPT !.stage = "orphan"] ELSE job[c][t]]]
  /\ UNCHANGED <<scene, running, default, accessed, checked, metricVars, lock, reqVars,
                 loop, clock, podVars, raced>>

-----------------------------------------------------------------------------
Request(q) ==
  \/ Touch(q) \/ Refresh(q) \/ Refreshed(q) \/ Add(q) \/ Added(q)
  \/ CRVerified(q) \/ GetMetrics(q) \/ CollectedNow(q)

Collection(c) == \E t \in Targets : Scrape(c, t) \/ Store(c, t) \/ CollectFails(c, t)

Next ==
  \/ \E t \in Targets : Generates(t) \/ PodRestarts(t)
  \/ Tick \/ StartCollection \/ Stop
  \/ \E q \in Requests : Arrive(q) \/ Request(q)
  \/ \E c \in Collectors : Collection(c)
  \/ CollectActive \/ LoopSleeps \/ Cleanup

\* Calls of Kubernetes and of the pods end and the event loop runs what is
\* ready.  A request waits for the lock in a queue (asyncio.Lock is fair), so
\* that one who keeps getting a chance gets the lock.
Fairness ==
  /\ \A q \in Requests : SF_vars(Request(q))
  /\ \A c \in Collectors : WF_vars(Collection(c))
  /\ SF_vars(CollectActive) /\ WF_vars(LoopSleeps)

Spec == Init /\ [][Next]_vars /\ Fairness

-----------------------------------------------------------------------------
Times == 0 .. scene.until
Samples == [value : 0 .. MaxCounter, ts : Times \cup {None}]

TypeOK ==
  /\ scene \in Scenes
  /\ running \in BOOLEAN /\ loop \in {"off", "top", "gathering"}
  /\ targets \subseteq Targets /\ default \subseteq Targets
  /\ accessed \in [Targets -> Times] /\ checked \in [Targets -> Times]
  /\ prev \in [Targets -> Samples]
  /\ lock \subseteq Requests
  /\ pc \in [Requests -> {"idle", "registering", "refreshing", "adding",
                          "verifying", "asking", "collecting"}]
  /\ asks \in [Requests -> Targets \cup {None}] /\ wants \in [Requests -> BOOLEAN]
  /\ began \in [Requests -> Times]
  /\ \A c \in Collectors, t \in Targets :
       /\ job[c][t].stage \in {"none", "listed", "scraped", "orphan"}
       /\ job[c][t].value \in 0 .. MaxCounter
  /\ clock \in Times
  /\ counter \in [Targets -> 0 .. MaxCounter]
  /\ generated \in [Targets -> 0 .. MaxCounter]
  /\ counted \in [Targets -> Nat] /\ raced \subseteq Targets

\* However registrations and cleanups interleave, there is one default target
\* as soon as there is any: /metrics and the dashboard's aggregate are about
\* that one.
OneDefault == targets # {} => \E t \in targets : default = {t}

\* Cleanup comes between register_target and get_metrics of a request only if
\* the request is older than INACTIVE_TIMEOUT: till then it finds its target,
\* whoever else registers, refreshes or expires meanwhile and however long it
\* waited for the lock.
RegisteredIsFound ==
  \A q \in Requests :
    pc[q] = "asking" => asks[q] \in targets \/ clock - began[q] > Timeout

\* The rates never account for more tokens than the pod generated, over any
\* restarts of it, late stores and re-registrations, unless two collections of
\* the target were in flight at the same time.
NoOvercount == \A t \in Targets \ raced : counted[t] <= generated[t]

\* A request is answered, whoever holds the lock before it and however often.
RequestAnswered(q) == pc[q] # "idle" ~> pc[q] = "idle"

\* A target that clients keep asking for is collected.
ActiveCollected ==
  \A t \in Targets :
    t \in targets /\ running
      ~> ~running \/ t \notin targets \/ ~Active(t) \/ job[Loop][t].stage # "none"
=============================================================================

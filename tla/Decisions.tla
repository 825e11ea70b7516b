----------------------------- MODULE Decisions ------------------------------
(***************************************************************************)
(* The parts of the program that compute and keep no state, asked about    *)
(* every input of bounded sets: each question is a state that holds its    *)
(* inputs, and the properties say what the answer must be.                 *)
(***************************************************************************)
EXTENDS ServingArgs, ModelCapacity, SearchSpace, Verdicts, MetricMath

CONSTANTS ArgItems,     \* sequences an argument list is put together from
          ArgChanges,   \* tuning arguments that are changed
          Deployments,  \* CRs without their arguments: [containers, holds]
          ResourceChanges,
          Targets,      \* targets that are analysed
          Spaces,       \* [config, suggestion]
          Judgements,   \* [thresholds, result]
          SweepRuns,    \* [steps, config]
          TrialPairs,   \* [one, other, sla]
          RetriedCalls, \* [outcomes, retries, delay]
          Scrapes       \* [pods: scrapes, grown: tallies] of a target's pods

\* What requests and measurements may be.  A field of config.json that is
\* absent or no positive number is 0, a target is observed while it runs,
\* ranges are validated only for their order, a profile has a threshold, the
\* SLA is at most ten minutes, and 0 stands for a field not given.
CfgType ==
  [num_hidden_layers : Nat, layer_types : Seq(STRING), full_attention_interval : Nat,
   num_kv_shared_layers : Nat, num_attention_heads : Nat, num_key_value_heads : Nat,
   hidden_size : Nat, head_dim : Nat, num_global_key_value_heads : Nat,
   global_head_dim : Nat, attention_k_eq_v : BOOLEAN, kv_lora_rank : Nat,
   qk_rope_head_dim : Nat, kv_dtype_bytes : Nat \ {0}, sliding_window : Nat,
   linear_state : Nat]

TargetType ==
  [cfg : CfgType, gpus : Nat, accelerator : Nat, openvino : BOOLEAN, pod_memory : Nat,
   weight : Nat, util : Nat, running_util : Nat, batched : Nat, served : Nat,
   context_limit : Nat, observed : SUBSET [pool : Nat, available : Nat, blocks : Nat]]

AnyRange == [lo : Int, hi : Int]
SpaceType ==
  [seqs : AnyRange, batch : AnyRange, util : AnyRange, weight : Nat, overhead : Nat, gib : Nat,
   dedicated : BOOLEAN]

\* A token that is not a tuning argument's, and an item of an argument list.
OneToken == [kind : {"option", "extended", "word"}, value : STRING]
OtherToken == OneToken \cup [kind : {"json"}, pieces : Seq(OneToken)]
ArgItem ==
  [style : {"assigned", "spaced"}, key : TuningKeys, value : STRING \cup {Empty}]
  \cup [style : {"bare"}, key : TuningKeys]
  \cup [style : {"other"}, tokens : Seq(OtherToken) \ {<<>>}]

\* A word after a flag is the flag's: what follows one without is an option.
ASSUME ArgItemsAssumption ==
  /\ ArgItems \subseteq Seq(ArgItem)
  /\ \A items \in ArgItems : \A i \in 1..Len(items) - 1 :
       (items[i].style = "bare" /\ items[i + 1].style = "other") =>
         items[i + 1].tokens[1].kind \in {"option", "extended"}

IsMap(f) == f = [name \in DOMAIN f |-> f[name]]
IsMapOfMaps(f) == IsMap(f) /\ \A name \in DOMAIN f : IsMap(f[name])

ASSUME ChangesAssumption ==
  /\ \A new \in ArgChanges : IsMap(new) /\ DOMAIN new \subseteq TuningKeys
  /\ \A resources \in ResourceChanges : IsMapOfMaps(resources)

\* A CR that holds arguments has a main container, and one that does not has
\* none in it.
ASSUME DeploymentsAssumption ==
  \A cr \in Deployments :
    /\ IsMap(cr.containers)
    /\ \A name \in DOMAIN cr.containers :
         LET container == cr.containers[name]
         IN /\ container = [env |-> container.env, resources |-> container.resources]
            /\ IsMap(container.env) /\ IsMapOfMaps(container.resources)
    /\ cr.holds => Main \in DOMAIN cr.containers
    /\ (~cr.holds /\ Main \in DOMAIN cr.containers) =>
         ArgsEnv \notin DOMAIN cr.containers[Main].env

ASSUME TargetsAssumption ==
  Targets \subseteq {target \in TargetType : \A o, p \in target.observed : o = p}

ASSUME SpacesAssumption ==
  Spaces \subseteq [config : SpaceType, suggestion : [seqs : Int, util : Int, batch : Int]]

ASSUME JudgementsAssumption ==
  \A q \in Judgements :
    /\ q.result.success \in Nat /\ q.result.failed \in Nat
    /\ DOMAIN q.thresholds # {}
    /\ \A metric \in DOMAIN q.thresholds :
         /\ q.thresholds[metric] \in Nat
         /\ metric \notin {"availability", "error_rate"} =>
              q.result.latency[metric] \in Nat \cup {NotMeasured}

ASSUME SweepRunsAssumption ==
  \A q \in SweepRuns :
    /\ q.steps \in Seq([total : Nat, failed : Nat, p99 : Nat, tps : Nat, mean : Nat])
    /\ q.config \in [stable : Nat \ {0}, error_rate : 0..100, factor : Nat \ {0}]

ASSUME TrialPairsAssumption ==
  \A q \in TrialPairs :
    /\ \A trial \in {q.one, q.other} : trial \in [refused : BOOLEAN, p99 : Nat, tps : Nat]
    /\ q.sla \in Nat /\ 100 <= q.sla /\ q.sla <= 600000

\* How many requests ended within a bound, of a tally per bucket.
EndedUpTo(tally, le) == SumFunctionOnSet(tally, {b \in AllBounds : b <= le})

\* Pods with at most one scrape before this one, each as long ago as it may be,
\* and a tally of every pod that had one and has not restarted: it counts what
\* it did and the requests that ended since, each in its bucket and all above.
ScrapeOf(pods) ==
  /\ IsFiniteSet(DOMAIN pods)
  /\ \A p \in DOMAIN pods : /\ pods[p].now \in [AllBounds -> Nat] /\ pods[p].per \in Nat
                            /\ pods[p].before \subseteq [AllBounds -> Nat]
                            /\ \A was, old \in pods[p].before : was = old

TallyOf(t, pods) ==
  /\ DOMAIN t = {p \in DOMAIN pods : pods[p].before # {}}
  /\ \A p \in DOMAIN t :
       /\ t[p] \in [AllBounds -> Nat]
       /\ \A was \in pods[p].before, le \in AllBounds :
            pods[p].now[le] = was[le] + EndedUpTo(t[p], le)

ASSUME ScrapesAssumption ==
  \A q \in Scrapes : ScrapeOf(q.pods) /\ \A t \in q.grown : TallyOf(t, q.pods)

ASSUME RetriedCallsAssumption == \A q \in RetriedCalls : q.retries \in Nat /\ q.delay \in Nat

VARIABLE question

Idle == [topic |-> "none"]
Ask(topic, inputs) == \E input \in inputs : question' = [topic |-> topic, about |-> input]

DecisionsInit == question = Idle

AskArgs == Ask("args", [items : ArgItems, new : ArgChanges])
AskDeployment ==
  Ask("deployment", [items : ArgItems, new : ArgChanges, cr : Deployments,
                     resources : ResourceChanges])
AskCapacity == Ask("capacity", Targets)
AskSpace == Ask("space", Spaces)
AskVerdict == Ask("verdict", Judgements)
AskSweep == Ask("sweep", SweepRuns)
AskScore == Ask("score", TrialPairs)
AskRetry == Ask("retry", RetriedCalls)
AskLatency == Ask("latency", Scrapes)

DecisionsNext ==
  /\ question = Idle
  /\ \/ AskArgs \/ AskDeployment \/ AskCapacity \/ AskSpace \/ AskVerdict
     \/ AskSweep \/ AskScore \/ AskRetry \/ AskLatency

About(topic) == question.topic = topic

-----------------------------------------------------------------------------
(* Arguments.  An item is a setting of a tuning argument, in one of three  *)
(* styles, or an argument of another kind with its tokens.                 *)

Tokens(item) ==
  CASE item.style = "other" -> item.tokens
    [] item.style = "assigned" -> <<Assigned(item.key, item.value)>>
    [] item.style = "spaced" -> <<Bare(item.key), Word(item.value)>>
    [] item.style = "bare" -> <<Bare(item.key)>>

ListOf(items) == FlattenSeq([i \in DOMAIN items |-> Tokens(items[i])])
PassedOn(tokens) ==
  FlattenSeq([i \in DOMAIN tokens |-> IF Owned(tokens[i]) THEN <<>> ELSE <<tokens[i]>>])
Others(items) ==
  FlattenSeq([i \in DOMAIN items |->
                IF items[i].style = "other" THEN PassedOn(items[i].tokens) ELSE <<>>])
Foreign(args) ==
  FlattenSeq([i \in DOMAIN args |-> IF Tunes(args[i]) THEN <<>> ELSE <<args[i]>>])

\* The last setting of each key, overridden by the change; empty ones vanish.
Wanted(items, new) ==
  LET set(key) == {i \in DOMAIN items : /\ items[i].style \in {"assigned", "spaced"}
                                        /\ items[i].key = key}
      all == Over(new, [key \in {k \in TuningKeys : set(k) # {}} |->
                          items[Max(set(key))].value])
  IN [key \in {k \in DOMAIN all : all[k] # Empty} |-> all[key]]

Unquoted(items) == \A i \in DOMAIN Others(items) : Others(items)[i].kind # "json"

\* The arguments written into a CR are those asked for and those it had, each
\* read back as it was set, and the arguments the tuner does not own are
\* passed on in their order, whatever style the list mixes, except for flags
\* that begin with the name of one it owns, which are dropped (no flag of vLLM
\* does).  For a CR that holds one string this is so as long as none of them
\* was quoted.
ArgsPatched ==
  About("args") =>
    LET items == question.about.items
        new == question.about.new
        list == BuildArgs(ListOf(items), new)
        string == BuildString(ListOf(items), new)
    IN /\ ArgsToConfig(list) = Wanted(items, new)
       /\ Foreign(list) = Others(items)
       /\ ArgsToConfig(string) = Wanted(items, new)
       /\ Unquoted(items) => Foreign(string) = Others(items)

\* The CR of a question, its main container with the arguments if it has any.
Deployed(about) ==
  IF about.cr.holds
  THEN [about.cr.containers EXCEPT ![Main].env = Over(Entry(ArgsEnv, ListOf(about.items)), @)]
  ELSE about.cr.containers

Quantity(container, tier, key) == At(At(container.resources, tier, NoEntries), key, Null)

\* A PATCH of arguments and resources, two sub-patches that each name only
\* the main container, changes both and drops neither the sidecars nor the
\* environment nor the resources it does not name.
PatchKeepsSiblings ==
  About("deployment") =>
    LET q == question.about
        before == Deployed(q)
        after == PatchConfig(before, q.new, q.resources)
        main == At(before, Main, NoContainer)
        asked(tier) == At(q.resources, tier, NoEntries)
    IN /\ \A name \in DOMAIN before \ {Main} : name \in DOMAIN after /\ after[name] = before[name]
       /\ \A name \in DOMAIN main.env \ {ArgsEnv} : after[Main].env[name] = main.env[name]
       /\ q.new # NoEntries =>
            ArgsToConfig(CurrentArgs(after)) = Wanted(IF q.cr.holds THEN q.items ELSE <<>>, q.new)
       /\ q.resources # NoEntries =>
            \A tier \in {"limits", "requests"}, key \in {"cpu", "memory"} :
              Quantity(after[Main], tier, key) =
                IF key \notin DOMAIN asked(tier) THEN Quantity(main, tier, key)
                ELSE IF asked(tier)[key] = Empty THEN Null ELSE asked(tier)[key]

\* A trial, which creates the CR anew, and a PATCH of the same arguments
\* leave the same CR.
AppliesAgree ==
  About("deployment") =>
    LET q == question.about
    IN (q.new # NoEntries /\ q.resources = NoEntries) =>
         PatchConfig(Deployed(q), q.new, q.resources) = ApplyArgs(Deployed(q), q.new)

\* A patch keeps what it does not name, and both ways to set the arguments of
\* a CR agree.
PatchesAgree == PatchKeepsSiblings /\ AppliesAgree

-----------------------------------------------------------------------------
(* Capacity                                                                *)

\* The footprint of a sequence is what its layers keep, one by one: full
\* layers all its tokens, sliding ones the window and the step that is
\* scheduled, linear ones a fixed state, layers that share KV nothing.
KvAddsUp ==
  About("capacity") =>
    LET cfg == question.about.cfg
        a == AnalyzeConfig(cfg)
        keeps(type, len) ==
          CASE type = "full_attention" -> FullLayer(cfg) * len
            [] type = "sliding_attention" ->
                 SlidingLayer(cfg) * Smaller(len, IF cfg.sliding_window = 0 THEN len
                                                  ELSE cfg.sliding_window + DefaultBatch - 1)
            [] OTHER -> cfg.linear_state
        owning == 1..(cfg.num_hidden_layers - cfg.num_kv_shared_layers)
    IN KvKnown(cfg) =>
         \A len \in ContextLens :
           KvPerSeq(a, len, DefaultBatch) =
             SumFunction([i \in owning |-> keeps(LayerTypes(cfg)[i], len)])

\* A trial of a length at the utilization that is analysed.
TrialFor(target, result, len) ==
  [max_model_len |-> len, max_num_seqs |-> 64, batched |-> result.batched,
   util |-> OrElse(target.util, OrElse(target.running_util, DefaultUtil))]

\* The capacity shown to the user and the prediction a trial is skipped for
\* are computed apart and agree: where two sequences of the requested length
\* fit, no trial is skipped, and where none fits, every trial is, if the
\* model has a layer with full attention.  (For models without linear layers,
\* whose slots are booked differently.  For a model of sliding layers only
\* the second half does not hold: its KV per token is 0, taken for unknown.)
RiskAgrees ==
  About("capacity") =>
    LET target == question.about
        result == AnalyzeTarget(target)
    IN result.analysis.linear_per_seq = 0 =>
         \A len \in DOMAIN result.capacity :
           /\ result.capacity[len] >= 2 => ~OomRisk(target, result, TrialFor(target, result, len))
           /\ (result.capacity[len] = 0 /\ result.analysis.full_layers > 0) =>
                OomRisk(target, result, TrialFor(target, result, len))

\* With the overhead solved from the pool a running vLLM reports, the estimate
\* for the running utilization gives that pool back, up to the rounding of
\* the overhead to hundredths of a GiB.
CalibrationReproduces ==
  About("capacity") =>
    LET target == question.about
        result == AnalyzeTarget(target)
        off(estimate, measured) ==
          IF estimate > measured THEN estimate - measured ELSE measured - estimate
    IN (result.calibrated /\ target.util = target.running_util) =>
         \A o \in target.observed, len \in DOMAIN result.capacity :
           o.available = 0 =>
             off(result.capacity[len], o.pool \div len)
               <= 1 + GIB \div (200 * KvPerSeq(result.analysis, len, result.batched))

\* The suggested range is not empty, never above the block count a hybrid
\* model refuses to start beyond, and above 64 only as far as sequences fit;
\* the tuner accepts it (its ends differ), unless the blocks do not go beyond
\* its lower end, which is at most 256.
SpaceUsable ==
  About("capacity") =>
    LET target == question.about
        result == AnalyzeTarget(target)
    IN \A space \in result.space :
         /\ space.min <= space.max
         /\ \A o \in target.observed : LET cap == MambaSeqCap(result.analysis, o)
                                       IN /\ cap # 0 => space.max <= cap
                                          /\ cap = 0 \/ cap > 256 => space.min < space.max
         /\ target.observed = {} =>
              /\ 0 < space.min /\ space.min < space.max
              /\ space.max > 64 => \E len \in DOMAIN result.capacity :
                                     space.max <= result.capacity[len]

-----------------------------------------------------------------------------
(* Search space                                                            *)

Valid(config) == \A r \in {config.seqs, config.util, config.batch} : r.lo < r.hi

\* Whatever ranges pass validation, the study is never asked for an empty one
\* and every batch it may choose holds a token of each sequence, which vLLM
\* demands when it starts.
SpaceNeverEmpty ==
  About("space") =>
    LET config == question.about.config
    IN Valid(config) =>
         /\ UtilLow(config) <= config.util.hi
         /\ \A n \in SeqValues(config) :
              /\ BatchLow(config, n) <= BatchHigh(config, n)
              /\ \A batch \in BatchValues(config, n) : batch >= n

\* What is left of a suggestion of the analyst model is a point of the grid
\* the study searches: its trial runs what was queued.  (For a lower end of
\* max_num_seqs on the grid of 32 the suggestion is rounded to.  The code only
\* brings the utilization into the range of the request: a suggestion below
\* the lower end that suggest_params raises is queued below what is searched.)
SanitizedSuggestible ==
  About("space") =>
    LET config == question.about.config
        queued == Sanitize(config, question.about.suggestion)
    IN (Valid(config) /\ config.seqs.lo % SeqStep = 0) =>
         /\ queued.seqs \in SeqValues(config)
         /\ queued.util \in config.util.lo..config.util.hi
         /\ question.about.suggestion.util >= UtilLow(config) => queued.util >= UtilLow(config)
         /\ queued.batch \in BatchValues(config, queued.seqs)

\* From the analysis of a model over the ranges a client sends to the trial
\* that is queued, the study always has something to choose from; a queued
\* utilization is one it searches unless it was suggested below.
StudyHasChoice == SpaceUsable /\ SpaceNeverEmpty /\ SanitizedSuggestible

-----------------------------------------------------------------------------
(* Verdicts                                                                *)

\* A benchmark whose requests never ran fails every profile, and one whose
\* requests all failed every profile that asks for answers.
EmptyNeverPasses ==
  About("verdict") =>
    LET q == question.about
    IN OverallPass(q.thresholds, q.result) =>
         /\ Total(q.result) > 0
         /\ \A metric \in DOMAIN q.thresholds \cap {"availability"} :
              q.thresholds[metric] > 0 => q.result.success > 0

\* The same figures raise an alert while they are live exactly for the
\* latencies that fail once they are saved as a benchmark.
AlertsAgree ==
  About("verdict") =>
    LET q == question.about
    IN Total(q.result) > 0 =>
         Violations(q.thresholds, q.result.latency) =
           {metric \in DOMAIN q.thresholds \ {"availability", "error_rate"} :
              Status(metric, q.thresholds[metric], q.result) = "fail"}

\* Without a request there is no pass, and with some the live alerts and the
\* verdict on the saved benchmark agree.
VerdictsSound == EmptyNeverPasses /\ AlertsAgree

\* Whether a request of a step was answered.
Answered(step) == step.failed < step.total

\* The rate of best efficiency a sweep recommends was answered when it was
\* measured, and so was the optimal one if the step reports any request; it is
\* followed only by saturated steps up to the saturation point.  (For an error
\* threshold below 100%, with which a step that fails altogether is saturated.
\* A step whose first requests all fail alike is broken off, reports no request
\* and no failure, passes for one that is not saturated and may be optimal.)
RecommendedWorks ==
  About("sweep") =>
    LET steps == question.about.steps
        config == question.about.config
        optimal == Optimal(steps, config)
        knee == Knee(steps, config)
    IN config.error_rate < 100 =>
       /\ knee # 0 => Answered(steps[knee])
       /\ optimal # 0 =>
            /\ steps[optimal].total > 0 => Answered(steps[optimal])
            /\ optimal < Sweep(steps, config).saturation
            /\ config.stable <= Sweep(steps, config).saturation - optimal
            /\ steps[1].p99 > 0 => steps[optimal].p99 <= steps[1].p99 * config.factor

\* A trial meets the SLA only if its load test ran and its p99 was within it,
\* and then it beats every trial that does not; of two that do not, the one
\* closer to the SLA wins.  (For load tests with an answer: without one, p99
\* and throughput are 0 and the trial counts as within the SLA.)
ScoreOrders ==
  About("score") =>
    LET q == question.about
        answered(t) == t.refused \/ t.p99 > 0
        score(t) == Score(t, q.sla)
    IN (answered(q.one) /\ answered(q.other)) =>
         /\ SlaMet(q.one, q.sla) => ~q.one.refused /\ q.one.p99 <= q.sla
         /\ (SlaMet(q.one, q.sla) /\ ~SlaMet(q.other, q.sla)) => score(q.one) > score(q.other)
         /\ (/\ ~SlaMet(q.one, q.sla) /\ ~SlaMet(q.other, q.sla)
             /\ ~q.one.refused /\ ~q.other.refused) =>
              (score(q.one) > score(q.other) <=> q.one.p99 < q.other.p99)

\* A request is sent again only after it got no answer, at most as often as
\* asked, and the caller waits for nothing once the last attempt has failed:
\* the delays before the attempts made add up to delay * (2^(sent-1) - 1).
RetriesBounded ==
  About("retry") =>
    LET q == question.about
        answers == {i \in 1..(q.retries + 1) : q.outcomes[i] \in {"ok", "refused"}}
        sent == IF answers = {} THEN q.retries + 1 ELSE Min(answers)
    IN WithRetry(q.outcomes, q.retries, q.delay) =
         [sent |-> sent, outcome |-> q.outcomes[sent],
          waited |-> q.delay * (PowerOfTwo[sent - 1] - 1)]

-----------------------------------------------------------------------------
(* Latencies                                                               *)

LowerEq(a, b) == a[1] * b[2] <= b[1] * a[2]
Above(le) == {b \in Bounds : b < le}

\* The bucket of the request whose rank is percent of the requests that ended
\* per second.  tallies: per pod, how many ended per bucket since its scrape.
RankBucket(pods, tallies, percent) ==
  LET upTo(le) ==
        SumFunction([p \in DOMAIN tallies |-> pods[p].per * EndedUpTo(tallies[p], le)])
  IN Min({le \in AllBounds : upTo(le) * 100 >= percent * upTo(Infinite)})

\* The latencies shown lie in the bucket of the request they stand for, as
\* counted over the requests that ended on all pods since each was scraped
\* last, those of a second on one pod like those of a second on another even
\* if a scrape of it was missed; and the median never exceeds the p99,
\* restarted pods included.
LatencyInBucket ==
  About("latency") =>
    LET pods == question.about.pods
        tallies == question.about.grown
        within(shown, le) ==
          /\ LowerEq(<<IF Above(le) = {} THEN 0 ELSE Max(Above(le)), 1>>, shown)
          /\ le # Infinite => LowerEq(shown, <<le, 1>>)
    IN /\ LowerEq(Shown50(pods), Shown99(pods))
       /\ tallies # {} =>
            \A t \in tallies :
              (\E p \in DOMAIN t : pods[p].per > 0 /\ \E b \in AllBounds : t[p][b] > 0) =>
                /\ within(Shown50(pods), RankBucket(pods, t, 50))
                /\ within(Shown99(pods), RankBucket(pods, t, 99))
=============================================================================

--------------------------- MODULE ModelCapacity ----------------------------
(***************************************************************************)
(* How many sequences a target holds: the KV footprint derived from the    *)
(* model's config.json, the memory budget, the capacity per context        *)
(* length, its calibration by what vLLM measured, the search space         *)
(* suggested from it (services/model_analysis.py, _analyze_target of       *)
(* routers/tuner.py) and the risk a trial is skipped for                   *)
(* (kv_cache_oom_risk of services/tuner_logic.py).                         *)
(*                                                                         *)
(* Utilizations are percentages, weights and overheads hundredths of a     *)
(* GiB, and GIB is a GiB in the unit of the byte counts.  0 stands for a   *)
(* field that is absent, as _pos_int treats both alike.                    *)
(***************************************************************************)
EXTENDS Integers, Sequences, FiniteSets, FiniteSetsExt, SequencesExt

CONSTANTS GIB,
          ContextLens,  \* CAPACITY_CONTEXT_LENS
          Typical,      \* TYPICAL_REQUEST_TOKENS
          DefaultUtil,  \* DEFAULT_UTILIZATION
          DefaultBatch  \* DEFAULT_MAX_NUM_BATCHED_TOKENS

ASSUME CapacityAssumption ==
  /\ GIB \in Nat \ {0} /\ ContextLens \subseteq Nat \ {0}
  /\ DefaultUtil \in Nat /\ DefaultBatch \in Nat \ {0}

Unknown == -1
Larger(a, b) == IF a >= b THEN a ELSE b
Smaller(a, b) == IF a <= b THEN a ELSE b
OrElse(value, default) == IF value # 0 THEN value ELSE default

-----------------------------------------------------------------------------
(* config.json                                                             *)

LayerTypes(cfg) ==
  IF Len(cfg.layer_types) = cfg.num_hidden_layers THEN cfg.layer_types
  ELSE [i \in 1..cfg.num_hidden_layers |->
          IF cfg.full_attention_interval = 0 \/ i % cfg.full_attention_interval = 0
          THEN "full_attention" ELSE "linear_attention"]

\* Mutant: the layers that share the KV of another are counted as well.
OwningAll(cfg) == LayerTypes(cfg)

\* The layers at the end may share the KV of others.
Owning(cfg) ==
  SubSeq(LayerTypes(cfg), 1,
         cfg.num_hidden_layers - Smaller(cfg.num_kv_shared_layers, cfg.num_hidden_layers))

HeadDim(cfg) ==
  OrElse(cfg.head_dim, IF cfg.num_attention_heads = 0 THEN 0
                       ELSE cfg.hidden_size \div cfg.num_attention_heads)
KvHeads(cfg) == OrElse(cfg.num_key_value_heads, cfg.num_attention_heads)
KvFactor(cfg) == IF cfg.attention_k_eq_v THEN 1 ELSE 2

\* Units of KV a full-attention layer keeps per token.
FullLayer(cfg) ==
  IF cfg.kv_lora_rank # 0 THEN (cfg.kv_lora_rank + cfg.qk_rope_head_dim) * cfg.kv_dtype_bytes
  ELSE KvFactor(cfg) * OrElse(cfg.num_global_key_value_heads, KvHeads(cfg))
       * OrElse(cfg.global_head_dim, HeadDim(cfg)) * cfg.kv_dtype_bytes

\* Under MLA the code counts full-attention layers only.
SlidingLayer(cfg) ==
  IF cfg.kv_lora_rank # 0 THEN 0
  ELSE KvFactor(cfg) * KvHeads(cfg) * HeadDim(cfg) * cfg.kv_dtype_bytes

KvKnown(cfg) ==
  /\ cfg.num_hidden_layers # 0
  /\ cfg.kv_lora_rank # 0 \/ (KvHeads(cfg) # 0 /\ HeadDim(cfg) # 0)

\* analyze_config
AnalyzeConfig(cfg) ==
  LET count(type) == Cardinality({i \in DOMAIN Owning(cfg) : Owning(cfg)[i] = type})
      full == count("full_attention")
      sliding == count("sliding_attention")
      linear == Len(Owning(cfg)) - full - sliding
  IN [full_layers |-> full, linear_layers |-> linear,
      kv_per_token |-> IF KvKnown(cfg) THEN full * FullLayer(cfg) ELSE Unknown,
      sliding_per_token |-> IF KvKnown(cfg) THEN sliding * SlidingLayer(cfg) ELSE 0,
      linear_per_seq |-> IF KvKnown(cfg) THEN linear * cfg.linear_state ELSE 0,
      sliding_window |-> cfg.sliding_window]

\* Tokens a sliding-window layer holds of a sequence.
WindowTokens(window, len, batched) ==
  IF window = 0 THEN len
  ELSE Smaller(len, IF batched = 0 THEN window ELSE window - 1 + batched)

\* kv_bytes_per_seq
KvPerSeq(a, len, batched) ==
  IF a.kv_per_token = Unknown THEN Unknown
  ELSE a.kv_per_token * len
       + a.sliding_per_token * WindowTokens(a.sliding_window, len, batched)
       + a.linear_per_seq

\* boot_state_bytes_per_seq
BootState(a, openvino) ==
  IF a.linear_layers = 0 \/ a.linear_per_seq = 0 \/ openvino THEN a.linear_per_seq
  ELSE LET group == OrElse(Smaller(a.full_layers, a.linear_layers), a.linear_layers)
       IN (a.linear_per_seq * group) \div a.linear_layers

-----------------------------------------------------------------------------
(* Memory                                                                  *)

\* gpu_overhead_gib
GpuOverhead(gpus) ==
  gpus * (CASE gpus <= 1 -> 600 [] gpus = 2 -> 1000 [] gpus \in 3..4 -> 1600
            [] OTHER -> 2400)

\* memory_budget: a gib of 0 is not known.
MemoryBudget(target) ==
  LET budget(gib, dedicated, overhead) ==
        [gib |-> gib, dedicated |-> dedicated, overhead |-> overhead]
  IN IF target.gpus > 0
     THEN budget(target.gpus * target.accelerator, FALSE,
                 IF target.accelerator = 0 THEN 0 ELSE GpuOverhead(target.gpus))
     ELSE IF target.openvino THEN budget(4, TRUE, 0)
     ELSE budget(target.pod_memory, FALSE, 0)

Accelerator(target) == target.gpus > 0 /\ target.accelerator > 0

\* kv_bytes, in hundredths of the unit.
KvBudget(budget, util, weight) ==
  IF budget.dedicated THEN budget.gib * GIB * 100
  ELSE (budget.gib * util - weight - budget.overhead) * GIB

\* capacity_table
CapacityTable(a, budget, util, weight, maxContext, batched) ==
  [len \in {l \in ContextLens : /\ maxContext = 0 \/ l <= maxContext
                                /\ KvPerSeq(a, l, batched) \notin {0, Unknown}} |->
     Larger(0, KvBudget(budget, util, weight) \div (100 * KvPerSeq(a, len, batched)))]

\* observed_capacity: vLLM reports its pool in tokens.
ObservedCapacity(pool, served) ==
  [len \in {l \in ContextLens : served = 0 \/ l <= served} |-> pool \div len]

\* Mutant: the weights are not taken off.
CalibratedOverheadLoaded(a, budget, util, weight, pool, available, gpus) ==
  IF budget.dedicated \/ budget.gib = 0 \/ weight = 0 THEN Unknown
  ELSE LET left == budget.gib * util * GIB - pool * a.kv_per_token * 100
       IN IF left < 0 THEN Unknown ELSE (2 * left + GIB) \div (2 * GIB)

\* calibrated_overhead_gib, rounded to hundredths: what the running pod
\* leaves between its budget, its weights and the KV memory it allocated.
CalibratedOverhead(a, budget, util, weight, pool, available, gpus) ==
  IF \/ budget.dedicated \/ budget.gib = 0 \/ weight = 0
     \/ /\ available = 0
        /\ \/ pool = 0 \/ a.kv_per_token \in {0, Unknown}
           \/ a.sliding_per_token # 0 \/ a.linear_per_seq # 0
  THEN Unknown
  ELSE LET kv == IF available # 0 THEN available * Larger(gpus, 1) * GIB
                 ELSE pool * a.kv_per_token * 100
           left == (budget.gib * util - weight) * GIB - kv
       IN IF left < 0 THEN Unknown ELSE (2 * left + GIB) \div (2 * GIB)

-----------------------------------------------------------------------------
(* The search space                                                        *)

\* suggest_search_space, {} when nothing fits.
SuggestSearchSpace(capacity, served) ==
  LET fitting == {l \in DOMAIN capacity : /\ capacity[l] >= 1
                                          /\ served = 0 \/ l <= served}
      typical == IF Typical \in fitting THEN capacity[Typical] ELSE capacity[Min(fitting)]
      max == Larger(64, Smaller(1024, (typical \div 32) * 32))
  IN IF fitting = {} THEN {}
     ELSE {[min |-> Larger(32, (max \div 128) * 32), max |-> max]}

\* clamp_search_space_to_cap
Clamp(space, cap) ==
  {IF cap = 0 \/ s.max <= cap THEN s
   ELSE [min |-> Smaller(s.min, cap), max |-> cap] : s \in space}

\* mamba_seq_cap: 0 when there is none.
MambaSeqCap(a, observed) == IF a.linear_layers = 0 THEN 0 ELSE observed.blocks

\* _analyze_target: observed is {} or holds what the running vLLM reports.
AnalyzeTarget(target) ==
  LET a == AnalyzeConfig(target.cfg)
      budget == MemoryBudget(target)
      running == OrElse(target.running_util, DefaultUtil)
      util == OrElse(target.util, running)
      batched == OrElse(target.batched, IF target.gpus > 0 THEN DefaultBatch ELSE 0)
      served == target.served
      maxContext == OrElse(target.context_limit, served)
      calibrated ==
        IF target.observed = {} \/ ~Accelerator(target) THEN Unknown
        ELSE LET o == CHOOSE o \in target.observed : TRUE
             IN CalibratedOverhead(a, budget, running, target.weight, o.pool,
                                   o.available, target.gpus)
      used == IF calibrated = Unknown THEN budget ELSE [budget EXCEPT !.overhead = calibrated]
      capacity == IF budget.gib = 0 THEN [l \in {} |-> 0]
                  ELSE CapacityTable(a, used, util, target.weight, maxContext, batched)
      estimated == SuggestSearchSpace(capacity, served)
      measured == UNION {SuggestSearchSpace(ObservedCapacity(o.pool, served), served) :
                         o \in target.observed}
      cap == IF target.observed = {} THEN 0
             ELSE MambaSeqCap(a, CHOOSE o \in target.observed : TRUE)
  IN [analysis |-> a, budget |-> used, calibrated |-> calibrated # Unknown,
      batched |-> batched, capacity |-> capacity,
      space |-> Clamp(IF measured # {} THEN measured ELSE estimated, cap)]

-----------------------------------------------------------------------------
(* A trial                                                                 *)

\* Mutant: the weights are not reserved.
OomRiskUnloaded(target, result, trial) ==
  LET a == result.analysis
      required == a.kv_per_token * trial.max_model_len
                  + a.sliding_per_token * trial.max_model_len
      available == KvBudget(result.budget, trial.util, 0)
  IN /\ a.kv_per_token \notin {0, Unknown} /\ result.budget.gib # 0
     /\ required * 1000 > available * 9

\* kv_cache_oom_risk, on the fields _build_tuning_config takes from the
\* analysis: one sequence, or the state of all slots, beyond 90% of the pool.
OomRisk(target, result, trial) ==
  LET a == result.analysis
      attention == a.kv_per_token * trial.max_model_len
                   + a.sliding_per_token * WindowTokens(a.sliding_window,
                                             trial.max_model_len, trial.batched)
      slots == BootState(a, target.openvino) * trial.max_num_seqs
      available == KvBudget(result.budget, trial.util, target.weight)
  IN /\ a.kv_per_token \notin {0, Unknown} /\ result.budget.gib # 0
     /\ Larger(attention, slots) * 1000 > available * 9
=============================================================================

--------------------------- MODULE LearnedLimits ----------------------------
(***************************************************************************)
(* What the tuner learns from trials whose pod does not boot               *)
(* (services/boot_diagnosis.py: diagnose_boot, learn_limits,               *)
(* first_violated_limit), keeps for the session (auto_tuner.py:            *)
(* _learn_limits) and in the database (storage.py), loads when the next    *)
(* tuning of the target starts and refuses trials with (tuner_logic.py).   *)
(*                                                                         *)
(* The target is modelled by what vLLM checks when it boots: the length    *)
(* its model supports, the sequences its KV pool holds and the cache       *)
(* blocks of its hybrid layers.  As learn_limits says of them, the last    *)
(* two only shrink as gpu_memory_utilization drops.                        *)
(***************************************************************************)
EXTENDS Integers, FiniteSets

CONSTANTS Seqs, Lens, Utils, \* values of max_num_seqs, max_model_len and
                             \* gpu_memory_utilization
          Machines,          \* the targets an instance looks at
          Always             \* a util of None: the limit holds at any

Growing(f) == \A u, v \in Utils : u <= v => f[u] <= f[v]

ASSUME LimitsAssumption ==
  /\ Seqs \subseteq Nat /\ Lens \subseteq Nat /\ Utils \subseteq Nat
  /\ Always \notin Nat
  /\ \A m \in Machines :
       /\ m.supported \in Nat
       /\ m.pool \in [Utils -> Nat] /\ Growing(m.pool)
       /\ m.blocks \in [Utils -> Nat] /\ Growing(m.blocks)

VARIABLES
  machine,
  session,  \* {}, or the set of the max_model_len of the tuning that runs
  learned,  \* its config.learned_limits
  stored,   \* the rows of tuner_learned_limits that are younger than the TTL
  failed    \* ghost: trials that failed, with the limits learned from them,
            \* as long as the session or the database keeps these

limitVars == <<machine, session, learned, stored, failed>>

Trials == [max_num_seqs : Seqs, max_model_len : Lens, util : Utils]

LimitsInit ==
  /\ machine \in Machines
  /\ session = {} /\ learned = {} /\ stored = {} /\ failed = {}

-----------------------------------------------------------------------------
(* Booting                                                                 *)

\* What vLLM finds wrong with a trial, and the bound its log may tell.
Faults(t) ==
  {f \in {[code |-> "max_model_len_exceeds_model", asked |-> t.max_model_len,
           bound |-> machine.supported],
          [code |-> "kv_cache_too_small", asked |-> t.max_model_len,
           bound |-> machine.pool[t.util]],
          [code |-> "mamba_blocks_exceeded", asked |-> t.max_num_seqs,
           bound |-> machine.blocks[t.util]]} : f.asked > f.bound}

Boots(t) == Faults(t) = {}

\* Mutant: the bound of the KV pool is learned as one of the model.
LearnableAlways(code) ==
  CASE code = "mamba_blocks_exceeded" -> [param |-> "max_num_seqs", always |-> FALSE]
    [] code = "kv_cache_too_small" -> [param |-> "max_model_len", always |-> TRUE]
    [] code = "max_model_len_exceeds_model" -> [param |-> "max_model_len", always |-> TRUE]

Learnable(code) ==
  CASE code = "mamba_blocks_exceeded" -> [param |-> "max_num_seqs", always |-> FALSE]
    [] code = "kv_cache_too_small" -> [param |-> "max_model_len", always |-> FALSE]
    [] code = "max_model_len_exceeds_model" -> [param |-> "max_model_len", always |-> TRUE]

\* learn_limits: nothing from a log without a number, or with a zero.
Limits(fault, t) ==
  IF fault.bound < 1 THEN {}
  ELSE {[param |-> Learnable(fault.code).param, max |-> fault.bound, code |-> fault.code,
         util |-> IF Learnable(fault.code).always THEN Always ELSE t.util]}

Exceeds(t, limit) ==
  /\ t[limit.param] > limit.max
  /\ limit.util = Always \/ t.util <= limit.util

\* first_violated_limit finds one.
Refused(t) == \E limit \in learned : Exceeds(t, limit)

-----------------------------------------------------------------------------
(* The table: a util of None is kept as -1                                 *)

ToRow(limit) == [limit EXCEPT !.util = IF @ = Always THEN -1 ELSE @]

FromRow(row) == [row EXCEPT !.util = IF @ < 0 THEN Always ELSE @]

\* INSERT OR REPLACE on target, param, code and util.
Inserted(limit) ==
  {row \in stored : \/ row.param # limit.param \/ row.code # limit.code
                    \/ row.util # ToRow(limit).util} \cup {ToRow(limit)}

-----------------------------------------------------------------------------
(* A tuning                                                                *)

\* _build_tuning_config: the limits of the target, or none when the table
\* cannot be read.
BeginTuning(len) ==
  /\ session = {}
  /\ session' = {len}
  /\ \/ /\ learned' = {FromRow(row) : row \in stored}
        /\ failed' = {f \in failed : ToRow(f.limit) \in stored}
     \/ learned' = {} /\ failed' = {}
  /\ UNCHANGED <<machine, stored>>

\* _on_trial_failure: the log names one fault.  A limit known already is
\* neither appended nor saved; a failed save is logged.
Learn(t, fault) ==
  \E limit \in Limits(fault, t) :
    /\ learned' = learned \cup {limit}
    /\ failed' = failed \cup {[trial |-> t, limit |-> limit]}
    /\ IF limit \in learned THEN UNCHANGED stored
       ELSE stored' \in {stored, Inserted(limit)}
    /\ UNCHANGED <<machine, session>>

\* execute_trial: a trial that is not refused is applied, and does not boot.
TrialFails(t) ==
  /\ t.max_model_len \in session
  /\ ~Refused(t)
  /\ \E fault \in Faults(t) : Learn(t, fault)

EndTuning ==
  /\ session # {}
  /\ session' = {}
  /\ learned' = {}
  /\ UNCHANGED <<machine, stored, failed>>

-----------------------------------------------------------------------------
(* The table between tunings                                               *)

\* DELETE /tuner/learned-limits: the tuning that runs keeps its own.
ClearLimits ==
  /\ stored # {}
  /\ stored' = {}
  /\ UNCHANGED <<machine, session, learned, failed>>

\* A row passes LEARNED_LIMIT_TTL_S and is not read any more.
Expires(row) ==
  /\ row \in stored
  /\ stored' = stored \ {row}
  /\ UNCHANGED <<machine, session, learned, failed>>

LimitsNext ==
  \/ \E len \in Lens : BeginTuning(len)
  \/ \E t \in Trials : TrialFails(t)
  \/ EndTuning \/ ClearLimits
  \/ \E row \in stored : Expires(row)

LimitsSpec == LimitsInit /\ [][LimitsNext]_limitVars

-----------------------------------------------------------------------------
Limit(utils) ==
  [param : {"max_num_seqs", "max_model_len"}, max : Nat \ {0}, util : utils,
   code : {"mamba_blocks_exceeded", "kv_cache_too_small", "max_model_len_exceeds_model"}]

LimitsTypeOK ==
  /\ machine \in Machines
  /\ session \subseteq Lens
  /\ learned \subseteq Limit(Utils \cup {Always})
  /\ stored \subseteq Limit(Utils \cup {-1})
  /\ failed \subseteq [trial : Trials, limit : Limit(Utils \cup {Always})]

\* Limits measured at one utilization and kept for days never refuse a trial
\* that would boot: the study is not cut off from good configurations.
NoGoodTrialRefused == \A t \in Trials : Refused(t) => ~Boots(t)

\* A trial that failed with a number in its log is refused from then on, in
\* this tuning and, as long as the database has the limit, in the next ones:
\* no pod is restarted for a failure that is known.
FailureRemembered ==
  session # {} => \A f \in failed : Refused(f.trial)

\* The limits in force tell apart what is known to fail and what boots: no trial
\* that would boot is refused, and no failure that had a number is tried again.
LimitsExact == NoGoodTrialRefused /\ FailureRemembered
=============================================================================

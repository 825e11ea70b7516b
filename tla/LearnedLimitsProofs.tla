------------------------- MODULE LearnedLimitsProofs --------------------------
(***************************************************************************)
(* For any targets, trials and number of tunings, a limit in force is true *)
(* of the target, so that no good trial is refused, and a failure that is  *)
(* remembered refuses its trial.                                           *)
(***************************************************************************)
EXTENDS LearnedLimits, TLAPS

\* What a limit says of the target it was learned from.
TrueLimit(limit) ==
  \/ /\ limit.code = "max_model_len_exceeds_model" /\ limit.param = "max_model_len"
     /\ limit.util = Always /\ limit.max = machine.supported
  \/ /\ limit.code = "kv_cache_too_small" /\ limit.param = "max_model_len"
     /\ limit.util \in Utils /\ limit.max = machine.pool[limit.util]
  \/ /\ limit.code = "mamba_blocks_exceeded" /\ limit.param = "max_num_seqs"
     /\ limit.util \in Utils /\ limit.max = machine.blocks[limit.util]

LearnedLimitType == Limit(Utils \cup {Always})
RowType == Limit(Utils \cup {-1})

\* Limits are true wherever they are kept, a failure is one its limit excludes,
\* and while a tuning runs it has the limit of every failure remembered.
LimitsInv ==
  /\ LimitsTypeOK
  /\ \A limit \in learned : TrueLimit(limit)
  /\ \A row \in stored : TrueLimit(FromRow(row))
  /\ \A f \in failed : Exceeds(f.trial, f.limit)
  /\ session # {} => \A f \in failed : f.limit \in learned

-----------------------------------------------------------------------------
(* The table                                                               *)

\* A row read back is the limit that was written.
LEMMA RowRoundTrip ==
  ASSUME NEW limit \in LearnedLimitType
  PROVE  ToRow(limit) \in RowType /\ FromRow(ToRow(limit)) = limit
<1>1. CASE limit.util = Always
  <2>1. ToRow(limit) = [limit EXCEPT !.util = -1]
    BY <1>1 DEF ToRow
  <2>2. ToRow(limit) \in RowType /\ ToRow(limit).util = -1
    BY <2>1 DEF LearnedLimitType, RowType, Limit
  <2>3. FromRow(ToRow(limit)) = [ToRow(limit) EXCEPT !.util = Always]
    BY <2>2 DEF FromRow
  <2>4. [[limit EXCEPT !.util = -1] EXCEPT !.util = Always] = limit
    BY <1>1 DEF LearnedLimitType, Limit
  <2> QED BY <2>1, <2>2, <2>3, <2>4
<1>2. CASE limit.util # Always
  <2>1. limit.util \in Utils /\ limit.util \in Nat
    BY <1>2, LimitsAssumption DEF LearnedLimitType, Limit
  <2>2. ToRow(limit) = limit
    BY <1>2 DEF ToRow, LearnedLimitType, Limit
  <2>3. FromRow(limit) = limit
    BY <2>1 DEF FromRow, LearnedLimitType, Limit
  <2>4. limit \in RowType
    BY <2>1 DEF RowType, LearnedLimitType, Limit
  <2> QED BY <2>2, <2>3, <2>4
<1> QED BY <1>1, <1>2

\* A row of the table is a limit.
LEMMA RowIsLimit ==
  ASSUME NEW row \in RowType
  PROVE  FromRow(row) \in LearnedLimitType
<1>1. CASE row.util = -1
  <2>1. FromRow(row) = [row EXCEPT !.util = Always]
    BY <1>1 DEF FromRow
  <2> QED BY <2>1 DEF RowType, LearnedLimitType, Limit
<1>2. CASE row.util # -1
  <2>1. row.util \in Utils /\ row.util \in Nat
    BY <1>2, LimitsAssumption DEF RowType, Limit
  <2>2. FromRow(row) = row
    BY <2>1 DEF FromRow, RowType, Limit
  <2> QED BY <2>1, <2>2 DEF RowType, LearnedLimitType, Limit
<1> QED BY <1>1, <1>2

-----------------------------------------------------------------------------
(* Learning                                                                *)

\* The limit learned from a trial that failed is a true one that excludes it.
LEMMA LearnsTrueLimit ==
  ASSUME machine \in Machines, NEW t \in Trials, NEW fault \in Faults(t),
         NEW limit \in Limits(fault, t)
  PROVE  limit \in LearnedLimitType /\ TrueLimit(limit) /\ Exceeds(t, limit)
<1>1. /\ t.max_num_seqs \in Nat /\ t.max_model_len \in Nat
      /\ t.util \in Utils /\ t.util \in Nat
  BY LimitsAssumption DEF Trials
<1>2. /\ machine.supported \in Nat
      /\ machine.pool[t.util] \in Nat /\ machine.blocks[t.util] \in Nat
  BY <1>1, LimitsAssumption
<1>3. fault.asked > fault.bound /\ fault.bound \in Nat \ {0}
  <2>1. fault.bound \in Nat /\ fault.asked > fault.bound
    BY <1>2 DEF Faults
  <2>2. ~(fault.bound < 1)
    BY DEF Limits
  <2> QED BY <2>1, <2>2
<1>4. limit = [param |-> Learnable(fault.code).param, max |-> fault.bound,
               code |-> fault.code,
               util |-> IF Learnable(fault.code).always THEN Always ELSE t.util]
  BY <1>3 DEF Limits
<1>5. CASE fault = [code |-> "max_model_len_exceeds_model", asked |-> t.max_model_len,
                    bound |-> machine.supported]
  <2>1. limit = [param |-> "max_model_len", max |-> machine.supported,
                 code |-> "max_model_len_exceeds_model", util |-> Always]
    BY <1>4, <1>5 DEF Learnable
  <2>2. machine.supported \in Nat \ {0} /\ t.max_model_len > machine.supported
    BY <1>3, <1>5
  <2> QED BY <2>1, <2>2 DEF LearnedLimitType, Limit, TrueLimit, Exceeds
<1>6. CASE fault = [code |-> "kv_cache_too_small", asked |-> t.max_model_len,
                    bound |-> machine.pool[t.util]]
  <2>1. limit = [param |-> "max_model_len", max |-> machine.pool[t.util],
                 code |-> "kv_cache_too_small", util |-> t.util]
    BY <1>4, <1>6 DEF Learnable
  <2>2. machine.pool[t.util] \in Nat \ {0} /\ t.max_model_len > machine.pool[t.util]
    BY <1>3, <1>6
  <2> QED BY <1>1, <2>1, <2>2 DEF LearnedLimitType, Limit, TrueLimit, Exceeds
<1>7. CASE fault = [code |-> "mamba_blocks_exceeded", asked |-> t.max_num_seqs,
                    bound |-> machine.blocks[t.util]]
  <2>1. limit = [param |-> "max_num_seqs", max |-> machine.blocks[t.util],
                 code |-> "mamba_blocks_exceeded", util |-> t.util]
    BY <1>4, <1>7 DEF Learnable
  <2>2. machine.blocks[t.util] \in Nat \ {0} /\ t.max_num_seqs > machine.blocks[t.util]
    BY <1>3, <1>7
  <2> QED BY <1>1, <2>1, <2>2 DEF LearnedLimitType, Limit, TrueLimit, Exceeds
<1> QED BY <1>5, <1>6, <1>7 DEF Faults

\* A true limit excludes only trials that do not boot: at a utilization no
\* higher than the one it was learned at there is no more memory.
LEMMA TrueLimitExcludesFailures ==
  ASSUME machine \in Machines, NEW t \in Trials,
         NEW limit \in LearnedLimitType, TrueLimit(limit), Exceeds(t, limit)
  PROVE  ~Boots(t)
<1>1. /\ t.max_num_seqs \in Nat /\ t.max_model_len \in Nat /\ t.util \in Utils
      /\ machine.supported \in Nat
      /\ machine.pool \in [Utils -> Nat] /\ Growing(machine.pool)
      /\ machine.blocks \in [Utils -> Nat] /\ Growing(machine.blocks)
      /\ Always \notin Utils /\ Utils \subseteq Nat
  BY LimitsAssumption DEF Trials
<1>2. CASE limit.code = "max_model_len_exceeds_model"
  <2> DEFINE fault == [code |-> "max_model_len_exceeds_model",
                       asked |-> t.max_model_len, bound |-> machine.supported]
  <2>1. t.max_model_len > machine.supported
    BY <1>2 DEF TrueLimit, Exceeds
  <2>2. fault.asked > fault.bound
    BY <2>1
  <2>3. fault \in Faults(t)
    BY <2>2 DEF Faults
  <2> QED BY <2>3 DEF Boots
<1>3. CASE limit.code = "kv_cache_too_small"
  <2>1. /\ t.max_model_len > machine.pool[limit.util]
        /\ limit.util \in Utils /\ t.util <= limit.util
    BY <1>1, <1>3 DEF TrueLimit, Exceeds
  <2>2. machine.pool[t.util] <= machine.pool[limit.util]
    BY <1>1, <2>1 DEF Growing
  <2>3. /\ machine.pool[t.util] \in Nat /\ machine.pool[limit.util] \in Nat
        /\ t.max_model_len \in Nat
    BY <1>1, <2>1
  <2>4. t.max_model_len > machine.pool[t.util]
    BY <2>1, <2>2, <2>3
  <2> DEFINE fault == [code |-> "kv_cache_too_small", asked |-> t.max_model_len,
                       bound |-> machine.pool[t.util]]
  <2>5. fault.asked > fault.bound
    BY <2>4
  <2>6. fault \in Faults(t)
    BY <2>5 DEF Faults
  <2> QED BY <2>6 DEF Boots
<1>4. CASE limit.code = "mamba_blocks_exceeded"
  <2>1. /\ t.max_num_seqs > machine.blocks[limit.util]
        /\ limit.util \in Utils /\ t.util <= limit.util
    BY <1>1, <1>4 DEF TrueLimit, Exceeds
  <2>2. machine.blocks[t.util] <= machine.blocks[limit.util]
    BY <1>1, <2>1 DEF Growing
  <2>3. /\ machine.blocks[t.util] \in Nat /\ machine.blocks[limit.util] \in Nat
        /\ t.max_num_seqs \in Nat
    BY <1>1, <2>1
  <2>4. t.max_num_seqs > machine.blocks[t.util]
    BY <2>1, <2>2, <2>3
  <2> DEFINE fault == [code |-> "mamba_blocks_exceeded", asked |-> t.max_num_seqs,
                       bound |-> machine.blocks[t.util]]
  <2>5. fault.asked > fault.bound
    BY <2>4
  <2>6. fault \in Faults(t)
    BY <2>5 DEF Faults
  <2> QED BY <2>6 DEF Boots
<1> QED BY <1>2, <1>3, <1>4 DEF TrueLimit

-----------------------------------------------------------------------------
(* The invariant                                                           *)

LEMMA LimitsInvInit == LimitsInit => LimitsInv
BY DEF LimitsInit, LimitsInv, LimitsTypeOK

LEMMA BeginKeepsLimitsInv ==
  ASSUME LimitsInv, NEW len \in Lens, BeginTuning(len)
  PROVE  LimitsInv'
<1>1. machine' = machine /\ stored' = stored /\ session' = {len}
  BY DEF BeginTuning
<1>2. stored \subseteq RowType /\ failed \subseteq [trial : Trials, limit : LearnedLimitType]
  BY DEF LimitsInv, LimitsTypeOK, RowType, LearnedLimitType
<1>3. CASE /\ learned' = {FromRow(row) : row \in stored}
           /\ failed' = {f \in failed : ToRow(f.limit) \in stored}
  <2>1. learned' \subseteq LearnedLimitType
    BY <1>2, <1>3, RowIsLimit
  <2>2. LimitsTypeOK'
    BY <1>1, <1>2, <1>3, <2>1 DEF LimitsInv, LimitsTypeOK, RowType, LearnedLimitType
  <2>3. \A limit \in learned' : TrueLimit(limit)'
    BY <1>1, <1>3 DEF LimitsInv, TrueLimit
  <2>4. \A f \in failed' : f.limit \in learned'
    <3> SUFFICES ASSUME NEW f \in failed' PROVE f.limit \in learned'
      OBVIOUS
    <3>1. f.limit \in LearnedLimitType /\ ToRow(f.limit) \in stored
      BY <1>2, <1>3
    <3>2. FromRow(ToRow(f.limit)) = f.limit
      BY <3>1, RowRoundTrip
    <3> QED BY <1>3, <3>1, <3>2
  <2>5. \A f \in failed' : Exceeds(f.trial, f.limit)
    BY <1>3 DEF LimitsInv
  <2>6. \A row \in stored' : TrueLimit(FromRow(row))'
    BY <1>1 DEF LimitsInv, TrueLimit
  <2> QED BY <2>2, <2>3, <2>4, <2>5, <2>6 DEF LimitsInv
<1>4. CASE learned' = {} /\ failed' = {}
  BY <1>1, <1>4 DEF LimitsInv, LimitsTypeOK, TrueLimit
<1> QED BY <1>3, <1>4 DEF BeginTuning

LEMMA LearnKeepsLimitsInv ==
  ASSUME LimitsInv, NEW t \in Trials, TrialFails(t)
  PROVE  LimitsInv'
<1>1. PICK fault \in Faults(t) : Learn(t, fault)
  BY DEF TrialFails
<1>2. PICK limit \in Limits(fault, t) :
        /\ learned' = learned \cup {limit}
        /\ failed' = failed \cup {[trial |-> t, limit |-> limit]}
        /\ IF limit \in learned THEN UNCHANGED stored
           ELSE stored' \in {stored, Inserted(limit)}
        /\ UNCHANGED <<machine, session>>
  BY <1>1 DEF Learn
<1>3. machine \in Machines
  BY DEF LimitsInv, LimitsTypeOK
<1>4. limit \in LearnedLimitType /\ TrueLimit(limit) /\ Exceeds(t, limit)
  BY <1>3, LearnsTrueLimit
<1>5. ToRow(limit) \in RowType /\ FromRow(ToRow(limit)) = limit
  BY <1>4, RowRoundTrip
<1>6. stored' \subseteq stored \cup {ToRow(limit)}
  BY <1>2 DEF Inserted
<1>7. LimitsTypeOK'
  <2>1. LimitsTypeOK
    BY DEF LimitsInv
  <2>2. learned' \subseteq LearnedLimitType
    BY <1>2, <1>4, <2>1 DEF LimitsTypeOK, LearnedLimitType
  <2>3. stored' \subseteq RowType
    BY <1>5, <1>6, <2>1 DEF LimitsTypeOK, RowType
  <2>4. [trial |-> t, limit |-> limit] \in [trial : Trials, limit : LearnedLimitType]
    BY <1>4
  <2>5. failed' \subseteq [trial : Trials, limit : LearnedLimitType]
    BY <1>2, <2>1, <2>4 DEF LimitsTypeOK, LearnedLimitType
  <2> QED BY <1>2, <2>1, <2>2, <2>3, <2>5 DEF LimitsTypeOK, LearnedLimitType, RowType
<1>8. \A l \in learned' : TrueLimit(l)'
  BY <1>2, <1>4 DEF LimitsInv, TrueLimit
<1>9. \A row \in stored' : TrueLimit(FromRow(row))'
  <2> SUFFICES ASSUME NEW row \in stored' PROVE TrueLimit(FromRow(row))'
    OBVIOUS
  <2>1. TrueLimit(FromRow(row))
    BY <1>4, <1>5, <1>6 DEF LimitsInv
  <2> QED BY <1>2, <2>1 DEF TrueLimit
<1>10. \A f \in failed' : Exceeds(f.trial, f.limit)
  BY <1>2, <1>4 DEF LimitsInv
<1>11. session' # {} => \A f \in failed' : f.limit \in learned'
  BY <1>2 DEF LimitsInv
<1> QED BY <1>7, <1>8, <1>9, <1>10, <1>11 DEF LimitsInv

LEMMA LimitsInvNext == LimitsInv /\ [LimitsNext]_limitVars => LimitsInv'
<1> SUFFICES ASSUME LimitsInv, [LimitsNext]_limitVars
             PROVE  LimitsInv'
  OBVIOUS
<1>1. CASE \E len \in Lens : BeginTuning(len)
  BY <1>1, BeginKeepsLimitsInv
<1>2. CASE \E t \in Trials : TrialFails(t)
  BY <1>2, LearnKeepsLimitsInv
<1>3. CASE EndTuning
  BY <1>3 DEF EndTuning, LimitsInv, LimitsTypeOK, TrueLimit
<1>4. CASE ClearLimits
  BY <1>4 DEF ClearLimits, LimitsInv, LimitsTypeOK, TrueLimit
<1>5. CASE \E row \in stored : Expires(row)
  BY <1>5 DEF Expires, LimitsInv, LimitsTypeOK, TrueLimit
<1>6. CASE UNCHANGED limitVars
  BY <1>6 DEF limitVars, LimitsInv, LimitsTypeOK, TrueLimit
<1> QED BY <1>1, <1>2, <1>3, <1>4, <1>5, <1>6 DEF LimitsNext

\* Whatever boots, decisions, expiries and restarts there are, the limits
\* stored and remembered are true: the invariant the theorems below rest on.
THEOREM LimitsInvariant == LimitsSpec => []LimitsInv
BY LimitsInvInit, LimitsInvNext, PTL DEF LimitsSpec

-----------------------------------------------------------------------------
\* No trial that would boot is refused, whatever failed before, in this tuning
\* or in one of the last week.
THEOREM GoodTrialsRun == LimitsSpec => []NoGoodTrialRefused
<1>1. LimitsInv => NoGoodTrialRefused
  <2> SUFFICES ASSUME LimitsInv, NEW t \in Trials, Refused(t)
               PROVE  ~Boots(t)
    BY DEF NoGoodTrialRefused
  <2>1. PICK limit \in learned : Exceeds(t, limit)
    BY DEF Refused
  <2>2. /\ machine \in Machines /\ limit \in LearnedLimitType
        /\ TrueLimit(limit)
    BY DEF LimitsInv, LimitsTypeOK, LearnedLimitType
  <2> QED BY <2>1, <2>2, TrueLimitExcludesFailures
<1> QED BY <1>1, LimitsInvariant, PTL

\* A trial that failed is not run again while its limit is kept.
THEOREM FailuresRemembered == LimitsSpec => []FailureRemembered
<1>1. LimitsInv => FailureRemembered
  BY DEF LimitsInv, FailureRemembered, Refused
<1> QED BY <1>1, LimitsInvariant, PTL

\* What is refused is what cannot boot, and what failed is refused.
THEOREM LimitsAreExact == LimitsSpec => []LimitsExact
<1>1. NoGoodTrialRefused /\ FailureRemembered => LimitsExact
  BY DEF LimitsExact
<1> QED BY <1>1, GoodTrialsRun, FailuresRemembered, PTL
=============================================================================

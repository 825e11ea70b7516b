---------------------------- MODULE SearchSpace -----------------------------
(***************************************************************************)
(* The parameters a trial may have: the ranges the study is asked for      *)
(* (suggest_params of services/tuner_logic.py) and what is made of a       *)
(* suggestion of the analyst model before it is put in the study's queue   *)
(* (_sanitize_suggestion of services/auto_tuner.py).  Utilizations are     *)
(* percentages, weights and overheads hundredths of a GiB.                 *)
(***************************************************************************)
EXTENDS Integers

CONSTANTS SeqStep,   \* 32
          BatchStep  \* 256

ASSUME StepsAssumption == SeqStep \in Nat \ {0} /\ BatchStep \in Nat \ {0}

LargerOf(a, b) == IF a >= b THEN a ELSE b
SmallerOf(a, b) == IF a <= b THEN a ELSE b
RoundDown(n, step) == (n \div step) * step
RoundUp(n, step) == -((-n) \div step) * step

-----------------------------------------------------------------------------
(* suggest_params.  A range is [lo, hi].                                   *)

\* suggest_int with a step: the grid starts at the lower end.
SeqValues(config) ==
  {n \in config.seqs.lo..config.seqs.hi : (n - config.seqs.lo) % SeqStep = 0}

\* The lower end is raised to what the weights need, and kept 0.05 below the
\* upper one; a dedicated pool does not hold the weights.
UtilLow(config) ==
  IF config.weight = 0 \/ config.gib = 0 \/ config.dedicated THEN config.util.lo
  ELSE LET floor == -((-(config.weight * 11 + config.overhead * 10)) \div (config.gib * 10))
       IN LargerOf(config.util.lo, SmallerOf(floor, config.util.hi - 5))

\* vLLM refuses to start when a step cannot hold a token of each sequence.
BatchLow(config, seqs) == RoundUp(LargerOf(config.batch.lo, seqs), BatchStep)

BatchHigh(config, seqs) ==
  LargerOf(RoundDown(LargerOf(config.batch.hi, BatchLow(config, seqs)), BatchStep),
           BatchLow(config, seqs))

BatchValues(config, seqs) ==
  {n \in BatchLow(config, seqs)..BatchHigh(config, seqs) :
     (n - BatchLow(config, seqs)) % BatchStep = 0}

-----------------------------------------------------------------------------
(* _sanitize_suggestion                                                    *)

Within(n, range) == LargerOf(range.lo, SmallerOf(range.hi, n))

\* Mutant: rounded before it is brought into the range.
SanitizedSeqsRounded(config, n) == Within(RoundDown(n, SeqStep), config.seqs)

SanitizedSeqs(config, n) ==
  LET rounded == RoundDown(Within(n, config.seqs), SeqStep)
  IN IF rounded = 0 THEN config.seqs.lo ELSE rounded

SanitizedBatch(config, seqs, n) ==
  LET low == BatchLow(config, seqs)
      high == RoundDown(LargerOf(config.batch.hi, low), BatchStep)
      rounded == RoundDown(LargerOf(low, SmallerOf(high, n)), BatchStep)
  IN IF rounded = 0 THEN low ELSE rounded

Sanitize(config, suggestion) ==
  LET seqs == SanitizedSeqs(config, suggestion.seqs)
  IN [seqs |-> seqs, util |-> Within(suggestion.util, config.util),
      batch |-> SanitizedBatch(config, seqs, suggestion.batch)]
=============================================================================

------------------------------ MODULE Verdicts ------------------------------
(***************************************************************************)
(* What the program concludes from measurements: the verdicts on a         *)
(* benchmark (routers/sla.py), the live alerts (routers/alerts.py), the    *)
(* analysis of a sweep (run_sweep and find_knee_rps of                     *)
(* services/load_engine.py), the score of a trial (services/tuner_logic.py)*)
(* and the attempts of a request that is retried                           *)
(* (services/retry_helper.py).                                             *)
(*                                                                         *)
(* Latencies and thresholds are whole milliseconds, rates percentages.     *)
(***************************************************************************)
EXTENDS Integers, Sequences, FiniteSets, FiniteSetsExt, SequencesExt

NotMeasured == -1

-----------------------------------------------------------------------------
(* Verdicts on a benchmark.  thresholds: a function from some metrics.     *)

\* Latencies that are skipped when they are zero, and those a benchmark may
\* lack altogether.
ZeroSkips == {"ttft_mean", "ttft_p95", "mean_e2e_latency"}
MayLack == {"tpot_mean", "tpot_p95", "queue_time_mean", "queue_time_p95"}

Total(result) == result.success + result.failed

\* Mutant: a latency at the threshold fails.
StatusStrict(metric, threshold, result) ==
  IF Total(result) = 0 THEN "insufficient_data"
  ELSE IF metric \in {"availability", "error_rate"} THEN "pass"
  ELSE IF result.latency[metric] < threshold THEN "pass" ELSE "fail"

\* evaluate_benchmarks_against_sla, for one metric.
Status(metric, threshold, result) ==
  CASE Total(result) = 0 -> "insufficient_data"
    [] Total(result) # 0 /\ metric = "availability" ->
         IF result.success * 100 >= threshold * Total(result) THEN "pass" ELSE "fail"
    [] Total(result) # 0 /\ metric = "error_rate" ->
         IF result.failed * 100 <= threshold * Total(result) THEN "pass" ELSE "fail"
    [] OTHER ->
         IF \/ metric \in MayLack /\ result.latency[metric] = NotMeasured
            \/ metric \in ZeroSkips \cup MayLack /\ result.latency[metric] = 0
         THEN "skipped"
         ELSE IF result.latency[metric] <= threshold THEN "pass" ELSE "fail"

OverallPass(thresholds, result) ==
  \A metric \in DOMAIN thresholds :
    Status(metric, thresholds[metric], result) \in {"pass", "skipped"}

\* _collect_profile_violations: the live figure each latency is held
\* against; availability and error rate have none.
Violations(thresholds, live) ==
  {metric \in DOMAIN thresholds \ {"availability", "error_rate"} :
     live[metric] # NotMeasured /\ live[metric] > thresholds[metric]}

-----------------------------------------------------------------------------
(* A sweep: the steps that would run, [total, failed, p99, tps, mean]      *)

AllFailed(step) == step.total > 0 /\ step.failed = step.total

AtLeastOne(n) == IF n > 1 THEN n ELSE 1

\* Mutant: errors do not saturate a step.
SaturatedByLatency(steps, i, config) ==
  steps[1].p99 > 0 /\ steps[i].p99 > steps[1].p99 * config.factor

\* Saturated by errors, or by its latency against that of the first step.
Saturated(steps, i, config) ==
  \/ steps[i].failed * 100 > config.error_rate * AtLeastOne(steps[i].total)
  \/ steps[1].p99 > 0 /\ steps[i].p99 > steps[1].p99 * config.factor

\* The third step in a row that fails altogether ends the sweep unrecorded;
\* the last of min_stable_steps saturated ones is its saturation point.
GivesUp(steps, i) == i >= 3 /\ \A j \in i - 2..i : AllFailed(steps[j])
Settles(steps, i, config) ==
  /\ i >= config.stable
  /\ \A j \in i - config.stable + 1..i : Saturated(steps, j, config)

\* run_sweep: how many steps are recorded, and the step that is the
\* saturation point, 0 for none.
Sweep(steps, config) ==
  LET ends == {i \in DOMAIN steps : GivesUp(steps, i) \/ Settles(steps, i, config)}
  IN IF ends = {} THEN [recorded |-> Len(steps), saturation |-> 0]
     ELSE IF GivesUp(steps, Min(ends)) THEN [recorded |-> Min(ends) - 1, saturation |-> 0]
     ELSE [recorded |-> Min(ends), saturation |-> Min(ends)]

\* optimal_rps: the last recorded step that is not saturated; 0 for none.
Optimal(steps, config) ==
  LET sweep == Sweep(steps, config)
      stable == {i \in 1..sweep.recorded : ~Saturated(steps, i, config)}
  IN IF sweep.saturation = 0 \/ stable = {} THEN 0 ELSE Max(stable)

Efficient(step, errorRate) ==
  /\ step.total > 0 /\ step.failed * 100 <= errorRate * step.total
  /\ step.tps > 0 /\ step.mean > 0

\* find_knee_rps: the first step with the largest throughput per latency.
Knee(steps, config) ==
  LET able == {i \in 1..Sweep(steps, config).recorded : Efficient(steps[i], config.error_rate)}
      power(i, j) == steps[i].tps * steps[j].mean
      best == {i \in able : \A j \in able : power(i, j) >= power(j, i)}
  IN IF best = {} THEN 0 ELSE Min(best)

-----------------------------------------------------------------------------
(* The score of a trial: a fraction, over the SLA                          *)

NoAnswer == 9999 * 1000 \* what a result without latencies counts as

\* Mutant: a result without latencies counts as one without delay.
ScoreOfRefused(result, sla) ==
  IF result.p99 > sla THEN -result.p99 ELSE result.tps * sla

\* compute_trial_score; run() refuses with a result that has no figures.
Score(result, sla) ==
  LET p99 == IF result.refused THEN NoAnswer ELSE result.p99
  IN IF p99 > sla THEN -p99 ELSE (IF result.refused THEN 0 ELSE result.tps) * sla

\* TunerStatus.best.sla_met
SlaMet(result, sla) == Score(result, sla) >= 0

-----------------------------------------------------------------------------
(* Retries: outcome[i] is what the i-th attempt would meet                 *)

NotTried == [sent |-> 0, waited |-> 0, outcome |-> "none"]
PowerOfTwo[n \in Nat] == IF n = 0 THEN 1 ELSE 2 * PowerOfTwo[n - 1]
Decided(state) == state.outcome \in {"ok", "refused"}

\* Mutant: the last failure is waited for as well.
AttemptAlwaysWaits(state, outcome, retries, delay) ==
  IF Decided(state) THEN state
  ELSE [sent |-> state.sent + 1, outcome |-> outcome,
        waited |-> state.waited
                   + IF outcome \in {"ok", "refused"} THEN 0
                     ELSE delay * PowerOfTwo[state.sent]]

\* One turn of with_retry's loop: a timeout, a lost connection or a status
\* of 500 and more is tried again after a delay that doubles.
Attempt(state, outcome, retries, delay) ==
  IF Decided(state) THEN state
  ELSE [sent |-> state.sent + 1, outcome |-> outcome,
        waited |-> state.waited
                   + IF outcome \in {"ok", "refused"} \/ state.sent >= retries THEN 0
                     ELSE delay * PowerOfTwo[state.sent]]

\* with_retry: as many turns as retries and one more.
WithRetry(outcomes, retries, delay) ==
  LET after[turn \in 0..(retries + 1)] ==
        IF turn = 0 THEN NotTried
        ELSE Attempt(after[turn - 1], outcomes[turn], retries, delay)
  IN after[retries + 1]
=============================================================================

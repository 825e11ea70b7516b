----------------------------- MODULE MetricMath -----------------------------
(***************************************************************************)
(* From the histograms of a target's pods to the latencies it shows:       *)
(* _compute_histogram_rates and _compute_histogram_quantile of             *)
(* services/metric_math.py and their composition in _collect_target_direct *)
(* of services/multi_target_collector.py.                                  *)
(*                                                                         *)
(* A histogram is a function from the bounds of its buckets to cumulative  *)
(* counts; Infinite is the bound of the last, and a latency is a fraction  *)
(* <<numerator, denominator>>.  A pod is [before, now, per]: its last      *)
(* histogram, {} if this is its first, the one of this scrape, and its     *)
(* share of requests per second, 1 / elapsed.  Pods that were last scraped *)
(* at other times have other shares, given in a unit in which all are      *)
(* integers; the share is 0 when no time has elapsed.                      *)
(***************************************************************************)
EXTENDS Integers, FiniteSets, FiniteSetsExt, Functions

CONSTANTS Bounds,   \* of the finite buckets
          Infinite  \* above all of them

ASSUME BoundsAssumption ==
  /\ Bounds \subseteq Nat /\ IsFiniteSet(Bounds)
  /\ Infinite \in Nat /\ \A le \in Bounds : le < Infinite

AllBounds == Bounds \cup {Infinite}
NoCounts == [le \in AllBounds |-> 0]

\* Mutant: the time a pod was not scraped for is not taken into account.
GrowthPerScrape(pod) ==
  IF pod.before = {} THEN NoCounts
  ELSE LET was == CHOOSE h \in pod.before : TRUE
       IN [le \in AllBounds |-> IF pod.now[le] < was[le] THEN 0 ELSE pod.now[le] - was[le]]

\* _compute_histogram_rates: nothing from the first scrape of a pod; a count
\* that went down, as after a restart of the pod, grows by nothing; the rest
\* counts per second since the pod itself was last scraped.
Growth(pod) ==
  IF pod.before = {} THEN NoCounts
  ELSE LET was == CHOOSE h \in pod.before : TRUE
       IN [le \in AllBounds |->
             IF pod.now[le] < was[le] THEN 0 ELSE pod.per * (pod.now[le] - was[le])]

\* _collect_target_direct, for a function from the pods that answered: the
\* rates of all of them, or, when no bucket of any grew, what they counted
\* since they started.
Merged(pods) ==
  LET grown == [le \in AllBounds |->
                  SumFunction([p \in DOMAIN pods |-> Growth(pods[p])[le]])]
      counted == [le \in AllBounds |-> SumFunction([p \in DOMAIN pods |-> pods[p].now[le]])]
  IN IF \E le \in AllBounds : grown[le] > 0 THEN grown ELSE counted

\* Within the bucket that holds the rank, in proportion.  The last bucket
\* has no upper bound and counts as its lower one.
Interpolated(counts, le, below, rank) ==
  LET lower == IF below = {} THEN 0 ELSE Max(below)
      count == IF below = {} THEN 0 ELSE counts[lower]
  IN IF counts[le] = count \/ le = Infinite THEN <<lower, 1>>
     ELSE <<lower * 100 * (counts[le] - count) + (le - lower) * (rank - 100 * count),
            100 * (counts[le] - count)>>

\* _compute_histogram_quantile, for a percentage; a rank is in hundredths.
Quantile(counts, percent) ==
  LET total == Max({counts[le] : le \in AllBounds})
      rank == percent * total
      le == Min({l \in AllBounds : counts[l] * 100 >= rank})
  IN IF total = 0 THEN <<0, 1>>
     ELSE Interpolated(counts, le, {b \in Bounds : b < le}, rank)

\* What the target shows: its mean_..._ms is the median.
Shown50(pods) == Quantile(Merged(pods), 50)
Shown99(pods) == Quantile(Merged(pods), 99)
=============================================================================

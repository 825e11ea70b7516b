---------------------------- MODULE MCDecisions -----------------------------
(* The learned limits, a state machine, and the questions, asked before it  *)
(* has made a step, checked in one run: the two share no variable.          *)
EXTENDS LearnedLimits, Decisions

CONSTANTS maxSeqs, gpuUtil  \* two tuning arguments

Init == LimitsInit /\ DecisionsInit
Untouched == session = {} /\ stored = {} /\ failed = {} /\ machine = CHOOSE m \in Machines : TRUE
Next == \/ question = Idle /\ LimitsNext /\ UNCHANGED question
        \/ Untouched /\ DecisionsNext /\ UNCHANGED limitVars
Spec == Init /\ [][Next]_<<limitVars, question>>

\* A model of two positions whose pool or whose blocks run out, at one
\* utilization or at both.
MCMachines ==
  {[supported |-> 2, pool |-> [u \in Utils |-> u], blocks |-> [u \in Utils |-> u - 1]],
   [supported |-> 1, pool |-> [u \in Utils |-> 2], blocks |-> [u \in Utils |-> u]]}

-----------------------------------------------------------------------------
Items ==
  {[style |-> "assigned", key |-> maxSeqs, value |-> v] : v \in {"8", Empty}} \cup
  {[style |-> "spaced", key |-> k, value |-> "16"] : k \in {maxSeqs, gpuUtil}} \cup
  {[style |-> "bare", key |-> maxSeqs]} \cup
  {[style |-> "other", tokens |-> t] :
     t \in {<<Option("--a"), Word("x")>>, <<Extended("--max-num-seqs-x"), Word("y")>>,
            <<Option("--c"), Json(<<Word("p"), Word("q")>>)>>}}
MCArgItems == UNION {[1..n -> Items] : n \in 0..3}
MCArgChanges == {NoEntries, maxSeqs :> "32", maxSeqs :> Empty, gpuUtil :> "9" @@ maxSeqs :> "4"}

MCDeployments ==
  LET sidecar == [env |-> "X" :> "x", resources |-> "limits" :> ("cpu" :> "1")]
      main(resources) == [env |-> "X" :> "x", resources |-> resources]
      limited == "limits" :> ("cpu" :> "4" @@ "memory" :> "8")
  IN {[containers |-> Main :> main(limited) @@ "sidecar" :> sidecar, holds |-> TRUE],
      [containers |-> Main :> main(NoEntries), holds |-> TRUE],
      [containers |-> Main :> main(limited), holds |-> FALSE],
      [containers |-> "sidecar" :> sidecar, holds |-> FALSE]}
MCResourceChanges ==
  {NoEntries, "limits" :> ("cpu" :> "2"), "limits" :> ("cpu" :> Empty @@ "memory" :> "16"),
   "requests" :> ("cpu" :> "1" @@ "memory" :> Empty) @@ "limits" :> NoEntries}

-----------------------------------------------------------------------------
Dense ==
  [num_hidden_layers |-> 2, layer_types |-> <<>>, full_attention_interval |-> 0,
   num_kv_shared_layers |-> 0, num_attention_heads |-> 1, num_key_value_heads |-> 0,
   hidden_size |-> 1, head_dim |-> 0, num_global_key_value_heads |-> 0,
   global_head_dim |-> 0, attention_k_eq_v |-> TRUE, kv_lora_rank |-> 0,
   qk_rope_head_dim |-> 0, kv_dtype_bytes |-> 1, sliding_window |-> 0,
   linear_state |-> 0]
Configs ==
  {Dense, [Dense EXCEPT !.num_hidden_layers = 0],
   [Dense EXCEPT !.num_kv_shared_layers = 1, !.attention_k_eq_v = FALSE],
   [Dense EXCEPT !.layer_types = <<"full_attention", "sliding_attention">>,
                 !.sliding_window = 1000, !.num_global_key_value_heads = 2],
   [Dense EXCEPT !.layer_types = <<"sliding_attention", "sliding_attention">>,
                 !.sliding_window = 1000],
   [Dense EXCEPT !.num_hidden_layers = 4, !.full_attention_interval = 4,
                 !.linear_state = 300],
   [Dense EXCEPT !.kv_lora_rank = 3, !.qk_rope_head_dim = 1]}
MCTargets ==
  [cfg : Configs, gpus : {0, 1, 2}, accelerator : {0, 24, 80}, openvino : {FALSE},
   pod_memory : {8}, weight : {0, 350, 1400}, util : {0, 50}, running_util : {50, 90},
   batched : {0, 512}, served : {0, 2048}, context_limit : {0, 4096},
   observed : {{}, {[pool |-> 9000, available |-> 0, blocks |-> 40]},
               {[pool |-> 300000, available |-> 900, blocks |-> 24]},
               {[pool |-> 3000000, available |-> 900, blocks |-> 100]}}]
  \cup [cfg : Configs, gpus : {0}, accelerator : {0}, openvino : {TRUE}, pod_memory : {8},
        weight : {0, 350}, util : {0}, running_util : {90}, batched : {0}, served : {0},
        context_limit : {0}, observed : {{}}]

MCSpaces ==
  LET range(los, his) == [lo : los, hi : his]
  IN [config : [seqs : range({32, 40, 64}, {64, 100, 300}),
                batch : range({100, 256}, {200, 700}), util : range({80}, {84, 90}),
                weight : {0, 1400}, overhead : {0, 600}, gib : {0, 24},
                dedicated : BOOLEAN],
      suggestion : [seqs : {0, 33, 500}, util : {50, 86, 95}, batch : {0, 300, 5000}]]

-----------------------------------------------------------------------------
MCJudgements ==
  LET rates == {"availability", "error_rate"}
      latencies == {"p95_latency", "ttft_mean", "tpot_p95"}
      given(metric) == IF metric = "availability" THEN {0, 90}
                       ELSE IF metric = "error_rate" THEN {0, 10} ELSE {5, 7}
      thresholds == UNION {{f \in [ms -> {0, 5, 7, 10, 90}] : \A m \in ms : f[m] \in given(m)} :
                             ms \in SUBSET (rates \cup latencies) \ {{}}}
      measured == {f \in [latencies -> {-1, 0, 7}] : f["p95_latency"] >= 0 /\ f["ttft_mean"] >= 0}
  IN [thresholds : thresholds,
      result : [success : {0, 9, 10}, failed : {0, 1, 10}, latency : measured]]

Step(failures, p99, tps, mean) ==
  [total |-> 10, failed |-> failures, p99 |-> p99, tps |-> tps, mean |-> mean]
Broken == [total |-> 0, failed |-> 0, p99 |-> 0, tps |-> 0, mean |-> 0]
Steps == {Step(0, 10, 100, 5), Step(0, 100, 110, 60), Step(1, 20, 120, 6),
          Step(2, 10, 90, 4), Step(10, 0, 0, 0), Broken}
MCSweepRuns == [steps : UNION {[1..n -> Steps] : n \in 1..5},
                config : [stable : {1, 2}, error_rate : {10, 20, 100}, factor : {3}]]

MCTrialPairs ==
  LET trials == [refused : BOOLEAN, p99 : {0, 500, 1500, 3000}, tps : {0, 5}]
  IN [one : trials, other : trials, sla : {1000, 2000}]

MCRetriedCalls == [outcomes : [1..4 -> {"ok", "refused", "timeout", "status_500"}],
                   retries : 0..3, delay : {1, 2}]

Tallies(n) == [AllBounds -> 0..n]
Cumulated(t) == [le \in AllBounds |-> EndedUpTo(t, le)]
Both(s, t) == [le \in AllBounds |-> s[le] + t[le]]
MCScrapes ==
  LET grew(was, new, per) ==
        [before |-> {Cumulated(was)}, now |-> Cumulated(Both(was, new)), per |-> per]
      seen(now) == [before |-> {}, now |-> Cumulated(now), per |-> 0]
      one == [le \in AllBounds |-> 1]
  IN \* two pods that grow, of one of which scrapes may have been missed
     {[pods |-> <<grew(was, t, 3), grew(one, u, per)>>, grown |-> {<<t, u>>}] :
        was \in {NoCounts, one}, t \in Tallies(2), u \in Tallies(1), per \in {0, 1, 3}}
     \* one that grows and one seen for the first time
     \cup {[pods |-> <<grew(one, t, 1), seen(u)>>, grown |-> {<<t>>}] :
             t \in Tallies(2), u \in Tallies(2)}
     \* a pod that restarted
     \cup {[pods |-> <<[before |-> {Cumulated(t)}, now |-> Cumulated(u), per |-> 1], seen(u)>>,
            grown |-> {}] : t \in Tallies(2), u \in Tallies(2)}
=============================================================================

SPECIFICATION Spec
CONSTANTS
  Seqs = {1, 2}
  Lens = {2, 3}
  Utils = {1, 2}
  Machines <- MCMachines
  Always = always
  maxSeqs = max_num_seqs
  gpuUtil = gpu_memory_utilization
  TuningKeys = {max_num_seqs, gpu_memory_utilization}
  Empty = empty
  Null = null
  GIB = 4096
  ContextLens = {1024, 2048, 4096}
  Typical = 2048
  DefaultUtil = 90
  DefaultBatch = 1024
  SeqStep = 32
  BatchStep = 256
  Bounds = {1, 3}
  Infinite = 9
  ArgItems <- MCArgItems
  ArgChanges <- MCArgChanges
  Deployments <- MCDeployments
  ResourceChanges <- MCResourceChanges
  Targets <- MCTargets
  Spaces <- MCSpaces
  Judgements <- MCJudgements
  SweepRuns <- MCSweepRuns
  TrialPairs <- MCTrialPairs
  RetriedCalls <- MCRetriedCalls
  Scrapes <- MCScrapes
INVARIANTS
  LimitsExact
  ArgsPatched
  PatchesAgree
  KvAddsUp
  RiskAgrees
  CalibrationReproduces
  StudyHasChoice
  VerdictsSound
  RecommendedWorks
  ScoreOrders
  RetriesBounded
  LatencyInBucket
CHECK_DEADLOCK FALSE

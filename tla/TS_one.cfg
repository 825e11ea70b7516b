SPECIFICATION FairSpec
CONSTANTS
  r1 = r1
  b1 = b1
  k1 = k1
  A = A
  None = None
  Original = "orig"
  Callers <- Calls
  Sessions = {r1}
  Appliers = {b1}
  Stops = {k1}
  Trials = 2
  Attempts = 2
  MaxScore = 2
  Targets = {A}
  Specs = {"orig", "p", "q"}
  OneNamespace = FALSE
  StudyFails = FALSE
  Faults = {"api", "slow"}
INVARIANTS RunningMeansTuning BestDeployed CompleteRanTrials
PROPERTIES RollbackOwn StoppedStops TuningFinishes
CHECK_DEADLOCK FALSE

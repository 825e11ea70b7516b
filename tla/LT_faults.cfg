SPECIFICATION Spec
CONSTANTS
  t1 = t1
  s1 = s1
  u1 = u1
  NoCaller = NoCaller
  Tests = {t1}
  Sweeps = {s1}
  Tuners = {u1}
  Cancellable = {u1}
  Paced = {s1}
  N = 1
  FirstBatch = 1
  Concurrency = 1
  MaxSteps = 1
  Outcomes = {"ok", "bad", "raise"}
  RowFaults = {t1}
INVARIANTS EngineHeld RowFollowsRun
CHECK_DEADLOCK FALSE

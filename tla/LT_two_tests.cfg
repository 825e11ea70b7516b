SPECIFICATION Spec
CONSTANTS
  t1 = t1
  t2 = t2
  t3 = t3
  NoCaller = NoCaller
  Tests = {t1, t2, t3}
  Sweeps = {}
  Tuners = {}
  Cancellable = {}
  Paced = {}
  N = 1
  FirstBatch = 1
  Concurrency = 1
  MaxSteps = 1
  Outcomes = {"ok"}
  RowFaults = {}
INVARIANT OneLiveTest
CHECK_DEADLOCK FALSE

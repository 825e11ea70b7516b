SPECIFICATION Spec
CONSTANTS
  s1 = s1
  s2 = s2
  NoCaller = NoCaller
  Tests = {}
  Sweeps = {s1, s2}
  Tuners = {}
  Cancellable = {}
  Paced = {s1, s2}
  N = 3
  FirstBatch = 2
  Concurrency = 2
  MaxSteps = 2
  Outcomes = {"ok", "bad"}
  RowFaults = {}
SYMMETRY Symmetry
INVARIANT SweepSlot
PROPERTIES StopSticks CompletedCounted
CHECK_DEADLOCK FALSE

SPECIFICATION StreamSpec
CONSTANTS
  t1 = t1  t2 = t2  s1 = s1  k1 = k1
  NoCaller = NoCaller
  Tests = {t1, t2}
  Sweeps = {s1}
  Tuners = {}
  Cancellable = {}
  Paced = {s1}
  N = 1
  FirstBatch = 1
  Concurrency = 1
  MaxSteps = 1
  Outcomes = {"ok", "bad"}
  RowFaults = {}
  Clients = {k1}
  MaxQueue = 3
  Scenarios <- Together
INVARIANTS NothingMissed ReplayFresh
PROPERTIES RunsEnd StreamEnds
CHECK_DEADLOCK FALSE

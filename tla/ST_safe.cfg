CONSTANTS
  r1 = r1  r2 = r2  r3 = r3  s1 = s1  s2 = s2  g1 = g1
  b1 = b1  p1 = p1  d1 = d1  mon = mon  down = down
  Runs = {r1, r2, r3}
  Starts = {s1, s2}
  Readers = {g1}
  Saves = {b1}
  Patches = {p1}
  Deletes = {d1}
  Monitor = mon
  Shutdown = down
  Scenarios <- Together
  MaxTrials = 1
  Keep = 1
  MaxClock = 1
  Lives = 2
  Faults = {"read", "write", "corrupt", "cancel"}
SPECIFICATION Spec
INVARIANTS KilledRunsReported NoFalseAlarm TrialsKept
SYMMETRY Symmetry
PROPERTIES PruneKeepsNewest DeletedStaysDeleted
CHECK_DEADLOCK FALSE

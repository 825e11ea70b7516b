SPECIFICATION Spec
CONSTANTS
  r1 = r1
  r2 = r2
  k1 = k1
  A = A
  B = B
  None = None
  Original = "orig"
  Callers <- Calls
  Sessions = {r1, r2}
  Appliers = {}
  Stops = {k1}
  Trials = 1
  Attempts = 1
  MaxScore = 1
  Targets = {A, B}
  Specs = {"orig", "p"}
  OneNamespace = FALSE
  StudyFails = TRUE
  Faults = {"slow"}
SYMMETRY Symmetry
INVARIANT SnapshotTrue
PROPERTY ReplacesCR
CHECK_DEADLOCK FALSE

SPECIFICATION Spec
CONSTANTS
  r1 = r1
  r2 = r2
  k1 = k1
  A = A
  None = None
  Original = "orig"
  Callers <- Calls
  Sessions = {r1, r2}
  Appliers = {}
  Stops = {k1}
  Trials = 1
  Attempts = 1
  MaxScore = 1
  Targets = {A}
  Specs = {"orig", "p"}
  OneNamespace = FALSE
  StudyFails = FALSE
  Faults = {}
INVARIANT OneTuning
CHECK_DEADLOCK FALSE

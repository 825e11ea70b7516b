SPECIFICATION ReplaceSpec
CONSTANTS
  c1 = c1
  c2 = c2
  c3 = c3
  A = A
  B = B
  None = None
  Original = "orig"
  Callers = {c1, c2, c3}
  Targets = {A, B}
  Specs = {"orig"}
  OneNamespace = FALSE
  Faults = {"cancel", "api", "slow", "stuck"}
SYMMETRY Symmetry
INVARIANT MissingExplained
CHECK_DEADLOCK FALSE

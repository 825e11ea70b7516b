CONSTANTS
  t1 = t1  t2 = t2  q1 = q1  q2 = q2
  Targets = {t1, t2}
  Requests = {q1, q2}
  Timeout = 1
  MaxCounter = 2
  None = None
  Scenes <- Instances
SPECIFICATION Spec
INVARIANTS OneDefault RegisteredIsFound NoOvercount
PROPERTIES FirstAnswered ActiveCollected

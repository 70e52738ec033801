SPECIFICATION Spec
CONSTANTS
  NodeIds = {a, b}
  FirstId = a
  Ops = {o1}
  None = None
  MaxResets = 1
CHECK_DEADLOCK FALSE
INVARIANT CompleteMeansReset

SPECIFICATION FairSpec
CONSTANTS
  NodeIds = {a, b}
  FirstId = a
  Ops = {o1}
  None = None
  MaxResets = 2
CONSTRAINT MCFewRequests
ACTION_CONSTRAINT MCLaunchedTogether
CHECK_DEADLOCK FALSE
INVARIANTS
  TypeOK
  UniqueActiveHardware
  ResetBackedUp
PROPERTIES
  CompleteIsErased
  ResetSettles

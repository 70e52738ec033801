SPECIFICATION FairSpec
CONSTANTS
  FifoBatches = 3
  WindowBatches = 2
  MaxBatches = 3
  PriorityBatches = 2
  SeqModulus = 4
  None = None
INVARIANTS
  TypeOK
  OneBufferFills
  VisibleOverrunNeverValid
PROPERTIES
  ServiceReturns

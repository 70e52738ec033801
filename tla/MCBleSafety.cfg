SPECIFICATION FairSpec
CONSTANTS
  Requests = {r1, r2}
  Threads = {t1}
  Commands = {m1}
  MaxDisplaced = 1
  None = None
  QueueSize = 1
  MaxExponent = 0
CONSTRAINT MCFewActors
INVARIANTS
  TypeOK
  NoOrphanTask
  NoStrandedCommand
  CommandWrittenOnce
PROPERTIES
  StopReturns

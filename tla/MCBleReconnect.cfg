SPECIFICATION ReachableSpec
CONSTANTS
  Requests = {r1}
  Threads = {t1}
  Commands = {m1}
  MaxDisplaced = 0
  None = None
  QueueSize = 1
  MaxExponent = 1
PROPERTY ReconnectsWhileManaged

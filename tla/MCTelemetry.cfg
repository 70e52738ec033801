SPECIFICATION Spec
CONSTANTS
  Capacity = 2
  CacheSize = 2
  Wrap = 4
  MaxTasks = 2
  MaxClock = 8
  MaxBoots = 2
  MaxSessions = 3
  None = None
CONSTRAINT MCShort
ACTION_CONSTRAINT MCEarlyReboot
INVARIANTS
  TypeOK
  EachRecordOnce
  CacheOnlyStored
  SessionOrder

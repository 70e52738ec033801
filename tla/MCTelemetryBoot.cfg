SPECIFICATION Spec
CONSTANTS
  Capacity = 1
  CacheSize = 2
  Wrap = 4
  MaxTasks = 1
  MaxClock = 4
  MaxBoots = 2
  MaxSessions = 2
  None = None
INVARIANT DiscardedWasStored

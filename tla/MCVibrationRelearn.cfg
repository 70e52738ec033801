SPECIFICATION Spec
CONSTANTS
  Threads = {t1, t2}
  Requests = {r1}
  Minimum = 2
  Persistence = 2
  Scoped = TRUE
  MaxWindows = 3
  MaxVersion = 2
  None = None
INVARIANT FrozenHasBaseline

SPECIFICATION Spec
CONSTANTS
  Threads = {t1, t2}
  Requests = {r1}
  Minimum = 1
  Persistence = 3
  Scoped = TRUE
  MaxWindows = 5
  MaxVersion = 1
  None = None
PROPERTY AlarmIsPersistent

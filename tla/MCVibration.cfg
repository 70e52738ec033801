SPECIFICATION Spec
CONSTANTS
  Threads = {t1, t2}
  Requests = {r1}
  Minimum = 1
  Persistence = 3
  Scoped = TRUE
  MaxWindows = 4
  MaxVersion = 3
  None = None
SYMMETRY MCSymmetry
INVARIANTS
  TypeOK
  BaselineIsItsSamples
  HistoryComplete
  RepeatMakesNoVersion
PROPERTIES
  AlarmIsPersistentUnlessOvertaken

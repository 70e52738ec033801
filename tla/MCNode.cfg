SPECIFICATION FairSpec
CONSTANTS
  NodeIds = {n1, n2}
  Configs = {c1, c2}
  DefaultConfig = c1
  None = None
  GenModulus = 4
  FaultModels <- MCFaultModels
CONSTRAINT MCUnfinished
ACTION_CONSTRAINT MCLateQuiet
INVARIANTS
  TypeOK
  AckedConfigSurvives
  NoGenerationConflict
  PublishesDurableIdentity
  ProvCommitsConfiguration
PROPERTIES
  MarkerOutlivesKeys
  IdentityWrittenOnce
  ActiveSlotRetained
  ImplementsResettableNode
  ResetCompletes

SPECIFICATION FairSpec
CONSTANTS
  Installs = {i1}
  Configs = {c1, c2}
  None = None
  MaxAttempts = 2
CONSTRAINT MCOneFocus
INVARIANTS
  TypeOK
  TransactionIsOpen
  ReconcilingNamesAttempt
  AcknowledgedIsOnNode
  NodeConfigOnRecord
  EnabledOnlyAfterVerification
PROPERTIES
  LockReleased

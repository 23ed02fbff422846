CONSTANTS
  r1 = r1
  r2 = r2
  t1 = t1
  Runs = {r1}
  Calls = {1, 2}
  Orphan = Orphan
  None = None
  ThreadOf <- OneThread
  Conns = {1, 2}
  ProcessSlots = 2
  RecoveryBatch = 9
  Scopes <- RecoveryScopes
SPECIFICATION FairSpec
CHECK_DEADLOCK FALSE
PROPERTIES
  UncertainRecovered

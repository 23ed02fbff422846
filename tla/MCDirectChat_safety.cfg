CONSTANTS
  k1 = k1
  k2 = k2
  k3 = k3
  Keys = {k1, k2, k3}
  Source <- StartAndRetry
  NoTurn = NoTurn
  Bindings = {b1, b2}
  NoBinding = NoBinding
  CancelKeys = {c1}
  MaxRetryDepth = 1
  ContextLimit = 3
  Handlers = {h1, h2}
  Slots = {s1, s2}
  NoSlot = NoSlot
  MaxText = 4
  Coalesce = 2
  Deltas = {1, 3}
  RecoveryLimit = 1
  Scenarios <- SafetyScenarios
SPECIFICATION Spec
SYMMETRY Permutable
INVARIANTS
  BoundaryInv
  TasksAccounted
  RecordsSound
PROPERTIES
  RefinesTurnLifecycle
  RetryContextCurrent
  CallUsesBoundCredential

CONSTANTS
  k1 = k1
  k2 = k2
  k3 = k3
  Keys = {k1, k3}
  Source <- StartAndRetry
  NoTurn = NoTurn
  Bindings = {b1}
  NoBinding = NoBinding
  CancelKeys = {c1}
  MaxRetryDepth = 1
  ContextLimit = 3
  Handlers = {h1}
  Slots = {s1, s2}
  NoSlot = NoSlot
  MaxText = 1
  Coalesce = 1
  Deltas = {1, 3}
  RecoveryLimit = 1
  Scenarios <- FairScenarios
SPECIFICATION FairSpec
PROPERTIES
  ServesOnlyRecovered
  DaemonServesAgain
  StartedTurnSettles

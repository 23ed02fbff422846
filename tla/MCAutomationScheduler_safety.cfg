CONSTANTS
  None = None
  Automations = {1, 2}
  Due <- Calendar
  Gaps <- GapCalendar
  MissedPolicy <- MissedPolicies
  OverlapPolicy <- OverlapPolicies
  TTL = 2
  Window = 3
  MaxDecisions = 3
  Page = 2
  ListLimit = 4
  RecoveryBatch = 1
  Limits <- SafetyLimits
SPECIFICATION Spec
CHECK_DEADLOCK FALSE
INVARIANTS
  OneActive
  SlotsAccounted
  GuestCalledOnce
  RunsAccounted

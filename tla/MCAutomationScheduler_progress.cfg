CONSTANTS
  None = None
  Automations = {1, 2}
  Due <- LongCalendar
  Gaps <- NoGaps
  MissedPolicy <- MissedPolicies
  OverlapPolicy <- OverlapPolicies
  TTL = 1
  Window = 9
  MaxDecisions = 3
  Page = 1
  ListLimit = 2
  RecoveryBatch = 1
  Limits <- FairLimits
SPECIFICATION FairSpec
CHECK_DEADLOCK FALSE
PROPERTIES
  ScheduleProgresses

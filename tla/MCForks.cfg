SPECIFICATION Spec
CONSTANTS
  None = None
  Threads = {1, 2, 3}  Messages = {1, 2, 3, 4, 5, 6, 7, 8, 9, 10, 11, 12}  Turns = {1, 2, 3, 4}
  MaxForkDepth = 2  MaxChildren = 2  MaxFamily = 3  MaxAliases = 1  MaxContext = 5  MaxRetries = 1
  MaxOutcomes = 2  MaxBytes = 5
  ThreadBytes <- TitleBytes  OutcomeBytes <- Estimated  StoredBytes <- Measured
  Tasks = {h1, h2}  Keys = {k1, k2}  Edits = {1, 8}  AckKeys = {a1}
  Scenarios <- AllScenarios
SYMMETRY Symmetry
\* A daemon nobody asks anything of may rest.
CHECK_DEADLOCK FALSE
INVARIANTS
  ProviderSeesRealExchanges
  ReservedWithinReach
  FamiliesStayReadable
PROPERTIES
  OneChargePerResult

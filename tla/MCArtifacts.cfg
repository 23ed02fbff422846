\* Two imports, two opens and two removals of the first artifact; files of
\* one to three units against a limit of two.
SPECIFICATION FairSpec
CONSTANTS
  None = None  Damaged = Damaged
  a1 = a1 a2 = a2 o1 = o1 o2 = o2 x1 = x1 x2 = x2 p1 = p1 t1 = t1 print1 = print1
  Imports <- MCImports  Opens <- MCOpens  Removals <- MCRemovals
  Prints = {print1}
  ProjectOf <- MCProjectOf  OwnersOf <- MCOwnersOf
  OpenTarget <- MCOpenTarget  RemovalTarget <- MCRemovalTarget
  Sizes = {1, 2, 3}  MaxFile = 2  MaxCount = 2  MaxProject = 2  MaxGlobal = 2
  Scenarios <- MCScenarios
\* A daemon whose requests are all answered may rest.
CHECK_DEADLOCK FALSE
INVARIANTS
  StorageAccounted
  ContentMatchesRecords
  EffectsOnce
PROPERTIES
  OpenedWhileAvailable
  ArtifactsSettle

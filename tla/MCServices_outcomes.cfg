\* The health checks alone.
SPECIFICATION Spec
CONSTANTS
  None = None
  Requests = {h1, h2}
  k1 = k1 k2 = k2 h1 = h1 h2 = h2 q1 = q1 s1 = s1 s2 = s2 b1 = b1 b2 = b2 t1 = t1
  Services = {"privileged"}
\* A daemon that has refreshed often enough may rest.
CHECK_DEADLOCK FALSE
PROPERTIES
  KnownOutcomesDurable

\* Every call of one store port, in every order, on both stores.
SPECIFICATION Spec
CONSTANTS
  None = None
  a1 = a1 a2 = a2 o1 = o1 x1 = x1 x2 = x2 q1 = q1 q2 = q2 p1 = p1 t1 = t1
  k0 = k0 k1 = k1 k2 = k2 k3 = k3 w1 = w1 w2 = w2 c1 = c1 c2 = c2 r1 = r1 r2 = r2 r3 = r3
  Domains = {"artifacts", "threads", "managed", "desktop", "model", "policy", "vault",
             "privileged", "scheduler", "skips", "execution", "workspace"}
SYMMETRY Symmetry
\* Both stores may be full.
CHECK_DEADLOCK FALSE
INVARIANTS
  StoresAgree
  JournalsAgree

SPECIFICATION Spec
CONSTANTS
  t1 = t1
  t2 = t2
  e1 = e1
  e2 = e2
  Origin = {o1}
  Token = {t1, t2}
  Envelope = {e1, e2}
  Skew = 1
  MaxLifetime = 2
  ReplayTTL = 3
  ReplayMax = 1
  NonceTTL = 2
  NonceCap = 1
  Burst = 1
  Window = 4
  Drift <- MCDrift
  Lifetimes = {2, 3}
  MaxTime = 4
  MaxBoots = 1
  MaxDeliveries = 4
SYMMETRY Symmetric
INVARIANTS AtMostOnce AdmittedOnceUnlessEvicted 
CHECK_DEADLOCK FALSE

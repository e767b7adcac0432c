SPECIFICATION FairSpec
CONSTANTS
  Caller = {p1, p2, p3}
  Client = {k1, k2, k3}
  NoClient = NoClient
  p1 = p1
  p2 = p2
  p3 = p3
  k1 = k1
  k2 = k2
  k3 = k3
INVARIANT ClosedNeverCached
PROPERTY DeadClientReplaced
CHECK_DEADLOCK FALSE

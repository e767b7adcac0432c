SPECIFICATION Spec
CONSTANTS
  n1 = n1
  n2 = n2
  c1 = c1
  c2 = c2
  Server = {n1, n2}
  Founder = {n1}
  Value = {}
  MaxMembers = 5
  MaxBatch = 8
  Wrap = 256
  Call = {c1, c2}
  Late = {"build", "reply", "loop"}
  Impatient = {n1, n2}
  MaxTerm = 2
  MaxLog = 3
  MaxFaults = 1
SYMMETRY CallSymmetry
INVARIANTS TypeOK LogTermsOrdered LogMembersInForce
CHECK_DEADLOCK FALSE

SPECIFICATION Spec
CONSTANTS
  n1 = n1
  n2 = n2
  n3 = n3
  c1 = c1
  Server = {n1, n2, n3}
  Founder = {n1, n2, n3}
  Value = {}
  MaxMembers = 5
  MaxBatch = 8
  Wrap = 256
  Call = {c1}
  Late = {}
  Impatient = {n1, n2, n3}
  MaxTerm = 2
  MaxLog = 2
  MaxFaults = 1
SYMMETRY Symmetry
INVARIANT ElectionSafety
CHECK_DEADLOCK FALSE

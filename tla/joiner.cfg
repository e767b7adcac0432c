SPECIFICATION SerialSpec
CONSTANTS
  n1 = n1
  n2 = n2
  n3 = n3
  c1 = c1
  Server = {n1, n2, n3}
  Founder = {n1, n2}
  Value = {}
  MaxMembers = 5
  MaxBatch = 8
  Wrap = 256
  Call = {c1}
  Late = {}
  Impatient = {n1, n2, n3}
  MaxTerm = 2
  MaxLog = 3
  MaxFaults = 0
INVARIANT ElectionSafety
VIEW LiveView
CHECK_DEADLOCK FALSE

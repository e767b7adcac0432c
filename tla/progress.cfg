SPECIFICATION FairSpec
CONSTANTS
  n1 = n1
  v1 = v1
  n2 = n2
  n3 = n3
  c1 = c1
  Server = {n1, n2, n3}
  Founder = {n1, n2}
  Value = {v1}
  MaxMembers = 5
  MaxBatch = 8
  Wrap = 256
  Call = {c1}
  Late = {}
  Impatient = {n1}
  MaxTerm = 1
  MaxLog = 3
  MaxFaults = 0
PROPERTY CallersAnswered
CHECK_DEADLOCK FALSE

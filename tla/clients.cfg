SPECIFICATION SerialSpec
CONSTANTS
  n1 = n1
  n2 = n2
  n3 = n3
  n4 = n4
  c1 = c1
  v1 = v1
  v2 = v2
  Server = {n1,n2,n3,n4}
  Founder = {n1,n2}
  Value = {v1,v2}
  MaxMembers = 5
  MaxBatch = 8
  Wrap = 256
  Call = {c1}
  Late = {}
  Impatient = {n1, n2}
  MaxTerm = 2
  MaxLog = 3
  MaxFaults = 0
SYMMETRY JoinSymmetry
VIEW LiveView
INVARIANTS StateMachineSafety LeaderCompleteness LogMatching ElectionSafety ClusterFollowsLog OneChangeAtATime
PROPERTIES RefinesLog TermsLedOnce
CHECK_DEADLOCK FALSE

SPECIFICATION Spec
CONSTANTS
  Node = {n1, n2}
  Key = {k1}
  Val = {a, b}
  Request = {r1, r2, r3}
  Missing = Missing
  NotAsked = NotAsked
  n1 = n1
  n2 = n2
  k1 = k1
  a = a
  b = b
  r1 = r1
  r2 = r2
  r3 = r3
  MaxFaults = 1
SYMMETRY Symmetry
VIEW View
INVARIANTS MapsFollowLog WaitersCanBeAnswered
PROPERTY Linearizable FollowsLog
CHECK_DEADLOCK FALSE

SPECIFICATION Spec
CONSTANTS
  Chunk = 2
  MaxBatch = 3
  MaxLen = 5
  MaxTerm = 3
INVARIANT NeverStuck
CHECK_DEADLOCK FALSE

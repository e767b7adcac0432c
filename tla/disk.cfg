SPECIFICATION Spec
CONSTANTS
  Chunk = 2
  MaxBatch = 3
  MaxLen = 5
  MaxTerm = 3
INVARIANTS TypeOK RestoreYieldsMemory
PROPERTY RestartKeepsAcknowledged
CHECK_DEADLOCK FALSE

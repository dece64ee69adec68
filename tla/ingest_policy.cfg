SPECIFICATION Spec
CONSTANTS
  w1 = w1
  w2 = w2
  c1 = c1
  c2 = c2
  k1 = k1
  k2 = k2
  b1 = b1
  b2 = b2
  None = None
  Keys <- MCKeys
  Bodies <- MCBodies
  Lines <- PolicyLines
  Workers = {w1}
  Contracts = {c1}
  BatchRecords = 2
  MaxLineBytes = 3
  MaxRecords = 4
  MaxBytes = 8
  AtomicProjection = FALSE
  LiveEdits = FALSE
  MaxSource = 3
  MaxFaults = 1
  MaxEdits = 0
INVARIANTS
  MemoryIsReplay
  RecoveryNeverStuck
  SessionNeverRefuses
  StoreAgrees

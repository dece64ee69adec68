SPECIFICATION Spec
CONSTANTS
  w1 = w1
  w2 = w2
  c1 = c1
  c2 = c2
  k1 = k1
  k2 = k2
  b1 = b1
  b2 = b2
  None = None
  Keys <- MCKeys
  Bodies <- MCBodies
  Lines <- FlowLines
  Workers = {w1, w2}
  Contracts = {c1}
  BatchRecords = 2
  MaxLineBytes = 3
  MaxRecords = 3
  MaxBytes = 4
  AtomicProjection = TRUE
  LiveEdits = FALSE
  MaxSource = 2
  MaxFaults = 1
  MaxEdits = 1
SYMMETRY Symmetry
CHECK_DEADLOCK FALSE
INVARIANTS
  JournalTrustworthy
  SourceFrozen

SPECIFICATION FairSpec
CONSTANTS
  w1 = w1
  w2 = w2
  c1 = c1
  c2 = c2
  k1 = k1
  k2 = k2
  b1 = b1
  b2 = b2
  None = None
  Keys <- MCKeys
  Bodies <- MCBodies
  Lines <- LiveLines
  Workers = {w1}
  Contracts = {c1}
  BatchRecords = 2
  MaxLineBytes = 3
  MaxRecords = 3
  MaxBytes = 4
  AtomicProjection = TRUE
  LiveEdits = FALSE
  MaxSource = 3
  MaxFaults = 1
  MaxEdits = 0
PROPERTIES
  EverythingDelivered

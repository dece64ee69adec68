\* Two threads of a signed repository; nobody else touches the file.
SPECIFICATION Spec
CONSTANTS
  Requests = {c1, c2}
  Outsiders = {}
  Keepers = {}
  Items = {incident}
  Values = {v}
  Runs = {1, 2}
  done = done
  streaming = streaming
  Reports <- MCReports
  Completed <- MCCompleted
  Exports = {digest}
  None = None
  PlanLimit = 1
  MaxLedger = 4
  MaxPlans = 1
  MaxClock = 2
  MaxStrays = 0
  MaxEdits = 0
SYMMETRY Symmetry
INVARIANTS TypeOK SnapshotCurrent NeverLockedOut LedgerExplains RetentionAccounts ReceiptBacked
PROPERTIES RetentionBinding SerialStore

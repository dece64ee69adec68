\* One signed repository, one unsigned process, and changes to the file.
SPECIFICATION Spec
CONSTANTS
  Requests = {c1}
  Outsiders = {u1}
  Keepers = {keeper}
  Items = {incident}
  Values = {v}
  Runs = {1}
  done = done
  streaming = streaming
  Reports = {done}
  Completed = {done}
  Exports = {}
  None = None
  PlanLimit = 1
  MaxLedger = 3
  MaxPlans = 0
  MaxClock = 2
  MaxStrays = 1
  MaxEdits = 2
INVARIANTS NothingSilentlyCertified AnchorFaithful
CHECK_DEADLOCK FALSE

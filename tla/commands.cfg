\* Short replays of every sort of record, and directories with captures; a
\* corpus of seven domains and three output paths; two backups, one place.
SPECIFICATION Commands
CONSTANTS
  None = None
  a = a
  b = b
  Sources <- MCSources
  ToleratedOneIn = 4
  MaximumRecords = 4
  Retained = 2
  Manifests <- MCManifests
  Score <- MCScore
  Registrable <- MCRegistrable
  Bucket <- MCBucket
  Research = {r1, r2, r3}
  Demo = demo
  Workers = {k1, k2}
  DomainLimit = 20
  MaxKills = 1
  MaxChanges = 2
  Contracts <- MCContracts
  Policies <- MCPolicies
  Unreadable <- MCUnreadable
  Datasets <- MCDatasets
  Bundles = {b1, b2}
  Places = {p1}
  MaxWrites = 3
  MaxFaults = 2
  Corpora <- MCCorpora
  Raisable <- MCRaisable
  RecordLimit = 20
SYMMETRY Symmetry
INVARIANTS QualityTruthful JoinCausal PromotedEarned SessionAuthority RecoverySound EvaluationStands
CHECK_DEADLOCK FALSE

\* One session per family of detectors; the exfiltration sessions are run twice
\* over the kept state.
SPECIFICATION Spec
CONSTANTS
  None = None
  a = a
  b = b
  h = h
  g = g
  Profiles <- MCProfiles
  Settings <- MCSettings
  ReconConfig <- MCRecon
  AuthorizedSources = {}
  DDoSConfig <- MCDDoS
  ReflectionServices = {123}
  Diverse <- MCDiverse
  C2Config <- MCC2
  AllowedDestinations = {}
  TrustedPeriodic <- MCTrusted
  DNSConfig <- MCDNS
  AllowedRoots = {"fine"}
  Score <- MCScore
  LexicalRoots = {"odd1", "odd2"}
  LabelLength <- MCLabelLength
  LabelEntropy <- MCLabelEntropy
  ExfilConfig <- MCExfil
  ApprovedBackup = {}
  ApprovedBulk = {}
  FeatureConfig <- MCFeatures
  EncryptedConfig <- MCEncrypted
  SizeScore <- MCVectorScore
  TimingScore <- MCVectorScore
  CorrelationWindow = 3
  DNSContextLimit = 2
  DNSContextWindow = 3
  MaxSessions = 2
INVARIANTS WindowsExact CooldownsHonest IncidentsPartition RestartsInvisible
PROPERTY FindingsSurvive
CHECK_DEADLOCK FALSE

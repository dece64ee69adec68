\* A stream is watched to its end, then its completed run is exported.
SPECIFICATION Spec
CONSTANTS
  None = None
  a = a
  b = b
  h = h
  g = g
  CorrelationWindow = 3
  Scenes = {"watching"}
  Settings <- MCSettings
  Replays <- MCReplays
  Legacy <- MCLegacy
  Credentials <- MCCredentials
  Origins = {"own"}
  LiveRun = 0
INVARIANTS CompletedExportable

\* One deployment per scene: the demonstration with older rows, streams, the
\* command line, protected mode, the worker with its operator.
SPECIFICATION Spec
CONSTANTS
  None = None
  a = a
  b = b
  h = h
  g = g
  CorrelationWindow = 3
  Scenes <- MCScenes
  Settings <- MCSettings
  Replays <- MCReplays
  Legacy <- MCLegacy
  Credentials <- MCCredentials
  Origins = {"own"}
  LiveRun = 0
INVARIANTS DecisionsKept QueueCurrent QueueMatchesRuns Authorised RestoredFaithful
PROPERTY Coordinated

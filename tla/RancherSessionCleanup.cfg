SPECIFICATION FairSpec
CONSTANTS
  PollInterval = 1
  ReadyTimeout = 2
  ErrorWait = 2
  TTL = 2
  Disturbances = {"fault"}
  MaxDisturbances = 1
PROPERTIES
  CleanupResumes

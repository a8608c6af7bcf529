SPECIFICATION FairSpec
CONSTANTS
  PollInterval = 1
  ReadyTimeout = 2
  ErrorWait = 2
  TTL = 2
  Disturbances = {"fault", "crash", "suspend", "connect", "disconnect", "rancherDelete", "secret"}
  MaxDisturbances = 3
INVARIANTS
  TypeOK
  SafetyInvariant
  ContractInvariant
  OneClusterRecord
  
  NoLostWakeup
PROPERTIES
  CleanupBeforeRemoval
  PhasesMoveForward
  ImplementsContract
  SessionSettles
  DeletionEnds

SPECIFICATION FairSpec
CONSTANTS
  c1 = c1
  n1 = n1
  n2 = n2
  Clusters = {c1}
  Nodes = {n1, n2}
  Snapshots = {{n1, n2}}
  NoNode = NoNode
  Schedules = {"cron"}
  MaxWait = 2
  Fallback = 1
  WorkflowDeployments = TRUE
  Disturbances = {"fault", "crash", "suspend", "delete", "recreate"}
  MaxDisturbances = 2
INVARIANTS
  TypeOK
  SafetyInvariant
  UniqueDeviceNames
  
  ConditionsMatchPhase
  RecordedDevicesExist
  GEAIdentity
  IdentityInvariant
PROPERTIES
  CleanupBeforeRemoval
  StatusRests
  Converges
  DeletionCompletes
  SuspendTakesEffect

SPECIFICATION FairSpec
CONSTANTS
  n1 = n1
  n2 = n2
  c1 = c1
  Nodes = {n1, n2}
  Clusters = {c1}
  NoNode = NoNode
  Schedules = {"interval"}
  MaxWait = 1
  Fallback = 1
  WorkflowDeployments = FALSE
  Disturbances = {"crash"}
  MaxDisturbances = 1
  NodeStatuses <- MCNodeStatuses
  PodGroups = {}
  InitialWorlds <- MCInitialWorlds
  Counts = {0}
  MaxChanges = 1
PROPERTIES
  
  ProvisionedIsTrue
  NodesGetDevices

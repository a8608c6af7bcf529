SPECIFICATION Spec
CONSTANTS
  n1 = n1
  n2 = n2
  Nodes = {n1, n2}
  NodeStatuses <- MCNodeStatuses
  PodGroups <- MCPodGroups
  InitialWorlds <- MCInitialWorlds
  Counts = {0, 11}
  MaxChanges = 2
INVARIANTS
  TypeOK
  
  
  WorseNeverScoresHigher
  NodeAndClusterScoresAgree
CHECK_DEADLOCK FALSE

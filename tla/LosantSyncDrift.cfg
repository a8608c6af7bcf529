SPECIFICATION Spec
CONSTANTS
  c1 = c1
  c2 = c2
  n1 = n1
  Clusters = {c1, c2}
  Nodes = {n1}
  Snapshots = {{n1}}
  NoNode = NoNode
  Schedules = {"interval", "zero", "invalid"}
  MaxWait = 2
  Fallback = 1
  WorkflowDeployments = FALSE
  Disturbances = {"fault", "suspend", "rename", "reschedule", "cloudDelete", "delete"}
  MaxDisturbances = 2
INVARIANTS
  
  NoLostWakeup

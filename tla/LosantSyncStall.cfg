SPECIFICATION FairSpec
CONSTANTS
  c1 = c1
  n1 = n1
  Clusters = {c1}
  Nodes = {n1}
  Snapshots = {{n1}}
  NoNode = NoNode
  Schedules = {"cron"}
  MaxWait = 2
  Fallback = 1
  WorkflowDeployments = FALSE
  Disturbances = {}
  MaxDisturbances = 0
PROPERTIES
  ActiveIsSyncedAgain

SPECIFICATION FairSpec
CONSTANTS
  f1 = f1
  f2 = f2
  v1 = v1
  v2 = v2
  Flows = {f1, f2}
  Versions = {v1, v2}
  NoVersion = NoVersion
  Known <- MCKnown
  Lists <- MCLists
  Disturbances = {"fault", "crash", "edit", "release"}
  MaxDisturbances = 2
INVARIANTS
  TypeOK
  WorkflowsInvariant
  DeployedIsTrue
  ReleasedOnce
PROPERTIES
  ListIsReleased
  

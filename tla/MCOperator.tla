----------------------------- MODULE MCOperator -----------------------------
(* Operator for TLC *)
EXTENDS Operator

CONSTANTS n1, n2

\* Nodes are ready; what else there is does not change.
MCNodeStatuses ==
  {[t \in {"Ready", "MemoryPressure", "DiskPressure", "PIDPressure"} |->
      IF t = "Ready" THEN "True" ELSE "Unknown"]}

\* A cluster of one node.
MCInitialWorlds ==
  {[nodes |-> [n \in {n1} |-> s], pods |-> {}, pvcs |-> 0, events |-> 0, dns |-> FALSE] :
     s \in MCNodeStatuses}
=============================================================================

--------------------------- MODULE MCHealthWatcher ---------------------------
(* HealthWatcher for TLC *)
EXTENDS HealthWatcher

\* The conditions with these flags.
With(flags) == [t \in ConditionTypes |-> IF t \in flags THEN "True" ELSE "Unknown"]

MCNodeStatuses == {With({"Ready"}), With(ConditionTypes \ {"Ready"})}

Group(node, phase, crashLooping, ready, count) ==
  [node |-> node, phase |-> phase, crashLooping |-> crashLooping, ready |-> ready,
   count |-> count]

CONSTANTS n1, n2

\* Enough pods to pass every cap.
MCPodGroups ==
  {Group(n1, "Running", TRUE, FALSE, 11), Group(n2, "Failed", FALSE, FALSE, 12)}

\* Both nodes down and every cap passed: the deductions add up to more than 100.
Failing == [nodes |-> [n \in {n1, n2} |-> With(ConditionTypes \ {"Ready"})],
            pods |-> MCPodGroups, pvcs |-> 11, events |-> 11, dns |-> FALSE]

\* Nothing wrong: a change more or less is not hidden by the clamp.
Healthy == [nodes |-> [n \in {n1, n2} |-> With({"Ready"})],
            pods |-> {}, pvcs |-> 0, events |-> 0, dns |-> TRUE]

MCInitialWorlds == {Failing, Healthy}
=============================================================================

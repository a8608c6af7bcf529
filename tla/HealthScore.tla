----------------------------- MODULE HealthScore -----------------------------
(***************************************************************************)
(* What the operator computes from the objects it lists: the collectors    *)
(* and the scores of internal/monitor, and the snapshot that               *)
(* HealthWatcherReconciler.Reconcile puts together from them.              *)
(*                                                                         *)
(* Pods are given in groups: a group is so many pods with the same node,   *)
(* phase, readiness and crash loop, which is all the collectors tell       *)
(* apart.  Claims and events are given by how many count against the       *)
(* score.                                                                  *)
(***************************************************************************)
EXTENDS Integers, FiniteSets, Functions

\* The conditions of a node that the collector looks at, and their status;
\* a condition that is absent reads like one whose status is Unknown.
ConditionTypes == {"Ready", "MemoryPressure", "DiskPressure", "PIDPressure"}
ConditionStatus == {"True", "False", "Unknown"}

\* mutant: only the upper end is kept
ClampTop(v, min, max) == IF v > max THEN max ELSE v

Clamp(v, min, max) == IF v < min THEN min ELSE IF v > max THEN max ELSE v

Capped(v, cap) == IF v > cap THEN cap ELSE v

HealthStatusFromScore(score) ==
  CASE score >= 80 -> "healthy"
    [] score >= 50 /\ score < 80 -> "degraded"
    [] OTHER -> "critical"

-----------------------------------------------------------------------------
(* Nodes *)

\* The flags of NodeHealth that are set.
Flags(conditions) == {t \in ConditionTypes : conditions[t] = "True"}

\* mutant: memory pressure weighs as much as a node that is not ready
ComputeNodeHealthScoreUneven(flags) ==
  Clamp(100 - (IF "Ready" \in flags THEN 0 ELSE 20)
            - (IF "MemoryPressure" \in flags THEN 20 ELSE 0)
            - (IF "DiskPressure" \in flags THEN 10 ELSE 0)
            - (IF "PIDPressure" \in flags THEN 5 ELSE 0), 0, 100)

ComputeNodeHealthScore(flags) ==
  Clamp(100 - (IF "Ready" \in flags THEN 0 ELSE 20)
            - (IF "MemoryPressure" \in flags THEN 10 ELSE 0)
            - (IF "DiskPressure" \in flags THEN 10 ELSE 0)
            - (IF "PIDPressure" \in flags THEN 5 ELSE 0), 0, 100)

\* What ComputeClusterHealthScore takes off for one node: it has a deduction
\* table of its own.
NodeDeduction(flags) ==
    (IF "Ready" \in flags THEN 0 ELSE 20)
  + (IF "MemoryPressure" \in flags THEN 10 ELSE 0)
  + (IF "DiskPressure" \in flags THEN 10 ELSE 0)
  + (IF "PIDPressure" \in flags THEN 5 ELSE 0)

\* mutant: the average is taken over the nodes that have a deduction
NodeDeductionsOfBad(nodes) ==
  LET bad == {n \in DOMAIN nodes : NodeDeduction(nodes[n]) > 0}
  IN  IF bad = {} THEN 0
      ELSE SumFunction([n \in bad |-> NodeDeduction(nodes[n])]) \div Cardinality(bad)

\* `nodes' maps the name of each node to its flags.
NodeDeductions(nodes) ==
  IF DOMAIN nodes = {} THEN 0
  ELSE SumFunction([n \in DOMAIN nodes |-> NodeDeduction(nodes[n])])
         \div Cardinality(DOMAIN nodes)

-----------------------------------------------------------------------------
(* Pods *)

Count(groups) == SumFunction([g \in groups |-> g.count])

\* The counters of PodCounts that reach the store, for some groups of pods.
CollectPodCounts(groups) ==
  [total     |-> Count(groups),
   running   |-> Count({g \in groups : g.phase = "Running"}),
   failed    |-> Count({g \in groups : g.phase = "Failed"}),
   pending   |-> Count({g \in groups : g.phase = "Pending"}),
   crashLoop |-> Count({g \in groups : g.crashLooping}),
   notReady  |-> Count({g \in groups : g.phase = "Running" /\ ~g.ready})]

-----------------------------------------------------------------------------
(* The cluster *)

\* `pods' are the counts of the cluster, `pvcs' how many claims are not bound,
\* `events' how many warnings are recent, `dns' whether CoreDNS has an
\* available replica.
ComputeClusterHealthScore(nodes, pods, pvcs, events, dns) ==
  Clamp(100 - NodeDeductions(nodes)
            - Capped(2 * pods.crashLoop, 20)
            - Capped(pods.failed, 10)
            - Capped(events, 10)
            - (IF dns THEN 0 ELSE 15)
            - Capped(pvcs, 10), 0, 100)

\* NodeHealth of one node: CollectNodeHealth, then the counts of its own pods.
NodeHealth(n, conditions, pods) ==
  LET flags  == Flags(conditions)
      counts == CollectPodCounts({g \in pods : g.node = n})
      score  == ComputeNodeHealthScore(flags)
  IN  [flags |-> flags, podCount |-> counts.total, notReady |-> counts.notReady,
       crashLoop |-> counts.crashLoop, score |-> score,
       status |-> HealthStatusFromScore(score)]

AllFlags(nodes) == [n \in DOMAIN nodes |-> Flags(nodes[n])]

\* The score of the cluster, for what was listed.
ClusterScore(seen) ==
  ComputeClusterHealthScore(AllFlags(seen.nodes), CollectPodCounts(seen.pods),
                            seen.pvcs, seen.events, seen.dns)

\* ClusterHealth and the map of NodeHealth, for what was listed.
Snapshot(seen) ==
  LET flags == AllFlags(seen.nodes)
      total == Cardinality(DOMAIN flags)
      ready == Cardinality({n \in DOMAIN flags : "Ready" \in flags[n]})
      score == ClusterScore(seen)
  IN  [nodes   |-> [n \in DOMAIN seen.nodes |-> NodeHealth(n, seen.nodes[n], seen.pods)],
       cluster |-> [totalNodes |-> total, readyNodes |-> ready,
                    unhealthyNodes |-> total - ready,
                    pods |-> CollectPodCounts(seen.pods), pvcs |-> seen.pvcs,
                    events |-> seen.events, dns |-> seen.dns, score |-> score,
                    status |-> HealthStatusFromScore(score)]]
=============================================================================

--------------------------- MODULE OperatorProofs ---------------------------
(* The manager: LosantSync with HealthWatcher in place of its store. *)
EXTENDS Operator, TLAPS

-----------------------------------------------------------------------------
(* Steps of the manager, as steps of the controllers *)

\* Every step of the manager is one of HealthWatcher, or does not concern it.
LEMMA StepIsHealthWatcher == [Next]_vars => [Watch!Next]_(Watch!vars)
<1> SUFFICES ASSUME [Next]_vars PROVE [Watch!Next]_(Watch!vars)
  OBVIOUS
<1>1. CASE HealthSnapshot \/ ReconcileStep \/ Around \/ UNCHANGED vars
  BY <1>1 DEF HealthSnapshot, ReconcileStep, Around, vars, watchVars, Watch!vars
<1>2. CASE WatchStep \/ ClusterChanges \/ ListFails \/ Restart
  BY <1>2 DEF WatchStep, ClusterChanges, ListFails, Restart, Watch!Next
<1> QED BY <1>1, <1>2 DEF Next

\* Of the nodes in the store, the steps of HealthWatcher change nothing, or put in
\* those that a reconcile has listed.
LEMMA StoreEffect ==
  ASSUME Watch!ListingsHold, Watch!WatchStep \/ Watch!ClusterChanges \/ Watch!ListFails
  PROVE  UNCHANGED health \/ DOMAIN health'.nodes \subseteq Nodes
<1>1. CASE Watch!Update
  <2>1. DOMAIN seen.nodes \subseteq Nodes
    <3>1. seen.nodes \in Watch!NodeMaps \cup {Watch!NoNodes}
      BY DEF Watch!ListingsHold, Watch!Listing
    <3>2. CASE seen.nodes \in Watch!NodeMaps
      BY <3>2 DEF Watch!NodeMaps
    <3>3. CASE seen.nodes = Watch!NoNodes
      BY <3>3 DEF Watch!NoNodes
    <3> QED BY <3>1, <3>2, <3>3
  <2>2. [seen EXCEPT !.dns = cache.dns].nodes = seen.nodes
    BY DEF Watch!ListingsHold, Watch!Listing
  <2>3. health' = Watch!Snapshot([seen EXCEPT !.dns = cache.dns])
    BY <1>1 DEF Watch!Update
  <2>4. DOMAIN health'.nodes = DOMAIN seen.nodes
    BY <2>2, <2>3 DEF Watch!Snapshot
  <2> QED BY <2>1, <2>4
<1>2. CASE Watch!ListFails
  BY <1>2 DEF Watch!ListFails
<1>3. CASE Watch!ClusterChanges
  BY <1>3 DEF Watch!ClusterChanges, Watch!NodeChanges, Watch!PodsChange, Watch!ClaimsChange,
              Watch!WarningsChange, Watch!CoreDNSChanges, Watch!Change
<1>4. CASE Watch!WatchStep /\ ~Watch!Update
  BY <1>4 DEF Watch!WatchStep, Watch!Informs, Watch!Enqueue, Watch!Take, Watch!List, Watch!ListNodes,
              Watch!ListPods, Watch!ListPVCs, Watch!ListEvents
<1> QED BY <1>1, <1>2, <1>3, <1>4

\* Every step of the manager is one of LosantSync, or does not concern it.
LEMMA StepIsLosantSync ==
  Watch!ListingsHold /\ [Next]_vars => [Sync!Next]_(Sync!vars)
<1> SUFFICES ASSUME Watch!ListingsHold, [Next]_vars PROVE [Sync!Next]_(Sync!vars)
  OBVIOUS
<1>1. CASE HealthSnapshot \/ ReconcileStep
  BY <1>1 DEF HealthSnapshot, ReconcileStep, Sync!Next, Sync!ReconcileStep
<1>2. CASE Around
  BY <1>2 DEF Around, Sync!Next, Sync!Environment
<1>3. CASE WatchStep \/ ClusterChanges \/ ListFails
  <2>1. UNCHANGED syncVars
    BY <1>3 DEF WatchStep, ClusterChanges, ListFails
  <2>2. CASE UNCHANGED health
    BY <2>1, <2>2 DEF syncVars, Sync!vars, Sync!apiVars, Sync!queueVars, Sync!workerVars,
                      Sync!cloudVars, Sync!geaVars
  <2>3. CASE DOMAIN health'.nodes \subseteq Nodes
    <3>1. Sync!StoreUpdate
      BY <2>1, <2>3 DEF syncVars, Sync!StoreUpdate, Sync!apiVars, Sync!queueVars, Sync!workerVars,
                        Sync!cloudVars, Sync!geaVars
    <3> QED BY <3>1 DEF Sync!Next, Sync!Environment
  <2> QED BY <1>3, <2>2, <2>3, StoreEffect DEF WatchStep, ClusterChanges, ListFails
<1>4. CASE Restart
  BY <1>4 DEF Restart, Sync!Next, Sync!Environment
<1>5. CASE UNCHANGED vars
  BY <1>5 DEF vars, syncVars, watchVars, Sync!vars, Sync!apiVars, Sync!queueVars, Sync!workerVars,
              Sync!cloudVars, Sync!geaVars
<1> QED BY <1>1, <1>2, <1>3, <1>4, <1>5 DEF Next

-----------------------------------------------------------------------------
(* ProvisionedIsTrue *)

\* At rest the nodes of the store are those of the cluster.
LEMMA NodesAtRest ==
  ASSUME Watch!StoreIsCurrentAtRest, Watch!Quiet
  PROVE  DOMAIN health.nodes = DOMAIN world.nodes
<1>1. health = Watch!Snapshot(world)
  BY DEF Watch!StoreIsCurrentAtRest
<1> QED BY <1>1 DEF Watch!Snapshot

HasDevice(n) == \E d \in devices : d.node = n /\ d.id = ls.nodes[n]

\* The nodes known when the sync took its snapshot have their device by the time it
\* gets to each step, or are still to be visited.
ProvisioningHolds ==
  /\ lsPc = "nodes" => \A n \in known : n \in todo \/ HasDevice(n)
  /\ lsPc \in {"report", "schedule", "commit"} => \A n \in known : HasDevice(n)

\* The steps of LosantSync that leave the loop's state alone, or the sync.
LEMMA ProvisioningOther ==
  ASSUME ProvisioningHolds, ReconcileStep \/ Around \/ UNCHANGED vars, ls \in Sync!Object,
         lsPc \notin {"nodes", "report", "schedule"} \/ Around \/ UNCHANGED vars
  PROVE  ProvisioningHolds'
<1>1. ASSUME lsPc' \notin {"nodes", "report", "schedule", "commit"} PROVE ProvisioningHolds'
  BY <1>1 DEF ProvisioningHolds
<1>2. CASE UNCHANGED <<lsPc, todo, devices, known>> /\ ls'.nodes = ls.nodes
  BY <1>2 DEF ProvisioningHolds, HasDevice
<1>3. CASE Around
  <2>1. CASE Sync!Tick
    BY <1>2, <1>3, <2>1 DEF Around, Sync!Tick, Sync!Aged, Sync!cloudVars, Sync!Object
  <2> QED BY <1>2, <1>3, <2>1 DEF Around, Sync!CacheSync, Sync!TimerFires, Sync!Rollout,
                                  Sync!workerVars, Sync!cloudVars
<1>4. CASE ReconcileStep /\ lsPc \notin {"nodes", "report", "schedule"}
  <2> USE <1>4 DEF ReconcileStep
  <2>1. CASE Sync!Reconcile
    BY <1>1, <2>1 DEF Sync!Reconcile, Sync!Dispatch
  <2>2. CASE Sync!AddFinalizer \/ Sync!Suspend \/ Sync!FirstReconcile
    BY <1>1, <2>2 DEF Sync!AddFinalizer, Sync!Suspend, Sync!FirstReconcile, Sync!WriteFails,
                      Sync!Return, Sync!Requeue, Sync!Done
  <2>3. CASE Sync!EnsureCredentialPlaceholder \/ Sync!Defer \/ Sync!RequeueUntilNext
    BY <1>1, <2>3 DEF Sync!EnsureCredentialPlaceholder, Sync!Defer, Sync!RequeueUntilNext,
                      Sync!Return, Sync!Requeue, Sync!Done
  <2>4. CASE Sync!Connect \/ Sync!EnsureClusterDevice
    BY <1>1, <2>4 DEF Sync!Connect, Sync!EnsureClusterDevice, Sync!Degrade
  <2>5. CASE Sync!WriteCredentials \/ Sync!RestartDeployment
    BY <1>1, <2>5 DEF Sync!WriteCredentials, Sync!RestartDeployment, Sync!Degrade
  <2>6. CASE Sync!Commit \/ Sync!SetDegraded
    BY <1>1, <2>6 DEF Sync!Commit, Sync!SetDegraded, Sync!WriteFails, Sync!Return,
                      Sync!Requeue, Sync!Done
  <2>7. CASE Sync!StartCleanup \/ Sync!DeleteClusterDevice \/ Sync!RemoveFinalizer
             \/ \E n \in Nodes : Sync!DeleteNodeDevice(n)
    BY <1>1, <2>7 DEF Sync!StartCleanup, Sync!DeleteClusterDevice, Sync!RemoveFinalizer,
                      Sync!DeleteNodeDevice, Sync!Requeue, Sync!Done
  <2>8. ~Sync!HealthSnapshot
    BY DEF Sync!HealthSnapshot
  <2>9. /\ \A n \in Nodes : ~Sync!EnsureNodeDevice(n)
        /\ ~Sync!EnsureWorkflowDeployments /\ ~Sync!ReportState /\ ~Sync!Schedule
    BY DEF Sync!EnsureNodeDevice, Sync!EnsureWorkflowDeployments, Sync!ReportState, Sync!Schedule
  <2> QED BY <2>1, <2>2, <2>3, <2>4, <2>5, <2>6, <2>7, <2>8, <2>9 DEF Sync!ReconcileStep
<1>5. CASE UNCHANGED vars
  BY <1>2, <1>5 DEF vars, syncVars
<1> QED BY <1>3, <1>4, <1>5

\* The loop over the nodes, and the steps up to the write of the status.
LEMMA ProvisioningSync ==
  ASSUME ProvisioningHolds, ReconcileStep, lsPc \in {"nodes", "report", "schedule"},
         ls \in Sync!Object, todo \subseteq Nodes
  PROVE  ProvisioningHolds'
<1> USE DEF ReconcileStep
<1>1. ASSUME lsPc' \notin {"nodes", "report", "schedule", "commit"} PROVE ProvisioningHolds'
  BY <1>1 DEF ProvisioningHolds
<1>2. ls.nodes \in [Nodes -> Nat] /\ known' = known
  BY DEF Sync!Object
<1>3. ASSUME NEW n \in Nodes, Sync!EnsureNodeDevice(n), lsPc' = "nodes"
      PROVE  ProvisioningHolds'
  <2>1. PICK id \in 1..nextDev : /\ Sync!Ensured(ls.cluster, n, ls.dev, id)
                                 /\ ls' = [ls EXCEPT !.nodes[n] = id]
                                 /\ todo' = todo \ {n}
    BY <1>3 DEF Sync!EnsureNodeDevice, Sync!Degrade
  <2>2. lsPc = "nodes"
    BY <1>3 DEF Sync!EnsureNodeDevice
  <2>3. devices \subseteq devices' /\ \E d \in devices' : d.node = n /\ d.id = id
    <3> DEFINE new == [id |-> id, cluster |-> ls.cluster, node |-> n, gateway |-> ls.dev]
    <3>1. CASE \E d \in Sync!Named(ls.cluster, n) : d.id = id /\ devices' = devices
      BY <3>1 DEF Sync!Named
    <3>2. CASE devices' = devices \cup {new}
      <4>1. new.node = n /\ new.id = id
        OBVIOUS
      <4> HIDE DEF new
      <4> QED BY <3>2, <4>1
    <3> QED BY <2>1, <3>1, <3>2 DEF Sync!Ensured, Sync!cloudVars
  <2>4. ls'.nodes[n] = id /\ \A m \in Nodes \ {n} : ls'.nodes[m] = ls.nodes[m]
    BY <1>2, <2>1 DEF Sync!Object
  <2>5. ASSUME NEW m \in known, m \notin todo' PROVE HasDevice(m)'
    <3>1. CASE m = n
      BY <2>3, <2>4, <3>1 DEF HasDevice
    <3>2. CASE m # n
      <4>1. HasDevice(m)
        BY <2>1, <2>2, <2>5, <3>2 DEF ProvisioningHolds
      <4>2. ls'.nodes[m] = ls.nodes[m]
        BY <1>2, <2>1, <3>2 DEF Sync!Object
      <4> QED BY <2>3, <4>1, <4>2 DEF HasDevice
    <3> QED BY <3>1, <3>2
  <2> QED BY <1>2, <1>3, <2>5 DEF ProvisioningHolds
<1>4. ASSUME lsPc = "nodes" => todo = {}, lsPc' \in {"report", "schedule", "commit"},
             devices' = devices, ls'.nodes = ls.nodes
      PROVE  ProvisioningHolds'
  BY <1>2, <1>4 DEF ProvisioningHolds, HasDevice
<1>5. ASSUME NEW n \in Nodes, Sync!EnsureNodeDevice(n), lsPc' # "nodes"
      PROVE  ProvisioningHolds'
  BY <1>1, <1>5 DEF Sync!EnsureNodeDevice, Sync!Degrade
<1>6. CASE Sync!EnsureWorkflowDeployments
  BY <1>1, <1>4, <1>6 DEF Sync!EnsureWorkflowDeployments, Sync!ConditionTrue, Sync!cloudVars,
                          Sync!Object
<1>7. CASE Sync!ReportState
  BY <1>1, <1>4, <1>7 DEF Sync!ReportState, Sync!Degrade, Sync!ConditionTrue, Sync!cloudVars,
                          Sync!Object
<1>8. CASE Sync!Schedule
  BY <1>1, <1>4, <1>8 DEF Sync!Schedule, Sync!Degrade, Sync!ConditionTrue, Sync!cloudVars,
                          Sync!Object
<1>9. \/ \E n \in Nodes : Sync!EnsureNodeDevice(n)
      \/ Sync!EnsureWorkflowDeployments \/ Sync!ReportState \/ Sync!Schedule
  BY DEF Sync!ReconcileStep, Sync!Reconcile, Sync!AddFinalizer, Sync!Suspend, Sync!FirstReconcile,
         Sync!EnsureCredentialPlaceholder, Sync!Defer, Sync!Connect, Sync!EnsureClusterDevice,
         Sync!WriteCredentials, Sync!RestartDeployment, Sync!HealthSnapshot, Sync!Commit,
         Sync!RequeueUntilNext, Sync!SetDegraded, Sync!StartCleanup, Sync!DeleteNodeDevice,
         Sync!DeleteClusterDevice, Sync!RemoveFinalizer
<1> QED BY <1>3, <1>5, <1>6, <1>7, <1>8, <1>9

LEMMA ProvisioningStep ==
  ASSUME ProvisioningHolds, [Next]_vars, ls \in Sync!Object, todo \subseteq Nodes,
         Watch!StoreIsCurrentAtRest
  PROVE  ProvisioningHolds'
<1>1. CASE HealthSnapshot
  <2>1. lsPc' = "nodes" /\ todo' = DOMAIN health.nodes
    BY <1>1 DEF HealthSnapshot, Sync!HealthSnapshot
  <2>2. known' \subseteq todo'
    BY <1>1, <2>1, NodesAtRest DEF HealthSnapshot
  <2> QED BY <2>1, <2>2 DEF ProvisioningHolds
<1>2. CASE ReconcileStep \/ Around \/ UNCHANGED vars
  BY <1>2, ProvisioningOther, ProvisioningSync
<1>3. CASE WatchStep \/ ClusterChanges \/ ListFails
  BY <1>3 DEF WatchStep, ClusterChanges, ListFails, syncVars, ProvisioningHolds, HasDevice
<1>4. CASE Restart
  BY <1>4 DEF Restart, Sync!Crash, Sync!Done, ProvisioningHolds
<1> QED BY <1>1, <1>2, <1>3, <1>4 DEF Next

\* Only the write of the status goes from commit to requeue, and what it writes is
\* the copy the sync has worked on.
LEMMA CommitProvisioned ==
  ASSUME ProvisioningHolds, [Next]_vars, lsPc = "commit", lsPc' = "requeue"
  PROVE  \A n \in known : Provisioned(n)'
<1>1. ReconcileStep
  BY DEF Next, HealthSnapshot, Sync!HealthSnapshot, Around, Sync!CacheSync,
         Sync!TimerFires, Sync!Tick, Sync!Rollout, Sync!workerVars, WatchStep,
         ClusterChanges, ListFails, Restart, Sync!Crash, Sync!Done, vars, syncVars
<1>2. Sync!Commit
  BY <1>1
  DEF ReconcileStep, Sync!ReconcileStep, Sync!Reconcile, Sync!AddFinalizer, Sync!Suspend,
      Sync!FirstReconcile, Sync!EnsureCredentialPlaceholder, Sync!Defer, Sync!Connect,
      Sync!EnsureClusterDevice, Sync!WriteCredentials, Sync!RestartDeployment,
      Sync!HealthSnapshot, Sync!EnsureNodeDevice, Sync!EnsureWorkflowDeployments,
      Sync!ReportState, Sync!Schedule, Sync!RequeueUntilNext, Sync!SetDegraded,
      Sync!StartCleanup, Sync!DeleteNodeDevice, Sync!DeleteClusterDevice, Sync!RemoveFinalizer
<1>3. cr' = ls /\ devices' = devices
  BY <1>2 DEF Sync!Commit, Sync!Stored, Sync!WriteFails, Sync!Requeue, Sync!Done,
              Sync!cloudVars
<1> QED BY <1>3 DEF ProvisioningHolds, HasDevice, Provisioned

-----------------------------------------------------------------------------
(* HealthWatcher in the manager *)

WatchProofs == INSTANCE HealthWatcherProofs WITH store <- health

\* The instance with the proofs is the instance, since each side expands to the same;
\* first what HealthWatcher computes.
LEMMA SameSnapshot ==
  ASSUME NEW o
  PROVE  Watch!Snapshot(o) = WatchProofs!Snapshot(o)
<1>1. ASSUME NEW f PROVE Watch!SumFunction(f) = WatchProofs!SumFunction(f)
  BY DEF Watch!SumFunction, Watch!SumFunctionOnSet, Watch!FoldFunctionOnSet,
         Watch!MapThenFoldSet, WatchProofs!SumFunction, WatchProofs!SumFunctionOnSet,
         WatchProofs!FoldFunctionOnSet, WatchProofs!MapThenFoldSet
<1>2. ASSUME NEW S PROVE Watch!Cardinality(S) = WatchProofs!Cardinality(S)
  BY DEF Watch!Cardinality, WatchProofs!Cardinality
<1>3. ASSUME NEW G PROVE Watch!CollectPodCounts(G) = WatchProofs!CollectPodCounts(G)
  <2>1. \A H : Watch!Count(H) = WatchProofs!Count(H)
    BY <1>1 DEF Watch!Count, WatchProofs!Count
  <2> QED BY <2>1 DEF Watch!CollectPodCounts, WatchProofs!CollectPodCounts
<1>4. ASSUME NEW nodes PROVE Watch!NodeDeductions(nodes) = WatchProofs!NodeDeductions(nodes)
  BY <1>1, <1>2 DEF Watch!NodeDeductions, Watch!NodeDeduction,
                    WatchProofs!NodeDeductions, WatchProofs!NodeDeduction
<1>5. ASSUME NEW nodes PROVE Watch!AllFlags(nodes) = WatchProofs!AllFlags(nodes)
  BY DEF Watch!AllFlags, Watch!Flags, Watch!ConditionTypes, WatchProofs!AllFlags,
         WatchProofs!Flags, WatchProofs!ConditionTypes
<1>6. Watch!ClusterScore(o) = WatchProofs!ClusterScore(o)
  BY <1>3, <1>4, <1>5 DEF Watch!ClusterScore, Watch!ComputeClusterHealthScore,
                          Watch!Clamp, Watch!Capped, WatchProofs!ClusterScore,
                          WatchProofs!ComputeClusterHealthScore, WatchProofs!Clamp,
                          WatchProofs!Capped
<1>7. ASSUME NEW n, NEW c, NEW p PROVE Watch!NodeHealth(n, c, p) = WatchProofs!NodeHealth(n, c, p)
  BY <1>3 DEF Watch!NodeHealth, Watch!Flags, Watch!ConditionTypes,
              Watch!ComputeNodeHealthScore, Watch!Clamp, Watch!HealthStatusFromScore,
              WatchProofs!NodeHealth, WatchProofs!Flags, WatchProofs!ConditionTypes,
              WatchProofs!ComputeNodeHealthScore, WatchProofs!Clamp,
              WatchProofs!HealthStatusFromScore
<1> QED
  BY <1>2, <1>3, <1>5, <1>6, <1>7 DEF Watch!Snapshot, Watch!HealthStatusFromScore,
                                      WatchProofs!Snapshot,
                                      WatchProofs!HealthStatusFromScore

LEMMA SameWatch ==
  /\ WatchProofs!ConstantsAssumption
  /\ Watch!Init => WatchProofs!Init
  /\ [Watch!Next]_(Watch!vars) => [WatchProofs!Next]_(WatchProofs!vars)
<1>1. WatchProofs!ConstantsAssumption
  BY OperatorAssumption DEF Watch!IsFiniteSet, Watch!World, Watch!NodeMaps,
                            Watch!Conditions, Watch!ConditionTypes,
                            Watch!ConditionStatus, WatchProofs!IsFiniteSet,
                            WatchProofs!World, WatchProofs!NodeMaps,
                            WatchProofs!Conditions, WatchProofs!ConditionTypes,
                            WatchProofs!ConditionStatus
<1>2. Watch!Nothing = WatchProofs!Nothing /\ Watch!EmptyStore = WatchProofs!EmptyStore
  BY SameSnapshot DEF Watch!Nothing, Watch!NoNodes, Watch!EmptyStore,
                      WatchProofs!Nothing, WatchProofs!NoNodes, WatchProofs!EmptyStore
<1>3. Watch!Init => WatchProofs!Init
  BY <1>2 DEF Watch!Init, WatchProofs!Init
<1>4. Watch!ClusterChanges => WatchProofs!ClusterChanges
  BY DEF Watch!ClusterChanges, Watch!NodeChanges, Watch!PodsChange,
         Watch!ClaimsChange, Watch!WarningsChange, Watch!CoreDNSChanges, Watch!Change,
         Watch!NodeMaps, WatchProofs!ClusterChanges, WatchProofs!NodeChanges,
         WatchProofs!PodsChange, WatchProofs!ClaimsChange, WatchProofs!WarningsChange,
         WatchProofs!CoreDNSChanges, WatchProofs!Change, WatchProofs!NodeMaps
<1>5. Watch!Update => WatchProofs!Update
  BY <1>2, SameSnapshot DEF Watch!Update, WatchProofs!Update
<1>6. Watch!ListFails \/ Watch!Restart => WatchProofs!ListFails \/ WatchProofs!Restart
  BY <1>2 DEF Watch!ListFails, Watch!Restart, Watch!Kinds, WatchProofs!ListFails,
              WatchProofs!Restart, WatchProofs!Kinds
<1>7. Watch!WatchStep /\ ~Watch!Update => WatchProofs!WatchStep
  BY DEF Watch!WatchStep, Watch!Kinds, Watch!Informs, Watch!ChangedNodes,
         Watch!Enqueue, Watch!AllNodesMapper, Watch!Take, Watch!List, Watch!ListNodes,
         Watch!ListPods, Watch!ListPVCs, Watch!ListEvents, WatchProofs!WatchStep,
         WatchProofs!Kinds, WatchProofs!Informs, WatchProofs!ChangedNodes,
         WatchProofs!Enqueue, WatchProofs!AllNodesMapper, WatchProofs!Take,
         WatchProofs!List, WatchProofs!ListNodes, WatchProofs!ListPods,
         WatchProofs!ListPVCs, WatchProofs!ListEvents
<1>8. UNCHANGED Watch!vars => UNCHANGED WatchProofs!vars
  BY DEF Watch!vars, WatchProofs!vars
<1> QED BY <1>1, <1>3, <1>4, <1>5, <1>6, <1>7, <1>8
        DEF Watch!Next, WatchProofs!Next, WatchProofs!WatchStep

\* HealthWatcher in the manager, next to LosantSync, is HealthWatcher: its theorems
\* are about the manager.
LEMMA WatcherInManager == Spec => WatchProofs!Spec
<1>1. Init => Watch!Init
  BY DEF Init
<1> QED BY <1>1, SameWatch, StepIsHealthWatcher, PTL DEF Spec, WatchProofs!Spec

\* What HealthWatcher lists, in the manager.
LEMMA ListingsHoldAlways == Spec => []Watch!ListingsHold
<1>1. WatchProofs!WatcherInvariant => Watch!ListingsHold
  BY DEF WatchProofs!WatcherInvariant, WatchProofs!ListingsHold, WatchProofs!World,
         WatchProofs!Listing, WatchProofs!NodeMaps, WatchProofs!NoNodes, WatchProofs!Kinds,
         Watch!ListingsHold, Watch!World, Watch!Listing, Watch!NodeMaps, Watch!NoNodes, Watch!Kinds
<1> QED BY <1>1, SameWatch, WatcherInManager, WatchProofs!WatcherInvariantHolds, PTL

\* In the manager too, the store has the health of the cluster as it is once
\* HealthWatcher is at rest, whatever LosantSync does and whenever the process dies.
THEOREM ManagerStoreIsCurrent == Spec => []Watch!StoreIsCurrentAtRest
<1>1. WatchProofs!StoreIsCurrentAtRest => Watch!StoreIsCurrentAtRest
  BY SameSnapshot DEF Watch!StoreIsCurrentAtRest, Watch!Quiet, Watch!Kinds,
                      WatchProofs!StoreIsCurrentAtRest, WatchProofs!Quiet, WatchProofs!Kinds
<1> QED BY <1>1, SameWatch, WatcherInManager, WatchProofs!RestIsCurrent, PTL

\* The manager's LosantSync controller implements LosantSync: what HealthWatcher
\* does to the store is what that module leaves open.
THEOREM Refinement == Spec => ImplementsLosantSync
<1>1. Init => Sync!Init
  BY DEF Init
<1> QED BY <1>1, ListingsHoldAlways, StepIsLosantSync, PTL DEF Spec, ImplementsLosantSync, Sync!Spec

-----------------------------------------------------------------------------
(* LosantSync in the manager *)

SyncProofs == INSTANCE LosantSyncSafetyProofs
                WITH cache <- lsCache, pc <- lsPc, store <- DOMAIN health.nodes,
                     Snapshots <- SUBSET Nodes

\* Here too, the instance with the proofs is the instance.
LEMMA SameSync ==
  /\ SyncProofs!ConstantsAssumption
  /\ Sync!Init <=> SyncProofs!Init
  /\ [Sync!Next]_(Sync!vars) <=> [SyncProofs!Next]_(SyncProofs!vars)
<1>1. SyncProofs!ConstantsAssumption
  BY OperatorAssumption DEF Sync!ScheduleKinds, Sync!DisturbanceKinds,
                            SyncProofs!ScheduleKinds, SyncProofs!DisturbanceKinds
<1>2. Sync!Init <=> SyncProofs!Init
  BY DEF Sync!NoDev, Sync!NoTimer, Sync!NewObject, Sync!NoObject, Sync!ConditionTypes,
         Sync!Init, SyncProofs!NoDev, SyncProofs!NoTimer, SyncProofs!NewObject,
         SyncProofs!NoObject, SyncProofs!ConditionTypes, SyncProofs!Init
<1>3. [Sync!Next]_(Sync!vars) <=> [SyncProofs!Next]_(SyncProofs!vars)
  BY DEF Sync!apiVars, Sync!queueVars, Sync!workerVars, Sync!cloudVars, Sync!geaVars,
         Sync!ConditionTypes, Sync!NoDev, Sync!NoTimer, Sync!NewObject, Sync!NoObject,
         Sync!Named, Sync!Disturb, Sync!Calm, Sync!AddAfter, Sync!Done, Sync!Return,
         Sync!Requeue, Sync!CacheSync, Sync!TimerFires, Sync!Countdown, Sync!Aged,
         Sync!Tick, Sync!Stored, Sync!WriteFails, Sync!Ensured, Sync!Deleted,
         Sync!Degraded, Sync!Degrade, Sync!ConditionTrue, Sync!Delays, Sync!Dispatch,
         Sync!Reconcile, Sync!AddFinalizer, Sync!Suspend, Sync!FirstReconcile,
         Sync!EnsureCredentialPlaceholder, Sync!Defer, Sync!Connect,
         Sync!EnsureClusterDevice, Sync!WriteCredentials, Sync!RestartDeployment,
         Sync!HealthSnapshot, Sync!EnsureNodeDevice, Sync!EnsureWorkflowDeployments,
         Sync!ReportState, Sync!Schedule, Sync!Commit, Sync!RequeueUntilNext,
         Sync!SetDegraded, Sync!StartCleanup, Sync!DeleteNodeDevice,
         Sync!DeleteClusterDevice, Sync!RemoveFinalizer, Sync!StoreUpdate,
         Sync!Rollout, Sync!UserWrites, Sync!ToggleSuspend, Sync!Rename,
         Sync!Reschedule, Sync!DeleteObject, Sync!RecreateObject, Sync!CloudDelete,
         Sync!Crash, Sync!ReconcileStep, Sync!Environment, Sync!Next, Sync!vars,
         SyncProofs!apiVars, SyncProofs!queueVars, SyncProofs!workerVars,
         SyncProofs!cloudVars, SyncProofs!geaVars, SyncProofs!ConditionTypes,
         SyncProofs!NoDev, SyncProofs!NoTimer, SyncProofs!NewObject,
         SyncProofs!NoObject, SyncProofs!Named, SyncProofs!Disturb, SyncProofs!Calm,
         SyncProofs!AddAfter, SyncProofs!Done, SyncProofs!Return, SyncProofs!Requeue,
         SyncProofs!CacheSync, SyncProofs!TimerFires, SyncProofs!Countdown,
         SyncProofs!Aged, SyncProofs!Tick, SyncProofs!Stored, SyncProofs!WriteFails,
         SyncProofs!Ensured, SyncProofs!Deleted, SyncProofs!Degraded,
         SyncProofs!Degrade, SyncProofs!ConditionTrue, SyncProofs!Delays,
         SyncProofs!Dispatch, SyncProofs!Reconcile, SyncProofs!AddFinalizer,
         SyncProofs!Suspend, SyncProofs!FirstReconcile,
         SyncProofs!EnsureCredentialPlaceholder, SyncProofs!Defer, SyncProofs!Connect,
         SyncProofs!EnsureClusterDevice, SyncProofs!WriteCredentials,
         SyncProofs!RestartDeployment, SyncProofs!HealthSnapshot,
         SyncProofs!EnsureNodeDevice, SyncProofs!EnsureWorkflowDeployments,
         SyncProofs!ReportState, SyncProofs!Schedule, SyncProofs!Commit,
         SyncProofs!RequeueUntilNext, SyncProofs!SetDegraded, SyncProofs!StartCleanup,
         SyncProofs!DeleteNodeDevice, SyncProofs!DeleteClusterDevice,
         SyncProofs!RemoveFinalizer, SyncProofs!StoreUpdate, SyncProofs!Rollout,
         SyncProofs!UserWrites, SyncProofs!ToggleSuspend, SyncProofs!Rename,
         SyncProofs!Reschedule, SyncProofs!DeleteObject, SyncProofs!RecreateObject,
         SyncProofs!CloudDelete, SyncProofs!Crash, SyncProofs!ReconcileStep,
         SyncProofs!Environment, SyncProofs!Next, SyncProofs!vars
<1> QED BY <1>1, <1>2, <1>3

LEMMA SyncInManager == Spec => SyncProofs!Spec
  BY Refinement, SameSync, PTL DEF ImplementsLosantSync, Sync!Spec, SyncProofs!Spec

\* The statuses have an identifier for each node.
LEMMA StatusTypes == Spec => [](ls \in Sync!Object /\ todo \subseteq Nodes)
<1>1. SyncProofs!TypeOK => ls \in Sync!Object /\ todo \subseteq Nodes
  BY DEF SyncProofs!TypeOK, Sync!Object, SyncProofs!Object, Sync!Phases, SyncProofs!Phases,
         Sync!ConditionTypes, SyncProofs!ConditionTypes, Sync!ConditionStatus,
         SyncProofs!ConditionStatus
<1> QED BY <1>1, SameSync, SyncInManager, SyncProofs!TypeCorrect, PTL

\* A sync of the manager that took its snapshot when HealthWatcher was at rest stores
\* DevicesProvisioned only when each node of the cluster had its device by then, under
\* the identifier that the status gives, whatever fails, restarts or changes on the way.
THEOREM ProvisionedHolds == Spec => ProvisionedIsTrue
<1>1. Init => ProvisioningHolds
  BY DEF Init, Sync!Init, ProvisioningHolds
<1>2. ProvisioningHolds /\ [Next]_vars
        => [lsPc = "commit" /\ lsPc' = "requeue" => \A n \in known : Provisioned(n)']_vars
  BY CommitProvisioned
<1>3. /\ ProvisioningHolds /\ [Next]_vars /\ ls \in Sync!Object /\ todo \subseteq Nodes
      /\ Watch!StoreIsCurrentAtRest
      => ProvisioningHolds'
  BY ProvisioningStep
<1> QED BY <1>1, <1>2, <1>3, StatusTypes, ManagerStoreIsCurrent, PTL DEF Spec, ProvisionedIsTrue

\* In the manager too, where HealthWatcher fills the store, no early return of
\* LosantSync's Reconcile loses a live object.
THEOREM ManagerLosesNoWakeup == Spec => []Sync!NoLostWakeup
<1>1. SyncProofs!NoLostWakeup => Sync!NoLostWakeup
  BY DEF Sync!NoLostWakeup, Sync!Waking, Sync!NoTimer,
         SyncProofs!NoLostWakeup, SyncProofs!Waking, SyncProofs!NoTimer
<1> QED BY <1>1, SameSync, SyncInManager, SyncProofs!NoWakeupLost, PTL
=============================================================================

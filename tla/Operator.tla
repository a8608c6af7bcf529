------------------------------ MODULE Operator ------------------------------
(***************************************************************************)
(* The manager with two of its controllers (cmd/main.go): HealthWatcher,   *)
(* which follows the cluster and fills the HealthStore, and LosantSync,    *)
(* which registers the nodes it finds there.  They share one process, so   *)
(* both start again when it dies, and nothing but the store: LosantSync    *)
(* waits for its own cache, not for HealthWatcher's, and may well sync     *)
(* before the store has been filled.                                       *)
(***************************************************************************)
EXTENDS Integers

CONSTANTS
  Nodes,
  Clusters, NoNode, Schedules, MaxWait, Fallback, WorkflowDeployments,
  Disturbances, MaxDisturbances,                                \* LosantSync's
  NodeStatuses, PodGroups, InitialWorlds, Counts, MaxChanges    \* HealthWatcher's

VARIABLES
  cr, lsCache, cur, wake, timer, lsPc, ls, todo, devices, nextDev, cred, geaDev,
  rollout, budget,                                              \* LosantSync's
  world, cache, synced, pending, queue, pc, key, seen, changes, \* HealthWatcher's
  health,   \* the HealthStore
  known     \* the nodes HealthWatcher was at rest with when the sync took its
            \* snapshot, {} if it was not at rest (a history variable)

syncVars == <<cr, lsCache, cur, wake, timer, lsPc, ls, todo, devices, nextDev, cred,
              geaDev, rollout, budget>>
watchVars == <<world, cache, synced, pending, queue, pc, key, seen, changes, health>>
vars == <<syncVars, watchVars, known>>

\* Of the store LosantSync sees the nodes.
Sync == INSTANCE LosantSync
          WITH cache <- lsCache, pc <- lsPc, store <- DOMAIN health.nodes,
               Snapshots <- SUBSET Nodes

Watch == INSTANCE HealthWatcher WITH store <- health

ASSUME OperatorAssumption == Sync!ConstantsAssumption /\ Watch!ConstantsAssumption

Init == Watch!Init /\ Sync!Init /\ known = {}

-----------------------------------------------------------------------------
(* Steps *)

\* Mutant: the nodes are taken from the cache of HealthWatcher instead.
HealthSnapshotOfCache ==
  /\ UNCHANGED <<watchVars, cr, lsCache, cur, wake, timer, ls, devices, nextDev, cred, geaDev,
                 rollout, budget>>
  /\ lsPc = "snapshot" /\ lsPc' = "nodes"
  /\ todo' = DOMAIN cache.nodes
  /\ known' = IF Watch!Quiet THEN DOMAIN world.nodes ELSE {}

\* healthSnapshot reads the store that HealthWatcher has filled.
HealthSnapshot ==
  /\ UNCHANGED watchVars
  /\ Sync!HealthSnapshot
  /\ known' = IF Watch!Quiet THEN DOMAIN world.nodes ELSE {}

ReconcileStep ==
  /\ lsPc # "snapshot"
  /\ UNCHANGED <<watchVars, known>>
  /\ Sync!ReconcileStep

Around ==
  /\ UNCHANGED <<watchVars, known>>
  /\ Sync!CacheSync \/ Sync!TimerFires \/ Sync!Tick \/ Sync!Rollout

WatchStep == Watch!WatchStep /\ UNCHANGED <<syncVars, known>>

ClusterChanges == Watch!ClusterChanges /\ UNCHANGED <<syncVars, known>>

ListFails == Watch!ListFails /\ UNCHANGED <<syncVars, known>>

\* The process dies, and with it both controllers and the store.
Restart == Watch!Restart /\ Sync!Crash /\ known' = {}

Next ==
  \/ HealthSnapshot \/ ReconcileStep \/ Around
  \/ WatchStep \/ ClusterChanges \/ ListFails \/ Restart

\* As in the two modules: workers, watches, timers and the clock keep running.
Fairness ==
  /\ WF_vars(HealthSnapshot \/ ReconcileStep)
  /\ WF_vars(UNCHANGED <<watchVars, known>> /\ Sync!CacheSync)
  /\ WF_vars(UNCHANGED <<watchVars, known>> /\ Sync!TimerFires)
  /\ WF_vars(UNCHANGED <<watchVars, known>> /\ Sync!Tick)
  /\ WF_vars(WatchStep)

Spec == Init /\ [][Next]_vars
FairSpec == Spec /\ Fairness

-----------------------------------------------------------------------------
(* Properties *)

\* With HealthWatcher in place of its store, the LosantSync controller does only
\* what the module LosantSync lets it do: all that is shown of that module, with
\* a store that may hold any nodes at any time, is true of the manager.
ImplementsLosantSync == Sync!Spec

Provisioned(n) == \E d \in devices : d.node = n /\ d.id = cr.nodes[n]

\* A sync that took its snapshot when HealthWatcher was at rest stores DevicesProvisioned
\* for all the nodes the cluster had then: each has a device in Losant, under the
\* identifier that the status gives.
ProvisionedIsTrue ==
  [][lsPc = "commit" /\ lsPc' = "requeue" => \A n \in known : Provisioned(n)']_vars

\* As long as syncs are made, every node of the cluster gets its device, also one
\* that joins later and whatever the store lacks after a start: the snapshot of some
\* later sync has it.
NodesGetDevices ==
  []<>(lsPc = "snapshot") => []<>(\A n \in DOMAIN world.nodes : Provisioned(n))
=============================================================================

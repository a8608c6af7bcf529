---------------------------- MODULE HealthWatcher ----------------------------
(***************************************************************************)
(* HealthWatcherReconciler (internal/controller/healthwatcher_controller.go)*)
(* and the HealthStore it keeps (internal/monitor/store.go).               *)
(*                                                                         *)
(* Five kinds of objects are watched.  Each has an informer of its own:    *)
(* its cache follows the API server at its own pace, and the handler that  *)
(* turns a change into requests runs some time after the cache has the     *)
(* change.  A reconcile lists the kinds one after the other, so what it    *)
(* puts together need not have been true at any one moment.                *)
(***************************************************************************)
EXTENDS HealthScore

CONSTANTS
  Nodes,          \* names of nodes
  NodeStatuses,   \* conditions a node may have
  PodGroups,      \* groups of pods that may exist
  InitialWorlds,  \* clusters the manager may start in
  Counts,         \* how many claims or warnings may count
  MaxChanges      \* changes of the cluster, failed lists and restarts, in all

Conditions == [ConditionTypes -> ConditionStatus]

\* The manager runs in the cluster, on one of its nodes.
NodeMaps == UNION {[S -> NodeStatuses] : S \in (SUBSET Nodes) \ {{}}}

\* Names and conditions of the nodes, groups of pods, claims that are not bound,
\* recent warnings, and whether CoreDNS is available.
World == [nodes: NodeMaps, pods: SUBSET PodGroups, pvcs: Counts, events: Counts,
          dns: BOOLEAN]

ASSUME ConstantsAssumption ==
  /\ IsFiniteSet(Nodes) /\ IsFiniteSet(PodGroups)
  /\ InitialWorlds \subseteq World
  /\ NodeStatuses \subseteq Conditions
  /\ \A g \in PodGroups :
       /\ g.count \in Nat /\ g.crashLooping \in BOOLEAN /\ g.ready \in BOOLEAN
       /\ g.phase \in {"Running", "Failed", "Pending", "Succeeded"}
  /\ Counts \subseteq Nat
  /\ MaxChanges \in Nat

VARIABLES
  world,    \* the objects in the API server
  cache,    \* the objects in the manager's caches
  synced,   \* the kinds whose cache has been filled since the start
  pending,  \* events whose handler has not run: a node's name, or another kind
  queue,    \* keys (names of nodes) in the work queue
  pc,       \* "idle", or the kind the reconcile lists next
  key,      \* the key the reconcile works for, in a set
  seen,     \* what the reconcile has listed
  store,    \* the HealthStore
  changes   \* changes so far

vars == <<world, cache, synced, pending, queue, pc, key, seen, store, changes>>

Kinds == {"nodes", "pods", "pvcs", "events", "dns"}

NoNodes == [n \in {} |-> {}]
Nothing == [nodes |-> NoNodes, pods |-> {}, pvcs |-> 0, events |-> 0, dns |-> FALSE]

\* NewHealthStore: the zero value, which no listing produces.
EmptyStore ==
  [nodes   |-> NoNodes,
   cluster |-> [Snapshot(Nothing).cluster EXCEPT !.score = 0, !.status = "unset"]]

\* A manager starts, with an empty cache and an empty store.
Init ==
  /\ world \in InitialWorlds
  /\ cache = Nothing /\ synced = {} /\ pending = {} /\ queue = {}
  /\ pc = "idle" /\ key = {} /\ seen = Nothing /\ store = EmptyStore
  /\ changes = 0

-----------------------------------------------------------------------------
(* The cluster, the caches and the manager *)

Change(w) ==
  /\ changes < MaxChanges
  /\ changes' = changes + 1
  /\ world' = w
  /\ UNCHANGED <<cache, synced, pending, queue, pc, key, seen, store>>

\* A node joins, leaves or has new conditions.
NodeChanges ==
  \E n \in Nodes, new \in NodeMaps :
    /\ new # world.nodes
    /\ \A m \in Nodes \ {n} :
         /\ m \in DOMAIN new <=> m \in DOMAIN world.nodes
         /\ m \in DOMAIN new => new[m] = world.nodes[m]
    /\ Change([world EXCEPT !.nodes = new])

PodsChange ==
  \E g \in PodGroups :
    Change([world EXCEPT !.pods = IF g \in @ THEN @ \ {g} ELSE @ \cup {g}])

ClaimsChange == \E c \in Counts \ {world.pvcs} : Change([world EXCEPT !.pvcs = c])

\* A warning is recorded, or the API server drops it once it is too old to count.
WarningsChange == \E c \in Counts \ {world.events} : Change([world EXCEPT !.events = c])

CoreDNSChanges == Change([world EXCEPT !.dns = ~@])

\* The manager stops, anywhere, and starts again: all it had was in memory.
Restart ==
  /\ changes < MaxChanges
  /\ changes' = changes + 1
  /\ cache' = Nothing /\ synced' = {} /\ pending' = {} /\ queue' = {}
  /\ pc' = "idle" /\ key' = {} /\ seen' = Nothing /\ store' = EmptyStore
  /\ world' = world

\* The nodes that changed, for the informer of nodes.
ChangedNodes(old, new) ==
  {n \in Nodes : \/ (n \in DOMAIN old) # (n \in DOMAIN new)
                 \/ n \in DOMAIN old \cap DOMAIN new /\ old[n] # new[n]}

\* A cache takes over the objects of its kind and hands their events on.
Informs(kind) ==
  /\ kind \notin synced \/ cache[kind] # world[kind]
  /\ cache' = [cache EXCEPT ![kind] = world[kind]]
  /\ synced' = synced \cup {kind}
  /\ pending' = pending \cup (IF kind = "nodes" THEN ChangedNodes(cache.nodes, world.nodes)
                              ELSE IF cache[kind] # world[kind] THEN {kind} ELSE {})
  /\ UNCHANGED <<world, queue, pc, key, seen, store, changes>>

-----------------------------------------------------------------------------
(* The watches *)

\* mutant: Deployments are not watched
AllNodesMapperNoDeployments(kind) ==
  IF kind = "dns" THEN {} ELSE DOMAIN cache.nodes

\* Every node in the cache, whatever the object was.
AllNodesMapper(kind) == DOMAIN cache.nodes

\* The handler of an event adds requests: the node itself, or what the mapper
\* returns.
Enqueue(e) ==
  /\ e \in pending
  /\ pending' = pending \ {e}
  /\ queue' = queue \cup (IF e \in Nodes THEN {e} ELSE AllNodesMapper(e))
  /\ UNCHANGED <<world, cache, synced, pc, key, seen, store, changes>>

-----------------------------------------------------------------------------
(* Reconcile *)

\* A worker takes a key; workers start once every cache is filled.
Take(n) ==
  /\ synced = Kinds /\ pc = "idle" /\ n \in queue
  /\ queue' = queue \ {n}
  /\ pc' = "nodes" /\ key' = {n}
  /\ UNCHANGED <<world, cache, synced, pending, seen, store, changes>>

\* List a kind from its cache and go on with another.
List(kind, next) ==
  /\ pc = kind
  /\ seen' = [seen EXCEPT ![kind] = cache[kind]]
  /\ pc' = next
  /\ UNCHANGED <<world, cache, synced, pending, queue, key, store, changes>>

ListNodes  == List("nodes", "pods")
ListPods   == List("pods", "pvcs")
ListPVCs   == List("pvcs", "events")
ListEvents == List("events", "dns")

\* mutant: the error is swallowed
ListFailsQuietly ==
  /\ changes < MaxChanges /\ pc \in Kinds \ {"dns"}
  /\ changes' = changes + 1
  /\ pc' = "idle" /\ key' = {} /\ seen' = Nothing
  /\ UNCHANGED <<world, cache, synced, pending, queue, store>>

\* A List returns an error: so does the reconcile, and the key is added again.
ListFails ==
  /\ changes < MaxChanges /\ pc \in Kinds \ {"dns"}
  /\ changes' = changes + 1
  /\ queue' = queue \cup key
  /\ pc' = "idle" /\ key' = {} /\ seen' = Nothing
  /\ UNCHANGED <<world, cache, synced, pending, store>>

\* Get the CoreDNS Deployment, compute the snapshot and put it in the store.
Update ==
  /\ pc = "dns"
  /\ store' = Snapshot([seen EXCEPT !.dns = cache.dns])
  /\ pc' = "idle" /\ key' = {} /\ seen' = Nothing
  /\ UNCHANGED <<world, cache, synced, pending, queue, changes>>

WatchStep ==
  \/ \E kind \in Kinds : Informs(kind)
  \/ \E e \in Nodes \cup Kinds : Enqueue(e)
  \/ \E n \in Nodes : Take(n)
  \/ ListNodes \/ ListPods \/ ListPVCs \/ ListEvents \/ Update

ClusterChanges ==
  NodeChanges \/ PodsChange \/ ClaimsChange \/ WarningsChange \/ CoreDNSChanges

Next == WatchStep \/ ClusterChanges \/ ListFails \/ Restart

Spec == Init /\ [][Next]_vars

-----------------------------------------------------------------------------
(* Properties *)

Scored(score, status) == score \in 0..100 /\ status \in {"healthy", "degraded", "critical"}

\* Types; every score that reaches the store is between 0 and 100, whatever was
\* deducted, and has a status (health_score.go clamp, HealthStatusFromScore).
TypeOK ==
  /\ world \in World
  /\ cache.nodes \in NodeMaps \cup {NoNodes} /\ cache.pods \subseteq PodGroups
  /\ synced \subseteq Kinds
  /\ pending \subseteq Nodes \cup Kinds
  /\ queue \subseteq Nodes /\ key \subseteq Nodes
  /\ pc \in Kinds \cup {"idle"}
  /\ store = EmptyStore \/ Scored(store.cluster.score, store.cluster.status)
  /\ \A n \in DOMAIN store.nodes : Scored(store.nodes[n].score, store.nodes[n].status)
  /\ changes \in 0..MaxChanges

\* Once the caches have what the API server has, every handler has run and no key
\* waits or is at work, the store holds the health of the cluster as it is: no
\* change is lost between the lists of a reconcile, in a mapper that reads the
\* nodes before or after they change, or by a list that fails
\* (SetupWithManager: ``so the HealthStore always reflects current state'').
Quiet == cache = world /\ synced = Kinds /\ pending = {} /\ queue = {} /\ pc = "idle"
StoreIsCurrentAtRest == Quiet => store = Snapshot(world)

\* The same world with one thing worse: a node loses Ready or gains a pressure,
\* a group of pods that fails or crash-loops appears, a claim or a warning more,
\* or CoreDNS gone.
Worse(w) ==
       {[w EXCEPT !.nodes[n]["Ready"] = "Unknown"] : n \in DOMAIN w.nodes}
  \cup {[w EXCEPT !.nodes[n][t] = "True"] :
          n \in DOMAIN w.nodes, t \in ConditionTypes \ {"Ready"}}
  \cup {[w EXCEPT !.pods = @ \cup {g}] : g \in PodGroups}
  \cup {[w EXCEPT !.pvcs = @ + 1], [w EXCEPT !.events = @ + 1], [w EXCEPT !.dns = FALSE]}

\* No cluster that is worse off than the present one scores higher than what the
\* store says of it at rest, for all the averaging by integer division, the caps
\* and the clamp (ComputeClusterHealthScore).
WorseNeverScoresHigher ==
  Quiet => \A w \in Worse(world) : ClusterScore(w) <= store.cluster.score

\* A node alone in a cluster with nothing else wrong would give the cluster the
\* score that the store has for the node: the two deduction tables of
\* health_score.go, and the recomputation in Reconcile, say the same.
NodeAndClusterScoresAgree ==
  Quiet => \A n \in DOMAIN world.nodes :
             LET alone == [m \in {n} |-> world.nodes[n]]
             IN  ClusterScore([Nothing EXCEPT !.nodes = alone, !.dns = TRUE])
                   = store.nodes[n].score

-----------------------------------------------------------------------------
(* What makes StoreIsCurrentAtRest inductive *)

\* What caches and reconciles hold: a cluster, or parts of one that was not listed.
Listing ==
  [nodes: NodeMaps \cup {NoNodes}, pods: SUBSET PodGroups, pvcs: Counts \cup {0},
   events: Counts \cup {0}, dns: BOOLEAN]

\* The cluster, the caches and what a reconcile has listed have the kinds' shapes.
ListingsHold ==
  /\ world \in World /\ cache \in Listing /\ seen \in Listing
  /\ synced \subseteq Kinds /\ pending \subseteq Nodes \cup Kinds
  /\ queue \subseteq Nodes /\ key \subseteq Nodes /\ pc \in Kinds \cup {"idle"}

\* The cache has nodes once it is filled, so that the mapper returns requests; a
\* reconcile has a key that an error adds again.
StartHolds ==
  /\ "nodes" \in synced <=> DOMAIN cache.nodes # {}
  /\ pc # "idle" => key # {} /\ synced = Kinds

\* What a reconcile has listed so far is still what the caches have.
SeenIsCurrent ==
  /\ pc \in {"pods", "pvcs", "events", "dns"} => seen.nodes = cache.nodes
  /\ pc \in {"pvcs", "events", "dns"} => seen.pods = cache.pods
  /\ pc \in {"events", "dns"} => seen.pvcs = cache.pvcs
  /\ pc = "dns" => seen.events = cache.events

\* Once the node cache is filled: an event or a key is waiting, or a reconcile is
\* about to bring the store up to the caches, or it is.
UpdateIsComing ==
  "nodes" \in synced =>
    \/ pending # {} \/ queue # {}
    \/ pc # "idle" /\ SeenIsCurrent
    \/ pc = "idle" /\ store = Snapshot(cache)

\* However the watch events of the five kinds, the mapper and a reconcile's five lists
\* interleave, with failed lists and restarts, an update that the store still lacks is
\* always on its way: inductive, and at rest StoreIsCurrentAtRest.
WatcherInvariant == ListingsHold /\ StartHolds /\ UpdateIsComing
=============================================================================

------------------------- MODULE HealthWatcherProofs -------------------------
(* Theorems about HealthWatcher, for every value of its constants. *)
EXTENDS HealthWatcher, HealthScoreProofs

-----------------------------------------------------------------------------
(* Listings *)

\* A map of nodes is a function on some of the nodes, and on at least one.
LEMMA NodeMapsDomain ==
  ASSUME NEW f \in NodeMaps
  PROVE  DOMAIN f \subseteq Nodes /\ DOMAIN f # {} /\ f = [n \in DOMAIN f |-> f[n]]
<1>1. PICK S \in (SUBSET Nodes) \ {{}} : f \in [S -> NodeStatuses]
  BY DEF NodeMaps
<1> QED BY <1>1

LEMMA NoNodesDomain == DOMAIN NoNodes = {} /\ NoNodes = [n \in DOMAIN NoNodes |-> NoNodes[n]]
  BY DEF NoNodes

\* The informer of nodes has an event whenever its cache changes.
LEMMA NodeEvents ==
  ASSUME NEW old \in NodeMaps \cup {NoNodes}, NEW new \in NodeMaps, old # new
  PROVE  ChangedNodes(old, new) # {}
<1>1. /\ DOMAIN old \subseteq Nodes /\ old = [n \in DOMAIN old |-> old[n]]
      /\ DOMAIN new \subseteq Nodes /\ new = [n \in DOMAIN new |-> new[n]]
  BY NodeMapsDomain, NoNodesDomain
<1>2. PICK n \in Nodes : \/ (n \in DOMAIN old) # (n \in DOMAIN new)
                         \/ n \in DOMAIN old \cap DOMAIN new /\ old[n] # new[n]
  BY <1>1
<1> QED BY <1>2 DEF ChangedNodes

\* A cluster is a listing with at least one node.
LEMMA WorldListing ==
  ASSUME NEW w \in World
  PROVE  w \in Listing /\ w.nodes \in NodeMaps
  BY DEF World, Listing

LEMMA NothingListing == Nothing \in Listing /\ DOMAIN Nothing.nodes = {}
  BY NoNodesDomain DEF Nothing, Listing

\* A cache that takes over a kind of a cluster, and a reconcile that takes it over
\* from the cache, have a listing that differs in this kind only.
LEMMA ListingUpdate ==
  ASSUME NEW o \in Listing, NEW p \in Listing, NEW kind \in Kinds
  PROVE  /\ [o EXCEPT ![kind] = p[kind]] \in Listing
         /\ \A k \in Kinds : [o EXCEPT ![kind] = p[kind]][k] = IF k = kind THEN p[k] ELSE o[k]
<1>1. CASE kind = "nodes"
  BY <1>1 DEF Listing, Kinds
<1>2. CASE kind = "pods"
  BY <1>2 DEF Listing, Kinds
<1>3. CASE kind = "pvcs"
  BY <1>3 DEF Listing, Kinds
<1>4. CASE kind = "events"
  BY <1>4 DEF Listing, Kinds
<1>5. CASE kind = "dns"
  BY <1>5 DEF Listing, Kinds
<1> QED BY <1>1, <1>2, <1>3, <1>4, <1>5 DEF Kinds

\* The fields of a listing are its values at the kinds.
LEMMA ListingFields ==
  ASSUME NEW o \in Listing
  PROVE  /\ o["nodes"] = o.nodes /\ o["pods"] = o.pods /\ o["pvcs"] = o.pvcs
         /\ o["events"] = o.events /\ o["dns"] = o.dns
  BY DEF Listing

\* Listings that agree on every kind are the same.
LEMMA ListingEquality ==
  ASSUME NEW o \in Listing, NEW p \in Listing, o.nodes = p.nodes, o.pods = p.pods,
         o.pvcs = p.pvcs, o.events = p.events, o.dns = p.dns
  PROVE  o = p
  BY DEF Listing

-----------------------------------------------------------------------------
(* The invariant *)

LEMMA WatcherInit == Init => WatcherInvariant
<1> SUFFICES ASSUME Init PROVE WatcherInvariant
  OBVIOUS
<1>1. ListingsHold
  BY NothingListing, ConstantsAssumption DEF Init, ListingsHold
<1>2. StartHolds /\ UpdateIsComing
  BY NothingListing DEF Init, StartHolds, UpdateIsComing
<1> QED BY <1>1, <1>2 DEF WatcherInvariant

\* A change of the cluster leaves a cluster, and the manager as it was.
LEMMA ChangeEffect ==
  ASSUME ListingsHold, ClusterChanges
  PROVE  /\ world' \in World
         /\ UNCHANGED <<cache, synced, pending, queue, pc, key, seen, store>>
<1> USE DEF ListingsHold, Change
<1>1. CASE NodeChanges
  BY <1>1 DEF NodeChanges, World
<1>2. CASE PodsChange
  BY <1>2 DEF PodsChange, World
<1>3. CASE ClaimsChange
  BY <1>3 DEF ClaimsChange, World
<1>4. CASE WarningsChange
  BY <1>4 DEF WarningsChange, World
<1>5. CASE CoreDNSChanges
  BY <1>5 DEF CoreDNSChanges, World
<1> QED BY <1>1, <1>2, <1>3, <1>4, <1>5 DEF ClusterChanges

\* What an informer does to its cache.
LEMMA InformsEffect ==
  ASSUME ListingsHold, NEW kind \in Kinds, Informs(kind)
  PROVE  /\ cache' \in Listing
         /\ \A k \in Kinds \ {kind} : cache'[k] = cache[k]
         /\ cache'[kind] = world[kind]
         /\ cache' # cache => pending' # {}
         /\ pending \subseteq pending' /\ pending' \subseteq Nodes \cup Kinds
<1>1. world \in Listing /\ world.nodes \in NodeMaps /\ cache \in Listing
  BY WorldListing DEF ListingsHold
<1>2. cache' = [cache EXCEPT ![kind] = world[kind]]
  BY DEF Informs
<1>3. /\ cache' \in Listing
      /\ \A k \in Kinds \ {kind} : cache'[k] = cache[k]
      /\ cache'[kind] = world[kind]
  <2> DEFINE new == [cache EXCEPT ![kind] = world[kind]]
  <2>1. new \in Listing /\ \A k \in Kinds : new[k] = IF k = kind THEN world[k] ELSE cache[k]
    BY <1>1, ListingUpdate
  <2> HIDE DEF new
  <2>2. cache' = new
    BY <1>2 DEF new
  <2> QED BY <2>1, <2>2
<1>4. pending \subseteq pending' /\ pending' \subseteq Nodes \cup Kinds
  <2>1. ChangedNodes(cache.nodes, world.nodes) \subseteq Nodes
    BY DEF ChangedNodes
  <2> QED BY <2>1 DEF Informs, ListingsHold
<1>5. ASSUME cache' # cache PROVE pending' # {}
  <2>1. cache[kind] # world[kind]
    <3> SUFFICES ASSUME cache[kind] = world[kind] PROVE FALSE
      OBVIOUS
    <3>1. \A k \in Kinds : cache'[k] = cache[k]
      BY <1>3
    <3>2. cache' = cache
      BY <1>1, <1>3, <3>1, ListingFields, ListingEquality DEF Kinds
    <3> QED BY <1>5, <3>2
  <2>2. CASE kind = "nodes"
    <3>1. cache.nodes # world.nodes /\ cache.nodes \in NodeMaps \cup {NoNodes}
      BY <1>1, <2>1, <2>2, ListingFields DEF Listing
    <3>2. ChangedNodes(cache.nodes, world.nodes) # {}
      BY <1>1, <3>1, NodeEvents
    <3> QED BY <2>2, <3>2 DEF Informs
  <2>3. CASE kind # "nodes"
    BY <2>1, <2>3 DEF Informs
  <2> QED BY <2>2, <2>3
<1> QED BY <1>3, <1>4, <1>5

LEMMA ListingsStep ==
  ASSUME ListingsHold, [Next]_vars
  PROVE  ListingsHold'
<1>1. CASE ClusterChanges
  BY <1>1, ChangeEffect DEF ListingsHold
<1>2. ASSUME NEW kind \in Kinds, Informs(kind) PROVE ListingsHold'
  <2>1. cache' \in Listing /\ pending' \subseteq Nodes \cup Kinds
    BY <1>2, InformsEffect
  <2> QED BY <1>2, <2>1 DEF Informs, ListingsHold
<1>3. ASSUME NEW e \in Nodes \cup Kinds, Enqueue(e) PROVE ListingsHold'
  <2>1. DOMAIN cache.nodes \subseteq Nodes
    BY NodeMapsDomain, NoNodesDomain DEF ListingsHold, Listing
  <2> QED BY <1>3, <2>1 DEF Enqueue, AllNodesMapper, ListingsHold
<1>4. ASSUME NEW n \in Nodes, Take(n) PROVE ListingsHold'
  BY <1>4 DEF Take, ListingsHold, Kinds
<1>5. ASSUME NEW kind \in Kinds, NEW next \in Kinds, List(kind, next) PROVE ListingsHold'
  <2>1. seen' \in Listing
    BY <1>5, ListingUpdate DEF List, ListingsHold
  <2> QED BY <1>5, <2>1 DEF List, ListingsHold
<1>6. CASE Update \/ ListFails \/ Restart
  BY <1>6, NothingListing DEF Update, ListFails, Restart, ListingsHold
<1>7. CASE UNCHANGED vars
  BY <1>7 DEF vars, ListingsHold
<1>8. ListNodes \/ ListPods \/ ListPVCs \/ ListEvents => ListingsHold'
  BY <1>5 DEF ListNodes, ListPods, ListPVCs, ListEvents, Kinds
<1> QED BY <1>1, <1>2, <1>3, <1>4, <1>6, <1>7, <1>8 DEF Next, WatchStep

LEMMA StartStep ==
  ASSUME ListingsHold, StartHolds, [Next]_vars
  PROVE  StartHolds'
<1>1. CASE ClusterChanges
  BY <1>1, ChangeEffect DEF StartHolds
<1>2. ASSUME NEW kind \in Kinds, Informs(kind) PROVE StartHolds'
  <2>1. world.nodes \in NodeMaps /\ world \in Listing /\ cache \in Listing /\ cache' \in Listing
    BY <1>2, WorldListing, InformsEffect DEF ListingsHold
  <2>2. DOMAIN world.nodes # {}
    BY <2>1, NodeMapsDomain
  <2>3. IF kind = "nodes" THEN cache'.nodes = world.nodes ELSE cache'.nodes = cache.nodes
    BY <1>2, <2>1, InformsEffect, ListingFields DEF Kinds
  <2> QED BY <1>2, <2>2, <2>3 DEF Informs, StartHolds, ListingsHold
<1>3. ASSUME NEW e \in Nodes \cup Kinds, Enqueue(e) PROVE StartHolds'
  BY <1>3 DEF Enqueue, StartHolds
<1>4. ASSUME NEW n \in Nodes, Take(n) PROVE StartHolds'
  BY <1>4 DEF Take, StartHolds
<1>5. CASE ListNodes \/ ListPods \/ ListPVCs \/ ListEvents
  BY <1>5 DEF ListNodes, ListPods, ListPVCs, ListEvents, List, StartHolds
<1>6. CASE Update \/ ListFails \/ Restart
  BY <1>6, NothingListing DEF Update, ListFails, Restart, StartHolds
<1>7. CASE UNCHANGED vars
  BY <1>7 DEF vars, StartHolds
<1> QED BY <1>1, <1>2, <1>3, <1>4, <1>5, <1>6, <1>7 DEF Next, WatchStep
\* A reconcile that has listed what the caches have puts their snapshot in the
\* store; any change of a cache leaves an event, and every event a key.
LEMMA UpdateStep ==
  ASSUME ListingsHold, StartHolds, UpdateIsComing, [Next]_vars
  PROVE  UpdateIsComing'
<1>1. ASSUME UNCHANGED <<cache, pending, queue, pc, seen, store>>,
             "nodes" \in synced' => "nodes" \in synced
      PROVE  UpdateIsComing'
  BY <1>1 DEF UpdateIsComing, SeenIsCurrent
<1>2. CASE ClusterChanges \/ UNCHANGED vars
  BY <1>1, <1>2, ChangeEffect DEF vars
<1>3. ASSUME NEW kind \in Kinds, Informs(kind) PROVE UpdateIsComing'
  <2>1. CASE cache' # cache
    BY <1>3, <2>1, InformsEffect DEF UpdateIsComing
  <2>2. CASE cache' = cache
    <3>1. CASE "nodes" \in synced
      <4>1. pending \subseteq pending' /\ UNCHANGED <<queue, pc, seen, store>>
        BY <1>3, InformsEffect DEF Informs
      <4> QED BY <2>2, <3>1, <4>1 DEF UpdateIsComing, SeenIsCurrent
    <3>2. CASE "nodes" \notin synced
      <4>1. "nodes" \notin synced'
        <5>1. StartHolds'
          BY StartStep
        <5> QED BY <2>2, <3>2, <5>1 DEF StartHolds
      <4> QED BY <4>1 DEF UpdateIsComing
    <3> QED BY <3>1, <3>2
  <2> QED BY <2>1, <2>2
<1>4. ASSUME NEW e \in Nodes \cup Kinds, Enqueue(e) PROVE UpdateIsComing'
  <2>1. "nodes" \in synced' => queue' # {}
    BY <1>4 DEF Enqueue, AllNodesMapper, StartHolds
  <2> QED BY <2>1 DEF UpdateIsComing
<1>5. ASSUME NEW n \in Nodes, Take(n) PROVE UpdateIsComing'
  <2>1. pc' = "nodes"
    BY <1>5 DEF Take
  <2> QED BY <2>1 DEF UpdateIsComing, SeenIsCurrent
<1>6. CASE ListNodes \/ ListPods \/ ListPVCs \/ ListEvents
  <2>1. /\ UNCHANGED <<cache, synced, pending, queue>> /\ pc # "idle" /\ pc' # "idle"
        /\ cache \in Listing /\ seen \in Listing
    BY <1>6 DEF ListNodes, ListPods, ListPVCs, ListEvents, List, ListingsHold
  <2>2. ASSUME SeenIsCurrent PROVE SeenIsCurrent'
    <3>1. CASE ListNodes
      BY <2>1, <3>1 DEF ListNodes, List, SeenIsCurrent, Listing
    <3>2. CASE ListPods
      BY <2>1, <2>2, <3>2 DEF ListPods, List, SeenIsCurrent, Listing
    <3>3. CASE ListPVCs
      BY <2>1, <2>2, <3>3 DEF ListPVCs, List, SeenIsCurrent, Listing
    <3>4. CASE ListEvents
      BY <2>1, <2>2, <3>4 DEF ListEvents, List, SeenIsCurrent, Listing
    <3> QED BY <1>6, <3>1, <3>2, <3>3, <3>4
  <2> QED BY <2>1, <2>2 DEF UpdateIsComing
<1>7. CASE Update
  <2>1. UNCHANGED <<cache, synced, pending, queue>> /\ pc = "dns" /\ pc' = "idle"
    BY <1>7 DEF Update
  <2>2. ASSUME SeenIsCurrent PROVE store' = Snapshot(cache)
    <3> DEFINE listed == [seen EXCEPT !.dns = cache.dns]
    <3>1. seen \in Listing /\ cache \in Listing
      BY DEF ListingsHold
    <3>2. listed \in Listing /\ listed.nodes = seen.nodes /\ listed.pods = seen.pods
          /\ listed.pvcs = seen.pvcs /\ listed.events = seen.events /\ listed.dns = cache.dns
      BY <3>1 DEF Listing
    <3>3. listed = cache
      BY <2>1, <2>2, <3>1, <3>2, ListingEquality DEF SeenIsCurrent
    <3>4. store' = Snapshot(listed)
      BY <1>7 DEF Update
    <3> QED BY <3>3, <3>4
  <2> QED BY <2>1, <2>2 DEF UpdateIsComing
<1>8. CASE ListFails
  BY <1>8 DEF ListFails, StartHolds, UpdateIsComing
<1>9. CASE Restart
  BY <1>9 DEF Restart, UpdateIsComing
<1> QED BY <1>2, <1>3, <1>4, <1>5, <1>6, <1>7, <1>8, <1>9 DEF Next, WatchStep

\* However watch events, handlers, lists, failures and restarts interleave, an update
\* that the store lacks is on its way: in the queue, in a handler that has not run,
\* or in a reconcile whose lists are still current.
THEOREM WatcherInvariantHolds == Spec => []WatcherInvariant
<1>1. WatcherInvariant /\ [Next]_vars => WatcherInvariant'
  BY ListingsStep, StartStep, UpdateStep DEF WatcherInvariant
<1> QED BY <1>1, WatcherInit, PTL DEF Spec

\* At rest the HealthStore has the health of the cluster as it is, whatever the
\* nodes, their conditions and the pods are, and however many changes, failed lists
\* and restarts there were.
THEOREM RestIsCurrent == Spec => []StoreIsCurrentAtRest
<1>1. WatcherInvariant => StoreIsCurrentAtRest
  <2> SUFFICES ASSUME WatcherInvariant, Quiet PROVE store = Snapshot(world)
    BY DEF StoreIsCurrentAtRest
  <2>1. "nodes" \in synced
    BY DEF Quiet, Kinds
  <2> QED BY <2>1 DEF Quiet, WatcherInvariant, UpdateIsComing
<1> QED BY <1>1, WatcherInvariantHolds, PTL

-----------------------------------------------------------------------------
(* The scores *)

\* A listing is one of a finite cluster.
LEMMA ListingFinite ==
  ASSUME NEW o \in Listing
  PROVE  FiniteListing(o)
<1>1. DOMAIN o.nodes \subseteq Nodes /\ o.pods \subseteq PodGroups
  BY NodeMapsDomain, NoNodesDomain DEF Listing
<1>2. IsFiniteSet(DOMAIN o.nodes) /\ IsFiniteSet(o.pods)
  BY <1>1, FS_Subset, ConstantsAssumption
<1>3. \A g \in o.pods : g.count \in Nat
  BY <1>1, ConstantsAssumption
<1>4. o.pvcs \in Nat /\ o.events \in Nat
  <2>1. Counts \cup {0} \subseteq Nat
    BY ConstantsAssumption
  <2>2. o.pvcs \in Counts \cup {0} /\ o.events \in Counts \cup {0}
    BY DEF Listing
  <2> QED BY <2>1, <2>2
<1> QED BY <1>2, <1>3, <1>4 DEF FiniteListing

\* What a reconcile puts in the store has scores in range, with their status.
LEMMA SnapshotScored ==
  ASSUME NEW o \in Listing
  PROVE  /\ Scored(Snapshot(o).cluster.score, Snapshot(o).cluster.status)
         /\ Snapshot(o).cluster.score = ClusterScore(o)
         /\ DOMAIN Snapshot(o).nodes = DOMAIN o.nodes
         /\ \A n \in DOMAIN o.nodes :
              /\ Scored(Snapshot(o).nodes[n].score, Snapshot(o).nodes[n].status)
              /\ Snapshot(o).nodes[n].score = ComputeNodeHealthScore(Flags(o.nodes[n]))
<1>1. ClusterScore(o) \in 0..100
  BY ListingFinite, ScoreIs
<1>2. /\ Snapshot(o).cluster.score = ClusterScore(o)
      /\ Snapshot(o).cluster.status = HealthStatusFromScore(ClusterScore(o))
  BY DEF Snapshot
<1>3. /\ DOMAIN Snapshot(o).nodes = DOMAIN o.nodes
      /\ \A n \in DOMAIN o.nodes : Snapshot(o).nodes[n] = NodeHealth(n, o.nodes[n], o.pods)
  BY DEF Snapshot
<1>4. ASSUME NEW n \in DOMAIN o.nodes
      PROVE  LET score == ComputeNodeHealthScore(Flags(o.nodes[n]))
             IN  /\ Snapshot(o).nodes[n].score = score
                 /\ Snapshot(o).nodes[n].status = HealthStatusFromScore(score)
                 /\ score \in 0..100
  BY <1>3, NodeHealthScore, NodeScoreRange
<1>5. \A score \in 0..100 : Scored(score, HealthStatusFromScore(score))
  BY StatusOfScore DEF Scored
<1> QED BY <1>1, <1>2, <1>3, <1>4, <1>5

\* The part of TypeOK about the store and the bound on changes.
StoreScored ==
  /\ store = EmptyStore \/ Scored(store.cluster.score, store.cluster.status)
  /\ \A n \in DOMAIN store.nodes : Scored(store.nodes[n].score, store.nodes[n].status)
  /\ changes \in 0..MaxChanges

LEMMA EmptyStoreNodes == DOMAIN EmptyStore.nodes = {}
  BY NoNodesDomain DEF EmptyStore

LEMMA StoreScoredStep ==
  ASSUME ListingsHold, StoreScored, [Next]_vars
  PROVE  StoreScored'
<1>1. changes' \in 0..MaxChanges
  <2> USE ConstantsAssumption DEF StoreScored
  <2>1. CASE WatchStep
    BY <2>1 DEF WatchStep, Informs, Enqueue, Take, ListNodes, ListPods, ListPVCs, ListEvents,
                List, Update
  <2>2. CASE ClusterChanges
    BY <2>2 DEF ClusterChanges, NodeChanges, PodsChange, ClaimsChange, WarningsChange,
                CoreDNSChanges, Change
  <2>3. CASE ListFails \/ Restart
    BY <2>3 DEF ListFails, Restart
  <2>4. CASE UNCHANGED vars
    BY <2>4 DEF vars
  <2> QED BY <2>1, <2>2, <2>3, <2>4 DEF Next
<1>2. CASE store' = store
  BY <1>1, <1>2 DEF StoreScored
<1>3. CASE Update
  <2> DEFINE listed == [seen EXCEPT !.dns = cache.dns]
  <2>1. listed \in Listing
    BY DEF ListingsHold, Listing
  <2>2. store' = Snapshot(listed)
    BY <1>3 DEF Update
  <2> HIDE DEF listed
  <2> QED BY <1>1, <2>1, <2>2, SnapshotScored DEF StoreScored
<1>4. CASE Restart
  BY <1>1, <1>4, EmptyStoreNodes DEF Restart, StoreScored
<1>5. store' = store \/ Update \/ Restart
  <2>1. ClusterChanges => store' = store
    BY ChangeEffect
  <2> QED BY <2>1 DEF Next, WatchStep, Informs, Enqueue, Take, ListNodes, ListPods, ListPVCs,
                      ListEvents, List, ListFails, vars
<1> QED BY <1>2, <1>3, <1>4, <1>5

\* Every score that reaches the HealthStore is between 0 and 100 and has a status,
\* whatever is listed, and everything else has its type.
THEOREM ScoresInRange == Spec => []TypeOK
<1>1. Init => StoreScored
  BY EmptyStoreNodes, ConstantsAssumption DEF Init, StoreScored
<1>2. WatcherInvariant /\ StoreScored /\ [Next]_vars => StoreScored'
  BY StoreScoredStep DEF WatcherInvariant
<1>3. WatcherInvariant /\ StoreScored => TypeOK
  BY DEF WatcherInvariant, ListingsHold, StoreScored, TypeOK, Listing
<1> QED BY <1>1, <1>2, <1>3, WatcherInvariantHolds, PTL DEF Spec

\* Each of the ways a cluster gets worse lowers its score or leaves it.
LEMMA WorseScores ==
  ASSUME NEW o \in World, NEW w \in Worse(o)
  PROVE  ClusterScore(w) <= ClusterScore(o)
<1>0. o \in Listing /\ o.nodes \in NodeMaps /\ FiniteListing(o)
  BY WorldListing, ListingFinite
<1>1. \A n \in DOMAIN o.nodes : o.nodes[n] \in Conditions
  BY <1>0, ConstantsAssumption DEF NodeMaps
<1>2. ASSUME NEW n \in DOMAIN o.nodes, NEW t \in ConditionTypes, NEW v \in ConditionStatus,
             t = "Ready" => v # "True", t # "Ready" => v = "True",
             w = [o EXCEPT !.nodes[n][t] = v]
      PROVE  ClusterScore(w) <= ClusterScore(o)
  <2>1. /\ w.pods = o.pods /\ w.pvcs = o.pvcs /\ w.events = o.events /\ w.dns = o.dns
        /\ w.nodes = [o.nodes EXCEPT ![n] = [o.nodes[n] EXCEPT ![t] = v]]
    BY <1>0, <1>2 DEF Listing
  <2>2. /\ DOMAIN w.nodes = DOMAIN o.nodes
        /\ \A m \in DOMAIN o.nodes : \A u \in ConditionTypes :
             w.nodes[m][u] = IF m = n /\ u = t THEN v ELSE o.nodes[m][u]
    BY <1>1, <2>1 DEF Conditions
  <2>3. FiniteListing(w)
    BY <1>0, <2>1, <2>2 DEF FiniteListing
  <2>4. \A m \in DOMAIN o.nodes :
          /\ "Ready" \in Flags(w.nodes[m]) => "Ready" \in Flags(o.nodes[m])
          /\ \A u \in Flags(o.nodes[m]) \ {"Ready"} : u \in Flags(w.nodes[m])
    BY <1>2, <2>2 DEF Flags
  <2>5. o.pvcs <= w.pvcs /\ o.events <= w.events
    BY <1>0, <2>1 DEF FiniteListing
  <2> QED BY <1>0, <2>1, <2>2, <2>3, <2>4, <2>5, ClusterScoreMonotonic
<1>3. ASSUME w.nodes = o.nodes, o.pods \subseteq w.pods, FiniteListing(w), o.pvcs <= w.pvcs,
             o.events <= w.events, w.dns => o.dns
      PROVE  ClusterScore(w) <= ClusterScore(o)
  BY <1>0, <1>3, ClusterScoreMonotonic
<1>4. ASSUME NEW g \in PodGroups, w = [o EXCEPT !.pods = @ \cup {g}]
      PROVE  ClusterScore(w) <= ClusterScore(o)
  <2>1. w \in Listing /\ w.nodes = o.nodes /\ o.pods \subseteq w.pods /\ w.pvcs = o.pvcs
        /\ w.events = o.events /\ w.dns = o.dns
    BY <1>0, <1>4 DEF Listing
  <2>2. o.pvcs <= w.pvcs /\ o.events <= w.events
    BY <1>0, <2>1 DEF FiniteListing
  <2> QED BY <1>3, <2>1, <2>2, ListingFinite
<1>5. CASE w \in {[o EXCEPT !.pvcs = @ + 1], [o EXCEPT !.events = @ + 1], [o EXCEPT !.dns = FALSE]}
  <2>1. /\ w.nodes = o.nodes /\ w.pods = o.pods
        /\ w.pvcs \in {o.pvcs, o.pvcs + 1} /\ w.events \in {o.events, o.events + 1}
        /\ w.dns \in {o.dns, FALSE}
    BY <1>0, <1>5 DEF Listing
  <2>2. FiniteListing(w) /\ o.pvcs <= w.pvcs /\ o.events <= w.events
    BY <1>0, <2>1 DEF FiniteListing
  <2> QED BY <1>3, <2>1, <2>2
<1>6. CASE \E n \in DOMAIN o.nodes : w = [o EXCEPT !.nodes[n]["Ready"] = "Unknown"]
  BY <1>2, <1>6 DEF ConditionTypes, ConditionStatus
<1>7. CASE \E n \in DOMAIN o.nodes, t \in ConditionTypes \ {"Ready"} :
             w = [o EXCEPT !.nodes[n][t] = "True"]
  BY <1>2, <1>7 DEF ConditionTypes, ConditionStatus
<1>8. \/ \E n \in DOMAIN o.nodes : w = [o EXCEPT !.nodes[n]["Ready"] = "Unknown"]
      \/ \E n \in DOMAIN o.nodes, t \in ConditionTypes \ {"Ready"} :
             w = [o EXCEPT !.nodes[n][t] = "True"]
      \/ \E g \in PodGroups : w = [o EXCEPT !.pods = @ \cup {g}]
      \/ w \in {[o EXCEPT !.pvcs = @ + 1], [o EXCEPT !.events = @ + 1], [o EXCEPT !.dns = FALSE]}
  BY DEF Worse
<1> QED BY <1>4, <1>5, <1>6, <1>7, <1>8

\* At rest no cluster worse than the present one would score higher than what the
\* store says, for any number of nodes that ComputeClusterHealthScore averages over
\* and of pods that it counts.
THEOREM WorseScoresNoHigher == Spec => []WorseNeverScoresHigher
<1>1. WatcherInvariant /\ StoreIsCurrentAtRest => WorseNeverScoresHigher
  <2> SUFFICES ASSUME WatcherInvariant, StoreIsCurrentAtRest, Quiet, NEW w \in Worse(world)
               PROVE  ClusterScore(w) <= store.cluster.score
    BY DEF WorseNeverScoresHigher
  <2>1. world \in World /\ world \in Listing
    BY WorldListing DEF WatcherInvariant, ListingsHold
  <2>2. store.cluster.score = ClusterScore(world)
    BY <2>1, SnapshotScored DEF StoreIsCurrentAtRest
  <2> QED BY <2>1, <2>2, WorseScores
<1> QED BY <1>1, WatcherInvariantHolds, RestIsCurrent, PTL

LEMMA NothingElse ==
  ASSUME NEW a
  PROVE  LET o == [Nothing EXCEPT !.nodes = a, !.dns = TRUE]
         IN  o.nodes = a /\ o.pods = {} /\ o.pvcs = 0 /\ o.events = 0 /\ o.dns
<1>1. [Nothing EXCEPT !.nodes = a, !.dns = TRUE].dns
  BY DEF Nothing
<1> QED BY <1>1 DEF Nothing

\* At rest the store's score of a node is the score of a cluster of this node alone:
\* the table of ComputeNodeHealthScore and the one of ComputeClusterHealthScore agree.
THEOREM ScoresAgree == Spec => []NodeAndClusterScoresAgree
<1>1. WatcherInvariant /\ StoreIsCurrentAtRest => NodeAndClusterScoresAgree
  <2> SUFFICES ASSUME WatcherInvariant, StoreIsCurrentAtRest, Quiet, NEW n \in DOMAIN world.nodes
               PROVE  ClusterScore([Nothing EXCEPT !.nodes = [m \in {n} |-> world.nodes[n]], !.dns = TRUE])
                        = store.nodes[n].score
    BY DEF NodeAndClusterScoresAgree
  <2>1. world \in Listing
    BY WorldListing DEF WatcherInvariant, ListingsHold
  <2>2. store.nodes[n].score = ComputeNodeHealthScore(Flags(world.nodes[n]))
    BY <2>1, SnapshotScored DEF StoreIsCurrentAtRest
  <2> DEFINE alone == [m \in {n} |-> world.nodes[n]]
             o == [Nothing EXCEPT !.nodes = alone, !.dns = TRUE]
  <2>3. o.nodes = alone /\ o.pods = {} /\ o.pvcs = 0 /\ o.events = 0 /\ o.dns
    BY NothingElse
  <2>4. ClusterScore(o) = ComputeNodeHealthScore(Flags(world.nodes[n]))
    <3>1. DOMAIN o.nodes = {n} /\ o.nodes[n] = world.nodes[n]
      BY <2>3
    <3> HIDE DEF o, alone
    <3> QED BY <2>3, <3>1, LoneNodeScore
  <2> QED BY <2>2, <2>4
<1> QED BY <1>1, WatcherInvariantHolds, RestIsCurrent, PTL
=============================================================================

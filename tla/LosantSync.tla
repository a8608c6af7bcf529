----------------------------- MODULE LosantSync -----------------------------
(***************************************************************************)
(* The LosantSync reconciler (internal/controller/losantsync_controller.go) *)
(* with everything it touches: the custom resource in the API server and   *)
(* its cached copy, the controller-runtime work queue, the devices in the  *)
(* Losant application, the credential Secret and the GEA pod.              *)
(*                                                                         *)
(* One step of the model is one call that another actor can observe or     *)
(* make fail.  Time is counted down: `next' is how many seconds remain     *)
(* until status.nextScheduledTime (0: it is due), `timer' how many until   *)
(* the delayed re-add of the key in the work queue.                        *)
(***************************************************************************)
EXTENDS Integers

CONSTANTS
  Clusters,             \* values of spec.clusterName
  Nodes,                \* names of the cluster's nodes
  NoNode,               \* stands for "no node" in the name of a cluster device
  Snapshots,            \* sets of nodes that HealthWatcher may publish
  Schedules,            \* kinds of schedule a spec may carry
  MaxWait,              \* seconds of an interval; a cron tick is at most as far
  Fallback,             \* requeueOnDegradedFallback, in seconds
  WorkflowDeployments,  \* whether the spec lists workflow deployments
  Disturbances,         \* what may go wrong or be done by people
  MaxDisturbances       \* how many times, in all

ScheduleKinds == {"interval", "cron", "zero", "invalid"}

DisturbanceKinds ==
  {"fault", "crash", "suspend", "rename", "reschedule", "delete", "recreate",
   "cloudDelete"}

ASSUME ConstantsAssumption ==
  /\ Clusters # {}
  /\ NoNode \notin Nodes
  /\ Snapshots \subseteq SUBSET Nodes
  /\ Schedules # {} /\ Schedules \subseteq ScheduleKinds
  /\ MaxWait \in Nat \ {0}
  /\ Fallback \in Nat \ {0}
  /\ WorkflowDeployments \in BOOLEAN
  /\ Disturbances \subseteq DisturbanceKinds
  /\ MaxDisturbances \in Nat

VARIABLES
  cr,        \* the LosantSync object in the API server
  cache,     \* the copy the manager's cache holds
  cur,       \* which copies ("cache", "worker") have the current version
  wake,      \* "event": one that passes GenerationChangedPredicate is on its
             \* way; "queue": the key is queued (dirty, while it is processed)
  timer,     \* seconds to the delayed add of the key, or NoTimer
  pc,        \* where the reconcile is
  ls,        \* the copy of the object the reconcile works on
  todo,      \* nodes the current loop has still to visit
  devices,   \* the devices of the Losant application
  nextDev,   \* the identifier the next device created will get
  cred,      \* the Secret losant-gea-credentials
  geaDev,    \* the DEVICE_ID the running GEA pod was started with
  rollout,   \* of the GEA Deployment: "done" or "pending"
  store,     \* the nodes in the HealthStore snapshot
  budget     \* disturbances left

apiVars    == <<cr, cache, cur>>
queueVars  == <<wake, timer>>
workerVars == <<pc, ls, todo>>
cloudVars  == <<devices, nextDev>>
geaVars    == <<cred, geaDev, rollout>>
vars == <<apiVars, queueVars, workerVars, cloudVars, geaVars, store, budget>>

-----------------------------------------------------------------------------
(* The custom resource *)

Phases == {"", "Provisioning", "Active", "Degraded", "Suspended"}
ConditionTypes == {"GEABootstrapped", "DevicesProvisioned", "WorkflowDeployed",
                   "GEAReachable", "LastSyncSucceeded"}
ConditionStatus == {"Unknown", "True", "False"}
NoDev == 0
NoTimer == -1

\* Metadata, spec and status of a LosantSync, as far as the reconciler uses them.
Object == [there: BOOLEAN, deleting: BOOLEAN, fin: BOOLEAN,
           suspend: BOOLEAN, cluster: Clusters, sched: Schedules,
           phase: Phases, next: Nat, dev: Nat, nodes: [Nodes -> Nat],
           cond: [ConditionTypes -> ConditionStatus]]

NewObject(c, s) ==
  [there |-> TRUE, deleting |-> FALSE, fin |-> FALSE,
   suspend |-> FALSE, cluster |-> c, sched |-> s,
   phase |-> "", next |-> 0, dev |-> NoDev, nodes |-> [n \in Nodes |-> NoDev],
   cond |-> [t \in ConditionTypes |-> "Unknown"]]

NoObject == [NewObject(CHOOSE c \in Clusters : TRUE, CHOOSE s \in Schedules : TRUE)
               EXCEPT !.there = FALSE]

Device == [id: Nat, cluster: Clusters, node: Nodes \cup {NoNode}, gateway: Nat]

\* The devices that carry the name the operator gives to (cluster, node).
Named(c, n) == {d \in devices : d.cluster = c /\ d.node = n}

Init ==
  /\ \E c \in Clusters, s \in Schedules : cr = NewObject(c, s)
  /\ cache = NoObject
  /\ cur = {}
  /\ wake = {"event"}
  /\ timer = NoTimer
  /\ pc = "idle"
  /\ ls = NoObject
  /\ todo = {}
  /\ devices = {}
  /\ nextDev = 1
  /\ cred = [there |-> FALSE, dev |-> NoDev]
  /\ geaDev = NoDev
  /\ rollout = "done"
  /\ store = {}
  /\ budget = MaxDisturbances

Disturb(k) == k \in Disturbances /\ budget > 0 /\ budget' = budget - 1
Calm == UNCHANGED budget

-----------------------------------------------------------------------------
(* The work queue (controller-runtime) *)

\* AddAfter keeps the earlier of two delayed adds; RequeueAfter <= 0 adds nothing.
AddAfter(d) ==
  IF d <= 0 THEN timer ELSE IF timer = NoTimer \/ d < timer THEN d ELSE timer

\* The reconcile is over: its object is dropped.
Done == pc' = "idle" /\ ls' = NoObject /\ todo' = {}

\* Reconcile returns Result{RequeueAfter: d}; d = 0 is the empty Result.
Return(d) == Done /\ timer' = AddAfter(d) /\ UNCHANGED wake

\* Reconcile returns an error, or Result{Requeue: true}: the key is added again.
Requeue == Done /\ wake' = wake \cup {"queue"} /\ UNCHANGED timer

\* The watch delivers the current object to the cache.  Only changes of the
\* generation, creations and removals reach the queue.
CacheSync ==
  /\ "cache" \notin cur
  /\ cache' = cr
  /\ cur' = cur \cup {"cache"}
  /\ wake' = IF "event" \in wake THEN {"queue"} ELSE wake
  /\ UNCHANGED <<cr, timer, workerVars, cloudVars, geaVars, store, budget>>

TimerFires ==
  /\ timer = 0
  /\ timer' = NoTimer
  /\ wake' = wake \cup {"queue"}
  /\ UNCHANGED <<apiVars, workerVars, cloudVars, geaVars, store, budget>>

\* One second goes by.
Countdown(n) == IF n > 0 THEN n - 1 ELSE n
Aged(o) == [o EXCEPT !.next = Countdown(@)]

Tick ==
  /\ cr' = Aged(cr)
  /\ cache' = Aged(cache)
  /\ ls' = Aged(ls)
  /\ timer' = Countdown(timer)
  /\ UNCHANGED <<cur, wake, pc, todo, cloudVars, geaVars, store, budget>>

-----------------------------------------------------------------------------
(* Calls of the reconciler *)

\* Update and Status().Update succeed only when the worker's copy is the
\* current version, and bring the copy to the new one.
Stored(new) ==
  /\ "worker" \in cur
  /\ cr' = new
  /\ cur' = {"worker"}
  /\ UNCHANGED cache
  /\ Calm

\* The call returns an error: a conflict, or a failure before or after the
\* API server stored the object.
WriteFails(new) ==
  /\ \/ "worker" \notin cur /\ Calm /\ UNCHANGED <<cr, cur>>
     \/ Disturb("fault") /\ UNCHANGED <<cr, cur>>
     \/ Disturb("fault") /\ "worker" \in cur /\ cr' = new /\ cur' = {}
  /\ Requeue
  /\ UNCHANGED cache

\* Mutants: create without looking; take any device whose name starts with
\* that of the cluster.
EnsuredBlindly(c, n, gateway, id) ==
  /\ id = nextDev
  /\ devices' = devices \cup {[id |-> id, cluster |-> c, node |-> n, gateway |-> gateway]}
  /\ nextDev' = nextDev + 1

EnsuredByPrefix(c, n, gateway, id) ==
  \/ /\ \E d \in devices : d.cluster = c /\ d.id = id
     /\ UNCHANGED cloudVars
  \/ (\A d \in devices : d.cluster # c) /\ EnsuredBlindly(c, n, gateway, id)

\* EnsureClusterDevice, EnsureNodeDevice: find by name, create if absent.
Ensured(c, n, gateway, id) ==
  \/ /\ \E d \in Named(c, n) : d.id = id
     /\ UNCHANGED cloudVars
  \/ /\ Named(c, n) = {}
     /\ id = nextDev
     /\ devices' = devices \cup {[id |-> id, cluster |-> c, node |-> n, gateway |-> gateway]}
     /\ nextDev' = nextDev + 1

\* DeleteDevice: a device that is already gone is a success.
Deleted(id) == devices' = {d \in devices : d.id # id} /\ UNCHANGED nextDev

\* Mutant: setDegraded sets only the condition of the failed step.
DegradedOneCondition(o, t) == [o EXCEPT !.phase = "Degraded", !.cond[t] = "False"]

\* The object that setDegraded stores, but for the schedule.
Degraded(o, t) ==
  [o EXCEPT !.phase = "Degraded",
            !.cond = [@ EXCEPT ![t] = "False", !["LastSyncSucceeded"] = "False"]]

Degrade(t) == pc' = "degrade" /\ ls' = Degraded(ls, t) /\ UNCHANGED todo

ConditionTrue(o, t) == [o EXCEPT !.cond[t] = "True"]

\* Mutant: the next tick is counted from the last one, and may be past.
DelaysFromLast(s) == -1..MaxWait

\* nextScheduleAndDuration: how far the next sync may be; none for a schedule
\* that does not parse.
Delays(s) ==
  CASE s = "interval" -> {MaxWait}
    [] s = "cron" -> 1..MaxWait
    [] s = "zero" -> {0}
    [] s = "invalid" -> {}

-----------------------------------------------------------------------------
(* Reconcile *)

\* The early returns of Reconcile: where an object read from the cache leads.
Dispatch(o) ==
  IF ~o.there THEN "idle"
  ELSE IF o.deleting THEN IF o.fin THEN "cleanup" ELSE "idle"
  ELSE IF ~o.fin THEN "finalizer"
  ELSE IF o.suspend THEN IF o.phase = "Suspended" THEN "idle" ELSE "suspend"
  ELSE IF o.phase = "" THEN "first"
  ELSE IF o.phase = "Active" /\ o.next > 0 THEN "defer"
  ELSE "connect"

\* Mutant: the worker takes whatever the cache holds for the current version.
ReconcileTrustingCache ==
  /\ pc = "idle" /\ "queue" \in wake
  /\ wake' = wake \ {"queue"}
  /\ pc' = Dispatch(cache)
  /\ ls' = IF pc' = "idle" THEN NoObject ELSE cache
  /\ cur' = cur \cup {"worker"}
  /\ UNCHANGED <<cr, cache, timer, todo, cloudVars, geaVars, store, budget>>

\* A worker takes the key and reads the object from the cache.
Reconcile ==
  /\ pc = "idle" /\ "queue" \in wake
  /\ wake' = wake \ {"queue"}
  /\ pc' = Dispatch(cache)
  /\ ls' = IF pc' = "idle" THEN NoObject ELSE cache
  /\ cur' = IF "cache" \in cur THEN cur \cup {"worker"} ELSE cur \ {"worker"}
  /\ UNCHANGED <<cr, cache, timer, todo, cloudVars, geaVars, store, budget>>

\* Mutant: it trusts its own update to trigger the next reconcile.
AddFinalizerAndWait ==
  LET new == [ls EXCEPT !.fin = TRUE] IN
  /\ pc = "finalizer"
  /\ \/ Stored(new) /\ Return(0)
     \/ WriteFails(new)
  /\ UNCHANGED <<cloudVars, geaVars, store>>

AddFinalizer ==
  LET new == [ls EXCEPT !.fin = TRUE] IN
  /\ pc = "finalizer"
  /\ \/ Stored(new) /\ Requeue
     \/ WriteFails(new)
  /\ UNCHANGED <<cloudVars, geaVars, store>>

\* Mutant: the error of the status write is only logged.
SuspendQuietly ==
  LET new == [ls EXCEPT !.phase = "Suspended"] IN
  /\ pc = "suspend"
  /\ \/ Stored(new) /\ Return(0)
     \/ /\ (("worker" \notin cur /\ Calm) \/ Disturb("fault"))
        /\ Return(0)
        /\ UNCHANGED apiVars
  /\ UNCHANGED <<cloudVars, geaVars, store>>

Suspend ==
  LET new == [ls EXCEPT !.phase = "Suspended"] IN
  /\ pc = "suspend"
  /\ \/ Stored(new) /\ Return(0)
     \/ WriteFails(new)
  /\ UNCHANGED <<cloudVars, geaVars, store>>

\* First reconcile: Provisioning, due now ...
FirstReconcile ==
  LET new == [ls EXCEPT !.phase = "Provisioning", !.next = 0] IN
  /\ pc = "first"
  /\ \/ /\ Stored(new)
        /\ pc' = "placeholder"
        /\ ls' = new
        /\ UNCHANGED <<queueVars, todo>>
     \/ WriteFails(new)
  /\ UNCHANGED <<cloudVars, geaVars, store>>

\* Mutant: no second try.
PlaceholderAndWait ==
  /\ pc = "placeholder"
  /\ cred' = [cred EXCEPT !.there = TRUE] /\ Calm
  /\ Return(0)
  /\ UNCHANGED <<apiVars, cloudVars, geaDev, rollout, store>>

\* ... then EnsureCredentialPlaceholder, whose failure is only logged, and a
\* second try after one second.
EnsureCredentialPlaceholder ==
  /\ pc = "placeholder"
  /\ \/ cred' = [cred EXCEPT !.there = TRUE] /\ Calm
     \/ Disturb("fault") /\ UNCHANGED cred
  /\ Return(1)
  /\ UNCHANGED <<apiVars, cloudVars, geaDev, rollout, store>>

\* Active and not due: wait for what is left when the clock is read again.
Defer ==
  /\ pc = "defer"
  /\ Return(ls.next)
  /\ UNCHANGED <<apiVars, cloudVars, geaVars, store, budget>>

\* Steps 1 to 3: read the provisioning Secret, build the clients, Ping.
Connect ==
  /\ pc = "connect"
  /\ \/ pc' = "cluster" /\ Calm /\ UNCHANGED <<ls, todo>>
     \/ Disturb("fault") /\ Degrade("LastSyncSucceeded")
  /\ UNCHANGED <<apiVars, queueVars, cloudVars, geaVars, store>>

\* Step 4.  A failed call may have created the device all the same.
EnsureClusterDevice ==
  /\ pc = "cluster"
  /\ \/ \E id \in 1..nextDev :
          /\ Ensured(ls.cluster, NoNode, NoDev, id)
          /\ ls' = [ls EXCEPT !.dev = id]
          /\ pc' = IF ls.cond["GEABootstrapped"] = "True" THEN "snapshot" ELSE "bootstrap"
          /\ Calm
          /\ UNCHANGED todo
     \/ /\ Disturb("fault")
        /\ \/ UNCHANGED cloudVars
           \/ \E id \in 1..nextDev : Ensured(ls.cluster, NoNode, NoDev, id)
        /\ Degrade("DevicesProvisioned")
  /\ UNCHANGED <<apiVars, queueVars, geaVars, store>>

\* Mutant: credentials that are there are kept, whatever device they are of.
WriteCredentialsOnce ==
  /\ pc = "bootstrap"
  /\ cred' = IF cred.dev # NoDev THEN cred ELSE [there |-> TRUE, dev |-> ls.dev]
  /\ pc' = "restart"
  /\ Calm
  /\ UNCHANGED <<ls, todo, apiVars, queueVars, cloudVars, geaDev, rollout, store>>

\* Step 4.5, Bootstrap: credentials are written unless the Secret already
\* holds those of this device ...
WriteCredentials ==
  LET new == [there |-> TRUE, dev |-> ls.dev] IN
  /\ pc = "bootstrap"
  /\ \/ /\ cred' = new
        /\ pc' = "restart"
        /\ Calm
        /\ UNCHANGED <<ls, todo>>
     \/ /\ Disturb("fault")
        /\ cred' \in {cred, new}
        /\ Degrade("GEABootstrapped")
  /\ UNCHANGED <<apiVars, queueVars, cloudVars, geaDev, rollout, store>>

\* ... and the GEA Deployment is restarted even when they were current.
RestartDeployment ==
  /\ pc = "restart"
  /\ \/ /\ rollout' = "pending"
        /\ pc' = "snapshot"
        /\ ls' = ConditionTrue(ls, "GEABootstrapped")
        /\ Calm
        /\ UNCHANGED todo
     \/ /\ Disturb("fault")
        /\ rollout' \in {rollout, "pending"}
        /\ Degrade("GEABootstrapped")
  /\ UNCHANGED <<apiVars, queueVars, cloudVars, cred, geaDev, store>>

\* Mutant: nodes are provisioned once.
HealthSnapshotOnce ==
  /\ pc = "snapshot"
  /\ todo' = IF \E n \in Nodes : ls.nodes[n] # NoDev THEN {} ELSE store
  /\ pc' = "nodes"
  /\ UNCHANGED <<ls, apiVars, queueVars, cloudVars, geaVars, store, budget>>

\* Step 5: the nodes to provision are those of the health snapshot.
HealthSnapshot ==
  /\ pc = "snapshot"
  /\ todo' = store
  /\ pc' = "nodes"
  /\ UNCHANGED <<ls, apiVars, queueVars, cloudVars, geaVars, store, budget>>

EnsureNodeDevice(n) ==
  /\ pc = "nodes" /\ n \in todo
  /\ \/ \E id \in 1..nextDev :
          /\ Ensured(ls.cluster, n, ls.dev, id)
          /\ ls' = [ls EXCEPT !.nodes[n] = id]
          /\ todo' = todo \ {n}
          /\ Calm
          /\ UNCHANGED pc
     \/ /\ Disturb("fault")
        /\ \/ UNCHANGED cloudVars
           \/ \E id \in 1..nextDev : Ensured(ls.cluster, n, ls.dev, id)
        /\ Degrade("DevicesProvisioned")
  /\ UNCHANGED <<apiVars, queueVars, geaVars, store>>

\* Step 5b: all devices are confirmed; the workflow calls of
\* ensureWorkflowDeployments are made when the spec lists any.
EnsureWorkflowDeployments ==
  LET provisioned == ConditionTrue(ls, "DevicesProvisioned") IN
  /\ pc = "nodes" /\ todo = {}
  /\ \/ /\ ls' = IF WorkflowDeployments
                 THEN ConditionTrue(provisioned, "WorkflowDeployed") ELSE provisioned
        /\ pc' = "report"
        /\ Calm
     \/ /\ WorkflowDeployments
        /\ Disturb("fault")
        /\ pc' = "degrade"
        /\ ls' = Degraded(provisioned, "WorkflowDeployed")
  /\ UNCHANGED <<todo, apiVars, queueVars, cloudVars, geaVars, store>>

\* Step 6.
ReportState ==
  /\ pc = "report"
  /\ \/ /\ ls' = ConditionTrue(ls, "GEAReachable")
        /\ pc' = "schedule"
        /\ Calm
        /\ UNCHANGED todo
     \/ Disturb("fault") /\ Degrade("GEAReachable")
  /\ UNCHANGED <<apiVars, queueVars, cloudVars, geaVars, store>>

\* Steps 7 to 9 up to the status write: node reports are best-effort.
Schedule ==
  /\ pc = "schedule"
  /\ \/ \E d \in Delays(ls.sched) :
          /\ ls' = [ConditionTrue(ls, "LastSyncSucceeded") EXCEPT !.next = d, !.phase = "Active"]
          /\ pc' = "commit"
          /\ UNCHANGED todo
     \/ Delays(ls.sched) = {} /\ Degrade("LastSyncSucceeded")
  /\ UNCHANGED <<apiVars, queueVars, cloudVars, geaVars, store, budget>>

\* Mutant: on a conflict the status is written to the latest version.
CommitOnLatest ==
  /\ pc = "commit"
  /\ cr' = [cr EXCEPT !.phase = ls.phase, !.next = ls.next, !.dev = ls.dev,
                      !.nodes = ls.nodes, !.cond = ls.cond]
  /\ cur' = {"worker"} /\ pc' = "requeue" /\ Calm
  /\ UNCHANGED <<cache, ls, todo, queueVars, cloudVars, geaVars, store>>

Commit ==
  /\ pc = "commit"
  /\ \/ Stored(ls) /\ pc' = "requeue" /\ UNCHANGED <<ls, todo, queueVars>>
     \/ WriteFails(ls)
  /\ UNCHANGED <<cloudVars, geaVars, store>>

\* RequeueAfter: time.Until(next), read after the status write.  In the very
\* second of `next' it may be positive or not.
RequeueUntilNext ==
  /\ pc = "requeue"
  /\ Return(ls.next) \/ (ls.next = 0 /\ ls.sched # "zero" /\ Requeue)
  /\ UNCHANGED <<apiVars, cloudVars, geaVars, store, budget>>

\* Mutant: a schedule that does not parse yields no requeue.
SetDegradedNoFallback ==
  /\ pc = "degrade"
  /\ \E d \in IF Delays(ls.sched) = {} THEN {0} ELSE Delays(ls.sched) :
       Stored(ls) /\ Return(d)
  /\ UNCHANGED <<cloudVars, geaVars, store>>

\* setDegraded: store the degraded status and retry when the schedule says.
SetDegraded ==
  /\ pc = "degrade"
  /\ \E d \in IF Delays(ls.sched) = {} THEN {Fallback} ELSE Delays(ls.sched) :
       LET new == IF Delays(ls.sched) = {} THEN ls ELSE [ls EXCEPT !.next = d] IN
       \/ Stored(new) /\ Return(d)
       \/ WriteFails(new)
  /\ UNCHANGED <<cloudVars, geaVars, store>>

-----------------------------------------------------------------------------
(* handleDeletion *)

\* Read the provisioning Secret and build the client.
StartCleanup ==
  /\ pc = "cleanup"
  /\ \/ /\ pc' = "delete"
        /\ todo' = {n \in Nodes : ls.nodes[n] # NoDev}
        /\ Calm
        /\ UNCHANGED <<ls, queueVars>>
     \/ Disturb("fault") /\ Requeue
  /\ UNCHANGED <<apiVars, cloudVars, geaVars, store>>

\* Mutants: a failed deletion is skipped; it ends the cleanup without an error.
DeleteNodeDeviceOnce(n) ==
  /\ pc = "delete" /\ n \in todo
  /\ \/ Deleted(ls.nodes[n]) /\ Calm
     \/ Disturb("fault") /\ UNCHANGED cloudVars
  /\ todo' = todo \ {n}
  /\ UNCHANGED <<pc, ls, queueVars, apiVars, geaVars, store>>

DeleteNodeDeviceQuietly(n) ==
  /\ pc = "delete" /\ n \in todo
  /\ \/ Deleted(ls.nodes[n]) /\ Calm /\ todo' = todo \ {n} /\ UNCHANGED <<pc, ls, queueVars>>
     \/ Disturb("fault") /\ UNCHANGED cloudVars /\ Return(0)
  /\ UNCHANGED <<apiVars, geaVars, store>>

DeleteNodeDevice(n) ==
  /\ pc = "delete" /\ n \in todo
  /\ \/ /\ Deleted(ls.nodes[n])
        /\ todo' = todo \ {n}
        /\ Calm
        /\ UNCHANGED <<pc, ls, queueVars>>
     \/ /\ Disturb("fault")
        /\ Deleted(ls.nodes[n]) \/ UNCHANGED cloudVars
        /\ Requeue
  /\ UNCHANGED <<apiVars, geaVars, store>>

DeleteClusterDevice ==
  /\ pc = "delete" /\ todo = {}
  /\ \/ /\ Deleted(ls.dev)
        /\ pc' = "unfinalize"
        /\ Calm
        /\ UNCHANGED <<ls, todo, queueVars>>
     \/ /\ ls.dev # NoDev
        /\ Disturb("fault")
        /\ Deleted(ls.dev) \/ UNCHANGED cloudVars
        /\ Requeue
  /\ UNCHANGED <<apiVars, geaVars, store>>

\* RemoveFinalizer and Update: the API server then removes the object.
RemoveFinalizer ==
  /\ pc = "unfinalize"
  /\ \/ /\ "worker" \in cur
        /\ cr' = NoObject
        /\ cur' = {}
        /\ Done
        /\ \/ Calm /\ wake' = wake \cup {"event"}
           \/ Disturb("fault") /\ wake' = {"event", "queue"}
     \/ /\ \/ "worker" \notin cur /\ Calm
           \/ Disturb("fault")
        /\ Requeue
        /\ UNCHANGED <<cr, cur>>
  /\ UNCHANGED <<cache, timer, cloudVars, geaVars, store>>

-----------------------------------------------------------------------------
(* The other actors *)

\* HealthWatcher publishes a snapshot.
StoreUpdate ==
  /\ store' \in Snapshots
  /\ UNCHANGED <<apiVars, queueVars, workerVars, cloudVars, geaVars, budget>>

\* The Deployment's new pod starts with what the Secret holds by then.
Rollout ==
  /\ rollout = "pending"
  /\ rollout' = "done"
  /\ geaDev' = cred.dev
  /\ UNCHANGED <<apiVars, queueVars, workerVars, cloudVars, cred, store, budget>>

\* A user writes the spec: a new generation, and every copy is out of date.
UserWrites(new) ==
  /\ cr' = new
  /\ cur' = {}
  /\ wake' = wake \cup {"event"}
  /\ UNCHANGED <<cache, timer, workerVars, cloudVars, geaVars, store>>

ToggleSuspend ==
  /\ cr.there /\ Disturb("suspend")
  /\ UserWrites([cr EXCEPT !.suspend = ~@])

Rename ==
  /\ cr.there /\ Disturb("rename")
  /\ \E c \in Clusters \ {cr.cluster} : UserWrites([cr EXCEPT !.cluster = c])

Reschedule ==
  /\ cr.there /\ Disturb("reschedule")
  /\ \E s \in Schedules \ {cr.sched} : UserWrites([cr EXCEPT !.sched = s])

\* kubectl delete: the object stays, marked, while it has the finalizer.
DeleteObject ==
  /\ cr.there /\ ~cr.deleting /\ Disturb("delete")
  /\ UserWrites(IF cr.fin THEN [cr EXCEPT !.deleting = TRUE] ELSE NoObject)

RecreateObject ==
  /\ ~cr.there /\ Disturb("recreate")
  /\ \E c \in Clusters, s \in Schedules : UserWrites(NewObject(c, s))

\* Somebody deletes a device in the Losant application.
CloudDelete ==
  /\ Disturb("cloudDelete")
  /\ \E d \in devices : Deleted(d.id)
  /\ UNCHANGED <<apiVars, queueVars, workerVars, geaVars, store>>

\* The manager dies and starts again: queue, timers, store and reconcile are
\* gone, and the new cache's initial list enqueues every object.
Crash ==
  /\ Disturb("crash")
  /\ Done
  /\ cache' = cr
  /\ cur' = {"cache"}
  /\ wake' = IF cr.there THEN {"queue"} ELSE {}
  /\ timer' = NoTimer
  /\ store' = {}
  /\ UNCHANGED <<cr, cloudVars, geaVars>>

-----------------------------------------------------------------------------

ReconcileStep ==
  \/ Reconcile \/ AddFinalizer \/ Suspend \/ FirstReconcile
  \/ EnsureCredentialPlaceholder \/ Defer \/ Connect \/ EnsureClusterDevice
  \/ WriteCredentials \/ RestartDeployment \/ HealthSnapshot
  \/ \E n \in Nodes : EnsureNodeDevice(n)
  \/ EnsureWorkflowDeployments \/ ReportState \/ Schedule \/ Commit
  \/ RequeueUntilNext \/ SetDegraded
  \/ StartCleanup
  \/ \E n \in Nodes : DeleteNodeDevice(n)
  \/ DeleteClusterDevice \/ RemoveFinalizer

Environment ==
  \/ StoreUpdate \/ Rollout \/ ToggleSuspend \/ Rename \/ Reschedule
  \/ DeleteObject \/ RecreateObject \/ CloudDelete \/ Crash

Next == ReconcileStep \/ CacheSync \/ TimerFires \/ Tick \/ Environment

\* Workers, watches, timers and the clock keep running; people and faults are
\* under no obligation.
Fairness ==
  /\ WF_vars(ReconcileStep)
  /\ WF_vars(CacheSync)
  /\ WF_vars(TimerFires)
  /\ WF_vars(Tick)

Spec == Init /\ [][Next]_vars
FairSpec == Spec /\ Fairness

-----------------------------------------------------------------------------
(* Properties *)

ProgramCounters ==
  {"idle", "finalizer", "suspend", "first", "placeholder", "defer", "connect",
   "cluster", "bootstrap", "restart", "snapshot", "nodes", "report", "schedule",
   "commit", "requeue", "degrade", "cleanup", "delete", "unfinalize"}

\* Every variable has the shape the code's types give it.
TypeOK ==
  /\ cr \in Object /\ cache \in Object /\ ls \in Object
  /\ cur \subseteq {"cache", "worker"}
  /\ wake \subseteq {"event", "queue"}
  /\ rollout \in {"done", "pending"}
  /\ timer \in Nat \cup {NoTimer}
  /\ pc \in ProgramCounters
  /\ todo \subseteq Nodes
  /\ devices \subseteq Device
  /\ nextDev \in Nat \ {0}
  /\ cred \in [there: BOOLEAN, dev: Nat]
  /\ geaDev \in Nat
  /\ store \subseteq Nodes
  /\ budget \in Nat

\* Find-then-create never leaves two devices with one name in the application,
\* whatever calls fail after taking effect and wherever the manager dies.
UniqueDeviceNames ==
  \A d, e \in devices : d.cluster = e.cluster /\ d.node = e.node => d = e

Waking == wake # {} \/ timer # NoTimer \/ pc # "idle"

\* The reconcile of a live object always has something that will run it
\* again, except where the code means to rest: suspended.  An Active one that is
\* not due has its timer, or an event or reconcile that will set it.  The last two
\* disjuncts are gaps in the code.  A delay that is over by the time it is returned
\* requeues nothing, so an Active object that is due may be left to itself (the
\* subject of ActiveIsSyncedAgain); and with an interval of "0s" setDegraded returns
\* RequeueAfter 0, and a Degraded object is not retried.
NoLostWakeup ==
  cr.there =>
    \/ Waking
    \/ ~cr.deleting /\ cr.suspend /\ cr.phase = "Suspended"
    \/ ~cr.deleting /\ ~cr.suspend /\ cr.phase = "Active" /\ cr.next = 0
    \/ ~cr.deleting /\ ~cr.suspend /\ cr.phase = "Degraded" /\ cr.sched = "zero"

ConditionsMatch(o) ==
  /\ o.phase = "Active" =>
       \A t \in ConditionTypes \ {"WorkflowDeployed"} : o.cond[t] = "True"
  /\ o.phase = "Degraded" => o.cond["LastSyncSucceeded"] = "False"
  /\ o.phase \in {"", "Provisioning"} =>
       \A t \in ConditionTypes : o.cond[t] = "Unknown"

\* Conditions and phase, written by different branches of Reconcile, agree.
ConditionsMatchPhase == ConditionsMatch(cr)

Recorded(o) == {o.nodes[n] : n \in Nodes} \cup {o.dev}

RemovalStep ==
  cr.there /\ cr.fin /\ ~cr'.there => \A d \in devices : d.id \notin Recorded(cr)

\* The object leaves the API server only when every device its status lists
\* is gone from Losant, or before it had the finalizer.
CleanupBeforeRemoval == [][RemovalStep]_vars

RestingStep ==
  cr.there /\ cr'.there /\ (cr.suspend \/ cr.deleting) /\ cr'.suspend = cr.suspend =>
    /\ cr'.phase \in {cr.phase, "Suspended"}
    /\ cr'.next <= cr.next
    /\ cr'.dev = cr.dev /\ cr'.nodes = cr.nodes /\ cr'.cond = cr.cond

\* While the object is suspended or marked for deletion its status rests: the
\* only change is the phase becoming Suspended (time still runs towards next).
\* A sync that was under way when the user wrote the spec must not land.
StatusRests == [][RestingStep]_vars

\* What the status records exists in Losant under the names of the spec.
RecordedDevicesExist ==
  cr.there /\ ~cr.deleting =>
    /\ cr.dev # NoDev => \E d \in Named(cr.cluster, NoNode) : d.id = cr.dev
    /\ \A n \in Nodes : cr.nodes[n] # NoDev =>
         \E d \in Named(cr.cluster, n) : d.id = cr.nodes[n]

\* Once GEABootstrapped is True the GEA runs, or will after the rollout that
\* is under way, as the cluster device of the status.
GEAIdentity ==
  cr.there /\ ~cr.deleting /\ cr.cond["GEABootstrapped"] = "True" =>
    /\ cred = [there |-> TRUE, dev |-> cr.dev]
    /\ rollout = "pending" \/ geaDev = cr.dev

Live == cr.there /\ ~cr.suspend /\ ~cr.deleting

\* A live object becomes Active once faults cease, whatever calls failed and
\* wherever the manager died on the way.
Converges == Live ~> (cr.phase = "Active" \/ ~Live)

\* A deletion gets through: the finalizer does not hold the object forever.
DeletionCompletes == cr.deleting ~> ~cr.there

\* A suspension reaches the status, even when it lands in the middle of a sync.
SuspendTakesEffect ==
  (cr.there /\ cr.suspend) ~> (cr.phase = "Suspended" \/ ~cr.suspend \/ cr.deleting \/ ~cr.there)

\* docs/acceptance-criteria.md, AC-SCHED-04: an Active object that is due is
\* synced, late or not.
ActiveIsSyncedAgain == (Live /\ cr.phase = "Active" /\ cr.next = 0) ~> (pc = "connect" \/ ~Live)

\* docs/acceptance-criteria.md, AC-LIFECYCLE-04: the cluster device and all node
\* devices are deleted before an Active object is removed.
NoOrphanDevices == [][cr.there /\ cr.phase = "Active" /\ ~cr'.there => devices = {}]_vars

\* docs/architecture.md, "Cluster Device": the cluster device is the identity the
\* GEA runs with, once nothing is under way that would still change it.
GEARunsAsClusterDevice ==
  Live /\ cr.phase = "Active" /\ pc = "idle" /\ wake = {} /\ rollout = "done" => geaDev = cr.dev

-----------------------------------------------------------------------------
(* What makes the safety properties inductive *)

\* Metadata and spec of an object: what the reconciler never writes, but for
\* the finalizer.
Meta(o) == <<o.there, o.deleting, o.fin, o.suspend, o.cluster, o.sched>>

Untouched == {"finalizer", "suspend", "first", "placeholder", "defer", "connect",
              "cleanup", "delete", "unfinalize"}
Cleaning == {"cleanup", "delete", "unfinalize"}
Syncing == ProgramCounters \ ({"idle", "finalizer", "suspend"} \cup Cleaning)

\* A copy that has the current version is a copy of the current object: the
\* cache's entirely, the worker's but for the status fields it has set.
CopiesAreCurrent ==
  /\ "cache" \in cur => cache = cr
  /\ "worker" \in cur /\ pc # "idle" => Meta(ls) = Meta(cr)
  /\ "worker" \in cur /\ pc \in Untouched => ls = cr

\* The early returns of Reconcile still hold of the copy it works on, however
\* far the reconcile has got.
GuardsHold ==
  /\ pc # "idle" => ls.there
  /\ pc \in Cleaning => ls.deleting /\ ls.fin
  /\ pc = "finalizer" => ~ls.deleting /\ ~ls.fin
  /\ pc = "suspend" => ~ls.deleting /\ ls.fin /\ ls.suspend
  /\ pc \in Syncing => ~ls.deleting /\ ls.fin /\ ~ls.suspend

\* Identifiers are never reused, and a device that the cleanup has dealt with
\* is gone.
CleanupProgress ==
  /\ \A d \in devices : 0 < d.id /\ d.id < nextDev
  /\ pc = "delete" => \A n \in Nodes \ todo : \A d \in devices : d.id # ls.nodes[n]
  /\ pc = "unfinalize" => \A d \in devices : d.id \notin Recorded(ls)

\* The conditions a reconcile has set by the time it gets to each step.
ConditionProgress ==
  /\ ConditionsMatch(cr)
  /\ ConditionsMatch(cache)
  /\ pc \in {"finalizer", "suspend", "first"} => ConditionsMatch(ls)
  /\ pc = "first" => ls.phase = ""
  /\ pc \in {"snapshot", "nodes", "report", "schedule", "commit"} =>
       ls.cond["GEABootstrapped"] = "True"
  /\ pc \in {"report", "schedule", "commit"} => ls.cond["DevicesProvisioned"] = "True"
  /\ pc \in {"schedule", "commit"} => ls.cond["GEAReachable"] = "True"
  /\ pc = "commit" => ls.phase = "Active" /\ ls.cond["LastSyncSucceeded"] = "True"
  /\ pc = "degrade" => ls.phase = "Degraded" /\ ls.cond["LastSyncSucceeded"] = "False"

\* From the first call of a sync to the write of its outcome.
Deciding == {"connect", "cluster", "bootstrap", "restart", "snapshot", "nodes", "report",
             "schedule", "commit", "degrade"}

\* Only an object with the finalizer stays when it is deleted.
FinalizersHold == (cr.deleting => cr.fin) /\ (cache.deleting => cache.fin)

\* While no event is on its way the cache has the spec as it is, and a phase at
\* which Reconcile would return early is still that of the object, as is the time
\* it would wait for.
CacheHolds ==
  "event" \notin wake =>
    /\ cache.there = cr.there /\ cache.deleting = cr.deleting /\ cache.suspend = cr.suspend
    /\ cr.there /\ cr.suspend /\ cache.phase = "Suspended" => cr.phase = "Suspended"
    /\ cr.there /\ ~cr.suspend /\ cache.phase = "Active" /\ cache.next > 0 =>
         cr.phase = "Active" /\ cr.next = cache.next

\* A sync that can store its outcome has started from a cached copy that is the
\* current one, and due.
StartHolds ==
  "worker" \in cur /\ pc \in Deciding =>
    "cache" \in cur /\ ~(cache.phase = "Active" /\ cache.next > 0)

\* A reconcile that is about to return, with what is left of its delay, leaves an
\* Active object that is due then, or something that wakes it.
ReturnHolds ==
  pc \in {"defer", "requeue"} /\ cr.there =>
    wake # {} \/ (~cr.deleting /\ ~cr.suspend /\ cr.phase = "Active" /\ cr.next = ls.next)

\* Why no early return of Reconcile loses the object.
WakeProgress == FinalizersHold /\ CacheHolds /\ StartHolds /\ ReturnHolds /\ NoLostWakeup

\* The conjunction that every step preserves, and that implies the safety
\* properties which are not inductive by themselves.
SafetyInvariant ==
  CopiesAreCurrent /\ GuardsHold /\ CleanupProgress /\ ConditionProgress /\ WakeProgress

-----------------------------------------------------------------------------
(* What makes RecordedDevicesExist and GEAIdentity inductive, as long as nobody *)
(* renames the cluster or deletes devices in Losant                             *)

\* The status says nothing yet of devices and credentials.
Blank(o) ==
  /\ o.dev = NoDev
  /\ \A n \in Nodes : o.nodes[n] = NoDev
  /\ o.cond["GEABootstrapped"] # "True"

Gone(o) == ~o.there \/ o.deleting \/ Blank(o)

\* Copies are of the same cluster, unless the newer one is of an object that was
\* created again; and while devices are deleted nobody takes them for existing.
LineageHolds ==
  /\ cache.there /\ cr.there => cache.cluster = cr.cluster \/ Blank(cr)
  /\ pc \in Syncing /\ cr.there => ls.cluster = cr.cluster \/ Blank(cr)
  /\ pc \in Syncing /\ cache.there => ls.cluster = cache.cluster \/ Blank(cache)
  /\ cache.there /\ cache.deleting => Gone(cr)
  /\ pc \in Cleaning => Gone(cr) /\ Gone(cache)

\* The devices that a status lists are among ds, under the names of its spec.
Registered(o, ds) ==
  /\ o.dev # NoDev => \E d \in ds : d.cluster = o.cluster /\ d.node = NoNode /\ d.id = o.dev
  /\ \A n \in Nodes : o.nodes[n] # NoDev =>
       \E d \in ds : d.cluster = o.cluster /\ d.node = n /\ d.id = o.nodes[n]

\* What every copy's status lists is in Losant: the sync that stores its copy later,
\* or that starts from the cached one, stores nothing that is gone.
RegistrationHolds ==
  /\ cr.there /\ ~cr.deleting => Registered(cr, devices)
  /\ cache.there /\ ~cache.deleting => Registered(cache, devices)
  /\ pc \in Syncing => Registered(ls, devices)

\* A status that says GEABootstrapped is about these credentials and this GEA.
Identified(o, credentials, roll, gea) ==
  o.cond["GEABootstrapped"] = "True" =>
    /\ o.dev # NoDev
    /\ credentials = [there |-> TRUE, dev |-> o.dev]
    /\ roll = "pending" \/ gea = o.dev

\* GEABootstrapped is true of the Secret and the GEA in every copy, so that the
\* bootstrap a sync skips is one that was made; between the write of the Secret and the
\* restart the Secret is that of the device at hand.
IdentityHolds ==
  /\ cr.there /\ ~cr.deleting => Identified(cr, cred, rollout, geaDev)
  /\ cache.there /\ ~cache.deleting => Identified(cache, cred, rollout, geaDev)
  /\ pc \in Syncing => Identified(ls, cred, rollout, geaDev)
  /\ pc \in {"bootstrap", "restart"} => ls.dev # NoDev
  /\ pc = "restart" => cred = [there |-> TRUE, dev |-> ls.dev]

\* No sync, from however old a copy and after whatever lost answers, crashes,
\* deletions and re-creations, holds or stores a device that is not in Losant or an
\* identity that the GEA has not: inductive together with SafetyInvariant and
\* UniqueDeviceNames.
IdentityInvariant == LineageHolds /\ RegistrationHolds /\ IdentityHolds

=============================================================================

----------------------- MODULE LosantSyncSafetyProofs -----------------------
(***************************************************************************)
(* The safety properties of LosantSync, for every value of its constants.   *)
(***************************************************************************)
EXTENDS LosantSyncProofs

-----------------------------------------------------------------------------
(* Device names *)

Shrinks == devices' \subseteq devices /\ nextDev' = nextDev
Grows == \E c, n, g : /\ Named(c, n) = {}
                      /\ devices' = devices \cup
                           {[id |-> nextDev, cluster |-> c, node |-> n, gateway |-> g]}
                      /\ nextDev' = nextDev + 1

\* A step creates at most one device, and only when its name is free.
LEMMA DevicesStep ==
  ASSUME Next
  PROVE  Shrinks \/ Grows
<1>1. ASSUME UNCHANGED cloudVars PROVE Shrinks
  BY <1>1 DEF cloudVars, Shrinks
<1>2. ASSUME NEW id, Deleted(id) PROVE Shrinks
  BY <1>2 DEF Deleted, Shrinks
<1>3. ASSUME NEW c, NEW n, NEW g, NEW id, Ensured(c, n, g, id) PROVE Shrinks \/ Grows
  BY <1>1, <1>3 DEF Ensured, Grows
<1>4. CASE EnsureClusterDevice
  BY <1>1, <1>3, <1>4 DEF EnsureClusterDevice
<1>5. CASE \E n \in Nodes : EnsureNodeDevice(n)
  BY <1>1, <1>3, <1>5 DEF EnsureNodeDevice
<1>6. CASE (\E n \in Nodes : DeleteNodeDevice(n)) \/ DeleteClusterDevice \/ CloudDelete
  BY <1>1, <1>2, <1>6 DEF DeleteNodeDevice, DeleteClusterDevice, CloudDelete
<1>7. CASE \/ Reconcile \/ AddFinalizer \/ Suspend \/ FirstReconcile
           \/ EnsureCredentialPlaceholder \/ Defer \/ Connect \/ WriteCredentials
           \/ RestartDeployment \/ HealthSnapshot \/ EnsureWorkflowDeployments
           \/ ReportState \/ Schedule \/ Commit \/ RequeueUntilNext \/ SetDegraded
           \/ StartCleanup \/ RemoveFinalizer
  BY <1>1, <1>7 DEF Reconcile, AddFinalizer, Suspend, FirstReconcile,
     EnsureCredentialPlaceholder, Defer, Connect, WriteCredentials, RestartDeployment,
     HealthSnapshot, EnsureWorkflowDeployments, ReportState, Schedule, Commit,
     RequeueUntilNext, SetDegraded, StartCleanup, RemoveFinalizer
<1>8. CASE \/ CacheSync \/ TimerFires \/ Tick \/ StoreUpdate \/ Rollout \/ ToggleSuspend
           \/ Rename \/ Reschedule \/ DeleteObject \/ RecreateObject \/ Crash
  BY <1>1, <1>8 DEF CacheSync, TimerFires, Tick, StoreUpdate, Rollout, UserWrites,
     ToggleSuspend, Rename, Reschedule, DeleteObject, RecreateObject, Crash
<1> QED
  BY <1>4, <1>5, <1>6, <1>7, <1>8 DEF Next, ReconcileStep, Environment

\* No step leaves two devices with one name: UniqueDeviceNames is inductive.
LEMMA UniqueStep == UniqueDeviceNames /\ [Next]_vars => UniqueDeviceNames'
<1>1. ASSUME UniqueDeviceNames, UNCHANGED vars PROVE UniqueDeviceNames'
  BY <1>1 DEF UniqueDeviceNames, vars, cloudVars
<1>2. ASSUME UniqueDeviceNames, Next PROVE UniqueDeviceNames'
  <2>1. CASE Shrinks
    BY <1>2, <2>1 DEF UniqueDeviceNames, Shrinks
  <2>2. CASE Grows
    BY <1>2, <2>2 DEF UniqueDeviceNames, Grows, Named
  <2> QED BY <1>2, <2>1, <2>2, DevicesStep
<1> QED BY <1>1, <1>2

\* The operator never gives one name to two devices of the application.
THEOREM DeviceNamesAreUnique == Spec => []UniqueDeviceNames
<1>1. Init => UniqueDeviceNames
  BY DEF Init, UniqueDeviceNames
<1> QED BY <1>1, UniqueStep, PTL DEF Spec

-----------------------------------------------------------------------------
(* The worker's copy of the object *)

\* The status updates of the reconciler leave metadata and spec alone.
LEMMA MetaKept ==
  ASSUME NEW o \in Object
  PROVE  /\ \A t \in ConditionTypes : /\ Meta(Degraded(o, t)) = Meta(o)
                                      /\ Meta(ConditionTrue(o, t)) = Meta(o)
         /\ \A d : Meta([o EXCEPT !.dev = d]) = Meta(o)
         /\ Meta(Aged(o)) = Meta(o)
  BY DEF Meta, Object, Degraded, ConditionTrue, Aged

\* Objects with the same metadata and spec pass the same guards.
LEMMA MetaFields ==
  ASSUME NEW o, NEW p, Meta(o) = Meta(p)
  PROVE  o.there = p.there /\ o.deleting = p.deleting /\ o.fin = p.fin /\ o.suspend = p.suspend
  BY DEF Meta

\* A step of the reconcile that only changes the worker's own state ...
LocalStep ==
  /\ UNCHANGED apiVars
  /\ Meta(ls') = Meta(ls)
  /\ \/ pc \in Syncing /\ pc' \in Syncing \ Untouched
     \/ pc \in Cleaning /\ pc' \in Cleaning /\ ls' = ls

\* ... and one that ends it.
EndStep == pc' = "idle" /\ ("cache" \in cur' => cache' = cr')

\* A write that ends the reconcile does not leave a stale cache taken for current.
LEMMA WriteEnds ==
  ASSUME CopiesAreCurrent, NEW new,
         \/ Stored(new) /\ Done
         \/ WriteFails(new)
  PROVE  EndStep
  BY DEF CopiesAreCurrent, Stored, WriteFails, Requeue, Done, EndStep

\* Every step of the reconcile is a read of the cache, a write of the object,
\* a local step or the end.
LEMMA WorkerStep ==
  ASSUME TypeOK, CopiesAreCurrent, ReconcileStep
  PROVE  LocalStep \/ EndStep \/ Reconcile \/ FirstReconcile \/ Commit
<1> USE DEF Syncing, Untouched, Cleaning, ProgramCounters
<1>0. ls \in Object
  BY DEF TypeOK
<1>1. ASSUME Done, UNCHANGED apiVars PROVE EndStep
  BY <1>1 DEF Done, apiVars, CopiesAreCurrent, EndStep
<1>2. CASE AddFinalizer \/ Suspend \/ SetDegraded
  BY <1>2, WriteEnds DEF AddFinalizer, Suspend, SetDegraded, Requeue, Return
<1>3. CASE EnsureCredentialPlaceholder \/ Defer \/ RequeueUntilNext
  BY <1>1, <1>3 DEF EnsureCredentialPlaceholder, Defer, RequeueUntilNext, Requeue, Return
<1>4. ASSUME NEW t \in ConditionTypes, Degrade(t), UNCHANGED apiVars, pc \in Syncing PROVE LocalStep
  BY <1>0, <1>4, MetaKept DEF Degrade, LocalStep
<1>5. CASE Connect
  <2>1. CASE Degrade("LastSyncSucceeded")
    BY <1>4, <1>5, <2>1 DEF Connect, ConditionTypes
  <2> QED BY <1>5, <2>1 DEF Connect, LocalStep
<1>6. CASE EnsureClusterDevice
  <2>1. CASE Degrade("DevicesProvisioned")
    BY <1>4, <1>6, <2>1 DEF EnsureClusterDevice, ConditionTypes
  <2>2. \A id : Meta([ls EXCEPT !.dev = id]) = Meta(ls)
    BY <1>0, MetaKept
  <2>3. CASE ~Degrade("DevicesProvisioned")
    BY <1>6, <2>2, <2>3 DEF EnsureClusterDevice, LocalStep
  <2> QED BY <2>1, <2>3
<1>7. CASE WriteCredentials
  <2>1. CASE Degrade("GEABootstrapped")
    BY <1>4, <1>7, <2>1 DEF WriteCredentials, ConditionTypes
  <2> QED BY <1>7, <2>1 DEF WriteCredentials, LocalStep
<1>8. CASE RestartDeployment
  <2>1. CASE Degrade("GEABootstrapped")
    BY <1>4, <1>8, <2>1 DEF RestartDeployment, ConditionTypes
  <2> QED BY <1>0, <1>8, <2>1, MetaKept DEF RestartDeployment, LocalStep, ConditionTypes
<1>9. CASE HealthSnapshot
  BY <1>9 DEF HealthSnapshot, LocalStep
<1>10. CASE \E n \in Nodes : EnsureNodeDevice(n)
  <2> PICK n \in Nodes : EnsureNodeDevice(n)
    BY <1>10
  <2>1. CASE Degrade("DevicesProvisioned")
    BY <1>4, <2>1 DEF EnsureNodeDevice, ConditionTypes
  <2>2. ASSUME NEW id PROVE Meta([ls EXCEPT !.nodes[n] = id]) = Meta(ls)
    <3>1. \A f : Meta([ls EXCEPT !.nodes = f]) = Meta(ls)
      BY <1>0 DEF Meta, Object
    <3>2. [ls EXCEPT !.nodes[n] = id] = [ls EXCEPT !.nodes = [ls.nodes EXCEPT ![n] = id]]
      BY <1>0 DEF Object
    <3> QED BY <3>1, <3>2
  <2>3. CASE ~Degrade("DevicesProvisioned")
    <3>1. PICK id : ls' = [ls EXCEPT !.nodes[n] = id]
      BY <2>3 DEF EnsureNodeDevice
    <3>2. Meta(ls') = Meta(ls)
      BY <2>2, <3>1
    <3> QED BY <2>3, <3>2 DEF EnsureNodeDevice, LocalStep
  <2> QED BY <2>1, <2>3
<1>11. CASE EnsureWorkflowDeployments
  <2> DEFINE provisioned == ConditionTrue(ls, "DevicesProvisioned")
  <2>1. provisioned \in Object /\ Meta(provisioned) = Meta(ls)
    BY <1>0, MetaKept, ObjectUpdateType DEF ConditionTypes
  <2>2. /\ Meta(ConditionTrue(provisioned, "WorkflowDeployed")) = Meta(ls)
        /\ Meta(Degraded(provisioned, "WorkflowDeployed")) = Meta(ls)
    BY <2>1, MetaKept DEF ConditionTypes
  <2> QED BY <1>11, <2>1, <2>2 DEF EnsureWorkflowDeployments, LocalStep
<1>12. CASE ReportState
  <2>1. CASE Degrade("GEAReachable")
    BY <1>4, <1>12, <2>1 DEF ReportState, ConditionTypes
  <2> QED BY <1>0, <1>12, <2>1, MetaKept DEF ReportState, LocalStep, ConditionTypes
<1>13. CASE Schedule
  <2>1. CASE Degrade("LastSyncSucceeded")
    BY <1>4, <1>13, <2>1 DEF Schedule, ConditionTypes
  <2> DEFINE o == ConditionTrue(ls, "LastSyncSucceeded")
  <2>2. o \in Object /\ Meta(o) = Meta(ls)
    BY <1>0, MetaKept, ObjectUpdateType DEF ConditionTypes
  <2>3. \A d : Meta([o EXCEPT !.next = d, !.phase = "Active"]) = Meta(ls)
    <3> HIDE DEF o
    <3> QED BY <2>2 DEF Meta, Object
  <2> QED BY <1>13, <2>1, <2>3 DEF Schedule, LocalStep
<1>14. CASE StartCleanup \/ (\E n \in Nodes : DeleteNodeDevice(n)) \/ DeleteClusterDevice
  <2>1. CASE Requeue
    BY <1>1, <1>14, <2>1 DEF StartCleanup, DeleteNodeDevice, DeleteClusterDevice, Requeue
  <2> QED BY <1>14, <2>1 DEF StartCleanup, DeleteNodeDevice, DeleteClusterDevice, LocalStep
<1>15. CASE RemoveFinalizer
  BY <1>15 DEF RemoveFinalizer, Requeue, Done, EndStep, CopiesAreCurrent
<1> QED
  BY <1>2, <1>3, <1>5, <1>6, <1>7, <1>8, <1>9, <1>10, <1>11, <1>12, <1>13, <1>14, <1>15
     DEF ReconcileStep

\* The copies stay what their versions say they are, and the worker's copy
\* keeps passing the guards.
LEMMA CopiesStep ==
  TypeOK /\ CopiesAreCurrent /\ GuardsHold /\ [Next]_vars => CopiesAreCurrent' /\ GuardsHold'
<1> SUFFICES ASSUME TypeOK, CopiesAreCurrent, GuardsHold, [Next]_vars
             PROVE  CopiesAreCurrent' /\ GuardsHold'
  OBVIOUS
<1>0. cr \in Object /\ cache \in Object /\ ls \in Object
  BY DEF TypeOK
<1>1. CASE EndStep
  BY <1>1 DEF EndStep, CopiesAreCurrent, GuardsHold, Untouched, Cleaning, Syncing, ProgramCounters
<1>2. CASE LocalStep
  <2>1. CopiesAreCurrent'
    BY <1>2 DEF LocalStep, CopiesAreCurrent, apiVars, Syncing, Cleaning, Untouched, ProgramCounters
  <2>2. GuardsHold'
    BY <1>2, MetaFields DEF LocalStep, GuardsHold, Syncing, Cleaning, Untouched, ProgramCounters
  <2> QED BY <2>1, <2>2
<1>3. CASE Reconcile
  <2>1. CopiesAreCurrent'
    BY <1>3 DEF Reconcile, CopiesAreCurrent, Untouched
  <2>2. GuardsHold'
    BY <1>3 DEF Reconcile, Dispatch, GuardsHold, Syncing, Cleaning, ProgramCounters
  <2> QED BY <2>1, <2>2
<1>4. CASE FirstReconcile
  <2> DEFINE new == [ls EXCEPT !.phase = "Provisioning", !.next = 0]
  <2>1. CASE WriteFails(new)
    BY <1>1, <2>1, WriteEnds
  <2>2. CASE Stored(new) /\ pc' = "placeholder" /\ ls' = new
    <3>1. CopiesAreCurrent'
      BY <2>2 DEF Stored, CopiesAreCurrent
    <3>2. Meta(new) = Meta(ls)
      BY <1>0 DEF Meta, Object
    <3>3. GuardsHold'
      BY <1>4, <2>2, <3>2, MetaFields
         DEF FirstReconcile, GuardsHold, Syncing, Cleaning, ProgramCounters
    <3> QED BY <3>1, <3>3
  <2> QED BY <1>4, <2>1, <2>2 DEF FirstReconcile
<1>5. CASE Commit
  <2>1. CASE WriteFails(ls)
    BY <1>1, <2>1, WriteEnds
  <2>2. CASE Stored(ls) /\ pc' = "requeue" /\ ls' = ls
    BY <1>5, <2>2 DEF Commit, Stored, CopiesAreCurrent, GuardsHold, Syncing, Cleaning, ProgramCounters
  <2> QED BY <1>5, <2>1, <2>2 DEF Commit
<1>6. CASE CacheSync
  BY <1>6 DEF CacheSync, workerVars, CopiesAreCurrent, GuardsHold
<1>7. CASE Tick
  <2>1. Meta(Aged(ls)) = Meta(ls) /\ Meta(Aged(cr)) = Meta(cr)
    BY <1>0, MetaKept
  <2>2. CopiesAreCurrent'
    BY <1>7, <2>1 DEF Tick, CopiesAreCurrent
  <2>3. GuardsHold'
    BY <1>7, <2>1, MetaFields DEF Tick, GuardsHold
  <2> QED BY <2>2, <2>3
<1>8. CASE \/ ToggleSuspend \/ Rename \/ Reschedule \/ DeleteObject \/ RecreateObject
  <2>1. UNCHANGED workerVars /\ cur' = {}
    BY <1>8 DEF ToggleSuspend, Rename, Reschedule, DeleteObject, RecreateObject, UserWrites
  <2> QED BY <2>1 DEF workerVars, CopiesAreCurrent, GuardsHold
<1>9. CASE Crash
  BY <1>1, <1>9 DEF Crash, Done, EndStep
<1>10. CASE UNCHANGED <<apiVars, workerVars>>
  BY <1>10 DEF apiVars, workerVars, CopiesAreCurrent, GuardsHold
<1>11. CASE TimerFires \/ StoreUpdate \/ Rollout \/ CloudDelete
  BY <1>10, <1>11 DEF TimerFires, StoreUpdate, Rollout, CloudDelete
<1>12. CASE UNCHANGED vars
  BY <1>10, <1>12 DEF vars
<1> QED
  BY <1>1, <1>2, <1>3, <1>4, <1>5, <1>6, <1>7, <1>8, <1>9, <1>11, <1>12, WorkerStep
     DEF Next, Environment

-----------------------------------------------------------------------------
(* Suspended and deleted objects *)

\* What a write of the worker may do to the object.
LEMMA StoreEffect ==
  ASSUME NEW new, Stored(new) \/ WriteFails(new)
  PROVE  cr' = cr \/ ("worker" \in cur /\ cr' = new)
  BY DEF Stored, WriteFails

\* The object is changed only by the writes of the reconciler, by users and
\* by the passing of time.
LEMMA ObjectStep ==
  ASSUME [Next]_vars
  PROVE  \/ cr' = cr
         \/ cr' = Aged(cr)
         \/ AddFinalizer \/ Suspend \/ FirstReconcile \/ Commit \/ SetDegraded \/ RemoveFinalizer
         \/ ToggleSuspend \/ Rename \/ Reschedule \/ DeleteObject \/ RecreateObject
<1>1. CASE UNCHANGED apiVars
  BY <1>1 DEF apiVars
<1>2. CASE \/ EnsureCredentialPlaceholder \/ Defer \/ Connect \/ EnsureClusterDevice
           \/ WriteCredentials \/ RestartDeployment \/ HealthSnapshot
           \/ (\E n \in Nodes : EnsureNodeDevice(n))
           \/ EnsureWorkflowDeployments \/ ReportState \/ Schedule \/ RequeueUntilNext
           \/ StartCleanup \/ (\E n \in Nodes : DeleteNodeDevice(n)) \/ DeleteClusterDevice
           \/ TimerFires \/ StoreUpdate \/ Rollout \/ CloudDelete
  BY <1>1, <1>2 DEF EnsureCredentialPlaceholder, Defer, Connect, EnsureClusterDevice,
     WriteCredentials, RestartDeployment, HealthSnapshot, EnsureNodeDevice,
     EnsureWorkflowDeployments, ReportState, Schedule, RequeueUntilNext, StartCleanup,
     DeleteNodeDevice, DeleteClusterDevice, TimerFires, StoreUpdate, Rollout, CloudDelete
<1>3. CASE Reconcile \/ CacheSync \/ Crash \/ Tick
  BY <1>3 DEF Reconcile, CacheSync, Crash, Tick
<1>4. CASE UNCHANGED vars
  BY <1>1, <1>4 DEF vars
<1> QED BY <1>2, <1>3, <1>4 DEF Next, ReconcileStep, Environment

\* No step writes the status of a suspended or deleted object.
LEMMA Resting ==
  ASSUME TypeOK, CopiesAreCurrent, GuardsHold, [Next]_vars
  PROVE  RestingStep
<1> SUFFICES ASSUME cr.there, cr'.there, cr.suspend \/ cr.deleting, cr'.suspend = cr.suspend
             PROVE  /\ cr'.phase \in {cr.phase, "Suspended"}
                    /\ cr'.next <= cr.next
                    /\ cr'.dev = cr.dev /\ cr'.nodes = cr.nodes /\ cr'.cond = cr.cond
  BY DEF RestingStep
<1>0. cr \in Object /\ ls \in Object
  BY DEF TypeOK
<1>1. CASE cr' = cr
  BY <1>0, <1>1 DEF Object
<1>2. CASE cr' = Aged(cr)
  BY <1>0, <1>2 DEF Aged, Countdown, Object
<1>3. CASE AddFinalizer
  <2>1. "worker" \in cur => ls = cr
    BY <1>3 DEF AddFinalizer, CopiesAreCurrent, Untouched
  <2> QED BY <1>0, <1>1, <1>3, <2>1, StoreEffect DEF AddFinalizer, Object
<1>4. CASE Suspend
  <2>1. "worker" \in cur => ls = cr
    BY <1>4 DEF Suspend, CopiesAreCurrent, Untouched
  <2> QED BY <1>0, <1>1, <1>4, <2>1, StoreEffect DEF Suspend, Object
<1>5. CASE FirstReconcile \/ Commit \/ SetDegraded
  <2>1. pc \in Syncing /\ pc # "idle"
    BY <1>5 DEF FirstReconcile, Commit, SetDegraded, Syncing, Cleaning, ProgramCounters
  <2>2. "worker" \notin cur
    BY <2>1, MetaFields DEF GuardsHold, CopiesAreCurrent
  <2> QED BY <1>1, <1>5, <2>2, StoreEffect DEF FirstReconcile, Commit, SetDegraded
<1>6. CASE RemoveFinalizer
  <2>1. ~NoObject.there
    BY DEF NoObject, NewObject
  <2> QED BY <1>1, <1>6, <2>1 DEF RemoveFinalizer
<1>7. CASE ToggleSuspend
  BY <1>0, <1>7 DEF ToggleSuspend, UserWrites, Object
<1>8. CASE Rename \/ Reschedule
  BY <1>0, <1>8 DEF Rename, Reschedule, UserWrites, Object
<1>9. CASE DeleteObject
  <2>1. ~NoObject.there
    BY DEF NoObject, NewObject
  <2> QED BY <1>0, <1>9, <2>1 DEF DeleteObject, UserWrites, Object
<1>10. CASE RecreateObject
  BY <1>10 DEF RecreateObject
<1> QED BY <1>1, <1>2, <1>3, <1>4, <1>5, <1>6, <1>7, <1>8, <1>9, <1>10, ObjectStep

\* A sync that was under way when the object was suspended or marked for
\* deletion never reaches its status.
THEOREM StatusIsLeftAlone == Spec => StatusRests
<1>1. Init => CopiesAreCurrent /\ GuardsHold
  BY DEF Init, CopiesAreCurrent, GuardsHold, Untouched, Cleaning, Syncing
<1>2. TypeOK /\ CopiesAreCurrent /\ GuardsHold /\ [Next]_vars => [RestingStep]_vars
  BY Resting
<1> QED BY <1>1, <1>2, TypeInit, TypeStep, CopiesStep, PTL DEF Spec, StatusRests

-----------------------------------------------------------------------------
(* Cleanup *)

\* The cleanup of the recorded devices makes progress and never goes back.
LEMMA CleanupStep == TypeOK /\ CleanupProgress /\ [Next]_vars => CleanupProgress'
<1> SUFFICES ASSUME TypeOK, CleanupProgress, [Next]_vars
             PROVE  CleanupProgress'
  OBVIOUS
<1>0. /\ ls \in Object /\ devices \subseteq Device /\ nextDev \in Nat
      /\ \A d \in devices : d.id \in Nat
  BY DEF TypeOK, Device
<1>1. \A d \in devices' : 0 < d.id /\ d.id < nextDev'
  <2>1. CASE Shrinks
    BY <2>1 DEF Shrinks, CleanupProgress
  <2>2. CASE Grows
    BY <1>0, <2>2, TypeStep DEF Grows, CleanupProgress, TypeOK
  <2>3. CASE UNCHANGED vars
    BY <2>3 DEF vars, cloudVars, CleanupProgress
  <2> QED BY <2>1, <2>2, <2>3, DevicesStep
<1>2. CASE pc' \notin {"delete", "unfinalize"}
  BY <1>1, <1>2 DEF CleanupProgress
<1>3. ASSUME pc' = pc, todo' = todo, devices' \subseteq devices,
             ls'.nodes = ls.nodes, ls'.dev = ls.dev
      PROVE  CleanupProgress'
  BY <1>1, <1>3 DEF CleanupProgress, Recorded
<1>4. CASE StartCleanup
  <2>1. CASE Requeue
    BY <1>2, <2>1 DEF Requeue, Done
  <2>2. CASE ~Requeue
    BY <1>0, <1>1, <1>4, <2>2 DEF StartCleanup, CleanupProgress, cloudVars, NoDev
  <2> QED BY <2>1, <2>2
<1>5. CASE \E n \in Nodes : DeleteNodeDevice(n)
  <2> PICK n \in Nodes : DeleteNodeDevice(n)
    BY <1>5
  <2>1. CASE Requeue
    BY <1>2, <2>1 DEF Requeue, Done
  <2>2. CASE ~Requeue
    <3>1. /\ pc = "delete" /\ pc' = "delete" /\ ls' = ls /\ todo' = todo \ {n}
          /\ devices' = {d \in devices : d.id # ls.nodes[n]}
      BY <2>2 DEF DeleteNodeDevice, Deleted
    <3> QED BY <1>1, <3>1 DEF CleanupProgress
  <2> QED BY <2>1, <2>2
<1>6. CASE DeleteClusterDevice
  <2>1. CASE Requeue
    BY <1>2, <2>1 DEF Requeue, Done
  <2>2. CASE ~Requeue
    BY <1>1, <1>6, <2>2 DEF DeleteClusterDevice, Deleted, CleanupProgress, Recorded
  <2> QED BY <2>1, <2>2
<1>7. CASE Reconcile
  BY <1>2, <1>7 DEF Reconcile, Dispatch
<1>8. CASE \/ AddFinalizer \/ Suspend \/ FirstReconcile \/ EnsureCredentialPlaceholder
           \/ Defer \/ Commit \/ RequeueUntilNext \/ SetDegraded \/ RemoveFinalizer \/ Crash
  BY <1>2, <1>8 DEF AddFinalizer, Suspend, FirstReconcile, EnsureCredentialPlaceholder,
     Defer, Commit, RequeueUntilNext, SetDegraded, RemoveFinalizer, Crash, WriteFails,
     Return, Requeue, Done
<1>9. CASE \/ Connect \/ EnsureClusterDevice \/ WriteCredentials \/ RestartDeployment
           \/ HealthSnapshot \/ (\E n \in Nodes : EnsureNodeDevice(n))
           \/ EnsureWorkflowDeployments \/ ReportState \/ Schedule
  BY <1>2, <1>9 DEF Connect, EnsureClusterDevice, WriteCredentials, RestartDeployment,
     HealthSnapshot, EnsureNodeDevice, EnsureWorkflowDeployments, ReportState, Schedule, Degrade
<1>10. CASE Tick
  BY <1>0, <1>3, <1>10 DEF Tick, Aged, Object, cloudVars
<1>11. CASE \/ CacheSync \/ TimerFires \/ StoreUpdate \/ Rollout
            \/ ToggleSuspend \/ Rename \/ Reschedule \/ DeleteObject \/ RecreateObject
  BY <1>3, <1>11 DEF CacheSync, TimerFires, StoreUpdate, Rollout, ToggleSuspend, Rename,
     Reschedule, DeleteObject, RecreateObject, UserWrites, workerVars, cloudVars
<1>12. CASE CloudDelete
  BY <1>3, <1>12 DEF CloudDelete, Deleted, workerVars
<1>13. CASE UNCHANGED vars
  BY <1>3, <1>13 DEF vars, workerVars, cloudVars
<1> QED
  BY <1>4, <1>5, <1>6, <1>7, <1>8, <1>9, <1>10, <1>11, <1>12, <1>13
     DEF Next, ReconcileStep, Environment

\* An object with the finalizer is removed only when its devices are gone.
LEMMA Removal ==
  ASSUME TypeOK, CopiesAreCurrent, CleanupProgress, [Next]_vars
  PROVE  RemovalStep
<1> SUFFICES ASSUME cr.there, cr.fin, ~cr'.there
             PROVE  \A d \in devices : d.id \notin Recorded(cr)
  BY DEF RemovalStep
<1>0. cr \in Object /\ ls \in Object
  BY DEF TypeOK
<1>1. CASE RemoveFinalizer
  BY <1>1 DEF RemoveFinalizer, CopiesAreCurrent, Untouched, CleanupProgress
<1>2. cr' # cr
  OBVIOUS
<1>3. CASE cr' = Aged(cr)
  BY <1>0, <1>3 DEF Aged, Object
<1>4. CASE AddFinalizer \/ Suspend \/ FirstReconcile \/ Commit \/ SetDegraded
  <2>1. PICK new : /\ Stored(new) \/ WriteFails(new)
                   /\ new.there = ls.there
    <3>1. CASE AddFinalizer
      BY <1>0, <3>1 DEF AddFinalizer, Object
    <3>2. CASE Suspend
      BY <1>0, <3>2 DEF Suspend, Object
    <3>3. CASE FirstReconcile
      <4>1. [ls EXCEPT !.phase = "Provisioning", !.next = 0].there = ls.there
        BY <1>0 DEF Object
      <4> QED BY <3>3, <4>1 DEF FirstReconcile
    <3>4. CASE Commit
      BY <3>4 DEF Commit
    <3>5. CASE SetDegraded
      <4>1. \A d : [ls EXCEPT !.next = d].there = ls.there
        BY <1>0 DEF Object
      <4>2. \E d : \E new \in {ls, [ls EXCEPT !.next = d]} : Stored(new) \/ WriteFails(new)
        BY <3>5 DEF SetDegraded
      <4> QED BY <4>1, <4>2
    <3> QED BY <1>4, <3>1, <3>2, <3>3, <3>4, <3>5
  <2>2. "worker" \in cur /\ cr' = new
    BY <1>2, <2>1, StoreEffect
  <2>3. ls.there = cr.there
    BY <1>4, <2>2, MetaFields
       DEF CopiesAreCurrent, AddFinalizer, Suspend, FirstReconcile, Commit, SetDegraded
  <2> QED BY <2>1, <2>2, <2>3
<1>5. CASE ToggleSuspend \/ Rename \/ Reschedule
  BY <1>0, <1>5 DEF ToggleSuspend, Rename, Reschedule, UserWrites, Object
<1>6. CASE DeleteObject \/ RecreateObject
  BY <1>0, <1>6 DEF DeleteObject, RecreateObject, UserWrites, Object
<1> QED BY <1>1, <1>2, <1>3, <1>4, <1>5, <1>6, ObjectStep

\* The finalizer holds the object back until every recorded device is gone.
THEOREM DevicesGoFirst == Spec => CleanupBeforeRemoval
<1>1. Init => CopiesAreCurrent /\ GuardsHold /\ CleanupProgress
  BY DEF Init, CopiesAreCurrent, GuardsHold, CleanupProgress, Untouched, Cleaning, Syncing
<1>2. TypeOK /\ CopiesAreCurrent /\ CleanupProgress /\ [Next]_vars => [RemovalStep]_vars
  BY Removal
<1> QED BY <1>1, <1>2, TypeInit, TypeStep, CopiesStep, CleanupStep, PTL
        DEF Spec, CleanupBeforeRemoval

-----------------------------------------------------------------------------
(* Conditions and phase *)

\* Only phase and conditions matter to ConditionsMatch.
LEMMA MatchKept ==
  ASSUME NEW o, NEW p, p.phase = o.phase, p.cond = o.cond, ConditionsMatch(o)
  PROVE  ConditionsMatch(p)
  BY DEF ConditionsMatch

\* A new object, and the placeholder for none, match.
LEMMA NewMatches ==
  /\ \A c, s : ConditionsMatch(NewObject(c, s))
  /\ ConditionsMatch(NoObject)
<1>1. ASSUME NEW c, NEW s PROVE ConditionsMatch(NewObject(c, s))
  BY DEF NewObject, ConditionsMatch
<1>2. /\ NoObject.phase = NewObject(CHOOSE c \in Clusters : TRUE, CHOOSE s \in Schedules : TRUE).phase
      /\ NoObject.cond = NewObject(CHOOSE c \in Clusters : TRUE, CHOOSE s \in Schedules : TRUE).cond
  BY DEF NoObject, NewObject
<1> QED BY <1>1, <1>2, MatchKept

\* What the updates of the reconciler do to phase and conditions.
LEMMA ConditionUpdates ==
  ASSUME NEW o \in Object, NEW t \in ConditionTypes
  PROVE  /\ Degraded(o, t).phase = "Degraded"
         /\ Degraded(o, t).cond["LastSyncSucceeded"] = "False"
         /\ ConditionTrue(o, t).phase = o.phase
         /\ ConditionTrue(o, t).cond[t] = "True"
         /\ \A u \in ConditionTypes \ {t} : ConditionTrue(o, t).cond[u] = o.cond[u]
<1>1. o.cond \in [ConditionTypes -> ConditionStatus] /\ "LastSyncSucceeded" \in ConditionTypes
  BY DEF Object, ConditionTypes
<1>2. /\ Degraded(o, t).phase = "Degraded"
      /\ Degraded(o, t).cond["LastSyncSucceeded"] = "False"
  BY <1>1 DEF Degraded, Object
<1>3. /\ ConditionTrue(o, t).phase = o.phase
      /\ ConditionTrue(o, t).cond = [o.cond EXCEPT ![t] = "True"]
  BY DEF ConditionTrue, Object
<1> QED BY <1>1, <1>2, <1>3

\* The stored object and the cached one match, and the worker's copy has the
\* conditions that its place in Reconcile implies.
LEMMA ConditionStep ==
  TypeOK /\ CopiesAreCurrent /\ ConditionProgress /\ [Next]_vars => ConditionProgress'
<1> SUFFICES ASSUME TypeOK, CopiesAreCurrent, ConditionProgress, [Next]_vars
             PROVE  ConditionProgress'
  OBVIOUS
<1>0. /\ cr \in Object /\ cache \in Object /\ ls \in Object
      /\ ls.cond \in [ConditionTypes -> ConditionStatus]
      /\ ConditionsMatch(cr) /\ ConditionsMatch(cache)
  BY DEF TypeOK, Object, ConditionProgress
<1>1. ASSUME ConditionsMatch(cr'), ConditionsMatch(cache'), pc' = "idle"
      PROVE  ConditionProgress'
  BY <1>1 DEF ConditionProgress
<1>2. ASSUME ConditionsMatch(cr'), ConditionsMatch(cache'), pc' = pc,
             ls'.phase = ls.phase, ls'.cond = ls.cond
      PROVE  ConditionProgress'
  BY <1>2, MatchKept DEF ConditionProgress
<1>3. ASSUME NEW new, ConditionsMatch(new), (Stored(new) /\ Done) \/ WriteFails(new)
      PROVE  ConditionProgress'
  BY <1>0, <1>1, <1>3 DEF Stored, WriteFails, Requeue, Done
<1>4. ASSUME UNCHANGED apiVars PROVE ConditionsMatch(cr') /\ ConditionsMatch(cache')
  BY <1>0, <1>4 DEF apiVars
<1>5. ASSUME UNCHANGED apiVars, Done PROVE ConditionProgress'
  BY <1>1, <1>4, <1>5 DEF Done
<1>6. ASSUME UNCHANGED apiVars, NEW t \in ConditionTypes, Degrade(t) PROVE ConditionProgress'
  BY <1>0, <1>4, <1>6, ConditionUpdates DEF Degrade, ConditionProgress
<1>7. CASE Reconcile
  <2>1. cr' = cr /\ cache' = cache
    BY <1>7 DEF Reconcile
  <2>2. CASE pc' = "idle"
    BY <1>0, <1>1, <2>1, <2>2
  <2>3. CASE pc' # "idle"
    <3>1. pc' = Dispatch(cache) /\ ls' = cache
      BY <1>7, <2>3 DEF Reconcile
    <3>2. pc' \in {"cleanup", "finalizer", "suspend", "first", "defer", "connect"}
      BY <2>3, <3>1 DEF Dispatch
    <3>3. pc' = "first" => cache.phase = ""
      BY <3>1 DEF Dispatch
    <3> QED BY <1>0, <2>1, <3>1, <3>2, <3>3 DEF ConditionProgress
  <2> QED BY <2>2, <2>3
<1>8. CASE AddFinalizer
  <2>1. ConditionsMatch([ls EXCEPT !.fin = TRUE])
    <3>1. ConditionsMatch(ls)
      BY <1>8 DEF AddFinalizer, ConditionProgress
    <3> QED BY <1>0, <3>1, MatchKept DEF Object
  <2> QED BY <1>3, <1>8, <2>1 DEF AddFinalizer, Requeue
<1>9. CASE Suspend
  <2>1. ConditionsMatch([ls EXCEPT !.phase = "Suspended"])
    BY <1>0 DEF Object, ConditionsMatch
  <2> QED BY <1>3, <1>9, <2>1 DEF Suspend, Return
<1>10. CASE FirstReconcile
  <2> DEFINE new == [ls EXCEPT !.phase = "Provisioning", !.next = 0]
  <2>1. ConditionsMatch(new)
    <3>1. \A t \in ConditionTypes : ls.cond[t] = "Unknown"
      BY <1>10 DEF FirstReconcile, ConditionProgress, ConditionsMatch
    <3>2. new.phase = "Provisioning" /\ new.cond = ls.cond
      BY <1>0 DEF Object
    <3> QED BY <3>1, <3>2 DEF ConditionsMatch
  <2>2. CASE WriteFails(new)
    BY <1>3, <2>1, <2>2
  <2>3. CASE Stored(new) /\ pc' = "placeholder"
    BY <1>0, <2>1, <2>3 DEF Stored, ConditionProgress
  <2> QED BY <1>10, <2>2, <2>3 DEF FirstReconcile
<1>11. CASE EnsureCredentialPlaceholder \/ Defer \/ RequeueUntilNext
  BY <1>5, <1>11 DEF EnsureCredentialPlaceholder, Defer, RequeueUntilNext, Return, Requeue
<1>12. CASE Connect
  <2>1. CASE Degrade("LastSyncSucceeded")
    BY <1>6, <1>12, <2>1 DEF Connect, ConditionTypes
  <2>2. CASE pc' = "cluster"
    BY <1>4, <1>12, <2>2 DEF Connect, ConditionProgress
  <2> QED BY <1>12, <2>1, <2>2 DEF Connect
<1>13. CASE EnsureClusterDevice
  <2>1. CASE Degrade("DevicesProvisioned")
    BY <1>6, <1>13, <2>1 DEF EnsureClusterDevice, ConditionTypes
  <2>2. CASE ~Degrade("DevicesProvisioned")
    <3>1. ls'.cond = ls.cond
      BY <1>0, <1>13, <2>2 DEF EnsureClusterDevice, Object
    <3>2. /\ pc' \in {"snapshot", "bootstrap"}
          /\ pc' = "snapshot" => ls.cond["GEABootstrapped"] = "True"
      BY <1>13, <2>2 DEF EnsureClusterDevice
    <3> QED BY <1>4, <1>13, <3>1, <3>2 DEF EnsureClusterDevice, ConditionProgress
  <2> QED BY <2>1, <2>2
<1>14. CASE WriteCredentials
  <2>1. CASE Degrade("GEABootstrapped")
    BY <1>6, <1>14, <2>1 DEF WriteCredentials, ConditionTypes
  <2>2. CASE pc' = "restart"
    BY <1>4, <1>14, <2>2 DEF WriteCredentials, ConditionProgress
  <2> QED BY <1>14, <2>1, <2>2 DEF WriteCredentials
<1>15. CASE RestartDeployment
  <2>1. CASE Degrade("GEABootstrapped")
    BY <1>6, <1>15, <2>1 DEF RestartDeployment, ConditionTypes
  <2>2. CASE pc' = "snapshot" /\ ls' = ConditionTrue(ls, "GEABootstrapped")
    <3>1. ls'.cond["GEABootstrapped"] = "True"
      BY <1>0, <2>2, ConditionUpdates DEF ConditionTypes
    <3> QED BY <1>4, <1>15, <2>2, <3>1 DEF RestartDeployment, ConditionProgress
  <2> QED BY <1>15, <2>1, <2>2 DEF RestartDeployment
<1>16. CASE HealthSnapshot
  BY <1>4, <1>16 DEF HealthSnapshot, ConditionProgress
<1>17. CASE \E n \in Nodes : EnsureNodeDevice(n)
  <2> PICK n \in Nodes : EnsureNodeDevice(n)
    BY <1>17
  <2>1. CASE Degrade("DevicesProvisioned")
    BY <1>6, <2>1 DEF EnsureNodeDevice, ConditionTypes
  <2>2. CASE ~Degrade("DevicesProvisioned")
    <3>1. PICK id : ls' = [ls EXCEPT !.nodes[n] = id]
      BY <2>2 DEF EnsureNodeDevice
    <3>2. ls'.phase = ls.phase /\ ls'.cond = ls.cond
      BY <1>0, <3>1 DEF Object
    <3>3. pc' = pc /\ UNCHANGED apiVars
      BY <2>2 DEF EnsureNodeDevice
    <3> QED BY <1>2, <1>4, <3>2, <3>3
  <2> QED BY <2>1, <2>2
<1>18. CASE EnsureWorkflowDeployments
  <2> DEFINE provisioned == ConditionTrue(ls, "DevicesProvisioned")
             deployed == ConditionTrue(provisioned, "WorkflowDeployed")
             failed == Degraded(provisioned, "WorkflowDeployed")
  <2>1. ls.cond["GEABootstrapped"] = "True" /\ UNCHANGED apiVars
    BY <1>18 DEF EnsureWorkflowDeployments, ConditionProgress
  <2>2. /\ provisioned \in Object
        /\ provisioned.cond["DevicesProvisioned"] = "True"
        /\ provisioned.cond["GEABootstrapped"] = "True"
    <3>1. /\ "DevicesProvisioned" \in ConditionTypes /\ "GEABootstrapped" \in ConditionTypes
          /\ "DevicesProvisioned" # "GEABootstrapped"
      BY DEF ConditionTypes
    <3>2. provisioned \in Object
      BY <1>0, <3>1, ObjectUpdateType
    <3> QED BY <1>0, <2>1, <3>1, <3>2, ConditionUpdates
  <2>3. /\ deployed.cond["DevicesProvisioned"] = "True"
        /\ deployed.cond["GEABootstrapped"] = "True"
        /\ failed.phase = "Degraded" /\ failed.cond["LastSyncSucceeded"] = "False"
    <3> HIDE DEF provisioned
    <3> QED BY <2>2, ConditionUpdates DEF ConditionTypes
  <2>4. \/ pc' = "report" /\ ls' \in {provisioned, deployed}
        \/ pc' = "degrade" /\ ls' = failed
    BY <1>18 DEF EnsureWorkflowDeployments
  <2> HIDE DEF provisioned, deployed, failed
  <2> QED BY <1>4, <2>1, <2>2, <2>3, <2>4 DEF ConditionProgress
<1>19. CASE ReportState
  <2>1. CASE Degrade("GEAReachable")
    BY <1>6, <1>19, <2>1 DEF ReportState, ConditionTypes
  <2>2. CASE pc' = "schedule" /\ ls' = ConditionTrue(ls, "GEAReachable")
    <3>1. /\ ls'.cond["GEAReachable"] = "True"
          /\ ls'.cond["DevicesProvisioned"] = ls.cond["DevicesProvisioned"]
          /\ ls'.cond["GEABootstrapped"] = ls.cond["GEABootstrapped"]
      BY <1>0, <2>2, ConditionUpdates DEF ConditionTypes
    <3> QED BY <1>4, <1>19, <2>2, <3>1 DEF ReportState, ConditionProgress
  <2> QED BY <1>19, <2>1, <2>2 DEF ReportState
<1>20. CASE Schedule
  <2>1. CASE Degrade("LastSyncSucceeded")
    BY <1>6, <1>20, <2>1 DEF Schedule, ConditionTypes
  <2>2. CASE ~Degrade("LastSyncSucceeded")
    <3> DEFINE o == ConditionTrue(ls, "LastSyncSucceeded")
    <3>1. PICK d : pc' = "commit" /\ ls' = [o EXCEPT !.next = d, !.phase = "Active"]
      BY <1>20, <2>2 DEF Schedule
    <3>2. /\ o \in Object
          /\ o.cond["LastSyncSucceeded"] = "True"
          /\ \A u \in ConditionTypes \ {"LastSyncSucceeded"} : o.cond[u] = ls.cond[u]
      BY <1>0, ConditionUpdates, ObjectUpdateType DEF ConditionTypes
    <3>3. ls'.phase = "Active" /\ ls'.cond = o.cond
      <4> HIDE DEF o
      <4> QED BY <3>1, <3>2 DEF Object
    <3> HIDE DEF o
    <3> QED BY <1>4, <1>20, <3>1, <3>2, <3>3 DEF Schedule, ConditionProgress, ConditionTypes
  <2> QED BY <2>1, <2>2
<1>21. CASE Commit
  <2>1. ConditionsMatch(ls)
    BY <1>21 DEF Commit, ConditionProgress, ConditionsMatch, ConditionTypes
  <2>2. CASE WriteFails(ls)
    BY <1>3, <2>1, <2>2
  <2>3. CASE Stored(ls) /\ pc' = "requeue"
    BY <1>0, <2>1, <2>3 DEF Stored, ConditionProgress
  <2> QED BY <1>21, <2>2, <2>3 DEF Commit
<1>22. CASE SetDegraded
  <2>1. PICK d : \E new \in {ls, [ls EXCEPT !.next = d]} : (Stored(new) /\ Done) \/ WriteFails(new)
    BY <1>22 DEF SetDegraded, Return
  <2> PICK new \in {ls, [ls EXCEPT !.next = d]} : (Stored(new) /\ Done) \/ WriteFails(new)
    BY <2>1
  <2>2. new.phase = ls.phase /\ new.cond = ls.cond
    BY <1>0 DEF Object
  <2>3. ConditionsMatch(new)
    BY <1>22, <2>2 DEF SetDegraded, ConditionProgress, ConditionsMatch
  <2> QED BY <1>3, <2>3
<1>23. CASE StartCleanup \/ (\E n \in Nodes : DeleteNodeDevice(n)) \/ DeleteClusterDevice
  <2>1. CASE Requeue
    BY <1>5, <1>23, <2>1 DEF StartCleanup, DeleteNodeDevice, DeleteClusterDevice, Requeue
  <2>2. CASE ~Requeue
    <3>1. pc' \in {"delete", "unfinalize"} /\ UNCHANGED apiVars
      BY <1>23, <2>2 DEF StartCleanup, DeleteNodeDevice, DeleteClusterDevice
    <3> QED BY <1>4, <3>1 DEF ConditionProgress
  <2> QED BY <2>1, <2>2
<1>24. CASE RemoveFinalizer
  BY <1>0, <1>1, <1>24, NewMatches DEF RemoveFinalizer, Requeue, Done
<1>25. CASE Crash
  BY <1>0, <1>1, <1>25 DEF Crash, Done
<1>26. CASE CacheSync
  BY <1>0, <1>2, <1>26 DEF CacheSync, workerVars
<1>27. CASE Tick
  <2>1. ASSUME NEW o \in Object PROVE Aged(o).phase = o.phase /\ Aged(o).cond = o.cond
    BY DEF Aged, Object
  <2> QED BY <1>0, <1>2, <1>27, <2>1, MatchKept DEF Tick
<1>28. ASSUME NEW new, UserWrites(new),
              (new.phase = cr.phase /\ new.cond = cr.cond) \/ ConditionsMatch(new)
       PROVE  ConditionProgress'
  BY <1>0, <1>2, <1>28, MatchKept DEF UserWrites, workerVars
<1>29. CASE ToggleSuspend \/ Rename \/ Reschedule
  <2>1. \A c : /\ [cr EXCEPT !.cluster = c].phase = cr.phase
               /\ [cr EXCEPT !.cluster = c].cond = cr.cond
               /\ [cr EXCEPT !.sched = c].phase = cr.phase
               /\ [cr EXCEPT !.sched = c].cond = cr.cond
    BY <1>0 DEF Object
  <2>2. /\ [cr EXCEPT !.suspend = ~@].phase = cr.phase
        /\ [cr EXCEPT !.suspend = ~@].cond = cr.cond
    BY <1>0 DEF Object
  <2> QED BY <1>28, <1>29, <2>1, <2>2 DEF ToggleSuspend, Rename, Reschedule
<1>30. CASE DeleteObject \/ RecreateObject
  <2>1. /\ [cr EXCEPT !.deleting = TRUE].phase = cr.phase
        /\ [cr EXCEPT !.deleting = TRUE].cond = cr.cond
    BY <1>0 DEF Object
  <2> QED BY <1>28, <1>30, <2>1, NewMatches DEF DeleteObject, RecreateObject
<1>31. CASE TimerFires \/ StoreUpdate \/ Rollout \/ CloudDelete \/ UNCHANGED vars
  <2>1. UNCHANGED apiVars /\ pc' = pc /\ ls' = ls
    BY <1>31 DEF TimerFires, StoreUpdate, Rollout, CloudDelete, vars, workerVars
  <2> QED BY <1>2, <1>4, <2>1
<1> QED
  BY <1>7, <1>8, <1>9, <1>10, <1>11, <1>12, <1>13, <1>14, <1>15, <1>16, <1>17, <1>18, <1>19,
     <1>20, <1>21, <1>22, <1>23, <1>24, <1>25, <1>26, <1>27, <1>29, <1>30, <1>31
     DEF Next, ReconcileStep, Environment

\* Phase and conditions of the stored object never contradict each other.
THEOREM PhaseAndConditionsAgree == Spec => []ConditionsMatchPhase
<1>1. Init => CopiesAreCurrent /\ GuardsHold /\ ConditionProgress
  BY NewMatches DEF Init, CopiesAreCurrent, GuardsHold, ConditionProgress, Untouched, Cleaning, Syncing
<1>2. ConditionProgress => ConditionsMatchPhase
  BY DEF ConditionProgress, ConditionsMatchPhase
<1> QED BY <1>1, <1>2, TypeInit, TypeStep, CopiesStep, ConditionStep, PTL DEF Spec

-----------------------------------------------------------------------------
(* Wakeups *)

\* A delay other than that of an interval of "0s" sets the timer.
LEMMA Timers ==
  ASSUME TypeOK
  PROVE  /\ \A s \in Schedules : \A d \in Delays(s) : d \in Nat /\ (d > 0 \/ s = "zero")
         /\ \A d \in Nat : d > 0 \/ timer # NoTimer => AddAfter(d) # NoTimer
<1>1. \A s \in Schedules : \A d \in Delays(s) : d \in Nat /\ (d > 0 \/ s = "zero")
  BY ConstantsAssumption DEF Delays, ScheduleKinds
<1>2. \A d \in Nat : d > 0 \/ timer # NoTimer => AddAfter(d) # NoTimer
  BY DEF AddAfter, NoTimer, TypeOK
<1> QED BY <1>1, <1>2

\* A reconcile that is under way, or ends with the key queued, needs no other wakeup.
LEMMA Awake ==
  ASSUME FinalizersHold', CacheHolds', StartHolds', ReturnHolds',
         pc' # "idle" \/ wake' # {} \/ timer' # NoTimer
  PROVE  WakeProgress'
  BY DEF WakeProgress, NoLostWakeup, Waking

\* A step that leaves the object, its copies and the queue alone, within a sync or
\* a cleanup.
LEMMA WakeLocal ==
  ASSUME WakeProgress, UNCHANGED <<apiVars, queueVars>>,
         pc' # "idle", pc' \in Deciding => pc \in Deciding, pc' \notin {"defer", "requeue"}
  PROVE  WakeProgress'
<1>1. UNCHANGED <<cr, cache, cur, wake, timer>>
  BY DEF apiVars, queueVars
<1>2. FinalizersHold' /\ CacheHolds' /\ StartHolds' /\ ReturnHolds'
  BY <1>1 DEF WakeProgress, FinalizersHold, CacheHolds, StartHolds, ReturnHolds
<1> QED BY <1>2, Awake

\* A reconcile that ends without a write.
LEMMA WakeEnds ==
  ASSUME WakeProgress, UNCHANGED apiVars, Done, wake \subseteq wake', wake' \subseteq wake \cup {"queue"},
         NoLostWakeup'
  PROVE  WakeProgress'
<1>1. UNCHANGED <<cr, cache, cur>> /\ pc' = "idle" /\ ("event" \in wake' <=> "event" \in wake)
  BY DEF apiVars, Done
<1>2. FinalizersHold' /\ CacheHolds' /\ StartHolds' /\ ReturnHolds'
  BY <1>1 DEF WakeProgress, FinalizersHold, CacheHolds, StartHolds, ReturnHolds, Deciding
<1> QED BY <1>2 DEF WakeProgress

LEMMA WakeRequeue ==
  ASSUME WakeProgress, UNCHANGED apiVars, Requeue
  PROVE  WakeProgress'
<1>1. NoLostWakeup'
  BY DEF Requeue, NoLostWakeup, Waking
<1> QED BY <1>1, WakeEnds DEF Requeue

\* The worker's writes of the object.
LEMMA WakeWrite ==
  ASSUME TypeOK, CopiesAreCurrent, GuardsHold, WakeProgress,
         pc # "idle",
         NEW new \in Object,
         new.there, ~new.deleting, new.fin,
         Meta(ls) = Meta(cr) => new.suspend = cr.suspend,
         "worker" \in cur /\ cr.suspend => new.phase \in {cr.phase, "Suspended"},
         "worker" \in cur /\ ~cr.suspend =>
            \/ new.phase = cr.phase /\ new.next = cr.next
            \/ ~(cache.phase = "Active" /\ cache.next > 0),
         "worker" \in cur => ls.there /\ ~ls.deleting,
         cache' = cache, wake \subseteq wake', wake' \subseteq wake \cup {"queue"},
         pc' \notin Deciding,
         cr' = cr \/ ("worker" \in cur /\ cr' = new)
  PROVE  FinalizersHold' /\ CacheHolds' /\ StartHolds'
<1>1. CASE cr' = cr
  BY <1>1 DEF WakeProgress, FinalizersHold, CacheHolds, StartHolds
<1>2. CASE "worker" \in cur /\ cr' = new
  <2>1. Meta(ls) = Meta(cr)
    BY <1>2 DEF CopiesAreCurrent
  <2>2. ls.there = cr.there /\ ls.deleting = cr.deleting /\ new.suspend = cr.suspend
    BY <2>1, MetaFields
  <2>3. cr \in Object /\ cache \in Object /\ ls \in Object
    BY DEF TypeOK
  <2>4. FinalizersHold' /\ StartHolds'
    BY <1>2 DEF WakeProgress, FinalizersHold, StartHolds
  <2>5. CacheHolds'
    BY <1>2, <2>2, <2>3 DEF WakeProgress, CacheHolds, Object
  <2> QED BY <2>4, <2>5
<1> QED BY <1>1, <1>2

\* A write that ends the reconcile, with something that wakes it again.
LEMMA WakeWriteEnds ==
  ASSUME FinalizersHold', CacheHolds', StartHolds', pc' = "idle",
         wake' # {} \/ timer' # NoTimer
  PROVE  WakeProgress'
<1>1. ReturnHolds'
  BY DEF ReturnHolds
<1> QED BY <1>1, Awake

LEMMA WakeWrites ==
  ASSUME TypeOK, CopiesAreCurrent, GuardsHold, ConditionProgress, WakeProgress,
         AddFinalizer \/ Suspend \/ FirstReconcile \/ Commit \/ SetDegraded
  PROVE  WakeProgress'
<1>0. cr \in Object /\ cache \in Object /\ ls \in Object /\ timer \in Nat \cup {NoTimer}
  BY DEF TypeOK
<1>1. ASSUME NEW new, WriteFails(new)
      PROVE  /\ cache' = cache /\ pc' = "idle" /\ wake' = wake \cup {"queue"} /\ timer' = timer
             /\ cr' = cr \/ ("worker" \in cur /\ cr' = new)
  BY <1>1 DEF WriteFails, Requeue, Done
<1>2. ASSUME NEW new, Stored(new)
      PROVE  cache' = cache /\ "worker" \in cur /\ cr' = new
  BY <1>2 DEF Stored
<1>3. CASE AddFinalizer
  <2> DEFINE new == [ls EXCEPT !.fin = TRUE]
  <2>1. pc = "finalizer" /\ ((Stored(new) /\ Requeue) \/ WriteFails(new))
    BY <1>3 DEF AddFinalizer
  <2>2. /\ new \in Object /\ new.there = ls.there /\ new.deleting = ls.deleting /\ new.fin
        /\ new.suspend = ls.suspend /\ new.phase = ls.phase /\ new.next = ls.next
    BY <1>0 DEF Object
  <2>3. ls.there /\ ~ls.deleting
    BY <2>1 DEF GuardsHold
  <2>4. "worker" \in cur => ls = cr
    BY <2>1 DEF CopiesAreCurrent, Untouched
  <2>5. /\ cache' = cache /\ pc' = "idle" /\ wake' = wake \cup {"queue"}
        /\ cr' = cr \/ ("worker" \in cur /\ cr' = new)
    BY <1>1, <1>2, <2>1 DEF Requeue, Done
  <2>6. Meta(ls) = Meta(cr) => new.suspend = cr.suspend
    BY <2>2, MetaFields
  <2> HIDE DEF new
  <2>7. FinalizersHold' /\ CacheHolds' /\ StartHolds'
    BY <2>1, <2>2, <2>3, <2>4, <2>5, <2>6, WakeWrite DEF Deciding
  <2> QED BY <2>5, <2>7, WakeWriteEnds
<1>4. CASE Suspend
  <2> DEFINE new == [ls EXCEPT !.phase = "Suspended"]
  <2>1. pc = "suspend" /\ ((Stored(new) /\ Return(0)) \/ WriteFails(new))
    BY <1>4 DEF Suspend
  <2>2. /\ new \in Object /\ new.there = ls.there /\ new.deleting = ls.deleting /\ new.fin = ls.fin
        /\ new.suspend = ls.suspend /\ new.phase = "Suspended"
    BY <1>0 DEF Object, Phases
  <2>3. ls.there /\ ~ls.deleting /\ ls.fin /\ ls.suspend
    BY <2>1 DEF GuardsHold
  <2>4. "worker" \in cur => ls = cr
    BY <2>1 DEF CopiesAreCurrent, Untouched
  <2>5. /\ cache' = cache /\ pc' = "idle" /\ wake' \in {wake, wake \cup {"queue"}}
        /\ cr' = cr \/ ("worker" \in cur /\ cr' = new)
    BY <1>1, <1>2, <2>1 DEF Return, Done
  <2>6. Meta(ls) = Meta(cr) => new.suspend = cr.suspend
    BY <2>2, MetaFields
  <2>7. Stored(new) => cr' = new
    BY <1>2
  <2>8. wake' # {} \/ cr' = new
    BY <1>1, <2>1, <2>7
  <2> HIDE DEF new
  <2>9. FinalizersHold' /\ CacheHolds' /\ StartHolds'
    BY <2>1, <2>2, <2>3, <2>4, <2>5, <2>6, WakeWrite DEF Deciding
  <2>10. ReturnHolds'
    BY <2>5 DEF ReturnHolds
  <2>11. NoLostWakeup'
    BY <2>2, <2>3, <2>8 DEF NoLostWakeup, Waking
  <2> QED BY <2>9, <2>10, <2>11 DEF WakeProgress
<1>5. CASE FirstReconcile
  <2> DEFINE new == [ls EXCEPT !.phase = "Provisioning", !.next = 0]
  <2>1. /\ pc = "first"
        /\ \/ Stored(new) /\ pc' = "placeholder" /\ UNCHANGED queueVars
           \/ WriteFails(new)
    BY <1>5 DEF FirstReconcile
  <2>2. /\ new \in Object /\ new.there = ls.there /\ new.deleting = ls.deleting /\ new.fin = ls.fin
        /\ new.suspend = ls.suspend
    BY <1>0 DEF Object, Phases
  <2>3. ls.there /\ ~ls.deleting /\ ls.fin /\ ~ls.suspend
    BY <2>1 DEF GuardsHold, Syncing, Cleaning, ProgramCounters
  <2>4. "worker" \in cur => ls = cr
    BY <2>1 DEF CopiesAreCurrent, Untouched
  <2>5. /\ cache' = cache /\ pc' \in {"idle", "placeholder"} /\ wake' \in {wake, wake \cup {"queue"}}
        /\ pc' = "idle" => wake' # {}
        /\ cr' = cr \/ ("worker" \in cur /\ cr' = new)
    BY <1>1, <1>2, <2>1 DEF queueVars
  <2>6. Meta(ls) = Meta(cr) => new.suspend = cr.suspend
    BY <2>2, MetaFields
  <2>7. "worker" \in cur => cr.phase = ""
    BY <2>1, <2>4 DEF ConditionProgress
  <2> HIDE DEF new
  <2>8. FinalizersHold' /\ CacheHolds' /\ StartHolds'
    <3>1. CASE "worker" \in cur /\ "event" \notin wake
      <4>1. ~(cache.phase = "Active" /\ cache.next > 0)
        BY <2>3, <2>4, <2>7, <3>1 DEF WakeProgress, CacheHolds
      <4> QED BY <2>1, <2>2, <2>3, <2>4, <2>5, <2>6, <4>1, WakeWrite DEF Deciding
    <3>2. CASE "worker" \notin cur
      BY <2>1, <2>2, <2>3, <2>5, <2>6, <3>2, WakeWrite DEF Deciding
    <3>3. CASE "event" \in wake
      <4>1. CacheHolds'
        BY <2>5, <3>3 DEF CacheHolds
      <4>2. FinalizersHold' /\ StartHolds'
        BY <2>2, <2>3, <2>5 DEF WakeProgress, FinalizersHold, StartHolds, Deciding
      <4> QED BY <4>1, <4>2
    <3> QED BY <3>1, <3>2, <3>3
  <2>9. ReturnHolds'
    BY <2>5 DEF ReturnHolds
  <2> QED BY <2>5, <2>8, <2>9, Awake
<1>6. CASE Commit
  <2>1. /\ pc = "commit"
        /\ \/ Stored(ls) /\ pc' = "requeue" /\ UNCHANGED <<ls, queueVars>>
           \/ WriteFails(ls)
    BY <1>6 DEF Commit
  <2>2. ls.there /\ ~ls.deleting /\ ls.fin /\ ~ls.suspend /\ ls.phase = "Active"
    BY <2>1 DEF GuardsHold, Syncing, Cleaning, ProgramCounters, ConditionProgress
  <2>3. /\ cache' = cache /\ pc' \in {"idle", "requeue"} /\ wake' \in {wake, wake \cup {"queue"}}
        /\ pc' = "idle" => wake' # {}
        /\ pc' = "requeue" => cr' = ls /\ ls' = ls
        /\ cr' = cr \/ ("worker" \in cur /\ cr' = ls)
    BY <1>1, <1>2, <2>1 DEF queueVars
  <2>4. "worker" \in cur => ~cr.suspend
    BY <2>1, <2>2, MetaFields DEF CopiesAreCurrent
  <2>5. Meta(ls) = Meta(cr) => ls.suspend = cr.suspend
    BY MetaFields
  <2>6. "worker" \in cur => ~(cache.phase = "Active" /\ cache.next > 0)
    BY <2>1 DEF WakeProgress, StartHolds, Deciding
  <2>7. FinalizersHold' /\ CacheHolds' /\ StartHolds'
    BY <1>0, <2>1, <2>2, <2>3, <2>4, <2>5, <2>6, WakeWrite DEF Deciding
  <2>8. ReturnHolds'
    BY <2>2, <2>3 DEF ReturnHolds
  <2> QED BY <2>3, <2>7, <2>8, Awake
<1>7. CASE SetDegraded
  <2>0. PICK d \in IF Delays(ls.sched) = {} THEN {Fallback} ELSE Delays(ls.sched) :
          \E new \in {ls, [ls EXCEPT !.next = d]} :
            (Stored(new) /\ Return(d)) \/ WriteFails(new)
    BY <1>7 DEF SetDegraded
  <2>1. PICK new \in {ls, [ls EXCEPT !.next = d]} :
          (Stored(new) /\ Return(d)) \/ WriteFails(new)
    BY <2>0
  <2>2. d \in Nat /\ (d > 0 \/ ls.sched = "zero")
    <3>1. ls.sched \in Schedules
      BY <1>0 DEF Object
    <3> QED BY <3>1, Timers, ConstantsAssumption
  <2>3. pc = "degrade" /\ ls.phase = "Degraded"
    BY <1>7 DEF SetDegraded, ConditionProgress
  <2>4. /\ new \in Object /\ new.there = ls.there /\ new.deleting = ls.deleting /\ new.fin = ls.fin
        /\ new.suspend = ls.suspend /\ new.phase = "Degraded" /\ new.sched = ls.sched
    BY <1>0, <2>2, <2>3 DEF Object
  <2>5. ls.there /\ ~ls.deleting /\ ls.fin /\ ~ls.suspend
    BY <2>3 DEF GuardsHold, Syncing, Cleaning, ProgramCounters
  <2>6. /\ cache' = cache /\ pc' = "idle" /\ wake' \in {wake, wake \cup {"queue"}}
        /\ cr' = cr \/ ("worker" \in cur /\ cr' = new)
    BY <1>1, <1>2, <2>1 DEF Return, Done
  <2>7. "worker" \in cur => ~cr.suspend
    BY <2>3, <2>5, MetaFields DEF CopiesAreCurrent
  <2>8. "worker" \in cur => ~(cache.phase = "Active" /\ cache.next > 0)
    BY <2>3 DEF WakeProgress, StartHolds, Deciding
  <2>9. Meta(ls) = Meta(cr) => new.suspend = cr.suspend
    BY <2>4, MetaFields
  <2>10. FinalizersHold' /\ CacheHolds' /\ StartHolds'
    BY <2>3, <2>4, <2>5, <2>6, <2>7, <2>8, <2>9, WakeWrite DEF Deciding
  <2>11. ReturnHolds'
    BY <2>6 DEF ReturnHolds
  <2>12. NoLostWakeup'
    <3>1. CASE WriteFails(new)
      BY <1>1, <3>1 DEF NoLostWakeup, Waking
    <3>2. CASE Stored(new) /\ Return(d) /\ d > 0
      BY <2>2, <3>2, Timers DEF Return, NoLostWakeup, Waking
    <3>3. CASE Stored(new) /\ ls.sched = "zero"
      BY <1>2, <2>4, <2>5, <3>3 DEF NoLostWakeup
    <3> QED BY <2>1, <2>2, <3>1, <3>2, <3>3
  <2> QED BY <2>10, <2>11, <2>12 DEF WakeProgress
<1> QED BY <1>3, <1>4, <1>5, <1>6, <1>7

\* Reconcile takes the key off the queue; when it returns at once, it is for a reason
\* that holds of the object.
LEMMA WakeReconcile ==
  ASSUME TypeOK, CopiesAreCurrent, WakeProgress, Reconcile
  PROVE  WakeProgress'
<1>0. cr \in Object /\ cache \in Object
  BY DEF TypeOK
<1>1. /\ UNCHANGED <<cr, cache, timer>> /\ wake' = wake \ {"queue"} /\ pc' = Dispatch(cache)
      /\ cur' = IF "cache" \in cur THEN cur \cup {"worker"} ELSE cur \ {"worker"}
      /\ pc' # "idle" => ls' = cache
  BY DEF Reconcile
<1>2. FinalizersHold' /\ CacheHolds'
  BY <1>1 DEF WakeProgress, FinalizersHold, CacheHolds
<1>3. pc' \in {"idle", "cleanup", "finalizer", "suspend", "first", "defer", "connect"}
  BY <1>1 DEF Dispatch
<1>4. StartHolds'
  <2>1. pc' = "connect" => ~(cache.phase = "Active" /\ cache.next > 0)
    BY <1>1 DEF Dispatch
  <2> QED BY <1>1, <1>3, <2>1 DEF StartHolds, Deciding
<1>5. ReturnHolds'
  <2>1. pc' = "defer" => ~cache.deleting /\ ~cache.suspend /\ cache.phase = "Active" /\ cache.next > 0
    BY <1>1 DEF Dispatch
  <2> QED BY <1>1, <1>2, <1>3, <2>1 DEF CacheHolds, ReturnHolds
<1>6. NoLostWakeup'
  <2>1. CASE pc' = "idle"
    <3>1. \/ ~cache.there
          \/ cache.deleting /\ ~cache.fin
          \/ ~cache.deleting /\ cache.suspend /\ cache.phase = "Suspended"
      BY <1>1, <2>1 DEF Dispatch
    <3> QED BY <1>1, <1>2, <3>1 DEF CacheHolds, FinalizersHold, NoLostWakeup, Waking
  <2>2. CASE pc' # "idle"
    BY <2>2 DEF NoLostWakeup, Waking
  <2> QED BY <2>1, <2>2
<1> QED BY <1>2, <1>4, <1>5, <1>6 DEF WakeProgress

\* The watch, the timer, the clock, people and a restart.
LEMMA WakeOthers ==
  ASSUME TypeOK, CopiesAreCurrent, WakeProgress,
         \/ CacheSync \/ TimerFires \/ Tick \/ ToggleSuspend \/ Rename \/ Reschedule
         \/ DeleteObject \/ RecreateObject \/ RemoveFinalizer \/ Crash
         \/ UNCHANGED <<apiVars, queueVars, pc, ls>>
  PROVE  WakeProgress'
<1>0. cr \in Object /\ cache \in Object /\ ls \in Object /\ timer \in Nat \cup {NoTimer}
  BY DEF TypeOK
<1>1. CASE CacheSync
  <2>1. /\ UNCHANGED <<cr, timer, pc, ls>> /\ cache' = cr /\ cur' = cur \cup {"cache"}
        /\ "cache" \notin cur /\ wake' = IF "event" \in wake THEN {"queue"} ELSE wake
    BY <1>1 DEF CacheSync, workerVars
  <2>2. FinalizersHold' /\ CacheHolds'
    BY <2>1 DEF WakeProgress, FinalizersHold, CacheHolds
  <2>3. StartHolds' /\ ReturnHolds'
    BY <2>1 DEF WakeProgress, StartHolds, ReturnHolds
  <2>4. NoLostWakeup'
    BY <2>1 DEF WakeProgress, NoLostWakeup, Waking
  <2> QED BY <2>2, <2>3, <2>4 DEF WakeProgress
<1>2. CASE TimerFires
  <2>1. UNCHANGED <<cr, cache, cur, pc>> /\ wake' = wake \cup {"queue"}
    BY <1>2 DEF TimerFires, apiVars, workerVars
  <2>2. FinalizersHold' /\ CacheHolds' /\ StartHolds' /\ ReturnHolds'
    BY <2>1 DEF WakeProgress, FinalizersHold, CacheHolds, StartHolds, ReturnHolds
  <2> QED BY <2>1, <2>2, Awake
<1>3. CASE Tick
  <2>1. /\ UNCHANGED <<cur, wake, pc>> /\ cr' = Aged(cr) /\ cache' = Aged(cache)
        /\ ls' = Aged(ls) /\ timer' = Countdown(timer)
    BY <1>3 DEF Tick
  <2>2. ASSUME NEW o \in Object
        PROVE  /\ Aged(o).there = o.there /\ Aged(o).deleting = o.deleting /\ Aged(o).fin = o.fin
               /\ Aged(o).suspend = o.suspend /\ Aged(o).sched = o.sched
               /\ Aged(o).phase = o.phase /\ (Aged(o).next > 0 => o.next > 0)
               /\ Aged(o).next = Countdown(o.next) /\ (o.next = 0 => Aged(o).next = 0)
    BY DEF Aged, Countdown, Object
  <2>3. /\ cr'.there = cr.there /\ cr'.deleting = cr.deleting /\ cr'.fin = cr.fin
        /\ cr'.suspend = cr.suspend /\ cr'.sched = cr.sched /\ cr'.phase = cr.phase
        /\ cache'.there = cache.there /\ cache'.deleting = cache.deleting
        /\ cache'.fin = cache.fin /\ cache'.suspend = cache.suspend
        /\ cache'.phase = cache.phase /\ (cache'.next > 0 => cache.next > 0)
        /\ (cr.next = cache.next => cr'.next = cache'.next)
        /\ (cr.next = ls.next => cr'.next = ls'.next) /\ (cr.next = 0 => cr'.next = 0)
    BY <1>0, <2>1, <2>2
  <2>4. timer # NoTimer => timer' # NoTimer
    BY <1>0, <2>1 DEF Countdown, NoTimer
  <2>5. FinalizersHold' /\ CacheHolds'
    BY <2>1, <2>3 DEF WakeProgress, FinalizersHold, CacheHolds
  <2>6. StartHolds' /\ ReturnHolds'
    BY <2>1, <2>3 DEF WakeProgress, StartHolds, ReturnHolds
  <2>7. NoLostWakeup'
    BY <2>1, <2>3, <2>4 DEF WakeProgress, NoLostWakeup, Waking
  <2> QED BY <2>5, <2>6, <2>7 DEF WakeProgress
<1>4. ASSUME NEW new, UserWrites(new), new.deleting => new.fin
      PROVE  WakeProgress'
  <2>1. cr' = new /\ cur' = {} /\ wake' = wake \cup {"event"} /\ cache' = cache
    BY <1>4 DEF UserWrites
  <2>2. FinalizersHold' /\ CacheHolds' /\ StartHolds' /\ ReturnHolds'
    BY <1>4, <2>1 DEF WakeProgress, FinalizersHold, CacheHolds, StartHolds, ReturnHolds
  <2> QED BY <2>1, <2>2, Awake
<1>5. ~NoObject.deleting /\ ~NoObject.there /\ \A c, s : ~NewObject(c, s).deleting
  BY DEF NoObject, NewObject
<1>6. CASE ToggleSuspend \/ Rename \/ Reschedule
  <2>1. \A x : /\ [cr EXCEPT !.cluster = x].deleting = cr.deleting
               /\ [cr EXCEPT !.cluster = x].fin = cr.fin
               /\ [cr EXCEPT !.sched = x].deleting = cr.deleting
               /\ [cr EXCEPT !.sched = x].fin = cr.fin
               /\ [cr EXCEPT !.suspend = x].deleting = cr.deleting
               /\ [cr EXCEPT !.suspend = x].fin = cr.fin
    BY <1>0 DEF Object
  <2>2. cr.deleting => cr.fin
    BY DEF WakeProgress, FinalizersHold
  <2> QED BY <1>4, <1>6, <2>1, <2>2 DEF ToggleSuspend, Rename, Reschedule
<1>7. CASE DeleteObject \/ RecreateObject
  <2>1. [cr EXCEPT !.deleting = TRUE].fin = cr.fin
    BY <1>0 DEF Object
  <2> QED BY <1>4, <1>5, <1>7, <2>1 DEF DeleteObject, RecreateObject
<1>8. CASE RemoveFinalizer
  <2>1. CASE UNCHANGED <<cr, cur>> /\ Requeue
    BY <1>8, <2>1, WakeRequeue DEF RemoveFinalizer, apiVars
  <2>2. CASE ~(UNCHANGED <<cr, cur>> /\ Requeue)
    <3>1. cr' = NoObject /\ cur' = {} /\ pc' = "idle" /\ "event" \in wake' /\ cache' = cache
      BY <1>8, <2>2 DEF RemoveFinalizer, Done
    <3>2. FinalizersHold' /\ CacheHolds' /\ StartHolds' /\ ReturnHolds'
      BY <1>5, <3>1 DEF WakeProgress, FinalizersHold, CacheHolds, StartHolds, ReturnHolds
    <3> QED BY <3>1, <3>2, Awake
  <2> QED BY <2>1, <2>2
<1>9. CASE Crash
  <2>1. /\ UNCHANGED cr /\ cache' = cr /\ cur' = {"cache"} /\ pc' = "idle"
        /\ wake' = IF cr.there THEN {"queue"} ELSE {}
    BY <1>9 DEF Crash, Done
  <2>2. FinalizersHold' /\ CacheHolds' /\ StartHolds' /\ ReturnHolds'
    BY <2>1 DEF WakeProgress, FinalizersHold, CacheHolds, StartHolds, ReturnHolds
  <2>3. NoLostWakeup'
    BY <2>1 DEF NoLostWakeup, Waking
  <2> QED BY <2>2, <2>3 DEF WakeProgress
<1>10. CASE UNCHANGED <<apiVars, queueVars, pc, ls>>
  <2>1. UNCHANGED <<cr, cache, cur, wake, timer, pc, ls>>
    BY <1>10 DEF apiVars, queueVars
  <2>2. FinalizersHold' /\ CacheHolds' /\ StartHolds' /\ ReturnHolds'
    BY <2>1 DEF WakeProgress, FinalizersHold, CacheHolds, StartHolds, ReturnHolds
  <2>3. NoLostWakeup'
    BY <2>1 DEF WakeProgress, NoLostWakeup, Waking
  <2> QED BY <2>2, <2>3 DEF WakeProgress
<1> QED BY <1>1, <1>2, <1>3, <1>6, <1>7, <1>8, <1>9, <1>10

\* The object of a reconcile that ends has something that wakes it again.
LEMMA WakeStep ==
  TypeOK /\ CopiesAreCurrent /\ GuardsHold /\ ConditionProgress /\ WakeProgress /\ [Next]_vars
    => WakeProgress'
<1> SUFFICES ASSUME TypeOK, CopiesAreCurrent, GuardsHold, ConditionProgress, WakeProgress,
                    [Next]_vars
             PROVE  WakeProgress'
  OBVIOUS
<1>1. CASE \/ Connect \/ EnsureClusterDevice \/ WriteCredentials \/ RestartDeployment
           \/ HealthSnapshot \/ (\E n \in Nodes : EnsureNodeDevice(n))
           \/ EnsureWorkflowDeployments \/ ReportState \/ Schedule
  <2>1. UNCHANGED <<apiVars, queueVars>> /\ pc \in Deciding /\ pc' \in Deciding
    BY <1>1 DEF Connect, EnsureClusterDevice, WriteCredentials, RestartDeployment,
       HealthSnapshot, EnsureNodeDevice, EnsureWorkflowDeployments, ReportState, Schedule,
       Degrade, Deciding
  <2> QED BY <2>1, WakeLocal DEF Deciding
<1>2. CASE StartCleanup \/ (\E n \in Nodes : DeleteNodeDevice(n)) \/ DeleteClusterDevice
  <2>1. CASE Requeue
    BY <1>2, <2>1, WakeRequeue DEF StartCleanup, DeleteNodeDevice, DeleteClusterDevice
  <2>2. CASE ~Requeue
    <3>1. UNCHANGED <<apiVars, queueVars>> /\ pc' \in {"delete", "unfinalize"}
      BY <1>2, <2>2 DEF StartCleanup, DeleteNodeDevice, DeleteClusterDevice
    <3> QED BY <3>1, WakeLocal DEF Deciding
  <2> QED BY <2>1, <2>2
<1>3. CASE EnsureCredentialPlaceholder
  <2>1. UNCHANGED apiVars /\ Return(1)
    BY <1>3 DEF EnsureCredentialPlaceholder
  <2>2. timer' # NoTimer
    BY <2>1, Timers DEF Return
  <2>3. NoLostWakeup'
    BY <2>2 DEF NoLostWakeup, Waking
  <2> QED BY <2>1, <2>3, WakeEnds DEF Return
<1>4. CASE Defer \/ RequeueUntilNext
  <2>1. CASE Requeue
    BY <1>4, <2>1, WakeRequeue DEF Defer, RequeueUntilNext
  <2>2. CASE Return(ls.next)
    <3>1. UNCHANGED <<cr, cache, cur, wake>> /\ pc \in {"defer", "requeue"}
      BY <1>4, <2>2 DEF Defer, RequeueUntilNext, Return, apiVars
    <3>2. NoLostWakeup'
      <4>1. ls.next \in Nat /\ timer \in Nat \cup {NoTimer}
        BY DEF TypeOK, Object
      <4>2. CASE ls.next > 0
        <5>1. timer' # NoTimer
          BY <2>2, <4>1, <4>2, Timers DEF Return
        <5> QED BY <5>1 DEF NoLostWakeup, Waking
      <4>3. CASE ls.next = 0
        BY <3>1, <4>3 DEF WakeProgress, ReturnHolds, NoLostWakeup, Waking
      <4> QED BY <4>1, <4>2, <4>3
    <3> QED BY <1>4, <2>2, <3>1, <3>2, WakeEnds DEF Defer, RequeueUntilNext, Return
  <2> QED BY <1>4, <2>1, <2>2 DEF Defer, RequeueUntilNext
<1>5. CASE StoreUpdate \/ Rollout \/ CloudDelete \/ UNCHANGED vars
  <2>1. UNCHANGED <<apiVars, queueVars, pc, ls>>
    BY <1>5 DEF StoreUpdate, Rollout, CloudDelete, vars, workerVars
  <2> QED BY <2>1, WakeOthers
<1> QED
  BY <1>1, <1>2, <1>3, <1>4, <1>5, WakeWrites, WakeReconcile, WakeOthers
     DEF Next, ReconcileStep, Environment

LEMMA SafetyHolds == Spec => [](TypeOK /\ SafetyInvariant)
<1>1. Init => SafetyInvariant
  <2>1. Init => CopiesAreCurrent /\ GuardsHold /\ CleanupProgress /\ ConditionProgress
    BY NewMatches DEF Init, CopiesAreCurrent, GuardsHold, CleanupProgress, ConditionProgress,
       Untouched, Cleaning, Syncing
  <2>2. ASSUME Init PROVE WakeProgress
    <3>1. ~NoObject.deleting /\ \A c, s : ~NewObject(c, s).deleting
      BY DEF NoObject, NewObject
    <3>2. ~cr.deleting /\ ~cache.deleting /\ wake = {"event"} /\ cur = {}
      BY <2>2, <3>1 DEF Init
    <3> QED BY <3>2 DEF WakeProgress, FinalizersHold, CacheHolds, StartHolds, ReturnHolds,
            NoLostWakeup, Waking
  <2> QED BY <2>1, <2>2 DEF SafetyInvariant
<1>2. TypeOK /\ SafetyInvariant /\ [Next]_vars => SafetyInvariant'
  BY CopiesStep, CleanupStep, ConditionStep, WakeStep DEF SafetyInvariant
<1> QED BY <1>1, <1>2, TypeInit, TypeStep, PTL DEF Spec

\* All conjuncts of the safety invariant hold in every reachable state.
THEOREM Safety == Spec => []SafetyInvariant
  BY SafetyHolds, PTL

\* No reconcile of a live object ends without anything that will run another, but
\* where the code means to rest, for an Active object whose delay is over by the time
\* it is returned, and for an interval of "0s": an Active object that is not due
\* always has its timer, or what will set it.
THEOREM NoWakeupLost == Spec => []NoLostWakeup
<1>1. SafetyInvariant => NoLostWakeup
  BY DEF SafetyInvariant, WakeProgress
<1> QED BY <1>1, Safety, PTL

-----------------------------------------------------------------------------
(* Recorded devices and the identity of the GEA *)

\* A version of the object that records the same devices, and bootstraps nothing new.
Follows(p, o) ==
  /\ p.there = o.there /\ p.deleting = o.deleting /\ p.cluster = o.cluster
  /\ p.dev = o.dev /\ p.nodes = o.nodes
  /\ p.cond["GEABootstrapped"] = "True" => o.cond["GEABootstrapped"] = "True"

\* Such a version may be taken for the earlier one.
LEMMA FollowFacts ==
  ASSUME NEW o, NEW p, Follows(p, o)
  PROVE  /\ Blank(o) => Blank(p)
         /\ Gone(o) => Gone(p)
         /\ \A ds, es : ds \subseteq es /\ Registered(o, ds) => Registered(p, es)
         /\ \A c, r, s, g : s \in {r, "pending"} /\ Identified(o, c, r, g) => Identified(p, c, s, g)
<1>1. Blank(o) => Blank(p)
  BY DEF Follows, Blank
<1>2. Gone(o) => Gone(p)
  BY <1>1 DEF Follows, Gone
<1>3. ASSUME NEW ds, NEW es, ds \subseteq es, Registered(o, ds) PROVE Registered(p, es)
  <2>1. p.dev # NoDev => \E d \in es : d.cluster = p.cluster /\ d.node = NoNode /\ d.id = p.dev
    BY <1>3 DEF Follows, Registered
  <2>2. ASSUME NEW n \in Nodes, p.nodes[n] # NoDev
        PROVE  \E d \in es : d.cluster = p.cluster /\ d.node = n /\ d.id = p.nodes[n]
    BY <1>3, <2>2 DEF Follows, Registered
  <2> QED BY <2>1, <2>2 DEF Registered
<1>4. ASSUME NEW c, NEW r, NEW s, NEW g, s \in {r, "pending"}, Identified(o, c, r, g)
      PROVE  Identified(p, c, s, g)
  BY <1>4 DEF Follows, Identified
<1> QED BY <1>1, <1>2, <1>3, <1>4

\* The updates that make such versions.
LEMMA Following ==
  ASSUME NEW o \in Object
  PROVE  /\ Follows(o, o)
         /\ Follows(Aged(o), o)
         /\ \A t \in ConditionTypes : Follows(Degraded(o, t), o)
         /\ \A t \in ConditionTypes \ {"GEABootstrapped"} : Follows(ConditionTrue(o, t), o)
         /\ \A x : /\ Follows([o EXCEPT !.fin = x], o)
                   /\ Follows([o EXCEPT !.suspend = x], o)
                   /\ Follows([o EXCEPT !.sched = x], o)
                   /\ Follows([o EXCEPT !.phase = x], o)
                   /\ Follows([o EXCEPT !.next = x], o)
         /\ \A x, y : Follows([o EXCEPT !.phase = x, !.next = y], o)
<1>1. Follows(o, o)
  BY DEF Follows
<1>2. Follows(Aged(o), o)
  BY DEF Follows, Aged, Object
<1>3. \A t \in ConditionTypes : Follows(Degraded(o, t), o)
  BY DEF Follows, Degraded, Object, ConditionTypes
<1>4. \A t \in ConditionTypes \ {"GEABootstrapped"} : Follows(ConditionTrue(o, t), o)
  BY DEF Follows, ConditionTrue, Object, ConditionTypes
<1>5. \A x : /\ Follows([o EXCEPT !.fin = x], o)
             /\ Follows([o EXCEPT !.suspend = x], o)
             /\ Follows([o EXCEPT !.sched = x], o)
             /\ Follows([o EXCEPT !.phase = x], o)
             /\ Follows([o EXCEPT !.next = x], o)
  BY DEF Follows, Object
<1>6. \A x, y : Follows([o EXCEPT !.phase = x, !.next = y], o)
  BY DEF Follows, Object
<1> QED BY <1>1, <1>2, <1>3, <1>4, <1>5, <1>6

\* A step that keeps what the copies record, or ends the reconcile.
QuietStep ==
  /\ Follows(cr', cr) /\ Follows(cache', cache)
  /\ devices \subseteq devices'
  /\ cred' = cred /\ geaDev' = geaDev /\ rollout' \in {rollout, "pending"}
  /\ \/ pc' = "idle"
     \/ pc' = pc /\ Follows(ls', ls)
     \/ pc \in Syncing /\ pc' \in Syncing \ {"bootstrap", "restart"} /\ Follows(ls', ls)
     \/ pc \in Cleaning /\ pc' \in Cleaning

LEMMA Quiet ==
  ASSUME IdentityInvariant, QuietStep
  PROVE  IdentityInvariant'
<1>1. /\ pc' \in Syncing => pc \in Syncing /\ Follows(ls', ls)
      /\ pc' \in Cleaning => pc \in Cleaning
      /\ pc' \in {"bootstrap", "restart"} => pc' = pc
  BY DEF QuietStep, Syncing, Cleaning, ProgramCounters
<1>2. /\ cr'.there = cr.there /\ cr'.deleting = cr.deleting /\ cr'.cluster = cr.cluster
      /\ cache'.there = cache.there /\ cache'.deleting = cache.deleting
      /\ cache'.cluster = cache.cluster
      /\ pc' \in Syncing => ls'.cluster = ls.cluster /\ ls'.dev = ls.dev
  BY <1>1 DEF QuietStep, Follows
<1>3. /\ Blank(cr) => Blank(cr')
      /\ Blank(cache) => Blank(cache')
      /\ Gone(cr) => Gone(cr')
      /\ Gone(cache) => Gone(cache')
  BY FollowFacts DEF QuietStep
<1>4. LineageHolds'
  BY <1>1, <1>2, <1>3 DEF IdentityInvariant, LineageHolds
<1>5. RegistrationHolds'
  BY <1>1, <1>2, FollowFacts DEF IdentityInvariant, RegistrationHolds, QuietStep
<1>6. IdentityHolds'
  <2>1. cr'.there /\ ~cr'.deleting => Identified(cr', cred', rollout', geaDev')
    BY <1>2, FollowFacts DEF IdentityInvariant, IdentityHolds, QuietStep
  <2>2. cache'.there /\ ~cache'.deleting => Identified(cache', cred', rollout', geaDev')
    BY <1>2, FollowFacts DEF IdentityInvariant, IdentityHolds, QuietStep
  <2>3. pc' \in Syncing => Identified(ls', cred', rollout', geaDev')
    BY <1>1, FollowFacts DEF IdentityInvariant, IdentityHolds, QuietStep
  <2>4. /\ pc' \in {"bootstrap", "restart"} => ls'.dev # NoDev
        /\ pc' = "restart" => cred' = [there |-> TRUE, dev |-> ls'.dev]
    BY <1>1, <1>2 DEF IdentityInvariant, IdentityHolds, QuietStep, Syncing, Cleaning, ProgramCounters
  <2> QED BY <2>1, <2>2, <2>3, <2>4 DEF IdentityHolds
<1> QED BY <1>4, <1>5, <1>6 DEF IdentityInvariant

\* The reconcile's steps that are of this kind: all but those that read the object,
\* find or delete a device, write credentials, bootstrap, or store an outcome.
LEMMA QuietReconcile ==
  ASSUME TypeOK, CopiesAreCurrent,
         \/ AddFinalizer \/ Suspend \/ FirstReconcile \/ EnsureCredentialPlaceholder \/ Defer
         \/ Connect \/ HealthSnapshot \/ EnsureWorkflowDeployments \/ ReportState \/ Schedule
         \/ RequeueUntilNext \/ StartCleanup
  PROVE  QuietStep \/ EnsureCredentialPlaceholder
<1> USE DEF Syncing, Cleaning, ProgramCounters
<1>0. cr \in Object /\ cache \in Object /\ ls \in Object
  BY DEF TypeOK
<1>1. Follows(cr, cr) /\ Follows(cache, cache) /\ Follows(ls, ls)
  BY <1>0, Following
<1>2. ASSUME UNCHANGED <<apiVars, devices, cred, geaDev, rollout>>,
             \/ pc' = "idle"
             \/ pc \in Syncing /\ pc' \in Syncing \ {"bootstrap", "restart"} /\ Follows(ls', ls)
             \/ pc \in Cleaning /\ pc' \in Cleaning
      PROVE  QuietStep
  BY <1>1, <1>2 DEF QuietStep, apiVars
<1>3. ASSUME NEW new, Stored(new) \/ WriteFails(new), pc \in Untouched, Follows(new, ls)
      PROVE  cache' = cache /\ Follows(cr', cr)
  BY <1>1, <1>3 DEF Stored, WriteFails, CopiesAreCurrent, Untouched
<1>4. CASE AddFinalizer
  <2>1. Follows([ls EXCEPT !.fin = TRUE], ls)
    BY <1>0, Following
  <2>2. cache' = cache /\ Follows(cr', cr)
    BY <1>3, <1>4, <2>1 DEF AddFinalizer, Untouched
  <2> QED BY <1>1, <1>4, <2>2 DEF AddFinalizer, WriteFails, Requeue, Done, QuietStep, cloudVars, geaVars
<1>5. CASE Suspend
  <2>1. Follows([ls EXCEPT !.phase = "Suspended"], ls)
    BY <1>0, Following
  <2>2. cache' = cache /\ Follows(cr', cr)
    BY <1>3, <1>5, <2>1 DEF Suspend, Untouched
  <2> QED BY <1>1, <1>5, <2>2 DEF Suspend, WriteFails, Requeue, Return, Done, QuietStep, cloudVars, geaVars
<1>6. CASE FirstReconcile
  <2> DEFINE new == [ls EXCEPT !.phase = "Provisioning", !.next = 0]
  <2>1. Follows(new, ls)
    BY <1>0, Following
  <2>2. /\ pc = "first"
        /\ Stored(new) \/ WriteFails(new)
        /\ pc' = "idle" \/ (pc' = "placeholder" /\ ls' = new)
        /\ UNCHANGED <<devices, cred, geaDev, rollout>>
    BY <1>6 DEF FirstReconcile, WriteFails, Requeue, Done, cloudVars, geaVars
  <2> HIDE DEF new
  <2>3. cache' = cache /\ Follows(cr', cr)
    BY <1>3, <2>1, <2>2 DEF Untouched
  <2> QED BY <1>1, <2>1, <2>2, <2>3 DEF QuietStep
<1>7. CASE Defer \/ RequeueUntilNext
  BY <1>2, <1>7 DEF Defer, RequeueUntilNext, Return, Requeue, Done, cloudVars, geaVars
<1>8. \A t \in ConditionTypes : Degrade(t) => pc' = "degrade" /\ Follows(ls', ls)
  BY <1>0, Following DEF Degrade
<1>9. CASE Connect
  BY <1>1, <1>2, <1>8, <1>9 DEF Connect, ConditionTypes, cloudVars, geaVars
<1>10. CASE HealthSnapshot
  BY <1>1, <1>2, <1>10 DEF HealthSnapshot, cloudVars, geaVars
<1>11. CASE EnsureWorkflowDeployments
  <2> DEFINE provisioned == ConditionTrue(ls, "DevicesProvisioned")
  <2>1. provisioned \in Object /\ Follows(provisioned, ls)
    BY <1>0, Following, ObjectUpdateType DEF ConditionTypes
  <2>2. /\ Follows(ConditionTrue(provisioned, "WorkflowDeployed"), provisioned)
        /\ Follows(Degraded(provisioned, "WorkflowDeployed"), provisioned)
    BY <2>1, Following DEF ConditionTypes
  <2>3. \A o : Follows(o, provisioned) => Follows(o, ls)
    BY <2>1 DEF Follows
  <2>4. /\ pc = "nodes" /\ pc' \in {"report", "degrade"}
        /\ UNCHANGED <<apiVars, devices, cred, geaDev, rollout>>
        /\ ls' \in {provisioned, ConditionTrue(provisioned, "WorkflowDeployed"),
                    Degraded(provisioned, "WorkflowDeployed")}
    BY <1>11 DEF EnsureWorkflowDeployments, cloudVars, geaVars
  <2> HIDE DEF provisioned
  <2>5. Follows(ls', ls)
    BY <2>1, <2>2, <2>3, <2>4
  <2> QED BY <1>2, <2>4, <2>5
<1>12. CASE ReportState
  <2>1. Follows(ConditionTrue(ls, "GEAReachable"), ls)
    BY <1>0, Following DEF ConditionTypes
  <2> QED BY <1>2, <1>8, <1>12, <2>1 DEF ReportState, ConditionTypes, cloudVars, geaVars
<1>13. CASE Schedule
  <2> DEFINE o == ConditionTrue(ls, "LastSyncSucceeded")
  <2>1. o \in Object /\ Follows(o, ls)
    BY <1>0, Following, ObjectUpdateType DEF ConditionTypes
  <2>2. \A d : Follows([o EXCEPT !.next = d, !.phase = "Active"], o)
    <3> HIDE DEF o
    <3> QED BY <2>1 DEF Follows, Object
  <2>3. \A d : Follows([o EXCEPT !.next = d, !.phase = "Active"], ls)
    <3> HIDE DEF o
    <3> QED BY <2>1, <2>2 DEF Follows
  <2> QED BY <1>2, <1>8, <1>13, <2>3 DEF Schedule, ConditionTypes, cloudVars, geaVars
<1>14. CASE StartCleanup
  BY <1>2, <1>14 DEF StartCleanup, Requeue, Done, cloudVars, geaVars
<1> QED BY <1>4, <1>5, <1>6, <1>7, <1>9, <1>10, <1>11, <1>12, <1>13, <1>14

\* A write of the credentials is safe when every copy that says GEABootstrapped is
\* about the credentials that are already there.
LEMMA CredentialsChange ==
  ASSUME TypeOK, IdentityInvariant, UNCHANGED <<apiVars, devices, geaDev, rollout>>,
         pc \in Syncing,
         pc' = "idle" \/ (pc' \in {"restart", "degrade"} /\ Follows(ls', ls)),
         pc' = "restart" => ls.dev # NoDev /\ cred' = [there |-> TRUE, dev |-> ls.dev],
         cr.there /\ ~cr.deleting /\ cr.cond["GEABootstrapped"] = "True" => cred' = cred,
         cache.there /\ ~cache.deleting /\ cache.cond["GEABootstrapped"] = "True" => cred' = cred,
         pc' # "idle" /\ ls.cond["GEABootstrapped"] = "True" => cred' = cred
  PROVE  IdentityInvariant'
<1> USE DEF Syncing, Cleaning, ProgramCounters
<1>0. cr' = cr /\ cache' = cache /\ devices' = devices /\ geaDev' = geaDev /\ rollout' = rollout
  BY DEF apiVars
<1>1. pc' # "idle" => Follows(ls', ls) /\ ls'.cluster = ls.cluster /\ ls'.dev = ls.dev
  BY DEF Follows
<1>2. LineageHolds'
  BY <1>0, <1>1 DEF IdentityInvariant, LineageHolds
<1>3. RegistrationHolds'
  BY <1>0, <1>1, FollowFacts DEF IdentityInvariant, RegistrationHolds
<1>4. IdentityHolds'
  <2>1. cr.there /\ ~cr.deleting => Identified(cr, cred', rollout, geaDev)
    BY DEF IdentityInvariant, IdentityHolds, Identified
  <2>2. cache.there /\ ~cache.deleting => Identified(cache, cred', rollout, geaDev)
    BY DEF IdentityInvariant, IdentityHolds, Identified
  <2>3. pc' # "idle" => Identified(ls, cred', rollout, geaDev)
    BY DEF IdentityInvariant, IdentityHolds, Identified
  <2>4. pc' # "idle" => Identified(ls', cred', rollout, geaDev)
    BY <1>1, <2>3, FollowFacts
  <2> QED BY <1>0, <1>1, <2>1, <2>2, <2>4 DEF IdentityHolds
<1> QED BY <1>2, <1>3, <1>4 DEF IdentityInvariant

\* The device that a status records as its cluster device is the one that the
\* reconcile has found for the same cluster.
LEMMA SameDevice ==
  ASSUME UniqueDeviceNames, NEW o, NEW p, Registered(o, devices), Registered(p, devices),
         o.cluster = p.cluster, o.dev # NoDev, p.dev # NoDev
  PROVE  o.dev = p.dev
<1>1. PICK d \in devices : d.cluster = o.cluster /\ d.node = NoNode /\ d.id = o.dev
  BY DEF Registered
<1>2. PICK e \in devices : e.cluster = p.cluster /\ e.node = NoNode /\ e.id = p.dev
  BY DEF Registered
<1>3. d = e
  BY <1>1, <1>2 DEF UniqueDeviceNames
<1> QED BY <1>1, <1>2, <1>3

\* Whether the devices of a status are registered depends on nothing else of it.
LEMMA SameRegistration ==
  ASSUME NEW o, NEW p, NEW ds, p.cluster = o.cluster, p.dev = o.dev, p.nodes = o.nodes,
         Registered(o, ds)
  PROVE  Registered(p, ds)
<1>1. ASSUME p.dev # NoDev
      PROVE  \E d \in ds : d.cluster = p.cluster /\ d.node = NoNode /\ d.id = p.dev
  <2>1. PICK d \in ds : d.cluster = o.cluster /\ d.node = NoNode /\ d.id = o.dev
    BY <1>1 DEF Registered
  <2> QED BY <2>1
<1>2. ASSUME NEW n \in Nodes, p.nodes[n] # NoDev
      PROVE  \E d \in ds : d.cluster = p.cluster /\ d.node = n /\ d.id = p.nodes[n]
  <2>1. PICK d \in ds : d.cluster = o.cluster /\ d.node = n /\ d.id = o.nodes[n]
    BY <1>2 DEF Registered
  <2> QED BY <2>1
<1> QED BY <1>1, <1>2, Zenon DEF Registered

LEMMA IdentityCredentials ==
  ASSUME TypeOK, UniqueDeviceNames, IdentityInvariant,
         EnsureCredentialPlaceholder \/ WriteCredentials
  PROVE  IdentityInvariant'
<1> USE DEF Syncing, Cleaning, ProgramCounters
<1>0. cr \in Object /\ cache \in Object /\ ls \in Object /\ cred \in [there: BOOLEAN, dev: Nat]
  BY DEF TypeOK
<1>1. CASE EnsureCredentialPlaceholder
  <2>1. /\ UNCHANGED <<apiVars, devices, geaDev, rollout>> /\ pc = "placeholder" /\ pc' = "idle"
        /\ cred' \in {cred, [cred EXCEPT !.there = TRUE]}
    BY <1>1 DEF EnsureCredentialPlaceholder, Return, Done, cloudVars
  <2>2. cred.there => cred' = cred
    BY <1>0, <2>1
  <2>3. ASSUME NEW o, Identified(o, cred, rollout, geaDev), o.cond["GEABootstrapped"] = "True"
        PROVE  cred.there
    BY <2>3 DEF Identified
  <2>4. /\ cr.there /\ ~cr.deleting /\ cr.cond["GEABootstrapped"] = "True" => cred' = cred
        /\ cache.there /\ ~cache.deleting /\ cache.cond["GEABootstrapped"] = "True" => cred' = cred
    BY <2>2, <2>3 DEF IdentityInvariant, IdentityHolds
  <2> QED BY <2>1, <2>4, CredentialsChange
<1>2. CASE WriteCredentials
  <2> DEFINE new == [there |-> TRUE, dev |-> ls.dev]
  <2>1. /\ UNCHANGED <<apiVars, devices, geaDev, rollout>> /\ pc = "bootstrap"
        /\ cred' \in {cred, new}
        /\ \/ pc' = "restart" /\ ls' = ls /\ cred' = new
           \/ Degrade("GEABootstrapped")
    BY <1>2 DEF WriteCredentials, cloudVars
  <2>2. pc' \in {"restart", "degrade"} /\ Follows(ls', ls)
    BY <1>0, <2>1, Following DEF Degrade, ConditionTypes
  <2>3. ls.dev # NoDev /\ Registered(ls, devices)
    BY <2>1 DEF IdentityInvariant, IdentityHolds, RegistrationHolds
  <2>4. ASSUME NEW o, Identified(o, cred, rollout, geaDev), o.cond["GEABootstrapped"] = "True",
               Registered(o, devices), o.cluster = ls.cluster
        PROVE  cred = new
    BY <2>3, <2>4, SameDevice DEF Identified
  <2>5. cr.there /\ ~cr.deleting /\ cr.cond["GEABootstrapped"] = "True" => cred = new
    BY <2>1, <2>4 DEF IdentityInvariant, IdentityHolds, RegistrationHolds, LineageHolds, Blank
  <2>6. cache.there /\ ~cache.deleting /\ cache.cond["GEABootstrapped"] = "True" => cred = new
    BY <2>1, <2>4 DEF IdentityInvariant, IdentityHolds, RegistrationHolds, LineageHolds, Blank
  <2>7. ls.cond["GEABootstrapped"] = "True" => cred = new
    BY <2>1 DEF IdentityInvariant, IdentityHolds, Identified
  <2>8. pc' = "restart" => cred' = new
    BY <2>1 DEF Degrade
  <2> HIDE DEF new
  <2>9. cred = new => cred' = cred
    BY <2>1
  <2>10. pc' = "restart" => cred' = [there |-> TRUE, dev |-> ls.dev]
    BY <2>8 DEF new
  <2> QED BY <2>1, <2>2, <2>3, <2>5, <2>6, <2>7, <2>9, <2>10, CredentialsChange
<1> QED BY <1>1, <1>2

\* The GEA is restarted with the credentials of the cluster device, or starts with them.
LEMMA IdentityRestart ==
  ASSUME TypeOK, IdentityInvariant, RestartDeployment \/ Rollout
  PROVE  IdentityInvariant'
<1> USE DEF Syncing, Cleaning, ProgramCounters
<1>0. cr \in Object /\ cache \in Object /\ ls \in Object
  BY DEF TypeOK
<1>1. Follows(cr, cr) /\ Follows(cache, cache) /\ Follows(ls, ls)
  BY <1>0, Following
<1>2. CASE RestartDeployment
  <2>1. /\ UNCHANGED <<cr, cache, devices, cred, geaDev>> /\ pc = "restart"
        /\ \/ /\ rollout' = "pending" /\ pc' = "snapshot"
              /\ ls' = ConditionTrue(ls, "GEABootstrapped")
           \/ rollout' \in {rollout, "pending"} /\ Degrade("GEABootstrapped")
    BY <1>2 DEF RestartDeployment, apiVars, cloudVars
  <2>2. CASE Degrade("GEABootstrapped")
    <3>1. pc' = "degrade" /\ Follows(ls', ls)
      BY <1>0, <2>2, Following DEF Degrade, ConditionTypes
    <3>2. QuietStep
      BY <1>1, <2>1, <3>1 DEF QuietStep
    <3> QED BY <3>2, Quiet
  <2>3. CASE rollout' = "pending" /\ pc' = "snapshot" /\ ls' = ConditionTrue(ls, "GEABootstrapped")
    <3>1. ls'.cluster = ls.cluster /\ ls'.dev = ls.dev /\ ls'.nodes = ls.nodes
      BY <1>0, <2>3 DEF ConditionTrue, Object
    <3>2. LineageHolds'
      BY <2>1, <2>3, <3>1 DEF IdentityInvariant, LineageHolds
    <3>3. Registered(ls, devices) => Registered(ls', devices)
      BY <3>1, SameRegistration
    <3>4. RegistrationHolds'
      BY <2>1, <2>3, <3>3 DEF IdentityInvariant, RegistrationHolds
    <3>5. Identified(ls', cred, rollout', geaDev)
      BY <2>1, <2>3, <3>1 DEF IdentityInvariant, IdentityHolds, Identified
    <3>6. /\ cr.there /\ ~cr.deleting => Identified(cr, cred, rollout', geaDev)
          /\ cache.there /\ ~cache.deleting => Identified(cache, cred, rollout', geaDev)
      BY <2>3 DEF IdentityInvariant, IdentityHolds, Identified
    <3>7. IdentityHolds'
      BY <2>1, <2>3, <3>5, <3>6 DEF IdentityHolds
    <3> QED BY <3>2, <3>4, <3>7 DEF IdentityInvariant
  <2> QED BY <2>1, <2>2, <2>3
<1>3. CASE Rollout
  <2>1. UNCHANGED <<cr, cache, pc, ls, devices, cred>> /\ rollout' = "done" /\ geaDev' = cred.dev
    BY <1>3 DEF Rollout, apiVars, workerVars, cloudVars
  <2>2. LineageHolds' /\ RegistrationHolds'
    BY <2>1 DEF IdentityInvariant, LineageHolds, RegistrationHolds
  <2>3. \A o : Identified(o, cred, rollout, geaDev) => Identified(o, cred, "done", cred.dev)
    BY DEF Identified
  <2>4. IdentityHolds'
    BY <2>1, <2>3 DEF IdentityInvariant, IdentityHolds
  <2> QED BY <2>2, <2>4 DEF IdentityInvariant
<1> QED BY <1>2, <1>3

\* A sync finds or creates a device and records it.
LEMMA IdentityFound ==
  ASSUME IdentityInvariant, UNCHANGED <<cr, cache, cred, geaDev, rollout>>,
         pc \in Syncing, pc' \in Syncing \ {"restart"},
         devices \subseteq devices', Registered(ls', devices'), ls'.cluster = ls.cluster,
         Identified(ls', cred, rollout, geaDev), pc' = "bootstrap" => ls'.dev # NoDev
  PROVE  IdentityInvariant'
<1> USE DEF Syncing, Cleaning, ProgramCounters
<1>1. LineageHolds'
  BY DEF IdentityInvariant, LineageHolds
<1>2. ASSUME NEW o, Registered(o, devices) PROVE Registered(o, devices')
  BY <1>2 DEF Registered
<1>3. RegistrationHolds'
  BY <1>2 DEF IdentityInvariant, RegistrationHolds
<1>4. IdentityHolds'
  BY DEF IdentityInvariant, IdentityHolds
<1> QED BY <1>1, <1>3, <1>4 DEF IdentityInvariant

\* What Ensured returns is the identifier of a device of that name.
LEMMA EnsuredDevice ==
  ASSUME NEW c, NEW n, NEW g, NEW id, Ensured(c, n, g, id)
  PROVE  /\ devices \subseteq devices'
         /\ \E d \in devices' : d.cluster = c /\ d.node = n /\ d.id = id
         /\ Named(c, n) # {} => \E d \in Named(c, n) : d.id = id
<1>1. CASE Named(c, n) # {}
  <2>1. UNCHANGED cloudVars /\ \E d \in Named(c, n) : d.id = id
    BY <1>1 DEF Ensured
  <2> QED BY <2>1 DEF cloudVars, Named
<1>2. CASE Named(c, n) = {}
  <2> DEFINE new == [id |-> id, cluster |-> c, node |-> n, gateway |-> g]
  <2>1. devices' = devices \cup {new}
    BY <1>2 DEF Ensured
  <2>2. new.cluster = c /\ new.node = n /\ new.id = id
    OBVIOUS
  <2> HIDE DEF new
  <2> QED BY <1>2, <2>1, <2>2
<1> QED BY <1>1, <1>2

\* A sync that fails in one of these calls may have created the device all the same.
LEMMA IdentityNotFound ==
  ASSUME TypeOK, IdentityInvariant, UNCHANGED <<apiVars, geaVars>>, pc \in {"cluster", "nodes"},
         devices \subseteq devices', Degrade("DevicesProvisioned")
  PROVE  IdentityInvariant'
<1>0. cr \in Object /\ cache \in Object /\ ls \in Object
  BY DEF TypeOK
<1>1. Follows(cr, cr) /\ Follows(cache, cache) /\ Follows(ls', ls) /\ pc' = "degrade"
  BY <1>0, Following DEF Degrade, ConditionTypes
<1>2. QuietStep
  BY <1>1 DEF QuietStep, apiVars, geaVars, Syncing, Cleaning, ProgramCounters
<1> QED BY <1>2, Quiet

LEMMA IdentityEnsure ==
  ASSUME TypeOK, UniqueDeviceNames, IdentityInvariant,
         EnsureClusterDevice \/ \E n \in Nodes : EnsureNodeDevice(n)
  PROVE  IdentityInvariant'
<1> USE DEF Syncing, Cleaning, ProgramCounters
<1>0. ls \in Object /\ nextDev \in Nat
  BY DEF TypeOK
<1>1. CASE EnsureClusterDevice
  <2>1. UNCHANGED <<apiVars, geaVars>> /\ pc = "cluster"
    BY <1>1 DEF EnsureClusterDevice
  <2>2. CASE Degrade("DevicesProvisioned")
    <3>1. devices \subseteq devices'
      BY <1>1, <2>2, EnsuredDevice DEF EnsureClusterDevice, cloudVars
    <3> QED BY <2>1, <2>2, <3>1, IdentityNotFound
  <2>3. CASE \E id \in 1..nextDev :
               /\ Ensured(ls.cluster, NoNode, NoDev, id)
               /\ ls' = [ls EXCEPT !.dev = id]
               /\ pc' = IF ls.cond["GEABootstrapped"] = "True" THEN "snapshot" ELSE "bootstrap"
    <3>1. PICK id \in 1..nextDev :
               /\ Ensured(ls.cluster, NoNode, NoDev, id)
               /\ ls' = [ls EXCEPT !.dev = id]
               /\ pc' = IF ls.cond["GEABootstrapped"] = "True" THEN "snapshot" ELSE "bootstrap"
      BY <2>3
    <3>2. /\ ls'.cluster = ls.cluster /\ ls'.nodes = ls.nodes /\ ls'.cond = ls.cond /\ ls'.dev = id
      BY <1>0, <3>1 DEF Object
    <3>3. id # NoDev
      BY <1>0 DEF NoDev
    <3>4. /\ devices \subseteq devices'
          /\ \E d \in devices' : d.cluster = ls.cluster /\ d.node = NoNode /\ d.id = id
          /\ Named(ls.cluster, NoNode) # {} => \E d \in Named(ls.cluster, NoNode) : d.id = id
      BY <3>1, EnsuredDevice
    <3>5. Registered(ls, devices) /\ Identified(ls, cred, rollout, geaDev)
      BY <2>1 DEF IdentityInvariant, RegistrationHolds, IdentityHolds
    <3>6. Registered(ls', devices')
      <4> HIDE DEF Syncing, Cleaning, ProgramCounters
      <4>1. ASSUME NEW n \in Nodes, ls'.nodes[n] # NoDev
            PROVE  \E d \in devices' : d.cluster = ls'.cluster /\ d.node = n /\ d.id = ls'.nodes[n]
        <5>1. PICK d \in devices : d.cluster = ls.cluster /\ d.node = n /\ d.id = ls.nodes[n]
          BY <3>2, <3>5, <4>1, Zenon DEF Registered
        <5>2. d \in devices'
          BY <3>4
        <5> QED BY <3>2, <5>1, <5>2, Zenon
      <4>2. \E d \in devices' : d.cluster = ls'.cluster /\ d.node = NoNode /\ d.id = ls'.dev
        BY <3>2, <3>4, Zenon
      <4> QED BY <4>1, <4>2, Zenon DEF Registered
    <3>7. ls.cond["GEABootstrapped"] = "True" => ls.dev = id
      <4> SUFFICES ASSUME ls.cond["GEABootstrapped"] = "True" PROVE ls.dev = id
        OBVIOUS
      <4>1. PICK d \in devices : d.cluster = ls.cluster /\ d.node = NoNode /\ d.id = ls.dev
        BY <3>5 DEF Identified, Registered
      <4>2. PICK e \in Named(ls.cluster, NoNode) : e.id = id
        BY <3>4, <4>1 DEF Named
      <4>3. d = e
        BY <4>1, <4>2 DEF UniqueDeviceNames, Named
      <4> QED BY <4>1, <4>2, <4>3
    <3>8. Identified(ls', cred, rollout, geaDev)
      BY <3>2, <3>3, <3>5, <3>7 DEF Identified
    <3>9. UNCHANGED <<cr, cache, cred, geaDev, rollout>> /\ pc' \in {"snapshot", "bootstrap"}
      BY <2>1, <3>1 DEF apiVars, geaVars
    <3> QED BY <2>1, <3>2, <3>3, <3>4, <3>6, <3>8, <3>9, IdentityFound
  <2> QED BY <1>1, <2>2, <2>3 DEF EnsureClusterDevice
<1>2. CASE \E n \in Nodes : EnsureNodeDevice(n)
  <2>0. PICK n \in Nodes : EnsureNodeDevice(n)
    BY <1>2
  <2>1. UNCHANGED <<apiVars, geaVars>> /\ pc = "nodes"
    BY <2>0 DEF EnsureNodeDevice
  <2>2. CASE Degrade("DevicesProvisioned")
    <3>1. devices \subseteq devices'
      BY <2>0, <2>2, EnsuredDevice DEF EnsureNodeDevice, cloudVars
    <3> QED BY <2>1, <2>2, <3>1, IdentityNotFound
  <2>3. CASE \E id \in 1..nextDev : Ensured(ls.cluster, n, ls.dev, id)
                /\ ls' = [ls EXCEPT !.nodes[n] = id] /\ pc' = pc
    <3>1. PICK id \in 1..nextDev : Ensured(ls.cluster, n, ls.dev, id)
                /\ ls' = [ls EXCEPT !.nodes[n] = id] /\ pc' = pc
      BY <2>3
    <3>2. /\ ls'.cluster = ls.cluster /\ ls'.dev = ls.dev /\ ls'.cond = ls.cond
          /\ ls'.nodes = [ls.nodes EXCEPT ![n] = id]
      BY <1>0, <3>1 DEF Object
    <3>3. ls.nodes \in [Nodes -> Nat]
      BY <1>0 DEF Object
    <3>4. /\ devices \subseteq devices'
          /\ \E d \in devices' : d.cluster = ls.cluster /\ d.node = n /\ d.id = id
      BY <3>1, EnsuredDevice
    <3>5. Registered(ls, devices) /\ Identified(ls, cred, rollout, geaDev)
      BY <2>1 DEF IdentityInvariant, RegistrationHolds, IdentityHolds
    <3>6. Registered(ls', devices')
      <4> HIDE DEF Syncing, Cleaning, ProgramCounters
      <4>1. ASSUME NEW m \in Nodes, ls'.nodes[m] # NoDev
            PROVE  \E d \in devices' : d.cluster = ls'.cluster /\ d.node = m /\ d.id = ls'.nodes[m]
        <5>1. CASE m = n
          <6>1. ls'.nodes[m] = id
            BY <3>2, <3>3, <5>1
          <6> QED BY <3>2, <3>4, <5>1, <6>1, Zenon
        <5>2. CASE m # n
          <6>1. ls'.nodes[m] = ls.nodes[m]
            BY <3>2, <3>3, <5>2
          <6>2. PICK d \in devices : d.cluster = ls.cluster /\ d.node = m /\ d.id = ls.nodes[m]
            BY <3>5, <4>1, <6>1, Zenon DEF Registered
          <6>3. d \in devices'
            BY <3>4
          <6> QED BY <3>2, <6>1, <6>2, <6>3, Zenon
        <5> QED BY <5>1, <5>2
      <4>2. ls'.dev # NoDev =>
              \E d \in devices' : d.cluster = ls'.cluster /\ d.node = NoNode /\ d.id = ls'.dev
        <5>1. ASSUME ls'.dev # NoDev
              PROVE  \E d \in devices' : d.cluster = ls'.cluster /\ d.node = NoNode /\ d.id = ls'.dev
          <6>1. PICK d \in devices : d.cluster = ls.cluster /\ d.node = NoNode /\ d.id = ls.dev
            BY <3>2, <3>5, <5>1, Zenon DEF Registered
          <6>2. d \in devices'
            BY <3>4
          <6> QED BY <3>2, <6>1, <6>2, Zenon
        <5> QED BY <5>1
      <4> QED BY <4>1, <4>2, Zenon DEF Registered
    <3>7. Identified(ls', cred, rollout, geaDev)
      BY <3>2, <3>5 DEF Identified
    <3>8. UNCHANGED <<cr, cache, cred, geaDev, rollout>> /\ pc' = "nodes"
      BY <2>1, <3>1 DEF apiVars, geaVars
    <3> QED BY <2>1, <3>2, <3>4, <3>6, <3>7, <3>8, IdentityFound
  <2> QED BY <2>0, <2>2, <2>3 DEF EnsureNodeDevice
<1> QED BY <1>1, <1>2

\* A sync that stores its outcome replaces an object of the same cluster, which the
\* cache has too.
LEMMA IdentityOutcome ==
  ASSUME TypeOK, CopiesAreCurrent, GuardsHold, WakeProgress, IdentityInvariant, Commit \/ SetDegraded
  PROVE  IdentityInvariant'
<1> USE DEF Syncing, Cleaning, ProgramCounters
<1>0. cr \in Object /\ cache \in Object /\ ls \in Object
  BY DEF TypeOK
<1>1. /\ UNCHANGED <<cache, devices, cred, geaDev, rollout>> /\ pc \in {"commit", "degrade"}
      /\ pc' = "idle" \/ (pc' = "requeue" /\ ls' = ls)
      /\ \/ cr' = cr
         \/ "worker" \in cur /\ \E d : cr' \in {ls, [ls EXCEPT !.next = d]}
  BY DEF Commit, SetDegraded, Stored, WriteFails, Requeue, Return, Done, cloudVars, geaVars
<1>2. Follows(cr, cr) /\ Follows(cache, cache) /\ Follows(ls, ls)
  BY <1>0, Following
<1>3. CASE cr' = cr
  <2>1. QuietStep
    BY <1>1, <1>2, <1>3 DEF QuietStep
  <2> QED BY <2>1, Quiet
<1>4. CASE "worker" \in cur /\ \E d : cr' \in {ls, [ls EXCEPT !.next = d]}
  <2>1. Follows(cr', ls)
    BY <1>0, <1>4, Following
  <2>2. cr'.cluster = ls.cluster /\ cr'.there /\ ~cr'.deleting
    BY <1>1, <2>1 DEF Follows, GuardsHold
  <2>3. ls.cluster = cr.cluster /\ ~cr.deleting /\ cr.there
    BY <1>1, <1>4 DEF CopiesAreCurrent, Meta, GuardsHold
  <2>4. cache = cr
    BY <1>1, <1>4 DEF WakeProgress, StartHolds, CopiesAreCurrent, Deciding
  <2>5. LineageHolds'
    BY <1>1, <2>2, <2>3, <2>4 DEF LineageHolds
  <2>6. Registered(ls, devices) /\ Identified(ls, cred, rollout, geaDev)
    BY <1>1 DEF IdentityInvariant, RegistrationHolds, IdentityHolds
  <2>7. Registered(cr', devices) /\ Identified(cr', cred, rollout, geaDev)
    BY <2>1, <2>6, FollowFacts
  <2>8. RegistrationHolds'
    BY <1>1, <2>6, <2>7 DEF IdentityInvariant, RegistrationHolds
  <2>9. IdentityHolds'
    BY <1>1, <2>6, <2>7 DEF IdentityInvariant, IdentityHolds
  <2> QED BY <2>5, <2>8, <2>9 DEF IdentityInvariant
<1> QED BY <1>1, <1>3, <1>4

\* Devices are deleted while nobody takes them for existing.
LEMMA IdentityCleanup ==
  ASSUME TypeOK, IdentityInvariant,
         (\E n \in Nodes : DeleteNodeDevice(n)) \/ DeleteClusterDevice \/ RemoveFinalizer
  PROVE  IdentityInvariant'
<1> USE DEF Syncing, Cleaning, ProgramCounters
<1>1. /\ UNCHANGED <<cache, cred, geaDev, rollout>> /\ pc \in Cleaning /\ pc' \in Cleaning \cup {"idle"}
      /\ cr' = cr \/ (cr' = NoObject /\ pc' = "idle")
  BY DEF DeleteNodeDevice, DeleteClusterDevice, RemoveFinalizer, Requeue, Done, apiVars, geaVars
<1>2. ~NoObject.there
  BY DEF NoObject, NewObject
<1>3. Gone(cr) /\ Gone(cache)
  BY <1>1 DEF IdentityInvariant, LineageHolds
<1>4. Gone(cr')
  BY <1>1, <1>2, <1>3 DEF Gone
<1>5. ASSUME NEW o, Gone(o), o.there /\ ~o.deleting
      PROVE  Registered(o, devices') /\ Identified(o, cred, rollout, geaDev)
  BY <1>5 DEF Gone, Blank, Registered, Identified
<1>6. LineageHolds'
  BY <1>1, <1>2, <1>3, <1>4 DEF IdentityInvariant, LineageHolds
<1>7. RegistrationHolds' /\ IdentityHolds'
  BY <1>1, <1>3, <1>4, <1>5 DEF RegistrationHolds, IdentityHolds
<1> QED BY <1>6, <1>7 DEF IdentityInvariant

\* A reconcile starts from what the cache has.
LEMMA IdentityReconcile ==
  ASSUME TypeOK, IdentityInvariant, Reconcile
  PROVE  IdentityInvariant'
<1> USE DEF Syncing, Cleaning, ProgramCounters
<1>1. /\ UNCHANGED <<cr, cache, devices, cred, geaDev, rollout>> /\ pc' = Dispatch(cache)
      /\ pc' # "idle" => ls' = cache
  BY DEF Reconcile, cloudVars, geaVars
<1>2. /\ pc' \in {"idle", "cleanup", "finalizer", "suspend", "first", "defer", "connect"}
      /\ pc' \in Cleaning => cache.there /\ cache.deleting
      /\ pc' \in Syncing => cache.there /\ ~cache.deleting
  BY <1>1 DEF Dispatch
<1>3. LineageHolds'
  BY <1>1, <1>2 DEF IdentityInvariant, LineageHolds, Gone
<1>4. RegistrationHolds'
  BY <1>1, <1>2 DEF IdentityInvariant, RegistrationHolds
<1>5. IdentityHolds'
  BY <1>1, <1>2 DEF IdentityInvariant, IdentityHolds
<1> QED BY <1>3, <1>4, <1>5 DEF IdentityInvariant

\* The watch, the clock, people and a restart.
LEMMA IdentityOthers ==
  ASSUME TypeOK, IdentityInvariant,
         \/ CacheSync \/ TimerFires \/ Tick \/ StoreUpdate \/ ToggleSuspend \/ Reschedule
         \/ DeleteObject \/ RecreateObject \/ Crash \/ UNCHANGED vars
  PROVE  IdentityInvariant'
<1> USE DEF Syncing, Cleaning, ProgramCounters
<1>0. cr \in Object /\ cache \in Object /\ ls \in Object
  BY DEF TypeOK
<1>1. /\ Follows(cr, cr) /\ Follows(cache, cache) /\ Follows(ls, ls)
      /\ Follows(Aged(cr), cr) /\ Follows(Aged(cache), cache) /\ Follows(Aged(ls), ls)
      /\ \A x : Follows([cr EXCEPT !.suspend = x], cr) /\ Follows([cr EXCEPT !.sched = x], cr)
  BY <1>0, Following
<1>2. UNCHANGED <<devices, cred, geaDev, rollout>>
  BY DEF CacheSync, TimerFires, Tick, StoreUpdate, UserWrites, ToggleSuspend, Reschedule,
     DeleteObject, RecreateObject, Crash, cloudVars, geaVars, vars
<1>3. CASE TimerFires \/ StoreUpdate \/ Tick \/ UNCHANGED vars
  <2>1. QuietStep
    BY <1>1, <1>2, <1>3 DEF TimerFires, StoreUpdate, Tick, vars, apiVars, workerVars, QuietStep
  <2> QED BY <2>1, Quiet
<1>4. CASE ToggleSuspend \/ Reschedule
  <2>1. QuietStep
    BY <1>1, <1>2, <1>4 DEF ToggleSuspend, Reschedule, UserWrites, workerVars, QuietStep
  <2> QED BY <2>1, Quiet
<1>5. CASE CacheSync
  <2>1. cr' = cr /\ cache' = cr /\ pc' = pc /\ ls' = ls
    BY <1>5 DEF CacheSync, workerVars
  <2>2. LineageHolds'
    BY <2>1 DEF IdentityInvariant, LineageHolds, Gone
  <2>3. RegistrationHolds' /\ IdentityHolds'
    BY <1>2, <2>1 DEF IdentityInvariant, RegistrationHolds, IdentityHolds
  <2> QED BY <2>2, <2>3 DEF IdentityInvariant
<1>6. CASE Crash
  <2>1. cr' = cr /\ cache' = cr /\ pc' = "idle"
    BY <1>6 DEF Crash, Done
  <2>2. LineageHolds'
    BY <2>1 DEF LineageHolds, Gone
  <2>3. RegistrationHolds' /\ IdentityHolds'
    BY <1>2, <2>1 DEF IdentityInvariant, RegistrationHolds, IdentityHolds
  <2> QED BY <2>2, <2>3 DEF IdentityInvariant
<1>7. CASE DeleteObject
  <2>1. ~NoObject.there
    BY DEF NoObject, NewObject
  <2>2. cache' = cache /\ pc' = pc /\ ls' = ls /\ cr' \in {[cr EXCEPT !.deleting = TRUE], NoObject}
    BY <1>7 DEF DeleteObject, UserWrites, workerVars
  <2>3. cr'.there => /\ cr.there /\ cr'.deleting /\ cr'.cluster = cr.cluster
                     /\ cr'.dev = cr.dev /\ cr'.nodes = cr.nodes /\ cr'.cond = cr.cond
    <3>1. LET o == [cr EXCEPT !.deleting = TRUE] IN
            /\ o.there = cr.there /\ o.deleting /\ o.cluster = cr.cluster
            /\ o.dev = cr.dev /\ o.nodes = cr.nodes /\ o.cond = cr.cond
      BY <1>0 DEF Object
    <3> QED BY <2>1, <2>2, <3>1
  <2>4. cr'.there => (Blank(cr) => Blank(cr'))
    BY <2>3 DEF Blank
  <2>5. Gone(cr')
    BY <2>3 DEF Gone
  <2>6. LineageHolds'
    BY <2>2, <2>3, <2>4, <2>5 DEF IdentityInvariant, LineageHolds
  <2>7. RegistrationHolds' /\ IdentityHolds'
    BY <1>2, <2>2, <2>3 DEF IdentityInvariant, RegistrationHolds, IdentityHolds
  <2> QED BY <2>6, <2>7 DEF IdentityInvariant
<1>8. CASE RecreateObject
  <2>1. \A c, s : Blank(NewObject(c, s))
    BY DEF Blank, NewObject, ConditionTypes
  <2>2. cache' = cache /\ pc' = pc /\ ls' = ls /\ \E c, s : cr' = NewObject(c, s)
    BY <1>8 DEF RecreateObject, UserWrites, workerVars
  <2>3. Blank(cr') /\ Gone(cr')
    BY <2>1, <2>2 DEF Gone
  <2>4. LineageHolds'
    BY <2>2, <2>3 DEF IdentityInvariant, LineageHolds
  <2>5. Registered(cr', devices) /\ Identified(cr', cred, rollout, geaDev)
    BY <2>3 DEF Blank, Registered, Identified
  <2>6. RegistrationHolds' /\ IdentityHolds'
    BY <1>2, <2>2, <2>5 DEF IdentityInvariant, RegistrationHolds, IdentityHolds
  <2> QED BY <2>4, <2>6 DEF IdentityInvariant
<1> QED BY <1>3, <1>4, <1>5, <1>6, <1>7, <1>8

\* Nobody renames the cluster or deletes devices in Losant.
Untampered == "rename" \notin Disturbances /\ "cloudDelete" \notin Disturbances

LEMMA IdentityStep ==
  ASSUME Untampered
  PROVE  TypeOK /\ SafetyInvariant /\ UniqueDeviceNames /\ IdentityInvariant /\ [Next]_vars
           => IdentityInvariant'
<1> SUFFICES ASSUME TypeOK, SafetyInvariant, UniqueDeviceNames, IdentityInvariant, [Next]_vars
             PROVE  IdentityInvariant'
  OBVIOUS
<1>0. CopiesAreCurrent /\ GuardsHold /\ WakeProgress
  BY DEF SafetyInvariant
<1>1. ~Rename /\ ~CloudDelete
  BY DEF Untampered, Rename, CloudDelete, Disturb
<1>2. CASE \/ AddFinalizer \/ Suspend \/ FirstReconcile \/ EnsureCredentialPlaceholder \/ Defer
           \/ Connect \/ HealthSnapshot \/ EnsureWorkflowDeployments \/ ReportState \/ Schedule
           \/ RequeueUntilNext \/ StartCleanup
  BY <1>0, <1>2, QuietReconcile, Quiet, IdentityCredentials
<1>3. CASE \/ Reconcile \/ EnsureClusterDevice \/ (\E n \in Nodes : EnsureNodeDevice(n))
           \/ WriteCredentials \/ RestartDeployment \/ Rollout \/ Commit \/ SetDegraded
  BY <1>0, <1>3, IdentityReconcile, IdentityEnsure, IdentityCredentials, IdentityRestart,
     IdentityOutcome
<1>4. CASE (\E n \in Nodes : DeleteNodeDevice(n)) \/ DeleteClusterDevice \/ RemoveFinalizer
  BY <1>4, IdentityCleanup
<1>5. CASE \/ CacheSync \/ TimerFires \/ Tick \/ StoreUpdate \/ ToggleSuspend \/ Reschedule
           \/ DeleteObject \/ RecreateObject \/ Crash \/ UNCHANGED vars
  BY <1>5, IdentityOthers
<1> QED BY <1>1, <1>2, <1>3, <1>4, <1>5 DEF Next, ReconcileStep, Environment

\* The record of devices and the identity of the GEA stay true of every copy, as long
\* as nobody renames the cluster or deletes devices in Losant.
\* What the status records of devices and of the GEA, and what a sync under way is
\* about to record, agrees with Losant, the Secret and the rollout after every step,
\* unless somebody renames the cluster or deletes devices in Losant.
THEOREM IdentityHeld ==
  ASSUME Untampered
  PROVE  Spec => []IdentityInvariant
<1>1. Init => IdentityInvariant
  <2> SUFFICES ASSUME Init PROVE IdentityInvariant
    OBVIOUS
  <2>1. ~NoObject.there /\ \A c, s : Blank(NewObject(c, s))
    BY DEF NoObject, NewObject, Blank, ConditionTypes
  <2>2. ~cache.there /\ Blank(cr) /\ pc = "idle"
    BY <2>1 DEF Init
  <2>3. Registered(cr, devices) /\ Identified(cr, cred, rollout, geaDev)
    BY <2>2 DEF Blank, Registered, Identified
  <2> QED BY <2>2, <2>3 DEF IdentityInvariant, LineageHolds, RegistrationHolds, IdentityHolds,
          Syncing, Cleaning
<1> QED BY <1>1, IdentityStep, SafetyHolds, DeviceNamesAreUnique, PTL DEF Spec

\* Every device that the status of a live object records exists in Losant under the
\* name of the spec, unless somebody renames the cluster or deletes devices there.
THEOREM RecordedDevicesAreThere ==
  ASSUME Untampered
  PROVE  Spec => []RecordedDevicesExist
<1>1. IdentityInvariant => RecordedDevicesExist
  BY DEF IdentityInvariant, RegistrationHolds, Registered, RecordedDevicesExist, Named
<1> QED BY <1>1, IdentityHeld, PTL

\* Once the status says GEABootstrapped, the Secret and the GEA are of the recorded
\* cluster device, unless somebody renames the cluster or deletes devices in Losant.
THEOREM GEAIsClusterDevice ==
  ASSUME Untampered
  PROVE  Spec => []GEAIdentity
<1>1. IdentityInvariant => GEAIdentity
  BY DEF IdentityInvariant, IdentityHolds, Identified, GEAIdentity
<1> QED BY <1>1, IdentityHeld, PTL

=============================================================================

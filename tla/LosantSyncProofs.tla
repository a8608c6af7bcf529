-------------------------- MODULE LosantSyncProofs --------------------------
(* Theorems about LosantSync, for every value of its constants. *)
EXTENDS LosantSync, TLAPS

-----------------------------------------------------------------------------
(* The operators on objects *)

\* A new object, and the placeholder for no object, are well-typed.
LEMMA NewObjectType ==
  /\ \A c \in Clusters, s \in Schedules : NewObject(c, s) \in Object
  /\ NoObject \in Object
<1>1. ASSUME NEW c \in Clusters, NEW s \in Schedules
      PROVE  NewObject(c, s) \in Object
  BY DEF NewObject, Object, Phases, ConditionTypes, ConditionStatus, NoDev
<1>2. (CHOOSE c \in Clusters : TRUE) \in Clusters /\ (CHOOSE s \in Schedules : TRUE) \in Schedules
  BY ConstantsAssumption
<1>3. NewObject(CHOOSE c \in Clusters : TRUE, CHOOSE s \in Schedules : TRUE) \in Object
  BY <1>1, <1>2
<1>4. NoObject \in Object
  BY <1>3 DEF NoObject, Object
<1> QED BY <1>1, <1>4

\* The status updates of the reconciler keep an object well-typed.
LEMMA ObjectUpdateType ==
  ASSUME NEW o \in Object, NEW t \in ConditionTypes
  PROVE  /\ Degraded(o, t) \in Object
         /\ ConditionTrue(o, t) \in Object
         /\ Aged(o) \in Object
<1>1. o.cond \in [ConditionTypes -> ConditionStatus] /\ "LastSyncSucceeded" \in ConditionTypes
  BY DEF Object, ConditionTypes
<1>2. [o.cond EXCEPT ![t] = "False", !["LastSyncSucceeded"] = "False"]
         \in [ConditionTypes -> ConditionStatus]
  BY <1>1 DEF ConditionStatus
<1>3. Degraded(o, t) \in Object
  BY <1>2 DEF Degraded, Object, Phases
<1>4. [o.cond EXCEPT ![t] = "True"] \in [ConditionTypes -> ConditionStatus]
  BY <1>1 DEF ConditionStatus
<1>5. ConditionTrue(o, t) \in Object
  BY <1>4 DEF ConditionTrue, Object
<1>6. Aged(o) \in Object
  BY DEF Aged, Countdown, Object
<1> QED BY <1>3, <1>5, <1>6

\* A schedule yields delays that are natural numbers.
LEMMA DelaysType == \A s \in Schedules : Delays(s) \subseteq Nat
  BY ConstantsAssumption DEF Delays, ScheduleKinds

-----------------------------------------------------------------------------
(* Type correctness *)

LEMMA TypeInit == Init => TypeOK
  BY NewObjectType, ConstantsAssumption DEF Init, TypeOK, ProgramCounters, NoTimer, NoDev

\* What a reconcile leaves behind when it ends is well-typed.
LEMMA TypeReturn ==
  ASSUME TypeOK, NEW d \in Nat, Return(d) \/ Requeue
  PROVE  /\ pc' \in ProgramCounters /\ ls' \in Object /\ todo' \subseteq Nodes
         /\ wake' \subseteq {"event", "queue"}
         /\ timer' \in Nat \cup {NoTimer}
<1>1. pc' \in ProgramCounters /\ ls' \in Object /\ todo' \subseteq Nodes
  BY NewObjectType DEF Return, Requeue, Done, ProgramCounters
<1>2. wake' \subseteq {"event", "queue"}
  BY DEF Return, Requeue, TypeOK
<1>3. timer' \in Nat \cup {NoTimer}
  BY DEF Return, Requeue, TypeOK, AddAfter
<1> QED BY <1>1, <1>2, <1>3

\* A failed write, and a successful one, store well-typed objects.
LEMMA TypeStore ==
  ASSUME TypeOK, NEW new \in Object, Stored(new) \/ WriteFails(new)
  PROVE  cr' \in Object /\ cache' \in Object /\ cur' \subseteq {"cache", "worker"} /\ budget' \in Nat
<1>1. cr' \in Object /\ cache' \in Object
  BY DEF TypeOK, Stored, WriteFails
<1>2. cur' \subseteq {"cache", "worker"}
  BY DEF TypeOK, Stored, WriteFails
<1>3. budget' \in Nat
  BY DEF TypeOK, Stored, WriteFails, Calm, Disturb
<1> QED BY <1>1, <1>2, <1>3

\* A write of the object that ends the reconcile.
LEMMA TypeWrite ==
  ASSUME TypeOK, NEW new \in Object, NEW d \in Nat,
         \/ Stored(new) /\ (Return(d) \/ Requeue)
         \/ WriteFails(new),
         UNCHANGED <<cloudVars, geaVars, store>>
  PROVE  TypeOK'
<1>1. Return(d) \/ Requeue
  BY DEF WriteFails
<1>2. Stored(new) \/ WriteFails(new)
  OBVIOUS
<1> QED BY <1>1, <1>2, TypeReturn, TypeStore DEF TypeOK, cloudVars, geaVars

\* Ensuring a device leaves a well-typed application.
LEMMA TypeEnsured ==
  ASSUME TypeOK, NEW c \in Clusters, NEW n \in Nodes \cup {NoNode}, NEW g \in Nat,
         NEW id \in 1..nextDev, Ensured(c, n, g, id)
  PROVE  devices' \subseteq Device /\ nextDev' \in Nat \ {0} /\ id \in Nat
<1>1. id \in Nat
  BY DEF TypeOK
<1>2. CASE UNCHANGED cloudVars
  BY <1>1, <1>2 DEF TypeOK, cloudVars
<1>3. CASE /\ devices' = devices \cup {[id |-> id, cluster |-> c, node |-> n, gateway |-> g]}
           /\ nextDev' = nextDev + 1
  <2>1. [id |-> id, cluster |-> c, node |-> n, gateway |-> g] \in Device
    BY <1>1 DEF Device
  <2> QED BY <1>1, <1>3, <2>1 DEF TypeOK
<1> QED BY <1>2, <1>3 DEF Ensured

\* Every step of the reconcile keeps the variables well-typed.
LEMMA TypeReconcileStep == TypeOK /\ ReconcileStep => TypeOK'
<1> SUFFICES ASSUME TypeOK, ReconcileStep
             PROVE  TypeOK'
  OBVIOUS
<1> USE DEF TypeOK, Calm, Disturb
<1>1. CASE Reconcile
  <2>1. pc' \in ProgramCounters
    BY <1>1 DEF Reconcile, Dispatch, ProgramCounters
  <2>2. ls' \in Object
    BY <1>1, NewObjectType DEF Reconcile
  <2> QED BY <1>1, <2>1, <2>2 DEF Reconcile, cloudVars, geaVars
<1>2. CASE AddFinalizer
  <2>1. [ls EXCEPT !.fin = TRUE] \in Object
    BY DEF Object
  <2> QED BY <1>2, <2>1, TypeWrite DEF AddFinalizer
<1>3. CASE Suspend
  <2>1. [ls EXCEPT !.phase = "Suspended"] \in Object
    BY DEF Object, Phases
  <2> QED BY <1>3, <2>1, TypeWrite DEF Suspend
<1>4. CASE FirstReconcile
  <2> DEFINE new == [ls EXCEPT !.phase = "Provisioning", !.next = 0]
  <2>1. new \in Object
    BY DEF Object, Phases
  <2>2. CASE WriteFails(new)
    BY <1>4, <2>1, <2>2, TypeWrite DEF FirstReconcile
  <2>3. CASE Stored(new) /\ pc' = "placeholder" /\ ls' = new /\ UNCHANGED <<queueVars, todo>>
    BY <1>4, <2>1, <2>3, TypeStore DEF FirstReconcile, ProgramCounters, queueVars, cloudVars, geaVars
  <2> QED BY <1>4, <2>2, <2>3 DEF FirstReconcile
<1>5. CASE EnsureCredentialPlaceholder
  <2>1. cred' \in [there: BOOLEAN, dev: Nat]
    BY <1>5 DEF EnsureCredentialPlaceholder
  <2>2. budget' \in Nat
    BY <1>5 DEF EnsureCredentialPlaceholder
  <2> QED BY <1>5, <2>1, <2>2, TypeReturn DEF EnsureCredentialPlaceholder, apiVars, cloudVars
<1>6. CASE Defer
  <2>1. ls.next \in Nat
    BY DEF Object
  <2> QED BY <1>6, <2>1, TypeReturn DEF Defer, apiVars, cloudVars, geaVars
<1>7. CASE Connect
  <2>1. Degraded(ls, "LastSyncSucceeded") \in Object
    BY ObjectUpdateType DEF ConditionTypes
  <2> QED BY <1>7, <2>1 DEF Connect, Degrade, ProgramCounters, apiVars, queueVars, cloudVars, geaVars
<1>8. CASE EnsureClusterDevice
  <2> USE <1>8 DEF EnsureClusterDevice
  <2>1. ls.cluster \in Clusters /\ NoDev \in Nat
    BY DEF Object, NoDev
  <2>2. Degraded(ls, "DevicesProvisioned") \in Object
    BY ObjectUpdateType DEF ConditionTypes
  <2>3. \A id \in Nat : [ls EXCEPT !.dev = id] \in Object
    BY DEF Object
  <2>4. devices' \subseteq Device /\ nextDev' \in Nat \ {0}
    BY <2>1, TypeEnsured DEF cloudVars
  <2>5. ls' \in Object
    BY <2>2, <2>3 DEF Degrade
  <2>6. pc' \in ProgramCounters /\ todo' \subseteq Nodes
    BY DEF Degrade, ProgramCounters
  <2>7. budget' \in Nat
    OBVIOUS
  <2> QED BY <2>4, <2>5, <2>6, <2>7 DEF apiVars, queueVars, geaVars
<1>9. CASE WriteCredentials
  <2> USE <1>9 DEF WriteCredentials
  <2>1. Degraded(ls, "GEABootstrapped") \in Object
    BY ObjectUpdateType DEF ConditionTypes
  <2>2. [there |-> TRUE, dev |-> ls.dev] \in [there: BOOLEAN, dev: Nat]
    BY DEF Object
  <2>3. cred' \in [there: BOOLEAN, dev: Nat]
    BY <2>2
  <2> QED BY <2>1, <2>3 DEF Degrade, ProgramCounters, apiVars, queueVars, cloudVars
<1>10. CASE RestartDeployment
  <2>1. Degraded(ls, "GEABootstrapped") \in Object /\ ConditionTrue(ls, "GEABootstrapped") \in Object
    BY ObjectUpdateType DEF ConditionTypes
  <2> QED BY <1>10, <2>1 DEF RestartDeployment, Degrade, ProgramCounters, apiVars, queueVars, cloudVars
<1>11. CASE HealthSnapshot
  BY <1>11 DEF HealthSnapshot, ProgramCounters, apiVars, queueVars, cloudVars, geaVars
<1>12. CASE \E n \in Nodes : EnsureNodeDevice(n)
  <2> PICK n \in Nodes : EnsureNodeDevice(n)
    BY <1>12
  <2> USE DEF EnsureNodeDevice
  <2>1. ls.cluster \in Clusters /\ ls.dev \in Nat
    BY DEF Object
  <2>2. Degraded(ls, "DevicesProvisioned") \in Object
    BY ObjectUpdateType DEF ConditionTypes
  <2>3. ASSUME NEW id \in Nat PROVE [ls EXCEPT !.nodes[n] = id] \in Object
    <3>1. [ls.nodes EXCEPT ![n] = id] \in [Nodes -> Nat]
      BY DEF Object
    <3> QED BY <3>1 DEF Object
  <2>4. devices' \subseteq Device /\ nextDev' \in Nat \ {0}
    BY <2>1, TypeEnsured DEF cloudVars
  <2>5. ls' \in Object
    BY <2>2, <2>3 DEF Degrade
  <2>6. pc' \in ProgramCounters /\ todo' \subseteq Nodes
    BY DEF Degrade, ProgramCounters
  <2>7. budget' \in Nat
    OBVIOUS
  <2> QED BY <2>4, <2>5, <2>6, <2>7 DEF apiVars, queueVars, geaVars
<1>13. CASE EnsureWorkflowDeployments
  <2> DEFINE provisioned == ConditionTrue(ls, "DevicesProvisioned")
  <2>1. provisioned \in Object
    BY ObjectUpdateType DEF ConditionTypes
  <2>2. ConditionTrue(provisioned, "WorkflowDeployed") \in Object
    BY <2>1, ObjectUpdateType DEF ConditionTypes
  <2>3. Degraded(provisioned, "WorkflowDeployed") \in Object
    BY <2>1, ObjectUpdateType DEF ConditionTypes
  <2>4. ls' \in Object
    BY <1>13, <2>1, <2>2, <2>3 DEF EnsureWorkflowDeployments
  <2> QED BY <1>13, <2>4
          DEF EnsureWorkflowDeployments, ProgramCounters, apiVars, queueVars, cloudVars, geaVars
<1>14. CASE ReportState
  <2>1. Degraded(ls, "GEAReachable") \in Object /\ ConditionTrue(ls, "GEAReachable") \in Object
    BY ObjectUpdateType DEF ConditionTypes
  <2> QED BY <1>14, <2>1 DEF ReportState, Degrade, ProgramCounters, apiVars, queueVars, cloudVars, geaVars
<1>15. CASE Schedule
  <2>1. ls.sched \in Schedules
    BY DEF Object
  <2>2. /\ Degraded(ls, "LastSyncSucceeded") \in Object
        /\ ConditionTrue(ls, "LastSyncSucceeded") \in Object
    BY ObjectUpdateType DEF ConditionTypes
  <2>3. \A d \in Nat :
          [ConditionTrue(ls, "LastSyncSucceeded") EXCEPT !.next = d, !.phase = "Active"] \in Object
    BY <2>2 DEF Object, Phases
  <2>4. \A d \in Delays(ls.sched) : d \in Nat
    BY <2>1, DelaysType
  <2>5. ls' \in Object
    <3> HIDE DEF TypeOK
    <3>1. CASE Degrade("LastSyncSucceeded")
      BY <3>1, <2>2 DEF Degrade
    <3>2. CASE ~Degrade("LastSyncSucceeded")
      BY <1>15, <2>3, <2>4, <3>2 DEF Schedule
    <3> QED BY <3>1, <3>2
  <2> QED BY <1>15, <2>5 DEF Schedule, Degrade, ProgramCounters, apiVars, queueVars, cloudVars, geaVars
<1>16. CASE Commit
  <2>1. CASE WriteFails(ls)
    BY <1>16, <2>1, TypeWrite DEF Commit
  <2>2. CASE Stored(ls) /\ pc' = "requeue" /\ UNCHANGED <<ls, todo, queueVars>>
    BY <1>16, <2>2, TypeStore DEF Commit, ProgramCounters, queueVars, cloudVars, geaVars
  <2> QED BY <1>16, <2>1, <2>2 DEF Commit
<1>17. CASE RequeueUntilNext
  <2>1. ls.next \in Nat
    BY DEF Object
  <2> QED BY <1>17, <2>1, TypeReturn DEF RequeueUntilNext, apiVars, cloudVars, geaVars
<1>18. CASE SetDegraded
  <2>1. ls.sched \in Schedules
    BY DEF Object
  <2>2. PICK d \in IF Delays(ls.sched) = {} THEN {Fallback} ELSE Delays(ls.sched) :
          \E new \in {ls, [ls EXCEPT !.next = d]} : (Stored(new) /\ Return(d)) \/ WriteFails(new)
    BY <1>18 DEF SetDegraded
  <2>3. d \in Nat
    BY <2>1, DelaysType, ConstantsAssumption
  <2>4. [ls EXCEPT !.next = d] \in Object
    BY <2>3 DEF Object
  <2> QED BY <1>18, <2>2, <2>3, <2>4, TypeWrite DEF SetDegraded
<1>19. CASE StartCleanup
  <2>1. CASE Requeue
    BY <1>19, <2>1, TypeReturn DEF StartCleanup, apiVars, cloudVars, geaVars
  <2>2. CASE ~Requeue
    BY <1>19, <2>2 DEF StartCleanup, ProgramCounters, apiVars, queueVars, cloudVars, geaVars
  <2> QED BY <2>1, <2>2
<1>20. CASE (\E n \in Nodes : DeleteNodeDevice(n)) \/ DeleteClusterDevice
  <2> USE <1>20 DEF DeleteNodeDevice, DeleteClusterDevice
  <2>1. devices' \subseteq Device /\ nextDev' \in Nat \ {0}
    BY DEF Deleted, cloudVars
  <2>2. budget' \in Nat
    OBVIOUS
  <2>3. CASE Requeue
    BY <2>1, <2>2, <2>3, TypeReturn DEF apiVars, geaVars
  <2>4. CASE ~Requeue
    BY <2>1, <2>2, <2>4 DEF ProgramCounters, apiVars, queueVars, geaVars
  <2> QED BY <2>3, <2>4
<1>21. CASE RemoveFinalizer
  <2> USE <1>21 DEF RemoveFinalizer
  <2>1. pc' \in ProgramCounters /\ ls' \in Object /\ todo' \subseteq Nodes /\ cr' \in Object
    BY NewObjectType DEF Requeue, Done, ProgramCounters
  <2>2. cur' \subseteq {"cache", "worker"} /\ wake' \subseteq {"event", "queue"}
    BY DEF Requeue
  <2>3. budget' \in Nat
    OBVIOUS
  <2> QED BY <2>1, <2>2, <2>3 DEF Requeue, cloudVars, geaVars
<1> QED
  BY <1>1, <1>2, <1>3, <1>4, <1>5, <1>6, <1>7, <1>8, <1>9, <1>10, <1>11, <1>12, <1>13,
     <1>14, <1>15, <1>16, <1>17, <1>18, <1>19, <1>20, <1>21 DEF ReconcileStep

\* The cache, the queue, the clock and the other actors keep the variables
\* well-typed.
LEMMA TypeOthers ==
  TypeOK /\ (CacheSync \/ TimerFires \/ Tick \/ Environment) => TypeOK'
<1> SUFFICES ASSUME TypeOK, CacheSync \/ TimerFires \/ Tick \/ Environment
             PROVE  TypeOK'
  OBVIOUS
<1> USE DEF TypeOK, apiVars, queueVars, workerVars, cloudVars, geaVars
<1>1. CASE CacheSync
  BY <1>1 DEF CacheSync
<1>2. CASE TimerFires
  BY <1>2 DEF TimerFires
<1>3. CASE Tick
  <2>1. cr' \in Object /\ cache' \in Object /\ ls' \in Object
    BY <1>3, ObjectUpdateType DEF Tick, ConditionTypes
  <2>2. timer' \in Nat \cup {NoTimer}
    BY <1>3 DEF Tick, Countdown, NoTimer
  <2> QED BY <1>3, <2>1, <2>2 DEF Tick
<1>4. CASE StoreUpdate
  BY <1>4, ConstantsAssumption DEF StoreUpdate
<1>5. CASE Rollout
  BY <1>5 DEF Rollout
<1>6. ASSUME NEW new \in Object, UserWrites(new), budget' \in Nat
      PROVE  TypeOK'
  BY <1>6 DEF UserWrites
<1>7. CASE ToggleSuspend
  <2>1. [cr EXCEPT !.suspend = ~@] \in Object
    BY DEF Object
  <2> QED BY <1>6, <1>7, <2>1 DEF ToggleSuspend, Disturb
<1>8. CASE Rename
  <2>1. \A c \in Clusters : [cr EXCEPT !.cluster = c] \in Object
    BY DEF Object
  <2> QED BY <1>6, <1>8, <2>1 DEF Rename, Disturb
<1>9. CASE Reschedule
  <2>1. \A s \in Schedules : [cr EXCEPT !.sched = s] \in Object
    BY DEF Object
  <2> QED BY <1>6, <1>9, <2>1 DEF Reschedule, Disturb
<1>10. CASE DeleteObject
  <2>1. [cr EXCEPT !.deleting = TRUE] \in Object
    BY DEF Object
  <2> QED BY <1>6, <1>10, <2>1, NewObjectType DEF DeleteObject, Disturb
<1>11. CASE RecreateObject
  BY <1>6, <1>11, NewObjectType DEF RecreateObject, Disturb
<1>12. CASE CloudDelete
  BY <1>12 DEF CloudDelete, Disturb, Deleted
<1>13. CASE Crash
  BY <1>13, NewObjectType DEF Crash, Disturb, Done, ProgramCounters
<1> QED
  BY <1>1, <1>2, <1>3, <1>4, <1>5, <1>7, <1>8, <1>9, <1>10, <1>11, <1>12, <1>13 DEF Environment

LEMMA TypeStep == TypeOK /\ [Next]_vars => TypeOK'
<1>1. TypeOK /\ UNCHANGED vars => TypeOK'
  BY DEF TypeOK, vars, apiVars, queueVars, workerVars, cloudVars, geaVars
<1> QED BY <1>1, TypeReconcileStep, TypeOthers DEF Next

\* Every reachable state of the reconciler and its surroundings is well-typed.
THEOREM TypeCorrect == Spec => []TypeOK
  BY TypeInit, TypeStep, PTL DEF Spec
=============================================================================

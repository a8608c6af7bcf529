------------------------ MODULE RancherSessionProofs ------------------------
(* Theorems about RancherSession, for every value of its constants. *)
EXTENDS RancherSession, TLAPS

-----------------------------------------------------------------------------
(* Objects *)

\* A new session, and the placeholder for no session, are well-typed.
LEMMA NewObjectType == NewObject \in Object /\ NoObject \in Object
<1>1. NewObject \in Object
  BY DEF NewObject, Object, Phases, NoId, NoTimer
<1> QED BY <1>1 DEF NoObject, Object

\* The objects that the reconciler and the other actors store are well-typed.
LEMMA ObjectUpdateType ==
  ASSUME NEW o \in Object
  PROVE  /\ [o EXCEPT !.fin = TRUE] \in Object
         /\ [o EXCEPT !.deleting = TRUE] \in Object
         /\ [o EXCEPT !.suspend = ~@] \in Object
         /\ [o EXCEPT !.phase = "Failed", !.reachable = "False"] \in Object
         /\ [o EXCEPT !.reachable = "False"] \in Object
         /\ \A p \in Phases : [o EXCEPT !.phase = p] \in Object
         /\ \A id \in Nat : [o EXCEPT !.id = id] \in Object
         /\ [o EXCEPT !.applied = TRUE, !.exp = ReadyTimeout, !.reachable = "True"] \in Object
         /\ [o EXCEPT !.phase = "Connected", !.exp = TTL, !.reachable = "True"] \in Object
         /\ Aged(o) \in Object
<1>1. ReadyTimeout \in Nat /\ TTL \in Nat
  BY ConstantsAssumption
<1>2. /\ [o EXCEPT !.fin = TRUE] \in Object
      /\ [o EXCEPT !.deleting = TRUE] \in Object
      /\ [o EXCEPT !.suspend = ~@] \in Object
  BY DEF Object
<1>3. /\ [o EXCEPT !.phase = "Failed", !.reachable = "False"] \in Object
      /\ [o EXCEPT !.reachable = "False"] \in Object
      /\ \A p \in Phases : [o EXCEPT !.phase = p] \in Object
      /\ \A id \in Nat : [o EXCEPT !.id = id] \in Object
  BY DEF Object, Phases
<1>4. [o EXCEPT !.applied = TRUE, !.exp = ReadyTimeout, !.reachable = "True"] \in Object
  BY <1>1 DEF Object
<1>5. [o EXCEPT !.phase = "Connected", !.exp = TTL, !.reachable = "True"] \in Object
  BY <1>1 DEF Object, Phases
<1>6. Aged(o) \in Object
  BY DEF Aged, Countdown, Object, NoTimer
<1> QED BY <1>2, <1>3, <1>4, <1>5, <1>6

-----------------------------------------------------------------------------
(* Type correctness *)

LEMMA TypeInit == Init => TypeOK
  BY NewObjectType, ConstantsAssumption DEF Init, TypeOK, ProgramCounters, NoTimer

\* What a reconcile leaves behind when it ends is well-typed.
LEMMA TypeEnd ==
  ASSUME TypeOK, NEW d \in Nat \cup {NoTimer}, Return(d) \/ Requeue
  PROVE  /\ pc' \in ProgramCounters /\ rs' \in Object /\ client' \in {"none", "http", "nilhttp"}
         /\ queue' \in {"empty", "queued"}
         /\ timer' \in Nat \cup {NoTimer}
<1>1. pc' \in ProgramCounters /\ rs' \in Object /\ client' \in {"none", "http", "nilhttp"}
  BY NewObjectType DEF Return, Requeue, Done, ProgramCounters
<1>2. queue' \in {"empty", "queued"}
  BY DEF Return, Requeue, TypeOK
<1>3. timer' \in Nat \cup {NoTimer}
  BY DEF Return, Requeue, TypeOK, AddAfter, NoTimer
<1> QED BY <1>1, <1>2, <1>3

\* A write stores a well-typed object, whether or not it reports success.
LEMMA TypeStore ==
  ASSUME TypeOK, NEW new \in Object, NEW changes \in BOOLEAN,
         StoredAs(new, changes) \/ WriteFails(new)
  PROVE  cr' \in Object /\ cache' \in Object /\ cur' \subseteq {"cache", "worker"} /\ budget' \in Nat
<1>1. cr' \in Object /\ cache' \in Object
  BY DEF TypeOK, StoredAs, WriteFails
<1>2. cur' \subseteq {"cache", "worker"}
  BY DEF TypeOK, StoredAs, WriteFails
<1>3. budget' \in Nat
  BY DEF TypeOK, StoredAs, WriteFails, Calm, Disturb
<1> QED BY <1>1, <1>2, <1>3

\* A write that ends the reconcile, or lets it go on.
LEMMA TypeWrite ==
  ASSUME TypeOK, NEW new \in Object, NEW changes \in BOOLEAN, NEW d \in Nat \cup {NoTimer},
         NEW next \in ProgramCounters,
         \/ StoredAs(new, changes) /\ (Return(d) \/ Requeue)
         \/ StoredAs(new, changes) /\ rs' = new /\ Continue(next)
         \/ WriteFails(new),
         UNCHANGED <<secret, rancherVars, edgeVars, trigger>>
  PROVE  TypeOK'
<1>1. cr' \in Object /\ cache' \in Object /\ cur' \subseteq {"cache", "worker"} /\ budget' \in Nat
  BY TypeStore
<1>2. CASE Return(d) \/ Requeue
  BY <1>1, <1>2, TypeEnd DEF TypeOK, rancherVars, edgeVars
<1>3. CASE rs' = new /\ Continue(next)
  BY <1>1, <1>3 DEF TypeOK, Continue, queueVars, rancherVars, edgeVars
<1> QED BY <1>2, <1>3 DEF WriteFails

\* Every step of the reconcile keeps the variables well-typed.
LEMMA TypeReconcileStep == TypeOK /\ ReconcileStep => TypeOK'
<1> SUFFICES ASSUME TypeOK, ReconcileStep
             PROVE  TypeOK'
  OBVIOUS
<1>0. /\ cr \in Object /\ cache \in Object /\ rs \in Object
      /\ rs.exp \in Nat \cup {NoTimer}
      /\ {0, PollInterval, ErrorWait, TTL} \subseteq Nat
  BY ConstantsAssumption DEF TypeOK, Object
<1> USE DEF ProgramCounters, Stored
<1>1. CASE Reconcile
  <2>1. pc' \in ProgramCounters
    BY <1>1 DEF Reconcile, Dispatch
  <2>2. rs' \in Object
    BY <1>0, <1>1, NewObjectType DEF Reconcile
  <2> QED BY <1>1, <2>1, <2>2 DEF Reconcile, TypeOK, rancherVars, edgeVars
<1>a. /\ \A p \in Phases : [rs EXCEPT !.phase = p] \in Object
      /\ \A id \in Nat : [rs EXCEPT !.id = id] \in Object
  BY <1>0, ObjectUpdateType
<1>2. CASE AddFinalizer \/ SetFailed \/ SetAPIUnreachable \/ RecordApplied \/ BecomeConnected
  <2>1. /\ [rs EXCEPT !.fin = TRUE] \in Object
        /\ [rs EXCEPT !.phase = "Failed", !.reachable = "False"] \in Object
        /\ [rs EXCEPT !.reachable = "False"] \in Object
        /\ [rs EXCEPT !.applied = TRUE, !.exp = ReadyTimeout, !.reachable = "True"] \in Object
        /\ [rs EXCEPT !.phase = "Connected", !.exp = TTL, !.reachable = "True"] \in Object
    BY <1>0, ObjectUpdateType
  <2>2. CASE AddFinalizer
    BY <1>0, <2>1, <2>2, TypeWrite DEF AddFinalizer
  <2>3. CASE SetFailed
    BY <1>0, <2>1, <2>3, TypeWrite DEF SetFailed
  <2>4. CASE SetAPIUnreachable
    <3> DEFINE new == [rs EXCEPT !.reachable = "False"]
               wait == IF rs.deleting THEN 0 ELSE ErrorWait
    <3>1. new \in Object /\ wait \in Nat \cup {NoTimer}
      BY <1>0, <2>1
    <3>2. /\ (\E changes \in BOOLEAN : StoredAs(new, changes) /\ Return(wait)) \/ WriteFails(new)
          /\ UNCHANGED <<secret, rancherVars, edgeVars, trigger>>
      BY <2>4 DEF SetAPIUnreachable
    <3> HIDE DEF new, wait
    <3> QED BY <3>1, <3>2, TypeWrite
  <2>5. CASE RecordApplied
    BY <1>0, <2>1, <2>5, TypeWrite DEF RecordApplied
  <2>6. CASE BecomeConnected
    BY <1>0, <2>1, <2>6, TypeWrite DEF BecomeConnected
  <2> QED BY <1>2, <2>2, <2>3, <2>4, <2>5, <2>6
<1>3. CASE BeginConnect \/ BeginCleanup
  <2>1. [rs EXCEPT !.phase = "Connecting"] \in Object /\ [rs EXCEPT !.phase = "Disconnecting"] \in Object
    BY <1>a DEF Phases
  <2> QED BY <1>0, <1>3, <2>1, TypeWrite DEF BeginConnect, BeginCleanup
<1>4. CASE RecordDisconnected \/ RemoveFinalizer
  <2>1. [rs EXCEPT !.phase = "Disconnected"] \in Object
    BY <1>a DEF Phases
  <2> QED BY <1>0, <1>4, <2>1, NewObjectType, TypeWrite DEF RecordDisconnected, RemoveFinalizer
<1>5. CASE BuildClient
  <2>1. CASE Return(0)
    BY <1>0, <1>5, <2>1, TypeEnd DEF BuildClient, TypeOK, apiVars, rancherVars, edgeVars
  <2>2. CASE ~Return(0)
    <3>1. pc' \in ProgramCounters /\ client' \in {"none", "http", "nilhttp"}
      BY <1>5, <2>2 DEF BuildClient, PhaseHandler, Continue, TypeOK
    <3>2. UNCHANGED <<rs, queueVars, apiVars, secret, rancherVars, edgeVars, trigger, budget>>
      BY <1>5, <2>2 DEF BuildClient, Continue
    <3> QED BY <3>1, <3>2 DEF TypeOK, apiVars, queueVars, rancherVars, edgeVars
  <2> QED BY <2>1, <2>2
<1>6. CASE FindCluster
  <2>1. rs' \in Object
    BY <1>0, <1>a, <1>6 DEF FindCluster, TypeOK
  <2>2. budget' \in Nat
    BY <1>6 DEF FindCluster, Calm, Disturb, TypeOK
  <2> QED BY <1>6, <2>1, <2>2
          DEF FindCluster, Continue, TypeOK, apiVars, queueVars, rancherVars, edgeVars
<1>7. CASE CreateCluster
  <2>1. rs' \in Object
    BY <1>0, <1>a, <1>7 DEF CreateCluster, TypeOK
  <2>2. budget' \in Nat
    BY <1>7 DEF CreateCluster, Calm, Disturb, TypeOK
  <2>3. clusters' \subseteq Nat /\ nextId' \in Nat \ {0}
    BY <1>7 DEF CreateCluster, TypeOK, rancherVars
  <2> QED BY <1>7, <2>1, <2>2, <2>3 DEF CreateCluster, Continue, TypeOK, apiVars, queueVars, edgeVars
<1>8. CASE GetRegistrationToken \/ CheckSession
  <2>1. budget' \in Nat
    BY <1>8 DEF GetRegistrationToken, CheckSession, Calm, Disturb, TypeOK
  <2>2. pc' \in ProgramCounters
    BY <1>8 DEF GetRegistrationToken, CheckSession, Continue
  <2>3. UNCHANGED <<client, rs, apiVars, queueVars, secret, rancherVars, edgeVars, trigger>>
    BY <1>8 DEF GetRegistrationToken, CheckSession, Continue
  <2> QED BY <2>1, <2>2, <2>3 DEF TypeOK, apiVars, queueVars, rancherVars, edgeVars
<1>9. CASE ApplyManifest
  <2>1. ns' \in {"absent", "active", "terminating"} /\ agent' \in {"none", "starting", "ready"}
    BY <1>9 DEF ApplyManifest, TypeOK, edgeVars
  <2>2. budget' \in Nat
    BY <1>9 DEF ApplyManifest, Calm, Disturb, TypeOK
  <2> QED BY <1>9, <2>1, <2>2 DEF ApplyManifest, Continue, TypeOK, apiVars, queueVars, rancherVars
<1>10. CASE PollAgentReady
  <2>1. budget' \in Nat
    BY <1>10 DEF PollAgentReady, Calm, Disturb, TypeOK
  <2>2. CASE Return(PollInterval) \/ Requeue
    BY <1>0, <1>10, <2>1, <2>2, TypeEnd DEF PollAgentReady, TypeOK, apiVars, rancherVars, edgeVars
  <2>3. CASE ~(Return(PollInterval) \/ Requeue)
    BY <1>10, <2>1, <2>3
       DEF PollAgentReady, Continue, TypeOK, apiVars, queueVars, rancherVars, edgeVars
  <2> QED BY <2>2, <2>3
<1>11. CASE RequeueRemaining
  BY <1>0, <1>11, TypeEnd DEF RequeueRemaining, TypeOK, apiVars, rancherVars, edgeVars
<1>12. CASE HandleDisconnect
  BY <1>12 DEF HandleDisconnect, TypeOK, apiVars, queueVars, rancherVars, edgeVars
<1>13. CASE DeleteCluster
  <2>1. budget' \in Nat
    BY <1>13 DEF DeleteCluster, Calm, Disturb, TypeOK
  <2>2. clusters' \subseteq Nat /\ nextId' \in Nat \ {0}
    BY <1>13 DEF DeleteCluster, TypeOK, rancherVars
  <2>3. CASE Requeue
    BY <1>0, <1>13, <2>1, <2>2, <2>3, TypeEnd DEF DeleteCluster, TypeOK, apiVars, edgeVars
  <2>4. CASE ~Requeue
    BY <1>13, <2>1, <2>2, <2>4 DEF DeleteCluster, Continue, TypeOK, apiVars, queueVars, edgeVars
  <2> QED BY <2>3, <2>4
<1>14. CASE DeleteNamespace
  <2>1. budget' \in Nat
    BY <1>14 DEF DeleteNamespace, Calm, Disturb, TypeOK
  <2>2. ns' \in {"absent", "active", "terminating"}
    BY <1>14 DEF DeleteNamespace, Terminated, TypeOK
  <2>3. CASE Requeue
    BY <1>0, <1>14, <2>1, <2>2, <2>3, TypeEnd DEF DeleteNamespace, TypeOK, apiVars, rancherVars
  <2>4. CASE ~Requeue
    BY <1>14, <2>1, <2>2, <2>4 DEF DeleteNamespace, Continue, TypeOK, apiVars, queueVars, rancherVars
  <2> QED BY <2>3, <2>4
<1> QED
  BY <1>1, <1>2, <1>3, <1>4, <1>5, <1>6, <1>7, <1>8, <1>9, <1>10, <1>11, <1>12, <1>13, <1>14
     DEF ReconcileStep

\* The cache, the queue, the clock and the other actors keep the variables
\* well-typed.
LEMMA TypeOthers ==
  TypeOK /\ (CacheSync \/ TimerFires \/ Tick \/ Environment) => TypeOK'
<1> SUFFICES ASSUME TypeOK, CacheSync \/ TimerFires \/ Tick \/ Environment
             PROVE  TypeOK'
  OBVIOUS
<1> USE DEF TypeOK, apiVars, queueVars, workerVars, rancherVars, edgeVars
<1>1. CASE CacheSync \/ TimerFires
  BY <1>1 DEF CacheSync, TimerFires
<1>2. CASE Tick
  <2>1. cr' \in Object /\ cache' \in Object /\ rs' \in Object
    BY <1>2, ObjectUpdateType DEF Tick
  <2>2. timer' \in Nat \cup {NoTimer}
    BY <1>2 DEF Tick, Countdown, NoTimer
  <2> QED BY <1>2, <2>1, <2>2 DEF Tick
<1>3. ASSUME NEW new \in Object, UserWrites(new), budget' \in Nat, trigger' \in {"idle", "found"}
      PROVE  TypeOK'
  BY <1>3 DEF UserWrites
<1>4. CASE TriggerConnect
  BY <1>3, <1>4, NewObjectType DEF TriggerConnect, Disturb
<1>5. CASE TriggerLookup
  BY <1>5 DEF TriggerLookup, Disturb
<1>6. CASE TriggerDelete
  BY <1>3, <1>6, NewObjectType, ObjectUpdateType DEF TriggerDelete, Calm
<1>7. CASE ToggleSuspend
  <2>1. [cr EXCEPT !.suspend = ~@] \in Object
    BY ObjectUpdateType
  <2> QED BY <1>3, <1>7, <2>1 DEF ToggleSuspend, Disturb
<1>8. CASE RancherDelete
  BY <1>8 DEF RancherDelete, Disturb
<1>9. CASE ChangeSecret
  BY <1>9 DEF ChangeSecret, Disturb, Calm
<1>10. CASE AgentBecomesReady \/ NamespaceGone
  BY <1>10 DEF AgentBecomesReady, NamespaceGone
<1>11. CASE Crash
  BY <1>11, NewObjectType DEF Crash, Disturb, Done, ProgramCounters
<1> QED
  BY <1>1, <1>2, <1>4, <1>5, <1>6, <1>7, <1>8, <1>9, <1>10, <1>11 DEF Environment

LEMMA TypeStep == TypeOK /\ [Next]_vars => TypeOK'
<1>1. TypeOK /\ UNCHANGED vars => TypeOK'
  BY DEF TypeOK, vars, apiVars, queueVars, workerVars, rancherVars, edgeVars
<1> QED BY <1>1, TypeReconcileStep, TypeOthers DEF Next

\* Every reachable state of the session and its surroundings is well-typed.
THEOREM TypeCorrect == Spec => []TypeOK
  BY TypeInit, TypeStep, PTL DEF Spec

-----------------------------------------------------------------------------
(* The worker's copy of the session *)

\* Which fields the reconciler's updates leave alone.
LEMMA UpdatesKeep ==
  ASSUME NEW o \in Object
  PROVE  /\ \A id : LET p == [o EXCEPT !.id = id] IN
              Meta(p) = Meta(o) /\ p.phase = o.phase
         /\ \A ph : LET p == [o EXCEPT !.phase = ph] IN
              Meta(p) = Meta(o) /\ p.phase = ph /\ p.id = o.id
         /\ LET p == [o EXCEPT !.phase = "Failed", !.reachable = "False"] IN
              Meta(p) = Meta(o) /\ p.phase = "Failed"
         /\ LET p == [o EXCEPT !.reachable = "False"] IN
              Meta(p) = Meta(o) /\ p.phase = o.phase /\ p.id = o.id
         /\ LET p == [o EXCEPT !.applied = TRUE, !.exp = ReadyTimeout, !.reachable = "True"] IN
              Meta(p) = Meta(o) /\ p.phase = o.phase /\ p.id = o.id
         /\ LET p == [o EXCEPT !.phase = "Connected", !.exp = TTL, !.reachable = "True"] IN
              Meta(p) = Meta(o) /\ p.phase = "Connected" /\ p.id = o.id
         /\ Meta(Aged(o)) = Meta(o) /\ Aged(o).phase = o.phase /\ Aged(o).id = o.id
  BY DEF Meta, Object, Aged

\* Sessions with the same metadata pass the same guards.
LEMMA MetaFields ==
  ASSUME NEW o, NEW p, Meta(o) = Meta(p)
  PROVE  o.there = p.there /\ o.deleting = p.deleting /\ o.fin = p.fin /\ o.suspend = p.suspend
  BY DEF Meta

\* A step of the reconcile that changes only the worker's own state, ...
LocalStep ==
  /\ UNCHANGED apiVars
  /\ pc # "idle" /\ pc' # "idle"
  /\ Meta(rs') = Meta(rs) /\ rs'.phase = rs.phase
  /\ pc' \in Changed \/ (pc \notin Changed /\ rs' = rs)

\* ... one that stores its copy and goes on, ...
StoreStep(new) == Stored(new) /\ rs' = new /\ pc # "idle" /\ pc' # "idle"

\* ... and one that ends it.
EndStep == pc' = "idle" /\ ("cache" \in cur' => cache' = cr')

\* Every step of the reconcile is a read of the cache, or one of the above.
LEMMA WorkerStep ==
  ASSUME TypeOK, CopiesAreCurrent, ReconcileStep
  PROVE  \/ Reconcile \/ LocalStep \/ EndStep
         \/ \E new : StoreStep(new)
<1> USE DEF Changed
<1>0. rs \in Object
  BY DEF TypeOK
<1>1. ASSUME Done, UNCHANGED apiVars PROVE EndStep
  BY <1>1 DEF Done, apiVars, CopiesAreCurrent, EndStep
<1>2. ASSUME NEW new, WriteFails(new) PROVE EndStep
  BY <1>2 DEF CopiesAreCurrent, WriteFails, Requeue, Done, EndStep
<1>3. ASSUME NEW new, NEW changes, StoredAs(new, changes), Done, changes \/ changes = (new # cr)
      PROVE  EndStep
  BY <1>3 DEF CopiesAreCurrent, StoredAs, Done, EndStep
<1>4. ASSUME UNCHANGED <<rs, apiVars>>, pc # "idle", NEW next, Continue(next), next # "idle",
             pc \in Changed => next \in Changed
      PROVE  LocalStep
  BY <1>4 DEF LocalStep, Continue
<1>5. CASE AddFinalizer
  BY <1>2, <1>3, <1>5 DEF AddFinalizer, Stored, Requeue
<1>6. CASE SetFailed
  BY <1>2, <1>3, <1>6 DEF SetFailed, Return
<1>7. CASE SetAPIUnreachable
  BY <1>2, <1>3, <1>7 DEF SetAPIUnreachable, Return
<1>8. CASE RecordApplied \/ BecomeConnected
  BY <1>2, <1>3, <1>8 DEF RecordApplied, BecomeConnected, Stored, Return
<1>9. CASE RemoveFinalizer
  BY <1>2, <1>3, <1>9 DEF RemoveFinalizer, Stored, Return
<1>10. CASE BeginConnect \/ BeginCleanup
  BY <1>2, <1>10 DEF BeginConnect, BeginCleanup, StoreStep, Continue
<1>11. CASE RecordDisconnected
  BY <1>2, <1>3, <1>11 DEF RecordDisconnected, Stored, StoreStep, Continue, Return
<1>12. CASE BuildClient
  BY <1>1, <1>4, <1>12 DEF BuildClient, PhaseHandler, Return, LocalStep
<1>13. CASE FindCluster
  <2>1. \A id : Meta([rs EXCEPT !.id = id]) = Meta(rs) /\ [rs EXCEPT !.id = id].phase = rs.phase
    BY <1>0, UpdatesKeep
  <2> QED BY <1>13, <2>1 DEF FindCluster, Continue, LocalStep
<1>14. CASE CreateCluster
  <2>1. \A id : Meta([rs EXCEPT !.id = id]) = Meta(rs) /\ [rs EXCEPT !.id = id].phase = rs.phase
    BY <1>0, UpdatesKeep
  <2> QED BY <1>14, <2>1 DEF CreateCluster, Continue, LocalStep
<1>15. CASE GetRegistrationToken \/ CheckSession
  BY <1>4, <1>15 DEF GetRegistrationToken, CheckSession
<1>16. CASE ApplyManifest
  BY <1>4, <1>16 DEF ApplyManifest
<1>17. CASE PollAgentReady \/ RequeueRemaining
  BY <1>1, <1>4, <1>17 DEF PollAgentReady, RequeueRemaining, Return, Requeue
<1>18. CASE HandleDisconnect
  BY <1>18 DEF HandleDisconnect, LocalStep
<1>19. CASE DeleteCluster \/ DeleteNamespace
  BY <1>1, <1>4, <1>19 DEF DeleteCluster, DeleteNamespace, Requeue
<1> QED
  BY <1>5, <1>6, <1>7, <1>8, <1>9, <1>10, <1>11, <1>12, <1>13, <1>14, <1>15, <1>16, <1>17,
     <1>18, <1>19 DEF ReconcileStep

\* The steps of the other actors, as far as the worker is concerned.
OtherStep ==
  \/ CacheSync
  \/ Tick
  \/ cur' = {} /\ UNCHANGED workerVars
  \/ EndStep
  \/ UNCHANGED <<apiVars, workerVars>>

LEMMA OthersStep ==
  ASSUME CopiesAreCurrent, CacheSync \/ TimerFires \/ Tick \/ Environment \/ UNCHANGED vars
  PROVE  OtherStep
<1>1. CASE CacheSync \/ Tick \/ TimerFires \/ UNCHANGED vars
  BY <1>1 DEF OtherStep, TimerFires, vars
<1>2. CASE TriggerConnect \/ ToggleSuspend \/ TriggerDelete
  BY <1>2 DEF TriggerConnect, ToggleSuspend, TriggerDelete, UserWrites, OtherStep
<1>3. CASE TriggerLookup \/ RancherDelete \/ ChangeSecret \/ AgentBecomesReady \/ NamespaceGone
  BY <1>3 DEF TriggerLookup, RancherDelete, ChangeSecret, AgentBecomesReady, NamespaceGone, OtherStep
<1>4. CASE Crash
  BY <1>4 DEF Crash, Done, EndStep, OtherStep
<1> QED BY <1>1, <1>2, <1>3, <1>4 DEF Environment

\* The copies stay what their versions say they are.
LEMMA CopiesStep == TypeOK /\ CopiesAreCurrent /\ [Next]_vars => CopiesAreCurrent'
<1> SUFFICES ASSUME TypeOK, CopiesAreCurrent, [Next]_vars
             PROVE  CopiesAreCurrent'
  OBVIOUS
<1>0. cr \in Object /\ cache \in Object /\ rs \in Object
  BY DEF TypeOK
<1>1. CASE EndStep
  BY <1>1 DEF EndStep, CopiesAreCurrent
<1>2. CASE LocalStep
  BY <1>2 DEF LocalStep, CopiesAreCurrent, apiVars
<1>3. ASSUME NEW new, StoreStep(new) PROVE CopiesAreCurrent'
  BY <1>3 DEF StoreStep, Stored, StoredAs, CopiesAreCurrent
<1>4. CASE Reconcile
  BY <1>4 DEF Reconcile, CopiesAreCurrent
<1>5. CASE CacheSync
  BY <1>5 DEF CacheSync, workerVars, CopiesAreCurrent
<1>6. CASE Tick
  <2>1. /\ Meta(Aged(rs)) = Meta(rs) /\ Aged(rs).phase = rs.phase
        /\ Meta(Aged(cr)) = Meta(cr) /\ Aged(cr).phase = cr.phase
    BY <1>0, UpdatesKeep
  <2> QED BY <1>6, <2>1 DEF Tick, CopiesAreCurrent
<1>7. CASE cur' = {} /\ UNCHANGED workerVars
  BY <1>7 DEF CopiesAreCurrent
<1>8. CASE UNCHANGED <<apiVars, workerVars>>
  BY <1>8 DEF apiVars, workerVars, CopiesAreCurrent
<1> QED
  BY <1>1, <1>2, <1>3, <1>4, <1>5, <1>6, <1>7, <1>8, WorkerStep, OthersStep DEF OtherStep, Next

-----------------------------------------------------------------------------
(* The guards and the phase of the reconcile *)

\* A step that leaves the worker's program counter alone leaves its copy alone
\* too, but for the time that goes by.
LEMMA OthersKeepCopy ==
  ASSUME TypeOK, CacheSync \/ TimerFires \/ Tick \/ Environment \/ UNCHANGED vars
  PROVE  \/ pc' = "idle"
         \/ pc' = pc /\ client' = client /\ Meta(rs') = Meta(rs) /\ rs'.phase = rs.phase /\ rs'.id = rs.id
<1>1. CASE CacheSync \/ TimerFires \/ UNCHANGED vars
  BY <1>1 DEF CacheSync, TimerFires, vars, workerVars
<1>2. CASE Tick
  BY <1>2, UpdatesKeep DEF Tick, TypeOK
<1>3. CASE TriggerConnect \/ TriggerLookup \/ TriggerDelete \/ ToggleSuspend
  BY <1>3 DEF TriggerConnect, TriggerLookup, TriggerDelete, ToggleSuspend, UserWrites, workerVars
<1>4. CASE RancherDelete \/ ChangeSecret \/ AgentBecomesReady \/ NamespaceGone
  BY <1>4 DEF RancherDelete, ChangeSecret, AgentBecomesReady, NamespaceGone, workerVars
<1>5. CASE Crash
  BY <1>5 DEF Crash, Done
<1> QED BY <1>1, <1>2, <1>3, <1>4, <1>5 DEF Environment

\* The early returns go on holding of the worker's copy.
LEMMA GuardsStep == TypeOK /\ GuardsHold /\ [Next]_vars => GuardsHold'
<1> SUFFICES ASSUME TypeOK, GuardsHold, [Next]_vars
             PROVE  GuardsHold'
  OBVIOUS
<1> USE DEF GuardsHold, Attaching, Detaching
<1>0. rs \in Object
  BY DEF TypeOK
<1>1. ASSUME pc' = "idle" PROVE GuardsHold'
  BY <1>1
<1>2. ASSUME pc' = pc, Meta(rs') = Meta(rs) PROVE GuardsHold'
  BY <1>2, MetaFields
<1>3. CASE CacheSync \/ TimerFires \/ Tick \/ Environment \/ UNCHANGED vars
  BY <1>1, <1>2, <1>3, OthersKeepCopy
<1>4. CASE Reconcile
  BY <1>4 DEF Reconcile, Dispatch
<1>5. CASE AddFinalizer \/ SetFailed \/ SetAPIUnreachable \/ RecordApplied \/ BecomeConnected
           \/ RemoveFinalizer \/ RequeueRemaining
  BY <1>1, <1>5 DEF AddFinalizer, SetFailed, SetAPIUnreachable, RecordApplied, BecomeConnected,
     RemoveFinalizer, RequeueRemaining, Return, Requeue, WriteFails, Done
<1>6. CASE BuildClient
  BY <1>6 DEF BuildClient, PhaseHandler, Continue, Return, Done
<1>7. CASE BeginConnect \/ BeginCleanup \/ RecordDisconnected
  <2>1. \A ph : LET p == [rs EXCEPT !.phase = ph] IN
          Meta(p) = Meta(rs) /\ p.phase = ph /\ p.id = rs.id
    BY <1>0, UpdatesKeep
  <2>2. \A ph : LET p == [rs EXCEPT !.phase = ph] IN
          p.there = rs.there /\ p.deleting = rs.deleting /\ p.fin = rs.fin /\ p.suspend = rs.suspend
    BY <2>1, MetaFields
  <2> QED BY <1>7, <2>2 DEF BeginConnect, BeginCleanup, RecordDisconnected, Continue, WriteFails,
             Requeue, Return, Done
<1>8. CASE FindCluster \/ CreateCluster
  <2>1. \A id : LET p == [rs EXCEPT !.id = id] IN
          Meta(p) = Meta(rs) /\ p.phase = rs.phase
    BY <1>0, UpdatesKeep
  <2>2. \A id : LET p == [rs EXCEPT !.id = id] IN
          p.there = rs.there /\ p.deleting = rs.deleting /\ p.fin = rs.fin /\ p.suspend = rs.suspend
    BY <2>1, MetaFields
  <2> QED BY <1>8, <2>2 DEF FindCluster, CreateCluster, Continue
<1>9. CASE GetRegistrationToken \/ ApplyManifest \/ CheckSession
  BY <1>9 DEF GetRegistrationToken, ApplyManifest, CheckSession, Continue
<1>10. CASE PollAgentReady
  BY <1>10 DEF PollAgentReady, Continue, Return, Requeue, Done
<1>11. CASE HandleDisconnect \/ DeleteCluster \/ DeleteNamespace
  BY <1>11 DEF HandleDisconnect, DeleteCluster, DeleteNamespace, Continue, Requeue, Done
<1> QED
  BY <1>3, <1>4, <1>5, <1>6, <1>7, <1>8, <1>9, <1>10, <1>11 DEF Next, ReconcileStep

\* The object is still there, finalized and Connecting while handleConnect is
\* at work on it: only the worker removes the finalizer or moves the phase.
LEMMA AttachingStep ==
  ASSUME TypeOK, CopiesAreCurrent, GuardsHold, PhaseProgress, [Next]_vars, pc' \in Attaching
  PROVE  cr'.there /\ cr'.fin /\ cr'.phase = "Connecting"
<1> USE DEF Attaching
<1>0. cr \in Object /\ rs \in Object
  BY DEF TypeOK
<1>1. ASSUME pc \in Attaching, UNCHANGED cr
      PROVE  cr'.there /\ cr'.fin /\ cr'.phase = "Connecting"
  BY <1>1 DEF PhaseProgress
<1>2. CASE ReconcileStep
  <2>1. CASE BeginConnect
    <3>1. /\ [rs EXCEPT !.phase = "Connecting"].there /\ [rs EXCEPT !.phase = "Connecting"].fin
          /\ [rs EXCEPT !.phase = "Connecting"].phase = "Connecting"
      BY <1>0, <2>1 DEF BeginConnect, GuardsHold, Object
    <3> QED BY <2>1, <3>1 DEF BeginConnect, Stored, StoredAs, WriteFails, Requeue, Done
  <2>2. CASE FindCluster \/ CreateCluster \/ GetRegistrationToken \/ ApplyManifest
    BY <1>1, <2>2 DEF FindCluster, CreateCluster, GetRegistrationToken, ApplyManifest, apiVars
  <2>3. CASE Reconcile \/ BuildClient
    BY <2>3 DEF Reconcile, Dispatch, BuildClient, PhaseHandler, Continue, Return, Done
  <2>4. CASE AddFinalizer \/ SetFailed \/ SetAPIUnreachable \/ RecordApplied \/ BecomeConnected
             \/ RemoveFinalizer \/ RequeueRemaining
    BY <2>4 DEF AddFinalizer, SetFailed, SetAPIUnreachable, RecordApplied, BecomeConnected,
       RemoveFinalizer, RequeueRemaining, Return, Requeue, WriteFails, Done
  <2>5. CASE PollAgentReady \/ CheckSession \/ HandleDisconnect \/ BeginCleanup \/ DeleteCluster
             \/ DeleteNamespace \/ RecordDisconnected
    BY <2>5 DEF PollAgentReady, CheckSession, HandleDisconnect, BeginCleanup, DeleteCluster,
       DeleteNamespace, RecordDisconnected, Continue, Return, Requeue, WriteFails, Done
  <2> QED BY <1>2, <2>1, <2>2, <2>3, <2>4, <2>5 DEF ReconcileStep
<1>3. CASE CacheSync \/ TimerFires \/ Tick \/ Environment \/ UNCHANGED vars
  <2>0. pc \in Attaching
    BY <1>3, OthersKeepCopy
  <2>1. CASE CacheSync \/ TimerFires \/ UNCHANGED vars
    BY <1>1, <2>0, <2>1 DEF CacheSync, TimerFires, vars, apiVars
  <2>2. CASE Tick
    <3>1. Meta(Aged(cr)) = Meta(cr) /\ Aged(cr).phase = cr.phase
      BY <1>0, UpdatesKeep
    <3> QED BY <2>0, <2>2, <3>1, MetaFields DEF Tick, PhaseProgress
  <2>3. CASE TriggerDelete
    BY <1>0, <1>1, <2>0, <2>3 DEF TriggerDelete, UserWrites, PhaseProgress, Object, apiVars
  <2>4. CASE ToggleSuspend
    BY <1>0, <2>0, <2>4 DEF ToggleSuspend, UserWrites, PhaseProgress, Object
  <2>5. CASE TriggerConnect
    BY <2>0, <2>5 DEF TriggerConnect, PhaseProgress
  <2>6. CASE TriggerLookup \/ RancherDelete \/ ChangeSecret \/ AgentBecomesReady \/ NamespaceGone \/ Crash
    BY <1>1, <2>0, <2>6 DEF TriggerLookup, RancherDelete, ChangeSecret, AgentBecomesReady,
       NamespaceGone, Crash, apiVars
  <2> QED BY <1>3, <2>1, <2>2, <2>3, <2>4, <2>5, <2>6 DEF Environment
<1> QED BY <1>2, <1>3 DEF Next

\* Each step of the reconcile starts from the phase it was written for.
LEMMA PhaseStep ==
  TypeOK /\ CopiesAreCurrent /\ GuardsHold /\ PhaseProgress /\ [Next]_vars => PhaseProgress'
<1> SUFFICES ASSUME TypeOK, CopiesAreCurrent, GuardsHold, PhaseProgress, [Next]_vars
             PROVE  PhaseProgress'
  OBVIOUS
<1> USE DEF Attaching, Detaching
<1>0. rs \in Object
  BY DEF TypeOK
<1> DEFINE At(p, o) ==
      /\ p = "connecting" => o.phase \in {"", "Connecting"}
      /\ p \in Attaching \cup {"poll", "connected"} => o.phase = "Connecting"
      /\ p \in {"check", "remaining"} => o.phase = "Connected"
      /\ p = "disconnecting" /\ ~o.deleting => o.phase = "Connected"
      /\ p \in Detaching => o.phase = "Disconnecting"
      /\ p = "unreachable" => o.phase \in {"Connecting", "Connected", "Disconnecting"}
      /\ p = "unreachable" /\ o.deleting => o.phase = "Disconnecting"
<1>a. At(pc, rs)
  BY DEF PhaseProgress
<1> SUFFICES At(pc', rs')
  BY AttachingStep DEF PhaseProgress
<1>1. ASSUME pc' = "idle" PROVE At(pc', rs')
  BY <1>1
<1>2. ASSUME pc' = pc, Meta(rs') = Meta(rs), rs'.phase = rs.phase PROVE At(pc', rs')
  BY <1>a, <1>2, MetaFields
<1>3. CASE CacheSync \/ TimerFires \/ Tick \/ Environment \/ UNCHANGED vars
  BY <1>1, <1>2, <1>3, OthersKeepCopy
<1>4. CASE Reconcile
  BY <1>4 DEF Reconcile, Dispatch
<1>5. CASE AddFinalizer \/ SetFailed \/ SetAPIUnreachable \/ RecordApplied \/ BecomeConnected
           \/ RemoveFinalizer \/ RequeueRemaining
  BY <1>1, <1>5 DEF AddFinalizer, SetFailed, SetAPIUnreachable, RecordApplied, BecomeConnected,
     RemoveFinalizer, RequeueRemaining, Return, Requeue, WriteFails, Done
<1>6. CASE BuildClient
  BY <1>6 DEF BuildClient, PhaseHandler, Continue, Return, Done
<1>7. CASE BeginConnect \/ BeginCleanup \/ RecordDisconnected
  <2>1. \A ph : LET p == [rs EXCEPT !.phase = ph] IN
          Meta(p) = Meta(rs) /\ p.phase = ph /\ p.id = rs.id
    BY <1>0, UpdatesKeep
  <2> QED BY <1>7, <2>1 DEF BeginConnect, BeginCleanup, RecordDisconnected, Continue, WriteFails,
             Requeue, Return, Done
<1>8. CASE FindCluster \/ CreateCluster
  <2>1. \A id : LET p == [rs EXCEPT !.id = id] IN
          Meta(p) = Meta(rs) /\ p.phase = rs.phase
    BY <1>0, UpdatesKeep
  <2>2. \A id : [rs EXCEPT !.id = id].deleting = rs.deleting
    BY <2>1, MetaFields
  <2>3. ~rs.deleting
    BY <1>8 DEF FindCluster, CreateCluster, GuardsHold
  <2> QED BY <1>a, <1>8, <2>1, <2>2, <2>3 DEF FindCluster, CreateCluster, Continue
<1>9. CASE GetRegistrationToken \/ ApplyManifest \/ CheckSession
  <2>1. ~rs.deleting
    BY <1>9 DEF GetRegistrationToken, ApplyManifest, CheckSession, GuardsHold
  <2> QED BY <1>a, <1>9, <2>1 DEF GetRegistrationToken, ApplyManifest, CheckSession, Continue
<1>10. CASE PollAgentReady
  BY <1>a, <1>10 DEF PollAgentReady, Continue, Return, Requeue, Done
<1>11. CASE HandleDisconnect \/ DeleteCluster \/ DeleteNamespace
  BY <1>a, <1>11 DEF HandleDisconnect, DeleteCluster, DeleteNamespace, Continue, Requeue, Done, GuardsHold
<1> QED
  BY <1>3, <1>4, <1>5, <1>6, <1>7, <1>8, <1>9, <1>10, <1>11 DEF Next, ReconcileStep

-----------------------------------------------------------------------------
(* The cluster record and the namespace *)

\* Only CreateCluster adds a record, and only applyManifest brings the
\* namespace back.
LEMMA OutsideStep ==
  ASSUME [Next]_vars
  PROVE  /\ clusters' \subseteq clusters \/ CreateCluster
         /\ ns' = "active" => ns = "active" \/ pc = "apply"
<1> USE DEF rancherVars, edgeVars
<1>1. CASE AddFinalizer \/ SetFailed \/ SetAPIUnreachable \/ BeginConnect \/ RecordApplied
           \/ BecomeConnected \/ BeginCleanup \/ RecordDisconnected \/ RemoveFinalizer
  BY <1>1 DEF AddFinalizer, SetFailed, SetAPIUnreachable, BeginConnect, RecordApplied,
     BecomeConnected, BeginCleanup, RecordDisconnected, RemoveFinalizer
<1>2. CASE Reconcile \/ BuildClient \/ FindCluster \/ GetRegistrationToken \/ PollAgentReady
           \/ CheckSession \/ RequeueRemaining \/ HandleDisconnect
  BY <1>2 DEF Reconcile, BuildClient, FindCluster, GetRegistrationToken, PollAgentReady,
     CheckSession, RequeueRemaining, HandleDisconnect
<1>3. CASE CreateCluster \/ ApplyManifest \/ DeleteCluster
  BY <1>3 DEF CreateCluster, ApplyManifest, DeleteCluster
<1>4. CASE DeleteNamespace
  BY <1>4 DEF DeleteNamespace, Terminated
<1>5. CASE CacheSync \/ TimerFires \/ Tick \/ UNCHANGED vars
  BY <1>5 DEF CacheSync, TimerFires, Tick, vars
<1>6. CASE TriggerConnect \/ TriggerLookup \/ TriggerDelete \/ ToggleSuspend \/ RancherDelete
  BY <1>6 DEF TriggerConnect, TriggerLookup, TriggerDelete, ToggleSuspend, RancherDelete, UserWrites
<1>7. CASE ChangeSecret \/ AgentBecomesReady \/ NamespaceGone \/ Crash
  BY <1>7 DEF ChangeSecret, AgentBecomesReady, NamespaceGone, Crash
<1> QED BY <1>1, <1>2, <1>3, <1>4, <1>5, <1>6, <1>7 DEF Next, ReconcileStep, Environment

\* A record is created only when there is none, under an identifier of its own.
LEMMA OneRecordStep ==
  ASSUME TypeOK, RecordProgress, [Next]_vars
  PROVE  OneClusterRecord' /\ (\A id \in clusters' : id # NoId)
<1>1. CASE clusters' \subseteq clusters
  BY <1>1 DEF RecordProgress, OneClusterRecord
<1>2. CASE CreateCluster
  BY <1>2 DEF CreateCluster, RecordProgress, OneClusterRecord, rancherVars, TypeOK, NoId
<1> QED BY <1>1, <1>2, OutsideStep

\* What the reconcile has established outside the API server by each step.
LEMMA OutsideProgress ==
  ASSUME TypeOK, RecordProgress, [Next]_vars
  PROVE  /\ pc' = "create" => clusters' = {}
         /\ pc' \in {"namespace", "disconnected"} => rs'.id \notin clusters'
         /\ pc' = "namespaceOnly" => client' = "none"
         /\ pc' = "unfinalize" /\ rs'.id \in clusters' => client' = "none"
         /\ pc' \in {"disconnected", "unfinalize"} => ns' # "active"
<1> DEFINE Established(p, o, c, k, n) ==
      /\ p = "create" => c = {}
      /\ p \in {"namespace", "disconnected"} => o.id \notin c
      /\ p = "namespaceOnly" => k = "none"
      /\ p = "unfinalize" /\ o.id \in c => k = "none"
      /\ p \in {"disconnected", "unfinalize"} => n # "active"
<1> SUFFICES Established(pc', rs', clusters', client', ns')
  OBVIOUS
<1>a. Established(pc, rs, clusters, client, ns)
  BY DEF RecordProgress
<1>b. rs \in Object
  BY DEF TypeOK
<1>1. ASSUME pc' = pc, client' = client, rs'.id = rs.id, pc # "apply", ~CreateCluster
      PROVE  Established(pc', rs', clusters', client', ns')
  BY <1>a, <1>1, OutsideStep
<1>2. CASE CacheSync \/ TimerFires \/ Tick \/ Environment \/ UNCHANGED vars
  <2>1. \/ pc' = "idle"
        \/ pc' = pc /\ client' = client /\ rs'.id = rs.id
    BY <1>2, OthersKeepCopy
  <2>2. CASE pc \in {"apply", "create"}
    <3>1. CASE pc = "apply"
      BY <2>1, <3>1
    <3>2. CASE pc = "create"
      <4>1. ~CreateCluster
        <5>1. CreateCluster => pc' # pc /\ pc' # "idle"
          BY DEF CreateCluster, Continue
        <5> QED BY <2>1, <5>1
      <4> QED BY <1>1, <2>1, <3>2, <4>1
    <3> QED BY <2>2, <3>1, <3>2
  <2>3. CASE pc \notin {"apply", "create"}
    BY <1>1, <2>1, <2>3 DEF CreateCluster
  <2> QED BY <2>2, <2>3
<1>3. CASE Reconcile
  BY <1>3 DEF Reconcile, Dispatch
<1>4. CASE AddFinalizer \/ SetFailed \/ SetAPIUnreachable \/ RecordApplied \/ BecomeConnected
           \/ RemoveFinalizer \/ RequeueRemaining
  BY <1>4 DEF AddFinalizer, SetFailed, SetAPIUnreachable, RecordApplied, BecomeConnected,
     RemoveFinalizer, RequeueRemaining, Return, Requeue, WriteFails, Done
<1>5. CASE BuildClient \/ BeginConnect \/ BeginCleanup
  BY <1>5 DEF BuildClient, PhaseHandler, BeginConnect, BeginCleanup, Continue, WriteFails, Requeue,
     Return, Done
<1>6. CASE FindCluster \/ CreateCluster
  BY <1>6 DEF FindCluster, CreateCluster, Continue, rancherVars
<1>7. CASE GetRegistrationToken \/ ApplyManifest \/ CheckSession
  BY <1>7 DEF GetRegistrationToken, ApplyManifest, CheckSession, Continue
<1>8. CASE PollAgentReady
  BY <1>8 DEF PollAgentReady, Continue, Return, Requeue, Done
<1>9. CASE HandleDisconnect
  BY <1>9 DEF HandleDisconnect
<1>10. CASE DeleteCluster
  BY <1>10 DEF DeleteCluster, Continue, Requeue, Done
<1>11. CASE DeleteNamespace
  BY <1>a, <1>11 DEF DeleteNamespace, Terminated, Continue, Requeue, Done, queueVars, rancherVars
<1>12. CASE RecordDisconnected
  <2>1. \A ph : LET p == [rs EXCEPT !.phase = ph] IN
          Meta(p) = Meta(rs) /\ p.phase = ph /\ p.id = rs.id
    BY <1>b, UpdatesKeep
  <2>2. [rs EXCEPT !.phase = "Disconnected"].id = rs.id
    BY <2>1
  <2> QED BY <1>a, <1>12, <2>2 DEF RecordDisconnected, Continue, WriteFails, Requeue, Return, Done,
             rancherVars, edgeVars
<1> QED
  BY <1>2, <1>3, <1>4, <1>5, <1>6, <1>7, <1>8, <1>9, <1>10, <1>11, <1>12 DEF Next, ReconcileStep

\* What a step can do to the stored object: nothing, let time go by, store what
\* the worker holds, or what somebody else writes.
WorkerWrites(new) == "worker" \in cur /\ cr' = new

LEMMA ObjectStep ==
  ASSUME [Next]_vars
  PROVE  \/ UNCHANGED cr
         \/ cr' = Aged(cr)
         \/ pc = "finalizer" /\ WorkerWrites([rs EXCEPT !.fin = TRUE])
         \/ pc = "failed" /\ WorkerWrites([rs EXCEPT !.phase = "Failed", !.reachable = "False"])
         \/ pc = "unreachable" /\ WorkerWrites([rs EXCEPT !.reachable = "False"])
         \/ pc = "connecting" /\ WorkerWrites([rs EXCEPT !.phase = "Connecting"])
         \/ pc = "applied" /\ WorkerWrites([rs EXCEPT !.applied = TRUE, !.exp = ReadyTimeout, !.reachable = "True"])
         \/ pc = "connected" /\ WorkerWrites([rs EXCEPT !.phase = "Connected", !.exp = TTL, !.reachable = "True"])
         \/ pc = "disconnecting" /\ WorkerWrites([rs EXCEPT !.phase = "Disconnecting"])
         \/ pc = "disconnected" /\ WorkerWrites([rs EXCEPT !.phase = "Disconnected"])
         \/ pc = "unfinalize" /\ WorkerWrites(NoObject) /\ UNCHANGED <<clusters, ns>>
         \/ ~cr.there /\ cr' = NewObject
         \/ cr.there /\ ~cr.fin /\ cr' = NoObject
         \/ cr.there /\ cr' = [cr EXCEPT !.deleting = TRUE]
         \/ cr.there /\ cr' = [cr EXCEPT !.suspend = ~@]
<1>1. ASSUME NEW new, NEW changes, StoredAs(new, changes) \/ WriteFails(new)
      PROVE  UNCHANGED cr \/ WorkerWrites(new)
  BY <1>1 DEF StoredAs, WriteFails, WorkerWrites
<1>2. CASE AddFinalizer \/ BeginConnect \/ RecordApplied
  BY <1>1, <1>2 DEF AddFinalizer, BeginConnect, RecordApplied, Stored
<1>3. CASE SetFailed \/ SetAPIUnreachable
  BY <1>1, <1>3 DEF SetFailed, SetAPIUnreachable
<1>4. CASE BecomeConnected \/ BeginCleanup \/ RecordDisconnected \/ RemoveFinalizer
  BY <1>1, <1>4 DEF BecomeConnected, BeginCleanup, RecordDisconnected, RemoveFinalizer, Stored,
     rancherVars, edgeVars
<1>5. CASE Reconcile \/ BuildClient \/ FindCluster \/ CreateCluster \/ GetRegistrationToken
           \/ ApplyManifest \/ PollAgentReady \/ CheckSession \/ RequeueRemaining
           \/ HandleDisconnect \/ DeleteCluster \/ DeleteNamespace
  BY <1>5 DEF Reconcile, BuildClient, FindCluster, CreateCluster, GetRegistrationToken,
     ApplyManifest, PollAgentReady, CheckSession, RequeueRemaining, HandleDisconnect,
     DeleteCluster, DeleteNamespace, apiVars
<1>6. CASE CacheSync \/ TimerFires \/ Tick \/ UNCHANGED vars
  BY <1>6 DEF CacheSync, TimerFires, Tick, vars, apiVars
<1>7. CASE TriggerConnect \/ TriggerDelete \/ ToggleSuspend
  BY <1>7 DEF TriggerConnect, TriggerDelete, ToggleSuspend, UserWrites, apiVars
<1>8. CASE TriggerLookup \/ RancherDelete \/ ChangeSecret \/ AgentBecomesReady \/ NamespaceGone \/ Crash
  BY <1>8 DEF TriggerLookup, RancherDelete, ChangeSecret, AgentBecomesReady, NamespaceGone, Crash, apiVars
<1> QED
  BY <1>2, <1>3, <1>4, <1>5, <1>6, <1>7, <1>8 DEF Next, ReconcileStep, Environment

\* A session becomes Disconnected only after its cleanup, and nothing is
\* attached to it afterwards.
LEMMA CleanStep ==
  ASSUME TypeOK, CopiesAreCurrent, GuardsHold, PhaseProgress, RecordProgress, [Next]_vars
  PROVE  DisconnectedIsClean'
<1> SUFFICES ASSUME cr'.there, cr'.phase = "Disconnected"
             PROVE  cr'.id \notin clusters' /\ ns' # "active"
  BY DEF DisconnectedIsClean
<1>0. cr \in Object /\ rs \in Object
  BY DEF TypeOK
<1>1. CASE cr.there /\ cr.phase = "Disconnected" /\ cr'.id = cr.id
  <2>1. pc \notin Attaching
    BY <1>1 DEF PhaseProgress
  <2>2. ~CreateCluster /\ pc # "apply"
    BY <2>1 DEF CreateCluster, Attaching
  <2> QED BY <1>1, <2>2, OutsideStep DEF RecordProgress, DisconnectedIsClean
<1>2. CASE pc = "disconnected" /\ WorkerWrites([rs EXCEPT !.phase = "Disconnected"])
  <2>1. cr'.id = rs.id
    BY <1>0, <1>2 DEF WorkerWrites, Object
  <2>2. ~CreateCluster
    BY <1>2 DEF CreateCluster
  <2> QED BY <1>2, <2>1, <2>2, OutsideStep DEF RecordProgress
<1>3. CASE pc = "finalizer" /\ WorkerWrites([rs EXCEPT !.fin = TRUE])
  <2>1. rs = cr
    BY <1>3 DEF WorkerWrites, CopiesAreCurrent, Changed
  <2>2. cr.there /\ cr.phase = "Disconnected" /\ cr'.id = cr.id
    BY <1>0, <1>3, <2>1 DEF WorkerWrites, Object
  <2> QED BY <1>1, <2>2
<1>4. CASE pc = "unreachable" /\ WorkerWrites([rs EXCEPT !.reachable = "False"])
  <2>1. cr'.phase = rs.phase
    BY <1>0, <1>4 DEF WorkerWrites, Object
  <2> QED BY <1>4, <2>1 DEF PhaseProgress
<1>5. CASE pc = "applied" /\ WorkerWrites([rs EXCEPT !.applied = TRUE, !.exp = ReadyTimeout, !.reachable = "True"])
  <2>1. cr'.phase = rs.phase
    BY <1>0, <1>5 DEF WorkerWrites, Object
  <2> QED BY <1>5, <2>1 DEF PhaseProgress, Attaching
<1>6. /\ ~WorkerWrites([rs EXCEPT !.phase = "Failed", !.reachable = "False"])
      /\ ~WorkerWrites([rs EXCEPT !.phase = "Connecting"])
      /\ ~WorkerWrites([rs EXCEPT !.phase = "Connected", !.exp = TTL, !.reachable = "True"])
      /\ ~WorkerWrites([rs EXCEPT !.phase = "Disconnecting"])
  <2>1. /\ [rs EXCEPT !.phase = "Failed", !.reachable = "False"].phase = "Failed"
        /\ [rs EXCEPT !.phase = "Connecting"].phase = "Connecting"
        /\ [rs EXCEPT !.phase = "Connected", !.exp = TTL, !.reachable = "True"].phase = "Connected"
        /\ [rs EXCEPT !.phase = "Disconnecting"].phase = "Disconnecting"
    BY <1>0 DEF Object
  <2> QED BY <2>1 DEF WorkerWrites
<1>7. cr' # NoObject /\ cr' # NewObject
  <2>1. ~NoObject.there /\ NewObject.phase = ""
    BY NewObjectType DEF NoObject, NewObject, Object
  <2> QED BY <2>1
<1>8. CASE UNCHANGED cr \/ cr' = Aged(cr)
  <2>1. cr.there /\ cr.phase = "Disconnected" /\ cr'.id = cr.id
    BY <1>0, <1>8 DEF Aged, Object
  <2> QED BY <1>1, <2>1
<1>9. CASE cr' = [cr EXCEPT !.deleting = TRUE] \/ cr' = [cr EXCEPT !.suspend = ~@]
  <2>1. cr.there /\ cr.phase = "Disconnected" /\ cr'.id = cr.id
    BY <1>0, <1>9 DEF Object
  <2> QED BY <1>1, <2>1
<1> QED BY <1>2, <1>3, <1>4, <1>5, <1>6, <1>7, <1>8, <1>9, ObjectStep DEF WorkerWrites

LEMMA RecordStep ==
  TypeOK /\ CopiesAreCurrent /\ GuardsHold /\ PhaseProgress /\ RecordProgress /\ [Next]_vars
    => RecordProgress'
  BY OneRecordStep, OutsideProgress, CleanStep DEF RecordProgress

-----------------------------------------------------------------------------
(* Waking up *)

\* A worker whose copy the cache has overtaken goes on having its key queued.
LEMMA OvertakenStep ==
  ASSUME TypeOK, CopiesAreCurrent, WakeProgress, [Next]_vars,
         pc' # "idle", "cache" \in cur', "worker" \notin cur'
  PROVE  queue' = "queued"
<1> USE DEF apiVars, queueVars
<1>a. UNCHANGED <<pc, cur, queue>> => queue' = "queued"
  BY DEF WakeProgress
<1>b. ASSUME UNCHANGED <<cur, queue>>, pc # "idle" PROVE queue' = "queued"
  BY <1>b DEF WakeProgress
<1>1. CASE Reconcile
  BY <1>1 DEF Reconcile
<1>2. CASE AddFinalizer \/ SetFailed \/ SetAPIUnreachable \/ RecordApplied \/ BecomeConnected
           \/ RemoveFinalizer \/ RequeueRemaining
  BY <1>2 DEF AddFinalizer, SetFailed, SetAPIUnreachable, RecordApplied, BecomeConnected,
     RemoveFinalizer, RequeueRemaining, Return, Requeue, WriteFails, Done
<1>3. CASE BeginConnect \/ BeginCleanup \/ RecordDisconnected
  BY <1>3 DEF BeginConnect, BeginCleanup, RecordDisconnected, Stored, StoredAs, WriteFails,
     Requeue, Return, Done
<1>4. CASE BuildClient
  BY <1>b, <1>4 DEF BuildClient, Continue, Return, Done
<1>5. CASE FindCluster \/ CreateCluster \/ GetRegistrationToken \/ ApplyManifest
           \/ CheckSession \/ HandleDisconnect
  BY <1>b, <1>5 DEF FindCluster, CreateCluster, GetRegistrationToken, ApplyManifest,
     CheckSession, HandleDisconnect, Continue
<1>6. CASE PollAgentReady \/ DeleteCluster \/ DeleteNamespace
  BY <1>b, <1>6 DEF PollAgentReady, DeleteCluster, DeleteNamespace, Continue, Return, Requeue, Done
<1>7. CASE CacheSync \/ TimerFires
  BY <1>7 DEF CacheSync, TimerFires
<1>8. CASE Tick \/ UNCHANGED vars
  BY <1>a, <1>8 DEF Tick, vars, workerVars
<1>9. CASE TriggerConnect \/ TriggerDelete \/ ToggleSuspend
  BY <1>a, <1>9 DEF TriggerConnect, TriggerDelete, ToggleSuspend, UserWrites, workerVars
<1>10. CASE TriggerLookup \/ RancherDelete \/ ChangeSecret \/ AgentBecomesReady \/ NamespaceGone
  BY <1>a, <1>10 DEF TriggerLookup, RancherDelete, ChangeSecret, AgentBecomesReady, NamespaceGone,
     workerVars
<1>11. CASE Crash
  BY <1>11 DEF Crash, Done
<1> QED
  BY <1>1, <1>2, <1>3, <1>4, <1>5, <1>6, <1>7, <1>8, <1>9, <1>10, <1>11
     DEF Next, ReconcileStep, Environment

\* A delay sets the timer, or leaves it set.
LEMMA TimerIsSet ==
  ASSUME TypeOK, NEW d \in Nat \ {0}, timer' = AddAfter(d)
  PROVE  timer' # NoTimer
  BY DEF TypeOK, AddAfter, NoTimer

\* ... and a timer that is set is counted down to 0, where it fires.
LEMMA CountdownIsSet ==
  ASSUME NEW t \in Nat
  PROVE  Countdown(t) # NoTimer
  BY DEF Countdown, NoTimer

\* A session that still has to connect, fail or expire goes on having a wakeup.
LEMMA WakeupStep ==
  ASSUME TypeOK, CopiesAreCurrent, GuardsHold, PhaseProgress, WakeProgress, [Next]_vars
  PROVE  NoLostWakeup'
<1> SUFFICES ASSUME Unsettled(cr'), "cache" \in cur', pc' = "idle"
             PROVE  queue' = "queued" \/ timer' # NoTimer
  BY DEF NoLostWakeup, Waking, Unsettled
<1>u. /\ cr'.there /\ ~cr'.deleting /\ ~cr'.suspend
      /\ cr'.phase \in {"", "Connecting", "Connected"}
      /\ cr'.phase = "Connected" => cr'.exp > 0
  BY DEF Unsettled
<1> USE DEF apiVars, queueVars
<1>0. /\ cr \in Object /\ cache \in Object /\ rs \in Object
      /\ PollInterval \in Nat \ {0} /\ ErrorWait \in Nat \ {0} /\ TTL \in Nat \ {0}
  BY ConstantsAssumption DEF TypeOK
<1>a. ASSUME Requeue PROVE queue' = "queued"
  BY <1>a DEF Requeue
<1>b. ASSUME NEW d \in Nat \ {0}, Return(d) PROVE timer' # NoTimer
  BY <1>b, TimerIsSet DEF Return
<1>c. ASSUME UNCHANGED <<apiVars, queue, timer, pc>> PROVE queue' = "queued" \/ timer' # NoTimer
  BY <1>c DEF WakeProgress, NoLostWakeup, Waking
\* A reconcile that ends without a delay has seen a phase that needs none, or
\* an object that has changed since.
<1>d. ASSUME UNCHANGED <<apiVars, queue>>, pc # "idle",
             rs.phase \notin {"", "Connecting", "Connected"}
      PROVE  queue' = "queued"
  BY <1>d, <1>u DEF CopiesAreCurrent, WakeProgress
<1>1. CASE Reconcile
  BY <1>1, <1>u DEF Reconcile, Dispatch, CopiesAreCurrent
<1>2. CASE BuildClient
  BY <1>d, <1>2 DEF BuildClient, PhaseHandler, Continue, Return, Done
<1>3. CASE AddFinalizer
  BY <1>a, <1>3 DEF AddFinalizer, WriteFails
<1>4. CASE SetFailed
  <2>1. [rs EXCEPT !.phase = "Failed", !.reachable = "False"].phase = "Failed"
    BY <1>0 DEF Object
  <2> QED BY <1>a, <1>u, <1>4, <2>1 DEF SetFailed, StoredAs, WriteFails
<1>5. CASE SetAPIUnreachable
  <2>1. [rs EXCEPT !.reachable = "False"].deleting = rs.deleting
    BY <1>0 DEF Object
  <2> QED BY <1>0, <1>a, <1>b, <1>u, <1>5, <2>1 DEF SetAPIUnreachable, StoredAs, WriteFails
<1>6. CASE BeginConnect \/ BeginCleanup
  BY <1>a, <1>6 DEF BeginConnect, BeginCleanup, Continue, WriteFails
<1>7. CASE RecordApplied
  BY <1>0, <1>a, <1>b, <1>7 DEF RecordApplied, WriteFails
<1>8. CASE BecomeConnected
  BY <1>0, <1>a, <1>b, <1>8 DEF BecomeConnected, WriteFails
<1>9. CASE RecordDisconnected
  <2>1. [rs EXCEPT !.phase = "Disconnected"].phase = "Disconnected"
    BY <1>0 DEF Object
  <2> QED BY <1>a, <1>u, <1>9, <2>1 DEF RecordDisconnected, Stored, StoredAs, WriteFails, Continue
<1>10. CASE RemoveFinalizer
  <2>1. ~NoObject.there
    BY NewObjectType DEF NoObject, Object
  <2> QED BY <1>a, <1>u, <1>10, <2>1 DEF RemoveFinalizer, Stored, StoredAs, WriteFails
<1>11. CASE RequeueRemaining
  <2>1. pc = "remaining" /\ rs.phase = "Connected" /\ Return(rs.exp) /\ UNCHANGED apiVars
    BY <1>11 DEF RequeueRemaining, PhaseProgress
  <2>2. CASE "worker" \in cur
    <3>1. rs = cr
      BY <2>1, <2>2 DEF CopiesAreCurrent, Changed
    <3>2. rs.exp > 0
      BY <1>u, <2>1, <3>1
    <3>3. rs.exp \in Nat \cup {NoTimer}
      BY <1>0 DEF Object
    <3>4. rs.exp \in Nat \ {0}
      BY <3>2, <3>3 DEF NoTimer
    <3> QED BY <1>b, <2>1, <3>4
  <2>3. CASE "worker" \notin cur
    BY <2>1, <2>3 DEF WakeProgress, Return
  <2> QED BY <2>2, <2>3
<1>12. CASE FindCluster \/ CreateCluster \/ GetRegistrationToken \/ ApplyManifest \/ CheckSession
            \/ HandleDisconnect
  BY <1>12 DEF FindCluster, CreateCluster, GetRegistrationToken, ApplyManifest, CheckSession,
     HandleDisconnect, Continue
<1>13. CASE PollAgentReady
  BY <1>0, <1>a, <1>b, <1>13 DEF PollAgentReady, Continue
<1>14. CASE DeleteCluster \/ DeleteNamespace
  BY <1>a, <1>14 DEF DeleteCluster, DeleteNamespace, Continue
<1>15. CASE CacheSync \/ TimerFires
  BY <1>15 DEF CacheSync, TimerFires
<1>16. CASE Tick
  <2>1. Meta(Aged(cr)) = Meta(cr) /\ Aged(cr).phase = cr.phase
    BY <1>0, UpdatesKeep
  <2>2. Aged(cr).exp > 0 => cr.exp > 0
    BY <1>0 DEF Aged, Countdown, Object, NoTimer
  <2>u. Unsettled(cr)
    BY <1>u, <1>16, <2>1, <2>2, MetaFields DEF Tick, Unsettled
  <2>3. timer # NoTimer => Countdown(timer) # NoTimer
    BY CountdownIsSet DEF TypeOK
  <2> QED BY <1>16, <2>u, <2>3 DEF Tick, WakeProgress, NoLostWakeup, Waking
<1>17. CASE TriggerConnect \/ TriggerDelete \/ ToggleSuspend
  BY <1>c, <1>17 DEF TriggerConnect, TriggerDelete, ToggleSuspend, UserWrites, workerVars
<1>18. CASE TriggerLookup \/ RancherDelete \/ ChangeSecret \/ AgentBecomesReady \/ NamespaceGone
            \/ UNCHANGED vars
  BY <1>c, <1>18 DEF TriggerLookup, RancherDelete, ChangeSecret, AgentBecomesReady, NamespaceGone,
     workerVars, vars
<1>19. CASE Crash
  BY <1>19, <1>u DEF Crash
<1> QED
  BY <1>1, <1>2, <1>3, <1>4, <1>5, <1>6, <1>7, <1>8, <1>9, <1>10, <1>11, <1>12, <1>13, <1>14,
     <1>15, <1>16, <1>17, <1>18, <1>19 DEF Next, ReconcileStep, Environment

LEMMA WakeStep ==
  TypeOK /\ CopiesAreCurrent /\ GuardsHold /\ PhaseProgress /\ WakeProgress /\ [Next]_vars
    => WakeProgress'
  BY OvertakenStep, WakeupStep DEF WakeProgress

-----------------------------------------------------------------------------
(* The theorems *)

\* A session that has just been asked for satisfies the invariant.
LEMMA SafetyInit == Init => SafetyInvariant
<1> SUFFICES ASSUME Init
             PROVE  SafetyInvariant
  OBVIOUS
<1>1. CopiesAreCurrent /\ GuardsHold
  BY DEF Init, CopiesAreCurrent, GuardsHold, Attaching, Detaching
<1>2. PhaseProgress
  BY DEF Init, PhaseProgress, Attaching, Detaching
<1>3. RecordProgress
  BY DEF Init, RecordProgress, OneClusterRecord, DisconnectedIsClean, NewObject
<1>4. WakeProgress
  BY DEF Init, WakeProgress, NoLostWakeup, Waking
<1> QED BY <1>1, <1>2, <1>3, <1>4 DEF SafetyInvariant

\* Every reachable state satisfies the inductive invariant.
THEOREM Safety == Spec => []SafetyInvariant
<1>1. TypeOK /\ SafetyInvariant /\ [Next]_vars => SafetyInvariant'
  BY CopiesStep, GuardsStep, PhaseStep, RecordStep, WakeStep DEF SafetyInvariant
<1> QED BY <1>1, SafetyInit, TypeCorrect, PTL DEF Spec

\* Rancher never has two records of the session's name, however often
\* handleConnect fails and starts again.
THEOREM OneRecord == Spec => []OneClusterRecord
<1>1. SafetyInvariant => OneClusterRecord
  BY DEF SafetyInvariant, RecordProgress
<1> QED BY <1>1, Safety, PTL

\* A Disconnected session has left neither its record nor its namespace behind.
THEOREM DisconnectedClean == Spec => []DisconnectedIsClean
<1>1. SafetyInvariant => DisconnectedIsClean
  BY DEF SafetyInvariant, RecordProgress
<1> QED BY <1>1, Safety, PTL

\* Reconcile never leaves a session that has yet to connect, or whose TTL is still
\* running, without an event, a queued key or a timer.
THEOREM NoWakeupLost == Spec => []NoLostWakeup
<1>1. SafetyInvariant => NoLostWakeup
  BY DEF SafetyInvariant, WakeProgress
<1> QED BY <1>1, Safety, PTL

\* The finalizer is given up only after the cleanup.
THEOREM RemovalAfterCleanup == Spec => CleanupBeforeRemoval
<1>1. TypeOK /\ SafetyInvariant /\ [Next]_vars => [RemovalStep]_vars
  <2> SUFFICES ASSUME TypeOK, SafetyInvariant, [Next]_vars, cr.there, cr.fin, ~cr'.there
               PROVE  ns # "active" /\ (cr.id \in clusters => client = "none")
    BY DEF RemovalStep
  <2>0. cr \in Object /\ rs \in Object
    BY DEF TypeOK
  <2>1. CASE pc = "unfinalize" /\ WorkerWrites(NoObject)
    <3>1. rs = cr
      BY <2>1 DEF WorkerWrites, SafetyInvariant, CopiesAreCurrent, Changed
    <3> QED BY <2>1, <3>1 DEF SafetyInvariant, RecordProgress
  <2>2. rs.there => /\ [rs EXCEPT !.fin = TRUE].there
                    /\ [rs EXCEPT !.phase = "Failed", !.reachable = "False"].there
                    /\ [rs EXCEPT !.reachable = "False"].there
                    /\ [rs EXCEPT !.applied = TRUE, !.exp = ReadyTimeout, !.reachable = "True"].there
                    /\ [rs EXCEPT !.phase = "Connected", !.exp = TTL, !.reachable = "True"].there
    BY <2>0 DEF Object
  <2>3. rs.there => /\ [rs EXCEPT !.phase = "Connecting"].there
                    /\ [rs EXCEPT !.phase = "Disconnecting"].there
                    /\ [rs EXCEPT !.phase = "Disconnected"].there
    BY <2>0 DEF Object
  <2>4. Aged(cr).there /\ [cr EXCEPT !.deleting = TRUE].there /\ [cr EXCEPT !.suspend = ~@].there
    BY <2>0 DEF Object, Aged
  <2>5. pc # "idle" => rs.there
    BY DEF SafetyInvariant, GuardsHold
  <2> QED BY <2>1, <2>2, <2>3, <2>4, <2>5, ObjectStep DEF WorkerWrites
<1> QED BY <1>1, Safety, TypeCorrect, PTL DEF Spec, CleanupBeforeRemoval

\* The order of the phases.
LEMMA RankValues ==
  /\ Rank("") = 0 /\ Rank("Connecting") = 1 /\ Rank("Connected") = 2
  /\ Rank("Disconnecting") = 3 /\ Rank("Disconnected") = 4 /\ Rank("Failed") = 5
<1>1. Rank("") = 0 /\ Rank("Connecting") = 1
  BY DEF Rank
<1>2. Rank("Connected") = 2
  BY DEF Rank
<1>3. Rank("Disconnecting") = 3
  BY DEF Rank
<1>4. Rank("Disconnected") = 4
  BY DEF Rank
<1>5. Rank("Failed") = 5
  BY DEF Rank
<1> QED BY <1>1, <1>2, <1>3, <1>4, <1>5

\* Each phase is no earlier than itself, Failed than any other, and each write of
\* the reconciler moves the phase on.
LEMMA RankOrder ==
  /\ \A p \in Phases : Rank(p) >= Rank(p) /\ Rank("Failed") >= Rank(p)
  /\ Rank("Connecting") >= Rank("")
  /\ Rank("Connected") >= Rank("Connecting")
  /\ Rank("Disconnecting") >= Rank("Connected")
  /\ Rank("Disconnected") >= Rank("Disconnecting")
<1>1. \A p \in Phases : Rank(p) >= Rank(p) /\ Rank("Failed") >= Rank(p)
  <2> SUFFICES ASSUME NEW p \in Phases
               PROVE  Rank(p) >= Rank(p) /\ Rank("Failed") >= Rank(p)
    OBVIOUS
  <2>1. p = "" \/ p = "Connecting" \/ p = "Connected" \/ p = "Disconnecting"
        \/ p = "Disconnected" \/ p = "Failed"
    BY DEF Phases
  <2>2. /\ 0 >= 0 /\ 1 >= 1 /\ 2 >= 2 /\ 3 >= 3 /\ 4 >= 4 /\ 5 >= 5
        /\ 5 >= 0 /\ 5 >= 1 /\ 5 >= 2 /\ 5 >= 3 /\ 5 >= 4
    OBVIOUS
  <2>3. CASE p = "" \/ p = "Connecting"
    BY <2>2, <2>3, RankValues, Zenon
  <2>4. CASE p = "Connected" \/ p = "Disconnecting"
    BY <2>2, <2>4, RankValues, Zenon
  <2>5. CASE p = "Disconnected" \/ p = "Failed"
    BY <2>2, <2>5, RankValues, Zenon
  <2> QED BY <2>1, <2>3, <2>4, <2>5
<1>2. 1 >= 0 /\ 2 >= 1 /\ 3 >= 2 /\ 4 >= 3
  OBVIOUS
<1> QED BY <1>1, <1>2, RankValues, Zenon

\* Until its deletion a session never goes back to an earlier phase.
THEOREM PhasesForward == Spec => PhasesMoveForward
<1>1. TypeOK /\ SafetyInvariant /\ [Next]_vars => [ForwardStep]_vars
  <2> SUFFICES ASSUME TypeOK, SafetyInvariant, [Next]_vars, cr.there, cr'.there, ~cr'.deleting
               PROVE  Rank(cr'.phase) >= Rank(cr.phase)
    BY DEF ForwardStep
  <2>0. cr \in Object /\ rs \in Object
    BY DEF TypeOK
  <2>2. cr.phase \in Phases
    BY <2>0 DEF Object
  <2>3. ASSUME cr'.phase = cr.phase PROVE Rank(cr'.phase) >= Rank(cr.phase)
    BY <2>2, <2>3, RankOrder
  <2>4. ASSUME "worker" \in cur, pc # "idle" PROVE rs.phase = cr.phase
    BY <2>4 DEF SafetyInvariant, CopiesAreCurrent
  <2>5. CASE UNCHANGED cr \/ cr' = Aged(cr) \/ cr' = [cr EXCEPT !.deleting = TRUE]
             \/ cr' = [cr EXCEPT !.suspend = ~@]
    <3>1. cr'.phase = cr.phase
      BY <2>0, <2>5 DEF Aged, Object
    <3> QED BY <2>3, <3>1
  <2>6. CASE \/ pc = "finalizer" /\ WorkerWrites([rs EXCEPT !.fin = TRUE])
             \/ pc = "unreachable" /\ WorkerWrites([rs EXCEPT !.reachable = "False"])
             \/ pc = "applied" /\ WorkerWrites([rs EXCEPT !.applied = TRUE, !.exp = ReadyTimeout, !.reachable = "True"])
    <3>1. cr'.phase = rs.phase /\ "worker" \in cur /\ pc # "idle"
      BY <2>0, <2>6 DEF WorkerWrites, Object
    <3> QED BY <2>3, <2>4, <3>1
  <2>7. CASE pc = "failed" /\ WorkerWrites([rs EXCEPT !.phase = "Failed", !.reachable = "False"])
    <3>1. cr'.phase = "Failed"
      BY <2>0, <2>7 DEF WorkerWrites, Object
    <3> QED BY <2>2, <3>1, RankOrder, Zenon
  <2>8. CASE pc = "connecting" /\ WorkerWrites([rs EXCEPT !.phase = "Connecting"])
    <3>1. cr'.phase = "Connecting" /\ (cr.phase = "" \/ cr.phase = "Connecting")
      BY <2>0, <2>4, <2>8 DEF WorkerWrites, Object, SafetyInvariant, PhaseProgress
    <3> QED BY <2>2, <3>1, RankOrder, Zenon
  <2>9. CASE pc = "connected" /\ WorkerWrites([rs EXCEPT !.phase = "Connected", !.exp = TTL, !.reachable = "True"])
    <3>1. cr'.phase = "Connected" /\ cr.phase = "Connecting"
      BY <2>0, <2>4, <2>9 DEF WorkerWrites, Object, SafetyInvariant, PhaseProgress
    <3> QED BY <2>2, <3>1, RankOrder, Zenon
  <2>10. CASE pc = "disconnecting" /\ WorkerWrites([rs EXCEPT !.phase = "Disconnecting"])
    <3>1. cr'.phase = "Disconnecting" /\ cr'.deleting = rs.deleting
      BY <2>0, <2>10 DEF WorkerWrites, Object
    <3>2. cr.phase = "Connected"
      BY <2>4, <2>10, <3>1 DEF WorkerWrites, SafetyInvariant, PhaseProgress
    <3> QED BY <3>1, <3>2, RankOrder, Zenon
  <2>11. CASE pc = "disconnected" /\ WorkerWrites([rs EXCEPT !.phase = "Disconnected"])
    <3>1. cr'.phase = "Disconnected" /\ cr.phase = "Disconnecting"
      BY <2>0, <2>4, <2>11 DEF WorkerWrites, Object, SafetyInvariant, PhaseProgress, Detaching
    <3> QED BY <2>2, <3>1, RankOrder, Zenon
  <2>12. cr' # NoObject
    BY NewObjectType DEF NoObject, Object
  <2> QED
    BY <2>5, <2>6, <2>7, <2>8, <2>9, <2>10, <2>11, <2>12, ObjectStep DEF WorkerWrites
<1> QED BY <1>1, Safety, TypeCorrect, PTL DEF Spec, PhasesMoveForward
=============================================================================

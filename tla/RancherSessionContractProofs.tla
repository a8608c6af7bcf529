-------------------- MODULE RancherSessionContractProofs --------------------
(* RancherSession implements SessionContract, for every value of its constants. *)
EXTENDS RancherSessionProofs

-----------------------------------------------------------------------------
(* What a step does to the object *)

\* The object stays in the API server.
Stays == cr.there /\ cr'.there /\ cr'.deleting = cr.deleting

\* The worker stores its copy, which is that of the current version.
Writes(at) == pc = at /\ "worker" \in cur /\ Stays /\ cr'.fin

KeepsSession ==
  /\ cr'.there = cr.there /\ cr'.deleting = cr.deleting /\ cr'.fin = cr.fin
  /\ cr'.phase = cr.phase /\ cr'.id = cr.id

WritesFinalizer == Writes("finalizer") /\ cr'.phase = cr.phase /\ cr'.id = cr.id

WritesFailed ==
  Writes("failed") /\ cr.fin /\ ~cr.deleting /\ cr'.phase = "Failed" /\ cr'.id = rs.id /\ cr.phase = rs.phase

WritesIdentifier ==
  /\ Writes("applied") \/ Writes("unreachable")
  /\ cr.fin /\ cr'.phase = cr.phase /\ cr'.id = rs.id /\ cr.phase = rs.phase
  /\ pc = "applied" => cr.phase = "Connecting" /\ ~cr.deleting
  /\ pc = "unreachable" => cr.phase \in {"Connecting", "Connected", "Disconnecting"}
  /\ cr.deleting => cr.phase = "Disconnecting"

WritesConnecting ==
  /\ Writes("connecting") /\ cr.fin /\ ~cr.deleting
  /\ cr.phase \in {"", "Connecting"} /\ cr'.phase = "Connecting" /\ cr'.id = cr.id

WritesConnected ==
  /\ Writes("connected") /\ cr.fin /\ ~cr.deleting
  /\ cr.phase = "Connecting" /\ cr'.phase = "Connected" /\ cr'.id = cr.id

WritesDisconnecting ==
  /\ Writes("disconnecting") /\ cr.fin /\ (cr.deleting \/ cr.phase = "Connected")
  /\ cr'.phase = "Disconnecting" /\ cr'.id = cr.id

WritesDisconnected ==
  /\ Writes("disconnected") /\ cr.fin
  /\ cr.phase = "Disconnecting" /\ cr'.phase = "Disconnected" /\ cr'.id = cr.id /\ cr.id = rs.id

GivesUpFinalizer ==
  pc = "unfinalize" /\ "worker" \in cur /\ cr.there /\ cr.deleting /\ ~cr'.there /\ cr'.id = NoId

Appears == ~cr.there /\ cr' = NewObject
Disappears == cr.there /\ ~cr.fin /\ ~cr'.there /\ cr'.id = NoId
IsMarked ==
  /\ cr.there /\ cr'.there /\ cr'.deleting
  /\ cr'.fin = cr.fin /\ cr'.phase = cr.phase /\ cr'.id = cr.id

\* Every step does one of these.
LEMMA SessionStep ==
  ASSUME TypeOK, SafetyInvariant, [Next]_vars
  PROVE  \/ KeepsSession \/ WritesFinalizer \/ WritesFailed \/ WritesIdentifier
         \/ WritesConnecting \/ WritesConnected \/ WritesDisconnecting \/ WritesDisconnected
         \/ GivesUpFinalizer \/ Appears \/ Disappears \/ IsMarked
<1>0. cr \in Object /\ rs \in Object
  BY DEF TypeOK
<1>a. CopiesAreCurrent /\ GuardsHold /\ PhaseProgress
  BY DEF SafetyInvariant
<1>b. ASSUME "worker" \in cur, pc # "idle"
      PROVE  /\ cr.there = rs.there /\ cr.deleting = rs.deleting /\ cr.fin = rs.fin
             /\ cr.phase = rs.phase
             /\ rs.there
  BY <1>a, <1>b, MetaFields DEF CopiesAreCurrent, GuardsHold
<1>c. ASSUME "worker" \in cur, pc \notin Changed \cup {"idle"} PROVE rs.id = cr.id
  BY <1>a, <1>c DEF CopiesAreCurrent
<1>d. ~NoObject.there /\ NoObject.id = NoId
  BY NewObjectType DEF NoObject, NewObject, Object
<1>1. CASE UNCHANGED cr
  BY <1>1 DEF KeepsSession
<1>2. CASE cr' = Aged(cr) \/ cr' = [cr EXCEPT !.suspend = ~@]
  BY <1>0, <1>2 DEF Aged, Object, KeepsSession
<1>3. CASE cr.there /\ cr' = [cr EXCEPT !.deleting = TRUE]
  BY <1>0, <1>3 DEF Object, IsMarked
<1>4. CASE pc = "finalizer" /\ WorkerWrites([rs EXCEPT !.fin = TRUE])
  <2>1. /\ cr'.there = rs.there /\ cr'.deleting = rs.deleting /\ cr'.fin
        /\ cr'.phase = rs.phase /\ cr'.id = rs.id
    BY <1>0, <1>4 DEF WorkerWrites, Object
  <2> QED BY <1>4, <1>b, <1>c, <2>1 DEF WorkerWrites, WritesFinalizer, Writes, Stays, Changed
<1>5. CASE pc = "failed" /\ WorkerWrites([rs EXCEPT !.phase = "Failed", !.reachable = "False"])
  <2>1. /\ cr'.there = rs.there /\ cr'.deleting = rs.deleting /\ cr'.fin = rs.fin
        /\ cr'.phase = "Failed" /\ cr'.id = rs.id
    BY <1>0, <1>5 DEF WorkerWrites, Object
  <2>2. rs.fin /\ ~rs.deleting
    BY <1>5, <1>a DEF GuardsHold
  <2> QED BY <1>5, <1>b, <2>1, <2>2 DEF WorkerWrites, WritesFailed, Writes, Stays
<1>6. CASE pc = "unreachable" /\ WorkerWrites([rs EXCEPT !.reachable = "False"])
  <2>1. /\ cr'.there = rs.there /\ cr'.deleting = rs.deleting /\ cr'.fin = rs.fin
        /\ cr'.phase = rs.phase /\ cr'.id = rs.id
    BY <1>0, <1>6 DEF WorkerWrites, Object
  <2>2. /\ rs.fin /\ rs.phase \in {"Connecting", "Connected", "Disconnecting"}
        /\ rs.deleting => rs.phase = "Disconnecting"
    BY <1>6, <1>a DEF GuardsHold, PhaseProgress
  <2> QED BY <1>6, <1>b, <2>1, <2>2 DEF WorkerWrites, WritesIdentifier, Writes, Stays
<1>7. CASE pc = "applied" /\ WorkerWrites([rs EXCEPT !.applied = TRUE, !.exp = ReadyTimeout, !.reachable = "True"])
  <2>1. /\ cr'.there = rs.there /\ cr'.deleting = rs.deleting /\ cr'.fin = rs.fin
        /\ cr'.phase = rs.phase /\ cr'.id = rs.id
    BY <1>0, <1>7 DEF WorkerWrites, Object
  <2>2. rs.fin /\ ~rs.deleting /\ rs.phase = "Connecting"
    BY <1>7, <1>a DEF GuardsHold, PhaseProgress, Attaching
  <2> QED BY <1>7, <1>b, <2>1, <2>2 DEF WorkerWrites, WritesIdentifier, Writes, Stays
<1>8. CASE pc = "connecting" /\ WorkerWrites([rs EXCEPT !.phase = "Connecting"])
  <2>1. /\ cr'.there = rs.there /\ cr'.deleting = rs.deleting /\ cr'.fin = rs.fin
        /\ cr'.phase = "Connecting" /\ cr'.id = rs.id
    BY <1>0, <1>8 DEF WorkerWrites, Object
  <2>2. rs.fin /\ ~rs.deleting /\ rs.phase \in {"", "Connecting"}
    BY <1>8, <1>a DEF GuardsHold, PhaseProgress
  <2> QED BY <1>8, <1>b, <1>c, <2>1, <2>2 DEF WorkerWrites, WritesConnecting, Writes, Stays, Changed
<1>9. CASE pc = "connected" /\ WorkerWrites([rs EXCEPT !.phase = "Connected", !.exp = TTL, !.reachable = "True"])
  <2>1. /\ cr'.there = rs.there /\ cr'.deleting = rs.deleting /\ cr'.fin = rs.fin
        /\ cr'.phase = "Connected" /\ cr'.id = rs.id
    BY <1>0, <1>9 DEF WorkerWrites, Object
  <2>2. rs.fin /\ ~rs.deleting /\ rs.phase = "Connecting"
    BY <1>9, <1>a DEF GuardsHold, PhaseProgress
  <2> QED BY <1>9, <1>b, <1>c, <2>1, <2>2 DEF WorkerWrites, WritesConnected, Writes, Stays, Changed
<1>10. CASE pc = "disconnecting" /\ WorkerWrites([rs EXCEPT !.phase = "Disconnecting"])
  <2>1. /\ cr'.there = rs.there /\ cr'.deleting = rs.deleting /\ cr'.fin = rs.fin
        /\ cr'.phase = "Disconnecting" /\ cr'.id = rs.id
    BY <1>0, <1>10 DEF WorkerWrites, Object
  <2>2. rs.fin /\ (rs.deleting \/ rs.phase = "Connected")
    BY <1>10, <1>a DEF GuardsHold, PhaseProgress
  <2> QED BY <1>10, <1>b, <1>c, <2>1, <2>2 DEF WorkerWrites, WritesDisconnecting, Writes, Stays, Changed
<1>11. CASE pc = "disconnected" /\ WorkerWrites([rs EXCEPT !.phase = "Disconnected"])
  <2>1. /\ cr'.there = rs.there /\ cr'.deleting = rs.deleting /\ cr'.fin = rs.fin
        /\ cr'.phase = "Disconnected" /\ cr'.id = rs.id
    BY <1>0, <1>11 DEF WorkerWrites, Object
  <2>2. rs.fin /\ rs.phase = "Disconnecting"
    BY <1>11, <1>a DEF GuardsHold, PhaseProgress, Detaching
  <2> QED BY <1>11, <1>b, <1>c, <2>1, <2>2 DEF WorkerWrites, WritesDisconnected, Writes, Stays, Changed
<1>12. CASE pc = "unfinalize" /\ WorkerWrites(NoObject)
  <2>1. rs.deleting
    BY <1>12, <1>a DEF GuardsHold
  <2> QED BY <1>12, <1>b, <1>d, <2>1 DEF WorkerWrites, GivesUpFinalizer
<1>13. CASE ~cr.there /\ cr' = NewObject
  BY <1>13 DEF Appears
<1>14. CASE cr.there /\ ~cr.fin /\ cr' = NoObject
  BY <1>14, <1>d DEF Disappears
<1> QED
  BY <1>1, <1>2, <1>3, <1>4, <1>5, <1>6, <1>7, <1>8, <1>9, <1>10, <1>11, <1>12, <1>13, <1>14,
     ObjectStep

\* A step changes the object, the records or the namespace, but no two of them.
LEMMA OneThingAtATime ==
  ASSUME [Next]_vars
  PROVE  /\ UNCHANGED cr \/ UNCHANGED <<clusters, ns>>
         /\ UNCHANGED clusters \/ UNCHANGED ns
         /\ ns = "active" /\ ns' # "active" => pc \in {"namespace", "namespaceOnly"}
<1> USE DEF rancherVars, edgeVars, apiVars
<1>1. CASE AddFinalizer \/ SetFailed \/ SetAPIUnreachable \/ BeginConnect \/ RecordApplied
           \/ BecomeConnected \/ BeginCleanup \/ RecordDisconnected \/ RemoveFinalizer
  BY <1>1 DEF AddFinalizer, SetFailed, SetAPIUnreachable, BeginConnect, RecordApplied,
     BecomeConnected, BeginCleanup, RecordDisconnected, RemoveFinalizer
<1>2. CASE Reconcile \/ BuildClient \/ FindCluster \/ GetRegistrationToken \/ PollAgentReady
           \/ CheckSession \/ RequeueRemaining \/ HandleDisconnect
  BY <1>2 DEF Reconcile, BuildClient, FindCluster, GetRegistrationToken, PollAgentReady,
     CheckSession, RequeueRemaining, HandleDisconnect
<1>3. CASE CreateCluster \/ DeleteCluster
  BY <1>3 DEF CreateCluster, DeleteCluster
<1>4. CASE ApplyManifest
  BY <1>4 DEF ApplyManifest
<1>5. CASE DeleteNamespace
  BY <1>5 DEF DeleteNamespace
<1>6. CASE CacheSync \/ TimerFires \/ Tick \/ UNCHANGED vars
  BY <1>6 DEF CacheSync, TimerFires, Tick, vars
<1>7. CASE TriggerConnect \/ TriggerLookup \/ TriggerDelete \/ ToggleSuspend \/ RancherDelete
  BY <1>7 DEF TriggerConnect, TriggerLookup, TriggerDelete, ToggleSuspend, RancherDelete, UserWrites
<1>8. CASE ChangeSecret \/ AgentBecomesReady \/ NamespaceGone \/ Crash
  BY <1>8 DEF ChangeSecret, AgentBecomesReady, NamespaceGone, Crash
<1> QED BY <1>1, <1>2, <1>3, <1>4, <1>5, <1>6, <1>7, <1>8 DEF Next, ReconcileStep, Environment

-----------------------------------------------------------------------------
(* What a step does to the copies *)

\* A reconcile that goes on keeps the metadata of the copy it started from.
LEMMA CopyStep ==
  ASSUME TypeOK, [Next]_vars, pc' # "idle"
  PROVE  \/ Reconcile
         \/ pc # "idle" /\ Meta(rs') = Meta(rs)
<1>0. rs \in Object
  BY DEF TypeOK
<1>1. CASE CacheSync \/ TimerFires \/ Tick \/ Environment \/ UNCHANGED vars
  BY <1>1, OthersKeepCopy
<1>2. CASE AddFinalizer \/ SetFailed \/ SetAPIUnreachable \/ RecordApplied \/ BecomeConnected
           \/ RemoveFinalizer \/ RequeueRemaining
  BY <1>2 DEF AddFinalizer, SetFailed, SetAPIUnreachable, RecordApplied, BecomeConnected,
     RemoveFinalizer, RequeueRemaining, Return, Requeue, WriteFails, Done
<1>3. CASE BeginConnect \/ BeginCleanup \/ RecordDisconnected
  <2>1. \A ph : LET p == [rs EXCEPT !.phase = ph] IN
          Meta(p) = Meta(rs) /\ p.phase = ph /\ p.id = rs.id
    BY <1>0, UpdatesKeep
  <2>2. /\ Meta([rs EXCEPT !.phase = "Connecting"]) = Meta(rs)
        /\ Meta([rs EXCEPT !.phase = "Disconnecting"]) = Meta(rs)
        /\ Meta([rs EXCEPT !.phase = "Disconnected"]) = Meta(rs)
    BY <2>1
  <2> QED BY <1>3, <2>2 DEF BeginConnect, BeginCleanup, RecordDisconnected, WriteFails, Requeue,
             Return, Done
<1>4. CASE FindCluster \/ CreateCluster
  <2>1. \A id : LET p == [rs EXCEPT !.id = id] IN
          Meta(p) = Meta(rs) /\ p.phase = rs.phase
    BY <1>0, UpdatesKeep
  <2> QED BY <1>4, <2>1 DEF FindCluster, CreateCluster
<1>5. CASE BuildClient \/ GetRegistrationToken \/ ApplyManifest \/ PollAgentReady \/ CheckSession
           \/ HandleDisconnect \/ DeleteCluster \/ DeleteNamespace
  BY <1>5 DEF BuildClient, GetRegistrationToken, ApplyManifest, PollAgentReady, CheckSession,
     HandleDisconnect, DeleteCluster, DeleteNamespace, Return, Requeue, Done
<1> QED BY <1>1, <1>2, <1>3, <1>4, <1>5 DEF Next, ReconcileStep

\* The cache changes only when it takes the current object, and as time goes by.
LEMMA CacheStep ==
  ASSUME [Next]_vars
  PROVE  \/ UNCHANGED cache
         \/ cache' = cr /\ UNCHANGED cr
         \/ Tick
<1> USE DEF apiVars
<1>1. CASE AddFinalizer \/ SetFailed \/ SetAPIUnreachable \/ BeginConnect \/ RecordApplied
           \/ BecomeConnected \/ BeginCleanup \/ RecordDisconnected \/ RemoveFinalizer
  BY <1>1 DEF AddFinalizer, SetFailed, SetAPIUnreachable, BeginConnect, RecordApplied,
     BecomeConnected, BeginCleanup, RecordDisconnected, RemoveFinalizer, Stored, StoredAs, WriteFails
<1>2. CASE Reconcile \/ BuildClient \/ FindCluster \/ CreateCluster \/ GetRegistrationToken
           \/ ApplyManifest \/ PollAgentReady \/ CheckSession \/ RequeueRemaining
           \/ HandleDisconnect \/ DeleteCluster \/ DeleteNamespace
  BY <1>2 DEF Reconcile, BuildClient, FindCluster, CreateCluster, GetRegistrationToken,
     ApplyManifest, PollAgentReady, CheckSession, RequeueRemaining, HandleDisconnect,
     DeleteCluster, DeleteNamespace
<1>3. CASE CacheSync \/ TimerFires \/ UNCHANGED vars
  BY <1>3 DEF CacheSync, TimerFires, vars
<1>4. CASE Environment
  BY <1>4 DEF Environment, TriggerConnect, TriggerLookup, TriggerDelete, ToggleSuspend,
     RancherDelete, ChangeSecret, AgentBecomesReady, NamespaceGone, Crash, UserWrites
<1> QED BY <1>1, <1>2, <1>3, <1>4 DEF Next, ReconcileStep

-----------------------------------------------------------------------------
(* The invariant of the refinement, conjunct by conjunct *)

\* The namespace is never active for a session that is new or gone, and a
\* session without a finalizer is new.
LEMMA LeftIsCleanStep ==
  ASSUME TypeOK, SafetyInvariant, ContractInvariant, [Next]_vars
  PROVE  /\ SessionPhase' \in {"None", "New"} => ~SessionInstalled'
         /\ cr'.there /\ ~cr'.fin => cr'.phase = ""
<1>a. NewObject.phase = ""
  BY DEF NewObject
<1>1. cr'.there /\ ~cr'.fin => cr'.phase = ""
  BY <1>a, SessionStep DEF ContractInvariant, KeepsSession, WritesFinalizer, WritesFailed,
     WritesIdentifier, WritesConnecting, WritesConnected, WritesDisconnecting, WritesDisconnected,
     GivesUpFinalizer, Appears, Disappears, IsMarked, Writes, Stays
<1>2. ASSUME SessionPhase' \in {"None", "New"}, ns' = "active" PROVE FALSE
  <2>0. cr'.phase \notin {"None", "New"}
    BY TypeStep DEF TypeOK, Object, Phases
  <2>1. ~cr'.there \/ cr'.phase = ""
    BY <1>2, <2>0 DEF SessionPhase
  <2>2. CASE ns # "active"
    <3>1. pc = "apply" /\ UNCHANGED cr
      BY <1>2, <2>2, OutsideStep, OneThingAtATime
    <3>2. cr.there /\ cr.phase = "Connecting"
      BY <3>1 DEF SafetyInvariant, PhaseProgress, Attaching
    <3> QED BY <2>1, <3>1, <3>2
  <2>3. CASE ns = "active"
    <3>1. cr.there /\ cr.phase # "" /\ cr.fin
      BY <2>3 DEF ContractInvariant, SessionPhase, SessionInstalled
    <3>2. pc # "unfinalize"
      BY <2>3 DEF SafetyInvariant, RecordProgress
    <3> QED BY <2>1, <3>1, <3>2, SessionStep DEF KeepsSession, WritesFinalizer, WritesFailed,
               WritesIdentifier, WritesConnecting, WritesConnected, WritesDisconnecting,
               WritesDisconnected, GivesUpFinalizer, Appears, Disappears, IsMarked, Writes, Stays
  <2> QED BY <2>2, <2>3
<1> QED BY <1>1, <1>2 DEF SessionInstalled

\* The object is still there, finalized and Disconnecting while runCleanup is at
\* work on it.
LEMMA DetachingStep ==
  ASSUME TypeOK, SafetyInvariant, ContractInvariant, [Next]_vars, pc' \in Detaching
  PROVE  cr'.there /\ cr'.fin /\ cr'.phase = "Disconnecting"
<1> USE DEF Detaching
<1>0. cr \in Object /\ rs \in Object
  BY DEF TypeOK
<1>1. ASSUME pc \in Detaching, UNCHANGED cr
      PROVE  cr'.there /\ cr'.fin /\ cr'.phase = "Disconnecting"
  BY <1>1 DEF ContractInvariant
<1>2. CASE ReconcileStep
  <2>1. CASE BeginCleanup
    <3>1. rs.there /\ rs.fin
      BY <2>1 DEF BeginCleanup, SafetyInvariant, GuardsHold
    <3>2. /\ [rs EXCEPT !.phase = "Disconnecting"].there /\ [rs EXCEPT !.phase = "Disconnecting"].fin
          /\ [rs EXCEPT !.phase = "Disconnecting"].phase = "Disconnecting"
      BY <1>0, <3>1 DEF Object
    <3> QED BY <2>1, <3>2 DEF BeginCleanup, Stored, StoredAs, WriteFails, Requeue, Done
  <2>2. CASE DeleteCluster \/ DeleteNamespace
    BY <1>1, <2>2 DEF DeleteCluster, DeleteNamespace, Continue, Requeue, Done, apiVars
  <2>3. CASE Reconcile \/ BuildClient
    BY <2>3 DEF Reconcile, Dispatch, BuildClient, PhaseHandler, Continue, Return, Done
  <2>4. CASE AddFinalizer \/ SetFailed \/ SetAPIUnreachable \/ RecordApplied \/ BecomeConnected
             \/ RemoveFinalizer \/ RequeueRemaining
    BY <2>4 DEF AddFinalizer, SetFailed, SetAPIUnreachable, RecordApplied, BecomeConnected,
       RemoveFinalizer, RequeueRemaining, Return, Requeue, WriteFails, Done
  <2>5. CASE FindCluster \/ CreateCluster \/ GetRegistrationToken \/ ApplyManifest
    BY <2>5 DEF FindCluster, CreateCluster, GetRegistrationToken, ApplyManifest, Continue
  <2>6. CASE BeginConnect \/ PollAgentReady \/ CheckSession \/ HandleDisconnect \/ RecordDisconnected
    BY <2>6 DEF BeginConnect, PollAgentReady, CheckSession, HandleDisconnect,
       RecordDisconnected, Continue, Return, Requeue, WriteFails, Done
  <2> QED BY <1>2, <2>1, <2>2, <2>3, <2>4, <2>5, <2>6 DEF ReconcileStep
<1>3. CASE CacheSync \/ TimerFires \/ Tick \/ Environment \/ UNCHANGED vars
  <2>0. pc \in Detaching
    BY <1>3, OthersKeepCopy
  <2>1. CASE CacheSync \/ TimerFires \/ UNCHANGED vars
    BY <1>1, <2>0, <2>1 DEF CacheSync, TimerFires, vars, apiVars
  <2>2. CASE Tick
    <3>1. Meta(Aged(cr)) = Meta(cr) /\ Aged(cr).phase = cr.phase
      BY <1>0, UpdatesKeep
    <3> QED BY <2>0, <2>2, <3>1, MetaFields DEF Tick, ContractInvariant
  <2>3. CASE TriggerDelete
    BY <1>0, <1>1, <2>0, <2>3 DEF TriggerDelete, UserWrites, ContractInvariant, Object, apiVars
  <2>4. CASE ToggleSuspend
    BY <1>0, <2>0, <2>4 DEF ToggleSuspend, UserWrites, ContractInvariant, Object
  <2>5. CASE TriggerConnect
    BY <2>0, <2>5 DEF TriggerConnect, ContractInvariant
  <2>6. CASE TriggerLookup \/ RancherDelete \/ ChangeSecret \/ AgentBecomesReady \/ NamespaceGone \/ Crash
    BY <1>1, <2>0, <2>6 DEF TriggerLookup, RancherDelete, ChangeSecret, AgentBecomesReady,
       NamespaceGone, Crash, apiVars
  <2> QED BY <1>3, <2>1, <2>2, <2>3, <2>4, <2>5, <2>6 DEF Environment
<1> QED BY <1>2, <1>3 DEF Next

\* A copy marked for deletion is one of a session that is leaving or has left.
LEMMA LeavingStep ==
  ASSUME TypeOK, SafetyInvariant, ContractInvariant, [Next]_vars
  PROVE  LeavingOrLeft(cache)' /\ (pc' # "idle" => LeavingOrLeft(rs)')
<1> DEFINE Gone == SessionLeaving \/ SessionPhase \in {"None", "New"}
<1>0. /\ cr \in Object /\ cache \in Object /\ rs \in Object
      /\ CopiesAreCurrent
  BY DEF TypeOK, SafetyInvariant
<1>a. Gone <=> (~cr.there \/ cr.deleting \/ cr.phase = "")
  <2>1. cr.phase \notin {"None", "New"}
    BY <1>0 DEF Object, Phases
  <2> QED BY <2>1 DEF SessionLeaving, SessionPhase
<1>b. Gone' <=> (~cr'.there \/ cr'.deleting \/ cr'.phase = "")
  <2>1. cr'.phase \notin {"None", "New"}
    BY TypeStep DEF TypeOK, Object, Phases
  <2> QED BY <2>1 DEF SessionLeaving, SessionPhase
<1>c. NewObject.phase = ""
  BY DEF NewObject
\* Only two writes can end it, and both are of a copy that is not marked.
<1>d. ASSUME Gone PROVE Gone' \/ (WritesFailed /\ rs.phase = "") \/ WritesConnecting
  <2>1. ~cr.there \/ cr.deleting \/ cr.phase = ""
    BY <1>a, <1>d
  <2>2. (~cr'.there \/ cr'.deleting \/ cr'.phase = "") \/ (WritesFailed /\ rs.phase = "") \/ WritesConnecting
    BY <1>c, <2>1, SessionStep DEF KeepsSession, WritesFinalizer, WritesFailed,
       WritesIdentifier, WritesConnecting, WritesConnected, WritesDisconnecting,
       WritesDisconnected, GivesUpFinalizer, Appears, Disappears, IsMarked, Writes, Stays
  <2> QED BY <1>b, <2>2
<1>e. ASSUME (WritesFailed /\ rs.phase = "") \/ WritesConnecting
      PROVE  cache = cr /\ ~cr.deleting /\ ~rs.deleting
  <2>1. "cache" \in cur
    BY <1>e DEF ContractInvariant, WritesFailed, WritesConnecting, Writes, Unwritten
  <2>2. pc \in {"failed", "connecting"} /\ ~cr.deleting
    BY <1>e DEF WritesFailed, WritesConnecting, Writes
  <2>3. ~rs.deleting
    BY <2>2 DEF SafetyInvariant, GuardsHold
  <2> QED BY <1>0, <2>1, <2>2, <2>3 DEF CopiesAreCurrent
<1>f. cache.there /\ cache.deleting /\ cache.fin => Gone
  BY DEF ContractInvariant, LeavingOrLeft
<1>g. pc # "idle" /\ rs.there /\ rs.deleting /\ rs.fin => Gone
  BY DEF ContractInvariant, LeavingOrLeft
<1>1. cache'.there /\ cache'.deleting /\ cache'.fin => Gone'
  <2>1. CASE UNCHANGED cache
    BY <1>d, <1>e, <1>f, <2>1
  <2>2. CASE cache' = cr /\ UNCHANGED cr
    BY <1>b, <2>2
  <2>3. CASE Tick
    <3>1. Meta(Aged(cache)) = Meta(cache) /\ Meta(Aged(cr)) = Meta(cr) /\ Aged(cr).phase = cr.phase
      BY <1>0, UpdatesKeep
    <3>2. /\ cache'.there = cache.there /\ cache'.deleting = cache.deleting /\ cache'.fin = cache.fin
          /\ cr'.there = cr.there /\ cr'.deleting = cr.deleting /\ cr'.phase = cr.phase
      BY <2>3, <3>1, MetaFields DEF Tick
    <3> QED BY <1>a, <1>b, <1>f, <3>2
  <2> QED BY <2>1, <2>2, <2>3, CacheStep
<1>2. pc' # "idle" /\ rs'.there /\ rs'.deleting /\ rs'.fin => Gone'
  <2>1. CASE Reconcile /\ pc' # "idle"
    <3>1. rs' = cache /\ UNCHANGED cr
      BY <2>1 DEF Reconcile
    <3> QED BY <1>a, <1>b, <1>f, <3>1
  <2>2. CASE pc # "idle" /\ Meta(rs') = Meta(rs)
    BY <1>d, <1>e, <1>g, <2>2, MetaFields
  <2> QED BY <2>1, <2>2, CopyStep
<1> QED BY <1>1, <1>2 DEF LeavingOrLeft

\* Until its first write, a worker with the current version shares it with the
\* cache.
LEMMA UnwrittenStep ==
  ASSUME TypeOK, SafetyInvariant, ContractInvariant, [Next]_vars,
         "worker" \in cur', pc' \in Unwritten \/ (pc' = "failed" /\ rs'.phase = "")
  PROVE  "cache" \in cur'
<1> USE DEF Unwritten, apiVars
<1>0. rs \in Object
  BY DEF TypeOK
<1>a. ASSUME UNCHANGED cur, pc \in Unwritten \/ (pc = "failed" /\ rs.phase = "") PROVE "cache" \in cur'
  BY <1>a DEF ContractInvariant
<1>1. CASE Reconcile
  BY <1>1 DEF Reconcile
<1>2. CASE AddFinalizer \/ SetFailed \/ SetAPIUnreachable \/ RecordApplied \/ BecomeConnected
           \/ RemoveFinalizer \/ RequeueRemaining
  BY <1>2 DEF AddFinalizer, SetFailed, SetAPIUnreachable, RecordApplied, BecomeConnected,
     RemoveFinalizer, RequeueRemaining, Return, Requeue, WriteFails, Done
<1>3. CASE BeginConnect \/ BeginCleanup \/ RecordDisconnected
  BY <1>3 DEF BeginConnect, BeginCleanup, RecordDisconnected, Continue, WriteFails, Requeue, Return, Done
<1>4. CASE BuildClient
  BY <1>a, <1>4 DEF BuildClient
<1>5. CASE FindCluster \/ CreateCluster \/ GetRegistrationToken
  BY <1>5 DEF FindCluster, CreateCluster, GetRegistrationToken, Continue
<1>6. CASE ApplyManifest
  <2>1. rs.phase = "Connecting" /\ rs' = rs
    BY <1>6 DEF ApplyManifest, SafetyInvariant, PhaseProgress, Attaching
  <2> QED BY <1>6, <2>1 DEF ApplyManifest, Continue
<1>7. CASE PollAgentReady \/ CheckSession \/ HandleDisconnect
  BY <1>a, <1>7 DEF PollAgentReady, CheckSession, HandleDisconnect
<1>8. CASE DeleteCluster \/ DeleteNamespace
  BY <1>8 DEF DeleteCluster, DeleteNamespace, Continue, Requeue, Done
<1>9. CASE CacheSync
  BY <1>9 DEF CacheSync
<1>10. CASE TimerFires \/ UNCHANGED vars
  BY <1>a, <1>10 DEF TimerFires, workerVars, vars
<1>11. CASE Tick
  <2>1. Aged(rs).phase = rs.phase
    BY <1>0, UpdatesKeep
  <2> QED BY <1>a, <1>11, <2>1 DEF Tick
<1>12. CASE TriggerConnect \/ TriggerDelete \/ ToggleSuspend
  BY <1>a, <1>12 DEF TriggerConnect, TriggerDelete, ToggleSuspend, UserWrites, workerVars
<1>13. CASE TriggerLookup \/ RancherDelete \/ ChangeSecret \/ AgentBecomesReady \/ NamespaceGone
  BY <1>a, <1>13 DEF TriggerLookup, RancherDelete, ChangeSecret, AgentBecomesReady, NamespaceGone,
     workerVars
<1>14. CASE Crash
  BY <1>14 DEF Crash
<1> QED
  BY <1>1, <1>2, <1>3, <1>4, <1>5, <1>6, <1>7, <1>8, <1>9, <1>10, <1>11, <1>12, <1>13, <1>14
     DEF Next, ReconcileStep, Environment

\* Outside handleConnect, an error is stored together with the identifier that
\* the object already has.
LEMMA SameIdentifierStep ==
  ASSUME TypeOK, SafetyInvariant, ContractInvariant, [Next]_vars,
         "worker" \in cur', pc' \in {"failed", "unreachable"}, rs'.phase # "Connecting"
  PROVE  rs'.id = cr'.id
<1> USE DEF apiVars
<1>0. rs \in Object /\ cr \in Object
  BY DEF TypeOK
<1>a. ASSUME UNCHANGED <<cr, cur, rs>>, pc \notin Changed \cup {"idle"} PROVE rs'.id = cr'.id
  BY <1>a DEF SafetyInvariant, CopiesAreCurrent
<1>b. ASSUME UNCHANGED <<cr, cur, rs, pc>> PROVE rs'.id = cr'.id
  BY <1>b DEF ContractInvariant
<1>1. CASE Reconcile
  BY <1>1 DEF Reconcile, Dispatch
<1>2. CASE AddFinalizer \/ SetFailed \/ SetAPIUnreachable \/ RecordApplied \/ BecomeConnected
           \/ RemoveFinalizer \/ RequeueRemaining
  BY <1>2 DEF AddFinalizer, SetFailed, SetAPIUnreachable, RecordApplied, BecomeConnected,
     RemoveFinalizer, RequeueRemaining, Return, Requeue, WriteFails, Done
<1>3. CASE BeginConnect \/ BeginCleanup \/ RecordDisconnected
  BY <1>3 DEF BeginConnect, BeginCleanup, RecordDisconnected, Continue, WriteFails, Requeue, Return, Done
<1>4. CASE BuildClient \/ PollAgentReady \/ CheckSession \/ HandleDisconnect
  BY <1>a, <1>4 DEF BuildClient, PollAgentReady, CheckSession, HandleDisconnect, Return, Requeue, Done, Changed
<1>5. CASE FindCluster \/ CreateCluster \/ GetRegistrationToken \/ ApplyManifest
  <2>1. rs.phase = "Connecting"
    BY <1>5 DEF FindCluster, CreateCluster, GetRegistrationToken, ApplyManifest, SafetyInvariant,
       PhaseProgress, Attaching
  <2>2. \A id : LET p == [rs EXCEPT !.id = id] IN
          Meta(p) = Meta(rs) /\ p.phase = rs.phase
    BY <1>0, UpdatesKeep
  <2> QED BY <1>5, <2>1, <2>2 DEF FindCluster, CreateCluster, GetRegistrationToken, ApplyManifest
<1>6. CASE DeleteCluster \/ DeleteNamespace
  BY <1>a, <1>6 DEF DeleteCluster, DeleteNamespace, Requeue, Done, Changed
<1>7. CASE CacheSync
  <2>1. "worker" \in cur /\ pc' = pc /\ rs' = rs /\ cr' = cr
    BY <1>7 DEF CacheSync, workerVars
  <2> QED BY <2>1 DEF ContractInvariant
<1>8. CASE TimerFires \/ UNCHANGED vars
  BY <1>b, <1>8 DEF TimerFires, workerVars, vars
<1>9. CASE Tick
  <2>1. Aged(rs).phase = rs.phase /\ Aged(rs).id = rs.id /\ Aged(cr).id = cr.id
    BY <1>0, UpdatesKeep
  <2> QED BY <1>9, <2>1 DEF Tick, ContractInvariant
<1>10. CASE TriggerConnect \/ TriggerDelete \/ ToggleSuspend
  BY <1>b, <1>10 DEF TriggerConnect, TriggerDelete, ToggleSuspend, UserWrites, workerVars
<1>11. CASE TriggerLookup \/ RancherDelete \/ ChangeSecret \/ AgentBecomesReady \/ NamespaceGone
  BY <1>b, <1>11 DEF TriggerLookup, RancherDelete, ChangeSecret, AgentBecomesReady, NamespaceGone,
     workerVars
<1>12. CASE Crash
  BY <1>12 DEF Crash
<1> QED
  BY <1>1, <1>2, <1>3, <1>4, <1>5, <1>6, <1>7, <1>8, <1>9, <1>10, <1>11, <1>12
     DEF Next, ReconcileStep, Environment

\* Where the worker's identifier comes from: its earlier copy, the cache, a
\* record that was found, or the one just created.
LEMMA CopyIdentifier ==
  ASSUME TypeOK, [Next]_vars
  PROVE  \/ rs'.id \in {rs.id, cache.id, NoId} \cup clusters
         \/ rs'.id = nextId /\ nextId' = nextId + 1
<1>0. rs \in Object /\ NoObject.id = NoId
  BY NewObjectType DEF TypeOK, NoObject, NewObject, Object
<1>a. ASSUME Done PROVE rs'.id = NoId
  BY <1>0, <1>a DEF Done
<1>b. \A id : [rs EXCEPT !.id = id].id = id
  BY <1>0 DEF Object
<1>c. \A ph : LET p == [rs EXCEPT !.phase = ph] IN
        Meta(p) = Meta(rs) /\ p.phase = ph /\ p.id = rs.id
  BY <1>0, UpdatesKeep
<1>1. CASE Reconcile
  BY <1>0, <1>1 DEF Reconcile
<1>2. CASE AddFinalizer \/ SetFailed \/ SetAPIUnreachable \/ RecordApplied \/ BecomeConnected
           \/ RemoveFinalizer \/ RequeueRemaining
  BY <1>a, <1>2 DEF AddFinalizer, SetFailed, SetAPIUnreachable, RecordApplied, BecomeConnected,
     RemoveFinalizer, RequeueRemaining, Return, Requeue, WriteFails
<1>3. CASE BeginConnect \/ BeginCleanup \/ RecordDisconnected
  <2>1. /\ [rs EXCEPT !.phase = "Connecting"].id = rs.id
        /\ [rs EXCEPT !.phase = "Disconnecting"].id = rs.id
        /\ [rs EXCEPT !.phase = "Disconnected"].id = rs.id
    BY <1>c
  <2> QED BY <1>a, <1>3, <2>1 DEF BeginConnect, BeginCleanup, RecordDisconnected, WriteFails,
             Requeue, Return
<1>4. CASE FindCluster
  BY <1>b, <1>4 DEF FindCluster
<1>5. CASE CreateCluster
  BY <1>b, <1>5 DEF CreateCluster
<1>6. CASE BuildClient \/ GetRegistrationToken \/ ApplyManifest \/ PollAgentReady \/ CheckSession
           \/ HandleDisconnect \/ DeleteCluster \/ DeleteNamespace
  BY <1>a, <1>6 DEF BuildClient, GetRegistrationToken, ApplyManifest, PollAgentReady,
     CheckSession, HandleDisconnect, DeleteCluster, DeleteNamespace, Return, Requeue
<1>7. CASE CacheSync \/ TimerFires \/ UNCHANGED vars
  BY <1>7 DEF CacheSync, TimerFires, workerVars, vars
<1>8. CASE Tick
  BY <1>0, <1>8, UpdatesKeep DEF Tick
<1>9. CASE Environment
  BY <1>a, <1>9 DEF Environment, TriggerConnect, TriggerLookup, TriggerDelete, ToggleSuspend,
     RancherDelete, ChangeSecret, AgentBecomesReady, NamespaceGone, Crash, UserWrites, workerVars
<1> QED BY <1>1, <1>2, <1>3, <1>4, <1>5, <1>6, <1>7, <1>8, <1>9 DEF Next, ReconcileStep

\* Identifiers are handed out once.
LEMMA NextIdStep ==
  ASSUME [Next]_vars
  PROVE  UNCHANGED nextId \/ (nextId' = nextId + 1 /\ clusters' = clusters \cup {nextId})
<1> USE DEF rancherVars
<1>1. CASE AddFinalizer \/ SetFailed \/ SetAPIUnreachable \/ BeginConnect \/ RecordApplied
           \/ BecomeConnected \/ BeginCleanup \/ RecordDisconnected \/ RemoveFinalizer
  BY <1>1 DEF AddFinalizer, SetFailed, SetAPIUnreachable, BeginConnect, RecordApplied,
     BecomeConnected, BeginCleanup, RecordDisconnected, RemoveFinalizer
<1>2. CASE Reconcile \/ BuildClient \/ FindCluster \/ GetRegistrationToken \/ PollAgentReady
           \/ CheckSession \/ RequeueRemaining \/ HandleDisconnect
  BY <1>2 DEF Reconcile, BuildClient, FindCluster, GetRegistrationToken, PollAgentReady,
     CheckSession, RequeueRemaining, HandleDisconnect
<1>3. CASE CreateCluster \/ ApplyManifest \/ DeleteCluster \/ DeleteNamespace
  BY <1>3 DEF CreateCluster, ApplyManifest, DeleteCluster, DeleteNamespace
<1>4. CASE CacheSync \/ TimerFires \/ Tick \/ UNCHANGED vars
  BY <1>4 DEF CacheSync, TimerFires, Tick, vars
<1>5. CASE Environment
  BY <1>5 DEF Environment, TriggerConnect, TriggerLookup, TriggerDelete, ToggleSuspend,
     RancherDelete, ChangeSecret, AgentBecomesReady, NamespaceGone, Crash, UserWrites
<1> QED BY <1>1, <1>2, <1>3, <1>4, <1>5 DEF Next, ReconcileStep

\* Nobody holds an identifier that has not been handed out.
LEMMA IdentifierStep ==
  ASSUME TypeOK, SafetyInvariant, ContractInvariant, [Next]_vars
  PROVE  \A id \in clusters' \cup {cr'.id, cache'.id, rs'.id} : id < nextId'
<1>0. /\ cr \in Object /\ cache \in Object
      /\ nextId \in Nat \ {0} /\ NoId < nextId
      /\ clusters \subseteq Nat
  BY DEF TypeOK, NoId
<1>a. \A id \in clusters \cup {cr.id, cache.id, rs.id} : id < nextId
  BY DEF ContractInvariant
<1>b. cr.id \in Nat /\ cache.id \in Nat /\ rs.id \in Nat
  BY DEF TypeOK, Object
<1>c. \A id \in Nat : id < nextId => id < nextId'
  <2>1. nextId' = nextId \/ nextId' = nextId + 1
    BY NextIdStep
  <2> QED BY <1>0, <2>1
<1>1. cr'.id \in {cr.id, rs.id, NoId}
  <2>1. NewObject.id = NoId
    BY DEF NewObject
  <2> QED BY <2>1, SessionStep DEF KeepsSession, WritesFinalizer, WritesFailed,
             WritesIdentifier, WritesConnecting, WritesConnected, WritesDisconnecting,
             WritesDisconnected, GivesUpFinalizer, Appears, Disappears, IsMarked
<1>2. cache'.id \in {cache.id, cr.id}
  <2>1. CASE Tick
    BY <1>0, <2>1, UpdatesKeep DEF Tick
  <2> QED BY <2>1, CacheStep
<1>3. ASSUME NEW id \in clusters' PROVE id < nextId'
  <2>1. CASE clusters' \subseteq clusters
    BY <1>0, <1>a, <1>c, <1>3, <2>1
  <2>2. CASE nextId' = nextId + 1 /\ clusters' = clusters \cup {nextId}
    BY <1>0, <1>a, <1>c, <1>3, <2>2
  <2>3. CreateCluster => \/ UNCHANGED clusters
                         \/ nextId' = nextId + 1 /\ clusters' = clusters \cup {nextId}
    BY DEF CreateCluster, rancherVars
  <2> QED BY <2>1, <2>2, <2>3, OutsideStep
<1>4. rs'.id < nextId'
  <2>1. CASE rs'.id \in {rs.id, cache.id, NoId} \cup clusters
    <3>1. CASE rs'.id \in clusters
      BY <1>0, <1>a, <1>c, <3>1
    <3>2. CASE rs'.id = rs.id \/ rs'.id = cache.id
      BY <1>a, <1>b, <1>c, <3>2
    <3>3. CASE rs'.id = NoId
      BY <1>0, <1>c, <3>3 DEF NoId
    <3> QED BY <2>1, <3>1, <3>2, <3>3
  <2>2. CASE rs'.id = nextId /\ nextId' = nextId + 1
    BY <1>0, <2>2
  <2> QED BY <2>1, <2>2, CopyIdentifier
<1>5. cr'.id < nextId' /\ cache'.id < nextId'
  <2>1. /\ cr'.id \in Nat /\ cr'.id < nextId
        /\ cache'.id \in Nat /\ cache'.id < nextId
    BY <1>0, <1>1, <1>2, <1>a, <1>b DEF NoId
  <2> QED BY <1>c, <2>1
<1> QED BY <1>3, <1>4, <1>5

LEMMA ContractInvariantStep ==
  TypeOK /\ SafetyInvariant /\ ContractInvariant /\ [Next]_vars => ContractInvariant'
<1> SUFFICES ASSUME TypeOK, SafetyInvariant, ContractInvariant, [Next]_vars
             PROVE  ContractInvariant'
  OBVIOUS
<1>1. /\ SessionPhase' \in {"None", "New"} => ~SessionInstalled'
      /\ cr'.there /\ ~cr'.fin => cr'.phase = ""
  BY LeftIsCleanStep
<1>2. pc' \in Detaching => cr'.there /\ cr'.fin /\ cr'.phase = "Disconnecting"
  BY DetachingStep
<1>3. LeavingOrLeft(cache)' /\ (pc' # "idle" => LeavingOrLeft(rs)')
  BY LeavingStep
<1>4. "worker" \in cur' /\ (pc' \in Unwritten \/ (pc' = "failed" /\ rs'.phase = "")) => "cache" \in cur'
  BY UnwrittenStep
<1>5. "worker" \in cur' /\ pc' \in {"failed", "unreachable"} /\ rs'.phase # "Connecting" => rs'.id = cr'.id
  BY SameIdentifierStep
<1>6. \A id \in clusters' \cup {cr'.id, cache'.id, rs'.id} : id < nextId'
  BY IdentifierStep
<1> QED BY <1>1, <1>2, <1>3, <1>4, <1>5, <1>6 DEF ContractInvariant

LEMMA ContractInvariantInit == Init => ContractInvariant
<1> SUFFICES ASSUME Init
             PROVE  ContractInvariant
  OBVIOUS
<1>1. /\ NewObject.there /\ ~NewObject.deleting /\ NewObject.phase = "" /\ NewObject.id = NoId
      /\ ~NoObject.there /\ NoObject.id = NoId
  BY NewObjectType DEF NewObject, NoObject, Object
<1>2. LeavingOrLeft(cache)
  BY <1>1 DEF Init, LeavingOrLeft
<1>3. \A id \in clusters \cup {cr.id, cache.id, rs.id} : id < nextId
  <2>1. clusters = {} /\ cr.id = 0 /\ cache.id = 0 /\ rs.id = 0 /\ nextId = 1
    BY <1>1 DEF Init, NoId
  <2> QED BY <2>1
<1> QED BY <1>1, <1>2, <1>3 DEF Init, ContractInvariant, SessionInstalled, Detaching

\* The invariant of the refinement holds throughout.
THEOREM ContractInvariantHolds == Spec => []ContractInvariant
  BY ContractInvariantInit, ContractInvariantStep, Safety, TypeCorrect, PTL DEF Spec

-----------------------------------------------------------------------------
(* The refinement *)

\* The state of the contract, in terms of the object.
LEMMA SessionState ==
  ASSUME TypeOK
  PROVE  /\ SessionPhase = "None" <=> ~cr.there
         /\ SessionPhase = "New" <=> cr.there /\ cr.phase = ""
         /\ \A ph \in Phases \ {""} : SessionPhase = ph <=> cr.there /\ cr.phase = ph
         /\ SessionRegistered \in BOOLEAN
         /\ SessionInstalled \in BOOLEAN
<1>1. cr.phase \in Phases
  BY DEF TypeOK, Object
<1> QED BY <1>1 DEF SessionPhase, SessionRegistered, SessionInstalled, Phases

\* A step that changes neither the records nor the namespace takes the session
\* through its phases as the contract does.
LEMMA ObjectRefines ==
  ASSUME TypeOK, TypeOK', SafetyInvariant, ContractInvariant, [Next]_vars, UNCHANGED <<clusters, ns>>
  PROVE  [Contract!Next]_(Contract!vars)
<1>0. UNCHANGED SessionInstalled
  BY DEF SessionInstalled
<1>a. /\ SessionPhase = "None" <=> ~cr.there
      /\ SessionPhase = "New" <=> cr.there /\ cr.phase = ""
      /\ \A ph \in Phases \ {""} : SessionPhase = ph <=> cr.there /\ cr.phase = ph
  BY SessionState
<1>b. /\ SessionPhase' = "None" <=> ~cr'.there
      /\ SessionPhase' = "New" <=> cr'.there /\ cr'.phase = ""
      /\ \A ph \in Phases \ {""} : SessionPhase' = ph <=> cr'.there /\ cr'.phase = ph
  <2>1. cr'.phase \in Phases
    BY DEF TypeOK, Object
  <2> QED BY <2>1 DEF SessionPhase, Phases
<1>c. ASSUME cr'.there = cr.there, cr'.phase = cr.phase PROVE UNCHANGED SessionPhase
  BY <1>c DEF SessionPhase
<1>d. ASSUME cr'.there = cr.there, cr'.deleting = cr.deleting PROVE UNCHANGED SessionLeaving
  BY <1>d DEF SessionLeaving
<1>e. ASSUME cr'.there = cr.there, cr'.id = cr.id PROVE UNCHANGED SessionRegistered
  BY <1>e DEF SessionRegistered
<1>f. ASSUME ~cr'.there PROVE SessionPhase' = "None" /\ SessionLeaving' = FALSE /\ SessionRegistered' = FALSE
  BY <1>b, <1>f DEF SessionLeaving, SessionRegistered
<1>g. SessionRegistered' \in BOOLEAN
  BY DEF SessionRegistered
<1>1. CASE KeepsSession \/ WritesFinalizer
  BY <1>0, <1>1, <1>c, <1>d, <1>e DEF KeepsSession, WritesFinalizer, Writes, Stays, Contract!vars
<1>2. CASE WritesFailed
  <2>1. SessionPhase # "None" /\ ~SessionLeaving /\ SessionPhase' = "Failed" /\ UNCHANGED SessionLeaving
    BY <1>2, <1>a, <1>b, <1>d DEF WritesFailed, Writes, Stays, SessionLeaving, Phases
  <2>2. CASE rs.phase = "Connecting"
    <3>1. SessionPhase = "Connecting"
      BY <1>2, <1>a, <2>2 DEF WritesFailed, Writes, Stays, Phases
    <3> QED BY <1>0, <1>g, <2>1, <3>1 DEF Contract!Next, Contract!Fail
  <2>3. CASE rs.phase # "Connecting"
    <3>1. cr'.id = cr.id
      BY <1>2, <2>3 DEF WritesFailed, Writes, ContractInvariant
    <3>2. UNCHANGED SessionRegistered
      BY <1>2, <1>e, <3>1 DEF WritesFailed, Writes, Stays
    <3>3. SessionPhase # "Connecting"
      BY <1>2, <1>a, <2>3 DEF WritesFailed, Writes, Stays, Phases
    <3> QED BY <1>0, <2>1, <3>2, <3>3 DEF Contract!Next, Contract!Fail
  <2> QED BY <2>2, <2>3
<1>3. CASE WritesIdentifier
  <2>1. UNCHANGED <<SessionPhase, SessionLeaving>>
    BY <1>3, <1>c, <1>d DEF WritesIdentifier, Writes, Stays
  <2>2. CASE cr'.id = cr.id
    <3>1. UNCHANGED SessionRegistered
      BY <1>3, <1>e, <2>2 DEF WritesIdentifier, Writes, Stays
    <3> QED BY <1>0, <2>1, <3>1 DEF Contract!vars
  <2>3. CASE cr'.id # cr.id
    <3>1. cr.there /\ cr.phase = "Connecting"
      BY <1>3, <2>3 DEF WritesIdentifier, Writes, Stays, ContractInvariant
    <3>2. SessionPhase = "Connecting"
      BY <1>a, <3>1 DEF Phases
    <3>3. ~SessionLeaving
      BY <1>3, <2>3, <3>1 DEF WritesIdentifier, SessionLeaving
    <3> QED BY <1>0, <1>g, <2>1, <3>2, <3>3 DEF Contract!Next, Contract!Register
  <2> QED BY <2>2, <2>3
<1>4. CASE WritesConnecting
  <2>1. ~SessionLeaving /\ SessionPhase' = "Connecting" /\ UNCHANGED <<SessionLeaving, SessionRegistered>>
    BY <1>4, <1>b, <1>d, <1>e DEF WritesConnecting, Writes, Stays, SessionLeaving, Phases
  <2>2. SessionPhase = "New" \/ SessionPhase = "Connecting"
    BY <1>4, <1>a DEF WritesConnecting, Writes, Stays, Phases
  <2> QED BY <1>0, <2>1, <2>2 DEF Contract!Next, Contract!Connect, Contract!vars
<1>5. CASE WritesConnected
  <2>1. ~SessionLeaving /\ SessionPhase' = "Connected" /\ UNCHANGED <<SessionLeaving, SessionRegistered>>
    BY <1>5, <1>b, <1>d, <1>e DEF WritesConnected, Writes, Stays, SessionLeaving, Phases
  <2>2. SessionPhase = "Connecting"
    BY <1>5, <1>a DEF WritesConnected, Writes, Stays, Phases
  <2> QED BY <1>0, <2>1, <2>2 DEF Contract!Next, Contract!Establish
<1>6. CASE WritesDisconnecting
  <2>1. SessionPhase' = "Disconnecting" /\ UNCHANGED <<SessionLeaving, SessionRegistered>>
    BY <1>6, <1>b, <1>d, <1>e DEF WritesDisconnecting, Writes, Stays, Phases
  <2>2. SessionPhase = "Connected" \/ SessionLeaving
    BY <1>6, <1>a DEF WritesDisconnecting, Writes, Stays, SessionLeaving, Phases
  <2> QED BY <1>0, <2>1, <2>2 DEF Contract!Next, Contract!BeginCleanup
<1>7. CASE WritesDisconnected
  <2>1. SessionPhase' = "Disconnected" /\ UNCHANGED <<SessionLeaving, SessionRegistered>>
    BY <1>7, <1>b, <1>d, <1>e DEF WritesDisconnected, Writes, Stays, Phases
  <2>2. SessionPhase = "Disconnecting"
    BY <1>7, <1>a DEF WritesDisconnected, Writes, Stays, Phases
  <2>3. ~SessionRegistered /\ ~SessionInstalled
    BY <1>7 DEF WritesDisconnected, Writes, SafetyInvariant, RecordProgress, SessionRegistered,
       SessionInstalled
  <2> QED BY <1>0, <2>1, <2>2, <2>3 DEF Contract!Next, Contract!Close
<1>8. CASE GivesUpFinalizer
  <2>1. SessionLeaving /\ ~SessionInstalled
    BY <1>8 DEF GivesUpFinalizer, SafetyInvariant, RecordProgress, SessionLeaving, SessionInstalled
  <2> QED BY <1>0, <1>8, <1>f, <2>1 DEF GivesUpFinalizer, Contract!Next, Contract!Remove
<1>9. CASE Appears
  <2>1. NewObject.there /\ ~NewObject.deleting /\ NewObject.phase = "" /\ NewObject.id = NoId
    BY DEF NewObject
  <2>2. SessionPhase = "None" /\ SessionPhase' = "New"
    BY <1>9, <1>a, <1>b, <2>1 DEF Appears
  <2>3. SessionLeaving = FALSE /\ SessionLeaving' = FALSE
    BY <1>9, <2>1 DEF Appears, SessionLeaving
  <2>4. SessionRegistered = FALSE /\ SessionRegistered' = FALSE
    BY <1>9, <2>1 DEF Appears, SessionRegistered, SafetyInvariant, RecordProgress
  <2> QED BY <1>0, <2>2, <2>3, <2>4 DEF Contract!Next, Contract!Request
<1>10. CASE Disappears
  <2>1. CASE SessionLeaving
    <3>1. SessionPhase = "New"
      BY <1>10, <1>a DEF Disappears, ContractInvariant
    <3>2. ~SessionInstalled
      BY <3>1 DEF ContractInvariant
    <3> QED BY <1>0, <1>10, <1>f, <2>1, <3>2 DEF Disappears, Contract!Next, Contract!Remove
  <2>2. CASE ~SessionLeaving
    <3>1. SessionPhase = "New"
      BY <1>10, <1>a DEF Disappears, ContractInvariant
    <3>2. SessionLeaving' = SessionLeaving
      BY <1>10, <2>2 DEF Disappears, SessionLeaving
    <3> QED BY <1>0, <1>10, <1>f, <2>2, <3>1, <3>2 DEF Disappears, Contract!Next, Contract!Leave
  <2> QED BY <2>1, <2>2
<1>11. CASE IsMarked
  <2>1. UNCHANGED <<SessionPhase, SessionRegistered>> /\ SessionLeaving' = TRUE /\ SessionPhase # "None"
    BY <1>11, <1>a, <1>c, <1>e DEF IsMarked, SessionLeaving
  <2>2. CASE SessionLeaving
    <3>1. SessionLeaving = TRUE
      BY <1>11, <2>2 DEF IsMarked, SessionLeaving
    <3> QED BY <1>0, <2>1, <3>1 DEF Contract!vars
  <2>3. CASE ~SessionLeaving
    BY <1>0, <2>1, <2>3 DEF Contract!Next, Contract!Leave
  <2> QED BY <2>2, <2>3
<1> QED
  BY <1>1, <1>2, <1>3, <1>4, <1>5, <1>6, <1>7, <1>8, <1>9, <1>10, <1>11, SessionStep

\* A step that changes the records or the namespace is one the contract allows
\* in the phase the session is in.
LEMMA OutsideRefines ==
  ASSUME TypeOK, SafetyInvariant, ContractInvariant, [Next]_vars, UNCHANGED cr
  PROVE  [Contract!Next]_(Contract!vars)
<1>0. UNCHANGED <<SessionPhase, SessionLeaving>>
  BY DEF SessionPhase, SessionLeaving
<1>1. CASE UNCHANGED ns
  <2>0. UNCHANGED SessionInstalled
    BY <1>1 DEF SessionInstalled
  <2>1. SessionRegistered' => SessionRegistered
    <3>1. CASE clusters' \subseteq clusters
      BY <3>1 DEF SessionRegistered
    <3>2. CASE CreateCluster
      <4>1. clusters' \subseteq clusters \cup {nextId}
        BY <3>2 DEF CreateCluster, rancherVars
      <4>2. cr.id # nextId
        <5>1. cr.id \in Nat /\ nextId \in Nat
          BY DEF TypeOK, Object
        <5>2. cr.id < nextId
          BY DEF ContractInvariant
        <5> QED BY <5>1, <5>2
      <4> QED BY <4>1, <4>2 DEF SessionRegistered
    <3> QED BY <3>1, <3>2, OutsideStep
  <2>2. CASE SessionRegistered /\ ~SessionRegistered'
    <3>1. SessionRegistered' = FALSE
      BY <2>2 DEF SessionRegistered
    <3> QED BY <1>0, <2>0, <2>2, <3>1 DEF Contract!Next, Contract!Deregister
  <2>3. CASE SessionRegistered' <=> SessionRegistered
    <3>1. SessionRegistered' = SessionRegistered
      BY <2>3 DEF SessionRegistered
    <3> QED BY <1>0, <2>0, <3>1 DEF Contract!vars
  <2> QED BY <2>1, <2>2, <2>3
<1>2. CASE UNCHANGED clusters
  <2>0. UNCHANGED SessionRegistered
    BY <1>2 DEF SessionRegistered
  <2>1. CASE ns # "active" /\ ns' = "active"
    <3>1. cr.there /\ cr.phase = "Connecting"
      BY <2>1, OutsideStep DEF SafetyInvariant, PhaseProgress, Attaching
    <3>2. SessionPhase = "Connecting" /\ SessionInstalled' = TRUE
      BY <2>1, <3>1 DEF SessionPhase, SessionInstalled
    <3> QED BY <1>0, <2>0, <3>2 DEF Contract!Next, Contract!Install
  <2>2. CASE ns = "active" /\ ns' # "active"
    <3>1. ASSUME pc = "namespace" PROVE SessionPhase = "Disconnecting"
      BY <3>1 DEF ContractInvariant, Detaching, SessionPhase
    <3>2. ASSUME pc = "namespaceOnly" PROVE SessionLeaving
      <4>1. rs.there /\ rs.deleting /\ rs.fin
        BY <3>2 DEF SafetyInvariant, GuardsHold
      <4>2. SessionLeaving \/ SessionPhase \in {"None", "New"}
        BY <3>2, <4>1 DEF ContractInvariant, LeavingOrLeft
      <4> QED BY <2>2, <4>2 DEF ContractInvariant, SessionInstalled
    <3>3. SessionLeaving \/ SessionPhase = "Disconnecting"
      BY <2>2, <3>1, <3>2, OneThingAtATime
    <3>4. SessionInstalled' = FALSE
      BY <2>2 DEF SessionInstalled
    <3> QED BY <1>0, <2>0, <3>3, <3>4 DEF Contract!Next, Contract!Uninstall
  <2>3. CASE ns' = "active" <=> ns = "active"
    <3>1. UNCHANGED SessionInstalled
      BY <2>3 DEF SessionInstalled
    <3> QED BY <1>0, <2>0, <3>1 DEF Contract!vars
  <2> QED BY <2>1, <2>2, <2>3
<1> QED BY <1>1, <1>2, OneThingAtATime

\* The reconciler, with everything that can go wrong around it, implements the
\* contract.
THEOREM Refinement == Spec => ImplementsContract
<1>1. Init => Contract!Init
  <2>1. NewObject.there /\ ~NewObject.deleting /\ NewObject.phase = "" /\ NewObject.id = NoId
    BY DEF NewObject
  <2> QED BY <2>1 DEF Init, Contract!Init, SessionPhase, SessionLeaving, SessionRegistered,
             SessionInstalled
<1>2. TypeOK /\ TypeOK' /\ SafetyInvariant /\ ContractInvariant /\ [Next]_vars
        => [Contract!Next]_(Contract!vars)
  BY ObjectRefines, OutsideRefines, OneThingAtATime
<1> QED
  BY <1>1, <1>2, TypeCorrect, Safety, ContractInvariantHolds, PTL DEF Spec, ImplementsContract, Contract!Spec
=============================================================================

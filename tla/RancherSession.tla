--------------------------- MODULE RancherSession ---------------------------
(***************************************************************************)
(* The RancherSession reconciler                                           *)
(* (internal/controller/ranchersession_controller.go) with the trigger     *)
(* server that creates and deletes sessions (internal/trigger/server.go),  *)
(* the Rancher API (internal/rancher/client.go), the credentials Secret,   *)
(* the cattle-system namespace and the cluster agent.                      *)
(*                                                                         *)
(* One step is one call that another actor can observe or make fail.  Time *)
(* is counted down: `exp' is how many seconds remain until                 *)
(* status.expiresAt (0: it has passed), `timer' how many until the delayed *)
(* re-add of the key in the work queue.                                    *)
(***************************************************************************)
EXTENDS Integers

CONSTANTS
  PollInterval,     \* agentPollInterval
  ReadyTimeout,     \* agentReadyTimeout
  ErrorWait,        \* rancherErrorRequeueWait
  TTL,              \* spec.ttlSeconds
  Disturbances,     \* what may go wrong or be done by people
  MaxDisturbances   \* how many times, in all

DisturbanceKinds ==
  {"fault", "crash", "suspend", "connect", "disconnect", "rancherDelete", "secret"}

ASSUME ConstantsAssumption ==
  /\ {PollInterval, ReadyTimeout, ErrorWait, TTL} \subseteq Nat \ {0}
  /\ Disturbances \subseteq DisturbanceKinds
  /\ MaxDisturbances \in Nat

VARIABLES
  cr,        \* the RancherSession object in the API server
  cache,     \* the copy the manager's cache holds
  cur,       \* which copies ("cache", "worker") have the current version
  queue,     \* of the controller: "empty" or "queued" (dirty, while it works)
  timer,     \* seconds to the delayed add of the key, or NoTimer
  pc,        \* where the reconcile is
  rs,        \* the copy of the object the reconcile works on
  client,    \* what rancherClient returned: "none", "http" or "nilhttp"
  secret,    \* the credentials: "ok", "missing" or "malformed"
  clusters,  \* identifiers of Rancher's cluster records with the display name
  nextId,    \* the identifier the next record will get
  ns,        \* namespace cattle-system: "absent", "active" or "terminating"
  agent,     \* cattle-cluster-agent: "none", "starting" or "ready"
  trigger,   \* the trigger server: "idle", or "found" a session to delete
  budget     \* disturbances left

apiVars     == <<cr, cache, cur>>
queueVars   == <<queue, timer>>
workerVars  == <<pc, rs, client>>
rancherVars == <<clusters, nextId>>
edgeVars    == <<ns, agent>>
vars == <<apiVars, queueVars, workerVars, secret, rancherVars, edgeVars, trigger, budget>>

-----------------------------------------------------------------------------
(* The custom resource *)

Phases == {"", "Connecting", "Connected", "Disconnecting", "Disconnected", "Failed"}
NoId == 0
NoTimer == -1

\* Metadata, spec and status of a RancherSession, as far as the reconciler uses
\* them; `exp' is NoTimer while expiresAt is unset.
Object == [there: BOOLEAN, deleting: BOOLEAN, fin: BOOLEAN, suspend: BOOLEAN,
           phase: Phases, id: Nat, applied: BOOLEAN, exp: Nat \cup {NoTimer},
           reachable: {"Unknown", "True", "False"}]

NewObject ==
  [there |-> TRUE, deleting |-> FALSE, fin |-> FALSE, suspend |-> FALSE,
   phase |-> "", id |-> NoId, applied |-> FALSE, exp |-> NoTimer,
   reachable |-> "Unknown"]

NoObject == [NewObject EXCEPT !.there = FALSE]

\* A session has just been asked for.
Init ==
  /\ cr = NewObject
  /\ cache = NoObject
  /\ cur = {}
  /\ queue = "empty"
  /\ timer = NoTimer
  /\ pc = "idle"
  /\ rs = NoObject
  /\ client = "none"
  /\ secret = "ok"
  /\ clusters = {}
  /\ nextId = 1
  /\ ns = "absent"
  /\ agent = "none"
  /\ trigger = "idle"
  /\ budget = MaxDisturbances

Disturb(k) == k \in Disturbances /\ budget > 0 /\ budget' = budget - 1
Calm == UNCHANGED budget

-----------------------------------------------------------------------------
(* The work queue (controller-runtime) *)

\* AddAfter keeps the earlier of two delayed adds; RequeueAfter <= 0 adds nothing.
AddAfter(d) ==
  IF d <= 0 THEN timer ELSE IF timer = NoTimer \/ d < timer THEN d ELSE timer

\* The reconcile is over: its object is dropped.
Done == pc' = "idle" /\ rs' = NoObject /\ client' = "none"

\* Reconcile returns Result{RequeueAfter: d}; d = 0 is the empty Result.
Return(d) == Done /\ timer' = AddAfter(d) /\ UNCHANGED queue

\* Reconcile returns an error, or Result{Requeue: true}, or panics: the key is
\* added again.
Requeue == Done /\ queue' = "queued" /\ UNCHANGED timer

\* The reconcile goes on.
Continue(next) == pc' = next /\ UNCHANGED <<queueVars, client>>

\* The watch delivers the current object to the cache, and, there being no
\* predicate, whatever changed enqueues the key.
CacheSync ==
  /\ "cache" \notin cur
  /\ cache' = cr
  /\ cur' = cur \cup {"cache"}
  /\ queue' = "queued"
  /\ UNCHANGED <<cr, timer, workerVars, secret, rancherVars, edgeVars, trigger, budget>>

TimerFires ==
  /\ timer = 0
  /\ timer' = NoTimer
  /\ queue' = "queued"
  /\ UNCHANGED <<apiVars, workerVars, secret, rancherVars, edgeVars, trigger, budget>>

\* One second goes by.
Countdown(n) == IF n > 0 THEN n - 1 ELSE n
Aged(o) == [o EXCEPT !.exp = Countdown(@)]

Tick ==
  /\ cr' = Aged(cr)
  /\ cache' = Aged(cache)
  /\ rs' = Aged(rs)
  /\ timer' = Countdown(timer)
  /\ UNCHANGED <<cur, queue, pc, client, secret, rancherVars, edgeVars, trigger, budget>>

-----------------------------------------------------------------------------
(* Writes of the object *)

\* A successful update needs the current version; one that changes nothing
\* makes no new version, so no event follows it.
StoredAs(new, changes) ==
  /\ "worker" \in cur
  /\ cr' = new
  /\ cur' = IF changes THEN {"worker"} ELSE cur
  /\ UNCHANGED cache
  /\ Calm

Stored(new) == StoredAs(new, new # cr)

\* The call returns an error: a conflict, or a failure before or after the
\* API server stored the object.
WriteFails(new) ==
  /\ \/ "worker" \notin cur /\ Calm /\ UNCHANGED <<cr, cur>>
     \/ Disturb("fault") /\ UNCHANGED <<cr, cur>>
     \/ Disturb("fault") /\ "worker" \in cur /\ new # cr /\ cr' = new /\ cur' = {}
  /\ Requeue
  /\ UNCHANGED cache

-----------------------------------------------------------------------------
(* Reconcile *)

\* The early returns of Reconcile and handleDisconnect.
Dispatch(o) ==
  IF ~o.there THEN "idle"
  ELSE IF o.deleting THEN IF o.fin THEN "disconnect" ELSE "idle"
  ELSE IF ~o.fin THEN "finalizer"
  ELSE IF o.suspend THEN "idle"
  ELSE "client"

\* A worker takes the key and reads the object from the cache.
Reconcile ==
  /\ pc = "idle" /\ queue = "queued"
  /\ queue' = "empty"
  /\ pc' = Dispatch(cache)
  /\ rs' = IF pc' = "idle" THEN NoObject ELSE cache
  /\ cur' = IF "cache" \in cur THEN cur \cup {"worker"} ELSE cur \ {"worker"}
  /\ UNCHANGED <<cr, cache, timer, client, secret, rancherVars, edgeVars, trigger, budget>>

AddFinalizer ==
  LET new == [rs EXCEPT !.fin = TRUE] IN
  /\ pc = "finalizer"
  /\ \/ Stored(new) /\ Requeue
     \/ WriteFails(new)
  /\ UNCHANGED <<secret, rancherVars, edgeVars, trigger>>

\* rancherClient, then the switch on the phase.
PhaseHandler(o) ==
  CASE o.phase = "" -> "connecting"
    [] o.phase = "Connecting" -> IF o.applied THEN "poll" ELSE "connecting"
    [] o.phase = "Connected" -> "check"
    [] OTHER -> "idle"

BuildClient ==
  /\ pc = "client"
  /\ \/ /\ secret = "ok" /\ PhaseHandler(rs) # "idle"
        /\ pc' = PhaseHandler(rs)
        /\ client' = "http"
        /\ UNCHANGED <<rs, queueVars>>
     \/ secret = "ok" /\ PhaseHandler(rs) = "idle" /\ Return(0)
     \/ secret # "ok" /\ Continue("failed") /\ UNCHANGED rs
  /\ UNCHANGED <<apiVars, secret, rancherVars, edgeVars, trigger, budget>>

\* setFailed; its message may change although nothing else does.
SetFailed ==
  LET new == [rs EXCEPT !.phase = "Failed", !.reachable = "False"] IN
  /\ pc = "failed"
  /\ \/ \E changes \in {TRUE, new # cr} : StoredAs(new, changes) /\ Return(0)
     \/ WriteFails(new)
  /\ UNCHANGED <<secret, rancherVars, edgeVars, trigger>>

\* Mutant: it leaves the retry to the event of its own write.
SetAPIUnreachableAndWait ==
  LET new == [rs EXCEPT !.reachable = "False"] IN
  /\ pc = "unreachable"
  /\ Stored(new) /\ Return(0)
  /\ UNCHANGED <<secret, rancherVars, edgeVars, trigger>>

\* Mutant: the condition is set without a status.
SetAPIUnreachableBlank ==
  LET new == [rs EXCEPT !.reachable = ""] IN
  /\ pc = "unreachable"
  /\ Stored(new) /\ Return(ErrorWait)
  /\ UNCHANGED <<secret, rancherVars, edgeVars, trigger>>

\* setAPIUnreachable.  On the way out of a deletion handleDisconnect drops its
\* RequeueAfter.
SetAPIUnreachable ==
  LET new == [rs EXCEPT !.reachable = "False"] IN
  /\ pc = "unreachable"
  /\ \/ \E changes \in {TRUE, new # cr} :
          StoredAs(new, changes) /\ Return(IF rs.deleting THEN 0 ELSE ErrorWait)
     \/ WriteFails(new)
  /\ UNCHANGED <<secret, rancherVars, edgeVars, trigger>>

-----------------------------------------------------------------------------
(* handleConnect *)

\* Mutant: on a conflict the phase is written to the latest version.
BeginConnectOnLatest ==
  /\ pc = "connecting"
  /\ cr' = [cr EXCEPT !.phase = "Connecting"] /\ cur' = {"worker"} /\ Calm
  /\ rs' = cr' /\ Continue("find")
  /\ UNCHANGED <<cache, secret, rancherVars, edgeVars, trigger>>

BeginConnect ==
  LET new == [rs EXCEPT !.phase = "Connecting"] IN
  /\ pc = "connecting"
  /\ \/ Stored(new) /\ rs' = new /\ Continue("find")
     \/ WriteFails(new)
  /\ UNCHANGED <<secret, rancherVars, edgeVars, trigger>>

\* Mutant: no search for a record left by an earlier attempt.
FindNothing ==
  /\ pc = "find"
  /\ Continue("create") /\ Calm
  /\ UNCHANGED <<rs, apiVars, secret, rancherVars, edgeVars, trigger>>

\* The first record with the display name, if there is one.
FindCluster ==
  /\ pc = "find"
  /\ \/ \E id \in clusters : rs' = [rs EXCEPT !.id = id] /\ Continue("token") /\ Calm
     \/ clusters = {} /\ Continue("create") /\ Calm /\ UNCHANGED rs
     \/ Disturb("fault") /\ Continue("unreachable") /\ UNCHANGED rs
  /\ UNCHANGED <<apiVars, secret, rancherVars, edgeVars, trigger>>

\* A failed call may have created the record all the same.
CreateCluster ==
  LET created == clusters' = clusters \cup {nextId} /\ nextId' = nextId + 1 IN
  /\ pc = "create"
  /\ \/ created /\ rs' = [rs EXCEPT !.id = nextId] /\ Continue("token") /\ Calm
     \/ /\ Disturb("fault")
        /\ created \/ UNCHANGED rancherVars
        /\ Continue("unreachable")
        /\ UNCHANGED rs
  /\ UNCHANGED <<apiVars, secret, edgeVars, trigger>>

GetRegistrationToken ==
  /\ pc = "token"
  /\ \/ rs.id \in clusters /\ Continue("apply") /\ Calm
     \/ rs.id \notin clusters /\ Continue("unreachable") /\ Calm
     \/ Disturb("fault") /\ Continue("unreachable")
  /\ UNCHANGED <<rs, apiVars, secret, rancherVars, edgeVars, trigger>>

\* applyManifest.  Nothing can be created in a namespace that is terminating,
\* but what is still there can be applied again.
ApplyManifest ==
  /\ pc = "apply"
  /\ \/ /\ secret # "missing"
        /\ \/ ns = "terminating" /\ UNCHANGED edgeVars
           \/ /\ ns # "terminating"
              /\ ns' = "active"
              /\ agent' = IF agent = "none" THEN "starting" ELSE agent
        /\ Continue("applied")
        /\ Calm
     \/ /\ secret # "ok" \/ ns = "terminating"
        /\ Continue("failed")
        /\ Calm
        /\ UNCHANGED edgeVars
     \/ /\ Disturb("fault")
        /\ ns' \in {ns, IF ns = "absent" THEN "active" ELSE ns}
        /\ Continue("failed")
        /\ UNCHANGED agent
  /\ UNCHANGED <<rs, apiVars, secret, rancherVars, trigger>>

RecordApplied ==
  LET new == [rs EXCEPT !.applied = TRUE, !.exp = ReadyTimeout, !.reachable = "True"] IN
  /\ pc = "applied"
  /\ \/ Stored(new) /\ Return(PollInterval)
     \/ WriteFails(new)
  /\ UNCHANGED <<secret, rancherVars, edgeVars, trigger>>

-----------------------------------------------------------------------------
(* pollAgentReady and handleConnected *)

\* Mutant: the wait for the agent has no limit.
PollAgentForever ==
  /\ pc = "poll"
  /\ \/ agent # "ready" /\ Return(PollInterval)
     \/ agent = "ready" /\ Continue("connected") /\ UNCHANGED rs
  /\ UNCHANGED <<apiVars, secret, rancherVars, edgeVars, trigger, budget>>

PollAgentReady ==
  /\ pc = "poll"
  /\ \/ rs.exp = 0 /\ Continue("failed") /\ Calm /\ UNCHANGED rs
     \/ rs.exp # 0 /\ agent # "ready" /\ Return(PollInterval) /\ Calm
     \/ rs.exp # 0 /\ agent = "ready" /\ Continue("connected") /\ Calm /\ UNCHANGED rs
     \/ rs.exp # 0 /\ Disturb("fault") /\ Requeue
  /\ UNCHANGED <<apiVars, secret, rancherVars, edgeVars, trigger>>

\* Mutant: on a conflict the phase is written to the latest version.
BecomeConnectedOnLatest ==
  /\ pc = "connected"
  /\ cr' = [cr EXCEPT !.phase = "Connected", !.exp = TTL] /\ cur' = {"worker"} /\ Calm
  /\ Return(TTL)
  /\ UNCHANGED <<cache, secret, rancherVars, edgeVars, trigger>>

BecomeConnected ==
  LET new == [rs EXCEPT !.phase = "Connected", !.exp = TTL, !.reachable = "True"] IN
  /\ pc = "connected"
  /\ \/ Stored(new) /\ Return(TTL)
     \/ WriteFails(new)
  /\ UNCHANGED <<secret, rancherVars, edgeVars, trigger>>

\* The TTL check, then GetCluster.
CheckSession ==
  /\ pc = "check"
  /\ \/ rs.exp = 0 /\ Continue("disconnecting") /\ Calm
     \/ rs.exp # 0 /\ rs.id \notin clusters /\ Continue("disconnecting") /\ Calm
     \/ rs.exp # 0 /\ Disturb("fault") /\ Continue("unreachable")
     \/ rs.exp # 0 /\ rs.id \in clusters /\ Continue("remaining") /\ Calm
  /\ UNCHANGED <<rs, apiVars, secret, rancherVars, edgeVars, trigger>>

\* The clock is read again: with nothing left of the TTL, nothing is requeued.
RequeueRemaining ==
  /\ pc = "remaining"
  /\ Return(rs.exp)
  /\ UNCHANGED <<apiVars, secret, rancherVars, edgeVars, trigger, budget>>

-----------------------------------------------------------------------------
(* handleDisconnect and runCleanup *)

\* Without the Secret there is no client.  With a Secret that NewHTTPClient
\* rejects, its nil *HTTPClient makes an interface that is not nil.
HandleDisconnect ==
  /\ pc = "disconnect"
  /\ pc' = IF secret = "missing" THEN "namespaceOnly" ELSE "disconnecting"
  /\ client' = CASE secret = "ok" -> "http"
                 [] secret = "missing" -> "none"
                 [] secret = "malformed" -> "nilhttp"
  /\ UNCHANGED <<rs, apiVars, queueVars, secret, rancherVars, edgeVars, trigger, budget>>

BeginCleanup ==
  LET new == [rs EXCEPT !.phase = "Disconnecting"] IN
  /\ pc = "disconnecting"
  /\ \/ Stored(new) /\ rs' = new /\ Continue("delete")
     \/ WriteFails(new)
  /\ UNCHANGED <<secret, rancherVars, edgeVars, trigger>>

\* Mutant: the error of DeleteCluster is only logged.
DeleteClusterOnce ==
  /\ pc = "delete"
  /\ \/ clusters' = clusters \ {rs.id} /\ UNCHANGED nextId /\ Calm
     \/ rs.id # NoId /\ Disturb("fault") /\ UNCHANGED rancherVars
  /\ Continue("namespace")
  /\ UNCHANGED <<rs, apiVars, secret, edgeVars, trigger>>

\* DeleteCluster: a record that is already gone is a success, and a nil client
\* a panic, which the controller recovers from.
DeleteCluster ==
  LET deleted == clusters' = clusters \ {rs.id} /\ UNCHANGED nextId IN
  /\ pc = "delete"
  /\ \/ /\ rs.id = NoId \/ client = "http"
        /\ deleted
        /\ Continue("namespace")
        /\ Calm
        /\ UNCHANGED rs
     \/ rs.id # NoId /\ client = "nilhttp" /\ Requeue /\ Calm /\ UNCHANGED rancherVars
     \/ /\ rs.id # NoId /\ client = "http" /\ Disturb("fault")
        /\ deleted \/ UNCHANGED rancherVars
        /\ Continue("unreachable")
        /\ UNCHANGED rs
  /\ UNCHANGED <<apiVars, secret, edgeVars, trigger>>

\* deleteNamespace only starts the termination.
Terminated(n) == IF n = "active" THEN "terminating" ELSE n

\* Mutant: the error is only logged.
DeleteNamespaceOnce ==
  /\ pc \in {"namespace", "namespaceOnly"}
  /\ \/ ns' = Terminated(ns) /\ Calm
     \/ Disturb("fault") /\ UNCHANGED ns
  /\ Continue(IF pc = "namespace" THEN "disconnected" ELSE "unfinalize")
  /\ UNCHANGED <<rs, agent, apiVars, secret, rancherVars, trigger>>

DeleteNamespace ==
  /\ \/ pc = "namespace" /\ ns' = Terminated(ns) /\ Continue("disconnected") /\ Calm /\ UNCHANGED rs
     \/ pc = "namespaceOnly" /\ ns' = Terminated(ns) /\ Continue("unfinalize") /\ Calm /\ UNCHANGED rs
     \/ /\ pc \in {"namespace", "namespaceOnly"}
        /\ Disturb("fault")
        /\ ns' \in {ns, Terminated(ns)}
        /\ Requeue
  /\ UNCHANGED <<agent, apiVars, secret, rancherVars, trigger>>

\* Mutant: the finalizer is left to the next reconcile.
RecordDisconnectedOnly ==
  LET new == [rs EXCEPT !.phase = "Disconnected"] IN
  /\ pc = "disconnected"
  /\ \/ Stored(new) /\ Return(0)
     \/ WriteFails(new)
  /\ UNCHANGED <<secret, rancherVars, edgeVars, trigger>>

RecordDisconnected ==
  LET new == [rs EXCEPT !.phase = "Disconnected"] IN
  /\ pc = "disconnected"
  /\ \/ rs.deleting /\ Stored(new) /\ rs' = new /\ Continue("unfinalize")
     \/ ~rs.deleting /\ Stored(new) /\ Return(0)
     \/ WriteFails(new)
  /\ UNCHANGED <<secret, rancherVars, edgeVars, trigger>>

\* removeFinalizer: the API server then removes the object.
RemoveFinalizer ==
  /\ pc = "unfinalize"
  /\ \/ Stored(NoObject) /\ Return(0)
     \/ WriteFails(NoObject)
  /\ UNCHANGED <<secret, rancherVars, edgeVars, trigger>>

-----------------------------------------------------------------------------
(* The other actors *)

\* Somebody writes the object.
UserWrites(new) ==
  /\ cr' = new
  /\ cur' = {}
  /\ UNCHANGED <<cache, queueVars, workerVars, secret, rancherVars, edgeVars>>

\* handleConnect of the trigger server: 202; an existing session is a 409.
TriggerConnect ==
  /\ ~cr.there /\ Disturb("connect")
  /\ UserWrites(NewObject)
  /\ UNCHANGED trigger

\* handleDisconnect of the trigger server: look the session up in the cache ...
TriggerLookup ==
  /\ trigger = "idle" /\ cache.there /\ Disturb("disconnect")
  /\ trigger' = "found"
  /\ UNCHANGED <<apiVars, queueVars, workerVars, secret, rancherVars, edgeVars>>

\* ... and delete the one that has its name by now, if any.
TriggerDelete ==
  /\ trigger = "found"
  /\ trigger' = "idle"
  /\ \/ /\ cr.there /\ ~cr.deleting
        /\ UserWrites(IF cr.fin THEN [cr EXCEPT !.deleting = TRUE] ELSE NoObject)
     \/ /\ cr.there => cr.deleting
        /\ UNCHANGED <<apiVars, queueVars, workerVars, secret, rancherVars, edgeVars>>
  /\ Calm

ToggleSuspend ==
  /\ cr.there /\ Disturb("suspend")
  /\ UserWrites([cr EXCEPT !.suspend = ~@])
  /\ UNCHANGED trigger

\* The record is deleted in Rancher.
RancherDelete ==
  /\ clusters # {} /\ Disturb("rancherDelete")
  /\ \E id \in clusters : clusters' = clusters \ {id}
  /\ UNCHANGED <<nextId, apiVars, queueVars, workerVars, secret, edgeVars, trigger>>

\* The Secret is removed, spoilt, or put right.
ChangeSecret ==
  /\ secret' \in {"ok", "missing", "malformed"} \ {secret}
  /\ IF secret' = "ok" THEN Calm ELSE Disturb("secret")
  /\ UNCHANGED <<apiVars, queueVars, workerVars, rancherVars, edgeVars, trigger>>

AgentBecomesReady ==
  /\ agent = "starting"
  /\ agent' = "ready"
  /\ UNCHANGED <<ns, apiVars, queueVars, workerVars, secret, rancherVars, trigger, budget>>

NamespaceGone ==
  /\ ns = "terminating"
  /\ ns' = "absent"
  /\ agent' = "none"
  /\ UNCHANGED <<apiVars, queueVars, workerVars, secret, rancherVars, trigger, budget>>

\* The manager dies and starts again: queue, timers, requests and reconcile are
\* gone, and the new cache's initial list enqueues every object.
Crash ==
  /\ Disturb("crash")
  /\ Done
  /\ cache' = cr
  /\ cur' = {"cache"}
  /\ queue' = IF cr.there THEN "queued" ELSE "empty"
  /\ timer' = NoTimer
  /\ trigger' = "idle"
  /\ UNCHANGED <<cr, secret, rancherVars, edgeVars>>

-----------------------------------------------------------------------------

ReconcileStep ==
  \/ Reconcile \/ AddFinalizer \/ BuildClient \/ SetFailed \/ SetAPIUnreachable
  \/ BeginConnect \/ FindCluster \/ CreateCluster \/ GetRegistrationToken
  \/ ApplyManifest \/ RecordApplied \/ PollAgentReady \/ BecomeConnected
  \/ CheckSession \/ RequeueRemaining
  \/ HandleDisconnect \/ BeginCleanup \/ DeleteCluster \/ DeleteNamespace
  \/ RecordDisconnected \/ RemoveFinalizer

Environment ==
  \/ TriggerConnect \/ TriggerLookup \/ TriggerDelete \/ ToggleSuspend
  \/ RancherDelete \/ ChangeSecret \/ AgentBecomesReady \/ NamespaceGone \/ Crash

Next == ReconcileStep \/ CacheSync \/ TimerFires \/ Tick \/ Environment

\* Workers, watches, timers and the clock keep running.  Nothing is assumed of
\* the agent, of Kubernetes' namespace controller or of people.
Fairness ==
  /\ WF_vars(ReconcileStep)
  /\ WF_vars(CacheSync)
  /\ WF_vars(TimerFires)
  /\ WF_vars(Tick)

Spec == Init /\ [][Next]_vars
FairSpec == Spec /\ Fairness

-----------------------------------------------------------------------------
(* Properties *)

ProgramCounters ==
  {"idle", "finalizer", "client", "failed", "unreachable", "connecting", "find", "create",
   "token", "apply", "applied", "poll", "connected", "check", "remaining", "disconnect",
   "disconnecting", "delete", "namespace", "namespaceOnly", "disconnected", "unfinalize"}

\* Every variable has the shape the code's types give it.
TypeOK ==
  /\ cr \in Object /\ cache \in Object /\ rs \in Object
  /\ cur \subseteq {"cache", "worker"}
  /\ queue \in {"empty", "queued"}
  /\ timer \in Nat \cup {NoTimer}
  /\ pc \in ProgramCounters
  /\ client \in {"none", "http", "nilhttp"}
  /\ secret \in {"ok", "missing", "malformed"}
  /\ clusters \subseteq Nat
  /\ nextId \in Nat \ {0}
  /\ ns \in {"absent", "active", "terminating"}
  /\ agent \in {"none", "starting", "ready"}
  /\ trigger \in {"idle", "found"}
  /\ budget \in Nat

\* Rancher never has two records with the session's display name: a record
\* whose creation seemed to fail, or that a dead manager created, is found again.
OneClusterRecord == \A i, j \in clusters : i = j

\* A session that is Disconnected has left nothing behind: its record is gone
\* and cattle-system is gone or going, and no late step of an earlier
\* reconcile brings them back.
DisconnectedIsClean ==
  cr.there /\ cr.phase = "Disconnected" => cr.id \notin clusters /\ ns # "active"

RemovalStep ==
  cr.there /\ cr.fin /\ ~cr'.there =>
    /\ ns # "active"
    /\ cr.id \in clusters => client = "none"

\* The object leaves the API server only after its cleanup: the namespace, and
\* the recorded cluster unless the credentials could not be read.
CleanupBeforeRemoval == [][RemovalStep]_vars

Rank(phase) ==
  CASE phase = "" -> 0
    [] phase = "Connecting" -> 1
    [] phase = "Connected" -> 2
    [] phase = "Disconnecting" -> 3
    [] phase = "Disconnected" -> 4
    [] phase = "Failed" -> 5

ForwardStep ==
  cr.there /\ cr'.there /\ ~cr'.deleting => Rank(cr'.phase) >= Rank(cr.phase)

\* Until its deletion a session only moves forward through its phases: a
\* reconcile that started from an old copy never takes it back.
PhasesMoveForward == [][ForwardStep]_vars

Waking == "cache" \notin cur \/ queue = "queued" \/ timer # NoTimer \/ pc # "idle"

\* The reconciler has something left to do for the session: connect it, or end it
\* when its TTL is over.
Unsettled(o) ==
  /\ o.there /\ ~o.deleting /\ ~o.suspend
  /\ o.phase \in {"", "Connecting"} \/ (o.phase = "Connected" /\ o.exp > 0)

\* A session that is not suspended and has not yet connected or failed, or is
\* connected with some of its TTL left, always has something that will run its
\* reconcile again.
NoLostWakeup == Unsettled(cr) => Waking

Open == cr.there /\ ~cr.suspend /\ ~cr.deleting

\* An attempt to connect comes to an end, whether or not the agent ever starts:
\* faults are retried and the wait for the agent is limited.
SessionSettles == (Open /\ cr.phase \in {"", "Connecting"}) ~> (cr.phase \in {"Connected", "Failed"} \/ ~Open)

\* A deletion gets through: the finalizer does not hold the object forever.
DeletionCompletes == cr.deleting ~> ~cr.there

\* The deletion has come to rest on a DeleteCluster that failed, or cannot be
\* tried for want of a client that works.
DeletionStuck ==
  \/ secret = "malformed"
  \/ cr.reachable = "False" /\ pc = "idle" /\ queue = "empty" /\ "cache" \in cur

\* Nothing else can stop a deletion: not a conflict, a crash, a missing Secret,
\* a namespace that cannot be deleted or a session that was never connected.
DeletionEnds == cr.deleting ~> (~cr.there \/ DeletionStuck)

\* docs/rancher-integration.md: when the TTL expires, the controller runs the
\* cleanup.
ExpiredSessionDisconnects ==
  (Open /\ cr.phase = "Connected" /\ cr.exp = 0) ~> (cr.phase # "Connected" \/ ~Open)

\* setAPIUnreachable "requeues": a cleanup that failed half-way is resumed.
CleanupResumes ==
  (Open /\ cr.phase = "Disconnecting") ~> (cr.phase # "Disconnecting" \/ ~Open)

-----------------------------------------------------------------------------
(* What makes the safety properties inductive *)

\* Metadata and spec: what the reconciler never writes, but for the finalizer.
Meta(o) == <<o.there, o.deleting, o.fin, o.suspend>>

\* handleConnect after its first write, and the cleanup after its own.
Attaching == {"find", "create", "token", "apply", "applied"}
Detaching == {"delete", "namespace", "disconnected"}

\* Steps at which the worker's copy holds what its next write will store.
Changed == {"token", "apply", "applied", "failed", "unreachable"}

\* A copy that has the current version is a copy of the current object, but
\* for the fields the worker has set and not yet stored.
CopiesAreCurrent ==
  /\ "cache" \in cur => cache = cr
  /\ "worker" \in cur /\ pc # "idle" => Meta(rs) = Meta(cr) /\ rs.phase = cr.phase
  /\ "worker" \in cur /\ pc \notin Changed \cup {"idle"} => rs = cr

\* The early returns still hold of the copy, however far the reconcile has got.
GuardsHold ==
  /\ pc # "idle" => rs.there
  /\ pc \in {"disconnect", "namespaceOnly", "unfinalize"} => rs.deleting /\ rs.fin
  /\ pc \in Detaching \cup {"disconnecting", "unreachable"} => rs.fin
  /\ pc \in Attaching \cup {"client", "failed", "connecting", "poll", "connected", "check", "remaining"} =>
       ~rs.deleting /\ rs.fin /\ ~rs.suspend
  /\ pc = "finalizer" => ~rs.deleting

\* The phase a reconcile starts each step from.
PhaseProgress ==
  /\ pc = "connecting" => rs.phase \in {"", "Connecting"}
  /\ pc \in Attaching \cup {"poll", "connected"} => rs.phase = "Connecting"
  /\ pc \in {"check", "remaining"} => rs.phase = "Connected"
  /\ pc = "disconnecting" /\ ~rs.deleting => rs.phase = "Connected"
  /\ pc \in Detaching => rs.phase = "Disconnecting"
  /\ pc = "unreachable" => rs.phase \in {"Connecting", "Connected", "Disconnecting"}
  /\ pc = "unreachable" /\ rs.deleting => rs.phase = "Disconnecting"
  /\ pc \in Attaching => cr.there /\ cr.fin /\ cr.phase = "Connecting"

\* What exists outside the cluster's API server at each step.
RecordProgress ==
  /\ \A id \in clusters : id # NoId
  /\ pc = "create" => clusters = {}
  /\ pc \in {"namespace", "disconnected"} => rs.id \notin clusters
  /\ pc = "namespaceOnly" => client = "none"
  /\ pc = "unfinalize" /\ rs.id \in clusters => client = "none"
  /\ pc \in {"disconnected", "unfinalize"} => ns # "active"
  /\ OneClusterRecord
  /\ DisconnectedIsClean

\* A worker whose copy the cache has overtaken will be run again.
WakeProgress ==
  /\ pc # "idle" /\ "cache" \in cur /\ "worker" \notin cur => queue = "queued"
  /\ NoLostWakeup

\* The conjunction that every step preserves, and that implies the safety
\* properties which are not inductive by themselves.
SafetyInvariant ==
  CopiesAreCurrent /\ GuardsHold /\ PhaseProgress /\ RecordProgress /\ WakeProgress

-----------------------------------------------------------------------------
(* The contract that the reconciler implements *)

SessionPhase == IF ~cr.there THEN "None" ELSE IF cr.phase = "" THEN "New" ELSE cr.phase
SessionLeaving == cr.there /\ cr.deleting
SessionRegistered == cr.there /\ cr.id \in clusters
SessionInstalled == ns = "active"

Contract == INSTANCE SessionContract
  WITH phase <- SessionPhase, leaving <- SessionLeaving,
       registered <- SessionRegistered, installed <- SessionInstalled

\* Every behaviour of the reconciler and its surroundings is one of the
\* contract: retries, conflicts, stale copies, crashes and lost answers never
\* show as a step that a session may not take.
ImplementsContract == Contract!Spec

\* Steps before the first write of a reconcile.
Unwritten ==
  {"finalizer", "client", "connecting", "poll", "connected", "check", "remaining", "disconnect",
   "disconnecting", "namespaceOnly"}

\* The session that a copy marked for deletion was taken of is still leaving,
\* or has left, whether or not a new one has been asked for since.
LeavingOrLeft(o) ==
  o.there /\ o.deleting /\ o.fin => SessionLeaving \/ SessionPhase \in {"None", "New"}

\* What makes the refinement inductive, on top of SafetyInvariant.
ContractInvariant ==
  /\ SessionPhase \in {"None", "New"} => ~SessionInstalled
  /\ cr.there /\ ~cr.fin => cr.phase = ""
  /\ pc \in Detaching => cr.there /\ cr.fin /\ cr.phase = "Disconnecting"
  /\ LeavingOrLeft(cache) /\ (pc # "idle" => LeavingOrLeft(rs))
  /\ "worker" \in cur /\ (pc \in Unwritten \/ (pc = "failed" /\ rs.phase = "")) => "cache" \in cur
  /\ "worker" \in cur /\ pc \in {"failed", "unreachable"} /\ rs.phase # "Connecting" => rs.id = cr.id
  /\ \A id \in clusters \cup {cr.id, cache.id, rs.id} : id < nextId

=============================================================================

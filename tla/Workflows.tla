------------------------------ MODULE Workflows ------------------------------
(***************************************************************************)
(* The Edge Workflows of a LosantSync: ensureWorkflowDeployments           *)
(* (internal/controller/losantsync_controller.go), sync after sync, with   *)
(* GetEdgeDeployments and ReleaseWorkflow (internal/losant/client.go), the *)
(* versions Losant and the GEA have of each workflow, the people who edit  *)
(* the list or release versions themselves, and the status write at the    *)
(* end of the sync.                                                        *)
(*                                                                         *)
(* LosantSync models the sync around this step, with its phases, timers    *)
(* and devices.  Here a sync reads the object, may fail at any of its      *)
(* other steps, and stores what it has set; another follows it, at the     *)
(* time the schedule gives or at once when it returns an error.            *)
(***************************************************************************)
EXTENDS Integers, Sequences

CONSTANTS
  Flows,           \* values of flowId
  Versions,        \* names of versions
  NoVersion,       \* the empty string: no version
  Known,           \* the pairs <<flow, version>> that the application has
  Lists,           \* lists that spec.workflowDeployments may be
  Disturbances,    \* what may go wrong or be done by people
  MaxDisturbances  \* how many times, in all

WorkflowDeployment == [flow: Flows, version: Versions]

ASSUME WorkflowsAssumption ==
  /\ NoVersion \notin Versions
  /\ Known \subseteq Flows \X Versions
  /\ Lists # {} /\ Lists \subseteq Seq(WorkflowDeployment)
  /\ Disturbances \subseteq {"fault", "crash", "edit", "release"}
  /\ MaxDisturbances \in Nat

VARIABLES
  cr,         \* the LosantSync object in the API server
  cache,      \* the copy the manager's cache holds
  cur,        \* which copies ("cache", "worker") have the current version
  pc,         \* where the sync is
  ls,         \* the copy of the object the sync works on
  byFlowID,   \* the deployments it has read
  next,       \* the entry of the list it looks at next
  confirmed,  \* allConfirmed
  deployed,   \* of the cluster device: desired and current version of each flow
  read,       \* who knows the deployments as they were after the last release of
              \* somebody else: "worker", "status" (a history variable)
  releases,   \* how often each version was released since syncs work on another
              \* list or somebody else released one, up to 2 (a history variable)
  budget      \* disturbances left

workerVars == <<pc, ls, byFlowID, next, confirmed>>
vars == <<cr, cache, cur, workerVars, deployed, read, releases, budget>>

Reasons == {"unset", "Deployed", "DeploymentPending", "ReleaseFailed", "WorkflowNotFound"}

\* The list, and the condition WorkflowDeployed: its reason ("unset": there is none) and
\* whether its observedGeneration is that of the object.
Object == [list: Lists, reason: Reasons, observed: BOOLEAN]

NoDeployments == [f \in Flows |-> [desired |-> NoVersion, current |-> NoVersion]]
NoReleases == [f \in Flows |-> [v \in Versions |-> 0]]

Init ==
  /\ \E list \in Lists : cr = [list |-> list, reason |-> "unset", observed |-> FALSE]
  /\ cache = cr /\ cur = {"cache"}
  /\ pc = "idle" /\ ls = cr /\ byFlowID = NoDeployments /\ next = 1 /\ confirmed = TRUE
  /\ deployed = NoDeployments
  /\ read = {}
  /\ releases = NoReleases
  /\ budget = MaxDisturbances

Disturb(k) == k \in Disturbances /\ budget > 0 /\ budget' = budget - 1
Calm == UNCHANGED budget

-----------------------------------------------------------------------------
(* A sync *)

\* The object is read from the cache.  An empty list means no call and no
\* condition.
Sync ==
  /\ pc = "idle"
  /\ ls' = cache
  /\ cur' = IF "cache" \in cur THEN cur \cup {"worker"} ELSE cur \ {"worker"}
  /\ pc' = IF cache.list = <<>> THEN "store" ELSE "get"
  /\ read' = read \ {"worker"}
  /\ releases' = IF cache.list = ls.list THEN releases ELSE NoReleases
  /\ UNCHANGED <<cr, cache, byFlowID, next, confirmed, deployed, budget>>

\* A step before this one fails: its own condition is stored, not this one.
StopEarlier ==
  /\ pc = "get" /\ Disturb("fault")
  /\ pc' = "store"
  /\ UNCHANGED <<cr, cache, cur, ls, byFlowID, next, confirmed, deployed, read, releases>>

\* What ensureWorkflowDeployments keeps is gone when it returns.
Forget == byFlowID' = NoDeployments /\ next' = 1 /\ confirmed' = TRUE

\* Mutant: a failure is recorded under the name of the phase.
ConcludeWithPhase(reason) ==
  /\ pc' = "store" /\ Forget
  /\ ls' = [ls EXCEPT !.observed = TRUE,
                      !.reason = IF reason = "ReleaseFailed" THEN "Degraded" ELSE reason]

\* setCondition, setDegraded: the reason goes into the copy.
Conclude(reason) ==
  /\ pc' = "store"
  /\ Forget
  /\ ls' = [ls EXCEPT !.reason = reason, !.observed = TRUE]

GetEdgeDeployments ==
  /\ pc = "get"
  /\ \/ /\ byFlowID' = deployed /\ next' = 1 /\ confirmed' = TRUE
        /\ pc' = "release"
        /\ read' = read \cup {"worker"}
        /\ Calm
        /\ UNCHANGED ls
     \/ /\ Disturb("fault")
        /\ Conclude("ReleaseFailed")
        /\ UNCHANGED read
  /\ UNCHANGED <<cr, cache, cur, deployed, releases>>

Entry == ls.list[next]

Go(ok) ==
  /\ next' = next + 1
  /\ confirmed' = (confirmed /\ ok)
  /\ UNCHANGED <<pc, ls, byFlowID>>

\* The release reaches Losant: the version is the desired one from now on.
Released ==
  /\ deployed' = [deployed EXCEPT ![Entry.flow].desired = Entry.version]
  /\ releases' = [releases EXCEPT ![Entry.flow][Entry.version] = IF @ < 2 THEN @ + 1 ELSE @]

\* Mutant: the version is released until the GEA has it.
ReleaseWorkflowUntilCurrent ==
  /\ pc = "release" /\ next <= Len(ls.list)
  /\ byFlowID[Entry.flow].current # Entry.version
  /\ Released /\ Go(FALSE)
  /\ UNCHANGED <<cr, cache, cur, read, budget>>

\* Mutant: a version is released only where there is none.
ReleaseWorkflowFirst ==
  /\ pc = "release" /\ next <= Len(ls.list)
  /\ byFlowID[Entry.flow].desired # Entry.version
  /\ Go(FALSE)
  /\ IF byFlowID[Entry.flow].desired = NoVersion THEN Released ELSE UNCHANGED <<deployed, releases>>
  /\ UNCHANGED <<cr, cache, cur, read, budget>>

\* The desired version of this entry is another: ReleaseWorkflow, whose answer
\* may get lost.
ReleaseWorkflow ==
  /\ pc = "release" /\ next <= Len(ls.list)
  /\ byFlowID[Entry.flow].desired # Entry.version
  /\ LET known == <<Entry.flow, Entry.version>> \in Known IN
     \/ known /\ Released /\ Go(FALSE) /\ Calm
     \/ /\ ~known /\ Conclude("WorkflowNotFound") /\ Calm
        /\ UNCHANGED <<deployed, releases>>
     \/ /\ Disturb("fault") /\ Conclude("ReleaseFailed")
        /\ (known /\ Released) \/ UNCHANGED <<deployed, releases>>
  /\ UNCHANGED <<cr, cache, cur, read>>

\* Mutant: a version that was released counts as deployed.
AwaitConfirmationOfRelease ==
  /\ pc = "release" /\ next <= Len(ls.list)
  /\ byFlowID[Entry.flow].desired = Entry.version
  /\ Go(TRUE)
  /\ UNCHANGED <<cr, cache, cur, deployed, read, releases, budget>>

\* The desired version is that of this entry: has the GEA confirmed it?
AwaitConfirmation ==
  /\ pc = "release" /\ next <= Len(ls.list)
  /\ byFlowID[Entry.flow].desired = Entry.version
  /\ Go(byFlowID[Entry.flow].current = Entry.version)
  /\ UNCHANGED <<cr, cache, cur, deployed, read, releases, budget>>

\* Mutant: a reason that is there is kept.
SummariseOnce ==
  /\ pc = "release" /\ next > Len(ls.list)
  /\ Conclude(IF ls.reason # "unset" THEN ls.reason
              ELSE IF confirmed THEN "Deployed" ELSE "DeploymentPending")
  /\ UNCHANGED <<cr, cache, cur, deployed, read, releases, budget>>

Summarise ==
  /\ pc = "release" /\ next > Len(ls.list)
  /\ Conclude(IF confirmed THEN "Deployed" ELSE "DeploymentPending")
  /\ UNCHANGED <<cr, cache, cur, deployed, read, releases, budget>>

\* The status write of Reconcile or setDegraded: it needs the current version,
\* and may fail before or after it takes effect.
Written ==
  /\ "worker" \in cur
  /\ cr' = ls
  /\ cur' = {}
  /\ read' = IF "worker" \in read THEN {"status"} ELSE read

Idle == pc' = "idle" /\ Forget /\ UNCHANGED ls

\* Mutant: the status is written to the latest version.
StoreOnLatest ==
  /\ pc = "store" /\ Idle /\ Calm
  /\ cr' = [cr EXCEPT !.reason = ls.reason, !.observed = ls.observed] /\ cur' = {}
  /\ read' = IF "worker" \in read THEN {"status"} ELSE read
  /\ UNCHANGED <<cache, deployed, releases>>

Store ==
  /\ pc = "store" /\ Idle
  /\ \/ Written /\ (Calm \/ Disturb("fault"))
     \/ "worker" \notin cur /\ Calm /\ UNCHANGED <<cr, cur, read>>
     \/ Disturb("fault") /\ UNCHANGED <<cr, cur, read>>
  /\ UNCHANGED <<cache, deployed, releases>>

-----------------------------------------------------------------------------
(* The other actors *)

CacheSync ==
  /\ "cache" \notin cur
  /\ cache' = cr
  /\ cur' = cur \cup {"cache"}
  /\ UNCHANGED <<cr, workerVars, deployed, read, releases, budget>>

\* The GEA takes up a version.
Confirm ==
  /\ \E f \in Flows :
       /\ deployed[f].current # deployed[f].desired
       /\ deployed' = [deployed EXCEPT ![f].current = deployed[f].desired]
  /\ UNCHANGED <<cr, cache, cur, workerVars, read, releases, budget>>

\* kubectl edit.
Edit ==
  /\ Disturb("edit")
  /\ \E list \in Lists \ {cr.list} :
       cr' = [cr EXCEPT !.list = list, !.observed = FALSE]
  /\ cur' = {}
  /\ UNCHANGED <<cache, workerVars, deployed, read, releases>>

\* Somebody releases a version in the Losant application.
OutsideRelease ==
  /\ Disturb("release")
  /\ \E f \in Flows : \E v \in Versions \ {deployed[f].desired} :
       /\ <<f, v>> \in Known
       /\ deployed' = [deployed EXCEPT ![f].desired = v]
  /\ read' = {}
  /\ releases' = NoReleases
  /\ UNCHANGED <<cr, cache, cur, workerVars>>

\* The manager dies and starts again.
Crash ==
  /\ Disturb("crash")
  /\ Idle
  /\ cache' = cr /\ cur' = {"cache"}
  /\ UNCHANGED <<cr, deployed, read, releases>>

SyncStep ==
  \/ Sync \/ StopEarlier \/ GetEdgeDeployments \/ ReleaseWorkflow \/ AwaitConfirmation
  \/ Summarise \/ Store

Next == SyncStep \/ CacheSync \/ Confirm \/ Edit \/ OutsideRelease \/ Crash

\* Syncs follow each other and the watch delivers.  Nothing is assumed of the GEA
\* or of people.
Fairness == WF_vars(SyncStep) /\ WF_vars(CacheSync)

Spec == Init /\ [][Next]_vars
FairSpec == Spec /\ Fairness

-----------------------------------------------------------------------------
(* Properties *)

\* The object, its copies, the deployments and the position in the list are what
\* ensureWorkflowDeployments and the CRD allow; a reason is one of the condition's.
TypeOK ==
  /\ cr \in Object /\ cache \in Object /\ ls \in Object
  /\ cur \subseteq {"cache", "worker"}
  /\ pc \in {"idle", "get", "release", "store"}
  /\ byFlowID \in [Flows -> [desired: Versions \cup {NoVersion}, current: Versions \cup {NoVersion}]]
  /\ deployed \in [Flows -> [desired: Versions \cup {NoVersion}, current: Versions \cup {NoVersion}]]
  /\ next \in Nat \ {0}
  /\ confirmed \in BOOLEAN
  /\ read \subseteq {"worker", "status"}
  /\ releases \in [Flows -> [Versions -> 0..2]]
  /\ budget \in Nat

Runs(list) ==
  \A i \in 1..Len(list) :
    deployed[list[i].flow] = [desired |-> list[i].version, current |-> list[i].version]

\* A condition that says Deployed of the present list tells the truth: the GEA
\* runs every version of the list, and no release is on its way.  It may be out
\* of date only when somebody else has released a version that no sync has seen
\* the deployments after.  A list that asks for two versions of one workflow is
\* therefore never called Deployed.
DeployedIsTrue ==
  cr.observed /\ cr.reason = "Deployed" /\ "status" \in read => Runs(cr.list)

Distinct(list) ==
  \A i, j \in 1..Len(list) : list[i].flow = list[j].flow => i = j

\* Syncs that work on one list release no version twice, unless somebody else
\* has released one in between, whatever answers get lost and wherever the
\* manager dies: each sync finds the desired versions the last one left.  (A list
\* that names a workflow twice has its versions released in turn, for ever.)
ReleasedOnce ==
  Distinct(ls.list) => \A f \in Flows, v \in Versions : releases[f][v] <= 1

Deployable(list) ==
  Distinct(list) /\ \A i \in 1..Len(list) : <<list[i].flow, list[i].version>> \in Known

Desired(list) == \A i \in 1..Len(list) : deployed[list[i].flow].desired = list[i].version

\* Every list that can be deployed is released, after whatever faults, crashes,
\* edits and releases of others.
ListIsReleased ==
  Deployable(cr.list) ~> (Desired(cr.list) \/ ~Deployable(cr.list))

RunsList == cr.list # <<>> /\ Runs(cr.list)

\* Once the GEA runs the versions of the list, the status gets to say so.
DeploymentIsReported == RunsList ~> ((cr.reason = "Deployed" /\ cr.observed) \/ ~RunsList)

-----------------------------------------------------------------------------
(* What makes DeployedIsTrue and ReleasedOnce inductive *)

\* As long as a sync has released nothing and nobody else has since it read the
\* deployments, they are as it read them, or further.
ReadingHolds ==
  pc = "release" /\ "worker" \in read /\ confirmed =>
    /\ \A f \in Flows :
         /\ deployed[f].desired = byFlowID[f].desired
         /\ byFlowID[f].current = byFlowID[f].desired => deployed[f].current = byFlowID[f].desired
    /\ \A i \in 1..Len(ls.list) : i < next =>
         byFlowID[ls.list[i].flow] =
           [desired |-> ls.list[i].version, current |-> ls.list[i].version]

\* A copy of the current version differs from it only by what this sync has set.
CopyHolds ==
  /\ "worker" \in cur => "cache" \in cur
  /\ "cache" \in cur => cache = cr
  /\ "worker" \in cur /\ pc # "idle" => ls.list = cr.list
  /\ "worker" \in cur /\ pc \in {"get", "release"} => ls = cr
  /\ "worker" \in cur /\ pc = "store" /\ ls # cr =>
       ls.reason # "Deployed" \/ "worker" \in read \/ "status" \notin read
  /\ pc = "get" => "worker" \notin read

\* What a sync is about to store is true.
ConclusionHolds ==
  pc = "store" /\ "worker" \in read /\ ls.observed /\ ls.reason = "Deployed" => Runs(ls.list)

\* A report on the present list is one that every copy of the object is about, and
\* what it says is what a sync has read since.
ReportHolds ==
  /\ cr.observed => cache.list = cr.list /\ (pc # "idle" => ls.list = cr.list)
  /\ pc = "release" /\ "status" \in read => "worker" \in read
  /\ pc = "release" /\ "status" \in read /\ cr.observed /\ cr.reason = "Deployed" =>
       \A i \in 1..Len(cr.list) :
         byFlowID[cr.list[i].flow].desired = cr.list[i].version

\* A version that was released is one of the list's, is still the desired one, and
\* the sync has read so or is past its entry.
ReleaseHolds ==
  Distinct(ls.list) =>
    \A f \in Flows, v \in Versions : releases[f][v] # 0 =>
      /\ releases[f][v] = 1
      /\ deployed[f].desired = v
      /\ \E i \in 1..Len(ls.list) :
           /\ ls.list[i] = [flow |-> f, version |-> v]
           /\ pc = "release" => byFlowID[f].desired = v \/ i < next

\* The six together are inductive.
WorkflowsInvariant ==
  /\ DeployedIsTrue
  /\ ReadingHolds
  /\ CopyHolds
  /\ ConclusionHolds
  /\ ReportHolds
  /\ ReleaseHolds

=============================================================================

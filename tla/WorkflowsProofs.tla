--------------------------- MODULE WorkflowsProofs ---------------------------
(* Theorems about Workflows, for every value of its constants. *)
EXTENDS Workflows, TLAPS

-----------------------------------------------------------------------------
(* Type correctness *)

\* The entries of a list name a workflow and a version.
LEMMA ListType ==
  ASSUME NEW list \in Lists
  PROVE  /\ Len(list) \in Nat
         /\ \A i \in 1..Len(list) :
              list[i] \in WorkflowDeployment /\ list[i].flow \in Flows /\ list[i].version \in Versions
<1>1. list \in Seq(WorkflowDeployment)
  BY WorkflowsAssumption
<1>2. Len(list) \in Nat /\ \A i \in 1..Len(list) : list[i] \in WorkflowDeployment
  BY <1>1
<1> QED BY <1>2 DEF WorkflowDeployment

\* What a sync sets, and what a user edits, is well-typed.
LEMMA UpdateTypes ==
  ASSUME NEW o \in Object
  PROVE  /\ \A r \in Reasons : [o EXCEPT !.reason = r, !.observed = TRUE] \in Object
         /\ \A list \in Lists : [o EXCEPT !.list = list, !.observed = FALSE] \in Object
  BY DEF Object

\* The entry a sync looks at names a workflow and a version.
LEMMA EntryType ==
  ASSUME TypeOK, next <= Len(ls.list)
  PROVE  /\ next \in 1..Len(ls.list)
         /\ Entry = ls.list[next]
         /\ Entry.flow \in Flows /\ Entry.version \in Versions
<1>1. ls.list \in Lists
  BY DEF TypeOK, Object
<1>2. Len(ls.list) \in Nat
  BY <1>1, ListType
<1>3. next \in 1..Len(ls.list)
  BY <1>2 DEF TypeOK
<1> QED BY <1>1, <1>3, ListType DEF Entry

LEMMA TypeInit == Init => TypeOK
<1> SUFFICES ASSUME Init PROVE TypeOK
  OBVIOUS
<1>1. cr \in Object
  BY DEF Init, Object, Reasons
<1>2. NoDeployments \in [Flows -> [desired: Versions \cup {NoVersion}, current: Versions \cup {NoVersion}]]
  BY DEF NoDeployments
<1>3. NoReleases \in [Flows -> [Versions -> 0..2]]
  BY DEF NoReleases
<1> QED BY <1>1, <1>2, <1>3, WorkflowsAssumption DEF Init, TypeOK

\* Conclusions keep the types of what they set.
LEMMA TypeConclude ==
  ASSUME TypeOK, NEW reason \in Reasons, Conclude(reason)
  PROVE  /\ pc' \in {"idle", "get", "release", "store"} /\ ls' \in Object
         /\ byFlowID' \in [Flows -> [desired: Versions \cup {NoVersion}, current: Versions \cup {NoVersion}]]
         /\ next' \in Nat \ {0} /\ confirmed' \in BOOLEAN
<1>1. ls' \in Object
  BY UpdateTypes DEF TypeOK, Conclude
<1> QED BY <1>1 DEF Conclude, Forget, NoDeployments

\* A release keeps the types of what it changes.
LEMMA TypeReleased ==
  ASSUME TypeOK, pc = "release", next <= Len(ls.list), Released
  PROVE  /\ deployed' \in [Flows -> [desired: Versions \cup {NoVersion}, current: Versions \cup {NoVersion}]]
         /\ releases' \in [Flows -> [Versions -> 0..2]]
<1>2. Entry.flow \in Flows /\ Entry.version \in Versions
  BY EntryType
<1>3. deployed' \in [Flows -> [desired: Versions \cup {NoVersion}, current: Versions \cup {NoVersion}]]
  BY <1>2 DEF TypeOK, Released
<1>4. releases' \in [Flows -> [Versions -> 0..2]]
  <2>1. \A n \in 0..2 : (IF n < 2 THEN n + 1 ELSE n) \in 0..2
    OBVIOUS
  <2> QED BY <1>2, <2>1 DEF TypeOK, Released
<1> QED BY <1>3, <1>4

LEMMA TypeBudget ==
  ASSUME TypeOK, NEW k, Disturb(k) \/ Calm
  PROVE  budget' \in Nat
  BY DEF TypeOK, Disturb, Calm

LEMMA TypeStep == TypeOK /\ [Next]_vars => TypeOK'
<1> SUFFICES ASSUME TypeOK, [Next]_vars PROVE TypeOK'
  OBVIOUS
<1>1. CASE Sync
  BY <1>1 DEF Sync, TypeOK, NoReleases
<1>2. CASE StopEarlier
  BY <1>2, TypeBudget DEF StopEarlier, TypeOK
<1>3. CASE GetEdgeDeployments
  <2>1. CASE Conclude("ReleaseFailed") /\ Disturb("fault") /\ UNCHANGED read
    <3>1. "ReleaseFailed" \in Reasons
      BY DEF Reasons
    <3> QED BY <1>3, <2>1, <3>1, TypeConclude, TypeBudget DEF GetEdgeDeployments, TypeOK
  <2>2. CASE /\ byFlowID' = deployed /\ next' = 1 /\ confirmed' = TRUE
             /\ pc' = "release" /\ read' = read \cup {"worker"} /\ Calm /\ UNCHANGED ls
    BY <1>3, <2>2 DEF GetEdgeDeployments, TypeOK, Calm
  <2> QED BY <1>3, <2>1, <2>2 DEF GetEdgeDeployments
<1>4. CASE ReleaseWorkflow
  <2>1. {"WorkflowNotFound", "ReleaseFailed"} \subseteq Reasons
    BY DEF Reasons
  <2>2. /\ deployed' \in [Flows -> [desired: Versions \cup {NoVersion}, current: Versions \cup {NoVersion}]]
        /\ releases' \in [Flows -> [Versions -> 0..2]]
    BY <1>4, TypeReleased DEF ReleaseWorkflow, TypeOK
  <2>3. budget' \in Nat
    BY <1>4, TypeBudget DEF ReleaseWorkflow
  <2>4. /\ pc' \in {"idle", "get", "release", "store"} /\ ls' \in Object
        /\ byFlowID' \in [Flows -> [desired: Versions \cup {NoVersion}, current: Versions \cup {NoVersion}]]
        /\ next' \in Nat \ {0} /\ confirmed' \in BOOLEAN
    <3>1. CASE Go(FALSE)
      BY <3>1 DEF Go, TypeOK
    <3>2. CASE Conclude("WorkflowNotFound") \/ Conclude("ReleaseFailed")
      BY <3>2, <2>1, TypeConclude
    <3> QED BY <1>4, <3>1, <3>2 DEF ReleaseWorkflow
  <2> QED BY <1>4, <2>2, <2>3, <2>4 DEF ReleaseWorkflow, TypeOK
<1>5. CASE AwaitConfirmation
  BY <1>5 DEF AwaitConfirmation, Go, TypeOK
<1>6. CASE Summarise
  <2>1. (IF confirmed THEN "Deployed" ELSE "DeploymentPending") \in Reasons
    BY DEF Reasons
  <2> QED BY <1>6, <2>1, TypeConclude DEF Summarise, TypeOK
<1>7. CASE Store
  <2>1. budget' \in Nat
    BY <1>7, TypeBudget DEF Store
  <2>2. cr' \in Object /\ cur' \subseteq {"cache", "worker"} /\ read' \subseteq {"worker", "status"}
    BY <1>7 DEF Store, Written, TypeOK
  <2> QED BY <1>7, <2>1, <2>2 DEF Store, Idle, Forget, NoDeployments, TypeOK
<1>8. CASE CacheSync
  BY <1>8 DEF CacheSync, workerVars, TypeOK
<1>9. CASE Confirm
  BY <1>9 DEF Confirm, workerVars, TypeOK
<1>10. CASE Edit
  <2>1. cr' \in Object
    <3>1. PICK list \in Lists : cr' = [cr EXCEPT !.list = list, !.observed = FALSE]
      BY <1>10 DEF Edit
    <3> QED BY <3>1, UpdateTypes DEF TypeOK
  <2> QED BY <1>10, <2>1, TypeBudget DEF Edit, workerVars, TypeOK
<1>11. CASE OutsideRelease
  BY <1>11, TypeBudget DEF OutsideRelease, workerVars, TypeOK, NoReleases
<1>12. CASE Crash
  BY <1>12, TypeBudget DEF Crash, Idle, Forget, NoDeployments, TypeOK
<1>13. CASE UNCHANGED vars
  BY <1>13 DEF vars, workerVars, TypeOK
<1> QED BY <1>1, <1>2, <1>3, <1>4, <1>5, <1>6, <1>7, <1>8, <1>9, <1>10, <1>11, <1>12, <1>13
        DEF Next, SyncStep

\* Every variable keeps its type; a condition never gets a reason the code does
\* not have.
THEOREM TypeCorrect == Spec => []TypeOK
  BY TypeInit, TypeStep, PTL DEF Spec

-----------------------------------------------------------------------------
(* The inductive invariant *)

LEMMA InvariantInit == Init => WorkflowsInvariant
<1> SUFFICES ASSUME Init PROVE WorkflowsInvariant
  OBVIOUS
<1>1. PICK list \in Lists : cr = [list |-> list, reason |-> "unset", observed |-> FALSE]
  BY DEF Init
<1>2. cr.observed = FALSE /\ pc = "idle" /\ cur = {"cache"} /\ cache = cr
  BY <1>1 DEF Init
<1>3. \A f \in Flows, v \in Versions : releases[f][v] = 0
  BY DEF Init, NoReleases
<1>4. DeployedIsTrue /\ ReadingHolds /\ ConclusionHolds
  BY <1>2 DEF DeployedIsTrue, ReadingHolds, ConclusionHolds
<1>5. CopyHolds /\ ReportHolds
  BY <1>2 DEF CopyHolds, ReportHolds
<1> QED BY <1>3, <1>4, <1>5 DEF ReleaseHolds, WorkflowsInvariant

\* A release changes the desired version of one workflow, and nothing else.
LEMMA ReleasedEffect ==
  ASSUME TypeOK, next <= Len(ls.list), Released
  PROVE  /\ \A f \in Flows : f # Entry.flow => deployed'[f] = deployed[f] /\ releases'[f] = releases[f]
         /\ deployed'[Entry.flow].desired = Entry.version
         /\ \A v \in Versions : v # Entry.version => releases'[Entry.flow][v] = releases[Entry.flow][v]
         /\ releases[Entry.flow][Entry.version] = 0 => releases'[Entry.flow][Entry.version] = 1
<1>1. Entry.flow \in Flows /\ Entry.version \in Versions
  BY EntryType
<1>2. deployed' = [deployed EXCEPT ![Entry.flow].desired = Entry.version]
  BY DEF Released
<1>3. /\ deployed'[Entry.flow].desired = Entry.version
      /\ \A f \in Flows : f # Entry.flow => deployed'[f] = deployed[f]
  BY <1>1, <1>2 DEF TypeOK
<1>4. releases' = [releases EXCEPT ![Entry.flow] =
                    [releases[Entry.flow] EXCEPT ![Entry.version] =
                      IF releases[Entry.flow][Entry.version] < 2
                        THEN releases[Entry.flow][Entry.version] + 1
                        ELSE releases[Entry.flow][Entry.version]]]
  BY DEF Released
<1>5. \A f \in Flows : f # Entry.flow => releases'[f] = releases[f]
  BY <1>1, <1>4 DEF TypeOK
<1>6. \A v \in Versions : v # Entry.version => releases'[Entry.flow][v] = releases[Entry.flow][v]
  BY <1>1, <1>4 DEF TypeOK
<1>7. releases[Entry.flow][Entry.version] = 0 => releases'[Entry.flow][Entry.version] = 1
  BY <1>1, <1>4 DEF TypeOK
<1> QED BY <1>3, <1>5, <1>6, <1>7
\* The GEA runs a list when desired and current version are those of each entry.
LEMMA RunsFields ==
  ASSUME TypeOK, NEW list \in Lists
  PROVE  Runs(list) <=>
           \A i \in 1..Len(list) : /\ deployed[list[i].flow].desired = list[i].version
                                   /\ deployed[list[i].flow].current = list[i].version
<1>1. ASSUME NEW i \in 1..Len(list)
      PROVE  deployed[list[i].flow] = [desired |-> list[i].version, current |-> list[i].version] <=>
               /\ deployed[list[i].flow].desired = list[i].version
               /\ deployed[list[i].flow].current = list[i].version
  <2>1. deployed[list[i].flow] \in [desired: Versions \cup {NoVersion}, current: Versions \cup {NoVersion}]
    BY ListType DEF TypeOK
  <2> QED BY <2>1
<1> QED BY <1>1 DEF Runs

\* Copies.  A sync that concludes "Deployed" has read the deployments, or nothing in
\* the status counts as read.
LEMMA CopyStep ==
  ASSUME TypeOK, CopyHolds, ReportHolds, [Next]_vars
  PROVE  CopyHolds'
<1>1. CASE Sync
  BY <1>1 DEF Sync, CopyHolds
<1>2. CASE StopEarlier
  BY <1>2 DEF StopEarlier, CopyHolds
<1>3. CASE GetEdgeDeployments
  <2>1. CASE Conclude("ReleaseFailed")
    <3>1. ls'.reason = "ReleaseFailed" /\ ls'.list = ls.list
      BY <2>1 DEF Conclude, TypeOK, Object
    <3> QED BY <1>3, <2>1, <3>1 DEF GetEdgeDeployments, Conclude, CopyHolds
  <2>2. CASE pc' = "release" /\ UNCHANGED ls
    BY <1>3, <2>2 DEF GetEdgeDeployments, CopyHolds
  <2> QED BY <1>3, <2>1, <2>2 DEF GetEdgeDeployments
<1>4. CASE ReleaseWorkflow
  <2>1. ASSUME NEW reason \in {"WorkflowNotFound", "ReleaseFailed"}, Conclude(reason)
        PROVE  CopyHolds'
    <3>1. ls'.reason = reason /\ ls'.list = ls.list
      BY <2>1 DEF Conclude, TypeOK, Object
    <3> QED BY <1>4, <2>1, <3>1 DEF ReleaseWorkflow, Conclude, CopyHolds
  <2>2. CASE Go(FALSE)
    BY <1>4, <2>2 DEF ReleaseWorkflow, Go, CopyHolds
  <2> QED BY <1>4, <2>1, <2>2 DEF ReleaseWorkflow
<1>5. CASE AwaitConfirmation
  BY <1>5 DEF AwaitConfirmation, Go, CopyHolds
<1>6. CASE Summarise
  <2>1. ls'.list = ls.list
    BY <1>6 DEF Summarise, Conclude, TypeOK, Object
  <2> QED BY <1>6, <2>1 DEF Summarise, Conclude, CopyHolds, ReportHolds
<1>7. CASE Store
  BY <1>7 DEF Store, Idle, Written, CopyHolds
<1>8. CASE CacheSync
  BY <1>8 DEF CacheSync, workerVars, CopyHolds
<1>9. CASE Confirm
  BY <1>9 DEF Confirm, workerVars, CopyHolds
<1>10. CASE Edit
  BY <1>10 DEF Edit, workerVars, CopyHolds
<1>11. CASE OutsideRelease
  BY <1>11 DEF OutsideRelease, workerVars, CopyHolds
<1>12. CASE Crash
  BY <1>12 DEF Crash, Idle, CopyHolds
<1>13. CASE UNCHANGED vars
  BY <1>13 DEF vars, workerVars, CopyHolds
<1> QED BY <1>1, <1>2, <1>3, <1>4, <1>5, <1>6, <1>7, <1>8, <1>9, <1>10, <1>11, <1>12, <1>13
        DEF Next, SyncStep

\* Reports.  Only a write of the current version reports on the present list, and
\* an edit takes the report back.
LEMMA ReportStep ==
  ASSUME TypeOK, DeployedIsTrue, CopyHolds, ReportHolds, [Next]_vars
  PROVE  ReportHolds'
<1>1. CASE Sync
  BY <1>1 DEF Sync, ReportHolds
<1>2. CASE StopEarlier
  BY <1>2 DEF StopEarlier, ReportHolds
<1>3. CASE GetEdgeDeployments
  <2>1. CASE Conclude("ReleaseFailed")
    <3>1. ls'.list = ls.list
      BY <2>1 DEF Conclude, TypeOK, Object
    <3> QED BY <1>3, <2>1, <3>1 DEF GetEdgeDeployments, Conclude, ReportHolds
  <2>2. CASE pc' = "release" /\ byFlowID' = deployed /\ UNCHANGED ls /\ read' = read \cup {"worker"}
    <3>1. cr.observed /\ cr.reason = "Deployed" /\ "status" \in read =>
            \A i \in 1..Len(cr.list) : deployed[cr.list[i].flow].desired = cr.list[i].version
      BY RunsFields DEF DeployedIsTrue, TypeOK, Object
    <3> QED BY <1>3, <2>2, <3>1 DEF GetEdgeDeployments, ReportHolds
  <2> QED BY <1>3, <2>1, <2>2 DEF GetEdgeDeployments
<1>4. CASE ReleaseWorkflow
  <2>1. ASSUME NEW reason \in {"WorkflowNotFound", "ReleaseFailed"}, Conclude(reason)
        PROVE  ReportHolds'
    <3>1. ls'.list = ls.list
      BY <2>1 DEF Conclude, TypeOK, Object
    <3> QED BY <1>4, <2>1, <3>1 DEF ReleaseWorkflow, Conclude, ReportHolds
  <2>2. CASE Go(FALSE)
    BY <1>4, <2>2 DEF ReleaseWorkflow, Go, ReportHolds
  <2> QED BY <1>4, <2>1, <2>2 DEF ReleaseWorkflow
<1>5. CASE AwaitConfirmation
  BY <1>5 DEF AwaitConfirmation, Go, ReportHolds
<1>6. CASE Summarise
  <2>1. ls'.list = ls.list
    BY <1>6 DEF Summarise, Conclude, TypeOK, Object
  <2> QED BY <1>6, <2>1 DEF Summarise, Conclude, ReportHolds
<1>7. CASE Store
  BY <1>7 DEF Store, Idle, Written, CopyHolds, ReportHolds
<1>8. CASE CacheSync
  BY <1>8 DEF CacheSync, workerVars, ReportHolds
<1>9. CASE Confirm
  BY <1>9 DEF Confirm, workerVars, ReportHolds
<1>10. CASE Edit
  <2>1. cr'.observed = FALSE
    BY <1>10 DEF Edit, TypeOK, Object
  <2> QED BY <1>10, <2>1 DEF Edit, workerVars, ReportHolds
<1>11. CASE OutsideRelease
  BY <1>11 DEF OutsideRelease, workerVars, ReportHolds
<1>12. CASE Crash
  BY <1>12 DEF Crash, Idle, ReportHolds
<1>13. CASE UNCHANGED vars
  BY <1>13 DEF vars, workerVars, ReportHolds
<1> QED BY <1>1, <1>2, <1>3, <1>4, <1>5, <1>6, <1>7, <1>8, <1>9, <1>10, <1>11, <1>12, <1>13
        DEF Next, SyncStep
\* A list that the GEA runs stays one when it takes up a version, and as long as
\* the deployments stay as they are.
LEMMA RunsKept ==
  ASSUME TypeOK, NEW list \in Lists, Runs(list), Confirm \/ UNCHANGED deployed
  PROVE  \A i \in 1..Len(list) :
           deployed'[list[i].flow] = [desired |-> list[i].version, current |-> list[i].version]
<1>1. CASE UNCHANGED deployed
  BY <1>1 DEF Runs
<1>2. CASE Confirm
  <2>1. PICK f \in Flows : /\ deployed[f].current # deployed[f].desired
                           /\ deployed' = [deployed EXCEPT ![f].current = deployed[f].desired]
    BY <1>2 DEF Confirm
  <2>2. \A i \in 1..Len(list) : list[i].flow # f
    BY <2>1, RunsFields
  <2>3. \A g \in Flows : g # f => deployed'[g] = deployed[g]
    BY <2>1 DEF TypeOK
  <2> QED BY <2>2, <2>3, ListType DEF Runs
<1> QED BY <1>1, <1>2

\* A sync releases nothing of a list that the status rightly calls deployed.
LEMMA NothingToRelease ==
  ASSUME TypeOK, ReportHolds, ReleaseWorkflow,
         cr.observed, cr.reason = "Deployed", "status" \in read
  PROVE  FALSE
<1>1. pc = "release" /\ next <= Len(ls.list) /\ byFlowID[Entry.flow].desired # Entry.version
  BY DEF ReleaseWorkflow
<1>2. ls.list = cr.list
  BY <1>1 DEF ReportHolds
<1>3. byFlowID[Entry.flow].desired = Entry.version
  BY <1>1, <1>2, EntryType DEF ReportHolds
<1> QED BY <1>1, <1>3

LEMMA DeployedStep ==
  ASSUME TypeOK, WorkflowsInvariant, [Next]_vars
  PROVE  DeployedIsTrue'
<1> USE DEF WorkflowsInvariant
<1> SUFFICES ASSUME cr'.observed, cr'.reason = "Deployed", "status" \in read'
             PROVE  \A i \in 1..Len(cr'.list) :
                      deployed'[cr'.list[i].flow] =
                        [desired |-> cr'.list[i].version, current |-> cr'.list[i].version]
  BY DEF DeployedIsTrue, Runs
<1>1. cr.list \in Lists /\ ls.list \in Lists
  BY DEF TypeOK, Object
<1>2. ASSUME UNCHANGED cr, "status" \in read' => "status" \in read, Confirm \/ UNCHANGED deployed
      PROVE  \A i \in 1..Len(cr'.list) :
               deployed'[cr'.list[i].flow] =
                 [desired |-> cr'.list[i].version, current |-> cr'.list[i].version]
  <2>1. Runs(cr.list)
    BY <1>2 DEF DeployedIsTrue
  <2> QED BY <1>1, <1>2, <2>1, RunsKept
<1>3. CASE \/ Sync \/ StopEarlier \/ GetEdgeDeployments \/ AwaitConfirmation \/ Summarise
           \/ CacheSync \/ Confirm \/ Crash \/ UNCHANGED vars
  <2>1. CASE Confirm
    BY <1>2, <2>1 DEF Confirm
  <2>2. CASE ~Confirm
    <3>1. UNCHANGED <<cr, deployed>> /\ read' \subseteq read \cup {"worker"}
      BY <1>3, <2>2 DEF Sync, StopEarlier, GetEdgeDeployments, AwaitConfirmation, Summarise,
                        CacheSync, Crash, vars
    <3> QED BY <1>2, <3>1
  <2> QED BY <2>1, <2>2
<1>4. CASE ReleaseWorkflow
  BY <1>4, NothingToRelease DEF ReleaseWorkflow
<1>5. CASE Store
  <2>1. CASE Written
    <3>1. UNCHANGED deployed /\ cr' = ls /\ pc = "store" /\ "worker" \in cur
      BY <1>5, <2>1 DEF Store, Written
    <3>2. CASE "worker" \in read
      <4>1. Runs(ls.list)
        BY <3>1, <3>2 DEF ConclusionHolds
      <4> QED BY <1>1, <3>1, <4>1, RunsKept
    <3>3. CASE "worker" \notin read
      <4>1. read' = read
        BY <2>1, <3>3 DEF Written
      <4>2. ls = cr
        BY <3>1, <3>3, <4>1 DEF CopyHolds
      <4> QED BY <1>2, <3>1, <4>1, <4>2
    <3> QED BY <3>2, <3>3
  <2>2. CASE UNCHANGED <<cr, cur, read>>
    BY <1>2, <1>5, <2>2 DEF Store
  <2> QED BY <1>5, <2>1, <2>2 DEF Store
<1>6. CASE Edit
  BY <1>6 DEF Edit, TypeOK, Object
<1>7. CASE OutsideRelease
  BY <1>7 DEF OutsideRelease
<1> QED BY <1>3, <1>4, <1>5, <1>6, <1>7 DEF Next, SyncStep

\* What a sync concludes is true because its reading is, and stays true until it is
\* stored or somebody else releases a version.
LEMMA ConclusionStep ==
  ASSUME TypeOK, WorkflowsInvariant, [Next]_vars
  PROVE  ConclusionHolds'
<1> USE DEF WorkflowsInvariant
<1> SUFFICES ASSUME pc' = "store", "worker" \in read', ls'.observed, ls'.reason = "Deployed"
             PROVE  \A i \in 1..Len(ls'.list) :
                      deployed'[ls'.list[i].flow] =
                        [desired |-> ls'.list[i].version, current |-> ls'.list[i].version]
  BY DEF ConclusionHolds, Runs
<1>1. ls.list \in Lists
  BY DEF TypeOK, Object
<1>2. CASE \/ CacheSync \/ Confirm \/ Edit \/ UNCHANGED vars
  <2>1. UNCHANGED <<pc, ls, read>> /\ (Confirm \/ UNCHANGED deployed)
    BY <1>2 DEF CacheSync, Confirm, Edit, vars, workerVars
  <2>2. Runs(ls.list)
    BY <2>1 DEF ConclusionHolds
  <2> QED BY <1>1, <2>1, <2>2, RunsKept
<1>3. CASE Sync \/ StopEarlier \/ AwaitConfirmation \/ Store \/ Crash \/ OutsideRelease
  BY <1>3 DEF Sync, StopEarlier, AwaitConfirmation, Go, Store, Crash, Idle, OutsideRelease, CopyHolds
<1>4. CASE GetEdgeDeployments
  BY <1>4 DEF GetEdgeDeployments, Conclude, TypeOK, Object
<1>5. CASE ReleaseWorkflow
  BY <1>5 DEF ReleaseWorkflow, Conclude, Go, TypeOK, Object
<1>6. CASE Summarise
  <2>1. /\ ls'.list = ls.list /\ UNCHANGED <<deployed, read>> /\ pc = "release"
        /\ ls'.reason = (IF confirmed THEN "Deployed" ELSE "DeploymentPending")
        /\ next > Len(ls.list)
    BY <1>6 DEF Summarise, Conclude, TypeOK, Object
  <2>2. confirmed
    BY <2>1
  <2>3. \A i \in 1..Len(ls.list) : i < next
    BY <1>1, <2>1, ListType DEF TypeOK
  <2>4. \A i \in 1..Len(ls.list) :
          /\ deployed[ls.list[i].flow].desired = ls.list[i].version
          /\ deployed[ls.list[i].flow].current = ls.list[i].version
    <3> TAKE i \in 1..Len(ls.list)
    <3>1. ls.list[i].flow \in Flows
      BY <1>1, ListType
    <3>2. byFlowID[ls.list[i].flow] = [desired |-> ls.list[i].version, current |-> ls.list[i].version]
      BY <2>1, <2>2, <2>3 DEF ReadingHolds
    <3>3. /\ byFlowID[ls.list[i].flow].desired = ls.list[i].version
          /\ byFlowID[ls.list[i].flow].current = ls.list[i].version
      BY <3>2
    <3> QED BY <2>1, <2>2, <3>1, <3>3 DEF ReadingHolds
  <2>5. Runs(ls.list)
    BY <1>1, <2>4, RunsFields
  <2> QED BY <1>1, <2>1, <2>5, RunsKept
<1> QED BY <1>2, <1>3, <1>4, <1>5, <1>6 DEF Next, SyncStep
\* The reading of a sync that has released nothing stays true: only the GEA moves,
\* towards the desired versions.
LEMMA ReadingStep ==
  ASSUME TypeOK, WorkflowsInvariant, [Next]_vars
  PROVE  ReadingHolds'
<1> SUFFICES ASSUME pc' = "release", "worker" \in read', confirmed'
             PROVE  ReadingHolds'
  BY DEF ReadingHolds
<1>1. ReadingHolds
  BY DEF WorkflowsInvariant
<1>2. ls.list \in Lists
  BY DEF TypeOK, Object
<1>3. CASE CacheSync \/ Edit \/ UNCHANGED vars
  BY <1>1, <1>3 DEF CacheSync, Edit, vars, workerVars, ReadingHolds
<1>4. CASE \/ Sync \/ StopEarlier \/ Summarise \/ Store \/ Crash \/ OutsideRelease
  BY <1>4 DEF Sync, StopEarlier, Summarise, Conclude, Store, Crash, Idle, OutsideRelease
<1>5. CASE GetEdgeDeployments
  <2>1. byFlowID' = deployed /\ next' = 1 /\ UNCHANGED <<ls, deployed>>
    BY <1>5 DEF GetEdgeDeployments, Conclude
  <2>2. \A i \in 1..Len(ls.list) : ~(i < 1)
    BY <1>2, ListType
  <2> QED BY <2>1, <2>2 DEF ReadingHolds
<1>6. CASE ReleaseWorkflow
  BY <1>6 DEF ReleaseWorkflow, Conclude, Go
<1>7. CASE AwaitConfirmation
  <2>1. /\ pc = "release" /\ "worker" \in read /\ confirmed
        /\ next <= Len(ls.list) /\ next' = next + 1
        /\ UNCHANGED <<ls, byFlowID, deployed>>
        /\ byFlowID[Entry.flow].desired = Entry.version
        /\ byFlowID[Entry.flow].current = Entry.version
    BY <1>7 DEF AwaitConfirmation, Go
  <2>2. Entry = ls.list[next] /\ Entry.flow \in Flows
    BY <2>1, EntryType
  <2>3. byFlowID[Entry.flow] = [desired |-> Entry.version, current |-> Entry.version]
    BY <2>1, <2>2 DEF TypeOK
  <2>4. \A i \in 1..Len(ls.list) : i < next + 1 => i < next \/ i = next
    BY <1>2, ListType DEF TypeOK
  <2>5. \A i \in 1..Len(ls.list) : i < next' =>
          byFlowID[ls.list[i].flow] = [desired |-> ls.list[i].version, current |-> ls.list[i].version]
    BY <1>1, <2>1, <2>2, <2>3, <2>4 DEF ReadingHolds
  <2> QED BY <1>1, <2>1, <2>5 DEF ReadingHolds
<1>8. CASE Confirm
  <2>1. PICK f \in Flows : deployed' = [deployed EXCEPT ![f].current = deployed[f].desired]
    BY <1>8 DEF Confirm
  <2>2. UNCHANGED <<pc, ls, byFlowID, next, confirmed, read>>
    BY <1>8 DEF Confirm, workerVars
  <2>3. \A g \in Flows : /\ deployed'[g].desired = deployed[g].desired
                          /\ \/ deployed'[g].current = deployed[g].current
                             \/ deployed'[g].current = deployed[g].desired
    BY <2>1 DEF TypeOK
  <2>4. \A g \in Flows :
          /\ deployed'[g].desired = byFlowID[g].desired
          /\ byFlowID[g].current = byFlowID[g].desired => deployed'[g].current = byFlowID[g].desired
    BY <1>1, <2>2, <2>3 DEF ReadingHolds
  <2> QED BY <1>1, <2>2, <2>4 DEF ReadingHolds
<1> QED BY <1>3, <1>4, <1>5, <1>6, <1>7, <1>8 DEF Next, SyncStep

\* A sync releases a version only when it has not been since syncs work on the list,
\* and no other version of the workflow either.
LEMMA FirstRelease ==
  ASSUME TypeOK, ReleaseHolds, pc = "release", next <= Len(ls.list), Distinct(ls.list),
         byFlowID[Entry.flow].desired # Entry.version
  PROVE  \A v \in Versions : releases[Entry.flow][v] = 0
<1> SUFFICES ASSUME NEW v \in Versions, releases[Entry.flow][v] # 0 PROVE FALSE
  OBVIOUS
<1>1. next \in 1..Len(ls.list) /\ Entry = ls.list[next] /\ Entry.flow \in Flows
  BY EntryType
<1>2. PICK i \in 1..Len(ls.list) :
        /\ ls.list[i] = [flow |-> Entry.flow, version |-> v]
        /\ byFlowID[Entry.flow].desired = v \/ i < next
  BY <1>1 DEF ReleaseHolds
<1>3. ls.list[i].flow = Entry.flow /\ ls.list[i].version = v
  BY <1>2
<1>4. i = next
  BY <1>1, <1>3 DEF Distinct
<1>5. ~(i < next)
  BY <1>4 DEF TypeOK
<1> QED BY <1>1, <1>2, <1>3, <1>4, <1>5
LEMMA ReleaseStep ==
  ASSUME TypeOK, TypeOK', ReleaseHolds, [Next]_vars
  PROVE  ReleaseHolds'
<1> SUFFICES ASSUME Distinct(ls'.list),
                    NEW f \in Flows, NEW v \in Versions, releases'[f][v] # 0
             PROVE  /\ releases'[f][v] = 1
                    /\ deployed'[f].desired = v
                    /\ \E i \in 1..Len(ls'.list) :
                         /\ ls'.list[i] = [flow |-> f, version |-> v]
                         /\ pc' = "release" => byFlowID'[f].desired = v \/ i < next'
  BY DEF ReleaseHolds, Distinct
<1> DEFINE Before == releases[f][v] # 0 /\ Distinct(ls.list)
<1>1. Before => /\ releases[f][v] = 1
                /\ deployed[f].desired = v
                /\ \E i \in 1..Len(ls.list) :
                     /\ ls.list[i] = [flow |-> f, version |-> v]
                     /\ pc = "release" => byFlowID[f].desired = v \/ i < next
  BY DEF ReleaseHolds
<1>2. ASSUME ls'.list = ls.list, releases' = releases, deployed'[f].desired = deployed[f].desired,
             \/ pc' # "release"
             \/ byFlowID' = deployed
             \/ pc = "release" /\ byFlowID' = byFlowID /\ next' \in {next, next + 1}
      PROVE  /\ releases'[f][v] = 1
             /\ deployed'[f].desired = v
             /\ \E i \in 1..Len(ls'.list) :
                  /\ ls'.list[i] = [flow |-> f, version |-> v]
                  /\ pc' = "release" => byFlowID'[f].desired = v \/ i < next'
  <2>1. Before
    BY <1>2
  <2>2. PICK i \in 1..Len(ls.list) :
          /\ ls.list[i] = [flow |-> f, version |-> v]
          /\ pc = "release" => byFlowID[f].desired = v \/ i < next
    BY <1>1, <2>1
  <2>3. i < next => i < next + 1
    BY DEF TypeOK
  <2>4. pc' = "release" => byFlowID'[f].desired = v \/ i < next'
    BY <1>1, <1>2, <2>1, <2>2, <2>3
  <2> QED BY <1>1, <1>2, <2>1, <2>2, <2>4
<1> HIDE DEF Before
<1>3. CASE StopEarlier \/ CacheSync \/ Edit \/ Store \/ Crash \/ AwaitConfirmation \/ UNCHANGED vars
  BY <1>2, <1>3 DEF StopEarlier, CacheSync, Edit, Store, Crash, Idle, AwaitConfirmation, Go,
                    vars, workerVars
<1>4. CASE Sync
  <2>1. cache.list = ls.list
    BY <1>4 DEF Sync, NoReleases
  <2> QED BY <1>2, <1>4, <2>1 DEF Sync
<1>5. CASE GetEdgeDeployments \/ Summarise
  <2>1. ls'.list = ls.list
    BY <1>5 DEF GetEdgeDeployments, Summarise, Conclude, TypeOK, Object
  <2> QED BY <1>2, <1>5, <2>1 DEF GetEdgeDeployments, Summarise, Conclude
<1>6. CASE Confirm
  <2>1. deployed'[f].desired = deployed[f].desired
    BY <1>6 DEF Confirm, TypeOK
  <2> QED BY <1>2, <1>6, <2>1 DEF Confirm, workerVars
<1>7. CASE OutsideRelease
  BY <1>7 DEF OutsideRelease, NoReleases
<1>8. CASE ReleaseWorkflow
  <2>1. /\ pc = "release" /\ next <= Len(ls.list)
        /\ byFlowID[Entry.flow].desired # Entry.version
    BY <1>8 DEF ReleaseWorkflow
  <2>2. ls'.list = ls.list
    BY <1>8 DEF ReleaseWorkflow, Conclude, Go, TypeOK, Object
  <2>3. pc' # "release" \/ (byFlowID' = byFlowID /\ next' = next + 1)
    BY <1>8 DEF ReleaseWorkflow, Conclude, Go
  <2>4. CASE UNCHANGED <<deployed, releases>>
    BY <1>2, <2>1, <2>2, <2>3, <2>4
  <2>5. CASE Released
    <3>1. \A w \in Versions : releases[Entry.flow][w] = 0
      BY <2>1, <2>2, FirstRelease
    <3>2. next \in 1..Len(ls.list) /\ Entry = ls.list[next]
          /\ Entry.flow \in Flows /\ Entry.version \in Versions
      BY <2>1, EntryType
    <3>3. CASE f = Entry.flow
      <4>1. v = Entry.version
        BY <2>1, <2>5, <3>1, <3>3, ReleasedEffect
      <4>2. releases'[f][v] = 1 /\ deployed'[f].desired = v
        BY <2>1, <2>5, <3>1, <3>2, <3>3, <4>1, ReleasedEffect
      <4>3. ls.list[next] = [flow |-> f, version |-> v]
        <5>1. ls.list \in Lists
          BY DEF TypeOK, Object
        <5>2. ls.list[next] \in WorkflowDeployment
          BY <3>2, <5>1, ListType
        <5> QED BY <3>2, <3>3, <4>1, <5>2 DEF WorkflowDeployment
      <4>4. next < next + 1
        BY DEF TypeOK
      <4> QED BY <2>2, <2>3, <3>2, <4>2, <4>3, <4>4
    <3>4. CASE f # Entry.flow
      <4>1. deployed'[f] = deployed[f] /\ releases'[f] = releases[f]
        BY <2>1, <2>5, <3>4, ReleasedEffect
      <4>2. Before
        BY <2>2, <4>1 DEF Before
      <4>3. PICK i \in 1..Len(ls.list) :
              /\ ls.list[i] = [flow |-> f, version |-> v]
              /\ byFlowID[f].desired = v \/ i < next
        BY <1>1, <2>1, <4>2
      <4>4. i < next => i < next + 1
        BY DEF TypeOK
      <4>5. pc' = "release" => byFlowID'[f].desired = v \/ i < next'
        BY <2>3, <4>3, <4>4
      <4> QED BY <1>1, <2>2, <4>1, <4>2, <4>3, <4>5
    <3> QED BY <3>3, <3>4
  <2> QED BY <1>8, <2>4, <2>5 DEF ReleaseWorkflow
<1> QED BY <1>3, <1>4, <1>5, <1>6, <1>7, <1>8 DEF Next, SyncStep

-----------------------------------------------------------------------------
(* The theorems *)

LEMMA InvariantStep ==
  TypeOK /\ TypeOK' /\ WorkflowsInvariant /\ [Next]_vars => WorkflowsInvariant'
<1> SUFFICES ASSUME TypeOK, TypeOK', WorkflowsInvariant, [Next]_vars PROVE WorkflowsInvariant'
  OBVIOUS
<1>1. DeployedIsTrue' /\ ReadingHolds' /\ ConclusionHolds'
  BY DeployedStep, ReadingStep, ConclusionStep
<1>2. CopyHolds' /\ ReportHolds' /\ ReleaseHolds'
  BY CopyStep, ReportStep, ReleaseStep DEF WorkflowsInvariant
<1> QED BY <1>1, <1>2 DEF WorkflowsInvariant

\* What a sync has read, what it is about to conclude and what the status says of the
\* workflows agree with Losant after every step, whatever lists, calls that fail,
\* crashes, edits and releases of others come between.
THEOREM InvariantHolds == Spec => []WorkflowsInvariant
  BY TypeCorrect, InvariantInit, InvariantStep, PTL DEF Spec

\* A status that says Deployed of the present list is right, whatever the lists,
\* the calls that fail, the crashes, edits and releases of others.
THEOREM StatusIsTrue == Spec => []DeployedIsTrue
<1>1. WorkflowsInvariant => DeployedIsTrue
  BY DEF WorkflowsInvariant
<1> QED BY <1>1, InvariantHolds, PTL

\* Syncs release each version of a list once.
THEOREM NothingReleasedTwice == Spec => []ReleasedOnce
<1>1. TypeOK /\ WorkflowsInvariant => ReleasedOnce
  <2> SUFFICES ASSUME TypeOK, WorkflowsInvariant, Distinct(ls.list),
                      NEW f \in Flows, NEW v \in Versions
               PROVE  releases[f][v] <= 1
    BY DEF ReleasedOnce
  <2>1. releases[f][v] = 0 \/ releases[f][v] = 1
    BY DEF WorkflowsInvariant, ReleaseHolds
  <2> QED BY <2>1
<1> QED BY <1>1, TypeCorrect, InvariantHolds, PTL
=============================================================================

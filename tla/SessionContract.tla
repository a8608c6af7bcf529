-------------------------- MODULE SessionContract --------------------------
(***************************************************************************)
(* What a RancherSession promises to whoever reads its status: how its     *)
(* phase is tied to the two things it leaves outside the API server, the   *)
(* cluster record it has stored the identifier of and the cattle-system    *)
(* namespace.  The reconciler, its queue, its cache and its copies are     *)
(* gone; every step below happens at once.                                 *)
(***************************************************************************)

VARIABLES
  phase,       \* status.phase, "New" before there is one, "None" without a session
  leaving,     \* the session is being deleted
  registered,  \* Rancher has the recorded cluster
  installed    \* cattle-system is there, and not on its way out

vars == <<phase, leaving, registered, installed>>

Phases == {"None", "New", "Connecting", "Connected", "Disconnecting", "Disconnected", "Failed"}

Init ==
  /\ phase = "New"
  /\ leaving = FALSE
  /\ registered = FALSE
  /\ installed = FALSE

\* The session is asked for.
Request ==
  /\ phase = "None"
  /\ phase' = "New"
  /\ UNCHANGED <<leaving, registered, installed>>

Connect ==
  /\ phase = "New" /\ ~leaving
  /\ phase' = "Connecting"
  /\ UNCHANGED <<leaving, registered, installed>>

\* The identifier of a record is stored, which Rancher may have lost by then.
Register ==
  /\ phase = "Connecting" /\ ~leaving
  /\ registered' \in BOOLEAN
  /\ UNCHANGED <<phase, leaving, installed>>

\* The record goes, in the cleanup or by somebody's hand.
Deregister ==
  /\ registered
  /\ registered' = FALSE
  /\ UNCHANGED <<phase, leaving, installed>>

\* The manifest may be applied although the deletion has begun.
Install ==
  /\ phase = "Connecting"
  /\ installed' = TRUE
  /\ UNCHANGED <<phase, leaving, registered>>

Establish ==
  /\ phase = "Connecting" /\ ~leaving
  /\ phase' = "Connected"
  /\ UNCHANGED <<leaving, registered, installed>>

Fail ==
  /\ phase # "None" /\ ~leaving
  /\ phase' = "Failed"
  /\ registered' \in IF phase = "Connecting" THEN BOOLEAN ELSE {registered}
  /\ UNCHANGED <<leaving, installed>>

\* Somebody deletes the session; a new one may have no finalizer yet.
Leave ==
  /\ phase # "None" /\ ~leaving
  /\ \/ leaving' = TRUE /\ UNCHANGED <<phase, registered>>
     \/ phase = "New" /\ phase' = "None" /\ registered' = FALSE /\ UNCHANGED leaving
  /\ UNCHANGED installed

BeginCleanup ==
  /\ phase = "Connected" \/ leaving
  /\ phase' = "Disconnecting"
  /\ UNCHANGED <<leaving, registered, installed>>

Uninstall ==
  /\ leaving \/ phase = "Disconnecting"
  /\ installed' = FALSE
  /\ UNCHANGED <<phase, leaving, registered>>

Close ==
  /\ phase = "Disconnecting" /\ ~registered /\ ~installed
  /\ phase' = "Disconnected"
  /\ UNCHANGED <<leaving, registered, installed>>

\* The record may stay behind: without credentials nobody can delete it.
Remove ==
  /\ leaving /\ ~installed
  /\ phase' = "None" /\ leaving' = FALSE /\ registered' = FALSE
  /\ UNCHANGED installed

Next ==
  \/ Request \/ Connect \/ Register \/ Deregister \/ Install \/ Establish \/ Fail
  \/ Leave \/ BeginCleanup \/ Uninstall \/ Close \/ Remove

Spec == Init /\ [][Next]_vars

=============================================================================

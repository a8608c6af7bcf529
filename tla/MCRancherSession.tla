-------------------------- MODULE MCRancherSession --------------------------
(* RancherSession for TLC. *)
EXTENDS RancherSession
=============================================================================

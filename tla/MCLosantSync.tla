---------------------------- MODULE MCLosantSync ----------------------------
(* LosantSync for TLC *)
EXTENDS LosantSync
=============================================================================

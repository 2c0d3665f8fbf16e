---------------------------- MODULE MCManagerLog ----------------------------
(* Model values for ManagerLog. *)
EXTENDS ManagerLog
=============================================================================

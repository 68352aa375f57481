----------------------------- MODULE MCServer -----------------------------
(* The run of Server. *)
EXTENDS Server
============================================================================

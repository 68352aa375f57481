------------------------------- MODULE MCCash -------------------------------
(* The run of Cash. *)
EXTENDS Cash
=============================================================================

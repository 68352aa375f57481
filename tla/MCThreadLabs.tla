---------------------------- MODULE MCThreadLabs ----------------------------
(* The run of ThreadLabs: the sizes of the exercises. *)
EXTENDS ThreadLabs
=============================================================================

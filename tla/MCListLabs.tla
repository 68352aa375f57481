----------------------------- MODULE MCListLabs -----------------------------
(* The run of ListLabs. *)
EXTENDS ListLabs
=============================================================================

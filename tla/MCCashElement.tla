---------------------------- MODULE MCCashElement ----------------------------
(* The runs of CashElement. *)
EXTENDS CashElement
=============================================================================

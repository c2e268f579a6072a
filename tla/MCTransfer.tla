----------------------------- MODULE MCTransfer -----------------------------
(* TLC instance of Transfer: all constants are numbers or model values. *)
EXTENDS Transfer
=============================================================================

------------------------------ MODULE MCHandle ------------------------------
(* TLC instances of Handle. *)
EXTENDS Handle
=============================================================================

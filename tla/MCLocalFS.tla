------------------------------ MODULE MCLocalFS ------------------------------
(* Two agents and a writer from outside on one file. *)
EXTENDS LocalFS
=============================================================================

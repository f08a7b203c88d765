---------------------------- MODULE MCFencedLog ----------------------------
(* TLC instances of FencedLog: one with every lease, ID and expiry race, one  *)
(* for the checkpoint window.                                                 *)
EXTENDS FencedLog
=============================================================================

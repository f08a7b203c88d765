----------------------------- MODULE MCToolTurn -----------------------------
(* TLC instances of ToolTurn. *)
EXTENDS ToolTurn
=============================================================================

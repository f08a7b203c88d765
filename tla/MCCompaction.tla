--------------------------- MODULE MCCompaction ----------------------------
(* A short conversation with two compactions. *)
EXTENDS Compaction
=============================================================================

---------------------------- MODULE MCToolBatch ----------------------------
(* Two tools, one of them safe to run in parallel, and Code Mode's run_code. *)
EXTENDS ToolBatch
=============================================================================

-------------------------- MODULE MCApprovalBroker --------------------------
(* One call that asks, two clients that answer twice each. *)
EXTENDS ApprovalBroker
=============================================================================

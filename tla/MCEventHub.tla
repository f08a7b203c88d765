----------------------------- MODULE MCEventHub -----------------------------
(* One session, written by its loop and its handle, and one client. *)
EXTENDS EventHub

CONSTANTS s1, l1, h1, c1

OneSession == [w \in Writers |-> s1]
WatchFirst == [c \in Clients |-> s1]
=============================================================================

--------------------------- MODULE MCThreadPools ---------------------------
(* Two network threads, a game thread and two connections: two threads can  *)
(* free the last two connections at once, or one free the last connection   *)
(* while the other takes up a new one.                                      *)
EXTENDS ThreadPools

=============================================================================

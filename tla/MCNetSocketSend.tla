---------------------------- MODULE MCNetSocketSend ----------------------------
(***************************************************************************)
(* Small instances of NetSocketSend.                                       *)
(***************************************************************************)
EXTENDS NetSocketSend, TLC

\* The service threads, which only send, are interchangeable.
Symmetry == Permutations(Senders)

================================================================================

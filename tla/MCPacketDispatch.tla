--------------------------- MODULE MCPacketDispatch ---------------------------
(* Two network threads, so that one can end the connection while the other is *)
(* in OnRecv; two game threads that take from the same queue; two uses.       *)
EXTENDS PacketDispatch, TLC

Symmetry == Permutations(NetThreads) \cup Permutations(GameThreads)

=============================================================================

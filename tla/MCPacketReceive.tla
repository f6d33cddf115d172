---------------------------- MODULE MCPacketReceive ----------------------------
(***************************************************************************)
(* A small instance of PacketReceive.                                      *)
(***************************************************************************)
EXTENDS PacketReceive

\* No content, one byte, the longest content, the longest content with a
\* header in it, and one that is too long.
MCContents == {<<>>, <<5>>, <<5, 1>>, <<9, 0>>, <<5, 5, 5>>}

================================================================================

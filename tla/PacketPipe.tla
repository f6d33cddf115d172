------------------------------ MODULE PacketPipe ------------------------------
(***************************************************************************)
(* What one direction of a connection promises, without queues, status     *)
(* word, bytes or buffers: packets are given to one end, and the other end *)
(* has taken the first so many of them, in their order, each once and      *)
(* whole.  A pipe may break; from then on it promises nothing.             *)
(*                                                                         *)
(* Both halves of a NetSocket are such a pipe: from Send to WSASend        *)
(* (NetSocketSend, where it breaks when two threads move packets between   *)
(* the two queues at once), and from the peer's Send to NetObj::RecvPacket *)
(* (PacketReceive, where it breaks with the first torn packet and with the *)
(* connection).                                                            *)
(***************************************************************************)
EXTENDS Integers, Sequences

CONSTANT Items

VARIABLES given, taken, broken

pipeVars == <<given, taken, broken>>

Init == given = <<>> /\ taken = <<>> /\ ~broken

Put ==
    /\ \E p \in Items : given' = Append(given, p)
    /\ UNCHANGED <<taken, broken>>

Take ==
    /\ \E n \in Len(taken) + 1 .. Len(given) : taken' = SubSeq(given, 1, n)
    /\ UNCHANGED <<given, broken>>

\* Whatever becomes of the ends, it stays broken.
Break == broken'

Next == (~broken /\ (Put \/ Take)) \/ Break

Spec == Init /\ [][Next]_pipeVars

================================================================================

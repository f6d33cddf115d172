------------------------------- MODULE ByteQueue -------------------------------
(***************************************************************************)
(* What the receive buffer of a socket amounts to: a queue of fewer than   *)
(* Capacity bytes.  A put is all or nothing, a get returns the oldest      *)
(* bytes or nothing.  The Capacity-th byte is one too many: a put that     *)
(* reaches Capacity is accepted, and everything is lost.                   *)
(***************************************************************************)
EXTENDS Integers, Sequences

CONSTANTS Capacity,
          Puts,       \* the byte sequences that are put
          Gets        \* the lengths that are asked for

VARIABLES queue,    \* the bytes put and not yet got
          result    \* what the last operation returned

Returns(ok, data) == [ok |-> ok, data |-> data]

Init == queue = <<>> /\ result = Returns(TRUE, <<>>)

Put(d) ==
    \/ /\ Len(queue) + Len(d) < Capacity
       /\ queue' = queue \o d
       /\ result' = Returns(TRUE, <<>>)
    \/ /\ Len(queue) + Len(d) = Capacity
       /\ queue' = <<>>
       /\ result' = Returns(TRUE, <<>>)
    \/ /\ Len(queue) + Len(d) > Capacity
       /\ UNCHANGED queue
       /\ result' = Returns(FALSE, <<>>)

Get(n) ==
    IF n <= Len(queue)
    THEN /\ queue' = SubSeq(queue, n + 1, Len(queue))
         /\ result' = Returns(TRUE, SubSeq(queue, 1, n))
    ELSE UNCHANGED queue /\ result' = Returns(FALSE, <<>>)

Clear == queue' = <<>> /\ result' = Returns(TRUE, <<>>)

Next ==
    \/ \E d \in Puts : Put(d)
    \/ \E n \in Gets : Get(n)
    \/ Clear

Spec == Init /\ [][Next]_<<queue, result>>

================================================================================

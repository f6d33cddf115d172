----------------------------- MODULE CircularBuffer -----------------------------
(***************************************************************************)
(* RefLibNet/reflib_circular_buffer: the buffer between WSARecv and the    *)
(* extraction of packets.  The object is the record ring; its operations   *)
(* run under _recvLock, so each is one step.                               *)
(*                                                                         *)
(* A memcpy outside of _buffer, or of a negative length, is undefined      *)
(* behaviour: the model then sets overrun and stops.                       *)
(***************************************************************************)
EXTENDS Integers, Sequences

CONSTANTS Byte,
          Junk,           \* what new char[] holds before it is written
          MaxPacketSize,  \* MAX_PACKET_SIZE
          DefBufferSize,  \* DEF_SOCKET_BUFFER_SIZE
          MaxBufferSize   \* MAX_SOCKET_BUFFER_SIZE

\* MAX_PACKET_SIZE is 1/10 of the initial and 1/20 of the largest size.
ASSUME BufferAssumption ==
    /\ MaxPacketSize \in Nat \ {0}
    /\ DefBufferSize \in Nat /\ MaxBufferSize \in Nat
    /\ MaxPacketSize < DefBufferSize /\ DefBufferSize <= MaxBufferSize
    /\ Junk \notin Byte

VARIABLES ring,     \* [size, buf, head, tail]: _bufSize, _buffer, _headPos, _tailPos
          overrun,  \* a memcpy has left the buffer
          result    \* what the last operation returned

bufferVars == <<ring, overrun, result>>

Fresh(size) == [i \in 0 .. size - 1 |-> Junk]

Init ==
    /\ ring = [size |-> DefBufferSize, buf |-> Fresh(DefBufferSize),
               head |-> 0, tail |-> 0]
    /\ overrun = FALSE
    /\ result = [ok |-> TRUE, data |-> <<>>]

Size(r) ==
    IF r.head <= r.tail THEN r.tail - r.head ELSE r.size - (r.head - r.tail)

\* The k-th byte counted from the start of _buffer and on past its end.
At(r, k) == IF k < r.size THEN r.buf[k] ELSE r.buf[k - r.size]

\* The bytes in the buffer, oldest first.
Bytes(r) == [i \in 1 .. Size(r) |-> At(r, r.head + i - 1)]

Inside(r, from, n) == 0 <= n /\ from + n <= r.size

\* memcpy of the sequence s to position at of the array b.
Memcpy(b, at, s) ==
    [i \in DOMAIN b |-> IF i \in at .. at + Len(s) - 1 THEN s[i - at + 1]
                                                       ELSE b[i]]

-------------------------------------------------------------------------------
(* GetData                                                                 *)

WrapsOnRead(r, n) == r.tail < r.head /\ r.head + n > r.size

ReadsInside(r, n) ==
    IF WrapsOnRead(r, n)
    THEN /\ Inside(r, r.head, r.size - r.head)
         /\ Inside(r, 0, n - (r.size - r.head))
    ELSE Inside(r, r.head, n)

\* _headPos is not brought back into the buffer when the read wraps.
GetData(n) ==
    /\ ~overrun
    /\ \/ /\ n > Size(ring)
          /\ result' = [ok |-> FALSE, data |-> <<>>]
          /\ UNCHANGED <<ring, overrun>>
       \/ /\ n <= Size(ring)
          /\ ReadsInside(ring, n)
          /\ result' = [ok |-> TRUE,
                        data |-> [i \in 1 .. n |-> At(ring, ring.head + i - 1)]]
          /\ ring' = [ring EXCEPT !.head = @ + n]
          /\ UNCHANGED overrun
       \/ /\ n <= Size(ring)
          /\ ~ReadsInside(ring, n)
          /\ overrun' = TRUE
          /\ UNCHANGED <<ring, result>>

-------------------------------------------------------------------------------
(* PutData                                                                 *)

WrapsOnWriteLate(r, n) == r.head < r.tail /\ r.tail >= r.size   \* mutant
WrapsOnWrite(r, n) == r.head < r.tail /\ r.tail + n >= r.size

WritesInside(r, n) ==
    CASE r.head = r.tail    -> Inside(r, 0, n)
      [] WrapsOnWrite(r, n) -> /\ Inside(r, r.tail, r.size - r.tail)
                               /\ Inside(r, 0, n - (r.size - r.tail))
      [] OTHER              -> Inside(r, r.tail, n)

\* With copyLen1 = 0 the assertion "Circular buffer is corrupted" fails.
PutDataWithoutResize(r, d) ==
    LET n == Len(d)
        copyLen1 == r.size - r.tail
    IN  CASE r.head = r.tail ->
               [r EXCEPT !.buf = Memcpy(@, 0, d), !.head = 0, !.tail = n]
          [] WrapsOnWrite(r, n) /\ copyLen1 = 0 -> r
          [] WrapsOnWrite(r, n) /\ copyLen1 > 0 ->
               [r EXCEPT !.buf = Memcpy(Memcpy(@, r.tail, SubSeq(d, 1, copyLen1)),
                                        0, SubSeq(d, copyLen1 + 1, n)),
                         !.tail = n - copyLen1]
          [] OTHER ->
               [r EXCEPT !.buf = Memcpy(@, r.tail, d), !.tail = @ + n]

MovesInside(r) ==
    r.tail < r.head => Inside(r, r.head, r.size - r.head) /\ Inside(r, 0, r.tail)

\* Mutant: the head stays where it was in the old buffer.
SetCapacityKeepingHead(r, size) ==
    IF size <= r.size THEN r
    ELSE [r EXCEPT !.size = size,
                   !.buf = Memcpy(Fresh(size), 0, Bytes(r)),
                   !.tail = Size(r)]

\* A larger buffer, to whose start the bytes are moved.
SetCapacity(r, size) ==
    IF size <= r.size THEN r
    ELSE [size |-> size,
          buf  |-> Memcpy(Fresh(size), 0, Bytes(r)),
          head |-> 0,
          tail |-> Size(r)]

\* Mutant: no limit.
ExtendSizeUnlimited(r, n) ==
    MaxPacketSize * ((n - (r.size - Size(r))) \div MaxPacketSize + 1)

\* The whole packets that make room for n bytes and one more, or what is left.
ExtendSize(r, n) ==
    LET whole == MaxPacketSize * ((n - (r.size - Size(r))) \div MaxPacketSize + 1)
        left == MaxBufferSize - r.size
    IN  IF whole <= left THEN whole ELSE left

PutData(d) ==
    LET n == Len(d)
        room == ring.size - Size(ring)
        grow == room <= n
        roomy == IF grow THEN SetCapacity(ring, ring.size + ExtendSize(ring, n))
                         ELSE ring
        refused == grow /\ n > room + ExtendSize(ring, n)
        moves == grow /\ ExtendSize(ring, n) > 0
        inside == (moves => MovesInside(ring)) /\ WritesInside(roomy, n)
    IN  /\ ~overrun
        /\ \/ /\ refused
              /\ result' = [ok |-> FALSE, data |-> <<>>]
              /\ UNCHANGED <<ring, overrun>>
           \/ /\ ~refused /\ inside
              /\ ring' = PutDataWithoutResize(roomy, d)
              /\ result' = [ok |-> TRUE, data |-> <<>>]
              /\ UNCHANGED overrun
           \/ /\ ~refused /\ ~inside
              /\ overrun' = TRUE
              /\ UNCHANGED <<ring, result>>

Clear ==
    /\ ~overrun
    /\ ring' = [ring EXCEPT !.head = 0, !.tail = 0]
    /\ result' = [ok |-> TRUE, data |-> <<>>]
    /\ UNCHANGED overrun

-------------------------------------------------------------------------------
\* OnRecvData puts 1 to MAX_PACKET_SIZE bytes, ExtractPakcetData gets a header
\* or the rest of a packet.
Data == UNION {[1 .. n -> Byte] : n \in 1 .. MaxPacketSize}

Next ==
    \/ \E d \in Data : PutData(d)
    \/ \E n \in 0 .. MaxPacketSize : GetData(n)
    \/ Clear

Spec == Init /\ [][Next]_bufferVars

-------------------------------------------------------------------------------
(* Properties                                                              *)

\* _tailPos stays inside the buffer; _headPos may lie beyond its end, by no more
\* than what _tailPos has wrapped.
TypeOK ==
    /\ ring.size \in DefBufferSize .. MaxBufferSize
    /\ ring.buf \in [0 .. ring.size - 1 -> Byte \cup {Junk}]
    /\ ring.tail \in 0 .. ring.size
    /\ ring.head \in 0 .. ring.size + ring.tail
    /\ overrun \in BOOLEAN
    /\ result.ok \in BOOLEAN /\ result.data \in Seq(Byte)

\* Memory is only overrun once a read has wrapped and left _headPos beyond the
\* end of the buffer: neither growing nor writing leaves the buffer otherwise.
OverrunOnlyPastEnd == overrun => ring.head > ring.size

Contents == Bytes(ring)

\* Up to an overrun the buffer is a queue: every wrap-around, every move to a
\* larger buffer keeps the bytes and their order, a put is refused only if the
\* largest buffer could not take it, and bytes are lost only if it fills that
\* buffer to the last byte.
Queue == INSTANCE ByteQueue
             WITH queue <- Contents, Capacity <- MaxBufferSize,
                  Puts <- Data, Gets <- 0 .. MaxPacketSize

ImplementsByteQueue == Queue!Spec

================================================================================

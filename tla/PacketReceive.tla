----------------------------- MODULE PacketReceive -----------------------------
(***************************************************************************)
(* RefLibNet/reflib_net_socket.cpp, the receiving half of a NetSocket for  *)
(* one use of the connection: the completion of a WSARecv, the extraction  *)
(* of packets from the buffer, their delivery and the next WSARecv, while  *)
(* another thread may handle the end of the connection.                    *)
(*                                                                         *)
(* One WSARecv is outstanding at a time, so one thread at a time is in     *)
(* OnRecv.  The buffer is an unbounded byte queue, which CircularBuffer    *)
(* implements as long as it does not overrun its array: an overrun of the  *)
(* ring is not carried over to what is shown here.  NothingWaits shows     *)
(* that what is stored stays far from the ring's capacity.  The tag and    *)
(* the length of a header are one byte each here.  The game object that    *)
(* the connection belongs to exists all the while.                         *)
(***************************************************************************)
EXTENDS Integers, Sequences

CONSTANTS Tag,         \* PACKET_ENVELOP_TAG
          MaxContent,  \* MAX_PACKET_CONTENT_SIZE
          Contents,    \* what the peer gives to Send: byte sequences
          MaxPackets   \* bound: how often the peer calls Send

ASSUME ReceiveAssumption ==
    /\ Tag \in Nat /\ MaxContent \in Nat /\ MaxPackets \in Nat
    /\ \A c \in Contents : c \in Seq(Nat)

HeaderSize == 2
MaxPacketSize == HeaderSize + MaxContent

VARIABLES
    wire,        \* the peer's bytes that no WSARecv has taken yet
    sent,        \* the contents that the peer gave to Send
    peerClosed,  \* the peer has closed its side after what it sent
    recvBuffer,  \* _recvBuffer
    data,        \* the bytes in the buffer of the completed WSARecv
    packet,      \* OnRecvData's local buffer
    delivered,   \* the packets given to NetObj::RecvPacket
    pc,          \* what the thread in OnRecv does next, "lost" if none will come
    posted,      \* a WSARecv is outstanding
    closing,     \* the extraction has failed and called Disconnect
    up           \* OnDisconnected has not been called

peerVars == <<sent, peerClosed>>
receiveVars == <<wire, peerVars, recvBuffer, data, packet, delivered, pc, posted,
                 closing, up>>

\* A MemoryBlock; if torn, its content was never written.
Packet(content) == [torn |-> FALSE, content |-> content]
TornPacket == [torn |-> TRUE, content |-> <<>>]
NoPacket == Packet(<<>>)

\* The state after OnConnected.
Init ==
    /\ wire = <<>> /\ sent = <<>> /\ recvBuffer = <<>> /\ data = <<>>
    /\ packet = NoPacket
    /\ delivered = <<>>
    /\ pc = "idle"
    /\ posted = TRUE
    /\ closing = FALSE
    /\ up = TRUE
    /\ peerClosed = FALSE

First(s, n) == SubSeq(s, 1, n)
Rest(s, n) == SubSeq(s, n + 1, Len(s))

\* Mutant: the length field does not count the header's own bytes.
FrameShort(content) == <<Tag, Len(content) - HeaderSize>> \o content

\* The peer's NetSocket::Send.
Frame(content) == <<Tag, Len(content)>> \o content

PeerSend ==
    /\ up /\ ~peerClosed
    /\ Len(sent) < MaxPackets
    /\ \E c \in Contents :
        /\ sent' = Append(sent, c)
        /\ wire' = wire \o Frame(c)
    /\ UNCHANGED <<peerClosed, recvBuffer, data, packet, delivered, pc, posted,
                   closing, up>>

PeerClose ==
    /\ up
    /\ peerClosed' = TRUE
    /\ UNCHANGED <<wire, sent, recvBuffer, data, packet, delivered, pc, posted,
                   closing, up>>

\* A WSARecv completes with as many bytes as TCP likes, or, once the peer has
\* closed, with none when there are no more; OnRecv begins.
OnRecv ==
    /\ up /\ posted /\ pc = "idle"
    /\ \E n \in 0 .. MaxPacketSize :
        /\ n <= Len(wire)
        /\ n = 0 => wire = <<>> /\ peerClosed
        /\ data' = First(wire, n)
        /\ wire' = Rest(wire, n)
    /\ posted' = FALSE
    /\ pc' = "put"
    /\ UNCHANGED <<peerVars, recvBuffer, packet, delivered, closing, up>>

\* OnCompletionFailure: a WSARecv fails that had taken some bytes already.  They
\* are deleted with its NetIoBuffer, and no WSARecv is posted in its place.
OnCompletionFailure ==
    /\ up /\ posted /\ pc = "idle"
    /\ \E n \in 1 .. MaxPacketSize : n <= Len(wire) /\ wire' = Rest(wire, n)
    /\ posted' = FALSE
    /\ pc' = "lost"
    /\ UNCHANGED <<peerVars, recvBuffer, data, packet, delivered, closing, up>>

\* OnRecvData, under _recvLock.  With no data it returns at once, by way of a failed
\* assertion, at which a Debug build stops unless it is told to go on.
PutData ==
    /\ pc = "put"
    /\ recvBuffer' = recvBuffer \o data
    /\ data' = <<>>
    /\ pc' = IF data = <<>> THEN "post" ELSE "extract"
    /\ UNCHANGED <<wire, peerVars, packet, delivered, posted, closing, up>>

IsValidEnvTag(header) == header[1] = Tag

\* Mutant: the greatest length will not do.
ContentLengthBelow(header) == header[2] < MaxContent
IsValidContentLength(header) == header[2] <= MaxContent

\* Mutants: the packet is what has arrived of it; the last byte in the buffer
\* cannot be got.
TakeWhatIsThere(rest, len) ==
    LET n == IF len <= Len(rest) THEN len ELSE Len(rest)
    IN  packet' = Packet(First(rest, n)) /\ recvBuffer' = Rest(rest, n)

TakeContentButLast(rest, len) ==
    IF len < Len(rest)
    THEN /\ packet' = Packet(First(rest, len))
         /\ recvBuffer' = Rest(rest, len)
    ELSE packet' = TornPacket /\ recvBuffer' = rest

\* The result of GetData is ignored: if the content has not arrived in full,
\* the packet stays unwritten and the bytes stay in the buffer.
TakeContent(rest, len) ==
    IF len <= Len(rest)
    THEN /\ packet' = Packet(First(rest, len))
         /\ recvBuffer' = Rest(rest, len)
    ELSE packet' = TornPacket /\ recvBuffer' = rest

\* ExtractPakcetData, under _recvLock, and what OnRecvData makes of its
\* result: PER_SUCCESS, PER_NO_DATA or PER_ERROR.
ExtractPakcetData ==
    /\ pc = "extract"
    /\ IF Len(recvBuffer) < HeaderSize
       THEN /\ pc' = "post"
            /\ UNCHANGED <<recvBuffer, packet, closing>>
       ELSE LET header == First(recvBuffer, HeaderSize)
                rest == Rest(recvBuffer, HeaderSize)
            IN  IF IsValidEnvTag(header) /\ IsValidContentLength(header)
                THEN /\ TakeContent(rest, header[2])
                     /\ pc' = "deliver"
                     /\ UNCHANGED closing
                ELSE /\ recvBuffer' = rest
                     /\ closing' = TRUE
                     /\ pc' = "post"
                     /\ UNCHANGED packet
    /\ UNCHANGED <<wire, peerVars, data, delivered, posted, up>>

\* Mutant: one packet for each WSARecv.
RecvOnePacket ==
    /\ pc = "deliver"
    /\ delivered' = Append(delivered, packet)
    /\ packet' = NoPacket
    /\ pc' = "post"
    /\ UNCHANGED <<wire, peerVars, recvBuffer, data, posted, closing, up>>

\* NetConnection::RecvPacket and NetObj::RecvPacket, then the next round.
RecvPacket ==
    /\ pc = "deliver"
    /\ delivered' = Append(delivered, packet)
    /\ packet' = NoPacket
    /\ pc' = "extract"
    /\ UNCHANGED <<wire, peerVars, recvBuffer, data, posted, closing, up>>

\* Mutant: WSARecv is only called again when a packet is incomplete.
PostRecvForRest ==
    /\ pc = "post"
    /\ posted' = (up /\ ~closing /\ recvBuffer # <<>>)
    /\ pc' = "idle"
    /\ UNCHANGED <<wire, peerVars, recvBuffer, data, packet, delivered, closing, up>>

\* OnRecv ends with PostRecv, which fails once the socket has been closed.
PostRecv ==
    /\ pc = "post"
    /\ posted' = (up /\ ~closing)
    /\ pc' = "idle"
    /\ UNCHANGED <<wire, peerVars, recvBuffer, data, packet, delivered, closing, up>>

\* A reset by the peer, a failed WSASend, a Shutdown or the extraction has ended
\* the connection and a worker handles that: ClearRecvQueue.
OnDisconnected ==
    /\ up
    /\ up' = FALSE
    /\ recvBuffer' = <<>>
    /\ UNCHANGED <<wire, peerVars, data, packet, delivered, pc, posted, closing>>

Handler == PutData \/ ExtractPakcetData \/ RecvPacket \/ PostRecv

Next ==
    \/ PeerSend \/ PeerClose
    \/ OnRecv \/ OnCompletionFailure \/ Handler
    \/ OnDisconnected

\* A thread in OnRecv goes on, and bytes that TCP has are received if a
\* WSARecv is outstanding.  Nobody has to send, and nobody has to disconnect.
Fairness == WF_receiveVars(Handler) /\ WF_receiveVars(OnRecv)

Spec == Init /\ [][Next]_receiveVars /\ Fairness

-------------------------------------------------------------------------------
(* Properties                                                              *)

\* Every byte on the way is a byte: a header's length is never negative.
TypeOK ==
    /\ wire \in Seq(Nat) /\ recvBuffer \in Seq(Nat) /\ data \in Seq(Nat)
    /\ sent \in Seq(Contents)
    /\ packet \in [torn : BOOLEAN, content : Seq(Nat)]
    /\ delivered \in Seq([torn : BOOLEAN, content : Seq(Nat)])
    /\ pc \in {"idle", "put", "extract", "deliver", "post", "lost"}
    /\ posted \in BOOLEAN /\ closing \in BOOLEAN /\ up \in BOOLEAN
    /\ peerClosed \in BOOLEAN

Torn(i) == delivered[i].torn

\* However TCP cuts the stream, what reaches the game object while the
\* connection is up is what the peer sent, in that order and without a gap,
\* until the first packet whose content had not arrived in full.
IntactUntilTorn ==
    up => \A i \in 1 .. Len(delivered) :
              (\A j \in 1 .. i : ~Torn(j)) =>
                  i <= Len(sent) /\ delivered[i] = Packet(sent[i])

\* For each n, the number of bytes of the packets made of the first n of s.
FrameBytes(s) ==
    LET bytes[n \in 0 .. Len(s)] ==
            IF n = 0 THEN 0 ELSE bytes[n - 1] + HeaderSize + Len(s[n])
    IN  bytes

\* A packet is torn only when some of its bytes are still on the way, never
\* for the packets that follow it in the same WSARecv.
TornOnlyIfBytesAreMissing ==
    [][up /\ (\A i \in 1 .. Len(delivered) : ~Torn(i))
          /\ packet'.torn /\ ~packet.torn =>
            FrameBytes(sent)[Len(sent)] - Len(wire)
                < FrameBytes(sent)[Len(delivered) + 1]
      ]_receiveVars

\* The extraction ends the connection of a well-behaved peer only after it
\* has torn a packet itself, or for a content longer than MaxContent, which
\* Send accepts.
NoWrongAccusation ==
    closing /\ up => \/ \E i \in 1 .. Len(delivered) : Torn(i)
                     \/ \E i \in 1 .. Len(sent) : Len(sent[i]) > MaxContent

\* Between two WSARecvs no header waits in the buffer.  So what the buffer
\* holds is never more than MaxPacketSize + HeaderSize - 1 bytes.
NothingWaits == posted => Len(recvBuffer) < HeaderSize

\* From the peer's Send to NetObj::RecvPacket the connection is a pipe, however TCP
\* cuts the stream, that breaks when a torn packet is delivered or it is closed.
Pipe == INSTANCE PacketPipe WITH
    Items <- Contents, given <- sent,
    taken <- [i \in 1 .. Len(delivered) |-> delivered[i].content],
    broken <- ~up \/ \E i \in 1 .. Len(delivered) : Torn(i)

ImplementsPipe == Pipe!Spec

\* Every packet is delivered, torn or not, or the connection ends, or is left
\* without a read by one that failed part-way.
EventuallyDelivered ==
    \A n \in 1 .. MaxPackets :
        Len(sent) >= n ~> Len(delivered) >= n \/ closing \/ pc = "lost" \/ ~up

\* The comment "deliver packet to NetObj" of NetConnection::RecvPacket: what
\* is delivered while the connection is up is a packet of the peer.
DeliversPackets ==
    up => \A i \in 1 .. Len(delivered) :
              \E k \in 1 .. Len(sent) : delivered[i] = Packet(sent[k])

================================================================================

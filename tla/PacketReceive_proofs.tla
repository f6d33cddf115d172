------------------------- MODULE PacketReceive_proofs -------------------------
(***************************************************************************)
(* Proofs about PacketReceive for every set of contents, every number of   *)
(* packets and every way in which TCP cuts the stream.                     *)
(***************************************************************************)
EXTENDS PacketReceive, TLAPS, SequenceTheorems, WellFoundedInduction

Packets == [torn : BOOLEAN, content : Seq(Nat)]

-------------------------------------------------------------------------------
(* Sequences of bytes and the packets made of them                         *)

LEMMA EmptyType == <<>> \in Seq(Nat) /\ <<>> \in Seq(Contents)
                   /\ <<>> \in Seq(Packets)
OBVIOUS

LEMMA PacketType ==
    /\ \A c \in Seq(Nat) : Packet(c) \in Packets
    /\ NoPacket \in Packets /\ TornPacket \in Packets
<1>1. ASSUME NEW b \in BOOLEAN, NEW c \in Seq(Nat)
      PROVE  [torn |-> b, content |-> c] \in Packets
  BY <1>1 DEF Packets
<1> QED BY <1>1, EmptyType DEF Packet, NoPacket, TornPacket

LEMMA CutType ==
    ASSUME NEW s \in Seq(Nat), NEW n \in Nat, n <= Len(s)
    PROVE  /\ First(s, n) \in Seq(Nat) /\ Len(First(s, n)) = n
           /\ Rest(s, n) \in Seq(Nat) /\ Len(Rest(s, n)) = Len(s) - n
BY DEF First, Rest

\* A header is made of bytes.
LEMMA HeaderType ==
    ASSUME NEW s \in Seq(Nat), Len(s) >= HeaderSize
    PROVE  First(s, HeaderSize)[2] \in Nat
<1>1. ASSUME NEW h \in Seq(Nat), Len(h) = 2 PROVE h[2] \in Nat
  BY <1>1
<1>2. First(s, HeaderSize) \in Seq(Nat) /\ Len(First(s, HeaderSize)) = 2
  BY CutType DEF HeaderSize
<1> QED BY <1>1, <1>2

LEMMA FrameType == ASSUME NEW c \in Contents PROVE Frame(c) \in Seq(Nat)
<1>1. c \in Seq(Nat)
  BY ReceiveAssumption
<1>2. <<Tag, Len(c)>> \in Seq(Nat)
  BY <1>1, ReceiveAssumption
<1> QED BY <1>1, <1>2 DEF Frame

-------------------------------------------------------------------------------
(* Types                                                                   *)

LEMMA InitType == ASSUME Init PROVE TypeOK
BY EmptyType, PacketType DEF Init, TypeOK, Packets

LEMMA PeerSendType == ASSUME TypeOK, PeerSend PROVE TypeOK'
<1>1. PICK c \in Contents : sent' = Append(sent, c) /\ wire' = wire \o Frame(c)
  BY DEF PeerSend
<1>2. wire' \in Seq(Nat) /\ sent' \in Seq(Contents)
  BY <1>1, FrameType DEF TypeOK
<1> QED BY <1>2 DEF TypeOK, PeerSend

LEMMA OnRecvType == ASSUME TypeOK, OnRecv PROVE TypeOK'
<1>1. PICK n \in 0 .. MaxPacketSize :
          n <= Len(wire) /\ data' = First(wire, n) /\ wire' = Rest(wire, n)
  BY DEF OnRecv
<1>2. n \in Nat /\ wire \in Seq(Nat)
  BY ReceiveAssumption DEF MaxPacketSize, HeaderSize, TypeOK
<1>3. data' \in Seq(Nat) /\ wire' \in Seq(Nat)
  BY <1>1, <1>2, CutType
<1> QED BY <1>3 DEF TypeOK, OnRecv, peerVars

LEMMA FailureType == ASSUME TypeOK, OnCompletionFailure PROVE TypeOK'
<1>1. PICK n \in 1 .. MaxPacketSize : n <= Len(wire) /\ wire' = Rest(wire, n)
  BY DEF OnCompletionFailure
<1>2. n \in Nat /\ wire \in Seq(Nat)
  BY ReceiveAssumption DEF MaxPacketSize, HeaderSize, TypeOK
<1>3. wire' \in Seq(Nat)
  BY <1>1, <1>2, CutType
<1> QED BY <1>3 DEF TypeOK, OnCompletionFailure, peerVars

LEMMA PutDataType == ASSUME TypeOK, PutData PROVE TypeOK'
<1>1. recvBuffer' \in Seq(Nat) /\ data' \in Seq(Nat)
  BY DEF TypeOK, PutData
<1> QED BY <1>1 DEF TypeOK, PutData, peerVars

\* What a packet takes out of the bytes after its header.
LEMMA TakeContentType ==
    ASSUME NEW rest \in Seq(Nat), NEW len \in Nat, TakeContent(rest, len)
    PROVE  packet' \in Packets /\ recvBuffer' \in Seq(Nat)
<1>1. CASE len <= Len(rest)
  <2>1. First(rest, len) \in Seq(Nat) /\ Rest(rest, len) \in Seq(Nat)
    BY <1>1, CutType
  <2> QED BY <1>1, <2>1, PacketType DEF TakeContent
<1>2. CASE ~(len <= Len(rest))
  BY <1>2, PacketType DEF TakeContent
<1> QED BY <1>1, <1>2

LEMMA ExtractType == ASSUME TypeOK, ExtractPakcetData PROVE TypeOK'
<1> DEFINE header == First(recvBuffer, HeaderSize)
           rest == Rest(recvBuffer, HeaderSize)
<1>1. recvBuffer \in Seq(Nat) /\ packet \in Packets
  BY DEF TypeOK, Packets
<1>2. packet' \in Packets /\ recvBuffer' \in Seq(Nat) /\ closing' \in BOOLEAN
      /\ pc' \in {"deliver", "post"}
  <2>1. CASE Len(recvBuffer) < HeaderSize
    BY <1>1, <2>1 DEF ExtractPakcetData, TypeOK
  <2>2. CASE Len(recvBuffer) >= HeaderSize
    <3>1. header[2] \in Nat /\ rest \in Seq(Nat)
      BY <1>1, <2>2, HeaderType, CutType DEF HeaderSize
    <3>2. CASE IsValidEnvTag(header) /\ IsValidContentLength(header)
      <4>1. TakeContent(rest, header[2]) /\ pc' = "deliver" /\ UNCHANGED closing
        BY <1>1, <2>2, <3>2 DEF ExtractPakcetData, HeaderSize
      <4> QED BY <3>1, <4>1, TakeContentType DEF TypeOK
    <3>3. CASE ~(IsValidEnvTag(header) /\ IsValidContentLength(header))
      <4>1. recvBuffer' = rest /\ closing' = TRUE /\ pc' = "post"
            /\ UNCHANGED packet
        BY <1>1, <2>2, <3>3 DEF ExtractPakcetData, HeaderSize
      <4> QED BY <1>1, <3>1, <4>1
    <3> QED BY <3>2, <3>3
  <2> QED BY <1>1, <2>1, <2>2 DEF HeaderSize
<1> QED BY <1>2 DEF TypeOK, Packets, ExtractPakcetData, peerVars

LEMMA RecvPacketType == ASSUME TypeOK, RecvPacket PROVE TypeOK'
<1>1. delivered' \in Seq(Packets) /\ packet' \in Packets
  BY PacketType DEF TypeOK, RecvPacket, Packets
<1> QED BY <1>1 DEF TypeOK, RecvPacket, peerVars, Packets

LEMMA OtherStepsType ==
    ASSUME TypeOK, PeerClose \/ PostRecv \/ OnDisconnected \/ UNCHANGED receiveVars
    PROVE  TypeOK'
<1>1. CASE PeerClose
  BY <1>1 DEF PeerClose, TypeOK
<1>2. CASE PostRecv
  BY <1>2 DEF PostRecv, TypeOK, peerVars
<1>3. CASE OnDisconnected
  BY <1>3, EmptyType DEF OnDisconnected, TypeOK, peerVars
<1>4. CASE UNCHANGED receiveVars
  BY <1>4 DEF receiveVars, peerVars, TypeOK
<1> QED BY <1>1, <1>2, <1>3, <1>4

LEMMA NextType == ASSUME TypeOK, [Next]_receiveVars PROVE TypeOK'
BY PeerSendType, OnRecvType, FailureType, PutDataType, ExtractType, RecvPacketType,
   OtherStepsType DEF Next, Handler

\* What is received, extracted and delivered are bytes, whatever arrives: the
\* length that is read from a header is never negative.
THEOREM TypeCorrect == Spec => []TypeOK
<1>1. Init => TypeOK
  BY InitType
<1>2. TypeOK /\ [Next]_receiveVars => TypeOK'
  BY NextType
<1> QED BY <1>1, <1>2, PTL DEF Spec

-------------------------------------------------------------------------------
(* The buffer between two reads                                            *)

\* NothingWaits is not inductive: it needs that the thread leaves the loop of
\* OnRecvData only for lack of a header, or with the connection given up.
WaitInv ==
    /\ posted => pc = "idle"
    /\ posted \/ pc = "put" => Len(recvBuffer) < HeaderSize
    /\ pc = "post" /\ ~closing => Len(recvBuffer) < HeaderSize

LEMMA PutDataWaits == ASSUME TypeOK, WaitInv, PutData PROVE WaitInv'
<1>1. CASE data = <<>>
  <2>1. recvBuffer' = recvBuffer
    BY <1>1 DEF PutData, TypeOK
  <2> QED BY <1>1, <2>1 DEF PutData, WaitInv
<1>2. CASE data # <<>>
  BY <1>2 DEF PutData, WaitInv
<1> QED BY <1>1, <1>2

LEMMA ExtractWaits == ASSUME TypeOK, WaitInv, ExtractPakcetData PROVE WaitInv'
<1>1. CASE Len(recvBuffer) < HeaderSize
  BY <1>1 DEF ExtractPakcetData, WaitInv
<1>2. CASE ~(Len(recvBuffer) < HeaderSize)
  <2>1. ~posted /\ ~posted'
    BY DEF ExtractPakcetData, WaitInv
  <2>2. pc' = "deliver" \/ (pc' = "post" /\ closing')
    BY <1>2 DEF ExtractPakcetData
  <2> QED BY <2>1, <2>2 DEF WaitInv
<1> QED BY <1>1, <1>2

LEMMA NextWaits ==
    ASSUME TypeOK, WaitInv, [Next]_receiveVars PROVE WaitInv'
<1>1. CASE PeerSend \/ PeerClose \/ UNCHANGED receiveVars
  BY <1>1 DEF PeerSend, PeerClose, receiveVars, WaitInv
<1>2. CASE OnRecv
  BY <1>2 DEF OnRecv, WaitInv
<1>3. CASE RecvPacket
  BY <1>3 DEF RecvPacket, WaitInv
<1>4. CASE PostRecv
  BY <1>4 DEF PostRecv, WaitInv
<1>5. CASE OnDisconnected
  <2>1. Len(recvBuffer') < HeaderSize
    BY <1>5 DEF OnDisconnected, HeaderSize
  <2> QED BY <1>5, <2>1 DEF OnDisconnected, WaitInv
<1>6. CASE OnCompletionFailure
  BY <1>6 DEF OnCompletionFailure, WaitInv
<1> QED BY <1>1, <1>2, <1>3, <1>4, <1>5, <1>6, PutDataWaits, ExtractWaits
        DEF Next, Handler

\* While a WSARecv is outstanding less than a header is in the buffer, for
\* packets of every size: OnRecvData leaves nothing behind that it could have
\* delivered, and the buffer never has to grow.
THEOREM NothingIsLeft == Spec => []NothingWaits
<1>1. Init => WaitInv
  BY DEF Init, WaitInv, HeaderSize
<1>2. TypeOK /\ WaitInv /\ [Next]_receiveVars => WaitInv'
  BY NextWaits
<1>3. WaitInv => NothingWaits
  BY DEF WaitInv, NothingWaits
<1> QED BY <1>1, <1>2, <1>3, TypeCorrect, PTL DEF Spec

-------------------------------------------------------------------------------
(* The bytes of the first packets: what FrameBytes computes                *)

\* Induction over the natural numbers, for the members of a set.
LEMMA NatInduct ==
    ASSUME NEW X, 0 \in X, \A n \in Nat : n \in X => n + 1 \in X
    PROVE  Nat \subseteq X
<1> DEFINE T == Nat \ X
<1> SUFFICES ASSUME T # {} PROVE FALSE
  OBVIOUS
<1>1. PICK x \in T : \A y \in T : ~(<<y, x>> \in OpToRel(<, Nat))
  <2> HIDE DEF T
  <2>1. T \in SUBSET Nat
    BY DEF T
  <2> QED BY <2>1, NatLessThanWellFounded, WFMin
<1>2. x # 0 /\ x \in Nat
  OBVIOUS
<1>3. x - 1 \in Nat /\ (x - 1) + 1 = x /\ <<x - 1, x>> \in OpToRel(<, Nat)
  BY <1>2 DEF OpToRel
<1>4. x - 1 \in X
  BY <1>1, <1>3
<1>5. x \in X
  BY <1>3, <1>4
<1> QED BY <1>5

\* The equation of FrameBytes has a solution up to every n, so FrameBytes is
\* one.
LEMMA FrameBytesExists ==
    ASSUME NEW s
    PROVE  \A n \in Nat : \E f :
               f = [i \in 0 .. n |->
                      IF i = 0 THEN 0 ELSE f[i - 1] + HeaderSize + Len(s[i])]
<1> DEFINE Solves(f, n) ==
               f = [i \in 0 .. n |->
                      IF i = 0 THEN 0 ELSE f[i - 1] + HeaderSize + Len(s[i])]
           X == {n \in Nat : \E f : Solves(f, n)}
<1>1. 0 \in X
  <2>1. Solves([i \in 0 .. 0 |-> 0], 0)
    OBVIOUS
  <2> QED BY <2>1
<1>2. ASSUME NEW n \in Nat, n \in X PROVE n + 1 \in X
  <2>1. PICK f : Solves(f, n)
    BY <1>2
  <2> DEFINE g == [i \in 0 .. n + 1 |->
                     IF i <= n THEN f[i] ELSE f[n] + HeaderSize + Len(s[n + 1])]
  <2>2. ASSUME NEW i \in 0 .. n + 1
        PROVE  g[i] = IF i = 0 THEN 0 ELSE g[i - 1] + HeaderSize + Len(s[i])
    <3>1. CASE i = 0
      BY <2>1, <3>1
    <3>2. CASE i \in 1 .. n
      <4>1. g[i] = f[i] /\ g[i - 1] = f[i - 1]
        BY <3>2
      <4>2. f[i] = f[i - 1] + HeaderSize + Len(s[i])
        BY <2>1, <3>2
      <4> QED BY <3>2, <4>1, <4>2
    <3>3. CASE i = n + 1
      <4>1. g[i] = f[n] + HeaderSize + Len(s[n + 1]) /\ g[i - 1] = f[n]
        BY <3>3
      <4> QED BY <3>3, <4>1
    <3> QED BY <3>1, <3>2, <3>3
  <2>3. Solves(g, n + 1)
    <3> HIDE DEF g
    <3>1. g = [i \in 0 .. n + 1 |-> g[i]]
      BY DEF g
    <3> QED BY <2>2, <3>1, Zenon
  <2> QED
    <3> HIDE DEF Solves, g
    <3> QED BY <2>3
<1>3. Nat \subseteq X
  <2> HIDE DEF X
  <2> QED BY <1>1, <1>2, NatInduct
<1> QED BY <1>3

LEMMA FrameBytesDef ==
    ASSUME NEW s \in Seq(Seq(Nat))
    PROVE  /\ FrameBytes(s)[0] = 0
           /\ \A n \in 1 .. Len(s) :
                FrameBytes(s)[n] = FrameBytes(s)[n - 1] + HeaderSize + Len(s[n])
<1>1. \E f : f = [i \in 0 .. Len(s) |->
                    IF i = 0 THEN 0 ELSE f[i - 1] + HeaderSize + Len(s[i])]
  BY FrameBytesExists, Len(s) \in Nat
<1>2. FrameBytes(s) = [i \in 0 .. Len(s) |->
            IF i = 0 THEN 0 ELSE FrameBytes(s)[i - 1] + HeaderSize + Len(s[i])]
  BY <1>1, Zenon DEF FrameBytes
<1> QED
  <2> DEFINE f == FrameBytes(s)
  <2>1. f = [i \in 0 .. Len(s) |->
               IF i = 0 THEN 0 ELSE f[i - 1] + HeaderSize + Len(s[i])]
    BY <1>2
  <2>2. Len(s) \in Nat
    OBVIOUS
  <2> HIDE DEF f
  <2>3. f[0] = 0
    BY <2>1, <2>2
  <2>4. ASSUME NEW n \in 1 .. Len(s) PROVE f[n] = f[n - 1] + HeaderSize + Len(s[n])
    <3>1. n \in 0 .. Len(s) /\ n # 0
      BY <2>2
    <3> QED BY <2>1, <3>1, Zenon
  <2> QED BY <2>3, <2>4 DEF f

\* Every packet has at least its header.
LEMMA FrameBytesType ==
    ASSUME NEW s \in Seq(Seq(Nat))
    PROVE  \A n \in 0 .. Len(s) : FrameBytes(s)[n] \in Nat
<1> DEFINE X == {n \in Nat : n <= Len(s) => FrameBytes(s)[n] \in Nat}
<1>1. 0 \in X
  BY FrameBytesDef
<1>2. ASSUME NEW n \in Nat, n \in X PROVE n + 1 \in X
  <2> SUFFICES ASSUME n + 1 <= Len(s) PROVE FrameBytes(s)[n + 1] \in Nat
    OBVIOUS
  <2>1. FrameBytes(s)[n] \in Nat
    BY <1>2
  <2>2. FrameBytes(s)[n + 1] = FrameBytes(s)[n] + HeaderSize + Len(s[n + 1])
    BY FrameBytesDef, n + 1 \in 1 .. Len(s), (n + 1) - 1 = n
  <2>3. Len(s[n + 1]) \in Nat
    OBVIOUS
  <2> QED BY <2>1, <2>2, <2>3 DEF HeaderSize
<1>3. Nat \subseteq X
  <2> HIDE DEF X
  <2> QED BY <1>1, <1>2, NatInduct
<1> QED BY <1>3

LEMMA FrameBytesGrows ==
    ASSUME NEW s \in Seq(Seq(Nat)), NEW k \in 0 .. Len(s)
    PROVE  \A n \in k .. Len(s) :
               n > k => FrameBytes(s)[n] >= FrameBytes(s)[k] + HeaderSize + Len(s[k + 1])
<1> DEFINE B == FrameBytes(s)
           X == {n \in Nat : k < n /\ n <= Len(s) =>
                               B[n] >= B[k] + HeaderSize + Len(s[k + 1])}
<1>0. \A n \in 0 .. Len(s) : B[n] \in Nat
  BY FrameBytesType
<1>1. 0 \in X
  OBVIOUS
<1>2. ASSUME NEW n \in Nat, n \in X PROVE n + 1 \in X
  <2> SUFFICES ASSUME k < n + 1, n + 1 <= Len(s)
               PROVE  B[n + 1] >= B[k] + HeaderSize + Len(s[k + 1])
    OBVIOUS
  <2>1. B[n + 1] = B[n] + HeaderSize + Len(s[n + 1])
    BY FrameBytesDef, n + 1 \in 1 .. Len(s), (n + 1) - 1 = n
  <2>2. B[n] \in Nat /\ B[k] \in Nat /\ Len(s[n + 1]) \in Nat /\ Len(s[k + 1]) \in Nat
    BY <1>0, n \in 0 .. Len(s), n + 1 \in 1 .. Len(s), k + 1 \in 1 .. Len(s)
  <2>3. CASE n = k
    <3> HIDE DEF B
    <3> QED BY <2>1, <2>2, <2>3 DEF HeaderSize
  <2>4. CASE k < n
    <3>1. n <= Len(s)
      OBVIOUS
    <3> HIDE DEF B
    <3>2. B[n] >= B[k] + HeaderSize + Len(s[k + 1])
      BY <1>2, <2>4, <3>1
    <3> DEFINE first == B[k]  now == B[n]  next == B[n + 1]
               f == Len(s[k + 1])  g == Len(s[n + 1])
    <3>3. /\ first \in Nat /\ now \in Nat /\ f \in Nat /\ g \in Nat
          /\ next = now + HeaderSize + g /\ now >= first + HeaderSize + f
      BY <2>1, <2>2, <3>2
    <3> HIDE DEF first, now, next, f, g
    <3>4. next >= first + HeaderSize + f
      BY <3>3 DEF HeaderSize
    <3> QED BY <3>4 DEF first, next, f
  <2> QED BY <2>3, <2>4
<1>3. Nat \subseteq X
  <2> HIDE DEF X
  <2> QED BY <1>1, <1>2, NatInduct
<1> QED BY <1>3

LEMMA FrameBytesOrder ==
    ASSUME NEW s \in Seq(Seq(Nat)), NEW i \in 0 .. Len(s), NEW j \in i .. Len(s)
    PROVE  FrameBytes(s)[i] <= FrameBytes(s)[j]
<1> DEFINE B == FrameBytes(s)
<1> SUFFICES B[i] <= B[j]
  OBVIOUS
<1>1. i \in Nat /\ j \in 0 .. Len(s)
  OBVIOUS
<1>2. B[i] \in Nat /\ B[j] \in Nat
  BY <1>1, FrameBytesType
<1>3. CASE i = j
  <2> HIDE DEF B
  <2> QED BY <1>2, <1>3
<1>4. CASE i # j
  <2>1. B[j] >= B[i] + HeaderSize + Len(s[i + 1])
    BY <1>4, FrameBytesGrows
  <2>2. Len(s[i + 1]) \in Nat
    BY <1>4
  <2> HIDE DEF B
  <2> QED BY <1>2, <2>1, <2>2 DEF HeaderSize
<1> QED BY <1>3, <1>4

\* What the peer sends later changes nothing of what it sent before.
LEMMA FrameBytesAppend ==
    ASSUME NEW s \in Seq(Seq(Nat)), NEW c \in Seq(Nat)
    PROVE  \A n \in 0 .. Len(s) : FrameBytes(Append(s, c))[n] = FrameBytes(s)[n]
<1> DEFINE t == Append(s, c)
           X == {n \in Nat : n <= Len(s) => FrameBytes(t)[n] = FrameBytes(s)[n]}
<1>0. t \in Seq(Seq(Nat)) /\ Len(t) = Len(s) + 1
      /\ \A n \in 1 .. Len(s) : t[n] = s[n]
  OBVIOUS
<1> HIDE DEF t
<1>1. 0 \in X
  BY <1>0, FrameBytesDef
<1>2. ASSUME NEW n \in Nat, n \in X PROVE n + 1 \in X
  <2> SUFFICES ASSUME n + 1 <= Len(s)
               PROVE  FrameBytes(t)[n + 1] = FrameBytes(s)[n + 1]
    OBVIOUS
  <2>1. FrameBytes(s)[n + 1] = FrameBytes(s)[n] + HeaderSize + Len(s[n + 1])
    BY FrameBytesDef, n + 1 \in 1 .. Len(s), (n + 1) - 1 = n
  <2>2. FrameBytes(t)[n + 1] = FrameBytes(t)[n] + HeaderSize + Len(t[n + 1])
    BY <1>0, FrameBytesDef, n + 1 \in 1 .. Len(t), (n + 1) - 1 = n
  <2> QED BY <1>0, <1>2, <2>1, <2>2, n + 1 \in 1 .. Len(s)
<1>3. Nat \subseteq X
  <2> HIDE DEF X
  <2> QED BY <1>1, <1>2, NatInduct
<1> QED BY <1>3 DEF t

-------------------------------------------------------------------------------
(* The stream of frames                                                    *)

\* u is the frames of the contents in s, from the one after the k-th on: each
\* byte of each frame is at its place.
Carries(u, s, k) ==
    /\ k \in 0 .. Len(s)
    /\ Len(u) = FrameBytes(s)[Len(s)] - FrameBytes(s)[k]
    /\ \A i \in k + 1 .. Len(s) :
         \A p \in 1 .. HeaderSize + Len(s[i]) :
            u[FrameBytes(s)[i - 1] - FrameBytes(s)[k] + p] = Frame(s[i])[p]

LEMMA FrameElements ==
    ASSUME NEW c \in Seq(Nat)
    PROVE  /\ Frame(c) \in Seq(Nat) /\ Len(Frame(c)) = HeaderSize + Len(c)
           /\ Frame(c)[1] = Tag /\ Frame(c)[2] = Len(c)
           /\ \A p \in 1 .. Len(c) : Frame(c)[HeaderSize + p] = c[p]
<1>1. <<Tag, Len(c)>> \in Seq(Nat) /\ Len(<<Tag, Len(c)>>) = 2
  BY ReceiveAssumption
<1> QED BY <1>1 DEF Frame, HeaderSize

\* Before anything is sent.
LEMMA CarriesNothing == Carries(<<>>, <<>>, 0)
<1>1. <<>> \in Seq(Seq(Nat)) /\ Len(<<>>) = 0
  OBVIOUS
<1>2. FrameBytes(<<>>)[0] = 0
  BY <1>1, FrameBytesDef
<1> QED BY <1>1, <1>2 DEF Carries

\* One more packet is sent.
LEMMA CarriesMore ==
    ASSUME NEW u \in Seq(Nat), NEW s \in Seq(Seq(Nat)), NEW k, Carries(u, s, k),
           NEW c \in Seq(Nat)
    PROVE  Carries(u \o Frame(c), Append(s, c), k)
<1> DEFINE t == Append(s, c)
           B == FrameBytes(s)
           D == FrameBytes(t)
           v == u \o Frame(c)
<1>1. /\ t \in Seq(Seq(Nat)) /\ Len(t) = Len(s) + 1 /\ t[Len(t)] = c
      /\ \A i \in 1 .. Len(s) : t[i] = s[i]
  OBVIOUS
<1>2. \A n \in 0 .. Len(s) : B[n] \in Nat /\ D[n] = B[n]
  BY FrameBytesType, FrameBytesAppend
<1>3. D[Len(t)] = B[Len(s)] + HeaderSize + Len(c)
  <2>1. D[Len(t)] = D[Len(t) - 1] + HeaderSize + Len(t[Len(t)])
    BY <1>1, FrameBytesDef, Len(t) \in 1 .. Len(t)
  <2>2. Len(t) - 1 = Len(s) /\ Len(s) \in 0 .. Len(s)
    BY <1>1
  <2> HIDE DEF t, B, D
  <2> QED BY <1>1, <1>2, <2>1, <2>2
<1>4. /\ Frame(c) \in Seq(Nat) /\ Len(Frame(c)) = HeaderSize + Len(c)
      /\ Len(c) \in Nat
  BY FrameElements
<1>5. /\ Len(v) = Len(u) + HeaderSize + Len(c)
      /\ \A j \in 1 .. Len(u) : v[j] = u[j]
      /\ \A p \in 1 .. HeaderSize + Len(c) : v[Len(u) + p] = Frame(c)[p]
  <2> DEFINE f == Frame(c)
  <2>1. f \in Seq(Nat) /\ Len(f) = HeaderSize + Len(c)
    BY <1>4
  <2> HIDE DEF f
  <2>2. /\ Len(u \o f) = Len(u) + Len(f)
        /\ \A j \in 1 .. Len(u) + Len(f) :
             (u \o f)[j] = IF j <= Len(u) THEN u[j] ELSE f[j - Len(u)]
    BY <2>1, ConcatProperties
  <2> HIDE DEF v
  <2>3. v = u \o f
    BY DEF f, v
  <2>4. Len(u) \in Nat /\ Len(f) \in Nat
    BY <2>1
  <2>5. /\ Len(v) = Len(u) + Len(f)
        /\ \A j \in 1 .. Len(u) : v[j] = u[j]
        /\ \A p \in 1 .. Len(f) : v[Len(u) + p] = f[p]
    BY <2>2, <2>3, <2>4
  <2> QED BY <1>4, <2>1, <2>5 DEF f, HeaderSize
<1>6. k \in 0 .. Len(s) /\ Len(s) \in Nat /\ Len(u) = B[Len(s)] - B[k] /\ k \in Nat
  BY DEF Carries
<1>7. B[k] \in Nat /\ B[Len(s)] \in Nat /\ D[k] = B[k]
  BY <1>2, <1>6
<1> HIDE DEF t, B, D, v
<1>8. Len(v) = D[Len(t)] - D[k] /\ k \in 0 .. Len(t)
  <2>1. Len(t) = Len(s) + 1
    BY <1>1
  <2>2. k \in 0 .. Len(t)
    BY <1>6, <2>1
  <2>3. Len(v) = Len(u) + HeaderSize + Len(c)
    BY <1>5
  <2>4. Len(v) = D[Len(t)] - D[k]
    <3> DEFINE begin == D[k]  all == B[Len(s)]  h == Len(c)  l == Len(u)
    <3>1. /\ begin \in Nat /\ all \in Nat /\ h \in Nat /\ l = all - begin
          /\ D[Len(t)] = all + HeaderSize + h /\ Len(v) = l + HeaderSize + h
      BY <1>3, <1>4, <1>6, <1>7, <2>3
    <3> HIDE DEF begin, all, h, l
    <3>2. l + HeaderSize + h = (all + HeaderSize + h) - begin
      BY <3>1 DEF HeaderSize
    <3> QED BY <3>1, <3>2 DEF begin
  <2> QED BY <2>2, <2>4
<1>9. ASSUME NEW i \in k + 1 .. Len(t), NEW p \in 1 .. HeaderSize + Len(t[i])
      PROVE  v[D[i - 1] - D[k] + p] = Frame(t[i])[p]
  <2>1. CASE i = Len(t)
    <3>1. i - 1 = Len(s) /\ Len(s) \in 0 .. Len(s) /\ t[i] = c
      BY <1>1, <1>6, <2>1
    <3>2. D[i - 1] - D[k] = Len(u)
      BY <1>2, <1>6, <1>7, <3>1
    <3> QED BY <1>5, <3>1, <3>2
  <2>2. CASE i # Len(t)
    <3>1. i \in k + 1 .. Len(s) /\ i - 1 \in k .. Len(s) /\ i \in 1 .. Len(s)
          /\ i - 1 \in 0 .. Len(s) /\ i \in 0 .. Len(s)
      BY <1>1, <1>6, <2>2
    <3>2. t[i] = s[i] /\ Len(s[i]) \in Nat /\ p \in 1 .. HeaderSize + Len(s[i])
      BY <1>1, <3>1
    <3>3. u[B[i - 1] - B[k] + p] = Frame(s[i])[p]
      BY <3>1, <3>2 DEF Carries, B
    <3>4. /\ B[i] = B[i - 1] + HeaderSize + Len(s[i])
          /\ B[k] <= B[i - 1] /\ B[i] <= B[Len(s)]
      <4>1. Len(s) \in i .. Len(s)
        BY <1>6, <3>1
      <4> QED BY <1>6, <3>1, <4>1, FrameBytesDef, FrameBytesOrder DEF B
    <3>5. B[i - 1] \in Nat /\ B[i] \in Nat /\ D[i - 1] = B[i - 1]
      BY <1>2, <3>1
    <3>6. B[i - 1] - B[k] + p \in 1 .. Len(u)
      <4>1. p \in Nat /\ p >= 1 /\ p <= HeaderSize + Len(s[i])
        BY <3>2 DEF HeaderSize
      <4>2. Len(u) = B[Len(s)] - B[k] /\ B[k] \in Nat /\ B[Len(s)] \in Nat
        BY <1>6, <1>7
      <4>3. Len(s[i]) \in Nat
        BY <3>2
      <4> DEFINE from == B[i - 1]  first == B[k]  all == B[Len(s)]  len == Len(s[i])
      <4>4. /\ from \in Nat /\ first \in Nat /\ all \in Nat /\ len \in Nat
            /\ first <= from /\ from + HeaderSize + len <= all
            /\ p \in Nat /\ p >= 1 /\ p <= HeaderSize + len
        BY <3>4, <3>5, <4>1, <4>2, <4>3
      <4> HIDE DEF from, first, all, len
      <4>5. from - first + p \in 1 .. all - first
        BY <4>4 DEF HeaderSize
      <4> QED BY <4>2, <4>5 DEF from, first, all
    <3> QED BY <1>5, <1>7, <3>2, <3>3, <3>5, <3>6
  <2> QED BY <2>1, <2>2
<1> QED BY <1>8, <1>9 DEF Carries, t, v, D

\* The next frame is at the front, and the others follow it.
LEMMA CarriesNext ==
    ASSUME NEW u \in Seq(Nat), NEW s \in Seq(Seq(Nat)), NEW k, Carries(u, s, k),
           Len(u) > 0
    PROVE  /\ k + 1 \in 1 .. Len(s)
           /\ Len(u) >= HeaderSize + Len(s[k + 1])
           /\ u[1] = Tag /\ u[2] = Len(s[k + 1])
           /\ SubSeq(u, HeaderSize + 1, HeaderSize + Len(s[k + 1])) = s[k + 1]
           /\ Carries(Rest(u, HeaderSize + Len(s[k + 1])), s, k + 1)
<1> DEFINE B == FrameBytes(s)
           len == HeaderSize + Len(s[k + 1])
           v == Rest(u, len)
<1>1. k \in 0 .. Len(s) /\ Len(s) \in Nat /\ Len(u) = B[Len(s)] - B[k]
  BY DEF Carries
<1>2. \A n \in 0 .. Len(s) : B[n] \in Nat
  BY FrameBytesType
<1>3. k + 1 \in 1 .. Len(s)
  <2> SUFFICES ASSUME k = Len(s) PROVE FALSE
    BY <1>1
  <2> HIDE DEF B
  <2> QED BY <1>1, <1>2
<1>4. s[k + 1] \in Seq(Nat) /\ Len(s[k + 1]) \in Nat
  BY <1>3
<1>5. B[k + 1] = B[k] + len /\ B[Len(s)] >= B[k + 1]
  <2>1. B[k + 1] = B[k] + HeaderSize + Len(s[k + 1])
    BY <1>1, <1>3, FrameBytesDef, (k + 1) - 1 = k
  <2>2. B[Len(s)] >= B[k] + HeaderSize + Len(s[k + 1])
    BY <1>1, <1>3, FrameBytesGrows
  <2>3. B[k] \in Nat /\ B[k + 1] \in Nat /\ B[Len(s)] \in Nat
    BY <1>1, <1>2, <1>3
  <2>4. len \in Nat /\ HeaderSize + Len(s[k + 1]) = len
    BY <1>4 DEF HeaderSize
  <2>5. B[k + 1] = B[k] + len /\ B[Len(s)] >= B[k] + len
    <3> DEFINE first == B[k]  next == B[k + 1]  all == B[Len(s)]  h == Len(s[k + 1])
    <3>1. /\ first \in Nat /\ next \in Nat /\ all \in Nat /\ h \in Nat
          /\ next = first + HeaderSize + h /\ all >= first + HeaderSize + h
          /\ len = HeaderSize + h
      BY <1>4, <2>1, <2>2, <2>3
    <3> HIDE DEF first, next, all, h, len
    <3>2. next = first + len /\ all >= first + len
      BY <3>1 DEF HeaderSize
    <3> QED BY <3>2 DEF first, next, all
  <2> HIDE DEF B, len
  <2> QED BY <2>5
<1>6. len \in Nat /\ len >= 2 /\ Len(u) >= len
  <2>1. B[k] \in Nat /\ B[Len(s)] \in Nat
    BY <1>1, <1>2
  <2> HIDE DEF B
  <2> QED BY <1>1, <1>4, <1>5, <2>1 DEF HeaderSize
<1>7. \A p \in 1 .. len : u[p] = Frame(s[k + 1])[p]
  <2>1. ASSUME NEW p \in 1 .. len PROVE u[p] = Frame(s[k + 1])[p]
    <3>1. u[B[(k + 1) - 1] - B[k] + p] = Frame(s[k + 1])[p]
      BY <1>1, <1>3 DEF Carries
    <3>2. B[(k + 1) - 1] - B[k] + p = p
      <4>1. (k + 1) - 1 = k /\ B[k] \in Nat /\ p \in Nat
        BY <1>1, <1>2, <1>6
      <4> HIDE DEF B
      <4> QED BY <4>1
    <3> QED BY <3>1, <3>2
  <2> QED BY <2>1
<1>8. u[1] = Tag /\ u[2] = Len(s[k + 1])
  <2>1. 1 \in 1 .. len /\ 2 \in 1 .. len
    BY <1>6
  <2> QED BY <1>4, <1>7, <2>1, FrameElements
<1>9. SubSeq(u, HeaderSize + 1, len) = s[k + 1]
  <2> DEFINE c == SubSeq(u, HeaderSize + 1, len)
  <2>1. /\ c \in Seq(Nat) /\ Len(c) = Len(s[k + 1])
        /\ \A p \in 1 .. Len(c) : c[p] = u[HeaderSize + p]
    <3> DEFINE h == Len(s[k + 1])
    <3>1. h \in Nat /\ len = HeaderSize + h /\ HeaderSize + h <= Len(u)
      BY <1>4, <1>6
    <3> HIDE DEF h, len
    <3>2. SubSeq(u, HeaderSize + 1, HeaderSize + h) \in Seq(Nat)
      BY <3>1 DEF HeaderSize
    <3>3. Len(SubSeq(u, HeaderSize + 1, HeaderSize + h)) = h
      BY <3>1 DEF HeaderSize
    <3>4. \A p \in 1 .. h :
             SubSeq(u, HeaderSize + 1, HeaderSize + h)[p] = u[HeaderSize + p]
      BY <3>1 DEF HeaderSize
    <3> QED BY <3>1, <3>2, <3>3, <3>4 DEF h
  <2>2. \A p \in 1 .. Len(c) : c[p] = s[k + 1][p]
    <3>1. ASSUME NEW p \in 1 .. Len(s[k + 1])
          PROVE  u[HeaderSize + p] = s[k + 1][p]
      <4>1. HeaderSize + p \in 1 .. len
        BY <1>4 DEF HeaderSize
      <4>2. Frame(s[k + 1])[HeaderSize + p] = s[k + 1][p]
        BY <1>4, FrameElements
      <4> QED BY <1>7, <4>1, <4>2
    <3> HIDE DEF c
    <3> QED BY <2>1, <3>1
  <2> HIDE DEF c
  <2>3. c = s[k + 1]
    BY <1>4, <2>1, <2>2, SeqEqual
  <2> QED BY <2>3 DEF c
<1>10. /\ v \in Seq(Nat) /\ Len(v) = Len(u) - len
       /\ \A j \in 1 .. Len(v) : v[j] = u[len + j]
  <2> HIDE DEF len
  <2> QED BY <1>6 DEF Rest
<1>11. Len(v) = B[Len(s)] - B[k + 1] /\ k + 1 \in 0 .. Len(s)
  <2>1. B[k] \in Nat /\ B[Len(s)] \in Nat
    BY <1>1, <1>2
  <2> HIDE DEF B, len, v
  <2> QED BY <1>1, <1>3, <1>5, <1>6, <1>10, <2>1
<1>12. ASSUME NEW i \in (k + 1) + 1 .. Len(s), NEW p \in 1 .. HeaderSize + Len(s[i])
       PROVE  v[B[i - 1] - B[k + 1] + p] = Frame(s[i])[p]
  <2>1. i \in k + 1 .. Len(s) /\ i - 1 \in 0 .. Len(s) /\ i \in 1 .. Len(s)
        /\ k + 1 \in 0 .. Len(s) /\ i - 1 >= k + 1 /\ Len(s[i]) \in Nat
    BY <1>1, <1>3
  <2>2. u[B[i - 1] - B[k] + p] = Frame(s[i])[p]
    BY <2>1 DEF Carries
  <2>3. B[k + 1] <= B[i - 1]
    <3>1. i - 1 \in k + 1 .. Len(s)
      BY <2>1, <1>1
    <3> QED BY <2>1, <3>1, FrameBytesOrder
  <2>4. B[Len(s)] >= B[i - 1] + HeaderSize + Len(s[i])
    <3>1. (i - 1) + 1 = i /\ Len(s) \in i - 1 .. Len(s) /\ Len(s) > i - 1
      BY <1>1, <2>1
    <3>2. B[Len(s)] >= B[i - 1] + HeaderSize + Len(s[(i - 1) + 1])
      BY <2>1, <3>1, FrameBytesGrows
    <3> QED BY <3>1, <3>2
  <2>5. B[i - 1] \in Nat /\ B[k + 1] \in Nat /\ B[k] \in Nat /\ B[Len(s)] \in Nat
    BY <1>1, <1>2, <2>1
  <2>6. p \in 1 .. HeaderSize + Len(s[i]) /\ p \in Nat
    BY <2>1 DEF HeaderSize
  <2> DEFINE j == B[i - 1] - B[k + 1] + p
  <2> HIDE DEF B, len, v
  <2>7. j \in 1 .. Len(v) /\ len + j = B[i - 1] - B[k] + p
    <3>1. p >= 1 /\ p <= HeaderSize + Len(s[i]) /\ Len(s[i]) \in Nat
      BY <2>1, <2>6 DEF HeaderSize
    <3>2. /\ B[k + 1] = B[k] + len /\ len \in Nat
          /\ Len(v) = B[Len(s)] - B[k + 1] /\ p \in Nat
      BY <1>5, <1>6, <1>11, <2>6
    <3> DEFINE from == B[i - 1]  next == B[k + 1]  all == B[Len(s)]  m == Len(s[i])
               first == B[k]
    <3>3. /\ from \in Nat /\ first \in Nat /\ next \in Nat /\ all \in Nat /\ m \in Nat
          /\ next <= from /\ all >= from + HeaderSize + m /\ next = first + len
          /\ p \in Nat /\ p >= 1 /\ p <= HeaderSize + m
      BY <2>3, <2>4, <2>5, <3>1, <3>2
    <3> HIDE DEF from, first, next, all, m
    <3>4. from - next + p \in 1 .. all - next /\ len + (from - next + p) = from - first + p
      BY <3>2, <3>3 DEF HeaderSize
    <3> QED BY <3>2, <3>4 DEF from, first, next, all, j
  <2> HIDE DEF j
  <2>8. v[j] = Frame(s[i])[p]
    BY <1>10, <2>2, <2>7 DEF B
  <2> QED BY <2>8 DEF j
<1>13. Carries(v, s, k + 1)
  BY <1>11, <1>12 DEF Carries
<1> QED BY <1>3, <1>6, <1>8, <1>9, <1>13

-------------------------------------------------------------------------------
(* Cutting sequences                                                       *)

LEMMA CutElements ==
    ASSUME NEW a \in Seq(Nat), NEW n \in Nat, n <= Len(a)
    PROVE  /\ \A i \in 1 .. n : First(a, n)[i] = a[i]
           /\ \A i \in 1 .. Len(a) - n : Rest(a, n)[i] = a[n + i]
<1>1. ASSUME NEW i \in 1 .. n PROVE First(a, n)[i] = a[i]
  BY DEF First
<1>2. ASSUME NEW i \in 1 .. Len(a) - n PROVE Rest(a, n)[i] = a[n + i]
  BY DEF Rest
<1> QED BY <1>1, <1>2

LEMMA MiddleElements ==
    ASSUME NEW a \in Seq(Nat), NEW n \in Nat, n <= Len(a), NEW m \in 1 .. n + 1
    PROVE  /\ SubSeq(a, m, n) \in Seq(Nat) /\ Len(SubSeq(a, m, n)) = n - m + 1
           /\ \A i \in 1 .. n - m + 1 : SubSeq(a, m, n)[i] = a[m + i - 1]
<1>1. ASSUME NEW i \in 1 .. n - m + 1 PROVE SubSeq(a, m, n)[i] = a[m + i - 1]
  OBVIOUS
<1> QED BY <1>1

LEMMA ByteConcat ==
    ASSUME NEW s \in Seq(Nat), NEW t \in Seq(Nat), NEW u \in Seq(Nat)
    PROVE  (s \o t) \o u = s \o (t \o u)
BY ConcatAssociative

LEMMA CutConcat ==
    ASSUME NEW a \in Seq(Nat), NEW b \in Seq(Nat), NEW n \in Nat, n <= Len(a)
    PROVE  /\ Rest(a \o b, n) = Rest(a, n) \o b
           /\ \A m \in 1 .. n + 1 : SubSeq(a \o b, m, n) = SubSeq(a, m, n)
<1>1. /\ a \o b \in Seq(Nat) /\ Len(a \o b) = Len(a) + Len(b)
      /\ \A i \in 1 .. Len(a) + Len(b) :
            (a \o b)[i] = IF i <= Len(a) THEN a[i] ELSE b[i - Len(a)]
  BY ConcatProperties
<1>2. Len(a) \in Nat /\ Len(b) \in Nat
  OBVIOUS
<1>3. Rest(a \o b, n) = Rest(a, n) \o b
  <2> DEFINE r == Rest(a, n)  x == Rest(a \o b, n)  y == r \o b
  <2>1. /\ r \in Seq(Nat) /\ Len(r) = Len(a) - n
        /\ \A i \in 1 .. Len(r) : r[i] = a[n + i]
    BY CutType, CutElements
  <2>2. /\ x \in Seq(Nat) /\ Len(x) = Len(a) + Len(b) - n
        /\ \A i \in 1 .. Len(x) : x[i] = (a \o b)[n + i]
    <3> DEFINE ab == a \o b
    <3>1. ab \in Seq(Nat) /\ Len(ab) = Len(a) + Len(b) /\ n <= Len(ab)
      BY <1>1, <1>2
    <3> HIDE DEF ab
    <3>2. /\ Rest(ab, n) \in Seq(Nat) /\ Len(Rest(ab, n)) = Len(ab) - n
          /\ \A i \in 1 .. Len(ab) - n : Rest(ab, n)[i] = ab[n + i]
      BY <3>1, CutType, CutElements
    <3> QED BY <3>1, <3>2 DEF ab
  <2> HIDE DEF r, x
  <2>3. /\ y \in Seq(Nat) /\ Len(y) = Len(r) + Len(b)
        /\ \A i \in 1 .. Len(r) + Len(b) :
              y[i] = IF i <= Len(r) THEN r[i] ELSE b[i - Len(r)]
    BY <2>1, ConcatProperties
  <2> HIDE DEF y
  <2>4. Len(x) = Len(y)
    BY <1>2, <2>1, <2>2, <2>3
  <2>5. ASSUME NEW i \in 1 .. Len(x) PROVE x[i] = y[i]
    <3>1. i \in 1 .. Len(r) + Len(b) /\ n + i \in 1 .. Len(a) + Len(b)
      BY <1>2, <2>1, <2>2
    <3>2. x[i] = IF n + i <= Len(a) THEN a[n + i] ELSE b[n + i - Len(a)]
      <4>1. x[i] = (a \o b)[n + i]
        BY <2>2
      <4>2. (a \o b)[n + i] = IF n + i <= Len(a) THEN a[n + i] ELSE b[n + i - Len(a)]
        <5> DEFINE ab == a \o b  at == n + i
        <5>1. at \in 1 .. Len(a) + Len(b)
          BY <3>1
        <5>2. ab[at] = IF at <= Len(a) THEN a[at] ELSE b[at - Len(a)]
          <6> HIDE DEF at
          <6>1. \A j \in 1 .. Len(a) + Len(b) :
                    ab[j] = IF j <= Len(a) THEN a[j] ELSE b[j - Len(a)]
            BY <1>1
          <6> HIDE DEF ab
          <6> QED BY <5>1, <6>1
        <5> QED BY <5>2
      <4> QED BY <4>1, <4>2, Zenon
    <3>3. y[i] = IF i <= Len(r) THEN r[i] ELSE b[i - Len(r)]
      BY <2>3, <3>1
    <3>4. CASE i <= Len(r)
      <4>1. n + i <= Len(a) /\ i \in 1 .. Len(r)
        BY <1>2, <2>1, <3>1, <3>4
      <4> QED BY <2>1, <3>2, <3>3, <3>4, <4>1
    <3>5. CASE ~(i <= Len(r))
      <4>1. ~(n + i <= Len(a)) /\ n + i - Len(a) = i - Len(r)
        BY <1>2, <2>1, <3>1, <3>5
      <4> QED BY <3>2, <3>3, <3>5, <4>1
    <3> QED BY <3>4, <3>5
  <2>6. x = y
    BY <2>2, <2>3, <2>4, <2>5, SeqEqual
  <2> QED BY <2>6 DEF x, y, r
<1>4. ASSUME NEW m \in 1 .. n + 1 PROVE SubSeq(a \o b, m, n) = SubSeq(a, m, n)
  <2> DEFINE ab == a \o b
  <2>1. /\ ab \in Seq(Nat) /\ Len(ab) = Len(a) + Len(b)
        /\ \A i \in 1 .. Len(a) : ab[i] = a[i]
    BY <1>1, <1>2
  <2> HIDE DEF ab
  <2> DEFINE x == SubSeq(ab, m, n)  y == SubSeq(a, m, n)
  <2>2. m \in Int /\ n \in Int /\ m >= 1 /\ m <= n + 1
    OBVIOUS
  <2>3. ASSUME NEW i \in m .. n PROVE ab[i] = a[i]
    <3>1. i \in 1 .. Len(a)
      BY <1>2, <2>2
    <3> QED BY <2>1, <3>1
  <2>4. /\ x \in Seq(Nat) /\ Len(x) = n - m + 1
        /\ \A i \in 1 .. n - m + 1 : x[i] = ab[m + i - 1]
    <3>1. n <= Len(ab)
      BY <1>2, <2>1
    <3> QED BY <2>1, <3>1, MiddleElements
  <2>5. /\ y \in Seq(Nat) /\ Len(y) = n - m + 1
        /\ \A i \in 1 .. n - m + 1 : y[i] = a[m + i - 1]
    BY MiddleElements
  <2> HIDE DEF x, y
  <2>6. ASSUME NEW i \in 1 .. Len(x) PROVE x[i] = y[i]
    <3>1. i \in 1 .. n - m + 1 /\ m + i - 1 \in m .. n
      BY <2>2, <2>4
    <3> QED BY <2>3, <2>4, <2>5, <3>1
  <2>7. x = y
    BY <2>4, <2>5, <2>6, SeqEqual
  <2> QED BY <2>7 DEF x, y, ab
<1> QED BY <1>3, <1>4

LEMMA CutTwice ==
    ASSUME NEW a \in Seq(Nat), NEW m \in Nat, NEW n \in Nat, m + n <= Len(a)
    PROVE  /\ Rest(Rest(a, m), n) = Rest(a, m + n)
           /\ First(Rest(a, m), n) = SubSeq(a, m + 1, m + n)
<1> DEFINE r == Rest(a, m)
<1>1. /\ r \in Seq(Nat) /\ Len(r) = Len(a) - m
      /\ \A i \in 1 .. Len(r) : r[i] = a[m + i]
  <2>1. m <= Len(a)
    OBVIOUS
  <2> QED BY <2>1, CutType, CutElements
<1> HIDE DEF r
<1>2. Rest(r, n) = Rest(a, m + n)
  <2> DEFINE x == Rest(r, n)  y == Rest(a, m + n)
  <2>1. /\ x \in Seq(Nat) /\ Len(x) = Len(r) - n
        /\ \A i \in 1 .. Len(x) : x[i] = r[n + i]
    <3>1. r \in Seq(Nat) /\ n <= Len(r)
      BY <1>1
    <3>2. /\ Rest(r, n) \in Seq(Nat) /\ Len(Rest(r, n)) = Len(r) - n
          /\ \A i \in 1 .. Len(r) - n : Rest(r, n)[i] = r[n + i]
      BY <3>1, CutType, CutElements
    <3> QED BY <3>2
  <2>2. /\ y \in Seq(Nat) /\ Len(y) = Len(a) - (m + n)
        /\ \A i \in 1 .. Len(y) : y[i] = a[m + n + i]
    <3> DEFINE q == m + n
    <3>1. q \in Nat /\ q <= Len(a)
      OBVIOUS
    <3> HIDE DEF q
    <3>2. /\ Rest(a, q) \in Seq(Nat) /\ Len(Rest(a, q)) = Len(a) - q
          /\ \A i \in 1 .. Len(a) - q : Rest(a, q)[i] = a[q + i]
      BY <3>1, CutType, CutElements
    <3> QED BY <3>2 DEF q
  <2> HIDE DEF x, y
  <2>3. Len(x) = Len(y)
    BY <1>1, <2>1, <2>2
  <2>4. ASSUME NEW i \in 1 .. Len(x) PROVE x[i] = y[i]
    <3>1. n + i \in 1 .. Len(r) /\ m + (n + i) = m + n + i /\ i \in 1 .. Len(y)
      BY <1>1, <2>1, <2>3
    <3> QED BY <1>1, <2>1, <2>2, <3>1
  <2>5. x = y
    BY <2>1, <2>2, <2>3, <2>4, SeqEqual
  <2> QED BY <2>5 DEF x, y
<1>3. First(r, n) = SubSeq(a, m + 1, m + n)
  <2> DEFINE x == First(r, n)  y == SubSeq(a, m + 1, m + n)
  <2>1. /\ x \in Seq(Nat) /\ Len(x) = n
        /\ \A i \in 1 .. Len(x) : x[i] = r[i]
    <3>1. n <= Len(r)
      BY <1>1
    <3> QED BY <1>1, <3>1, CutType, CutElements
  <2>2. /\ y \in Seq(Nat) /\ Len(y) = n
        /\ \A i \in 1 .. n : y[i] = a[m + i]
    <3> DEFINE q == m + n  l == m + 1
    <3>1. q \in Nat /\ q <= Len(a) /\ l \in 1 .. q + 1 /\ q - l + 1 = n
      OBVIOUS
    <3>2. \A i \in 1 .. n : l + i - 1 = m + i
      OBVIOUS
    <3> HIDE DEF q, l
    <3>3. /\ SubSeq(a, l, q) \in Seq(Nat) /\ Len(SubSeq(a, l, q)) = n
          /\ \A i \in 1 .. n : SubSeq(a, l, q)[i] = a[l + i - 1]
      BY <3>1, MiddleElements
    <3> QED BY <3>2, <3>3 DEF q, l
  <2> HIDE DEF x, y
  <2>3. Len(x) = Len(y)
    BY <2>1, <2>2
  <2>4. ASSUME NEW i \in 1 .. Len(x) PROVE x[i] = y[i]
    <3>1. i \in 1 .. n /\ i \in 1 .. Len(r)
      BY <1>1, <2>1
    <3> QED BY <1>1, <2>1, <2>2, <3>1
  <2>5. x = y
    BY <2>1, <2>2, <2>3, <2>4, SeqEqual
  <2> QED BY <2>5 DEF x, y
<1> QED BY <1>2, <1>3 DEF r

\* Nothing is lost where a sequence is cut in two.
LEMMA CutWhole ==
    ASSUME NEW a \in Seq(Nat), NEW n \in Nat, n <= Len(a)
    PROVE  First(a, n) \o Rest(a, n) = a
<1> DEFINE f == First(a, n)  r == Rest(a, n)
<1>1. /\ f \in Seq(Nat) /\ Len(f) = n /\ (\A i \in 1 .. n : f[i] = a[i])
      /\ r \in Seq(Nat) /\ Len(r) = Len(a) - n
      /\ \A i \in 1 .. Len(r) : r[i] = a[n + i]
  BY CutType, CutElements
<1> HIDE DEF f, r
<1> DEFINE x == f \o r
<1>2. /\ x \in Seq(Nat) /\ Len(x) = Len(f) + Len(r)
      /\ \A i \in 1 .. Len(f) + Len(r) :
            x[i] = IF i <= Len(f) THEN f[i] ELSE r[i - Len(f)]
  BY <1>1, ConcatProperties
<1> HIDE DEF x
<1>3. Len(x) = Len(a) /\ \A i \in 1 .. Len(x) : x[i] = a[i]
  BY <1>1, <1>2
<1>4. x = a
  BY <1>2, <1>3, SeqEqual
<1> QED BY <1>4 DEF x, f, r

-------------------------------------------------------------------------------
(* The receiver and the stream                                             *)

\* What has arrived or is on the way, in its order.
Stream == recvBuffer \o data \o wire

\* No packet has been torn yet.
Whole == ~packet.torn /\ \A i \in 1 .. Len(delivered) : ~Torn(i)

\* How many packets have been taken out of the buffer.
Taken == Len(delivered) + (IF pc = "deliver" THEN 1 ELSE 0)

LoopInv ==
    /\ pc # "deliver" => packet = NoPacket
    /\ pc # "put" => data = <<>>
    /\ posted => pc = "idle"
    /\ closing => pc \in {"post", "idle"} /\ ~posted

\* As long as no packet is torn and no read has failed part-way, what is still to be
\* taken is the frames of the peer's other packets, each whole: the receiver looks
\* for a header where a frame begins.
InSync ==
    up /\ ~closing /\ Whole /\ pc # "lost" =>
        /\ Carries(Stream, sent, Taken)
        /\ pc = "deliver" => packet = Packet(sent[Taken])

StreamInv ==
    TypeOK /\ LoopInv /\ InSync /\ IntactUntilTorn /\ NoWrongAccusation

LEMMA SentType == ASSUME TypeOK PROVE sent \in Seq(Seq(Nat))
BY ReceiveAssumption DEF TypeOK

LEMMA StreamType == ASSUME TypeOK PROVE Stream \in Seq(Nat)
BY DEF TypeOK, Stream

LEMMA InitStream == ASSUME Init PROVE StreamInv
<1>1. TypeOK
  BY InitType
<1>2. LoopInv
  BY DEF Init, LoopInv
<1>3. Stream = <<>> /\ sent = <<>> /\ Taken = 0 /\ pc # "deliver"
  BY DEF Init, Stream, Taken
<1>4. InSync
  BY <1>3, CarriesNothing DEF InSync
<1>5. IntactUntilTorn /\ NoWrongAccusation
  BY DEF Init, IntactUntilTorn, NoWrongAccusation
<1> QED BY <1>1, <1>2, <1>4, <1>5 DEF StreamInv

\* A step that neither delivers nor takes a packet, nor gives the connection
\* up, keeps the last two parts.
LEMMA NothingTaken ==
    ASSUME StreamInv,
           UNCHANGED <<delivered, closing>>, up' => up,
           Len(sent) \in Nat, Len(sent') \in Nat, Len(sent') >= Len(sent),
           \A i \in 1 .. Len(sent) : sent'[i] = sent[i]
    PROVE  IntactUntilTorn' /\ NoWrongAccusation'
<1>1. IntactUntilTorn'
  <2> SUFFICES ASSUME up', NEW i \in 1 .. Len(delivered), \A j \in 1 .. i : ~Torn(j)
               PROVE  i <= Len(sent') /\ delivered[i] = Packet(sent'[i])
    BY DEF IntactUntilTorn, Torn
  <2>1. i <= Len(sent) /\ delivered[i] = Packet(sent[i])
    BY DEF StreamInv, IntactUntilTorn
  <2>2. i \in 1 .. Len(sent)
    BY <2>1
  <2> QED BY <2>1, <2>2
<1>2. NoWrongAccusation'
  <2> SUFFICES ASSUME closing', up'
               PROVE  \/ \E i \in 1 .. Len(delivered) : Torn(i)
                      \/ \E i \in 1 .. Len(sent') : Len(sent'[i]) > MaxContent
    BY DEF NoWrongAccusation, Torn
  <2>1. CASE \E i \in 1 .. Len(delivered) : Torn(i)
    BY <2>1
  <2>2. CASE \E i \in 1 .. Len(sent) : Len(sent[i]) > MaxContent
    BY <2>2
  <2> QED BY <2>1, <2>2 DEF StreamInv, NoWrongAccusation
<1> QED BY <1>1, <1>2

LEMMA PeerSendStream == ASSUME StreamInv, PeerSend PROVE StreamInv'
<1>1. PICK c \in Contents : sent' = Append(sent, c) /\ wire' = wire \o Frame(c)
  BY DEF PeerSend
<1>2. TypeOK /\ TypeOK' /\ sent \in Seq(Seq(Nat)) /\ c \in Seq(Nat)
  BY PeerSendType, SentType, ReceiveAssumption DEF StreamInv
<1>3. /\ Len(sent') = Len(sent) + 1 /\ Len(sent) \in Nat
      /\ \A i \in 1 .. Len(sent) : sent'[i] = sent[i]
  BY <1>1, <1>2
<1>4. LoopInv'
  BY DEF StreamInv, LoopInv, PeerSend
<1>5. InSync'
  <2> SUFFICES ASSUME up', ~closing', Whole', pc' # "lost"
               PROVE  /\ Carries(Stream', sent', Taken')
                      /\ pc' = "deliver" => packet' = Packet(sent'[Taken'])
    BY DEF InSync
  <2>1. up /\ ~closing /\ Whole /\ pc # "lost" /\ Taken' = Taken
    BY DEF PeerSend, Whole, Torn, Taken
  <2>2. Carries(Stream, sent, Taken) /\ (pc = "deliver" => packet = Packet(sent[Taken]))
    BY <2>1 DEF StreamInv, InSync
  <2>3. Stream' = Stream \o Frame(c)
    <3>1. /\ recvBuffer \o data \in Seq(Nat) /\ wire \in Seq(Nat)
          /\ Frame(c) \in Seq(Nat)
      BY <1>2, FrameElements DEF TypeOK
    <3> DEFINE front == recvBuffer \o data  f == Frame(c)
    <3>2. front \in Seq(Nat) /\ wire \in Seq(Nat) /\ f \in Seq(Nat)
      BY <3>1
    <3> HIDE DEF front, f
    <3>3. (front \o wire) \o f = front \o (wire \o f)
      BY <3>2, ByteConcat
    <3>4. (recvBuffer \o data \o wire) \o Frame(c)
              = recvBuffer \o data \o (wire \o Frame(c))
      BY <3>3 DEF front, f
    <3> QED BY <1>1, <3>4 DEF Stream, PeerSend
  <2>4. Carries(Stream', sent', Taken)
    BY <1>1, <1>2, <2>2, <2>3, CarriesMore, StreamType
  <2>5. pc' = "deliver" => packet' = Packet(sent'[Taken])
    <3> SUFFICES ASSUME pc = "deliver" PROVE packet = Packet(sent'[Taken])
      BY DEF PeerSend
    <3>1. Taken \in 1 .. Len(sent)
      <4>1. Taken \in 0 .. Len(sent)
        BY <2>2 DEF Carries
      <4>2. Taken = Len(delivered) + 1 /\ Len(delivered) \in Nat
        BY <1>2 DEF Taken, TypeOK
      <4> QED BY <4>1, <4>2
    <3> QED BY <1>3, <2>2, <3>1
  <2> QED BY <2>1, <2>4, <2>5
<1>6. IntactUntilTorn' /\ NoWrongAccusation'
  BY <1>3, NothingTaken DEF PeerSend
<1> QED BY <1>2, <1>4, <1>5, <1>6 DEF StreamInv

\* A step that moves bytes along the stream, or none, keeps the receiver in
\* step, and so does one after which there will be no receiver.
LEMMA StreamKept ==
    ASSUME StreamInv, UNCHANGED <<sent, delivered, closing, packet>>, up' => up,
           up' /\ pc' # "lost" => Stream' = Stream,
           pc = "deliver" <=> pc' = "deliver", pc = "lost" => pc' = "lost",
           TypeOK', LoopInv'
    PROVE  StreamInv'
<1>1. InSync'
  <2> SUFFICES ASSUME up', ~closing', Whole', pc' # "lost"
               PROVE  /\ Carries(Stream', sent', Taken')
                      /\ pc' = "deliver" => packet' = Packet(sent'[Taken'])
    BY DEF InSync
  <2>1. up /\ ~closing /\ Whole /\ Taken' = Taken /\ Stream' = Stream /\ pc # "lost"
    BY DEF Whole, Torn, Taken
  <2>2. Carries(Stream, sent, Taken) /\ (pc = "deliver" => packet = Packet(sent[Taken]))
    BY <2>1 DEF StreamInv, InSync
  <2> QED BY <2>1, <2>2
<1>2. Len(sent) \in Nat /\ Len(sent') = Len(sent)
      /\ \A i \in 1 .. Len(sent) : sent'[i] = sent[i]
  BY DEF StreamInv, TypeOK
<1>3. IntactUntilTorn' /\ NoWrongAccusation'
  BY <1>2, NothingTaken
<1> QED BY <1>1, <1>3 DEF StreamInv

LEMMA OnRecvStream == ASSUME StreamInv, OnRecv PROVE StreamInv'
<1>1. PICK n \in 0 .. MaxPacketSize :
          n <= Len(wire) /\ data' = First(wire, n) /\ wire' = Rest(wire, n)
  BY DEF OnRecv
<1>2. n \in Nat /\ wire \in Seq(Nat) /\ recvBuffer \in Seq(Nat)
  BY ReceiveAssumption DEF MaxPacketSize, HeaderSize, StreamInv, TypeOK
<1>3. TypeOK' /\ LoopInv'
  BY OnRecvType DEF StreamInv, LoopInv, OnRecv
<1>4. Stream' = Stream
  <2>1. data = <<>>
    BY DEF OnRecv, StreamInv, LoopInv
  <2>2. First(wire, n) \in Seq(Nat) /\ Rest(wire, n) \in Seq(Nat)
        /\ First(wire, n) \o Rest(wire, n) = wire
    BY <1>1, <1>2, CutType, CutWhole
  <2>3. recvBuffer \o First(wire, n) \o Rest(wire, n)
            = recvBuffer \o (First(wire, n) \o Rest(wire, n))
    <3> DEFINE f == First(wire, n)  r == Rest(wire, n)
    <3>1. recvBuffer \in Seq(Nat) /\ f \in Seq(Nat) /\ r \in Seq(Nat)
      BY <1>2, <2>2
    <3> HIDE DEF f, r
    <3>2. (recvBuffer \o f) \o r = recvBuffer \o (f \o r)
      BY <3>1, ConcatAssociative
    <3> QED BY <3>2 DEF f, r
  <2>4. recvBuffer \o <<>> = recvBuffer
    BY <1>2
  <2> QED BY <1>1, <2>1, <2>2, <2>3, <2>4 DEF Stream, OnRecv
<1> QED BY <1>3, <1>4, StreamKept DEF OnRecv, peerVars

LEMMA FailureStream == ASSUME StreamInv, OnCompletionFailure PROVE StreamInv'
<1>1. TypeOK' /\ LoopInv'
  BY FailureType DEF StreamInv, LoopInv, OnCompletionFailure
<1> QED BY <1>1, StreamKept DEF OnCompletionFailure, peerVars

LEMMA PutDataStream == ASSUME StreamInv, PutData PROVE StreamInv'
<1>1. TypeOK' /\ LoopInv'
  BY PutDataType DEF StreamInv, LoopInv, PutData
<1>2. Stream' = Stream
  <2>1. recvBuffer \o data \in Seq(Nat)
    BY DEF StreamInv, TypeOK
  <2>2. (recvBuffer \o data) \o <<>> = recvBuffer \o data
    BY <2>1
  <2> QED BY <2>2 DEF Stream, PutData
<1> QED BY <1>1, <1>2, StreamKept DEF PutData, peerVars

LEMMA OtherStepsStream ==
    ASSUME StreamInv, PeerClose \/ PostRecv \/ OnDisconnected \/ UNCHANGED receiveVars
    PROVE  StreamInv'
<1>1. TypeOK'
  BY OtherStepsType DEF StreamInv
<1>2. CASE PeerClose
  <2>1. LoopInv' /\ Stream' = Stream
    BY <1>2 DEF StreamInv, LoopInv, PeerClose, Stream
  <2> QED BY <1>1, <1>2, <2>1, StreamKept DEF PeerClose
<1>3. CASE PostRecv
  <2>1. LoopInv' /\ Stream' = Stream
    BY <1>3 DEF StreamInv, LoopInv, PostRecv, Stream
  <2> QED BY <1>1, <1>3, <2>1, StreamKept DEF PostRecv, peerVars
<1>4. CASE OnDisconnected
  <2>1. LoopInv'
    BY <1>4 DEF StreamInv, LoopInv, OnDisconnected
  <2> QED BY <1>1, <1>4, <2>1, StreamKept DEF OnDisconnected, peerVars
<1>5. CASE UNCHANGED receiveVars
  <2>1. LoopInv' /\ Stream' = Stream
    BY <1>5 DEF StreamInv, LoopInv, receiveVars, Stream
  <2> QED BY <1>1, <1>5, <2>1, StreamKept DEF receiveVars, peerVars
<1> QED BY <1>2, <1>3, <1>4, <1>5

LEMMA RecvPacketStream == ASSUME StreamInv, RecvPacket PROVE StreamInv'
<1>1. /\ pc = "deliver" /\ pc' = "extract" /\ packet' = NoPacket
      /\ delivered' = Append(delivered, packet)
      /\ UNCHANGED <<sent, recvBuffer, data, wire, closing, up>>
  BY DEF RecvPacket, peerVars
<1>2. TypeOK' /\ LoopInv' /\ ~closing
  BY RecvPacketType DEF StreamInv, LoopInv, RecvPacket
<1>3. /\ Len(delivered) \in Nat /\ Len(delivered') = Len(delivered) + 1
      /\ delivered'[Len(delivered) + 1] = packet
      /\ \A i \in 1 .. Len(delivered) : delivered'[i] = delivered[i]
  BY <1>1 DEF StreamInv, TypeOK
<1>4. Whole' => Whole
  <2> SUFFICES ASSUME Whole' PROVE Whole
    OBVIOUS
  <2>1. \A i \in 1 .. Len(delivered) + 1 : ~delivered'[i].torn
    BY <1>3 DEF Whole, Torn
  <2>2. ~packet.torn
    BY <1>3, <2>1
  <2>3. ASSUME NEW i \in 1 .. Len(delivered) PROVE ~delivered[i].torn
    BY <1>3, <2>1, i \in 1 .. Len(delivered) + 1
  <2> QED BY <2>2, <2>3 DEF Whole, Torn
<1>5. Stream' = Stream /\ Taken' = Taken /\ Taken = Len(delivered) + 1
  BY <1>1, <1>3 DEF Stream, Taken
<1>6. InSync'
  BY <1>1, <1>4, <1>5 DEF StreamInv, InSync
<1>7. IntactUntilTorn'
  <2> SUFFICES ASSUME up, NEW i \in 1 .. Len(delivered) + 1,
                      \A j \in 1 .. i : ~delivered'[j].torn
               PROVE  i <= Len(sent) /\ delivered'[i] = Packet(sent[i])
    BY <1>1, <1>3 DEF IntactUntilTorn, Torn
  <2>1. CASE i <= Len(delivered)
    <3>1. i \in 1 .. Len(delivered)
      BY <1>3, <2>1
    <3>2. ASSUME NEW j \in 1 .. i PROVE ~Torn(j)
      <4>1. j \in 1 .. Len(delivered)
        BY <3>1, <1>3
      <4> QED BY <1>3, <4>1 DEF Torn
    <3> QED BY <1>3, <3>1, <3>2 DEF StreamInv, IntactUntilTorn
  <2>2. CASE i = Len(delivered) + 1
    <3>1. ~packet.torn
      BY <1>3, <2>2, i \in 1 .. i
    <3>2. ASSUME NEW j \in 1 .. Len(delivered) PROVE ~Torn(j)
      BY <1>3, <2>2, j \in 1 .. i DEF Torn
    <3>3. Carries(Stream, sent, Taken) /\ packet = Packet(sent[Taken])
      BY <1>1, <1>2, <3>1, <3>2 DEF StreamInv, InSync, Whole
    <3> QED BY <1>3, <1>5, <2>2, <3>3 DEF Carries
  <2> QED BY <1>3, <2>1, <2>2
<1>8. NoWrongAccusation'
  BY <1>1, <1>2 DEF NoWrongAccusation
<1> QED BY <1>2, <1>6, <1>7, <1>8 DEF StreamInv

\* What ExtractPakcetData finds if it is in step: the header of the peer's
\* next packet.
LEMMA ExtractInSync ==
    ASSUME StreamInv, up, Whole, pc = "extract", Len(recvBuffer) >= HeaderSize,
           NEW k, k = Len(delivered) + 1
    PROVE  /\ k \in 1 .. Len(sent) /\ Len(sent[k]) \in Nat
           /\ First(recvBuffer, HeaderSize)[1] = Tag
           /\ First(recvBuffer, HeaderSize)[2] = Len(sent[k])
           /\ Carries(Stream, sent, k - 1)
           /\ SubSeq(Stream, HeaderSize + 1, HeaderSize + Len(sent[k])) = sent[k]
           /\ Carries(Rest(Stream, HeaderSize + Len(sent[k])), sent, k)
<1>1. recvBuffer \in Seq(Nat) /\ wire \in Seq(Nat) /\ data = <<>>
      /\ sent \in Seq(Seq(Nat)) /\ Stream \in Seq(Nat) /\ Len(delivered) \in Nat
  BY SentType, StreamType DEF StreamInv, TypeOK, LoopInv
<1>2. ~closing /\ Taken = k - 1 /\ k = Taken + 1
  BY <1>1 DEF StreamInv, LoopInv, Taken
<1>3. Carries(Stream, sent, Taken)
  BY <1>2 DEF StreamInv, InSync
<1>4. Stream = recvBuffer \o wire
  BY <1>1 DEF Stream
<1>5. /\ Len(Stream) = Len(recvBuffer) + Len(wire)
      /\ \A i \in 1 .. Len(recvBuffer) + Len(wire) :
            Stream[i] = IF i <= Len(recvBuffer) THEN recvBuffer[i]
                                                ELSE wire[i - Len(recvBuffer)]
  BY <1>1, <1>4, ConcatProperties
<1>6. Len(recvBuffer) \in Nat /\ Len(wire) \in Nat /\ Len(recvBuffer) >= 2
  BY <1>1 DEF HeaderSize
<1>7. Len(Stream) > 0 /\ Stream[1] = recvBuffer[1] /\ Stream[2] = recvBuffer[2]
  BY <1>5, <1>6
<1>8. /\ k \in 1 .. Len(sent)
      /\ Stream[1] = Tag /\ Stream[2] = Len(sent[k])
      /\ SubSeq(Stream, HeaderSize + 1, HeaderSize + Len(sent[k])) = sent[k]
      /\ Carries(Rest(Stream, HeaderSize + Len(sent[k])), sent, k)
  <2> DEFINE n == Taken
  <2>1. Carries(Stream, sent, n) /\ k = n + 1
    BY <1>2, <1>3
  <2> HIDE DEF n
  <2> SUFFICES /\ n + 1 \in 1 .. Len(sent)
               /\ Stream[1] = Tag /\ Stream[2] = Len(sent[n + 1])
               /\ SubSeq(Stream, HeaderSize + 1, HeaderSize + Len(sent[n + 1]))
                    = sent[n + 1]
               /\ Carries(Rest(Stream, HeaderSize + Len(sent[n + 1])), sent, n + 1)
    BY <2>1, Zenon
  <2> QED BY <1>1, <1>7, <2>1, CarriesNext
<1>9. First(recvBuffer, HeaderSize)[1] = recvBuffer[1]
      /\ First(recvBuffer, HeaderSize)[2] = recvBuffer[2]
  <2>1. \A i \in 1 .. 2 : First(recvBuffer, 2)[i] = recvBuffer[i]
    BY <1>1, <1>6, CutElements
  <2> QED BY <2>1 DEF HeaderSize
<1>10. Len(sent[k]) \in Nat
  BY <1>1, <1>8
<1> QED BY <1>2, <1>3, <1>7, <1>8, <1>9, <1>10

LEMMA ExtractStream == ASSUME StreamInv, ExtractPakcetData PROVE StreamInv'
<1> DEFINE header == First(recvBuffer, HeaderSize)
           rest == Rest(recvBuffer, HeaderSize)
           valid == IsValidEnvTag(header) /\ IsValidContentLength(header)
           k == Len(delivered) + 1
           len == Len(sent[k])
<1>1. /\ pc = "extract" /\ ~closing /\ packet = NoPacket /\ data = <<>> /\ ~posted
      /\ recvBuffer \in Seq(Nat) /\ wire \in Seq(Nat) /\ Len(delivered) \in Nat
      /\ UNCHANGED <<wire, sent, data, delivered, posted, up>>
  BY DEF StreamInv, TypeOK, LoopInv, ExtractPakcetData, peerVars
<1>2. TypeOK'
  BY ExtractType DEF StreamInv
<1>3. IntactUntilTorn'
  BY <1>1 DEF StreamInv, IntactUntilTorn, Torn
<1>4. CASE Len(recvBuffer) < HeaderSize
  <2>1. pc' = "post" /\ UNCHANGED <<recvBuffer, packet, closing>>
    BY <1>4 DEF ExtractPakcetData
  <2>2. LoopInv' /\ Stream' = Stream
    BY <1>1, <2>1 DEF StreamInv, LoopInv, Stream
  <2> QED BY <1>1, <1>2, <2>1, <2>2, StreamKept
<1>5. CASE Len(recvBuffer) >= HeaderSize /\ valid
  <2>0. ~(Len(recvBuffer) < HeaderSize)
    BY <1>1, <1>5 DEF HeaderSize
  <2>1. TakeContent(rest, header[2]) /\ pc' = "deliver" /\ UNCHANGED closing
    BY <1>5, <2>0 DEF ExtractPakcetData
  <2>2. LoopInv'
    BY <1>1, <2>1 DEF LoopInv
  <2>3. NoWrongAccusation'
    BY <1>1, <2>1 DEF NoWrongAccusation
  <2>4. InSync'
    <3> SUFFICES ASSUME up', ~closing', Whole'
                 PROVE  Carries(Stream', sent', Taken') /\ packet' = Packet(sent'[Taken'])
      BY DEF InSync
    <3>1. up /\ Whole /\ ~packet'.torn
      BY <1>1 DEF Whole, Torn, NoPacket, Packet
    <3>2. /\ k \in 1 .. Len(sent) /\ len \in Nat /\ header[2] = len
          /\ SubSeq(Stream, HeaderSize + 1, HeaderSize + len) = sent[k]
          /\ Carries(Rest(Stream, HeaderSize + len), sent, k)
      BY <1>1, <1>5, <3>1, ExtractInSync
    <3> HIDE DEF header, len
    <3>3. /\ len <= Len(rest)
          /\ packet' = Packet(First(rest, len)) /\ recvBuffer' = Rest(rest, len)
      BY <2>1, <3>1, <3>2 DEF TakeContent, TornPacket
    <3>4. /\ HeaderSize \in Nat /\ HeaderSize + len \in Nat
          /\ HeaderSize + len <= Len(recvBuffer)
          /\ HeaderSize + 1 \in 1 .. (HeaderSize + len) + 1
      <4>1. Len(rest) = Len(recvBuffer) - HeaderSize
        BY <1>1, <1>5, CutType DEF HeaderSize
      <4>2. Len(recvBuffer) \in Nat
        BY <1>1
      <4> HIDE DEF rest
      <4> QED BY <3>2, <3>3, <4>1, <4>2 DEF HeaderSize
    <3>5. First(rest, len) = SubSeq(recvBuffer, HeaderSize + 1, HeaderSize + len)
          /\ Rest(rest, len) = Rest(recvBuffer, HeaderSize + len)
      BY <1>1, <3>2, <3>4, CutTwice
    <3>6. /\ Rest(recvBuffer \o wire, HeaderSize + len)
                = Rest(recvBuffer, HeaderSize + len) \o wire
          /\ SubSeq(recvBuffer \o wire, HeaderSize + 1, HeaderSize + len)
                = SubSeq(recvBuffer, HeaderSize + 1, HeaderSize + len)
      <4> DEFINE n == HeaderSize + len  m == HeaderSize + 1
      <4>1. n \in Nat /\ n <= Len(recvBuffer) /\ m \in 1 .. n + 1
        BY <3>4
      <4> HIDE DEF n, m
      <4>2. /\ Rest(recvBuffer \o wire, n) = Rest(recvBuffer, n) \o wire
            /\ SubSeq(recvBuffer \o wire, m, n) = SubSeq(recvBuffer, m, n)
        BY <1>1, <4>1, CutConcat
      <4> QED BY <4>2 DEF n, m
    <3>7. Stream = recvBuffer \o wire
      BY <1>1 DEF Stream
    <3>8. Stream' = Rest(Stream, HeaderSize + len)
      <4>1. recvBuffer' \in Seq(Nat)
        BY <1>2 DEF TypeOK
      <4>2. recvBuffer' \o <<>> = recvBuffer'
        BY <4>1
      <4> QED BY <1>1, <3>3, <3>5, <3>6, <3>7, <4>2 DEF Stream
    <3>9. packet' = Packet(sent[k])
      BY <3>2, <3>3, <3>5, <3>6, <3>7
    <3>10. Taken' = k
      BY <1>1, <2>1 DEF Taken
    <3> QED BY <1>1, <3>2, <3>8, <3>9, <3>10
  <2> QED BY <1>2, <1>3, <2>2, <2>3, <2>4 DEF StreamInv
<1>6. CASE Len(recvBuffer) >= HeaderSize /\ ~valid
  <2>0. ~(Len(recvBuffer) < HeaderSize)
    BY <1>1, <1>6 DEF HeaderSize
  <2>1. closing' = TRUE /\ pc' = "post" /\ UNCHANGED packet
    BY <1>6, <2>0 DEF ExtractPakcetData
  <2>2. LoopInv'
    BY <1>1, <2>1 DEF LoopInv
  <2>3. InSync'
    BY <2>1 DEF InSync
  <2>4. NoWrongAccusation'
    <3> SUFFICES ASSUME up
                 PROVE  \/ \E i \in 1 .. Len(delivered) : Torn(i)
                        \/ \E i \in 1 .. Len(sent) : Len(sent[i]) > MaxContent
      BY <1>1 DEF NoWrongAccusation, Torn
    <3>1. CASE ~Whole
      BY <1>1, <3>1 DEF Whole, NoPacket, Packet
    <3>2. CASE Whole
      <4>1. k \in 1 .. Len(sent) /\ header[1] = Tag /\ header[2] = Len(sent[k])
            /\ Len(sent[k]) \in Nat
        BY <1>1, <1>6, <3>2, ExtractInSync
      <4>2. ~(Len(sent[k]) <= MaxContent)
        BY <1>6, <4>1 DEF IsValidEnvTag, IsValidContentLength
      <4>3. Len(sent[k]) > MaxContent
        BY <4>1, <4>2, ReceiveAssumption
      <4> QED BY <4>1, <4>3
    <3> QED BY <3>1, <3>2
  <2> QED BY <1>2, <1>3, <2>2, <2>3, <2>4 DEF StreamInv
<1>7. Len(recvBuffer) < HeaderSize \/ Len(recvBuffer) >= HeaderSize
  BY <1>1 DEF HeaderSize
<1> QED BY <1>4, <1>5, <1>6, <1>7

LEMMA NextStream == ASSUME StreamInv, [Next]_receiveVars PROVE StreamInv'
BY PeerSendStream, OnRecvStream, FailureStream, PutDataStream, ExtractStream,
   RecvPacketStream, OtherStepsStream DEF Next, Handler

\* The receiver is in step with the peer's stream until it tears a packet.
THEOREM StaysInSync == Spec => []StreamInv
<1>1. Init => StreamInv
  BY InitStream
<1>2. StreamInv /\ [Next]_receiveVars => StreamInv'
  BY NextStream
<1> QED BY <1>1, <1>2, PTL DEF Spec

\* However TCP cuts the stream, and however long the connection has been up:
\* the packets given to the game object are the peer's, in their order and
\* without a gap, up to the first that was taken before it had arrived.
THEOREM IntactPackets == Spec => []IntactUntilTorn
<1>1. StreamInv => IntactUntilTorn
  BY DEF StreamInv
<1> QED BY <1>1, StaysInSync, PTL

\* A peer that sends frames with contents of a legal length is only ever
\* thrown out after the receiver has torn one of its packets.
THEOREM OnlyTheGuilty == Spec => []NoWrongAccusation
<1>1. StreamInv => NoWrongAccusation
  BY DEF StreamInv
<1> QED BY <1>1, StaysInSync, PTL

\* Only the step that finds a header whose content has not all arrived tears
\* a packet.
LEMMA TornStep ==
    ASSUME StreamInv, [Next]_receiveVars, up, \A i \in 1 .. Len(delivered) : ~Torn(i),
           packet'.torn, ~packet.torn
    PROVE  FrameBytes(sent)[Len(sent)] - Len(wire)
               < FrameBytes(sent)[Len(delivered) + 1]
<1>1. ExtractPakcetData
  <2>1. packet' # packet
    OBVIOUS
  <2>2. ~RecvPacket
    <3>1. NoPacket.torn = FALSE
      BY DEF NoPacket, Packet
    <3>2. RecvPacket => packet' = NoPacket
      BY DEF RecvPacket
    <3> QED BY <3>1, <3>2
  <2>3. ~PeerSend /\ ~PeerClose /\ ~OnRecv /\ ~OnCompletionFailure /\ ~OnDisconnected
    BY <2>1 DEF PeerSend, PeerClose, OnRecv, OnCompletionFailure, OnDisconnected
  <2>4. ~PutData /\ ~PostRecv /\ ~UNCHANGED receiveVars
    BY <2>1 DEF PutData, PostRecv, receiveVars
  <2> QED BY <2>2, <2>3, <2>4 DEF Next, Handler
<1> DEFINE header == First(recvBuffer, HeaderSize)
           rest == Rest(recvBuffer, HeaderSize)
           k == Len(delivered) + 1
           len == Len(sent[k])
           B == FrameBytes(sent)
<1>2. /\ pc = "extract" /\ packet = NoPacket /\ data = <<>>
      /\ recvBuffer \in Seq(Nat) /\ wire \in Seq(Nat) /\ Len(delivered) \in Nat
      /\ sent \in Seq(Seq(Nat))
  BY <1>1, SentType DEF StreamInv, TypeOK, LoopInv, ExtractPakcetData
<1>3. Len(recvBuffer) \in Nat /\ Len(wire) \in Nat /\ Len(sent) \in Nat
  BY <1>2
<1>4. ~(Len(recvBuffer) < HeaderSize) /\ TakeContent(rest, header[2])
  BY <1>1 DEF ExtractPakcetData
<1>5. Len(recvBuffer) >= HeaderSize /\ Whole
  BY <1>3, <1>4 DEF HeaderSize, Whole
<1>6. /\ k \in 1 .. Len(sent) /\ len \in Nat /\ header[2] = len
      /\ Carries(Stream, sent, k - 1)
  BY <1>2, <1>5, ExtractInSync
<1>7. ~(len <= Len(rest))
  BY <1>4, <1>6 DEF TakeContent, Packet
<1>8. Len(rest) = Len(recvBuffer) - HeaderSize
  BY <1>2, <1>5, CutType DEF HeaderSize
<1>9. Len(Stream) = Len(recvBuffer) + Len(wire)
  BY <1>2 DEF Stream
<1>10. Len(Stream) = B[Len(sent)] - B[k - 1]
  BY <1>6 DEF Carries
<1>11. B[k] = B[k - 1] + HeaderSize + len
  BY <1>2, <1>6, FrameBytesDef
<1>12. B[k] \in Nat /\ B[k - 1] \in Nat /\ B[Len(sent)] \in Nat
  BY <1>2, <1>3, <1>6, FrameBytesType
<1> DEFINE all == B[Len(sent)]  before == B[k - 1]  after == B[k]
           w == Len(wire)  b == Len(recvBuffer)
<1>13. /\ all \in Nat /\ before \in Nat /\ after \in Nat /\ len \in Nat
       /\ w \in Nat /\ b \in Nat
       /\ b + w = all - before /\ after = before + HeaderSize + len
       /\ ~(len <= b - HeaderSize)
  BY <1>3, <1>6, <1>7, <1>8, <1>9, <1>10, <1>11, <1>12
<1>14. all - w < after
  <2> HIDE DEF all, before, after, len, w, b
  <2> QED BY <1>13 DEF HeaderSize
<1> QED BY <1>14

\* A packet is only torn when some of its own bytes have not been received:
\* never for bytes of the packets after it.
THEOREM TornForItsOwnBytes == Spec => TornOnlyIfBytesAreMissing
<1>1. StreamInv /\ [Next]_receiveVars =>
        [up /\ (\A i \in 1 .. Len(delivered) : ~Torn(i))
          /\ packet'.torn /\ ~packet.torn =>
            FrameBytes(sent)[Len(sent)] - Len(wire)
                < FrameBytes(sent)[Len(delivered) + 1]]_receiveVars
  BY TornStep
<1> QED BY <1>1, StaysInSync, PTL DEF Spec, TornOnlyIfBytesAreMissing

-------------------------------------------------------------------------------
(* The buffer never holds more than a read and a header without its last   *)
(* byte                                                                    *)

BufferBound == Len(recvBuffer) <= MaxPacketSize + HeaderSize - 1

BoundInv == BufferBound /\ (pc = "put" => Len(data) <= MaxPacketSize)

LEMMA NextBound ==
    ASSUME TypeOK, WaitInv, BoundInv, [Next]_receiveVars PROVE BoundInv'
<1>1. /\ Len(recvBuffer) \in Nat /\ Len(data) \in Nat
      /\ recvBuffer \in Seq(Nat) /\ data \in Seq(Nat) /\ wire \in Seq(Nat)
  BY DEF TypeOK
<1>2. MaxPacketSize \in Nat
  BY ReceiveAssumption DEF MaxPacketSize, HeaderSize
<1>3. CASE PeerSend \/ PeerClose \/ UNCHANGED receiveVars
  BY <1>3 DEF PeerSend, PeerClose, receiveVars, BoundInv, BufferBound
<1>4. CASE OnRecv
  <2>1. PICK n \in 0 .. MaxPacketSize : n <= Len(wire) /\ data' = First(wire, n)
    BY <1>4 DEF OnRecv
  <2>2. Len(data') = n
    BY <1>1, <2>1, CutType
  <2> QED BY <1>2, <1>4, <2>2 DEF OnRecv, BoundInv, BufferBound
<1>5. CASE PutData
  <2>1. Len(recvBuffer) < HeaderSize /\ Len(data) <= MaxPacketSize
    BY <1>5 DEF PutData, WaitInv, BoundInv
  <2>2. Len(recvBuffer') = Len(recvBuffer) + Len(data)
    BY <1>1, <1>5 DEF PutData
  <2>3. Len(recvBuffer') <= MaxPacketSize + HeaderSize - 1
    BY <1>1, <1>2, <2>1, <2>2 DEF HeaderSize
  <2> QED BY <1>5, <2>3 DEF PutData, BoundInv, BufferBound
<1>6. CASE ExtractPakcetData
  <2> DEFINE header == First(recvBuffer, HeaderSize)
             rest == Rest(recvBuffer, HeaderSize)
  <2>1. pc' # "put"
    BY <1>6 DEF ExtractPakcetData
  <2>2. CASE Len(recvBuffer) < HeaderSize
    BY <1>6, <2>1, <2>2 DEF ExtractPakcetData, BoundInv, BufferBound
  <2>3. CASE ~(Len(recvBuffer) < HeaderSize)
    <3>1. Len(recvBuffer) >= HeaderSize
      BY <1>1, <2>3 DEF HeaderSize
    <3>2. rest \in Seq(Nat) /\ Len(rest) = Len(recvBuffer) - HeaderSize
          /\ header[2] \in Nat
      BY <1>1, <3>1, CutType, HeaderType DEF HeaderSize
    <3>3. recvBuffer' = rest \/ TakeContent(rest, header[2])
      BY <1>6, <2>3 DEF ExtractPakcetData
    <3>4. Len(recvBuffer') <= Len(rest)
      <4>1. CASE recvBuffer' = rest
        BY <3>2, <4>1
      <4>2. CASE TakeContent(rest, header[2]) /\ header[2] <= Len(rest)
        <5>1. recvBuffer' = Rest(rest, header[2])
          BY <4>2 DEF TakeContent
        <5>2. Len(recvBuffer') = Len(rest) - header[2]
          BY <3>2, <4>2, <5>1, CutType
        <5> QED BY <3>2, <5>2
      <4>3. CASE TakeContent(rest, header[2]) /\ ~(header[2] <= Len(rest))
        BY <3>2, <4>3 DEF TakeContent
      <4> QED BY <3>3, <4>1, <4>2, <4>3
    <3>5. Len(recvBuffer') \in Nat
      BY <1>6, ExtractType DEF TypeOK
    <3> DEFINE r == Len(rest)  b == Len(recvBuffer)  c == Len(recvBuffer')
    <3>6. /\ c \in Nat /\ b \in Nat /\ c <= r /\ r = b - HeaderSize
          /\ b <= MaxPacketSize + HeaderSize - 1
      BY <1>1, <3>2, <3>4, <3>5 DEF BoundInv, BufferBound
    <3>7. c <= MaxPacketSize + HeaderSize - 1
      <4> HIDE DEF r, b, c
      <4> QED BY <1>2, <3>6 DEF HeaderSize
    <3> QED BY <2>1, <3>7 DEF BoundInv, BufferBound
  <2> QED BY <2>2, <2>3
<1>7. CASE RecvPacket
  BY <1>7 DEF RecvPacket, BoundInv, BufferBound
<1>8. CASE PostRecv
  BY <1>8 DEF PostRecv, BoundInv, BufferBound
<1>9. CASE OnDisconnected
  <2>1. Len(recvBuffer') = 0
    BY <1>9 DEF OnDisconnected
  <2> QED BY <1>2, <1>9, <2>1 DEF OnDisconnected, BoundInv, BufferBound, HeaderSize
<1>10. CASE OnCompletionFailure
  BY <1>10 DEF OnCompletionFailure, BoundInv, BufferBound
<1> QED BY <1>3, <1>4, <1>5, <1>6, <1>7, <1>8, <1>9, <1>10 DEF Next, Handler

\* The buffer, which the code makes DEF_SOCKET_BUFFER_SIZE bytes long, never
\* has to grow while packets are received: MaxPacketSize + HeaderSize - 1
\* bytes are enough for every stream and every cut of it.
THEOREM BufferStaysSmall == Spec => []BufferBound
<1>1. Init => WaitInv /\ BoundInv
  <2>1. ASSUME Init PROVE WaitInv /\ BoundInv
    <3>1. MaxPacketSize \in Nat /\ Len(recvBuffer) = 0
      BY <2>1, ReceiveAssumption DEF MaxPacketSize, HeaderSize, Init
    <3> QED BY <2>1, <3>1 DEF Init, WaitInv, BoundInv, BufferBound, HeaderSize
  <2> QED BY <2>1
<1>2. TypeOK /\ WaitInv /\ BoundInv /\ [Next]_receiveVars => WaitInv' /\ BoundInv'
  BY NextWaits, NextBound
<1>3. BoundInv => BufferBound
  BY DEF BoundInv
<1> QED BY <1>1, <1>2, <1>3, TypeCorrect, PTL DEF Spec

-------------------------------------------------------------------------------
(* The connection as a pipe                                                *)

Contented == [i \in 1 .. Len(delivered) |-> delivered[i].content]
Broken == ~up \/ \E i \in 1 .. Len(delivered) : Torn(i)

\* A connection that is down stays down, and what was delivered torn stays so.
LEMMA StaysBroken ==
    ASSUME TypeOK, Broken, [Next]_receiveVars PROVE Broken'
<1>1. CASE ~up
  <2>1. ~up'
    BY <1>1 DEF Next, Handler, PeerSend, PeerClose, OnRecv, OnCompletionFailure, PutData,
                ExtractPakcetData, RecvPacket, PostRecv, OnDisconnected, receiveVars
  <2> QED BY <2>1 DEF Broken
<1>2. CASE \E i \in 1 .. Len(delivered) : Torn(i)
  <2>1. PICK i \in 1 .. Len(delivered) : delivered[i].torn
    BY <1>2 DEF Torn
  <2>2. CASE delivered' = delivered
    BY <2>1, <2>2 DEF Broken, Torn
  <2>3. CASE delivered' = Append(delivered, packet)
    <3>1. i \in 1 .. Len(delivered') /\ delivered'[i] = delivered[i]
      BY <2>3 DEF TypeOK
    <3> QED BY <2>1, <3>1 DEF Broken, Torn
  <2>4. delivered' = delivered \/ delivered' = Append(delivered, packet)
    BY DEF Next, Handler, PeerSend, PeerClose, OnRecv, OnCompletionFailure, PutData,
           ExtractPakcetData, RecvPacket, PostRecv, OnDisconnected, receiveVars, peerVars
  <2> QED BY <2>2, <2>3, <2>4
<1> QED BY <1>1, <1>2 DEF Broken

\* Packets that are the peer's one by one are its first packets.
LEMMA FrontOfSent ==
    ASSUME NEW s \in Seq(Contents), NEW d \in Seq([torn : BOOLEAN, content : Seq(Nat)]),
           \A i \in 1 .. Len(d) : i <= Len(s) /\ d[i] = Packet(s[i])
    PROVE  /\ Len(d) \in Nat /\ Len(s) \in Nat /\ Len(d) <= Len(s)
           /\ [i \in 1 .. Len(d) |-> d[i].content] = SubSeq(s, 1, Len(d))
<1>1. Len(d) \in Nat /\ Len(s) \in Nat
  OBVIOUS
<1>2. Len(d) <= Len(s)
  BY <1>1
<1>3. ASSUME NEW i \in 1 .. Len(d) PROVE d[i].content = s[i]
  <2>1. d[i] = Packet(s[i])
    OBVIOUS
  <2> QED BY <2>1 DEF Packet
<1>4. SubSeq(s, 1, Len(d)) = [i \in 1 .. Len(d) |-> s[i]]
  BY <1>1, <1>2
<1> QED BY <1>1, <1>2, <1>3, <1>4

LEMMA PipeStep ==
    ASSUME TypeOK, IntactUntilTorn, TypeOK', IntactUntilTorn', [Next]_receiveVars
    PROVE  Broken' \/ Pipe!Put \/ Pipe!Take \/ UNCHANGED <<sent, Contented, Broken>>
<1> SUFFICES ASSUME ~Broken'
             PROVE  Pipe!Put \/ Pipe!Take \/ UNCHANGED <<sent, Contented, Broken>>
  OBVIOUS
<1>0. ~Broken
  BY StaysBroken
<1>1. CASE PeerSend
  <2>1. /\ \E c \in Contents : sent' = Append(sent, c)
        /\ UNCHANGED <<delivered, up>>
    BY <1>1 DEF PeerSend
  <2>2. UNCHANGED <<Contented, Broken>>
    BY <2>1 DEF Contented, Broken, Torn
  <2> QED BY <2>1, <2>2 DEF Pipe!Put, Contented, Broken
<1>2. CASE RecvPacket
  <2>1. delivered' = Append(delivered, packet) /\ sent' = sent
    BY <1>2 DEF RecvPacket, peerVars
  <2>2. Len(delivered') = Len(delivered) + 1
    BY <2>1 DEF TypeOK
  <2>3. /\ Len(delivered) \in Nat /\ Len(delivered') \in Nat /\ Len(sent) \in Nat
        /\ Len(delivered') <= Len(sent)
        /\ Contented' = SubSeq(sent, 1, Len(delivered'))
    <3>1. /\ delivered' \in Seq([torn : BOOLEAN, content : Seq(Nat)])
          /\ sent \in Seq(Contents) /\ Len(delivered) \in Nat
      BY <2>1 DEF TypeOK
    <3>2. up' /\ \A i \in 1 .. Len(delivered') : ~Torn(i)'
      BY DEF Broken
    <3>3. \A i \in 1 .. Len(delivered') :
              i <= Len(sent) /\ delivered'[i] = Packet(sent[i])
      BY <2>1, <3>1, <3>2 DEF IntactUntilTorn
    <3> QED BY <3>1, <3>3, FrontOfSent DEF Contented
  <2>4. Len(Contented) = Len(delivered)
    BY <2>3 DEF Contented
  <2>5. Len(delivered') \in Len(Contented) + 1 .. Len(sent)
    BY <2>2, <2>3, <2>4
  <2>6. Pipe!Take
    BY <1>0, <2>1, <2>3, <2>5 DEF Pipe!Take, Contented, Broken
  <2> QED BY <2>6
<1>3. CASE \/ PeerClose \/ OnRecv \/ OnCompletionFailure \/ PutData \/ ExtractPakcetData
           \/ PostRecv \/ OnDisconnected \/ UNCHANGED receiveVars
  <2>1. UNCHANGED <<sent, delivered>>
    BY <1>3 DEF PeerClose, OnRecv, OnCompletionFailure, PutData, ExtractPakcetData,
                PostRecv, OnDisconnected, receiveVars, peerVars
  <2>2. Broken' = Broken
    BY <1>0 DEF Broken
  <2> QED BY <2>1, <2>2 DEF Contented
<1> QED BY <1>1, <1>2, <1>3 DEF Next, Handler

\* A connection is a pipe from the peer's Send to NetObj::RecvPacket until a packet is
\* torn or the connection ends (NetSocket::OnRecvData and ExtractPakcetData), for
\* all packets and all cuts of the stream.
THEOREM Refinement == Spec => ImplementsPipe
<1>1. Init => Pipe!Init
  <2> SUFFICES ASSUME Init PROVE Pipe!Init
    OBVIOUS
  <2>1. delivered = <<>> /\ Len(delivered) = 0 /\ sent = <<>> /\ up
    BY DEF Init
  <2>2. Contented = <<>> /\ ~Broken
    BY <2>1 DEF Contented, Broken
  <2> QED BY <2>1, <2>2 DEF Pipe!Init, Contented, Broken
<1>2. StreamInv /\ StreamInv' /\ [Next]_receiveVars => [Pipe!Next]_(Pipe!pipeVars)
  <2> SUFFICES ASSUME StreamInv, StreamInv', [Next]_receiveVars
               PROVE  [Pipe!Next]_(Pipe!pipeVars)
    OBVIOUS
  <2>1. Broken' \/ Pipe!Put \/ Pipe!Take \/ UNCHANGED <<sent, Contented, Broken>>
    BY PipeStep DEF StreamInv
  <2>2. Broken => Broken'
    BY StaysBroken DEF StreamInv
  <2> QED BY <2>1, <2>2 DEF Pipe!Next, Pipe!Break, Pipe!pipeVars, Contented, Broken
<1> QED BY <1>1, <1>2, StaysInSync, PTL DEF Spec, ImplementsPipe, Pipe!Spec

===============================================================================

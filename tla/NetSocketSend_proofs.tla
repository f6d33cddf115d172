-------------------------- MODULE NetSocketSend_proofs --------------------------
(***************************************************************************)
(* Proofs about NetSocketSend for any senders, workers and array size.     *)
(***************************************************************************)
EXTENDS NetSocketSend, FiniteSetTheorems, SequenceTheorems, TLAPS

Blocks == Packets \cup {Null}

LEMMA TailType ==
    ASSUME NEW S, NEW s \in Seq(S), s # <<>>
    PROVE  Tail(s) \in Seq(S) /\ Head(s) \in S /\ Len(Tail(s)) = Len(s) - 1
OBVIOUS

-------------------------------------------------------------------------------
(* Types                                                                   *)

LEMMA InitType == ASSUME Init PROVE TypeOK
<1>1. <<>> \in Seq(Packets) /\ <<>> \in Seq(Packets \cup {Null})
  OBVIOUS
<1>2. /\ pendingQ \in Seq(Packets) /\ calls \in Seq(Packets)
      /\ sendQ \in Seq(Packets \cup {Null}) /\ wire \in Seq(Packets \cup {Null})
      /\ op \in [Threads -> Seq(Packets \cup {Null})]
  BY <1>1 DEF Init
<1>3. /\ sent \in [Senders -> 0 .. MaxPackets] /\ inFlight \in Nat
      /\ wbufs \in [Threads -> Nat]
  BY SendAssumption DEF Init
<1>4. /\ status \subseteq {SEND, RECV} /\ expected \in [Threads -> SUBSET {SEND, RECV}]
      /\ buffer \in [Threads -> Packets \cup {Null}]
      /\ fault = "none" /\ pc = [t \in Threads |-> "idle"] /\ crowded \in BOOLEAN
  BY DEF Init
<1> QED BY <1>2, <1>3, <1>4 DEF TypeOK

LEMMA SendType == ASSUME TypeOK, NEW t \in Senders, Send(t) PROVE TypeOK'
<1>0. /\ sent \in [Senders -> 0 .. MaxPackets] /\ sent[t] < MaxPackets
      /\ sent' = [sent EXCEPT ![t] = @ + 1]
      /\ pendingQ \in Seq(Packets)
      /\ pendingQ' = Append(pendingQ, <<t, sent'[t]>>)
  BY DEF TypeOK, Send
<1>1. sent[t] + 1 \in 1 .. MaxPackets /\ t \in Threads
  BY <1>0, SendAssumption DEF Threads
<1>2. sent'[t] = sent[t] + 1
  BY <1>0
<1>3. <<t, sent'[t]>> \in Packets
  BY <1>1, <1>2 DEF Packets
<1>4. pendingQ' \in Seq(Packets)
  BY <1>0, <1>3
<1>6. calls' \in Seq(Packets)
  <2>1. calls \in Seq(Packets) /\ calls' = Append(calls, <<t, sent'[t]>>)
    BY DEF TypeOK, Send
  <2> QED BY <1>3, <2>1
<1>5. sent' \in [Senders -> 0 .. MaxPackets]
  BY <1>0, <1>1, SendAssumption
<1> QED BY <1>1, <1>4, <1>5, <1>6
     DEF TypeOK, Send, EnterPrepareSend, Goto

LEMMA SentIsPacket ==
    ASSUME TypeOK, NEW t \in Senders, Send(t) PROVE <<t, sent'[t]>> \in Packets
<1>1. /\ sent \in [Senders -> 0 .. MaxPackets] /\ sent[t] < MaxPackets
      /\ sent' = [sent EXCEPT ![t] = @ + 1]
  BY DEF TypeOK, Send
<1>2. sent'[t] = sent[t] + 1 /\ sent[t] + 1 \in 1 .. MaxPackets
  BY <1>1, SendAssumption
<1> QED BY <1>2 DEF Packets

LEMMA HandlerType ==
    ASSUME TypeOK, NEW t \in Workers, OnSent(t) \/ OnRecv(t) \/ PostRecv(t)
    PROVE  TypeOK'
<1>1. t \in Threads
  BY DEF Threads
<1>2. CASE OnSent(t)
  <2>0. inFlight \in Nat /\ inFlight > 0 /\ inFlight' = inFlight - 1
    BY <1>2 DEF TypeOK, OnSent
  <2>1. inFlight' \in Nat
    BY <2>0
  <2> QED BY <1>1, <1>2, <2>1 DEF TypeOK, OnSent, EnterPrepareSend, Goto, queues, history
<1>3. CASE OnRecv(t)
  BY <1>1, <1>3 DEF TypeOK, OnRecv, Goto, queues, locals, history
<1>4. CASE PostRecv(t)
  BY <1>1, <1>4 DEF TypeOK, PostRecv, Goto, queues, locals, history
<1> QED BY <1>2, <1>3, <1>4

LEMMA PrepareSendType ==
    ASSUME TypeOK, NEW t \in Threads,
           TestEmpty(t) \/ TestRoom(t) \/ PopPending(t) \/ PushSend(t)
    PROVE  TypeOK'
<1>1. CASE TestEmpty(t)
  BY <1>1 DEF TypeOK, TestEmpty, LeaveLoop, StayInLoop, Goto, Enter, queues, history
<1>2. CASE TestRoom(t)
  BY <1>2 DEF TypeOK, TestRoom, LeaveLoop, StayInLoop, Goto, queues, history
<1>3. CASE PopPending(t)
  <2>0. pendingQ \in Seq(Packets) /\ buffer \in [Threads -> Packets \cup {Null}]
    BY DEF TypeOK
  <2>1. pendingQ' \in Seq(Packets) /\ buffer' \in [Threads -> Packets \cup {Null}]
    BY <1>3, <2>0, TailType DEF PopPending
  <2> QED BY <1>3, <2>1 DEF TypeOK, PopPending, Goto, history
<1>4. CASE PushSend(t)
  <2>0. /\ sendQ \in Seq(Packets \cup {Null})
        /\ buffer[t] \in Packets \cup {Null}
        /\ sendQ' = Append(sendQ, buffer[t])
    BY <1>4 DEF TypeOK, PushSend
  <2>1. sendQ' \in Seq(Packets \cup {Null})
    BY <2>0
  <2> QED BY <1>4, <2>1 DEF TypeOK, PushSend, Goto, locals, history
<1> QED BY <1>1, <1>2, <1>3, <1>4

LEMMA PostSendType ==
    ASSUME TypeOK, NEW t \in Threads,
           \/ LoadStatus(t) \/ ExchangeStatus(t) \/ ReadSize(t) \/ DrainOne(t)
           \/ PostWSASend(t)
    PROVE  TypeOK'
<1>1. CASE LoadStatus(t)
  BY <1>1 DEF TypeOK, LoadStatus, Goto, queues, history
<1>2. CASE ExchangeStatus(t)
  <2>1. status' \subseteq {SEND, RECV}
    BY <1>2 DEF TypeOK, ExchangeStatus
  <2> QED BY <1>2, <2>1 DEF TypeOK, ExchangeStatus, Goto, queues, history
<1>3. CASE ReadSize(t)
  <2>0. /\ sendQ \in Seq(Blocks) /\ wbufs \in [Threads -> Nat]
        /\ wbufs' = [wbufs EXCEPT ![t] = Len(sendQ)]
    BY <1>3 DEF TypeOK, ReadSize, Blocks
  <2>1. Len(sendQ) \in Nat
    BY <2>0
  <2>2. wbufs' \in [Threads -> Nat]
    BY <2>0, <2>1
  <2> QED BY <1>3, <2>2 DEF TypeOK, ReadSize, Goto, Enter, queues, history
<1>4. CASE DrainOne(t)
  <2>0. /\ sendQ \in Seq(Blocks) /\ sendQ # <<>> /\ sendQ' = Tail(sendQ)
        /\ op \in [Threads -> Seq(Blocks)]
        /\ op' = [op EXCEPT ![t] = Append(@, Head(sendQ))]
    BY <1>4 DEF TypeOK, DrainOne, Blocks
  <2>1. sendQ' \in Seq(Blocks) /\ Head(sendQ) \in Blocks
    BY <2>0, TailType
  <2>2. Append(op[t], Head(sendQ)) \in Seq(Blocks)
    BY <2>0, <2>1
  <2>3. op' \in [Threads -> Seq(Blocks)]
    BY <2>0, <2>2
  <2> QED BY <1>4, <2>1, <2>3 DEF TypeOK, DrainOne, Blocks, history
<1>5. CASE PostWSASend(t)
  <2>0. /\ wire \in Seq(Blocks) /\ wire' = wire \o op[t]
        /\ op \in [Threads -> Seq(Blocks)] /\ op' = [op EXCEPT ![t] = <<>>]
    BY <1>5 DEF TypeOK, PostWSASend, Blocks
  <2>1. wire' \in Seq(Blocks)
    BY <2>0
  <2>2. op' \in [Threads -> Seq(Blocks)]
    BY <2>0
  <2>3. /\ wbufs \in [Threads -> Nat] /\ wbufs' = [wbufs EXCEPT ![t] = 0]
        /\ inFlight \in Nat /\ inFlight' = inFlight + 1
    BY <1>5 DEF TypeOK, PostWSASend
  <2>4. wbufs' \in [Threads -> Nat] /\ inFlight' \in Nat
    BY <2>3
  <2> QED BY <1>5, <2>1, <2>2, <2>4
       DEF TypeOK, PostWSASend, Goto, queues, history, Blocks
<1> QED BY <1>1, <1>2, <1>3, <1>4, <1>5

LEMMA NextType == ASSUME TypeOK, [Next]_sendVars PROVE TypeOK'
<1>1. CASE UNCHANGED sendVars
  BY <1>1 DEF TypeOK, sendVars
<1> QED BY <1>1, SendType, HandlerType, PrepareSendType, PostSendType
     DEF Next, Step

\* The queues hold blocks, the indices and sizes stay natural numbers, and no
\* thread is anywhere but at a step of Send, PrepareSend, PostSend or OnRecv.
THEOREM TypeCorrect == Spec => []TypeOK
<1>1. Init => TypeOK
  BY InitType
<1>2. TypeOK /\ [Next]_sendVars => TypeOK'
  BY NextType
<1> QED BY <1>1, <1>2, PTL DEF Spec

-------------------------------------------------------------------------------
(* The send queue's bound                                                  *)

LEMMA ThreadsFinite ==
    /\ IsFiniteSet(Threads) /\ Cardinality(Threads) \in Nat
    /\ IsFiniteSet(Moving) /\ Cardinality(Moving) \in Nat
    /\ Cardinality(Moving) <= Cardinality(Threads)
<1>1. IsFiniteSet(Threads)
  BY SendAssumption, FS_Union DEF Threads
<1>2. Moving \subseteq Threads
  BY DEF Moving
<1> QED BY <1>1, <1>2, FS_Subset, FS_CardinalityType

LEMMA InitOvershoot == ASSUME Init PROVE OvershootBounded
<1>1. Len(sendQ) = 0 /\ Moving = {}
  BY DEF Init, Moving
<1>2. Cardinality(Moving) = 0
  BY <1>1, FS_EmptySet
<1> QED BY <1>1, <1>2, ThreadsFinite, SendAssumption DEF OvershootBounded

\* A thread that finds room has all the others ahead of it, at the worst.
LEMMA TestRoomOvershoot ==
    ASSUME TypeOK, OvershootBounded, NEW t \in Threads, TestRoom(t), HasRoom
    PROVE  OvershootBounded'
<1>1. sendQ' = sendQ /\ Len(sendQ) < MaxSendArray
  BY DEF TestRoom, HasRoom, queues
<1>2. sendQ \in Seq(Blocks)
  BY DEF TypeOK, Blocks
<1>3. Cardinality(Moving') <= Cardinality(Threads) /\ Cardinality(Moving') \in Nat
  <2>1. Moving' \subseteq Threads
    BY DEF Moving
  <2> QED BY <2>1, ThreadsFinite, FS_Subset, FS_CardinalityType
<1> QED BY <1>1, <1>2, <1>3, ThreadsFinite, SendAssumption DEF OvershootBounded

LEMMA PushOvershoot ==
    ASSUME TypeOK, OvershootBounded, NEW t \in Threads, PushSend(t)
    PROVE  OvershootBounded'
<1>0. sendQ' = Append(sendQ, buffer[t])
  BY DEF PushSend
<1>1. sendQ \in Seq(Blocks) /\ buffer[t] \in Blocks
  BY DEF TypeOK, Blocks
<1>2. Len(sendQ') = Len(sendQ) + 1
  BY <1>0, <1>1
<1>3. t \in Moving /\ Moving' = Moving \ {t}
  BY DEF PushSend, Running, Goto, Moving, TypeOK
<1>4. Cardinality(Moving') = Cardinality(Moving) - 1
  BY <1>3, ThreadsFinite, FS_RemoveElement
<1> QED BY <1>1, <1>2, <1>4, ThreadsFinite, SendAssumption DEF OvershootBounded

\* No other step makes the queue longer or lets a thread move a packet.
LEMMA OtherStepsOvershoot ==
    ASSUME TypeOK, OvershootBounded, [Next]_sendVars,
           ~ \E t \in Threads : (TestRoom(t) /\ HasRoom) \/ PushSend(t)
    PROVE  OvershootBounded'
<1>1. sendQ \in Seq(Blocks) /\ pc = [t \in Threads |-> pc[t]]
  <2>1. sendQ \in Seq(Blocks)
    BY DEF TypeOK, Blocks
  <2>2. pc = [t \in Threads |-> pc[t]]
    BY DEF TypeOK
  <2> QED BY <2>1, <2>2
<1>2. Moving' = Moving
  <2>1. ASSUME NEW t \in Senders, Send(t) PROVE Moving' = Moving
    BY <1>1, <2>1 DEF Send, Running, EnterPrepareSend, Goto, Moving, Threads
  <2>2. ASSUME NEW t \in Workers, OnSent(t) \/ OnRecv(t) \/ PostRecv(t)
        PROVE  Moving' = Moving
    BY <1>1, <2>2
       DEF OnSent, OnRecv, PostRecv, Running, EnterPrepareSend, Goto, Moving,
           Threads
  <2>3. ASSUME NEW t \in Threads,
               TestEmpty(t) \/ (TestRoom(t) /\ ~HasRoom) \/ PopPending(t)
        PROVE  Moving' = Moving
    BY <1>1, <2>3 DEF TestEmpty, TestRoom, PopPending, Running, LeaveLoop,
                      StayInLoop, Goto, Enter, Moving
  <2>4. ASSUME NEW t \in Threads,
               \/ LoadStatus(t) \/ ExchangeStatus(t) \/ ReadSize(t)
               \/ DrainOne(t) \/ PostWSASend(t)
        PROVE  Moving' = Moving
    BY <1>1, <2>4 DEF LoadStatus, ExchangeStatus, ReadSize, DrainOne,
                      PostWSASend, Running, Goto, Enter, Moving
  <2>5. CASE UNCHANGED sendVars
    BY <2>5 DEF sendVars, Moving
  <2> QED BY <2>1, <2>2, <2>3, <2>4, <2>5 DEF Next, Step
<1>3. Len(sendQ') <= Len(sendQ) /\ Len(sendQ') \in Nat /\ Len(sendQ) \in Nat
  <2>1. ASSUME NEW t \in Threads, DrainOne(t)
        PROVE  Len(sendQ') = Len(sendQ) - 1
    BY <1>1, <2>1, TailType DEF DrainOne
  <2>2. sendQ' = sendQ \/ \E t \in Threads : DrainOne(t)
    BY DEF Next, Step, Send, OnSent, OnRecv, PostRecv, TestEmpty, TestRoom,
           PopPending, LoadStatus, ExchangeStatus, ReadSize, PostWSASend,
           queues, sendVars
  <2>3. sendQ' \in Seq(Blocks)
    <3>1. ASSUME NEW t \in Threads, DrainOne(t) PROVE sendQ' \in Seq(Blocks)
      <4>1. sendQ # <<>> /\ sendQ' = Tail(sendQ)
        BY <3>1 DEF DrainOne
      <4> QED BY <1>1, <4>1, TailType
    <3> QED BY <1>1, <2>2, <3>1
  <2> QED BY <1>1, <2>1, <2>2, <2>3
<1> QED BY <1>2, <1>3, ThreadsFinite, SendAssumption DEF OvershootBounded

LEMMA NextOvershoot ==
    ASSUME TypeOK, OvershootBounded, [Next]_sendVars PROVE OvershootBounded'
BY TestRoomOvershoot, PushOvershoot, OtherStepsOvershoot

\* The unsafe test of MAX_SEND_ARRAY_SIZE lets the send queue grow beyond it by
\* at most one packet per other thread, however many packets are waiting.
THEOREM Overshoot == Spec => []OvershootBounded
<1>1. Init => OvershootBounded
  BY InitOvershoot
<1>2. TypeOK /\ OvershootBounded /\ [Next]_sendVars => OvershootBounded'
  BY NextOvershoot
<1> QED BY <1>1, <1>2, TypeCorrect, PTL DEF Spec

-------------------------------------------------------------------------------
(* No packet is lost                                                       *)

LEMMA InSeqAppend ==
    ASSUME NEW S, NEW s \in Seq(S), NEW x \in S
    PROVE  InSeq(Append(s, x)) = InSeq(s) \cup {x}
<1>1. /\ Len(Append(s, x)) = Len(s) + 1 /\ Len(s) \in Nat
      /\ \A i \in 1 .. Len(s) : Append(s, x)[i] = s[i]
      /\ Append(s, x)[Len(s) + 1] = x
  OBVIOUS
<1> QED BY <1>1 DEF InSeq

LEMMA InSeqHeadTail ==
    ASSUME NEW S, NEW s \in Seq(S), s # <<>>
    PROVE  InSeq(s) = {Head(s)} \cup InSeq(Tail(s))
<1>1. /\ Len(Tail(s)) = Len(s) - 1 /\ Len(s) \in Nat \ {0} /\ Head(s) = s[1]
      /\ \A i \in 1 .. Len(s) - 1 : Tail(s)[i] = s[i + 1]
  OBVIOUS
<1>2. ASSUME NEW x \in InSeq(s) PROVE x \in {Head(s)} \cup InSeq(Tail(s))
  <2>1. PICK i \in 1 .. Len(s) : x = s[i]
    BY DEF InSeq
  <2>2. CASE i = 1
    BY <1>1, <2>1, <2>2
  <2>3. CASE i # 1
    <3>1. i - 1 \in 1 .. Len(Tail(s)) /\ Tail(s)[i - 1] = x
      BY <1>1, <2>1, <2>3
    <3> QED BY <3>1 DEF InSeq
  <2> QED BY <2>2, <2>3
<1>3. ASSUME NEW x \in {Head(s)} \cup InSeq(Tail(s)) PROVE x \in InSeq(s)
  <2>1. CASE x = Head(s)
    BY <1>1, <2>1 DEF InSeq
  <2>2. CASE x \in InSeq(Tail(s))
    <3>1. PICK i \in 1 .. Len(Tail(s)) : x = Tail(s)[i]
      BY <2>2 DEF InSeq
    <3>2. i + 1 \in 1 .. Len(s) /\ s[i + 1] = x
      BY <1>1, <3>1
    <3> QED BY <3>2 DEF InSeq
  <2> QED BY <1>3, <2>1, <2>2
<1> QED BY <1>2, <1>3

LEMMA InSeqConcat ==
    ASSUME NEW S, NEW s \in Seq(S), NEW u \in Seq(S)
    PROVE  InSeq(s) \cup InSeq(u) \subseteq InSeq(s \o u)
<1>1. /\ Len(s \o u) = Len(s) + Len(u) /\ Len(s) \in Nat /\ Len(u) \in Nat
      /\ \A i \in 1 .. Len(s) : (s \o u)[i] = s[i]
      /\ \A i \in 1 .. Len(u) : (s \o u)[Len(s) + i] = u[i]
  OBVIOUS
<1>2. ASSUME NEW x \in InSeq(u) PROVE x \in InSeq(s \o u)
  <2>1. PICK i \in 1 .. Len(u) : x = u[i]
    BY DEF InSeq
  <2>2. Len(s) + i \in 1 .. Len(s \o u) /\ (s \o u)[Len(s) + i] = x
    BY <1>1, <2>1
  <2> QED BY <2>2 DEF InSeq
<1>3. ASSUME NEW x \in InSeq(s) PROVE x \in InSeq(s \o u)
  <2>1. PICK i \in 1 .. Len(s) : x = s[i]
    BY DEF InSeq
  <2>2. i \in 1 .. Len(s \o u) /\ (s \o u)[i] = x
    BY <1>1, <2>1
  <2> QED BY <2>2 DEF InSeq
<1> QED BY <1>2, <1>3

\* The packet p is somewhere: NoPacketLost for one packet.
Kept(p) ==
    \/ p \in InSeq(pendingQ) \/ p \in InSeq(sendQ) \/ p \in InSeq(wire)
    \/ \E t \in Threads : p \in InSeq(op[t])
    \/ \E t \in Threads : pc[t] = "push" /\ buffer[t] = p

LEMMA KeptIsNotLost == NoPacketLost <=> \A p \in Given : Kept(p)
BY DEF NoPacketLost, Kept

LEMMA KeptIsNotLostNext ==
    ASSUME \A p \in Given' : Kept(p)' PROVE NoPacketLost'
BY DEF NoPacketLost, Kept

\* The steps that touch neither the packets nor a thread between pop and push.
Quiet ==
    /\ pendingQ' = pendingQ /\ sendQ' = sendQ /\ wire' = wire /\ op' = op
    /\ sent' = sent
    /\ \A t \in Threads :
           pc[t] = "push" => pc'[t] = "push" /\ buffer'[t] = buffer[t]

LEMMA QuietKeeps == ASSUME NoPacketLost, Quiet PROVE NoPacketLost'
<1>1. Given' = Given
  BY DEF Quiet, Given
<1>2. \A p : Kept(p) => Kept(p)'
  BY DEF Quiet, Kept
<1> QED BY <1>1, <1>2, KeptIsNotLost, KeptIsNotLostNext

LEMMA QuietSteps ==
    ASSUME TypeOK,
           \/ UNCHANGED sendVars
           \/ \E t \in Workers : OnSent(t) \/ OnRecv(t) \/ PostRecv(t)
           \/ \E t \in Threads : \/ TestEmpty(t) \/ TestRoom(t) \/ LoadStatus(t)
                                 \/ ExchangeStatus(t) \/ ReadSize(t)
    PROVE  Quiet
<1>0. /\ pc = [t \in Threads |-> pc[t]]
      /\ buffer = [t \in Threads |-> buffer[t]]
  BY DEF TypeOK
<1>1. CASE UNCHANGED sendVars
  BY <1>1 DEF sendVars, Quiet
<1>2. ASSUME NEW t \in Workers, OnSent(t) \/ OnRecv(t) \/ PostRecv(t)
      PROVE  Quiet
  BY <1>0, <1>2 DEF OnSent, OnRecv, PostRecv, EnterPrepareSend, Goto, Running,
                    queues, locals, Quiet
<1>3. ASSUME NEW t \in Threads, TestEmpty(t) \/ TestRoom(t) PROVE Quiet
  BY <1>0, <1>3 DEF TestEmpty, TestRoom, LeaveLoop, StayInLoop, Goto, Enter, Running,
                    queues, Quiet
<1>4. ASSUME NEW t \in Threads,
             LoadStatus(t) \/ ExchangeStatus(t) \/ ReadSize(t)
      PROVE  Quiet
  BY <1>0, <1>4 DEF LoadStatus, ExchangeStatus, ReadSize, Goto, Enter, Running,
                    queues, Quiet
<1> QED BY <1>1, <1>2, <1>3, <1>4

\* The new packet is the only one that Send adds, and it is in the queue.
LEMMA SendKeeps ==
    ASSUME TypeOK, NoPacketLost, NEW t \in Senders, Send(t)
    PROVE  NoPacketLost'
<1>1. /\ sent \in [Senders -> 0 .. MaxPackets] /\ sent[t] < MaxPackets
      /\ sent' = [sent EXCEPT ![t] = @ + 1]
      /\ pendingQ \in Seq(Packets)
      /\ pendingQ' = Append(pendingQ, <<t, sent'[t]>>)
  BY DEF TypeOK, Send
<1>2. <<t, sent'[t]>> \in Packets
  BY SentIsPacket
<1>3. InSeq(pendingQ') = InSeq(pendingQ) \cup {<<t, sent'[t]>>}
  BY <1>1, <1>2, InSeqAppend
<1>4. ASSUME NEW p \in Given' PROVE p \in Given \/ p = <<t, sent'[t]>>
  <2>1. p \in Packets /\ p[2] <= sent'[p[1]]
    BY DEF Given
  <2>2. PICK u \in Senders, n \in 1 .. MaxPackets : p = <<u, n>>
    BY <2>1 DEF Packets
  <2>3. CASE u = t
    BY <1>1, <2>1, <2>2, <2>3, SendAssumption DEF Given
  <2>4. CASE u # t
    BY <1>1, <2>1, <2>2, <2>4, SendAssumption DEF Given
  <2> QED BY <2>3, <2>4
<1>5. \A p : Kept(p) => Kept(p)'
  <2>1. sendQ' = sendQ /\ wire' = wire /\ op' = op
    BY DEF Send
  <2>2. /\ pc = [u \in Threads |-> pc[u]]
        /\ buffer = [u \in Threads |-> buffer[u]]
    BY DEF TypeOK
  <2>3. \A u \in Threads :
            pc[u] = "push" => pc'[u] = "push" /\ buffer'[u] = buffer[u]
    BY <2>2 DEF Send, Running, EnterPrepareSend, Goto
  <2> QED BY <1>3, <2>1, <2>3 DEF Kept
<1>6. ASSUME NEW p \in Given' PROVE Kept(p)'
  <2>1. CASE p \in Given
    BY <1>5, <2>1, KeptIsNotLost
  <2>2. CASE p = <<t, sent'[t]>>
    BY <1>3, <2>2 DEF Kept
  <2> QED BY <1>4, <2>1, <2>2
<1> QED BY <1>6, KeptIsNotLostNext

\* Outside Send the packets given stay the same.
LEMMA KeepsAll ==
    ASSUME NoPacketLost, sent' = sent, \A p : Kept(p) => Kept(p)'
    PROVE  NoPacketLost'
<1>1. Given' = Given
  BY DEF Given
<1>2. \A p \in Given : Kept(p)'
  BY KeptIsNotLost
<1> QED BY <1>1, <1>2, KeptIsNotLostNext

\* The packet that leaves the pending queue is held in the local buffer.
LEMMA PopKeeps ==
    ASSUME TypeOK, NoPacketLost, NEW t \in Threads, PopPending(t)
    PROVE  NoPacketLost'
<1>1. /\ pc = [u \in Threads |-> pc[u]] /\ pc[t] = "pop"
      /\ pc' = [pc EXCEPT ![t] = "push"]
      /\ buffer = [u \in Threads |-> buffer[u]]
      /\ sendQ' = sendQ /\ wire' = wire /\ op' = op /\ sent' = sent
  BY DEF TypeOK, PopPending, Running, Goto
<1>2. CASE pendingQ = <<>>
  <2>1. pendingQ' = pendingQ /\ buffer' = buffer
    BY <1>2 DEF PopPending
  <2>2. Quiet
    BY <1>1, <2>1 DEF Quiet
  <2> QED BY <2>2, QuietKeeps
<1>3. CASE pendingQ # <<>>
  <2>1. /\ pendingQ' = Tail(pendingQ)
        /\ buffer' = [buffer EXCEPT ![t] = Head(pendingQ)]
    BY <1>3 DEF PopPending
  <2>2. InSeq(pendingQ) = {Head(pendingQ)} \cup InSeq(pendingQ')
    BY <1>3, <2>1, InSeqHeadTail DEF TypeOK
  <2>3. pc'[t] = "push" /\ buffer'[t] = Head(pendingQ)
    BY <1>1, <2>1
  <2>4. \A u \in Threads \ {t} : pc'[u] = pc[u] /\ buffer'[u] = buffer[u]
    BY <1>1, <2>1
  <2>5. \A p : Kept(p) => Kept(p)'
    BY <1>1, <2>2, <2>3, <2>4 DEF Kept
  <2> QED BY <1>1, <2>5, KeepsAll
<1> QED BY <1>2, <1>3

LEMMA PushKeeps ==
    ASSUME TypeOK, NoPacketLost, NEW t \in Threads, PushSend(t)
    PROVE  NoPacketLost'
<1>1. /\ pc = [u \in Threads |-> pc[u]]
      /\ pc' = [pc EXCEPT ![t] = "empty?"]
      /\ buffer' = buffer /\ pendingQ' = pendingQ /\ wire' = wire /\ op' = op
      /\ sent' = sent
  BY DEF TypeOK, PushSend, Goto, locals
<1>2. sendQ' = Append(sendQ, buffer[t])
  BY DEF PushSend
<1>3. sendQ \in Seq(Blocks) /\ buffer[t] \in Blocks
  BY DEF TypeOK, Blocks
<1>4. InSeq(sendQ') = InSeq(sendQ) \cup {buffer[t]}
  BY <1>2, <1>3, InSeqAppend
<1>5. \A u \in Threads \ {t} : pc'[u] = pc[u]
  BY <1>1
<1>6. \A p : Kept(p) => Kept(p)'
  BY <1>1, <1>4, <1>5 DEF Kept
<1> QED BY <1>1, <1>6, KeepsAll

LEMMA DrainKeeps ==
    ASSUME TypeOK, NoPacketLost, NEW t \in Threads, DrainOne(t)
    PROVE  NoPacketLost'
<1>1. /\ pc' = pc /\ buffer' = buffer /\ pendingQ' = pendingQ /\ wire' = wire
      /\ sent' = sent /\ sendQ # <<>> /\ sendQ' = Tail(sendQ)
      /\ op' = [op EXCEPT ![t] = Append(@, Head(sendQ))]
  BY DEF DrainOne
<1>2. sendQ \in Seq(Blocks) /\ op \in [Threads -> Seq(Blocks)]
  BY DEF TypeOK, Blocks
<1>3. InSeq(sendQ) = {Head(sendQ)} \cup InSeq(sendQ') /\ Head(sendQ) \in Blocks
  BY <1>1, <1>2, InSeqHeadTail, TailType
<1>4. InSeq(op'[t]) = InSeq(op[t]) \cup {Head(sendQ)}
  <2>1. op'[t] = Append(op[t], Head(sendQ)) /\ op[t] \in Seq(Blocks)
    BY <1>1, <1>2
  <2> QED BY <1>3, <2>1, InSeqAppend
<1>5. \A u \in Threads \ {t} : op'[u] = op[u]
  BY <1>1, <1>2
<1>6. \A p : Kept(p) => Kept(p)'
  BY <1>1, <1>3, <1>4, <1>5 DEF Kept
<1> QED BY <1>1, <1>6, KeepsAll

LEMMA PostWSASendKeeps ==
    ASSUME TypeOK, NoPacketLost, NEW t \in Threads, PostWSASend(t)
    PROVE  NoPacketLost'
<1>1. /\ pc = [u \in Threads |-> pc[u]] /\ pc[t] = "drain"
      /\ pc' = [pc EXCEPT ![t] = "idle"] /\ buffer' = buffer
      /\ pendingQ' = pendingQ /\ sendQ' = sendQ /\ sent' = sent
  BY DEF TypeOK, PostWSASend, Running, Goto, queues
<1>2. wire' = wire \o op[t] /\ op' = [op EXCEPT ![t] = <<>>]
  BY DEF PostWSASend
<1>3. wire \in Seq(Blocks) /\ op \in [Threads -> Seq(Blocks)]
  BY DEF TypeOK, Blocks
<1>4. InSeq(wire) \cup InSeq(op[t]) \subseteq InSeq(wire')
  BY <1>2, <1>3, InSeqConcat
<1>5. \A u \in Threads \ {t} : op'[u] = op[u] /\ pc'[u] = pc[u]
  BY <1>1, <1>2, <1>3
<1>6. \A p : Kept(p) => Kept(p)'
  BY <1>1, <1>4, <1>5 DEF Kept
<1> QED BY <1>1, <1>6, KeepsAll

LEMMA InitKeeps == ASSUME Init PROVE NoPacketLost
<1>1. Given = {}
  <2>1. ASSUME NEW p \in Given PROVE FALSE
    <3>1. PICK u \in Senders, n \in 1 .. MaxPackets : p = <<u, n>>
      BY DEF Given, Packets
    <3>2. n <= sent[u] /\ sent[u] = 0
      BY <3>1 DEF Given, Init
    <3> QED BY <3>1, <3>2, SendAssumption
  <2> QED BY <2>1
<1> QED BY <1>1 DEF NoPacketLost

LEMMA NextKeeps ==
    ASSUME TypeOK, NoPacketLost, [Next]_sendVars PROVE NoPacketLost'
<1>1. CASE \E t \in Senders : Send(t)
  BY <1>1, SendKeeps
<1>2. CASE \/ UNCHANGED sendVars
           \/ \E t \in Workers : OnSent(t) \/ OnRecv(t) \/ PostRecv(t)
           \/ \E t \in Threads : \/ TestEmpty(t) \/ TestRoom(t)
                                 \/ LoadStatus(t) \/ ExchangeStatus(t)
                                 \/ ReadSize(t)
  BY <1>2, QuietSteps, QuietKeeps
<1>3. CASE \E t \in Threads : \/ PopPending(t) \/ PushSend(t) \/ DrainOne(t)
                              \/ PostWSASend(t)
  BY <1>3, PopKeeps, PushKeeps, DrainKeeps, PostWSASendKeeps
<1> QED BY <1>1, <1>2, <1>3 DEF Next, Step

\* Whatever the senders and the workers do to the two queues and the status,
\* every packet given to Send is on the wire or still held by the socket.
THEOREM NothingLost == Spec => []NoPacketLost
<1>1. Init => NoPacketLost
  BY InitKeeps
<1>2. TypeOK /\ NoPacketLost /\ [Next]_sendVars => NoPacketLost'
  BY NextKeeps
<1> QED BY <1>1, <1>2, TypeCorrect, PTL DEF Spec

-------------------------------------------------------------------------------
(* Nothing else is sent                                                    *)

\* As long as no null has been dereferenced, the wire has only what was given to
\* Send.
OnlyGivenIsSent == fault # "null buffer" => InSeq(wire) \subseteq Given

\* What the threads hold is the same, but for a null in the local of PrepareSend.
GivenInv ==
    /\ InSeq(pendingQ) \subseteq Given
    /\ \A t \in Threads : buffer[t] \in Given \cup {Null}
    /\ fault # "null buffer" =>
        /\ InSeq(sendQ) \subseteq Given /\ InSeq(wire) \subseteq Given
        /\ \A t \in Threads : InSeq(op[t]) \subseteq Given

LEMMA InSeqOfConcat ==
    ASSUME NEW S, NEW s \in Seq(S), NEW u \in Seq(S)
    PROVE  InSeq(s \o u) \subseteq InSeq(s) \cup InSeq(u)
<1>1. /\ Len(s \o u) = Len(s) + Len(u) /\ Len(s) \in Nat /\ Len(u) \in Nat
      /\ \A i \in 1 .. Len(s) : (s \o u)[i] = s[i]
      /\ \A i \in 1 .. Len(u) : (s \o u)[Len(s) + i] = u[i]
  OBVIOUS
<1> SUFFICES ASSUME NEW x \in InSeq(s \o u) PROVE x \in InSeq(s) \cup InSeq(u)
  OBVIOUS
<1>2. PICK i \in 1 .. Len(s \o u) : x = (s \o u)[i]
  BY DEF InSeq
<1>3. CASE i <= Len(s)
  <2>1. i \in 1 .. Len(s) /\ x = s[i]
    BY <1>1, <1>2, <1>3
  <2> QED BY <2>1 DEF InSeq
<1>4. CASE i > Len(s)
  <2>1. i - Len(s) \in 1 .. Len(u) /\ Len(s) + (i - Len(s)) = i
    BY <1>1, <1>4
  <2>2. x = u[i - Len(s)]
    BY <1>1, <1>2, <2>1
  <2> QED BY <2>1, <2>2 DEF InSeq
<1> QED BY <1>1, <1>3, <1>4

LEMMA SendGiven ==
    ASSUME TypeOK, GivenInv, NEW t \in Senders, Send(t) PROVE GivenInv'
<1>1. /\ sent \in [Senders -> 0 .. MaxPackets] /\ sent' = [sent EXCEPT ![t] = @ + 1]
      /\ pendingQ \in Seq(Packets) /\ pendingQ' = Append(pendingQ, <<t, sent'[t]>>)
      /\ buffer' = [buffer EXCEPT ![t] = Null]
      /\ UNCHANGED <<sendQ, wire, op, fault>>
      /\ buffer \in [Threads -> Packets \cup {Null}]
  BY DEF TypeOK, Send, EnterPrepareSend
<1>2. sent' \in [Senders -> 0 .. MaxPackets]
  BY SendType DEF TypeOK
<1>3. sent'[t] = sent[t] + 1 /\ sent'[t] \in 1 .. MaxPackets
  BY <1>1, <1>2, SendAssumption
<1>4. <<t, sent'[t]>> \in Packets /\ <<t, sent'[t]>> \in Given'
  BY <1>3 DEF Packets, Given
<1>5. Given \subseteq Given'
  <2> SUFFICES ASSUME NEW p \in Given PROVE p[2] <= sent'[p[1]]
    BY DEF Given
  <2>1. PICK u \in Senders, n \in 1 .. MaxPackets : p = <<u, n>>
    BY DEF Given, Packets
  <2>2. n <= sent[u] /\ sent[u] \in Nat /\ n \in Nat
    BY <1>1, <2>1 DEF Given
  <2>3. sent'[u] = sent[u] \/ sent'[u] = sent[u] + 1
    BY <1>1
  <2>4. n <= sent'[u]
    BY <2>2, <2>3
  <2> QED BY <2>1, <2>4
<1>6. InSeq(pendingQ') = InSeq(pendingQ) \cup {<<t, sent'[t]>>}
  BY <1>1, <1>4, InSeqAppend
<1>7. \A u \in Threads : buffer'[u] \in {Null, buffer[u]}
  BY <1>1
<1> QED BY <1>1, <1>4, <1>5, <1>6, <1>7 DEF GivenInv

LEMMA StepGiven ==
    ASSUME TypeOK, GivenInv, NEW t \in Threads, Step(t) PROVE GivenInv'
<1>0. /\ buffer \in [Threads -> Packets \cup {Null}] /\ op \in [Threads -> Seq(Blocks)]
      /\ sendQ \in Seq(Blocks) /\ wire \in Seq(Blocks) /\ pendingQ \in Seq(Packets)
      /\ buffer[t] \in Blocks
  BY DEF TypeOK, Blocks
<1>1. sent' = sent /\ Given' = Given
  BY DEF Step, TestEmpty, TestRoom, PopPending, PushSend, LoadStatus, ExchangeStatus,
         ReadSize, DrainOne, PostWSASend, Given
<1>2. CASE TestEmpty(t) \/ TestRoom(t)
  <2>1. \A u \in Threads : buffer'[u] \in {Null, buffer[u]}
    BY <1>0, <1>2 DEF TestEmpty, TestRoom, LeaveLoop, StayInLoop
  <2>2. UNCHANGED <<pendingQ, sendQ, wire, op, fault>>
    BY <1>2 DEF TestEmpty, TestRoom, queues
  <2> QED BY <1>1, <2>1, <2>2 DEF GivenInv
<1>3. CASE LoadStatus(t) \/ ExchangeStatus(t) \/ ReadSize(t)
  BY <1>1, <1>3 DEF LoadStatus, ExchangeStatus, ReadSize, queues, GivenInv
<1>4. CASE PopPending(t)
  <2>1. UNCHANGED <<sendQ, wire, op, fault>>
    BY <1>4 DEF PopPending
  <2>2. CASE pendingQ = <<>>
    BY <1>1, <1>4, <2>1, <2>2 DEF PopPending, GivenInv
  <2>3. CASE pendingQ # <<>>
    <3>1. /\ buffer' = [buffer EXCEPT ![t] = Head(pendingQ)]
          /\ pendingQ' = Tail(pendingQ)
      BY <1>4, <2>3 DEF PopPending
    <3>2. InSeq(pendingQ) = {Head(pendingQ)} \cup InSeq(pendingQ')
      BY <1>0, <2>3, <3>1, InSeqHeadTail
    <3>3. \A u \in Threads : buffer'[u] \in {Head(pendingQ), buffer[u]}
      BY <1>0, <3>1
    <3> QED BY <1>1, <2>1, <3>2, <3>3 DEF GivenInv
  <2> QED BY <2>2, <2>3
<1>5. CASE PushSend(t)
  <2>1. /\ sendQ' = Append(sendQ, buffer[t]) /\ UNCHANGED <<pendingQ, wire, op, buffer>>
        /\ fault = "none" /\ fault' = IF buffer[t] = Null THEN "null buffer" ELSE "none"
    BY <1>5 DEF PushSend, locals, Running
  <2>2. InSeq(sendQ') = InSeq(sendQ) \cup {buffer[t]}
    <3>1. sendQ \in Seq(Blocks) /\ buffer[t] \in Blocks
      BY <1>0
    <3>2. InSeq(Append(sendQ, buffer[t])) = InSeq(sendQ) \cup {buffer[t]}
      BY <3>1, InSeqAppend
    <3> QED BY <2>1, <3>2
  <2>3. fault' # "null buffer" => buffer[t] \in Given
    BY <2>1 DEF GivenInv
  <2> QED BY <1>1, <2>1, <2>2, <2>3 DEF GivenInv
<1>6. CASE DrainOne(t)
  <2>1. /\ sendQ # <<>> /\ sendQ' = Tail(sendQ) /\ UNCHANGED <<pendingQ, wire, buffer>>
        /\ op' = [op EXCEPT ![t] = Append(@, Head(sendQ))] /\ fault = "none"
    BY <1>6 DEF DrainOne, Running
  <2>2. InSeq(sendQ) = {Head(sendQ)} \cup InSeq(sendQ') /\ Head(sendQ) \in Blocks
    BY <1>0, <2>1, InSeqHeadTail, TailType
  <2>3. op'[t] = Append(op[t], Head(sendQ)) /\ op[t] \in Seq(Blocks)
        /\ \A u \in Threads \ {t} : op'[u] = op[u]
    BY <1>0, <2>1
  <2>4. InSeq(op'[t]) = InSeq(op[t]) \cup {Head(sendQ)}
    BY <2>2, <2>3, InSeqAppend
  <2>5. \A u \in Threads : InSeq(op'[u]) \subseteq Given
    BY <2>1, <2>2, <2>3, <2>4 DEF GivenInv
  <2> QED BY <1>1, <2>1, <2>2, <2>5 DEF GivenInv
<1>7. CASE PostWSASend(t)
  <2>1. /\ wire' = wire \o op[t] /\ op' = [op EXCEPT ![t] = <<>>] /\ fault = "none"
        /\ UNCHANGED <<pendingQ, sendQ, buffer, fault>>
    BY <1>7 DEF PostWSASend, Running, queues
  <2>2. InSeq(wire') \subseteq InSeq(wire) \cup InSeq(op[t])
    BY <1>0, <2>1, InSeqOfConcat
  <2>3. InSeq(<<>>) = {}
    BY DEF InSeq
  <2>4. \A u \in Threads : InSeq(op'[u]) \subseteq Given
    BY <1>0, <2>1, <2>3 DEF GivenInv
  <2> QED BY <1>1, <2>1, <2>2, <2>4 DEF GivenInv
<1> QED BY <1>2, <1>3, <1>4, <1>5, <1>6, <1>7 DEF Step

LEMMA NextGiven == ASSUME TypeOK, GivenInv, [Next]_sendVars PROVE GivenInv'
<1>1. ASSUME NEW t \in Workers, OnSent(t) \/ OnRecv(t) \/ PostRecv(t) PROVE GivenInv'
  <2>1. UNCHANGED <<pendingQ, sendQ, wire, op, fault, sent>> /\ Given' = Given
    BY <1>1 DEF OnSent, OnRecv, PostRecv, queues, locals, Given
  <2>2. \A u \in Threads : buffer'[u] \in {Null, buffer[u]}
    BY <1>1 DEF TypeOK, OnSent, OnRecv, PostRecv, EnterPrepareSend, locals
  <2> QED BY <2>1, <2>2 DEF GivenInv
<1>2. CASE UNCHANGED sendVars
  BY <1>2 DEF sendVars, GivenInv, Given
<1> QED BY <1>1, <1>2, SendGiven, StepGiven DEF Next

\* However many threads push a block that a failed try_pop has left behind, each
\* block that WSASend is given is a packet that was given to Send: old ones may be
\* repeated, none is made up (NetSocket::PrepareSend).
THEOREM NothingInvented == Spec => []OnlyGivenIsSent
<1>1. Init => GivenInv
  <2> SUFFICES ASSUME Init PROVE GivenInv
    OBVIOUS
  <2>1. InSeq(<<>>) = {}
    BY DEF InSeq
  <2> QED BY <2>1 DEF Init, GivenInv
<1>2. TypeOK /\ GivenInv /\ [Next]_sendVars => GivenInv'
  BY NextGiven
<1>3. GivenInv => OnlyGivenIsSent
  BY DEF GivenInv, OnlyGivenIsSent
<1> QED BY <1>1, <1>2, <1>3, TypeCorrect, PTL DEF Spec

-------------------------------------------------------------------------------
(* Who moves the packets                                                   *)

\* Somebody is about to look at the pending queue, or will when a write completes.
SomebodyLooks ==
    \/ inFlight > 0
    \/ \E t \in Threads : pc[t] \in {"empty?", "room?", "pop", "push", "drain"}

Attended == pendingQ = <<>> \/ ~HasRoom \/ SomebodyLooks

LEMMA AttendedHandler ==
    ASSUME TypeOK, Attended, NEW t \in Threads,
           \/ t \in Senders /\ Send(t)
           \/ t \in Workers /\ (OnSent(t) \/ OnRecv(t) \/ PostRecv(t))
    PROVE  Attended'
<1>0. pc \in [Threads -> {"idle", "recv", "empty?", "room?", "pop", "push", "load", "cas",
                          "size", "drain"}]
  BY DEF TypeOK
<1>1. CASE Send(t) \/ OnSent(t)
  <2>1. pc' = [pc EXCEPT ![t] = "empty?"]
    BY <1>1 DEF Send, OnSent, EnterPrepareSend, Goto
  <2>2. pc'[t] = "empty?"
    BY <1>0, <2>1
  <2> QED BY <2>2 DEF Attended, SomebodyLooks
<1>2. CASE OnRecv(t) \/ PostRecv(t)
  <2>1. pc[t] \in {"idle", "recv"} /\ \A u \in Threads \ {t} : pc'[u] = pc[u]
    BY <1>0, <1>2 DEF OnRecv, PostRecv, Running, Goto
  <2>2. pendingQ' = pendingQ /\ sendQ' = sendQ /\ inFlight' = inFlight
    BY <1>2 DEF OnRecv, PostRecv, queues
  <2>3. \A u \in Threads : pc[u] \in {"empty?", "room?", "pop", "push", "drain"}
                            => pc'[u] = pc[u]
    BY <2>1
  <2> QED BY <2>2, <2>3 DEF Attended, SomebodyLooks, HasRoom
<1> QED BY <1>1, <1>2

LEMMA AttendedStep ==
    ASSUME TypeOK, Attended, NEW t \in Threads, Step(t) PROVE Attended'
<1>0. /\ pc \in [Threads -> {"idle", "recv", "empty?", "room?", "pop", "push", "load", "cas",
                             "size", "drain"}]
      /\ inFlight \in Nat
  BY DEF TypeOK
<1>1. CASE TestEmpty(t)
  <2>1. CASE pendingQ = <<>>
    BY <1>1, <2>1 DEF TestEmpty, queues, Attended
  <2>2. CASE pendingQ # <<>>
    <3>1. pc' = [pc EXCEPT ![t] = "room?"]
      BY <1>1, <2>2 DEF TestEmpty, StayInLoop, Goto, Enter
    <3>2. pc'[t] = "room?"
      BY <1>0, <3>1
    <3> QED BY <3>2 DEF Attended, SomebodyLooks
  <2> QED BY <2>1, <2>2
<1>2. CASE TestRoom(t)
  <2>1. CASE ~HasRoom
    BY <1>2, <2>1 DEF TestRoom, queues, Attended, HasRoom
  <2>2. CASE HasRoom
    <3>1. pc' = [pc EXCEPT ![t] = "pop"]
      BY <1>2, <2>2 DEF TestRoom, StayInLoop, Goto
    <3>2. pc'[t] = "pop"
      BY <1>0, <3>1
    <3> QED BY <3>2 DEF Attended, SomebodyLooks
  <2> QED BY <2>1, <2>2
<1>3. CASE PopPending(t) \/ PushSend(t) \/ DrainOne(t)
  <2>1. pc'[t] \in {"push", "empty?", "drain"}
    BY <1>0, <1>3 DEF PopPending, PushSend, DrainOne, Running, Goto
  <2> QED BY <2>1 DEF Attended, SomebodyLooks
<1>4. CASE LoadStatus(t) \/ ExchangeStatus(t) \/ ReadSize(t)
  <2>1. pc[t] \in {"load", "cas", "size"} /\ \A u \in Threads \ {t} : pc'[u] = pc[u]
    BY <1>0, <1>4 DEF LoadStatus, ExchangeStatus, ReadSize, Running, Goto, Enter
  <2>2. pendingQ' = pendingQ /\ sendQ' = sendQ /\ inFlight' = inFlight
    BY <1>4 DEF LoadStatus, ExchangeStatus, ReadSize, queues
  <2>3. \A u \in Threads : pc[u] \in {"empty?", "room?", "pop", "push", "drain"}
                            => pc'[u] = pc[u]
    BY <2>1
  <2> QED BY <2>2, <2>3 DEF Attended, SomebodyLooks, HasRoom
<1>5. CASE PostWSASend(t)
  <2>1. inFlight' > 0
    BY <1>0, <1>5 DEF PostWSASend
  <2> QED BY <2>1 DEF Attended, SomebodyLooks
<1> QED BY <1>1, <1>2, <1>3, <1>4, <1>5 DEF Step

\* As long as the send queue has room no packet is left alone in the pending queue:
\* who leaves the loop of PrepareSend does so with the one empty or the other full,
\* and who empties the other posts a write whose completion comes back to it.
THEOREM NobodyLeftBehind == Spec => []StuckBehindFullQueueOnly
<1>1. Init => Attended
  BY DEF Init, Attended
<1>2. TypeOK /\ Attended /\ [Next]_sendVars => Attended'
  <2> SUFFICES ASSUME TypeOK, Attended, [Next]_sendVars PROVE Attended'
    OBVIOUS
  <2>1. CASE Next
    BY <2>1, AttendedHandler, AttendedStep DEF Next, Threads
  <2>2. CASE UNCHANGED sendVars
    BY <2>2 DEF sendVars, Attended, SomebodyLooks, HasRoom
  <2> QED BY <2>1, <2>2
<1>3. TypeOK /\ Attended => StuckBehindFullQueueOnly
  BY DEF TypeOK, Attended, SomebodyLooks, StuckBehindFullQueueOnly, Quiescent
<1> QED BY <1>1, <1>2, <1>3, TypeCorrect, PTL DEF Spec

-------------------------------------------------------------------------------
(* Nobody else between the queues                                          *)

\* What t relies on between the queues: what it tested still holds.
Founded(t) ==
    /\ pc[t] \in {"room?", "pop"} => pendingQ # <<>>
    /\ pc[t] = "push" => buffer[t] # Null
    /\ pc[t] = "drain" => Len(op[t]) + Len(sendQ) = wbufs[t]
    /\ pc[t] # "drain" => op[t] = <<>>

\* Nobody else is between the queues.
Alone(t) == \A u \in Threads \ {t} : ~Between(u)

Undisturbed ==
    ~crowded =>
        /\ fault = "none"
        /\ \A t \in Threads : Founded(t)
        /\ \A t \in Threads : Between(t) => Alone(t)

\* A step changes the queues only between them, and it comes there alone or is noted.
LEMMA StepFrame ==
    ASSUME TypeOK, NEW t \in Threads, Step(t)
    PROVE  /\ \A u \in Threads \ {t} : /\ pc'[u] = pc[u] /\ buffer'[u] = buffer[u]
                                        /\ op'[u] = op[u] /\ wbufs'[u] = wbufs[u]
           /\ ~crowded' => ~crowded
           /\ ~crowded' /\ Between(t)' => Between(t) \/ Alone(t)
           /\ ~Between(t) => UNCHANGED <<pendingQ, sendQ, wire, op, fault>>
           /\ UNCHANGED <<sent, calls>>
<1>0. /\ pc = [u \in Threads |-> pc[u]] /\ buffer = [u \in Threads |-> buffer[u]]
      /\ op = [u \in Threads |-> op[u]] /\ wbufs = [u \in Threads |-> wbufs[u]]
  BY DEF TypeOK
<1>1. CASE TestEmpty(t)
  BY <1>0, <1>1 DEF TestEmpty, LeaveLoop, Enter, Goto, Running, Between, Alone, queues
<1>2. CASE TestRoom(t)
  BY <1>0, <1>2 DEF TestRoom, LeaveLoop, StayInLoop, Goto, Running, Between, queues,
                    history
<1>6. CASE PopPending(t)
  <2>1. /\ UNCHANGED <<op, wbufs, sent, history>> /\ Between(t)
        /\ \A u \in Threads \ {t} : pc'[u] = pc[u]
    BY <1>0, <1>6 DEF PopPending, Goto, Running, Between
  <2>2. \A u \in Threads \ {t} : buffer'[u] = buffer[u]
    BY <1>0, <1>6 DEF PopPending
  <2> QED BY <2>1, <2>2 DEF history
<1>7. CASE PushSend(t)
  <2>1. /\ UNCHANGED <<sent, locals, history>> /\ Between(t)
        /\ \A u \in Threads \ {t} : pc'[u] = pc[u]
    BY <1>0, <1>7 DEF PushSend, Goto, Running, Between
  <2> QED BY <2>1 DEF locals, history
<1>3. CASE LoadStatus(t) \/ ExchangeStatus(t)
  BY <1>0, <1>3 DEF LoadStatus, ExchangeStatus, Goto, Running, Between, queues, history
<1>4. CASE ReadSize(t)
  BY <1>0, <1>4 DEF ReadSize, Enter, Goto, Running, Between, Alone, queues
<1>5. CASE DrainOne(t)
  <2>1. UNCHANGED <<pc, buffer, wbufs, sent, history>> /\ Between(t)
    BY <1>5 DEF DrainOne, Running, Between
  <2>2. \A u \in Threads \ {t} : op'[u] = op[u]
    BY <1>0, <1>5 DEF DrainOne
  <2> QED BY <2>1, <2>2 DEF history
<1>8. CASE PostWSASend(t)
  <2>1. /\ UNCHANGED <<buffer, sent, history>> /\ Between(t)
        /\ \A u \in Threads \ {t} : pc'[u] = pc[u]
    BY <1>0, <1>8 DEF PostWSASend, Goto, Running, Between
  <2>2. \A u \in Threads \ {t} : op'[u] = op[u] /\ wbufs'[u] = wbufs[u]
    BY <1>0, <1>8 DEF PostWSASend
  <2> QED BY <2>1, <2>2 DEF history
<1> QED BY <1>1, <1>2, <1>3, <1>4, <1>5, <1>6, <1>7, <1>8 DEF Step

\* The steps of Send and of the handlers outside PrepareSend and PostSend.
Handler(t) ==
    \/ t \in Senders /\ Send(t)
    \/ t \in Workers /\ (OnSent(t) \/ OnRecv(t) \/ PostRecv(t))

LEMMA HandlerFrame ==
    ASSUME TypeOK, NEW t \in Threads, Handler(t)
    PROVE  /\ pc[t] \in {"idle", "recv"} /\ pc'[t] \in {"empty?", "recv", "idle"}
           /\ \A u \in Threads \ {t} : /\ pc'[u] = pc[u] /\ buffer'[u] = buffer[u]
           /\ UNCHANGED <<sendQ, wire, op, wbufs, fault, crowded>>
           /\ pendingQ # <<>> => pendingQ' # <<>>
<1>1. /\ pc = [u \in Threads |-> pc[u]] /\ buffer = [u \in Threads |-> buffer[u]]
      /\ pendingQ \in Seq(Packets)
  BY DEF TypeOK
<1>2. CASE t \in Senders /\ Send(t)
  <2>1. pendingQ' # <<>>
    <3>1. pendingQ' = Append(pendingQ, <<t, sent'[t]>>)
      BY <1>2 DEF Send
    <3> QED BY <1>1, <3>1
  <2> QED BY <1>1, <1>2, <2>1 DEF Send, EnterPrepareSend, Running, Goto
<1>3. CASE OnSent(t)
  BY <1>1, <1>3 DEF OnSent, EnterPrepareSend, Running, Goto, queues, history
<1>4. CASE OnRecv(t) \/ PostRecv(t)
  BY <1>1, <1>4 DEF OnRecv, PostRecv, Running, Goto, queues, locals, history
<1> QED BY <1>2, <1>3, <1>4 DEF Handler

LEMMA UndisturbedHandler ==
    ASSUME TypeOK, Undisturbed, NEW t \in Threads, Handler(t) PROVE Undisturbed'
<1> SUFFICES ASSUME ~crowded'
             PROVE  /\ fault' = "none"
                    /\ \A u \in Threads : Founded(u)'
                    /\ \A u \in Threads : Between(u)' => Alone(u)'
  BY DEF Undisturbed
<1>1. /\ fault = "none" /\ \A u \in Threads : Founded(u)
      /\ \A u \in Threads : Between(u) => Alone(u)
  BY HandlerFrame DEF Undisturbed
<1>2. \A u \in Threads : Between(u)' <=> Between(u)
  BY HandlerFrame DEF Between
<1>3. ASSUME NEW u \in Threads PROVE Founded(u)'
  <2>1. CASE u = t
    BY <1>1, <2>1, HandlerFrame DEF Founded
  <2>2. CASE u # t
    BY <1>1, <2>2, HandlerFrame DEF Founded
  <2> QED BY <2>1, <2>2
<1> QED BY <1>1, <1>2, <1>3, HandlerFrame DEF Alone

\* What t relies on, and that it comes to no fault, through its own step.
LEMMA FoundedStep ==
    ASSUME TypeOK, fault = "none", NEW t \in Threads, Founded(t), Step(t)
    PROVE  fault' = "none" /\ Founded(t)'
<1>0. /\ pc \in [Threads -> {"idle", "recv", "empty?", "room?", "pop", "push", "load", "cas",
                             "size", "drain"}]
      /\ buffer \in [Threads -> Packets \cup {Null}]
      /\ wbufs \in [Threads -> Nat]
      /\ op \in [Threads -> Seq(Packets \cup {Null})]
      /\ sendQ \in Seq(Packets \cup {Null}) /\ pendingQ \in Seq(Packets)
  BY DEF TypeOK
<1>1. CASE TestEmpty(t)
  <2>1. pc'[t] \in {"room?", "idle", "load"} /\ (pc'[t] = "room?" => pendingQ # <<>>)
    BY <1>0, <1>1 DEF TestEmpty, LeaveLoop, StayInLoop, Enter, Goto
  <2>2. pendingQ' = pendingQ /\ op' = op /\ fault' = fault /\ pc[t] = "empty?"
    BY <1>1 DEF TestEmpty, Running, queues
  <2> QED BY <2>1, <2>2 DEF Founded
<1>2. CASE TestRoom(t)
  <2>1. pc'[t] \in {"pop", "idle", "load"}
    BY <1>0, <1>2 DEF TestRoom, LeaveLoop, StayInLoop, Enter, Goto
  <2>2. pendingQ' = pendingQ /\ op' = op /\ fault' = fault /\ pc[t] = "room?"
    BY <1>2 DEF TestRoom, Running, queues
  <2> QED BY <2>1, <2>2 DEF Founded
<1>3. CASE PopPending(t)
  <2>1. pendingQ # <<>> /\ pc[t] = "pop"
    BY <1>3 DEF PopPending, Running, Founded
  <2>2. buffer'[t] = Head(pendingQ) /\ pc'[t] = "push" /\ op' = op /\ fault' = fault
    BY <1>0, <1>3, <2>1 DEF PopPending, Goto
  <2>3. Head(pendingQ) # Null
    <3>1. Head(pendingQ) \in Packets
      BY <1>0, <2>1, TailType
    <3>2. PICK u \in Senders, n \in 1 .. MaxPackets : Head(pendingQ) = <<u, n>>
      BY <3>1 DEF Packets
    <3> QED BY <3>2 DEF Null
  <2> QED BY <2>1, <2>2, <2>3 DEF Founded
<1>4. CASE PushSend(t)
  <2>1. pc[t] = "push" /\ pc'[t] = "empty?" /\ op' = op
    BY <1>0, <1>4 DEF PushSend, Running, Goto, locals
  <2>2. fault' = "none"
    BY <1>4, <2>1 DEF PushSend, Founded
  <2> QED BY <2>1, <2>2 DEF Founded
<1>5. CASE LoadStatus(t) \/ ExchangeStatus(t)
  <2>1. pc[t] # "drain" /\ pc'[t] \in {"cas", "size", "idle"} /\ op' = op /\ fault' = fault
    BY <1>0, <1>5 DEF LoadStatus, ExchangeStatus, Running, Goto
  <2> QED BY <2>1 DEF Founded
<1>6. CASE ReadSize(t)
  <2>1. /\ pc[t] = "size" /\ pc'[t] \in {"idle", "drain"} /\ op' = op /\ fault' = fault
        /\ wbufs'[t] = Len(sendQ) /\ sendQ' = sendQ
    BY <1>0, <1>6 DEF ReadSize, Enter, Running, Goto, queues
  <2>2. op[t] = <<>>
    BY <2>1 DEF Founded
  <2> QED BY <1>0, <2>1, <2>2 DEF Founded
<1>7. CASE DrainOne(t)
  <2>1. /\ pc[t] = "drain" /\ pc' = pc /\ wbufs' = wbufs
        /\ sendQ # <<>> /\ sendQ' = Tail(sendQ)
        /\ op' = [op EXCEPT ![t] = Append(@, Head(sendQ))]
    BY <1>7 DEF DrainOne, Running
  <2>2. Len(sendQ') = Len(sendQ) - 1 /\ Len(sendQ) \in Nat /\ Len(sendQ) > 0
        /\ Head(sendQ) \in Packets \cup {Null}
    BY <1>0, <2>1, TailType
  <2>3. Len(op'[t]) = Len(op[t]) + 1 /\ Len(op[t]) \in Nat
    BY <1>0, <2>1, <2>2
  <2>4. Len(op[t]) + Len(sendQ) = wbufs[t]
    BY <2>1 DEF Founded
  <2>5. fault' = "none"
    <3>1. Fits(t)
      BY <2>2, <2>3, <2>4 DEF Fits
    <3>2. fault' = IF Fits(t) THEN "none" ELSE "wbufs overrun"
      BY <1>7 DEF DrainOne
    <3> QED BY <3>1, <3>2
  <2>6. Len(op'[t]) + Len(sendQ') = wbufs'[t]
    BY <2>1, <2>2, <2>3, <2>4
  <2> QED BY <2>1, <2>5, <2>6 DEF Founded
<1>8. CASE PostWSASend(t)
  <2>1. pc'[t] = "idle" /\ op'[t] = <<>> /\ fault' = fault
    BY <1>0, <1>8 DEF PostWSASend, Goto
  <2> QED BY <2>1 DEF Founded
<1> QED BY <1>1, <1>2, <1>3, <1>4, <1>5, <1>6, <1>7, <1>8 DEF Step

LEMMA UndisturbedStep ==
    ASSUME TypeOK, Undisturbed, NEW t \in Threads, Step(t) PROVE Undisturbed'
<1> SUFFICES ASSUME ~crowded'
             PROVE  /\ fault' = "none"
                    /\ \A u \in Threads : Founded(u)'
                    /\ \A u \in Threads : Between(u)' => Alone(u)'
  BY DEF Undisturbed
<1>1. /\ fault = "none" /\ \A u \in Threads : Founded(u)
      /\ \A u \in Threads : Between(u) => Alone(u)
  BY StepFrame DEF Undisturbed
<1>2. fault' = "none" /\ Founded(t)'
  BY <1>1, FoundedStep
<1>3. \A u \in Threads \ {t} : Between(u)' <=> Between(u)
  BY StepFrame DEF Between
<1>4. Between(t)' => Alone(t)
  BY <1>1, StepFrame
<1>5. ASSUME NEW u \in Threads \ {t} PROVE Founded(u)'
  <2>1. CASE Between(u)
    <3>1. ~Between(t)
      BY <1>1, <2>1 DEF Alone
    <3> QED BY <1>1, <1>5, <3>1, StepFrame DEF Founded
  <2>2. CASE ~Between(u)
    BY <1>1, <1>5, <2>2, StepFrame DEF Founded, Between
  <2> QED BY <2>1, <2>2
<1>6. ASSUME NEW u \in Threads, Between(u)' PROVE Alone(u)'
  <2>1. CASE u = t
    BY <1>3, <1>4, <1>6, <2>1 DEF Alone
  <2>2. CASE u # t
    <3>1. Between(u) /\ Alone(u) /\ ~Between(t)'
      BY <1>1, <1>3, <1>4, <1>6, <2>2 DEF Alone
    <3> QED BY <1>3, <3>1 DEF Alone
  <2> QED BY <2>1, <2>2
<1> QED BY <1>2, <1>5, <1>6

LEMMA UndisturbedInvariant ==
    /\ Init => Undisturbed
    /\ TypeOK /\ Undisturbed /\ [Next]_sendVars => Undisturbed'
<1>1. Init => Undisturbed
  BY DEF Init, Undisturbed, Founded, Between
<1>2. TypeOK /\ Undisturbed /\ [Next]_sendVars => Undisturbed'
  <2> SUFFICES ASSUME TypeOK, Undisturbed, [Next]_sendVars PROVE Undisturbed'
    OBVIOUS
  <2>1. CASE Next
    BY <2>1, UndisturbedHandler, UndisturbedStep DEF Next, Handler, Threads
  <2>2. CASE UNCHANGED sendVars
    BY <2>2 DEF sendVars, Undisturbed, Founded, Alone, Between
  <2> QED BY <2>1, <2>2
<1> QED BY <1>1, <1>2

\* Whatever the number of threads and of packets and the size of the array: a null
\* block is dereferenced, and a WSASend's array of buffers overrun, only after two
\* threads have been between the queues at once (NetSocket::PrepareSend, PostSend).
THEOREM FaultNeedsCrowd == Spec => []FaultOnlyWhenCrowded
<1>1. Undisturbed => FaultOnlyWhenCrowded
  BY DEF Undisturbed, FaultOnlyWhenCrowded, NoFault
<1> QED BY <1>1, UndisturbedInvariant, TypeCorrect, PTL DEF Spec

OneThread == \A t, u \in Threads : t = u

\* So a program whose one thread does all the sending and completing, as
\* IocpClient's, never comes down, however many packets it sends
\* (NetSocket::PrepareSend, NetSocket::PostSend).
THEOREM ClientSafe ==
    ASSUME OneThread
    PROVE  Spec => []NoFault
<1>1. Init => ~crowded
  BY DEF Init
<1>2. ~crowded /\ [Next]_sendVars => ~crowded'
  BY DEF OneThread, Next, Step, Send, OnSent, OnRecv, PostRecv, TestEmpty, TestRoom,
         PopPending, PushSend, LoadStatus, ExchangeStatus, ReadSize, DrainOne,
         PostWSASend, Enter, history, sendVars
<1>3. ~crowded /\ FaultOnlyWhenCrowded => NoFault
  BY DEF FaultOnlyWhenCrowded
<1> QED BY <1>1, <1>2, <1>3, FaultNeedsCrowd, PTL DEF Spec

-------------------------------------------------------------------------------
(* The order of the packets                                                *)

\* The first element of one sequence is put at the end of the one before it.
LEMMA MoveOne ==
    ASSUME NEW S, NEW s \in Seq(S), NEW u \in Seq(S), u # <<>>
    PROVE  Append(s, Head(u)) \o Tail(u) = s \o u
<1> DEFINE x == Append(s, Head(u))  r == Tail(u)
<1>1. /\ x \in Seq(S) /\ Len(x) = Len(s) + 1 /\ x[Len(s) + 1] = Head(u)
      /\ \A i \in 1 .. Len(s) : x[i] = s[i]
  BY HeadTailProperties, AppendProperties
<1>2. /\ r \in Seq(S) /\ Len(r) = Len(u) - 1 /\ Head(u) = u[1]
      /\ \A i \in 1 .. Len(r) : r[i] = u[i + 1]
  BY HeadTailProperties
<1> HIDE DEF x, r
<1> DEFINE y == x \o r  z == s \o u
<1>3. /\ y \in Seq(S) /\ Len(y) = Len(x) + Len(r)
      /\ \A i \in 1 .. Len(x) + Len(r) : y[i] = IF i <= Len(x) THEN x[i]
                                                              ELSE r[i - Len(x)]
  BY <1>1, <1>2, ConcatProperties
<1>4. /\ z \in Seq(S) /\ Len(z) = Len(s) + Len(u)
      /\ \A i \in 1 .. Len(s) + Len(u) : z[i] = IF i <= Len(s) THEN s[i]
                                                              ELSE u[i - Len(s)]
  BY ConcatProperties
<1> HIDE DEF y, z
<1>5. Len(s) \in Nat /\ Len(u) \in Nat
  OBVIOUS
<1>6. Len(y) = Len(z)
  BY <1>1, <1>2, <1>3, <1>4, <1>5
<1>7. ASSUME NEW i \in 1 .. Len(y) PROVE y[i] = z[i]
  <2>1. i \in 1 .. Len(x) + Len(r) /\ i \in 1 .. Len(s) + Len(u)
    BY <1>3, <1>4, <1>6
  <2>2. CASE i <= Len(s)
    <3>1. i <= Len(x) /\ i \in 1 .. Len(s)
      BY <1>1, <1>5, <2>1, <2>2
    <3> QED BY <1>1, <1>3, <1>4, <2>1, <2>2, <3>1
  <2>3. CASE i = Len(s) + 1
    <3>1. i <= Len(x) /\ ~(i <= Len(s)) /\ i - Len(s) = 1
      BY <1>1, <1>5, <2>3
    <3> QED BY <1>1, <1>2, <1>3, <1>4, <2>1, <2>3, <3>1
  <2>4. CASE i > Len(s) + 1
    <3>1. ~(i <= Len(x)) /\ ~(i <= Len(s)) /\ (i - Len(x)) + 1 = i - Len(s)
          /\ i - Len(x) \in 1 .. Len(r)
      BY <1>1, <1>2, <1>5, <2>1, <2>4
    <3>2. y[i] = r[i - Len(x)] /\ z[i] = u[i - Len(s)]
      BY <1>3, <1>4, <2>1, <3>1
    <3>3. r[i - Len(x)] = u[(i - Len(x)) + 1]
      BY <1>2, <3>1
    <3> QED BY <3>1, <3>2, <3>3
  <2> QED BY <1>5, <2>1, <2>2, <2>3, <2>4
<1>8. y = z
  BY <1>3, <1>4, <1>6, <1>7, SeqEqual
<1> QED BY <1>8 DEF y, z, x, r

LEMMA AppendInside ==
    ASSUME NEW S, NEW s \in Seq(S), NEW u \in Seq(S), NEW x \in S
    PROVE  s \o Append(u, x) = Append(s \o u, x)
<1>1. <<x>> \in Seq(S)
  OBVIOUS
<1>2. Append(u, x) = u \o <<x>> /\ Append(s \o u, x) = (s \o u) \o <<x>>
  BY AppendIsConcat, ConcatProperties
<1>3. (s \o u) \o <<x>> = s \o (u \o <<x>>)
  BY <1>1, ConcatAssociative
<1> QED BY <1>2, <1>3

\* Where the packets are, the ones on the wire first, when only t holds any.
InHand(t) == IF pc[t] = "push" THEN <<buffer[t]>> ELSE <<>>
LineOf(t) == (((wire \o op[t]) \o sendQ) \o InHand(t)) \o pendingQ

\* Nothing is out of place, missing or too much in the line.
InLine == ~crowded => \A t \in Threads : Alone(t) => LineOf(t) = calls

LEMMA LineType ==
    ASSUME TypeOK, NEW t \in Threads
    PROVE  /\ wire \in Seq(Blocks) /\ op[t] \in Seq(Blocks) /\ sendQ \in Seq(Blocks)
           /\ InHand(t) \in Seq(Blocks) /\ pendingQ \in Seq(Blocks)
           /\ wire \o op[t] \in Seq(Blocks)
           /\ (wire \o op[t]) \o sendQ \in Seq(Blocks)
           /\ ((wire \o op[t]) \o sendQ) \o InHand(t) \in Seq(Blocks)
           /\ LineOf(t) \in Seq(Blocks)
<1>1. /\ wire \in Seq(Blocks) /\ op[t] \in Seq(Blocks) /\ sendQ \in Seq(Blocks)
      /\ buffer[t] \in Blocks
  BY DEF TypeOK, Blocks
<1>2. pendingQ \in Seq(Blocks)
  <2>1. pendingQ \in Seq(Packets) /\ Packets \subseteq Blocks
    BY DEF TypeOK, Blocks
  <2> QED BY <2>1
<1>3. InHand(t) \in Seq(Blocks)
  BY <1>1 DEF InHand
<1>4. wire \o op[t] \in Seq(Blocks)
  BY <1>1
<1>5. (wire \o op[t]) \o sendQ \in Seq(Blocks)
  BY <1>1, <1>4, ConcatProperties
<1>6. ((wire \o op[t]) \o sendQ) \o InHand(t) \in Seq(Blocks)
  BY <1>3, <1>5, ConcatProperties
<1>7. LineOf(t) \in Seq(Blocks)
  BY <1>2, <1>6, ConcatProperties DEF LineOf
<1> QED BY <1>1, <1>2, <1>3, <1>4, <1>5, <1>6, <1>7

\* Who is alone between the queues moves packets along the line.
LEMMA LineStep ==
    ASSUME TypeOK, fault = "none", NEW t \in Threads, Founded(t), Step(t)
    PROVE  LineOf(t)' = LineOf(t)
<1>0. /\ pc \in [Threads -> {"idle", "recv", "empty?", "room?", "pop", "push", "load", "cas",
                             "size", "drain"}]
      /\ buffer \in [Threads -> Packets \cup {Null}]
      /\ op \in [Threads -> Seq(Packets \cup {Null})]
  BY DEF TypeOK
<1> DEFINE y == wire \o op[t]  x == y \o sendQ
<1>t. /\ wire \in Seq(Blocks) /\ op[t] \in Seq(Blocks) /\ sendQ \in Seq(Blocks)
      /\ pendingQ \in Seq(Blocks) /\ y \in Seq(Blocks) /\ x \in Seq(Blocks)
  BY LineType
<1>e. \A s \in Seq(Blocks) : s \o <<>> = s
  BY ConcatEmptySeq
<1>1. CASE \/ TestEmpty(t) \/ TestRoom(t) \/ LoadStatus(t) \/ ExchangeStatus(t)
           \/ ReadSize(t)
  <2>1. pc[t] # "push" /\ pc'[t] # "push"
    BY <1>0, <1>1 DEF TestEmpty, TestRoom, LoadStatus, ExchangeStatus, ReadSize,
                      LeaveLoop, StayInLoop, Enter, Running, Goto
  <2>2. UNCHANGED <<wire, op, sendQ, pendingQ, sent>>
    BY <1>1 DEF TestEmpty, TestRoom, LoadStatus, ExchangeStatus, ReadSize, queues
  <2>3. LineOf(t)' = LineOf(t)
    BY <2>1, <2>2 DEF LineOf, InHand
  <2> QED BY <2>2, <2>3
<1>2. CASE PopPending(t)
  <2>1. pendingQ # <<>> /\ pc[t] = "pop"
    BY <1>2 DEF PopPending, Running, Founded
  <2>2. /\ buffer'[t] = Head(pendingQ) /\ pendingQ' = Tail(pendingQ) /\ pc'[t] = "push"
        /\ UNCHANGED <<wire, op, sendQ, sent>>
    BY <1>0, <1>2, <2>1 DEF PopPending, Goto
  <2>3. LineOf(t) = x \o pendingQ
    BY <1>e, <1>t, <2>1 DEF LineOf, InHand
  <2>4. LineOf(t)' = (x \o <<Head(pendingQ)>>) \o Tail(pendingQ)
    BY <2>2 DEF LineOf, InHand
  <2>5. x \o <<Head(pendingQ)>> = Append(x, Head(pendingQ))
    <3> HIDE DEF x
    <3>1. Head(pendingQ) \in Blocks
      BY <1>t, <2>1, HeadTailProperties
    <3> QED BY <1>t, <3>1, AppendIsConcat
  <2>6. Append(x, Head(pendingQ)) \o Tail(pendingQ) = x \o pendingQ
    <3> HIDE DEF x
    <3> QED BY <1>t, <2>1, MoveOne
  <2> QED BY <2>2, <2>3, <2>4, <2>5, <2>6
<1>3. CASE PushSend(t)
  <2>1. /\ pc[t] = "push" /\ pc'[t] = "empty?" /\ sendQ' = Append(sendQ, buffer[t])
        /\ UNCHANGED <<wire, op, pendingQ, sent>> /\ buffer[t] \in Blocks
    BY <1>0, <1>3 DEF PushSend, Running, Goto, locals, Blocks
  <2>2. LineOf(t) = (x \o <<buffer[t]>>) \o pendingQ
    BY <2>1 DEF LineOf, InHand
  <2>3. LineOf(t)' = ((y \o Append(sendQ, buffer[t])) \o <<>>) \o pendingQ
    BY <2>1 DEF LineOf, InHand
  <2>4. y \o Append(sendQ, buffer[t]) = x \o <<buffer[t]>>
    <3> HIDE DEF y
    <3>1. y \o Append(sendQ, buffer[t]) = Append(x, buffer[t])
      BY <1>t, <2>1, AppendInside
    <3> HIDE DEF x
    <3> QED BY <1>t, <2>1, <3>1, AppendIsConcat
  <2>5. x \o <<buffer[t]>> \in Seq(Blocks)
    <3> HIDE DEF x
    <3> QED BY <1>t, <2>1
  <2>6. LineOf(t)' = LineOf(t)
    BY <1>e, <2>2, <2>3, <2>4, <2>5
  <2> QED BY <2>1, <2>6
<1>4. CASE DrainOne(t)
  <2>1. /\ pc' = pc /\ pc[t] = "drain" /\ sendQ # <<>> /\ sendQ' = Tail(sendQ)
        /\ op'[t] = Append(op[t], Head(sendQ))
        /\ UNCHANGED <<wire, pendingQ, sent>>
    BY <1>0, <1>4 DEF DrainOne, Running
  <2>2. LineOf(t) = (x \o <<>>) \o pendingQ
    BY <2>1 DEF LineOf, InHand
  <2>3. LineOf(t)' = (((wire \o Append(op[t], Head(sendQ))) \o Tail(sendQ)) \o <<>>)
                        \o pendingQ
    BY <2>1 DEF LineOf, InHand
  <2>4. Head(sendQ) \in Blocks
    BY <1>t, <2>1, HeadTailProperties
  <2>5. wire \o Append(op[t], Head(sendQ)) = Append(y, Head(sendQ))
    BY <1>t, <2>4, AppendInside
  <2>6. Append(y, Head(sendQ)) \o Tail(sendQ) = x
    <3> HIDE DEF y
    <3> QED BY <1>t, <2>1, MoveOne
  <2>7. LineOf(t)' = LineOf(t)
    BY <2>2, <2>3, <2>5, <2>6
  <2> QED BY <2>1, <2>7
<1>5. CASE PostWSASend(t)
  <2>1. /\ pc[t] = "drain" /\ pc'[t] = "idle" /\ sendQ = <<>> /\ sendQ' = <<>>
        /\ wire' = y /\ op'[t] = <<>> /\ UNCHANGED <<pendingQ, sent>>
    BY <1>0, <1>5 DEF PostWSASend, Running, Goto, queues
  <2>2. LineOf(t) = ((y \o <<>>) \o <<>>) \o pendingQ
    BY <2>1 DEF LineOf, InHand
  <2>3. LineOf(t)' = (((y \o <<>>) \o <<>>) \o <<>>) \o pendingQ
    BY <2>1 DEF LineOf, InHand
  <2>4. LineOf(t)' = LineOf(t)
    <3> HIDE DEF y
    <3> QED BY <1>t, <1>e, <2>2, <2>3
  <2> QED BY <2>1, <2>4
<1> QED BY <1>1, <1>2, <1>3, <1>4, <1>5 DEF Step

\* Who holds nothing and is not between the queues sees the same line as the others.
LEMMA SameLine ==
    ASSUME NEW t, NEW u, Founded(t), Founded(u), ~Between(t), ~Between(u)
    PROVE  LineOf(t) = LineOf(u)
BY DEF Founded, Between, LineOf, InHand

LEMMA SameLineNext ==
    ASSUME NEW t, NEW u, Founded(t)', Founded(u)', ~Between(t)', ~Between(u)'
    PROVE  LineOf(t)' = LineOf(u)'
BY DEF Founded, Between, LineOf, InHand

LEMMA InLineStep ==
    ASSUME TypeOK, Undisturbed, InLine, NEW t \in Threads, Step(t) PROVE InLine'
<1> SUFFICES ASSUME ~crowded', NEW u \in Threads, Alone(u)' PROVE LineOf(u)' = calls'
  BY DEF InLine
<1>1. /\ ~crowded /\ fault = "none" /\ \A w \in Threads : Founded(w)
      /\ \A w \in Threads : Between(w) => Alone(w)
  BY StepFrame DEF Undisturbed
<1>2. \A w \in Threads : Founded(w)'
  BY UndisturbedStep DEF Undisturbed
<1>3. LineOf(t)' = LineOf(t) /\ calls' = calls
  BY <1>1, LineStep, StepFrame
<1>4. \A w \in Threads \ {t} : Between(w)' <=> Between(w)
  BY StepFrame DEF Between
<1>5. CASE u = t
  <2>1. Alone(t)
    BY <1>4, <1>5 DEF Alone
  <2> QED BY <1>1, <1>3, <1>5, <2>1 DEF InLine
<1>6. CASE u # t /\ Between(u)
  <2>1. Alone(u) /\ ~Between(t)
    BY <1>1, <1>6 DEF Alone
  <2>2. UNCHANGED <<pendingQ, sendQ, wire, op>> /\ pc'[u] = pc[u] /\ buffer'[u] = buffer[u]
    BY <1>6, <2>1, StepFrame
  <2>3. LineOf(u)' = LineOf(u)
    BY <2>2 DEF LineOf, InHand
  <2> QED BY <1>1, <1>3, <2>1, <2>3 DEF InLine
<1>7. CASE u # t /\ ~Between(u)
  <2>1. ~Between(u)' /\ ~Between(t)'
    BY <1>4, <1>7 DEF Alone
  <2>2. LineOf(u)' = LineOf(t)'
    BY <1>2, <2>1, SameLineNext
  <2>3. Alone(t)
    BY <1>4, <1>7 DEF Alone
  <2> QED BY <1>1, <1>3, <2>2, <2>3 DEF InLine
<1> QED BY <1>5, <1>6, <1>7

LEMMA InLineHandler ==
    ASSUME TypeOK, InLine, NEW t \in Threads, Handler(t) PROVE InLine'
<1> SUFFICES ASSUME ~crowded', NEW u \in Threads, Alone(u)' PROVE LineOf(u)' = calls'
  BY DEF InLine
<1>1. Alone(u) /\ ~crowded /\ LineOf(u) = calls
  <2>1. \A w \in Threads : Between(w)' <=> Between(w)
    BY HandlerFrame DEF Between
  <2> QED BY <2>1, HandlerFrame DEF Alone, InLine
<1>2. InHand(u)' = InHand(u) /\ UNCHANGED <<wire, op, sendQ>>
  <2>1. CASE u = t
    BY <2>1, HandlerFrame DEF InHand
  <2>2. CASE u # t
    BY <2>2, HandlerFrame DEF InHand
  <2> QED BY <2>1, <2>2, HandlerFrame
<1> DEFINE x == ((wire \o op[u]) \o sendQ) \o InHand(u)
<1>3. x \in Seq(Blocks) /\ pendingQ \in Seq(Blocks) /\ LineOf(u) = x \o pendingQ
  BY LineType DEF LineOf
<1>4. LineOf(u)' = x \o pendingQ'
  BY <1>2 DEF LineOf
<1> HIDE DEF x
<1>5. CASE t \in Senders /\ Send(t)
  <2> DEFINE p == <<t, sent'[t]>>
  <2>1. pendingQ' = Append(pendingQ, p) /\ calls' = Append(calls, p)
    BY <1>5 DEF Send
  <2>2. p \in Blocks
    <3>1. p \in Packets
      BY <1>5, SentIsPacket
    <3> QED BY <3>1 DEF Blocks
  <2> HIDE DEF p
  <2>3. x \o Append(pendingQ, p) = Append(x \o pendingQ, p)
    BY <1>3, <2>2, AppendInside
  <2>4. LineOf(u)' = Append(LineOf(u), p)
    BY <1>3, <1>4, <2>1, <2>3
  <2> QED BY <1>1, <2>1, <2>4
<1>6. CASE OnSent(t) \/ OnRecv(t) \/ PostRecv(t)
  <2>1. pendingQ' = pendingQ /\ calls' = calls
    BY <1>6 DEF OnSent, OnRecv, PostRecv, queues, history
  <2> QED BY <1>1, <1>3, <1>4, <2>1
<1> QED BY <1>5, <1>6 DEF Handler

LEMMA InLineInvariant ==
    /\ Init => InLine
    /\ TypeOK /\ Undisturbed /\ InLine /\ [Next]_sendVars => InLine'
<1>1. Init => InLine
  <2> SUFFICES ASSUME Init, NEW t \in Threads PROVE LineOf(t) = calls
    BY DEF InLine
  <2>1. /\ wire = <<>> /\ op[t] = <<>> /\ sendQ = <<>> /\ pendingQ = <<>>
        /\ InHand(t) = <<>> /\ calls = <<>>
    BY DEF Init, InHand
  <2> QED BY <2>1 DEF LineOf
<1>2. TypeOK /\ Undisturbed /\ InLine /\ [Next]_sendVars => InLine'
  <2> SUFFICES ASSUME TypeOK, Undisturbed, InLine, [Next]_sendVars PROVE InLine'
    OBVIOUS
  <2>1. CASE Next
    BY <2>1, InLineHandler, InLineStep DEF Next, Handler, Threads
  <2>2. CASE UNCHANGED sendVars
    BY <2>2 DEF sendVars, InLine, LineOf, InHand, Alone, Between
  <2> QED BY <2>1, <2>2
<1> QED BY <1>1, <1>2

LEMMA Prefix ==
    ASSUME NEW S, NEW s \in Seq(S), NEW u \in Seq(S)
    PROVE  /\ s \o u \in Seq(S) /\ Len(s \o u) \in Nat /\ Len(s) \in 0 .. Len(s \o u)
           /\ s = SubSeq(s \o u, 1, Len(s))
           /\ \A i \in 1 .. Len(s) : (s \o u)[i] = s[i]
<1> DEFINE x == s \o u
<1>1. /\ x \in Seq(S) /\ Len(x) = Len(s) + Len(u) /\ Len(s) \in Nat /\ Len(u) \in Nat
      /\ \A i \in 1 .. Len(s) : x[i] = s[i]
  OBVIOUS
<1> HIDE DEF x
<1>2. s = SubSeq(x, 1, Len(s))
  BY <1>1
<1> QED BY <1>1, <1>2 DEF x

\* What is on the wire, with what goes there next, is the front of the calls.
LEMMA FrontOfLine ==
    ASSUME TypeOK, InLine, ~crowded, NEW t \in Threads, Alone(t)
    PROVE  /\ Len(wire \o op[t]) \in 0 .. Len(calls)
           /\ wire \o op[t] = SubSeq(calls, 1, Len(wire \o op[t]))
<1> DEFINE y == wire \o op[t]  r == sendQ \o (InHand(t) \o pendingQ)
<1>1. /\ y \in Seq(Blocks) /\ sendQ \in Seq(Blocks) /\ InHand(t) \in Seq(Blocks)
      /\ pendingQ \in Seq(Blocks)
  BY LineType
<1>2. InHand(t) \o pendingQ \in Seq(Blocks) /\ r \in Seq(Blocks)
  BY <1>1, ConcatProperties
<1>3. calls = y \o r
  <2>1. calls = ((y \o sendQ) \o InHand(t)) \o pendingQ
    BY DEF InLine, LineOf
  <2> HIDE DEF y
  <2> DEFINE h == InHand(t)
  <2>2. h \in Seq(Blocks)
    BY <1>1
  <2> HIDE DEF h
  <2>3. y \o sendQ \in Seq(Blocks) /\ h \o pendingQ \in Seq(Blocks)
    BY <1>1, <2>2, ConcatProperties
  <2>4. ((y \o sendQ) \o h) \o pendingQ = (y \o sendQ) \o (h \o pendingQ)
    BY <1>1, <2>2, <2>3, ConcatAssociative
  <2>5. (y \o sendQ) \o (h \o pendingQ) = y \o (sendQ \o (h \o pendingQ))
    BY <1>1, <2>3, ConcatAssociative
  <2> QED BY <2>1, <2>4, <2>5 DEF h
<1> HIDE DEF y, r
<1>4. Len(y) \in 0 .. Len(y \o r) /\ y = SubSeq(y \o r, 1, Len(y))
  BY <1>1, <1>2, Prefix
<1> QED BY <1>3, <1>4 DEF y

\* A WSASend takes packets out of the pipe, unless its sendOP is empty.
LEMMA WSASendTakes ==
    ASSUME TypeOK, Undisturbed, InLine, ~crowded, NEW t \in Threads, PostWSASend(t)
    PROVE  (~crowded /\ Pipe!Take) \/ UNCHANGED <<calls, wire, crowded>>
<1>1. wire' = wire \o op[t] /\ calls' = calls /\ crowded' = crowded
  BY DEF PostWSASend, history
<1>2. Alone(t)
  BY DEF Undisturbed, PostWSASend, Running, Between
<1>3. wire \in Seq(Blocks) /\ op[t] \in Seq(Blocks)
  BY LineType
<1>4. CASE op[t] = <<>>
  <2>1. wire' = wire
    BY <1>1, <1>3, <1>4
  <2> QED BY <1>1, <2>1
<1>5. CASE op[t] # <<>>
  <2> DEFINE n == Len(wire \o op[t])
  <2>1. n > Len(wire) /\ n \in Nat /\ Len(wire) \in Nat
    BY <1>3, <1>5
  <2>2. n \in 0 .. Len(calls) /\ wire' = SubSeq(calls, 1, n)
    BY <1>1, <1>2, FrontOfLine
  <2>3. Len(calls) \in Nat
    <3>1. calls \in Seq(Packets)
      BY DEF TypeOK
    <3> QED BY <3>1
  <2> HIDE DEF n
  <2>4. n \in Len(wire) + 1 .. Len(calls)
    BY <2>1, <2>2, <2>3
  <2> QED BY <1>1, <2>2, <2>4 DEF Pipe!Take
<1> QED BY <1>4, <1>5

\* A socket is a pipe from Send to WSASend for any number of senders and workers,
\* any number of packets and any array size, whatever is queued and however the
\* packets are batched, until two threads are between its queues at once
\* (NetSocket::Send, PrepareSend and PostSend).
THEOREM Refinement == Spec => ImplementsPipe
<1>1. Init => Pipe!Init
  BY DEF Init, Pipe!Init
<1>2. TypeOK /\ Undisturbed /\ InLine /\ [Next]_sendVars => [Pipe!Next]_(Pipe!pipeVars)
  <2> SUFFICES ASSUME TypeOK, Undisturbed, InLine, [Next]_sendVars
               PROVE  [Pipe!Next]_(Pipe!pipeVars)
    OBVIOUS
  <2>1. CASE crowded'
    BY <2>1 DEF Pipe!Next, Pipe!Break
  <2>2. CASE ~crowded' /\ \E t \in Senders : Send(t)
    <3>1. PICK t \in Senders : Send(t)
      BY <2>2
    <3>2. <<t, sent'[t]>> \in Packets
      BY <3>1, SentIsPacket
    <3>3. calls' = Append(calls, <<t, sent'[t]>>) /\ UNCHANGED <<wire, crowded>>
      BY <3>1 DEF Send
    <3> QED BY <2>2, <3>2, <3>3 DEF Pipe!Next, Pipe!Put
  <2>3. CASE ~crowded' /\ \E t \in Threads : PostWSASend(t)
    <3>1. ~crowded
      BY <2>3 DEF PostWSASend, history
    <3> QED BY <2>3, <3>1, WSASendTakes DEF Pipe!Next, Pipe!pipeVars
  <2>4. CASE ~crowded' /\ UNCHANGED <<calls, wire>>
    <3>1. ~crowded
      <4>1. CASE \E t \in Threads : Step(t)
        BY <2>4, <4>1, StepFrame
      <4>2. CASE \E t \in Threads : Handler(t)
        BY <2>4, <4>2, HandlerFrame
      <4>3. CASE UNCHANGED sendVars
        BY <2>4, <4>3 DEF sendVars
      <4> QED BY <4>1, <4>2, <4>3 DEF Next, Handler, Threads
    <3>2. crowded \in BOOLEAN /\ crowded' \in BOOLEAN
      BY NextType DEF TypeOK
    <3>3. crowded' = crowded
      BY <2>4, <3>1, <3>2
    <3> QED BY <2>4, <3>3 DEF Pipe!pipeVars
  <2>5. \/ \E t \in Senders : Send(t)
        \/ \E t \in Threads : PostWSASend(t)
        \/ UNCHANGED <<calls, wire>>
    BY DEF Next, Step, OnSent, OnRecv, PostRecv, TestEmpty, TestRoom, PopPending, PushSend,
           LoadStatus, ExchangeStatus, ReadSize, DrainOne, history, queues, sendVars
  <2> QED BY <2>1, <2>2, <2>3, <2>4, <2>5
<1> QED BY <1>1, <1>2, UndisturbedInvariant, InLineInvariant, TypeCorrect, PTL
        DEF Spec, ImplementsPipe, Pipe!Spec

\* What precedes the packet q[i] in q of its sender is the packets that its sender
\* gave to Send before it, all of them, and so q[i] itself is not among them.
InOrderAt(q, i) ==
    \A n \in 1 .. MaxPackets : n < q[i][2] <=> \E j \in 1 .. i - 1 : q[j] = <<q[i][1], n>>

\* What each sender gave to Send goes out once and in that order, nothing missing.
EachSenderInOrder == \A i \in 1 .. Len(wire) : InOrderAt(wire, i)

CallsInOrder ==
    /\ \A i \in 1 .. Len(calls) : InOrderAt(calls, i)
    /\ \A t \in Senders, n \in 1 .. MaxPackets :
           n <= sent[t] <=> \E i \in 1 .. Len(calls) : calls[i] = <<t, n>>

LEMMA CallsSend ==
    ASSUME TypeOK, CallsInOrder, NEW t \in Senders, Send(t) PROVE CallsInOrder'
<1> DEFINE l == Len(calls)  m == sent[t] + 1  c == calls'
<1>1. /\ calls \in Seq(Packets) /\ sent \in [Senders -> 0 .. MaxPackets]
      /\ sent' = [sent EXCEPT ![t] = @ + 1] /\ calls' = Append(calls, <<t, sent'[t]>>)
  BY DEF TypeOK, Send
<1>2. /\ sent'[t] = m /\ <<t, m>> \in Packets /\ sent[t] \in Nat /\ m \in 1 .. MaxPackets
      /\ \A u \in Senders \ {t} : sent'[u] = sent[u]
  <2>1. sent'[t] = m /\ sent[t] \in 0 .. MaxPackets
        /\ \A u \in Senders \ {t} : sent'[u] = sent[u]
    BY <1>1
  <2>2. <<t, m>> \in Packets
    BY <2>1, SentIsPacket
  <2>3. m \in 1 .. MaxPackets
    BY <2>1, SendAssumption DEF Send
  <2> QED BY <2>1, <2>2, <2>3
<1> HIDE DEF m
<1>3. /\ l \in Nat /\ Len(c) = l + 1 /\ c[l + 1] = <<t, m>>
      /\ \A i \in 1 .. l : c[i] = calls[i]
  BY <1>1, <1>2
<1> HIDE DEF l, c
<1>4. ASSUME NEW n \in 1 .. MaxPackets
      PROVE  n < m <=> \E j \in 1 .. l : calls[j] = <<t, n>>
  <2>1. n < m <=> n <= sent[t]
    BY <1>2 DEF m
  <2> QED BY <2>1 DEF CallsInOrder, l
<1>5. ASSUME NEW i \in 1 .. l + 1 PROVE InOrderAt(c, i)
  <2>1. CASE i \in 1 .. l
    <3>1. InOrderAt(calls, i) /\ c[i] = calls[i]
      BY <1>3, <2>1 DEF CallsInOrder, l
    <3>2. \A j \in 1 .. i - 1 : c[j] = calls[j]
      BY <1>3, <2>1
    <3> QED BY <3>1, <3>2 DEF InOrderAt
  <2>2. CASE i = l + 1
    <3>1. c[i][1] = t /\ c[i][2] = m /\ i - 1 = l
      BY <1>3, <2>2
    <3> QED BY <1>3, <1>4, <3>1 DEF InOrderAt
  <2> QED BY <1>3, <2>1, <2>2
<1>6. ASSUME NEW u \in Senders, NEW n \in 1 .. MaxPackets
      PROVE  n <= sent'[u] <=> \E i \in 1 .. l + 1 : c[i] = <<u, n>>
  <2>1. (\E i \in 1 .. l + 1 : c[i] = <<u, n>>)
            <=> (\E i \in 1 .. l : calls[i] = <<u, n>>) \/ <<t, m>> = <<u, n>>
    <3>1. \A i \in 1 .. l + 1 : i \in 1 .. l \/ i = l + 1
      BY <1>3
    <3>2. l + 1 \in 1 .. l + 1 /\ \A i \in 1 .. l : i \in 1 .. l + 1
      BY <1>3
    <3> QED BY <1>3, <3>1, <3>2
  <2>2. CASE u = t
    <3>1. n <= sent'[u] <=> n < m \/ n = m
      BY <1>2, <2>2
    <3> QED BY <1>4, <2>1, <2>2, <3>1
  <2>3. CASE u # t
    <3>1. n <= sent'[u] <=> \E i \in 1 .. l : calls[i] = <<u, n>>
      BY <1>2, <2>3 DEF CallsInOrder, l
    <3> QED BY <2>1, <2>3, <3>1
  <2> QED BY <2>2, <2>3
<1> QED BY <1>3, <1>5, <1>6 DEF CallsInOrder, c

\* Without threads nothing is sent.
Somebody == wire # <<>> => Threads # {}

LEMMA WireInOrder ==
    ASSUME TypeOK, Undisturbed, InLine, CallsInOrder, Somebody, ~crowded
    PROVE  EachSenderInOrder
<1> SUFFICES ASSUME NEW i \in 1 .. Len(wire) PROVE InOrderAt(wire, i)
  BY DEF EachSenderInOrder
<1>1. wire \in Seq(Blocks) /\ Len(wire) \in Nat /\ wire # <<>>
  <2>1. wire \in Seq(Blocks)
    BY DEF TypeOK, Blocks
  <2>2. Len(wire) \in Nat /\ (wire = <<>> => Len(wire) = 0)
    BY <2>1
  <2> QED BY <2>1, <2>2
<1>2. PICK t \in Threads : Alone(t)
  <2>1. CASE \E u \in Threads : Between(u)
    BY <2>1 DEF Undisturbed
  <2>2. CASE ~ \E u \in Threads : Between(u)
    BY <1>1, <2>2 DEF Somebody, Alone
  <2> QED BY <2>1, <2>2
<1>3. op[t] \in Seq(Blocks)
  BY LineType
<1>4. /\ Len(wire) <= Len(wire \o op[t])
      /\ \A j \in 1 .. Len(wire) : (wire \o op[t])[j] = wire[j]
  BY <1>1, <1>3, Prefix
<1> DEFINE y == wire \o op[t]
<1>5. y = SubSeq(calls, 1, Len(y)) /\ Len(y) \in 0 .. Len(calls)
  BY <1>2, FrontOfLine
<1> HIDE DEF y
<1>6. calls \in Seq(Packets) /\ Len(calls) \in Nat
  <2>1. calls \in Seq(Packets)
    BY DEF TypeOK
  <2> QED BY <2>1
<1>7. \A j \in 1 .. Len(y) : y[j] = calls[j]
  BY <1>5, <1>6
<1>8. ASSUME NEW j \in 1 .. i PROVE wire[j] = calls[j]
  <2>1. j \in 1 .. Len(wire) /\ j \in 1 .. Len(y)
    BY <1>1, <1>4, <1>5, <1>6 DEF y
  <2> QED BY <1>4, <1>7, <2>1 DEF y
<1>9. i \in 1 .. Len(calls) /\ i \in Nat
  BY <1>1, <1>4, <1>5, <1>6 DEF y
<1>10. InOrderAt(calls, i)
  BY <1>9 DEF CallsInOrder
<1>11. wire[i] = calls[i] /\ \A j \in 1 .. i - 1 : wire[j] = calls[j]
  BY <1>8, <1>9
<1> QED BY <1>10, <1>11 DEF InOrderAt

\* As long as no two threads have been between the queues at once, each sender's
\* packets are on the wire once each, in the order in which it gave them to Send and
\* with none left out between them (NetSocket::PrepareSend, NetSocket::PostSend).
THEOREM InOrder == Spec => [](~crowded => EachSenderInOrder)
<1>1. Init => CallsInOrder
  <2> SUFFICES ASSUME Init PROVE CallsInOrder
    OBVIOUS
  <2>1. Len(calls) = 0 /\ \A t \in Senders : sent[t] = 0
    BY DEF Init
  <2> QED BY <2>1, SendAssumption DEF CallsInOrder
<1>2. TypeOK /\ CallsInOrder /\ [Next]_sendVars => CallsInOrder'
  <2> SUFFICES ASSUME TypeOK, CallsInOrder, [Next]_sendVars PROVE CallsInOrder'
    OBVIOUS
  <2>1. CASE \E t \in Senders : Send(t)
    BY <2>1, CallsSend
  <2>2. CASE UNCHANGED <<calls, sent>>
    BY <2>2 DEF CallsInOrder, InOrderAt
  <2>3. (\E t \in Senders : Send(t)) \/ UNCHANGED <<calls, sent>>
    BY DEF Next, Step, OnSent, OnRecv, PostRecv, TestEmpty, TestRoom, PopPending, PushSend,
           LoadStatus, ExchangeStatus, ReadSize, DrainOne, PostWSASend, history, sendVars
  <2> QED BY <2>1, <2>2, <2>3
<1>3. Init => Somebody
  BY DEF Init, Somebody
<1>4. Somebody /\ [Next]_sendVars => Somebody'
  BY DEF Somebody, Next, Threads, sendVars
<1>5. TypeOK /\ Undisturbed /\ InLine /\ CallsInOrder /\ Somebody
          => (~crowded => EachSenderInOrder)
  BY WireInOrder
<1> QED BY <1>1, <1>2, <1>3, <1>4, <1>5, UndisturbedInvariant, InLineInvariant,
           TypeCorrect, PTL DEF Spec

================================================================================

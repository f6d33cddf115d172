------------------------- MODULE PacketDispatch_proofs -------------------------
(***************************************************************************)
(* Proofs about PacketDispatch for any finite sets of threads and any      *)
(* number of uses, reads and packets.                                      *)
(***************************************************************************)
EXTENDS PacketDispatch, FiniteSetTheorems, TLAPS

USE DEF GetBuffer, FreeBuffers

\* TypeOK, except that out >= 0 follows from PoolBalance only.
Types ==
    /\ hold \in [Threads -> 0 .. use]
    /\ data \in [NetThreads -> 0 .. use]
    /\ use \in 0 .. MaxUses
    /\ inUse \in BOOLEAN /\ up \in BOOLEAN
    /\ reads \in [Uses -> Nat] /\ writes \in [Uses -> Nat]
    /\ recvPackets \in Seq(1 .. use) /\ messages \in Nat /\ sendQueue \in Seq(1 .. use)
    /\ out \in Int /\ requested \in Nat
    /\ readCnt \in 0 .. MaxReads /\ packetCnt \in 0 .. MaxPackets
    /\ overlap \in BOOLEAN /\ late \in BOOLEAN /\ stray \in BOOLEAN

\* Where the threads of each kind can be.
Places ==
    /\ pc \in [Threads -> {"idle", "extract", "push", "post", "delete", "prepare",
                           "clear", "reset", "release", "pop", "answer", "free"}]
    /\ \A t \in NetThreads : pc[t] \notin {"pop", "answer", "free"}
    /\ \A g \in GameThreads : pc[g] \in {"idle", "pop", "answer", "prepare", "free"}

\* Only uses that were begun have requests.
RequestsOfUses == \A u \in Uses : u > use => reads[u] = 0

\* What each place says of what the thread has in hand.
Hands ==
    /\ \A t \in NetThreads :
        /\ hold[t] # 0 <=> pc[t] = "push"
        /\ data[t] # 0 <=> pc[t] \in {"extract", "push", "post", "delete"}
    /\ \A g \in GameThreads : hold[g] # 0 <=> pc[g] \in {"answer", "prepare", "free"}

TInv == Types /\ Places /\ RequestsOfUses /\ Hands

-------------------------------------------------------------------------------
(* Types                                                                   *)

LEMMA SeqMonotone ==
    ASSUME NEW S, NEW T, S \subseteq T, NEW s \in Seq(S) PROVE s \in Seq(T)
OBVIOUS

LEMMA TailType ==
    ASSUME NEW S, NEW s \in Seq(S), s # <<>>
    PROVE  Head(s) \in S /\ Tail(s) \in Seq(S) /\ Len(Tail(s)) = Len(s) - 1
OBVIOUS

LEMMA EmptyType == \A S : <<>> \in Seq(S)
OBVIOUS

LEMMA InitTInv == ASSUME Init PROVE TInv
<1>1. Types
  <2>1. recvPackets \in Seq(1 .. use) /\ sendQueue \in Seq(1 .. use)
    BY EmptyType DEF Init
  <2>2. /\ hold \in [Threads -> 0 .. use] /\ data \in [NetThreads -> 0 .. use]
        /\ reads \in [Uses -> Nat] /\ writes \in [Uses -> Nat]
    BY DEF Init
  <2>3. /\ use \in 0 .. MaxUses /\ readCnt \in 0 .. MaxReads
        /\ packetCnt \in 0 .. MaxPackets
        /\ messages \in Nat /\ out \in Int /\ requested \in Nat
    BY DispatchAssumption DEF Init
  <2>4. /\ inUse \in BOOLEAN /\ up \in BOOLEAN
        /\ overlap \in BOOLEAN /\ late \in BOOLEAN /\ stray \in BOOLEAN
    BY DEF Init
  <2> QED BY <2>1, <2>2, <2>3, <2>4 DEF Types
<1>2. Places /\ Hands
  BY DEF Init, Places, Hands, Threads
<1>3. RequestsOfUses
  BY DEF Init, RequestsOfUses
<1> QED BY <1>1, <1>2, <1>3 DEF TInv

LEMMA ThreadKinds ==
    /\ \A t \in NetThreads : t \in Threads /\ t \notin GameThreads
    /\ \A g \in GameThreads : g \in Threads /\ g \notin NetThreads
BY DispatchAssumption DEF Threads

LEMMA PrepareSendType ==
    ASSUME TInv, NEW t \in Threads, NEW next, PrepareSend(t, next)
    PROVE  /\ writes' \in [Uses -> Nat] /\ requested' \in Nat /\ out' \in Int
           /\ sendQueue' \in Seq(1 .. use) /\ stray' \in BOOLEAN
<1> USE DEF TInv, Types
<1>1. Len(sendQueue) \in Nat /\ <<>> \in Seq(1 .. use)
  BY EmptyType
<1>2. CASE UNCHANGED <<writes, sendQueue, out, requested, stray>>
  BY <1>2
<1>3. CASE /\ writes' = [writes EXCEPT ![use] = @ + 1]
           /\ requested' = requested + Len(sendQueue)
           /\ stray' = (stray \/ \E i \in 1 .. Len(sendQueue) : sendQueue[i] # use)
           /\ sendQueue' = <<>>
           /\ out' = out
  <2>1. writes' \in [Uses -> Nat]
    <3> writes' = [u \in Uses |-> IF u = use THEN writes[u] + 1 ELSE writes[u]]
      BY <1>3, Zenon
    <3> QED OBVIOUS
  <2>2. stray' \in BOOLEAN
    BY <1>3, Zenon
  <2>3. requested' \in Nat /\ out' \in Int
    BY <1>1, <1>3
  <2> QED BY <1>1, <1>3, <2>1, <2>2, <2>3
<1>4. CASE /\ out' = out - Len(sendQueue)
           /\ sendQueue' = <<>>
           /\ UNCHANGED <<writes, requested, stray>>
  BY <1>1, <1>4
<1> QED BY <1>2, <1>3, <1>4 DEF PrepareSend

LEMMA OnConnectedType ==
    ASSUME TInv, NEW t \in NetThreads, OnConnected(t) PROVE TInv'
<1> USE DispatchAssumption, ThreadKinds
<1>1. /\ use' = use + 1 /\ use' \in 0 .. MaxUses
      /\ 0 .. use \subseteq 0 .. use' /\ 1 .. use \subseteq 1 .. use'
      /\ use + 1 \in Uses
  BY DEF TInv, Types, OnConnected, Uses
<1>2. recvPackets' \in Seq(1 .. use') /\ sendQueue' \in Seq(1 .. use')
  BY <1>1, SeqMonotone DEF TInv, Types, OnConnected, queueVars
<1>3. reads' \in [Uses -> Nat] /\ out' \in Int /\ requested' \in Nat
  BY <1>1 DEF TInv, Types, OnConnected, PostRecv
<1>4. Types'
  BY <1>1, <1>2, <1>3
     DEF TInv, Types, OnConnected, Starts, threadVars, queueVars, boundVars
<1>5. RequestsOfUses'
  <2> SUFFICES ASSUME NEW u \in Uses, u > use' PROVE reads'[u] = 0
    BY DEF RequestsOfUses
  <2>1. reads[u] = 0 /\ u # use + 1
    BY <1>1 DEF TInv, Types, RequestsOfUses, Uses
  <2> QED BY <2>1, <1>1 DEF TInv, Types, OnConnected, PostRecv
<1> QED BY <1>4, <1>5 DEF TInv, Places, Hands, OnConnected, threadVars

\* A request that fails is one that there is, so of a use that has begun.
LEMMA FailType ==
    ASSUME TInv, NEW u \in Uses, Fail(u)
    PROVE  /\ reads' \in [Uses -> Nat] /\ writes' \in [Uses -> Nat]
           /\ \A v \in Uses : v > use => reads'[v] = 0
<1> USE DEF TInv, Types, RequestsOfUses
<1>1. CASE reads[u] > 0 /\ reads' = [reads EXCEPT ![u] = @ - 1] /\ writes' = writes
  <2>1. reads' \in [Uses -> Nat] /\ \A v \in Uses : v > use => reads'[v] = 0
    BY <1>1
  <2> QED BY <1>1, <2>1
<1>2. CASE writes[u] > 0 /\ writes' = [writes EXCEPT ![u] = @ - 1] /\ reads' = reads
  <2>1. writes' \in [Uses -> Nat]
    BY <1>2
  <2> QED BY <1>2, <2>1
<1> QED BY <1>1, <1>2 DEF Fail

LEMMA NetType == ASSUME TInv, NEW t \in NetThreads, NetStep(t) PROVE TInv'
<1> USE DispatchAssumption, ThreadKinds
    DEF TInv, Types, Places, RequestsOfUses, Hands, Goto
<1>1. CASE OnConnected(t)
  BY <1>1, OnConnectedType
<1>2. CASE ExtractPakcetData(t)
  <2>1. data[t] \in 1 .. use
    BY <1>2 DEF ExtractPakcetData
  <2>2. /\ packetCnt' \in 0 .. MaxPackets /\ out' \in Int
        /\ hold' \in [Threads -> 0 .. use]
    BY <1>2, <2>1 DEF ExtractPakcetData
  <2>3. hold'[t] # 0 <=> pc'[t] = "push"
    BY <1>2, <2>1 DEF ExtractPakcetData
  <2>4. pc'[t] \in {"push", "delete"} /\ \A o \in Threads \ {t} : hold'[o] = hold[o]
    BY <1>2 DEF ExtractPakcetData
  <2> QED BY <1>2, <2>2, <2>3, <2>4 DEF ExtractPakcetData, conVars, queueVars, historyVars
<1>3. CASE RecvPacket(t)
  <2>1. hold[t] \in 1 .. use
    BY <1>3 DEF RecvPacket
  <2> QED BY <1>3, <2>1 DEF RecvPacket, conVars, poolVars, boundVars, historyVars
<1>4. CASE PostMessage(t)
  BY <1>4 DEF PostMessage, conVars, poolVars, boundVars, historyVars
<1>5. CASE EndOnRecv(t)
  <2>1. use \in Uses
    BY <1>5 DEF EndOnRecv, Uses
  <2>2. reads' \in [Uses -> Nat] /\ \A u \in Uses : u > use => reads'[u] = 0
    BY <1>5, <2>1 DEF EndOnRecv, PostRecv
  <2>3. out' \in Int /\ requested' \in Nat
    BY <1>5 DEF EndOnRecv, PostRecv
  <2> QED BY <1>5, <2>2, <2>3 DEF EndOnRecv, queueVars, boundVars, historyVars
<1>6. CASE PrepareSend(t, "idle")
  BY <1>6, PrepareSendType DEF PrepareSend, boundVars
<1>7. ASSUME NEW u \in Uses, OnRecv(t, u) PROVE TInv'
  <2>1. u \in 1 .. use /\ reads' \in [Uses -> Nat]
    BY <1>7 DEF OnRecv, Uses
  <2>2. \A v \in Uses : v > use => reads'[v] = 0
    BY <1>7, <2>1 DEF OnRecv, Uses
  <2>3. late' \in BOOLEAN /\ overlap' \in BOOLEAN
    BY <1>7 DEF OnRecv, Starts
  <2> QED BY <1>7, <2>1, <2>2, <2>3 DEF OnRecv, Starts, queueVars, poolVars
<1>8. ASSUME NEW u \in Uses, OnSent(t, u) PROVE TInv'
  BY <1>8 DEF OnSent, Starts, queueVars, poolVars, boundVars
<1>9. ASSUME NEW u \in Uses, OnDisconnected(t, u) PROVE TInv'
  <2>1. /\ reads' \in [Uses -> Nat] /\ writes' \in [Uses -> Nat]
        /\ \A v \in Uses : v > use => reads'[v] = 0
    BY <1>9, FailType DEF OnDisconnected
  <2> QED BY <1>9, <2>1 DEF OnDisconnected, queueVars, poolVars, boundVars
<1>13. ASSUME NEW u \in Uses, OnCompletionFailure(t, u) PROVE TInv'
  <2>1. /\ reads' \in [Uses -> Nat] /\ writes' \in [Uses -> Nat]
        /\ \A v \in Uses : v > use => reads'[v] = 0
    BY <1>13, FailType DEF OnCompletionFailure
  <2> QED
    BY <1>13, <2>1 DEF OnCompletionFailure, threadVars, queueVars, poolVars, boundVars,
                       historyVars
<1>10. CASE ClearSendQueue(t)
  <2>1. CASE sendQueue = <<>>
    BY <1>10, <2>1 DEF ClearSendQueue, conVars, boundVars, historyVars
  <2>2. CASE sendQueue # <<>>
    <3>0. sendQueue' = Tail(sendQueue)
      BY <1>10, <2>2 DEF ClearSendQueue
    <3>1. sendQueue' \in Seq(1 .. use)
      BY <2>2, <3>0, TailType
    <3>2. out' \in Int /\ UNCHANGED pc
      BY <1>10, <2>2 DEF ClearSendQueue
    <3>3. UNCHANGED <<hold, data, conVars, recvPackets, messages, requested,
                      boundVars, historyVars>>
      BY <1>10 DEF ClearSendQueue
    <3> QED BY <3>1, <3>2, <3>3 DEF conVars, boundVars, historyVars
  <2> QED BY <2>1, <2>2
<1>11. CASE Reset(t)
  <2>1. CASE recvPackets = <<>>
    BY <1>11, <2>1 DEF Reset, conVars, boundVars, historyVars
  <2>2. CASE recvPackets # <<>>
    <3>0. recvPackets' = Tail(recvPackets)
      BY <1>11, <2>2 DEF Reset
    <3>1. recvPackets' \in Seq(1 .. use)
      BY <2>2, <3>0, TailType
    <3>2. out' \in Int /\ UNCHANGED pc
      BY <1>11, <2>2 DEF Reset
    <3>3. UNCHANGED <<hold, data, conVars, sendQueue, messages, requested,
                      boundVars, historyVars>>
      BY <1>11 DEF Reset
    <3> QED BY <3>1, <3>2, <3>3 DEF conVars, boundVars, historyVars
  <2> QED BY <2>1, <2>2
<1>12. CASE FreeNetCon(t)
  BY <1>12 DEF FreeNetCon, queueVars, poolVars, boundVars, historyVars
<1> QED
  BY <1>1, <1>2, <1>3, <1>4, <1>5, <1>6, <1>7, <1>8, <1>9, <1>10, <1>11, <1>12, <1>13
     DEF NetStep

LEMMA GameType == ASSUME TInv, NEW g \in GameThreads, GameStep(g) PROVE TInv'
<1> USE DispatchAssumption, ThreadKinds
    DEF TInv, Types, Places, RequestsOfUses, Hands, Goto
<1>1. CASE Run(g)
  BY <1>1 DEF Run, Starts, conVars, poolVars, boundVars
<1>2. CASE PopRecvPacket(g)
  <2>1. CASE recvPackets = <<>>
    BY <1>2, <2>1 DEF PopRecvPacket, conVars, poolVars, boundVars
  <2>2. CASE recvPackets # <<>>
    <3>1. Head(recvPackets) \in 1 .. use /\ Tail(recvPackets) \in Seq(1 .. use)
      BY <2>2, TailType
    <3>2. stray' = (stray \/ (inUse /\ Head(recvPackets) # use))
      BY <1>2, <2>2 DEF PopRecvPacket
    <3>3. stray' \in BOOLEAN
      BY <3>2
    <3>4. recvPackets' \in Seq(1 .. use) /\ hold' = [hold EXCEPT ![g] = Head(recvPackets)]
      BY <1>2, <2>2, <3>1 DEF PopRecvPacket
    <3>5. /\ pc[g] = "pop" /\ pc' = [pc EXCEPT ![g] = "answer"]
          /\ UNCHANGED <<data, conVars, messages, sendQueue, poolVars, boundVars,
                         overlap, late>>
      BY <1>2, <2>2 DEF PopRecvPacket
    <3> QED BY <3>1, <3>3, <3>4, <3>5 DEF conVars, poolVars, boundVars
  <2> QED BY <2>1, <2>2
<1>3. CASE Send(g)
  <2>1. hold[g] \in 1 .. use
    BY <1>3 DEF Send
  <2> QED BY <1>3, <2>1 DEF Send, conVars, boundVars, historyVars
<1>4. CASE PrepareSend(g, "free")
  BY <1>4, PrepareSendType DEF PrepareSend, boundVars
<1>5. CASE FreeBuffer(g)
  BY <1>5 DEF FreeBuffer, conVars, queueVars, boundVars, historyVars
<1> QED BY <1>1, <1>2, <1>3, <1>4, <1>5 DEF GameStep

LEMMA TypeStep == ASSUME TInv, [Next]_dispatchVars PROVE TInv'
<1>1. CASE Next
  BY <1>1, NetType, GameType DEF Next
<1>2. CASE UNCHANGED dispatchVars
  BY <1>2 DEF TInv, Types, Places, RequestsOfUses, Hands, dispatchVars, threadVars,
              conVars, queueVars, poolVars, boundVars, historyVars
<1> QED BY <1>1, <1>2

-------------------------------------------------------------------------------
(* Blocks                                                                  *)

LEMMA HoldingSize == IsFiniteSet(Holding) /\ Cardinality(Holding) \in Nat
<1>1. IsFiniteSet(Threads)
  BY DispatchAssumption, FS_Union DEF Threads
<1>2. Holding \subseteq Threads
  BY DEF Holding
<1> QED BY <1>1, <1>2, FS_Subset, FS_CardinalityType

LEMMA HoldOne ==
    ASSUME TInv, NEW t \in Threads, NEW v, v # 0, hold[t] = 0,
           hold' = [hold EXCEPT ![t] = v]
    PROVE  Cardinality(Holding') = Cardinality(Holding) + 1
<1>1. Holding' = Holding \cup {t} /\ t \notin Holding
  BY DEF TInv, Types, Holding
<1> QED BY <1>1, HoldingSize, FS_AddElement

LEMMA HoldNoMore ==
    ASSUME TInv, NEW t \in Threads, hold[t] # 0, hold' = [hold EXCEPT ![t] = 0]
    PROVE  Cardinality(Holding') = Cardinality(Holding) - 1
<1>1. Holding' = Holding \ {t} /\ t \in Holding
  BY DEF TInv, Types, Holding
<1> QED BY <1>1, HoldingSize, FS_RemoveElement

LEMMA HoldSame == ASSUME UNCHANGED hold PROVE Cardinality(Holding') = Cardinality(Holding)
<1>1. Holding' = Holding
  BY DEF Holding
<1> QED BY <1>1

LEMMA InitBalance == ASSUME Init PROVE PoolBalance
<1>1. Holding = {}
  BY DEF Init, Holding
<1>2. Cardinality(Holding) = 0
  BY <1>1, FS_EmptySet
<1> QED BY <1>2 DEF Init, PoolBalance

\* What the steps of the queues do to their lengths.
LEMMA Lengths ==
    ASSUME TInv
    PROVE  /\ Len(recvPackets) \in Nat /\ Len(sendQueue) \in Nat
           /\ \A p \in 1 .. use : /\ Len(Append(recvPackets, p)) = Len(recvPackets) + 1
                                  /\ Len(Append(sendQueue, p)) = Len(sendQueue) + 1
           /\ recvPackets # <<>> => Len(Tail(recvPackets)) = Len(recvPackets) - 1
           /\ sendQueue # <<>> => Len(Tail(sendQueue)) = Len(sendQueue) - 1
<1>1. recvPackets \in Seq(1 .. use) /\ sendQueue \in Seq(1 .. use)
  BY DEF TInv, Types
<1> QED BY <1>1, TailType

LEMMA PrepareSendBalance ==
    ASSUME TInv, PoolBalance, NEW t \in Threads, NEW next, PrepareSend(t, next)
    PROVE  PoolBalance'
<1> USE HoldingSize, Lengths DEF PoolBalance
<1>0. out \in Int /\ requested \in Nat /\ Len(<<>>) = 0
  BY DEF TInv, Types
<1>1. Cardinality(Holding') = Cardinality(Holding) /\ recvPackets' = recvPackets
  BY HoldSame DEF PrepareSend
<1>2. CASE UNCHANGED <<writes, sendQueue, out, requested, stray>>
  BY <1>1, <1>2
<1>3. CASE requested' = requested + Len(sendQueue) /\ sendQueue' = <<>> /\ out' = out
  BY <1>0, <1>1, <1>3
<1>4. CASE /\ out' = out - Len(sendQueue) /\ sendQueue' = <<>>
           /\ UNCHANGED <<writes, requested, stray>>
  BY <1>0, <1>1, <1>4
<1> QED BY <1>2, <1>3, <1>4 DEF PrepareSend

LEMMA NetBalance ==
    ASSUME TInv, PoolBalance, NEW t \in NetThreads, NetStep(t) PROVE PoolBalance'
<1> USE HoldingSize, ThreadKinds
<1>0. /\ out \in Int /\ requested \in Nat
      /\ Len(recvPackets) \in Nat /\ Len(sendQueue) \in Nat
  BY Lengths DEF TInv, Types
<1>1. CASE OnConnected(t)
  <2>1. out' - requested' = out - requested /\ out' \in Int /\ requested' \in Nat
    BY <1>0, <1>1 DEF OnConnected, PostRecv
  <2> QED BY <1>0, <1>1, <2>1, HoldSame DEF OnConnected, PoolBalance, threadVars, queueVars
<1>2. CASE ExtractPakcetData(t)
  <2>1. data[t] # 0 /\ hold[t] = 0
    BY <1>2 DEF ExtractPakcetData, TInv, Hands
  <2>2. CASE out' = out + 1 /\ hold' = [hold EXCEPT ![t] = data[t]]
    <3>1. Cardinality(Holding') = Cardinality(Holding) + 1
      BY <2>1, <2>2, HoldOne
    <3> QED BY <1>0, <1>2, <2>2, <3>1 DEF ExtractPakcetData, PoolBalance, queueVars
  <2>3. CASE UNCHANGED <<hold, out>>
    BY <1>2, <2>3, HoldSame DEF ExtractPakcetData, PoolBalance, queueVars
  <2> QED BY <1>2, <2>2, <2>3 DEF ExtractPakcetData
<1>3. CASE RecvPacket(t)
  <2>1. hold[t] \in 1 .. use
    BY <1>3 DEF RecvPacket, TInv, Types, Hands
  <2>2. Cardinality(Holding') = Cardinality(Holding) - 1
    <3>1. hold[t] # 0 /\ hold' = [hold EXCEPT ![t] = 0]
      BY <1>3, <2>1 DEF RecvPacket
    <3> QED BY <3>1, HoldNoMore
  <2>3. Len(recvPackets') = Len(recvPackets) + 1
    BY <1>3, <2>1, Lengths DEF RecvPacket
  <2> QED BY <1>0, <1>3, <2>2, <2>3 DEF RecvPacket, PoolBalance, poolVars
<1>4. CASE PostMessage(t)
  BY <1>4, HoldSame DEF PostMessage, PoolBalance, poolVars
<1>5. CASE EndOnRecv(t)
  <2>1. out' - requested' = out - requested /\ out' \in Int /\ requested' \in Nat
    <3>1. PostRecv(use, up)
      BY <1>5 DEF EndOnRecv
    <3>2. (out' = out + 1 /\ requested' = requested + 1) \/ UNCHANGED <<out, requested>>
      BY <3>1 DEF PostRecv
    <3> QED BY <1>0, <3>2
  <2> QED BY <1>0, <1>5, <2>1, HoldSame DEF EndOnRecv, PoolBalance, queueVars
<1>6. CASE PrepareSend(t, "idle")
  BY <1>6, PrepareSendBalance
<1>7. ASSUME NEW u \in Uses,
             \/ OnRecv(t, u) \/ OnSent(t, u)
             \/ OnCompletionFailure(t, u) \/ OnDisconnected(t, u)
      PROVE  PoolBalance'
  BY <1>7, HoldSame DEF OnRecv, OnSent, OnCompletionFailure, OnDisconnected, PoolBalance,
                        threadVars, queueVars, poolVars
<1>8. CASE ClearSendQueue(t)
  <2>1. CASE sendQueue = <<>>
    BY <1>8, <2>1, HoldSame DEF ClearSendQueue, PoolBalance
  <2>2. CASE sendQueue # <<>>
    <3>1. Len(sendQueue') = Len(sendQueue) - 1 /\ out' = out - 1
      BY <1>8, <2>2, Lengths DEF ClearSendQueue
    <3> QED BY <1>0, <1>8, <3>1, HoldSame DEF ClearSendQueue, PoolBalance
  <2> QED BY <2>1, <2>2
<1>9. CASE Reset(t)
  <2>1. CASE recvPackets = <<>>
    BY <1>9, <2>1, HoldSame DEF Reset, PoolBalance
  <2>2. CASE recvPackets # <<>>
    <3>1. Len(recvPackets') = Len(recvPackets) - 1 /\ out' = out - 1
      BY <1>9, <2>2, Lengths DEF Reset
    <3> QED BY <1>0, <1>9, <3>1, HoldSame DEF Reset, PoolBalance
  <2> QED BY <2>1, <2>2
<1>10. CASE FreeNetCon(t)
  BY <1>10, HoldSame DEF FreeNetCon, PoolBalance, queueVars, poolVars
<1> QED
  BY <1>1, <1>2, <1>3, <1>4, <1>5, <1>6, <1>7, <1>8, <1>9, <1>10 DEF NetStep

LEMMA GameBalance ==
    ASSUME TInv, PoolBalance, NEW g \in GameThreads, GameStep(g) PROVE PoolBalance'
<1> USE HoldingSize, ThreadKinds
<1>0. /\ out \in Int /\ requested \in Nat
      /\ Len(recvPackets) \in Nat /\ Len(sendQueue) \in Nat
  BY Lengths DEF TInv, Types
<1>1. CASE Run(g)
  BY <1>1, HoldSame DEF Run, PoolBalance, poolVars
<1>2. CASE PopRecvPacket(g)
  <2>1. CASE recvPackets = <<>>
    BY <1>2, <2>1, HoldSame DEF PopRecvPacket, PoolBalance, poolVars
  <2>2. CASE recvPackets # <<>>
    <3>1. hold[g] = 0 /\ Head(recvPackets) # 0
      <4>1. Head(recvPackets) \in 1 .. use
        BY <2>2, TailType DEF TInv, Types
      <4> QED BY <4>1, <1>2 DEF PopRecvPacket, TInv, Hands
    <3>2. Cardinality(Holding') = Cardinality(Holding) + 1
      BY <1>2, <2>2, <3>1, HoldOne DEF PopRecvPacket
    <3>3. Len(recvPackets') = Len(recvPackets) - 1
      BY <1>2, <2>2, Lengths DEF PopRecvPacket
    <3> QED BY <1>0, <1>2, <2>2, <3>2, <3>3 DEF PopRecvPacket, PoolBalance, poolVars
  <2> QED BY <2>1, <2>2
<1>3. CASE Send(g)
  <2>1. hold[g] \in 1 .. use
    BY <1>3 DEF Send, TInv, Types, Hands
  <2>2. Len(sendQueue') = Len(sendQueue) + 1
    BY <1>3, <2>1, Lengths DEF Send
  <2> QED BY <1>0, <1>3, <2>2, HoldSame DEF Send, PoolBalance
<1>4. CASE PrepareSend(g, "free")
  BY <1>4, PrepareSendBalance
<1>5. CASE FreeBuffer(g)
  <2>1. hold[g] # 0
    BY <1>5 DEF FreeBuffer, TInv, Hands
  <2>2. Cardinality(Holding') = Cardinality(Holding) - 1
    BY <1>5, <2>1, HoldNoMore DEF FreeBuffer
  <2> QED BY <1>0, <1>5, <2>2 DEF FreeBuffer, PoolBalance, queueVars
<1> QED BY <1>1, <1>2, <1>3, <1>4, <1>5 DEF GameStep

LEMMA BalanceStep ==
    ASSUME TInv, PoolBalance, [Next]_dispatchVars PROVE PoolBalance'
<1>1. CASE Next
  BY <1>1, NetBalance, GameBalance DEF Next
<1>2. CASE UNCHANGED dispatchVars
  BY <1>2, HoldSame DEF dispatchVars, PoolBalance, threadVars, queueVars, poolVars
<1> QED BY <1>1, <1>2

-------------------------------------------------------------------------------
(* Messages                                                                *)

LEMMA NetAnnounces ==
    ASSUME TInv, PacketsAreAnnounced, NEW t \in NetThreads, NetStep(t)
    PROVE  PacketsAreAnnounced'
<1> USE ThreadKinds DEF PacketsAreAnnounced, TInv, Places, Goto
<1>1. CASE RecvPacket(t)
  <2>1. pc'[t] = "post"
    BY <1>1 DEF RecvPacket
  <2> QED BY <2>1
<1>2. CASE PostMessage(t)
  <2>1. messages' > 0
    BY <1>2 DEF PostMessage, Types
  <2> QED BY <2>1
<1>3. ASSUME /\ pc[t] # "post" /\ \A o \in Threads \ {t} : pc'[o] = pc[o]
             /\ messages' = messages
             /\ recvPackets' = recvPackets \/ recvPackets # <<>>
      PROVE  PacketsAreAnnounced'
  BY <1>3
<1>4. ASSUME NEW u \in Uses,
             \/ OnRecv(t, u) \/ OnSent(t, u)
             \/ OnCompletionFailure(t, u) \/ OnDisconnected(t, u)
      PROVE  PacketsAreAnnounced'
  <2>1. /\ pc[t] = "idle" /\ UNCHANGED <<messages, recvPackets>>
        /\ \A o \in Threads \ {t} : pc'[o] = pc[o]
    BY <1>4 DEF OnRecv, OnSent, OnCompletionFailure, OnDisconnected, Starts,
                threadVars, queueVars
  <2> QED BY <1>3, <2>1
<1>5. CASE OnConnected(t)
  BY <1>5 DEF OnConnected, threadVars, queueVars
<1>6. CASE ExtractPakcetData(t) \/ EndOnRecv(t) \/ PrepareSend(t, "idle")
  BY <1>3, <1>6 DEF ExtractPakcetData, EndOnRecv, PrepareSend, queueVars
<1>7. CASE ClearSendQueue(t) \/ Reset(t) \/ FreeNetCon(t)
  <2>1. pc[t] # "post" /\ messages' = messages /\ \A o \in Threads \ {t} : pc'[o] = pc[o]
    BY <1>7 DEF ClearSendQueue, Reset, FreeNetCon, queueVars
  <2>2. recvPackets' = recvPackets \/ recvPackets # <<>>
    BY <1>7 DEF ClearSendQueue, Reset, FreeNetCon, queueVars
  <2> QED BY <1>3, <2>1, <2>2
<1> QED BY <1>1, <1>2, <1>4, <1>5, <1>6, <1>7 DEF NetStep

LEMMA GameAnnounces ==
    ASSUME TInv, PacketsAreAnnounced, NEW g \in GameThreads, GameStep(g)
    PROVE  PacketsAreAnnounced'
<1> USE ThreadKinds DEF PacketsAreAnnounced, TInv, Places, Goto
<1>1. CASE PopRecvPacket(g) /\ recvPackets = <<>>
  BY <1>1 DEF PopRecvPacket
<1>2. CASE ~(PopRecvPacket(g) /\ recvPackets = <<>>)
  <2>1. pc'[g] # "idle"
    BY <1>2 DEF GameStep, Run, Starts, PopRecvPacket, Send, PrepareSend, FreeBuffer
  <2> QED BY <2>1
<1> QED BY <1>1, <1>2

LEMMA AnnounceStep ==
    ASSUME TInv, PacketsAreAnnounced, [Next]_dispatchVars PROVE PacketsAreAnnounced'
<1>1. CASE Next
  BY <1>1, NetAnnounces, GameAnnounces DEF Next
<1>2. CASE UNCHANGED dispatchVars
  BY <1>2 DEF dispatchVars, PacketsAreAnnounced, threadVars, queueVars
<1> QED BY <1>1, <1>2

-------------------------------------------------------------------------------
(* Strays                                                                  *)

\* With no overlap and no late read, everything belongs to the present use, a
\* thread in OnDisconnected() is alone, and what it emptied stays empty.
Owned ==
    /\ \A t \in Threads : hold[t] \in {0, use}
    /\ \A t \in NetThreads : data[t] \in {0, use}
    /\ \A i \in 1 .. Len(recvPackets) : recvPackets[i] = use
    /\ \A i \in 1 .. Len(sendQueue) : sendQueue[i] = use

LeavesAlone ==
    /\ \A t \in Threads : pc[t] \in Leaving => \A o \in Threads \ {t} : pc[o] = "idle"
    /\ \A t \in Threads : pc[t] \in {"reset", "release"} => sendQueue = <<>>
    /\ \A t \in Threads : pc[t] = "release" => recvPackets = <<>>

NothingLeft ==
    ~inUse =>
        /\ recvPackets = <<>> /\ sendQueue = <<>>
        /\ \A t \in Threads : hold[t] = 0
        /\ \A t \in NetThreads : data[t] = 0

Clean == ~overlap /\ ~late => Owned /\ LeavesAlone /\ NothingLeft /\ ~stray

IInv == TInv /\ PoolBalance /\ PacketsAreAnnounced /\ Clean

LEMMA InitClean == ASSUME Init PROVE Clean
BY EmptyType DEF Init, Clean, Owned, LeavesAlone, NothingLeft, Leaving

\* What a queue of packets of use v keeps being.
LEMMA AllAppend ==
    ASSUME NEW S, NEW s \in Seq(S), NEW v \in S, \A i \in 1 .. Len(s) : s[i] = v
    PROVE  \A i \in 1 .. Len(Append(s, v)) : Append(s, v)[i] = v
OBVIOUS

LEMMA AllTail ==
    ASSUME NEW S, NEW s \in Seq(S), s # <<>>, NEW v, \A i \in 1 .. Len(s) : s[i] = v
    PROVE  /\ Head(s) = v
           /\ \A i \in 1 .. Len(Tail(s)) : Tail(s)[i] = v
<1>1. Len(s) \in Nat /\ Len(s) > 0
  OBVIOUS
<1> QED BY <1>1

LEMMA NoneLeaves ==
    ASSUME LeavesAlone, NEW t \in Threads, pc[t] # "idle", pc[t] \notin Leaving
    PROVE  \A o \in Threads : pc[o] \notin Leaving
BY DEF LeavesAlone

LEMMA NoneLeavesBeside ==
    ASSUME NEW t \in Threads, Starts(t), ~overlap'
    PROVE  \A o \in Threads : pc[o] \notin Leaving
BY DEF Starts, Leaving

LEMMA StillNoneLeaves ==
    ASSUME TInv, NEW t \in Threads, NEW l, l \notin Leaving, pc' = [pc EXCEPT ![t] = l],
           \A o \in Threads : pc[o] \notin Leaving
    PROVE  LeavesAlone'
BY DEF TInv, Places, LeavesAlone, Leaving

LEMMA PrepareSendClean ==
    ASSUME TInv, Owned, LeavesAlone, NothingLeft, ~stray,
           NEW t \in Threads, NEW next, next \notin Leaving, PrepareSend(t, next)
    PROVE  Owned' /\ LeavesAlone' /\ NothingLeft' /\ ~stray'
<1>1. LeavesAlone'
  <2>1. \A o \in Threads : pc[o] \notin Leaving
    BY NoneLeaves DEF PrepareSend, Leaving
  <2> QED BY <2>1, StillNoneLeaves DEF PrepareSend, Goto
<1>2. sendQueue' = sendQueue \/ sendQueue' = <<>>
  BY DEF PrepareSend
<1>3. \A i \in 1 .. Len(sendQueue') : sendQueue'[i] = use
  BY <1>2, EmptyType DEF Owned
<1>4. Owned' /\ NothingLeft'
  BY <1>2, <1>3 DEF PrepareSend, Owned, NothingLeft
<1>5. ~stray'
  BY DEF PrepareSend, Owned
<1> QED BY <1>1, <1>4, <1>5

LEMMA NetClean ==
    ASSUME TInv, Owned, LeavesAlone, NothingLeft, ~stray, ~overlap', ~late',
           NEW t \in NetThreads, NetStep(t)
    PROVE  Owned' /\ LeavesAlone' /\ NothingLeft' /\ ~stray'
<1> USE ThreadKinds DEF Goto
<1>0. recvPackets \in Seq(1 .. use) /\ sendQueue \in Seq(1 .. use)
  BY DEF TInv, Types
<1>1. CASE OnConnected(t)
  <2>1. /\ ~inUse /\ inUse' /\ UNCHANGED <<pc, hold, data, recvPackets, sendQueue, stray>>
    BY <1>1 DEF OnConnected, threadVars, queueVars
  <2> QED BY <2>1, EmptyType DEF Owned, LeavesAlone, NothingLeft
<1>2. CASE ExtractPakcetData(t)
  <2>1. data[t] # 0 /\ data[t] = use
    BY <1>2 DEF ExtractPakcetData, TInv, Hands, Owned
  <2>2. LeavesAlone'
    <3>1. \A o \in Threads : pc[o] \notin Leaving
      BY <1>2, NoneLeaves DEF ExtractPakcetData, Leaving
    <3>2. pc' = [pc EXCEPT ![t] = "push"] \/ pc' = [pc EXCEPT ![t] = "delete"]
      BY <1>2 DEF ExtractPakcetData
    <3> QED BY <3>1, <3>2, StillNoneLeaves DEF Leaving
  <2>3. \A o \in Threads : hold'[o] \in {hold[o], use}
    BY <1>2, <2>1 DEF ExtractPakcetData, TInv, Types
  <2>4. UNCHANGED <<data, use, inUse, recvPackets, sendQueue, stray>>
    BY <1>2 DEF ExtractPakcetData, conVars, queueVars, historyVars
  <2>5. Owned'
    BY <2>3, <2>4 DEF Owned
  <2>6. inUse
    BY <2>1 DEF NothingLeft
  <2> QED BY <2>2, <2>4, <2>5, <2>6 DEF NothingLeft
<1>3. CASE RecvPacket(t)
  <2>1. hold[t] = use /\ use \in 1 .. use
    BY <1>3 DEF RecvPacket, TInv, Types, Hands, Owned
  <2>2. LeavesAlone'
    BY <1>3, NoneLeaves, StillNoneLeaves DEF RecvPacket, Leaving
  <2>3. \A i \in 1 .. Len(recvPackets') : recvPackets'[i] = use
    BY <1>0, <1>3, <2>1, AllAppend DEF RecvPacket, Owned
  <2>4. \A o \in Threads : hold'[o] \in {hold[o], 0}
    BY <1>3 DEF RecvPacket, TInv, Types
  <2>5. UNCHANGED <<data, use, inUse, sendQueue, stray>>
    BY <1>3 DEF RecvPacket, conVars, historyVars
  <2>6. Owned'
    BY <2>3, <2>4, <2>5 DEF Owned
  <2>7. inUse
    BY <1>3 DEF RecvPacket, TInv, Hands, NothingLeft
  <2> QED BY <2>2, <2>5, <2>6, <2>7 DEF NothingLeft
<1>4. CASE PostMessage(t)
  <2>1. LeavesAlone'
    BY <1>4, NoneLeaves, StillNoneLeaves DEF PostMessage, Leaving
  <2> QED
    BY <1>4, <2>1 DEF PostMessage, Owned, NothingLeft, conVars, historyVars
<1>5. CASE EndOnRecv(t)
  <2>1. LeavesAlone'
    BY <1>5, NoneLeaves, StillNoneLeaves DEF EndOnRecv, Leaving
  <2>2. \A o \in NetThreads : data'[o] \in {data[o], 0}
    BY <1>5 DEF EndOnRecv, TInv, Types
  <2>3. UNCHANGED <<hold, use, inUse, recvPackets, sendQueue, stray>>
    BY <1>5 DEF EndOnRecv, queueVars, historyVars
  <2> QED BY <2>1, <2>2, <2>3 DEF Owned, NothingLeft
<1>6. CASE PrepareSend(t, "idle")
  BY <1>6, PrepareSendClean DEF Leaving
<1>7. ASSUME NEW u \in Uses, OnRecv(t, u) PROVE Owned' /\ LeavesAlone' /\ NothingLeft' /\ ~stray'
  <2>1. u = use /\ inUse
    BY <1>7 DEF OnRecv
  <2>2. LeavesAlone'
    BY <1>7, NoneLeavesBeside, StillNoneLeaves DEF OnRecv, Leaving
  <2>3. \A o \in NetThreads : data'[o] \in {data[o], use}
    BY <1>7, <2>1 DEF OnRecv, TInv, Types
  <2>4. UNCHANGED <<hold, use, inUse, recvPackets, sendQueue, stray>>
    BY <1>7 DEF OnRecv, queueVars
  <2> QED BY <2>1, <2>2, <2>3, <2>4 DEF Owned, NothingLeft
<1>8. ASSUME NEW u \in Uses, OnSent(t, u) PROVE Owned' /\ LeavesAlone' /\ NothingLeft' /\ ~stray'
  <2>1. LeavesAlone'
    BY <1>8, NoneLeavesBeside, StillNoneLeaves DEF OnSent, Leaving
  <2> QED BY <1>8, <2>1 DEF OnSent, Owned, NothingLeft, queueVars
<1>9. ASSUME NEW u \in Uses, OnDisconnected(t, u)
      PROVE  Owned' /\ LeavesAlone' /\ NothingLeft' /\ ~stray'
  <2>1. \A o \in Threads \ {t} : pc[o] = "idle" /\ pc'[o] = "idle"
    BY <1>9 DEF OnDisconnected, TInv, Places
  <2>2. pc'[t] = "clear"
    BY <1>9 DEF OnDisconnected, TInv, Places
  <2>3. LeavesAlone'
    BY <2>1, <2>2 DEF LeavesAlone, Leaving
  <2> QED BY <1>9, <2>3 DEF OnDisconnected, Owned, NothingLeft, queueVars
<1>14. ASSUME NEW u \in Uses, OnCompletionFailure(t, u)
       PROVE  Owned' /\ LeavesAlone' /\ NothingLeft' /\ ~stray'
  BY <1>14 DEF OnCompletionFailure, Owned, LeavesAlone, NothingLeft,
               threadVars, queueVars, historyVars
<1>10. ASSUME pc[t] \in Leaving
       PROVE  \A o \in Threads \ {t} : pc[o] = "idle"
  BY <1>10 DEF LeavesAlone
<1>11. CASE ClearSendQueue(t)
  <2>1. \A o \in Threads \ {t} : pc[o] = "idle" /\ pc'[o] = "idle"
    BY <1>10, <1>11 DEF ClearSendQueue, Leaving, TInv, Places
  <2>2. UNCHANGED <<hold, data, use, inUse, recvPackets, stray>>
    BY <1>11 DEF ClearSendQueue, conVars, historyVars
  <2>3. CASE sendQueue = <<>>
    <3>1. sendQueue' = sendQueue /\ pc'[t] = "reset"
      BY <1>11, <2>3 DEF ClearSendQueue, TInv, Places
    <3>2. LeavesAlone'
      BY <2>1, <2>3, <3>1 DEF LeavesAlone, Leaving
    <3> QED BY <2>2, <3>1, <3>2 DEF Owned, NothingLeft
  <2>4. CASE sendQueue # <<>>
    <3>1. sendQueue' = Tail(sendQueue) /\ pc' = pc /\ pc[t] = "clear"
      BY <1>11, <2>4 DEF ClearSendQueue
    <3>2. \A i \in 1 .. Len(sendQueue') : sendQueue'[i] = use
      BY <1>0, <2>4, <3>1, AllTail DEF Owned
    <3>3. LeavesAlone'
      BY <2>1, <3>1 DEF LeavesAlone, Leaving
    <3> QED BY <2>2, <2>4, <3>2, <3>3 DEF Owned, NothingLeft
  <2> QED BY <2>3, <2>4
<1>12. CASE Reset(t)
  <2>1. \A o \in Threads \ {t} : pc[o] = "idle" /\ pc'[o] = "idle"
    BY <1>10, <1>12 DEF Reset, Leaving, TInv, Places
  <2>2. UNCHANGED <<hold, data, use, inUse, sendQueue, stray>> /\ sendQueue = <<>>
    BY <1>12 DEF Reset, conVars, historyVars, LeavesAlone
  <2>3. CASE recvPackets = <<>>
    <3>1. recvPackets' = recvPackets /\ pc'[t] = "release"
      BY <1>12, <2>3 DEF Reset, TInv, Places
    <3>2. LeavesAlone'
      BY <2>1, <2>2, <2>3, <3>1 DEF LeavesAlone, Leaving
    <3> QED BY <2>2, <3>1, <3>2 DEF Owned, NothingLeft
  <2>4. CASE recvPackets # <<>>
    <3>1. recvPackets' = Tail(recvPackets) /\ pc' = pc /\ pc[t] = "reset"
      BY <1>12, <2>4 DEF Reset
    <3>2. \A i \in 1 .. Len(recvPackets') : recvPackets'[i] = use
      BY <1>0, <2>4, <3>1, AllTail DEF Owned
    <3>3. LeavesAlone'
      BY <2>1, <2>2, <3>1 DEF LeavesAlone, Leaving
    <3> QED BY <2>2, <2>4, <3>2, <3>3 DEF Owned, NothingLeft
  <2> QED BY <2>3, <2>4
<1>13. CASE FreeNetCon(t)
  <2>1. recvPackets = <<>> /\ sendQueue = <<>>
    BY <1>13 DEF FreeNetCon, LeavesAlone
  <2>2. /\ \A o \in Threads : pc[o] \in {"idle", "release"}
        /\ \A o \in Threads : pc'[o] = "idle"
    BY <1>10, <1>13 DEF FreeNetCon, Leaving, TInv, Places
  <2>3. (\A o \in Threads : hold[o] = 0) /\ (\A o \in NetThreads : data[o] = 0)
    BY <2>2 DEF TInv, Hands, Threads
  <2>4. UNCHANGED <<hold, data, use, recvPackets, sendQueue, stray>>
    BY <1>13 DEF FreeNetCon, queueVars, historyVars
  <2>5. LeavesAlone'
    BY <2>2 DEF LeavesAlone, Leaving
  <2> QED BY <2>1, <2>3, <2>4, <2>5 DEF Owned, NothingLeft
<1> QED
  BY <1>1, <1>2, <1>3, <1>4, <1>5, <1>6, <1>7, <1>8, <1>9, <1>11, <1>12, <1>13, <1>14
     DEF NetStep

LEMMA GameClean ==
    ASSUME TInv, Owned, LeavesAlone, NothingLeft, ~stray, ~overlap', ~late',
           NEW g \in GameThreads, GameStep(g)
    PROVE  Owned' /\ LeavesAlone' /\ NothingLeft' /\ ~stray'
<1> USE ThreadKinds DEF Goto
<1>0. recvPackets \in Seq(1 .. use) /\ sendQueue \in Seq(1 .. use)
  BY DEF TInv, Types
<1>1. CASE Run(g)
  <2>1. LeavesAlone'
    BY <1>1, NoneLeavesBeside, StillNoneLeaves DEF Run, Leaving
  <2> QED BY <1>1, <2>1 DEF Run, Owned, NothingLeft, conVars
<1>2. CASE PopRecvPacket(g)
  <2>1. \A o \in Threads : pc[o] \notin Leaving
    BY <1>2, NoneLeaves DEF PopRecvPacket, Leaving
  <2>2. CASE recvPackets = <<>>
    <3>1. LeavesAlone'
      BY <1>2, <2>1, <2>2, StillNoneLeaves DEF PopRecvPacket, Leaving
    <3> QED BY <1>2, <2>2, <3>1 DEF PopRecvPacket, Owned, NothingLeft, conVars
  <2>3. CASE recvPackets # <<>>
    <3>1. /\ Head(recvPackets) = use
          /\ \A i \in 1 .. Len(Tail(recvPackets)) : Tail(recvPackets)[i] = use
      BY <1>0, <2>3, AllTail DEF Owned
    <3>2. /\ recvPackets' = Tail(recvPackets)
          /\ hold' = [hold EXCEPT ![g] = use]
          /\ pc' = [pc EXCEPT ![g] = "answer"]
          /\ UNCHANGED <<data, use, inUse, sendQueue>>
      BY <1>2, <2>3, <3>1 DEF PopRecvPacket, conVars
    <3>3. LeavesAlone'
      BY <2>1, <3>2, StillNoneLeaves DEF Leaving
    <3>4. \A o \in Threads : hold'[o] \in {hold[o], use}
      BY <3>2 DEF TInv, Types
    <3>5. Owned'
      BY <3>1, <3>2, <3>4 DEF Owned
    <3>6. inUse
      BY <2>3 DEF NothingLeft
    <3>7. stray' = (stray \/ (inUse /\ Head(recvPackets) # use))
      BY <1>2, <2>3 DEF PopRecvPacket
    <3>8. ~stray'
      BY <3>1, <3>7
    <3> QED BY <3>2, <3>3, <3>5, <3>6, <3>8 DEF NothingLeft
  <2> QED BY <2>2, <2>3
<1>3. CASE Send(g)
  <2>1. hold[g] = use /\ use \in 1 .. use
    BY <1>3 DEF Send, TInv, Types, Hands, Owned
  <2>2. LeavesAlone'
    BY <1>3, NoneLeaves, StillNoneLeaves DEF Send, Leaving
  <2>3. \A i \in 1 .. Len(sendQueue') : sendQueue'[i] = use
    <3>1. sendQueue' = Append(sendQueue, use)
      BY <1>3, <2>1 DEF Send
    <3> QED BY <1>0, <2>1, <3>1, AllAppend DEF Owned
  <2>4. UNCHANGED <<hold, data, use, inUse, recvPackets, stray>>
    BY <1>3 DEF Send, conVars, historyVars
  <2>5. Owned'
    BY <2>3, <2>4 DEF Owned
  <2>6. inUse
    BY <1>3 DEF Send, TInv, Hands, NothingLeft
  <2> QED BY <2>2, <2>4, <2>5, <2>6 DEF NothingLeft
<1>4. CASE PrepareSend(g, "free")
  BY <1>4, PrepareSendClean DEF Leaving
<1>5. CASE FreeBuffer(g)
  <2>1. LeavesAlone'
    BY <1>5, NoneLeaves, StillNoneLeaves DEF FreeBuffer, Leaving
  <2>2. \A o \in Threads : hold'[o] \in {hold[o], 0}
    BY <1>5 DEF FreeBuffer, TInv, Types
  <2>3. UNCHANGED <<data, use, inUse, recvPackets, sendQueue, stray>>
    BY <1>5 DEF FreeBuffer, conVars, queueVars, historyVars
  <2> QED BY <2>1, <2>2, <2>3 DEF Owned, NothingLeft
<1> QED BY <1>1, <1>2, <1>3, <1>4, <1>5 DEF GameStep

\* Nothing makes overlap or late false again.
LEMMA HistoryGrows ==
    ASSUME TInv, Next, ~overlap', ~late' PROVE ~overlap /\ ~late
<1>1. ASSUME NEW t \in Threads, Starts(t) PROVE ~overlap
  BY <1>1 DEF Starts
<1>2. ASSUME UNCHANGED <<overlap, late>> PROVE ~overlap /\ ~late
  BY <1>2
<1>3. ASSUME NEW t \in NetThreads, NetStep(t) PROVE ~overlap /\ ~late
  <2>1. CASE OnConnected(t)
    BY <1>1, <2>1, ThreadKinds DEF OnConnected
  <2>2. ASSUME NEW u \in Uses, OnRecv(t, u) PROVE ~overlap /\ ~late
    <3>1. ~late
      BY <2>2, Zenon DEF OnRecv
    <3> QED BY <1>1, <2>2, <3>1, ThreadKinds DEF OnRecv
  <2>3. ASSUME NEW u \in Uses, OnSent(t, u) PROVE ~overlap /\ ~late
    BY <1>1, <2>3, ThreadKinds DEF OnSent
  <2>4. ASSUME NEW u \in Uses, OnDisconnected(t, u) PROVE ~overlap /\ ~late
    <3>1. ~overlap
      BY <2>4, Zenon DEF OnDisconnected
    <3> QED BY <2>4, <3>1 DEF OnDisconnected
  <2>5. CASE \/ ExtractPakcetData(t) \/ RecvPacket(t) \/ PostMessage(t) \/ EndOnRecv(t)
             \/ ClearSendQueue(t) \/ Reset(t) \/ FreeNetCon(t)
    BY <1>2, <2>5 DEF ExtractPakcetData, RecvPacket, PostMessage, EndOnRecv,
                      ClearSendQueue, Reset, FreeNetCon, historyVars
  <2>6. CASE PrepareSend(t, "idle")
    BY <1>2, <2>6 DEF PrepareSend
  <2>7. ASSUME NEW u \in Uses, OnCompletionFailure(t, u) PROVE ~overlap /\ ~late
    BY <1>2, <2>7 DEF OnCompletionFailure, historyVars
  <2> QED BY <1>3, <2>1, <2>2, <2>3, <2>4, <2>5, <2>6, <2>7 DEF NetStep
<1>4. ASSUME NEW g \in GameThreads, GameStep(g) PROVE ~overlap /\ ~late
  <2>1. CASE Run(g)
    BY <1>1, <2>1, ThreadKinds DEF Run
  <2>2. CASE PopRecvPacket(g) \/ Send(g) \/ PrepareSend(g, "free") \/ FreeBuffer(g)
    BY <1>2, <2>2 DEF PopRecvPacket, Send, PrepareSend, FreeBuffer, historyVars
  <2> QED BY <1>4, <2>1, <2>2 DEF GameStep
<1> QED BY <1>3, <1>4 DEF Next

LEMMA CleanStep == ASSUME TInv, Clean, [Next]_dispatchVars PROVE Clean'
<1>1. CASE Next
  <2> SUFFICES ASSUME ~overlap', ~late'
               PROVE  Owned' /\ LeavesAlone' /\ NothingLeft' /\ ~stray'
    BY DEF Clean
  <2>1. Owned /\ LeavesAlone /\ NothingLeft /\ ~stray
    BY <1>1, HistoryGrows DEF Clean
  <2> QED BY <1>1, <2>1, NetClean, GameClean DEF Next
<1>2. CASE UNCHANGED dispatchVars
  BY <1>2 DEF dispatchVars, threadVars, conVars, queueVars, historyVars, Clean, Owned,
              LeavesAlone, NothingLeft
<1> QED BY <1>1, <1>2

-------------------------------------------------------------------------------
(* Theorems                                                                *)

THEOREM Invariant == Spec => []IInv
<1>1. Init => IInv
  <2>1. ASSUME Init PROVE PacketsAreAnnounced
    BY <2>1 DEF Init, PacketsAreAnnounced
  <2> QED BY <2>1, InitTInv, InitBalance, InitClean DEF IInv
<1>2. IInv /\ [Next]_dispatchVars => IInv'
  BY TypeStep, BalanceStep, AnnounceStep, CleanStep DEF IInv
<1> QED BY <1>1, <1>2, PTL DEF Spec

\* Every queue holds packets of uses that were begun, and no more blocks come back
\* to the pool than it gave out.
THEOREM TypeCorrect == Spec => []TypeOK
<1>1. IInv => TypeOK
  <2> SUFFICES ASSUME IInv PROVE TypeOK
    OBVIOUS
  <2>1. out \in Nat
    <3>1. requested \in Nat /\ Len(recvPackets) \in Nat /\ Len(sendQueue) \in Nat
      BY Lengths DEF IInv, TInv, Types
    <3> QED BY <3>1, HoldingSize DEF IInv, PoolBalance
  <2> QED BY <2>1 DEF IInv, TInv, Types, Places, TypeOK
<1> QED BY <1>1, Invariant, PTL

\* No wake-up is lost, whatever the number of network and game threads.
THEOREM NoLostWakeup == Spec => []PacketsAreAnnounced
<1>1. IInv => PacketsAreAnnounced
  BY DEF IInv
<1> QED BY <1>1, Invariant, PTL

\* Without an overlap or a late read no packet is taken for the next peer's.
THEOREM QueuesDoNotCarryOver == Spec => []StraysNeedOverlap
<1>1. IInv => StraysNeedOverlap
  BY DEF IInv, TInv, Types, Clean, StraysNeedOverlap
<1> QED BY <1>1, Invariant, PTL

\* Every block is accounted for; those that went into a request stay out.
THEOREM BlocksBalance == Spec => []PoolBalance
<1>1. IInv => PoolBalance
  BY DEF IInv
<1> QED BY <1>1, Invariant, PTL

===============================================================================

----------------------------- MODULE PacketDispatch -----------------------------
(***************************************************************************)
(* The way of a packet: NetSocket::OnRecv on a network thread takes it out *)
(* of the stream, NetObj::RecvPacket queues it in _recvPackets and posts a *)
(* message to the service's port, NetService::Run on a game thread takes   *)
(* the message and GameNetObj::OnRecvPacket pops packets until there is    *)
(* none, answers each with Send() and gives its MemoryBlock back to the    *)
(* pool.  Meanwhile OnDisconnected() empties the queues, and the           *)
(* connection and its NetObj go on to their next use, with another peer.   *)
(*                                                                         *)
(* A packet, and the answer to it, is the number of the use whose peer     *)
(* sent it.  How sends are batched is NetSocketSend's subject, how bytes   *)
(* become packets is PacketReceive's.                                      *)
(***************************************************************************)
EXTENDS Naturals, Sequences, FiniteSets

CONSTANTS NetThreads, GameThreads,
          MaxUses,       \* bound: uses of the connection
          MaxReads,      \* bound: reads that complete with data
          MaxPackets     \* bound: packets in all

ASSUME DispatchAssumption ==
    /\ NetThreads \cap GameThreads = {}
    /\ IsFiniteSet(NetThreads) /\ IsFiniteSet(GameThreads)
    /\ MaxUses \in Nat /\ MaxReads \in Nat /\ MaxPackets \in Nat

Threads == NetThreads \cup GameThreads
Uses == 1 .. MaxUses

VARIABLES
    pc,           \* where each thread is
    hold,         \* hold[t]: the packet that t has in hand, 0 for none
    data,         \* data[t]: the use whose data the OnRecv of t has
    use,          \* the present or last use of the connection
    inUse,        \* the connection is in the busy map
    up,           \* _socket is a socket
    reads,        \* reads[u]: outstanding WSARecvs of use u
    writes,       \* writes[u]: outstanding WSASends of use u
    recvPackets,  \* NetObj::_recvPackets
    messages,     \* messages posted to the service's port
    sendQueue,    \* answers in _sendPendingQueue and _sendQueue
    out,          \* blocks that the pool gave out and did not get back
    requested,    \* blocks that went into a WSARecv or WSASend
    readCnt, packetCnt,  \* bounds
    overlap,      \* history: a handler ran beside an OnDisconnected
    late,         \* history: a read completed with data after its use was over
    stray         \* history: a packet was handled or answered in another use

threadVars == <<pc, hold, data>>
conVars == <<use, inUse, up, reads, writes>>
queueVars == <<recvPackets, messages, sendQueue>>
poolVars == <<out, requested>>
boundVars == <<readCnt, packetCnt>>
historyVars == <<overlap, late, stray>>
dispatchVars == <<threadVars, conVars, queueVars, poolVars, boundVars, historyVars>>

Goto(t, l) == pc' = [pc EXCEPT ![t] = l]
Leaving == {"clear", "reset", "release"}    \* in OnDisconnected

\* A handler starts, perhaps beside an OnDisconnected.
Starts(t) ==
    /\ pc[t] = "idle"
    /\ overlap' = (overlap \/ \E o \in Threads \ {t} : pc[o] \in Leaving)

Init ==
    /\ pc = [t \in Threads |-> "idle"]
    /\ hold = [t \in Threads |-> 0]
    /\ data = [t \in NetThreads |-> 0]
    /\ use = 0
    /\ inUse = FALSE /\ up = FALSE
    /\ reads = [u \in Uses |-> 0] /\ writes = [u \in Uses |-> 0]
    /\ recvPackets = <<>> /\ messages = 0 /\ sendQueue = <<>>
    /\ out = 0 /\ requested = 0
    /\ readCnt = 0 /\ packetCnt = 0
    /\ overlap = FALSE /\ late = FALSE /\ stray = FALSE

\* MemoryPool: a block is given out, n blocks come back.
GetBuffer == out' = out + 1
FreeBuffers(n) == out' = out - n

-------------------------------------------------------------------------------
(* Network threads: data                                                   *)

\* GetBuffer and WSARecv on the socket of use u.  When WSARecv fails at once the
\* destructor of the NetIoBuffer gives the block back.
PostRecv(u, connected) ==
    \/ /\ connected
       /\ reads' = [reads EXCEPT ![u] = @ + 1]
       /\ GetBuffer
       /\ requested' = requested + 1
    \/ UNCHANGED <<reads, out, requested>>

\* The connection is allocated for its next use, and OnConnected() runs.
OnConnected(t) ==
    /\ Starts(t)
    /\ ~inUse /\ use < MaxUses
    /\ use' = use + 1
    /\ inUse' = TRUE /\ up' = TRUE
    /\ PostRecv(use + 1, TRUE)
    /\ UNCHANGED <<threadVars, writes, queueVars, boundVars, late, stray>>

\* A WSARecv completed: OnRecv pops its block, which nobody frees, and puts the
\* data into the stream.  The completion carries the connection, not its use, and
\* a failed send ends a use without closing the socket that is being read.
OnRecv(t, u) ==
    /\ Starts(t)
    /\ reads[u] > 0 /\ readCnt < MaxReads
    /\ reads' = [reads EXCEPT ![u] = @ - 1]
    /\ readCnt' = readCnt + 1
    /\ data' = [data EXCEPT ![t] = u]
    /\ late' = (late \/ ~inUse \/ u # use)
    /\ Goto(t, "extract")
    /\ UNCHANGED <<hold, use, inUse, up, writes, queueVars, poolVars, packetCnt, stray>>

\* ExtractPakcetData: GetBuffer for the next packet, or no packet is left.
ExtractPakcetData(t) ==
    /\ pc[t] = "extract"
    /\ \/ /\ packetCnt < MaxPackets
          /\ packetCnt' = packetCnt + 1
          /\ hold' = [hold EXCEPT ![t] = data[t]]
          /\ GetBuffer
          /\ Goto(t, "push")
       \/ Goto(t, "delete") /\ UNCHANGED <<packetCnt, hold, out>>
    /\ UNCHANGED <<data, conVars, queueVars, requested, readCnt, historyVars>>

\* NetObj::RecvPacket: the packet is queued ...
RecvPacket(t) ==
    /\ pc[t] = "push"
    /\ recvPackets' = Append(recvPackets, hold[t])
    /\ hold' = [hold EXCEPT ![t] = 0]
    /\ Goto(t, "post")
    /\ UNCHANGED <<data, conVars, messages, sendQueue, poolVars, boundVars,
                   historyVars>>

\* Mutant: a message only for a packet that has the queue to itself.
PostMessageIfFirst(t) ==
    /\ pc[t] = "post"
    /\ messages' = IF Len(recvPackets) = 1 THEN messages + 1 ELSE messages
    /\ Goto(t, "extract")
    /\ UNCHANGED <<hold, data, conVars, recvPackets, sendQueue, poolVars, boundVars,
                   historyVars>>

\* ... and a message is posted for a game thread.
PostMessage(t) ==
    /\ pc[t] = "post"
    /\ messages' = messages + 1
    /\ Goto(t, "extract")
    /\ UNCHANGED <<hold, data, conVars, recvPackets, sendQueue, poolVars, boundVars,
                   historyVars>>

\* The end of OnRecv: the NetIoBuffer, which no longer has its block, is deleted;
\* the next WSARecv is posted on whatever socket the connection has by now.
EndOnRecv(t) ==
    /\ pc[t] = "delete"
    /\ PostRecv(use, up)
    /\ data' = [data EXCEPT ![t] = 0]
    /\ Goto(t, "idle")
    /\ UNCHANGED <<hold, use, inUse, up, writes, queueVars, boundVars, historyVars>>

-------------------------------------------------------------------------------
(* Sending                                                                 *)

\* PrepareSend and PostSend: what is queued goes into one WSASend; or it stays, as
\* when the exchange of the status word fails; or WSASend fails at once, and the
\* destructor of the NetIoBuffer gives the blocks back.
PrepareSend(t, next) ==
    /\ pc[t] = "prepare"
    /\ \/ UNCHANGED <<writes, sendQueue, out, requested, stray>>
       \/ /\ up /\ sendQueue # <<>>
          /\ writes' = [writes EXCEPT ![use] = @ + 1]
          /\ requested' = requested + Len(sendQueue)
          /\ stray' = (stray \/ \E i \in 1 .. Len(sendQueue) : sendQueue[i] # use)
          /\ sendQueue' = <<>>
          /\ UNCHANGED out
       \/ /\ sendQueue # <<>>
          /\ FreeBuffers(Len(sendQueue))
          /\ sendQueue' = <<>>
          /\ UNCHANGED <<writes, requested, stray>>
    /\ Goto(t, next)
    /\ UNCHANGED <<hold, data, use, inUse, up, reads, recvPackets, messages, boundVars,
                   overlap, late>>

\* A WSASend completed.  OnSent deletes the NetIoBuffer as the NetCompletionOP
\* it is not, whose destructor knows nothing of the blocks.
OnSent(t, u) ==
    /\ Starts(t)
    /\ writes[u] > 0
    /\ writes' = [writes EXCEPT ![u] = @ - 1]
    /\ Goto(t, "prepare")
    /\ UNCHANGED <<hold, data, use, inUse, up, reads, queueVars, poolVars, boundVars,
                   late, stray>>

-------------------------------------------------------------------------------
(* Network threads: requests that fail                                     *)

\* A request of use u comes back failed.
Fail(u) ==
    \/ reads[u] > 0 /\ reads' = [reads EXCEPT ![u] = @ - 1] /\ UNCHANGED writes
    \/ writes[u] > 0 /\ writes' = [writes EXCEPT ![u] = @ - 1] /\ UNCHANGED reads

\* OnCompletionFailure, for one that had transferred some bytes: its NetIoBuffer is
\* deleted as in OnSent, and nothing is posted in its place.
OnCompletionFailure(t, u) ==
    /\ pc[t] = "idle"
    /\ Fail(u)
    /\ UNCHANGED <<threadVars, use, inUse, up, queueVars, poolVars, boundVars,
                   historyVars>>

\* A request failed with nothing transferred; whichever use it is of, the
\* connection's socket is gone.  Its NetIoBuffer is not deleted.
OnDisconnected(t, u) ==
    /\ pc[t] = "idle"
    /\ overlap' = (overlap \/ \E o \in Threads \ {t} : pc[o] # "idle")
    /\ Fail(u)
    /\ up' = FALSE
    /\ Goto(t, "clear")
    /\ UNCHANGED <<hold, data, use, inUse, queueVars, poolVars, boundVars, late, stray>>

\* ClearSendQueue: FreeBuffer for each block that it can pop.
ClearSendQueue(t) ==
    /\ pc[t] = "clear"
    /\ IF sendQueue = <<>>
       THEN Goto(t, "reset") /\ UNCHANGED <<sendQueue, out>>
       ELSE sendQueue' = Tail(sendQueue) /\ FreeBuffers(1) /\ UNCHANGED pc
    /\ UNCHANGED <<hold, data, conVars, recvPackets, messages, requested, boundVars,
                   historyVars>>

\* Mutant: the packets that no game thread came to stay.
ResetNothing(t) ==
    /\ pc[t] = "reset"
    /\ Goto(t, "release")
    /\ UNCHANGED <<hold, data, conVars, queueVars, poolVars, boundVars, historyVars>>

\* NetObj::Reset, likewise.
Reset(t) ==
    /\ pc[t] = "reset"
    /\ IF recvPackets = <<>>
       THEN Goto(t, "release") /\ UNCHANGED <<recvPackets, out>>
       ELSE recvPackets' = Tail(recvPackets) /\ FreeBuffers(1) /\ UNCHANGED pc
    /\ UNCHANGED <<hold, data, conVars, messages, sendQueue, requested, boundVars,
                   historyVars>>

\* FreeNetCon: the connection can be taken for its next use.
FreeNetCon(t) ==
    /\ pc[t] = "release"
    /\ inUse' = FALSE
    /\ Goto(t, "idle")
    /\ UNCHANGED <<hold, data, use, up, reads, writes, queueVars, poolVars, boundVars,
                   historyVars>>

-------------------------------------------------------------------------------
(* Game threads                                                            *)

\* Mutant: a timeout of the wait is taken for a message.
RunOnTimeout(g) ==
    /\ Starts(g)
    /\ messages' = messages - 1
    /\ Goto(g, "pop")
    /\ UNCHANGED <<hold, data, conVars, recvPackets, sendQueue, poolVars, boundVars,
                   late, stray>>

\* NetService::Run takes a message.
Run(g) ==
    /\ Starts(g)
    /\ messages > 0
    /\ messages' = messages - 1
    /\ Goto(g, "pop")
    /\ UNCHANGED <<hold, data, conVars, recvPackets, sendQueue, poolVars, boundVars,
                   late, stray>>

\* OnRecvPacket: while (buffer = PopRecvPacket()).
PopRecvPacket(g) ==
    /\ pc[g] = "pop"
    /\ IF recvPackets = <<>>
       THEN Goto(g, "idle") /\ UNCHANGED <<recvPackets, hold, stray>>
       ELSE /\ recvPackets' = Tail(recvPackets)
            /\ hold' = [hold EXCEPT ![g] = Head(recvPackets)]
            /\ stray' = (stray \/ (inUse /\ Head(recvPackets) # use))
            /\ Goto(g, "answer")
    /\ UNCHANGED <<data, conVars, messages, sendQueue, poolVars, boundVars, overlap, late>>

\* Send: GetBuffer for the answer, which is queued.
Send(g) ==
    /\ pc[g] = "answer"
    /\ sendQueue' = Append(sendQueue, hold[g])
    /\ GetBuffer
    /\ Goto(g, "prepare")
    /\ UNCHANGED <<hold, data, conVars, recvPackets, messages, requested, boundVars,
                   historyVars>>

\* Mutant: the handler keeps the block.
KeepBuffer(g) ==
    /\ pc[g] = "free"
    /\ hold' = [hold EXCEPT ![g] = 0]
    /\ Goto(g, "pop")
    /\ UNCHANGED <<data, conVars, queueVars, poolVars, boundVars, historyVars>>

FreeBuffer(g) ==
    /\ pc[g] = "free"
    /\ FreeBuffers(1)
    /\ hold' = [hold EXCEPT ![g] = 0]
    /\ Goto(g, "pop")
    /\ UNCHANGED <<data, conVars, queueVars, requested, boundVars, historyVars>>

-------------------------------------------------------------------------------
NetStep(t) ==
    \/ OnConnected(t) \/ ExtractPakcetData(t) \/ RecvPacket(t) \/ PostMessage(t)
    \/ EndOnRecv(t) \/ PrepareSend(t, "idle")
    \/ \E u \in Uses : \/ OnRecv(t, u) \/ OnSent(t, u)
                      \/ OnCompletionFailure(t, u) \/ OnDisconnected(t, u)
    \/ ClearSendQueue(t) \/ Reset(t) \/ FreeNetCon(t)

GameStep(g) ==
    Run(g) \/ PopRecvPacket(g) \/ Send(g) \/ PrepareSend(g, "free") \/ FreeBuffer(g)

Next == (\E t \in NetThreads : NetStep(t)) \/ (\E g \in GameThreads : GameStep(g))

Spec == Init /\ [][Next]_dispatchVars

-------------------------------------------------------------------------------
(* Properties                                                              *)

Holding == {t \in Threads : hold[t] # 0}

\* Packets and answers have a use, and a thread has one in hand just while it is
\* between taking it and giving it away.
TypeOK ==
    /\ pc \in [Threads -> {"idle", "extract", "push", "post", "delete", "prepare",
                           "clear", "reset", "release", "pop", "answer", "free"}]
    /\ hold \in [Threads -> 0 .. use]
    /\ data \in [NetThreads -> 0 .. use]
    /\ use \in 0 .. MaxUses
    /\ inUse \in BOOLEAN /\ up \in BOOLEAN
    /\ reads \in [Uses -> Nat] /\ writes \in [Uses -> Nat]
    /\ recvPackets \in Seq(1 .. use) /\ messages \in Nat /\ sendQueue \in Seq(1 .. use)
    /\ out \in Nat /\ requested \in Nat
    /\ readCnt \in 0 .. MaxReads /\ packetCnt \in 0 .. MaxPackets
    /\ overlap \in BOOLEAN /\ late \in BOOLEAN /\ stray \in BOOLEAN

\* No lost wake-up: for a packet in the queue there is a message, or a game thread
\* that will look at the queue again, or a network thread about to post a message.
PacketsAreAnnounced ==
    recvPackets # <<>> =>
        \/ messages > 0
        \/ \E g \in GameThreads : pc[g] # "idle"
        \/ \E t \in NetThreads : pc[t] = "post"

\* A packet is handled, or its answer sent, as that of the next peer only if some
\* handler ran while a thread was in OnDisconnected(), or a read completed with
\* data when its use was over: the queues themselves carry nothing over from one
\* use to the next.
StraysNeedOverlap == stray => overlap \/ late

\* What the pool gave out is in a queue, in the hands of a thread, or went into a
\* request - and of the last kind nothing ever comes back.
PoolBalance ==
    out = Len(recvPackets) + Len(sendQueue) + Cardinality(Holding) + requested

===============================================================================

----------------------------- MODULE NetSocketSend -----------------------------
(***************************************************************************)
(* RefLibNet/reflib_net_socket.cpp, the sending half of a NetSocket: Send, *)
(* PrepareSend, PostSend and OnSent, with the two lock-free queues and the *)
(* atomic status word that the threads share.  Each access to a queue or   *)
(* to the status is one step.                                              *)
(*                                                                         *)
(* The connection is up all the while and WSASend never fails; packets are *)
(* small, so that PrepareSend never stops at DEF_SOCKET_BUFFER_SIZE bytes. *)
(* A packet is named by its sender and a number.                           *)
(***************************************************************************)
EXTENDS Integers, Sequences, FiniteSets

CONSTANTS Senders,      \* threads that call Send
          Workers,      \* network threads, which handle completions
          MaxSendArray, \* MAX_SEND_ARRAY_SIZE
          MaxPackets    \* bound: how often each sender calls Send

ASSUME SendAssumption ==
    /\ IsFiniteSet(Senders) /\ IsFiniteSet(Workers)
    /\ MaxSendArray \in Nat \ {0}
    /\ MaxPackets \in Nat

Threads == Senders \cup Workers
Packets == Senders \X (1 .. MaxPackets)

\* nullptr in a MemoryBlock*.
Null == <<>>

\* The bits of _netStatus that change while the connection is up.
SEND == "NET_STATUS_SEND_PENDING"
RECV == "NET_STATUS_RECV_PENDING"

\* A local variable has its initial value again when it goes out of scope.
VARIABLES
    pendingQ,   \* _sendPendingQueue
    sendQ,      \* _sendQueue
    status,     \* _netStatus
    inFlight,   \* number of WSASends that have not completed
    wire,       \* the packets given to WSASend, in the order of the calls
    sent,       \* sent[t]: how many packets t has given to Send
    fault,      \* what brought the program down, if anything did
    pc,         \* pc[t]: the step that t takes next
    buffer,     \* buffer[t]: PrepareSend's local, which try_pop may not set
    expected,   \* expected[t]: PostSend's local
    wbufs,      \* wbufs[t]: the size of PostSend's local vector
    op,         \* op[t]: the packets popped into PostSend's sendOP
    calls,      \* history: the packets, in the order of the calls of Send
    crowded     \* history: have two threads ever been between the queues at once?

queues == <<pendingQ, sendQ>>
locals == <<buffer, expected, wbufs, op>>
history == <<calls, crowded>>   \* no guard reads it
sendVars == <<pendingQ, sendQ, status, inFlight, wire, sent, fault, pc, buffer,
              expected, wbufs, op, calls, crowded>>

Init ==
    /\ pendingQ = <<>> /\ sendQ = <<>>
    /\ status = {RECV}
    /\ inFlight = 0
    /\ wire = <<>>
    /\ sent = [t \in Senders |-> 0]
    /\ fault = "none"
    /\ pc = [t \in Threads |-> "idle"]
    /\ buffer = [t \in Threads |-> Null]
    /\ expected = [t \in Threads |-> {}]
    /\ wbufs = [t \in Threads |-> 0]
    /\ op = [t \in Threads |-> <<>>]
    /\ calls = <<>> /\ crowded = FALSE

Running(t, label) == fault = "none" /\ pc[t] = label
Goto(t, label) == pc' = [pc EXCEPT ![t] = label]

\* A thread is between the queues from finding the pending queue not empty to its
\* push, and from reading the send queue's size to WSASend.  Nothing keeps the
\* others out; crowded notes that another has come in.
Between(t) == pc[t] \in {"room?", "pop", "push", "drain"}

Enter(t, label) ==
    /\ Goto(t, label)
    /\ crowded' = (crowded \/ \E u \in Threads \ {t} : Between(u))

\* PrepareSend begins with a null buffer.
EnterPrepareSend(t) ==
    /\ Goto(t, "empty?")
    /\ buffer' = [buffer EXCEPT ![t] = Null]

\* Send: the packet joins the pending queue.
Send(t) ==
    /\ Running(t, "idle")
    /\ sent[t] < MaxPackets
    /\ sent' = [sent EXCEPT ![t] = @ + 1]
    /\ pendingQ' = Append(pendingQ, <<t, sent'[t]>>)
    /\ calls' = Append(calls, <<t, sent'[t]>>)
    /\ EnterPrepareSend(t)
    /\ UNCHANGED <<sendQ, status, inFlight, wire, fault, expected, wbufs, op,
                   crowded>>

\* Mutants: a completion is handled twice; the queues are not looked at.
OnSentAgain(t) ==
    /\ Running(t, "idle")
    /\ inFlight' = inFlight - 1
    /\ status' = status \ {SEND}
    /\ EnterPrepareSend(t)
    /\ UNCHANGED <<queues, wire, sent, fault, expected, wbufs, op, history>>

OnSentOnly(t) ==
    /\ Running(t, "idle")
    /\ inFlight > 0
    /\ inFlight' = inFlight - 1
    /\ status' = status \ {SEND}
    /\ UNCHANGED <<queues, wire, sent, fault, pc, locals, history>>

\* OnSent: a completed write is taken off the port and the bit is cleared.
OnSent(t) ==
    /\ Running(t, "idle")
    /\ inFlight > 0
    /\ inFlight' = inFlight - 1
    /\ status' = status \ {SEND}
    /\ EnterPrepareSend(t)
    /\ UNCHANGED <<queues, wire, sent, fault, expected, wbufs, op, history>>

\* OnRecv clears its bit and PostRecv sets it again.
OnRecv(t) ==
    /\ Running(t, "idle")
    /\ RECV \in status
    /\ status' = status \ {RECV}
    /\ Goto(t, "recv")
    /\ UNCHANGED <<queues, inFlight, wire, sent, fault, locals, history>>

PostRecv(t) ==
    /\ Running(t, "recv")
    /\ status' = status \cup {RECV}
    /\ Goto(t, "idle")
    /\ UNCHANGED <<queues, inFlight, wire, sent, fault, locals, history>>

-------------------------------------------------------------------------------
(* PrepareSend                                                             *)

\* The loop ends: PostSend if something was moved, which is when the local
\* buffer has been set.
LeaveLoop(t) ==
    /\ Goto(t, IF buffer[t] = Null THEN "idle" ELSE "load")
    /\ buffer' = [buffer EXCEPT ![t] = Null]
StayInLoop(t, label) == Goto(t, label) /\ UNCHANGED buffer

\* while (!_sendPendingQueue.empty() ...
TestEmpty(t) ==
    /\ Running(t, "empty?")
    /\ IF pendingQ = <<>>
       THEN LeaveLoop(t) /\ UNCHANGED crowded
       ELSE Enter(t, "room?") /\ UNCHANGED buffer
    /\ UNCHANGED <<queues, status, inFlight, wire, sent, fault, expected, wbufs,
                   op, calls>>

\* ... && _sendQueue.unsafe_size() < MAX_SEND_ARRAY_SIZE)
HasRoomForOneMore == Len(sendQ) <= MaxSendArray   \* mutant
HasRoom == Len(sendQ) < MaxSendArray

\* Mutant: the packet is taken out first, and put back if there is no room; such a
\* queue takes it back at its other end only.
TestRoomOfTaken(t) ==
    /\ Running(t, "room?")
    /\ IF HasRoom
       THEN StayInLoop(t, "pop") /\ UNCHANGED pendingQ
       ELSE /\ pendingQ' = IF pendingQ = <<>> THEN <<>>
                           ELSE Append(Tail(pendingQ), Head(pendingQ))
            /\ LeaveLoop(t)
    /\ UNCHANGED <<sendQ, status, inFlight, wire, sent, fault, expected, wbufs, op,
                   history>>

TestRoom(t) ==
    /\ Running(t, "room?")
    /\ IF HasRoom THEN StayInLoop(t, "pop") ELSE LeaveLoop(t)
    /\ UNCHANGED <<queues, status, inFlight, wire, sent, fault, expected, wbufs,
                   op, history>>

\* try_pop, whose result is ignored, leaves buffer as it was when it fails.
PopPending(t) ==
    /\ Running(t, "pop")
    /\ IF pendingQ = <<>>
       THEN UNCHANGED <<pendingQ, buffer>>
       ELSE /\ buffer' = [buffer EXCEPT ![t] = Head(pendingQ)]
            /\ pendingQ' = Tail(pendingQ)
    /\ Goto(t, "push")
    /\ UNCHANGED <<sendQ, status, inFlight, wire, sent, fault, expected, wbufs,
                   op, history>>

\* Mutant: the packet is dropped if there is no room for it any more.
PushSendIfRoom(t) ==
    /\ Running(t, "push")
    /\ sendQ' = IF HasRoom THEN Append(sendQ, buffer[t]) ELSE sendQ
    /\ Goto(t, "empty?")
    /\ UNCHANGED <<pendingQ, status, inFlight, wire, sent, fault, locals,
                   history>>

\* push, then buffer->GetDataLen(), which a null buffer does not survive.
PushSend(t) ==
    /\ Running(t, "push")
    /\ sendQ' = Append(sendQ, buffer[t])
    /\ fault' = IF buffer[t] = Null THEN "null buffer" ELSE "none"
    /\ Goto(t, "empty?")
    /\ UNCHANGED <<pendingQ, status, inFlight, wire, sent, locals, history>>

-------------------------------------------------------------------------------
(* PostSend                                                                *)

\* Mutant: SEND must be clear, as the mask in the code seems to intend.
LoadStatusNotSending(t) ==
    /\ Running(t, "load")
    /\ expected' = [expected EXCEPT ![t] = status \ {SEND}]
    /\ Goto(t, "cas")
    /\ UNCHANGED <<queues, status, inFlight, wire, sent, fault, buffer, wbufs,
                   op, history>>

\* The precedence of | and & makes expected the present status, SEND or not.
LoadStatus(t) ==
    /\ Running(t, "load")
    /\ expected' = [expected EXCEPT ![t] = status]
    /\ Goto(t, "cas")
    /\ UNCHANGED <<queues, status, inFlight, wire, sent, fault, buffer, wbufs,
                   op, history>>

\* compare_exchange_strong: if it fails, PostSend gives up.
ExchangeStatus(t) ==
    /\ Running(t, "cas")
    /\ IF status = expected[t]
       THEN /\ status' = expected[t] \cup {SEND}
            /\ Goto(t, "size")
       ELSE /\ UNCHANGED status
            /\ Goto(t, "idle")
    /\ expected' = [expected EXCEPT ![t] = {}]
    /\ UNCHANGED <<queues, inFlight, wire, sent, fault, buffer, wbufs, op,
                   history>>

\* sendQueueSize: with nothing to send PostSend gives up, the bit set.
ReadSize(t) ==
    /\ Running(t, "size")
    /\ wbufs' = [wbufs EXCEPT ![t] = Len(sendQ)]
    /\ IF sendQ = <<>>
       THEN Goto(t, "idle") /\ UNCHANGED crowded
       ELSE Enter(t, "drain")
    /\ UNCHANGED <<queues, status, inFlight, wire, sent, fault, buffer,
                   expected, op, calls>>

\* Mutant: the last element of wbufs is not there.
FitsButLast(t) == Len(op[t]) + 1 < wbufs[t]
Fits(t) == Len(op[t]) < wbufs[t]

\* while (_sendQueue.try_pop(buffer)): wbufs[idx] must be one of the
\* sendQueueSize elements, which the vector's operator[] asserts in Debug.
DrainOne(t) ==
    /\ Running(t, "drain")
    /\ sendQ # <<>>
    /\ sendQ' = Tail(sendQ)
    /\ op' = [op EXCEPT ![t] = Append(@, Head(sendQ))]
    /\ fault' = IF Fits(t) THEN "none" ELSE "wbufs overrun"
    /\ UNCHANGED <<pendingQ, status, inFlight, wire, sent, pc, buffer, expected,
                   wbufs, history>>

\* The queue is empty: WSASend.
PostWSASend(t) ==
    /\ Running(t, "drain")
    /\ sendQ = <<>>
    /\ wire' = wire \o op[t]
    /\ inFlight' = inFlight + 1
    /\ op' = [op EXCEPT ![t] = <<>>]
    /\ wbufs' = [wbufs EXCEPT ![t] = 0]
    /\ Goto(t, "idle")
    /\ UNCHANGED <<queues, status, sent, fault, buffer, expected, history>>

-------------------------------------------------------------------------------
Step(t) ==
    \/ TestEmpty(t) \/ TestRoom(t) \/ PopPending(t) \/ PushSend(t)
    \/ LoadStatus(t) \/ ExchangeStatus(t) \/ ReadSize(t) \/ DrainOne(t)
    \/ PostWSASend(t)

Next ==
    \/ \E t \in Senders : Send(t)
    \/ \E t \in Workers : OnSent(t) \/ OnRecv(t) \/ PostRecv(t)
    \/ \E t \in Threads : Step(t)

\* A thread that is inside Send or a handler goes on, and a write completes
\* and is handled in the end: the completion port is a queue, so completed
\* reads cannot keep a worker from it for ever.  Nothing makes the application
\* call Send or the peer send data.
Fairness ==
    /\ \A t \in Threads : WF_sendVars(Step(t))
    /\ \A t \in Workers : WF_sendVars(PostRecv(t))
    /\ SF_sendVars(\E t \in Workers : OnSent(t))

Spec == Init /\ [][Next]_sendVars /\ Fairness

-------------------------------------------------------------------------------
(* Properties                                                              *)

\* The queues hold packets, or the null that a failed try_pop leaves behind.
TypeOK ==
    /\ pendingQ \in Seq(Packets)
    /\ sendQ \in Seq(Packets \cup {Null})
    /\ status \subseteq {SEND, RECV}
    /\ inFlight \in Nat
    /\ wire \in Seq(Packets \cup {Null})
    /\ sent \in [Senders -> 0 .. MaxPackets]
    /\ fault \in {"none", "null buffer", "wbufs overrun"}
    /\ pc \in [Threads -> {"idle", "recv", "empty?", "room?", "pop", "push",
                           "load", "cas", "size", "drain"}]
    /\ buffer \in [Threads -> Packets \cup {Null}]
    /\ expected \in [Threads -> SUBSET {SEND, RECV}]
    /\ wbufs \in [Threads -> Nat]
    /\ op \in [Threads -> Seq(Packets \cup {Null})]
    /\ calls \in Seq(Packets)
    /\ crowded \in BOOLEAN

InSeq(s) == {s[i] : i \in 1 .. Len(s)}

\* The packets that have been given to Send.
Given == {p \in Packets : p[2] <= sent[p[1]]}

\* Nothing is going on: what is in a queue now stays there.
Quiescent == fault = "none" /\ inFlight = 0 /\ \A t \in Threads : pc[t] = "idle"

\* The program does not come down.
NoFault == fault = "none"

\* What brings it down takes two threads between the queues at once: the null that
\* a failed try_pop leaves behind is pushed, or the send queue grows after its size
\* was read, in no other interleaving of Send, OnSent and OnRecv.
FaultOnlyWhenCrowded == ~crowded => NoFault

\* Whatever the interleaving, no packet vanishes: until it is on the wire it
\* is in a queue, in the sendOP of a PostSend, or between pop and push.
NoPacketLost ==
    Given \subseteq InSeq(pendingQ) \cup InSeq(sendQ) \cup InSeq(wire)
                    \cup (UNION {InSeq(op[t]) : t \in Threads})
                    \cup {buffer[t] : t \in {u \in Threads : pc[u] = "push"}}

\* The threads that have found room in the send queue and not pushed yet.
Moving == {t \in Threads : pc[t] \in {"pop", "push"}}

\* MAX_SEND_ARRAY_SIZE is tested before the push, so it is exceeded, but, with
\* what is about to be pushed, by no more than one packet per other thread.
OvershootBounded ==
    Len(sendQ) + Cardinality(Moving) <= MaxSendArray + Cardinality(Threads) - 1

\* Packets are stuck in the pending queue only behind a full send queue: as
\* long as there is room, somebody will still move them.
StuckBehindFullQueueOnly == Quiescent /\ HasRoom => pendingQ = <<>>

\* Until two threads are between the queues at once, the socket is a pipe from Send
\* to WSASend: whatever waits in the queues after failed exchanges and however it
\* is batched, the packets of all senders go out in the order of the calls of Send.
Pipe == INSTANCE PacketPipe WITH
    Items <- Packets, given <- calls, taken <- wire, broken <- crowded

ImplementsPipe == Pipe!Spec

\* Every packet given to Send is on the wire in the end.
EventuallySent == \A p \in Packets : p \in Given ~> p \in InSeq(wire)

================================================================================

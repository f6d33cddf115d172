------------------------------ MODULE NetAcceptor ------------------------------
(***************************************************************************)
(* NetListener and NetAcceptor.  Accepts() posts an AcceptEx for each of   *)
(* NETWORK_DEFAULT_OVERLAPPED_COUNT buffers; a worker that takes up an     *)
(* accepted peer gives it a connection and posts the buffer again.         *)
(*                                                                         *)
(* Three things decide whether a buffer is posted again: whether a         *)
(* connection could be allocated, whether the listener still has its       *)
(* _socket - NetWorker::HandleIO takes every failed accept for the end of  *)
(* the listener, and OnDisconnected() sets _socket to INVALID_SOCKET - and *)
(* whether the calls into Winsock succeed.  The handle of the listening    *)
(* socket is what Shutdown() needs to close it.                            *)
(***************************************************************************)
EXTENDS Naturals, FiniteSets

CONSTANTS Buffers,        \* the AcceptBuffers
          Workers,        \* the network threads
          Registered,     \* connections that AddListeningObj registered
          MaxPeers,       \* bound: peers that connect
          NoBuffer

ASSUME AcceptorAssumption ==
    /\ Registered \in Nat /\ MaxPeers \in Nat
    /\ IsFiniteSet(Buffers) /\ NoBuffer \notin Buffers

VARIABLES
    buf,        \* where each AcceptBuffer is
    sock,       \* the listener's _socket: "none", "valid", or "lost" (INVALID again)
    listening,  \* the socket in the kernel: "none", "open", "closed"
    arrived,    \* how many peers have connected so far
    backlog,    \* how many peers wait to be accepted
    pending,    \* how many connections are in the manager's pending map
    busy,       \* how many are in its busy map
    active,     \* NetConnectionMgr::_isActive
    handling,   \* handling[w]: the buffer that w is going to post again
    main,       \* where the application's thread is
    running,    \* RunableThreads::_activated of the workers
    late        \* history: late[b]: accepts through b since _socket was lost

acceptVars == <<buf, sock, listening, arrived, backlog, pending, busy, active,
                handling, main, running, late>>

SetBuf(b, s) == buf' = [buf EXCEPT ![b] = s]

Init ==
    /\ buf = [b \in Buffers |-> "new"]
    /\ sock = "none"
    /\ listening = "none"
    /\ arrived = 0
    /\ backlog = 0
    /\ pending = Registered
    /\ busy = 0
    /\ active = TRUE
    /\ handling = [w \in Workers |-> NoBuffer]
    /\ main = "init"
    /\ running = TRUE
    /\ late = [b \in Buffers |-> 0]

-------------------------------------------------------------------------------
(* The application's thread: Listen, Accepts, Shutdown                      *)

\* NetworkAPI::Listen that succeeds: bind() and listen().
StartsListening == sock' = "valid" /\ listening' = "open"

\* NetListener::Listen up to Accepts(): the listener has its socket, which
\* listens unless the port is taken or Winsock fails.  StartListen() ignores
\* the result.
Listen ==
    /\ main = "init"
    /\ \/ StartsListening /\ main' = "accepts"
       \/ sock' \in {"none", "valid"} /\ UNCHANGED listening /\ main' = "up"
    /\ UNCHANGED <<buf, arrived, backlog, pending, busy, active, handling,
                   running, late>>

\* Mutant: AcceptEx on a copy of the socket that OnDisconnected() does not reset.
PostAcceptOnCopy(b) ==
    \/ listening = "open" /\ SetBuf(b, "posted")
    \/ SetBuf(b, "unposted")

\* NetworkAPI::Accept that succeeds: AcceptEx on what _socket holds.
AcceptEx(b) == sock = "valid" /\ listening = "open" /\ SetBuf(b, "posted")

\* A socket for the peer, then AcceptEx; either may fail.
PostAccept(b) ==
    \/ AcceptEx(b)
    \/ SetBuf(b, "unposted")

\* NetAcceptor::Accepts, one round of its loop.
Accepts(b) ==
    /\ main = "accepts"
    /\ buf[b] = "new"
    /\ PostAccept(b)
    /\ main' = IF \A o \in Buffers \ {b} : buf[o] # "new" THEN "up" ELSE main
    /\ UNCHANGED <<sock, listening, arrived, backlog, pending, busy, active,
                   handling, running, late>>

\* Mutant: Shutdown forgets the listening socket.
DisconnectNothing == listening' = listening /\ UNCHANGED <<buf, backlog>>

\* Disconnect(NET_CTYPE_SHUTDOWN): closesocket on what _socket holds.  The
\* accepts that are posted fail and the peers of the backlog are turned away.
Disconnect ==
    IF sock = "valid" /\ listening = "open"
    THEN /\ listening' = "closed"
         /\ backlog' = 0
         /\ buf' = [b \in Buffers |-> IF buf[b] = "posted" THEN "failed" ELSE buf[b]]
    ELSE UNCHANGED <<listening, backlog, buf>>

\* NetListener::Shutdown ...
ShutdownSocket ==
    /\ main = "up"
    /\ main' = "closing"
    /\ Disconnect
    /\ UNCHANGED <<sock, arrived, pending, busy, active, handling, running, late>>

\* ... and NetConnectionProxy::Shutdown: without connections the workers are
\* stopped at once, otherwise the manager gives out no more connections.
ShutdownProxy ==
    /\ main = "closing"
    /\ main' = "shut"
    /\ running' = (busy # 0)
    /\ active' = (busy = 0)
    /\ UNCHANGED <<buf, sock, listening, arrived, backlog, pending, busy,
                   handling, late>>

-------------------------------------------------------------------------------
(* Peers and the kernel                                                    *)

PeerConnects ==
    /\ listening = "open"
    /\ arrived < MaxPeers
    /\ arrived' = arrived + 1
    /\ backlog' = backlog + 1
    /\ UNCHANGED <<buf, sock, listening, pending, busy, active, handling, main,
                   running, late>>

\* A posted AcceptEx completes with a peer, or fails: the peer was reset before
\* it was accepted, or the network is in trouble.
Complete(b) ==
    /\ buf[b] = "posted"
    /\ \/ backlog > 0 /\ backlog' = backlog - 1 /\ SetBuf(b, "accepted")
       \/ backlog' \in {n \in 0 .. backlog : n + 1 >= backlog} /\ SetBuf(b, "failed")
    /\ UNCHANGED <<sock, listening, arrived, pending, busy, active, handling, main,
                   running, late>>

\* A connection ends, but not one without requests; the worker that frees the
\* last one after Shutdown() stops the workers.
FreeNetCon ==
    /\ busy > Cardinality({b \in Buffers : buf[b] = "unbound"})
    /\ busy' = busy - 1
    /\ running' = (running /\ ~(main = "shut" /\ busy = 1))
    /\ UNCHANGED <<buf, sock, listening, arrived, backlog, pending, active,
                   handling, main, late>>

-------------------------------------------------------------------------------
(* The workers                                                             *)

\* A worker at GetQueuedCompletionStatus.
Takes(w, b, s) == running /\ handling[w] = NoBuffer /\ buf[b] = s

\* NetListener::OnAccept for a peer that gets a connection: AllocNetCon and, in
\* NetAcceptor::OnAccept, CreateIoCompletionPort.  When that fails the
\* connection stays busy, without any request, and the buffer is not posted again.
OnAccept(w, b) ==
    /\ Takes(w, b, "accepted")
    /\ active /\ pending > 0
    /\ pending' = pending - 1
    /\ busy' = busy + 1
    /\ late' = [late EXCEPT ![b] = IF sock = "lost" THEN @ + 1 ELSE @]
    /\ \/ SetBuf(b, "held") /\ handling' = [handling EXCEPT ![w] = b]
       \/ SetBuf(b, "unbound") /\ UNCHANGED handling
    /\ UNCHANGED <<sock, listening, arrived, backlog, active, main, running>>

\* OnAccept for a peer that gets none: nobody closes its socket, and nobody
\* posts the buffer again.
Refuse(w, b) ==
    /\ Takes(w, b, "accepted")
    /\ ~active \/ pending = 0
    /\ SetBuf(b, "refused")
    /\ UNCHANGED <<sock, listening, arrived, backlog, pending, busy, active, handling,
                   main, running, late>>

\* Mutant: the accept is not posted again.
RepostNot(w) ==
    /\ handling[w] # NoBuffer
    /\ handling' = [handling EXCEPT ![w] = NoBuffer]
    /\ UNCHANGED <<buf, sock, listening, arrived, backlog, pending, busy, active,
                   main, running, late>>

\* The end of NetAcceptor::OnAccept, after the connection's OnConnected().
Repost(w) ==
    /\ handling[w] # NoBuffer
    /\ PostAccept(handling[w])
    /\ handling' = [handling EXCEPT ![w] = NoBuffer]
    /\ UNCHANGED <<sock, listening, arrived, backlog, pending, busy, active, main,
                   running, late>>

\* HandleIO for an accept that failed with no bytes: NetSocketBase::OnDisconnected.
OnDisconnected(w, b) ==
    /\ Takes(w, b, "failed")
    /\ sock' = "lost"
    /\ SetBuf(b, "dropped")
    /\ UNCHANGED <<listening, arrived, backlog, pending, busy, active, handling,
                   main, running, late>>

-------------------------------------------------------------------------------
MainStep == Listen \/ (\E b \in Buffers : Accepts(b)) \/ ShutdownSocket \/ ShutdownProxy
KernelStep == PeerConnects \/ \E b \in Buffers : Complete(b)
WorkerStep(w) ==
    \/ Repost(w)
    \/ \E b \in Buffers : OnAccept(w, b) \/ Refuse(w, b) \/ OnDisconnected(w, b)

Next == MainStep \/ KernelStep \/ FreeNetCon \/ \E w \in Workers : WorkerStep(w)

\* The loop of Accepts() ends, the kernel completes accepts while peers wait, and
\* the workers take up what completed.
Fairness ==
    /\ WF_acceptVars(\E b \in Buffers : Accepts(b))
    /\ WF_acceptVars(backlog > 0 /\ \E b \in Buffers : Complete(b))
    /\ \A w \in Workers : WF_acceptVars(WorkerStep(w))

Spec == Init /\ [][Next]_acceptVars
FairSpec == Spec /\ Fairness

-------------------------------------------------------------------------------
(* Properties                                                              *)

\* No buffer is held by two workers, and none is held that no worker holds.
TypeOK ==
    /\ buf \in [Buffers -> {"new", "posted", "accepted", "failed", "held", "unposted",
                            "unbound", "refused", "dropped"}]
    /\ sock \in {"none", "valid", "lost"}
    /\ listening \in {"none", "open", "closed"}
    /\ arrived \in 0 .. MaxPeers /\ backlog \in 0 .. arrived
    /\ pending \in 0 .. Registered /\ busy \in 0 .. (Registered - pending)
    /\ active \in BOOLEAN /\ running \in BOOLEAN
    /\ handling \in [Workers -> Buffers \cup {NoBuffer}]
    /\ main \in {"init", "accepts", "up", "closing", "shut"}
    /\ late \in [Buffers -> Nat]
    /\ \A b \in Buffers : buf[b] = "held" <=> \E w \in Workers : handling[w] = b
    /\ \A v, w \in Workers : handling[v] = handling[w] /\ v # w => handling[v] = NoBuffer

\* One failed accept ends the listener: through each of the other buffers at most
\* one more peer gets a connection, whatever the application and the peers do.
LastAccepts ==
    sock = "lost" =>
        /\ \A b \in Buffers : late[b] <= 1
        /\ \E b \in Buffers : late[b] = 0

\* Shutdown() closes the port - unless an accept had failed before, which took
\* the only handle to the socket away: the port is open until the process ends.
ClosedByShutdown ==
    main \in {"closing", "shut"} /\ listening = "open" =>
        sock = "lost" /\ \E b \in Buffers : buf[b] = "dropped"

\* Nobody will accept the peers of the backlog: an accept has failed, the
\* workers were stopped, or no buffer is left - each went to a peer that was
\* refused or could not be bound to the port, or could not be posted.
Deaf ==
    \/ sock = "lost"
    \/ ~running
    \/ \A b \in Buffers : buf[b] \in {"unposted", "unbound", "refused"}

\* Peers that wait are accepted, unless the listener has gone deaf.
EventuallyAccepted == backlog > 0 ~> (backlog = 0 \/ Deaf)

\* There is no way back: no call of the application, completion or disconnect of a
\* peer makes a deaf listener accept again.
DeafForGood == [][Deaf => Deaf']_acceptVars

===============================================================================

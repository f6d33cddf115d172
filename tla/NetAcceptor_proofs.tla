-------------------------- MODULE NetAcceptor_proofs --------------------------
(***************************************************************************)
(* Proofs about NetAcceptor for any buffers, workers and connections.      *)
(***************************************************************************)
EXTENDS NetAcceptor, FiniteSetTheorems, TLAPS

USE DEF StartsListening, AcceptEx

\* Before Listen() there is no socket and nothing is posted.
Untouched ==
    /\ main = "init" => sock = "none"
    /\ sock = "none" => listening = "none"
    /\ listening = "none" => \A b \in Buffers : buf[b] \in {"new", "unposted"}

\* A buffer through which a peer got a connection after _socket was lost cannot
\* be posted again; nor can the one whose failure cost the listener its _socket.
NotAgain ==
    /\ sock # "lost" => \A b \in Buffers : late[b] = 0 /\ buf[b] # "dropped"
    /\ sock = "lost" =>
        /\ \A b \in Buffers :
            \/ late[b] = 0
            \/ late[b] = 1 /\ buf[b] \in {"held", "unbound", "unposted"}
        /\ \E b \in Buffers : buf[b] = "dropped" /\ late[b] = 0

IInv == TypeOK /\ Untouched /\ NotAgain /\ ClosedByShutdown

-------------------------------------------------------------------------------
(* Types                                                                   *)

LEMMA InitType == ASSUME Init PROVE TypeOK
BY AcceptorAssumption DEF Init, TypeOK

\* The connections that can end are some of those that are busy.
LEMMA FreeNetConFrees == ASSUME TypeOK, FreeNetCon PROVE busy > 0 /\ busy' = busy - 1
<1>1. IsFiniteSet({b \in Buffers : buf[b] = "unbound"})
  BY AcceptorAssumption, FS_Subset
<1>2. Cardinality({b \in Buffers : buf[b] = "unbound"}) \in Nat
  BY <1>1, FS_CardinalityType
<1>3. busy \in Nat
  BY AcceptorAssumption DEF TypeOK
<1> QED BY <1>2, <1>3 DEF FreeNetCon

LEMMA MainType == ASSUME TypeOK, MainStep PROVE TypeOK'
<1> USE AcceptorAssumption DEF TypeOK
<1>1. CASE Listen
  BY <1>1 DEF Listen
<1>2. ASSUME NEW b \in Buffers, Accepts(b) PROVE TypeOK'
  BY <1>2 DEF Accepts, PostAccept, SetBuf
<1>3. CASE ShutdownSocket
  <2>1. CASE sock = "valid" /\ listening = "open"
    BY <1>3, <2>1 DEF ShutdownSocket, Disconnect
  <2>2. CASE ~(sock = "valid" /\ listening = "open")
    BY <1>3, <2>2 DEF ShutdownSocket, Disconnect
  <2> QED BY <2>1, <2>2
<1>4. CASE ShutdownProxy
  BY <1>4 DEF ShutdownProxy
<1> QED BY <1>1, <1>2, <1>3, <1>4 DEF MainStep

LEMMA KernelType == ASSUME TypeOK, KernelStep \/ FreeNetCon PROVE TypeOK'
<1> USE AcceptorAssumption DEF TypeOK
<1>1. CASE PeerConnects
  BY <1>1 DEF PeerConnects
<1>2. ASSUME NEW b \in Buffers, Complete(b) PROVE TypeOK'
  <2>1. backlog' \in 0 .. backlog
    BY <1>2 DEF Complete
  <2>2. backlog' \in 0 .. arrived
    BY <2>1
  <2>3. buf' = [buf EXCEPT ![b] = "accepted"] \/ buf' = [buf EXCEPT ![b] = "failed"]
    BY <1>2 DEF Complete, SetBuf
  <2>4. buf[b] # "held"
    BY <1>2 DEF Complete
  <2>5. \A o \in Buffers : buf'[o] = "held" <=> buf[o] = "held"
    BY <2>3, <2>4
  <2> QED BY <1>2, <2>2, <2>3, <2>5 DEF Complete
<1>3. CASE FreeNetCon
  BY <1>3, FreeNetConFrees DEF FreeNetCon
<1> QED BY <1>1, <1>2, <1>3 DEF KernelStep

LEMMA WorkerType == ASSUME TypeOK, NEW w \in Workers, WorkerStep(w) PROVE TypeOK'
<1> USE AcceptorAssumption DEF TypeOK
<1>1. CASE Repost(w)
  <2>1. handling[w] \in Buffers
    BY <1>1 DEF Repost
  <2> QED BY <1>1, <2>1 DEF Repost, PostAccept, SetBuf
<1>2. ASSUME NEW b \in Buffers, OnAccept(w, b) PROVE TypeOK'
  <2>1. late' \in [Buffers -> Nat]
    BY <1>2 DEF OnAccept
  <2>2. /\ pending' \in 0 .. Registered /\ busy' \in 0 .. (Registered - pending')
    BY <1>2 DEF OnAccept
  <2>3. CASE SetBuf(b, "held") /\ handling' = [handling EXCEPT ![w] = b]
    BY <1>2, <2>1, <2>2, <2>3 DEF OnAccept, Takes, SetBuf
  <2>4. CASE SetBuf(b, "unbound") /\ UNCHANGED handling
    BY <1>2, <2>1, <2>2, <2>4 DEF OnAccept, Takes, SetBuf
  <2> QED BY <1>2, <2>3, <2>4 DEF OnAccept
<1>3. ASSUME NEW b \in Buffers, Refuse(w, b) PROVE TypeOK'
  BY <1>3 DEF Refuse, Takes, SetBuf
<1>4. ASSUME NEW b \in Buffers, OnDisconnected(w, b) PROVE TypeOK'
  BY <1>4 DEF OnDisconnected, Takes, SetBuf
<1> QED BY <1>1, <1>2, <1>3, <1>4 DEF WorkerStep

-------------------------------------------------------------------------------
(* The other parts of the invariant                                        *)

LEMMA MainKeeps ==
    ASSUME IInv, MainStep PROVE Untouched' /\ NotAgain' /\ ClosedByShutdown'
<1> USE DEF IInv, TypeOK, Untouched, NotAgain, ClosedByShutdown
<1>1. CASE Listen
  BY <1>1 DEF Listen
<1>2. ASSUME NEW b \in Buffers, Accepts(b)
      PROVE  Untouched' /\ NotAgain' /\ ClosedByShutdown'
  BY <1>2 DEF Accepts, PostAccept, SetBuf
<1>3. CASE ShutdownSocket
  <2>1. CASE sock = "valid" /\ listening = "open"
    BY <1>3, <2>1 DEF ShutdownSocket, Disconnect
  <2>2. CASE ~(sock = "valid" /\ listening = "open")
    BY <1>3, <2>2 DEF ShutdownSocket, Disconnect
  <2> QED BY <2>1, <2>2
<1>4. CASE ShutdownProxy
  BY <1>4 DEF ShutdownProxy
<1> QED BY <1>1, <1>2, <1>3, <1>4 DEF MainStep

LEMMA KernelKeeps ==
    ASSUME IInv, KernelStep \/ FreeNetCon
    PROVE  Untouched' /\ NotAgain' /\ ClosedByShutdown'
<1> USE DEF IInv, TypeOK, Untouched, NotAgain, ClosedByShutdown
<1>1. CASE PeerConnects \/ FreeNetCon
  BY <1>1 DEF PeerConnects, FreeNetCon
<1>2. ASSUME NEW b \in Buffers, Complete(b)
      PROVE  Untouched' /\ NotAgain' /\ ClosedByShutdown'
  BY <1>2 DEF Complete, SetBuf
<1> QED BY <1>1, <1>2 DEF KernelStep

LEMMA WorkerKeeps ==
    ASSUME IInv, NEW w \in Workers, WorkerStep(w)
    PROVE  Untouched' /\ NotAgain' /\ ClosedByShutdown'
<1> USE DEF IInv, TypeOK, Untouched, NotAgain, ClosedByShutdown
<1>1. CASE Repost(w)
  <2>1. handling[w] \in Buffers /\ buf[handling[w]] = "held"
    BY <1>1 DEF Repost
  <2> QED BY <1>1, <2>1 DEF Repost, PostAccept, SetBuf
<1>2. ASSUME NEW b \in Buffers, OnAccept(w, b)
      PROVE  Untouched' /\ NotAgain' /\ ClosedByShutdown'
  <2>1. /\ buf[b] = "accepted" /\ buf' \in [Buffers -> {buf'[b]} \cup {buf[o] : o \in Buffers}]
        /\ buf'[b] \in {"held", "unbound"}
        /\ \A o \in Buffers \ {b} : buf'[o] = buf[o] /\ late'[o] = late[o]
        /\ late'[b] = IF sock = "lost" THEN late[b] + 1 ELSE late[b]
        /\ UNCHANGED <<sock, listening, main>>
    BY <1>2 DEF OnAccept, Takes, SetBuf
  <2>2. sock = "lost" => late[b] = 0
    BY <2>1
  <2> QED BY <2>1, <2>2
<1>3. ASSUME NEW b \in Buffers, Refuse(w, b)
      PROVE  Untouched' /\ NotAgain' /\ ClosedByShutdown'
  BY <1>3 DEF Refuse, Takes, SetBuf
<1>4. ASSUME NEW b \in Buffers, OnDisconnected(w, b)
      PROVE  Untouched' /\ NotAgain' /\ ClosedByShutdown'
  <2>1. /\ buf[b] = "failed" /\ buf'[b] = "dropped" /\ sock' = "lost"
        /\ \A o \in Buffers \ {b} : buf'[o] = buf[o]
        /\ UNCHANGED <<late, listening, main>>
    BY <1>4 DEF OnDisconnected, Takes, SetBuf
  <2>2. late[b] = 0
    BY <2>1
  <2>3. listening # "none" /\ main # "init"
    BY <2>1
  <2> QED BY <2>1, <2>2, <2>3
<1> QED BY <1>1, <1>2, <1>3, <1>4 DEF WorkerStep

LEMMA Invariant == Spec => []IInv
<1>1. Init => IInv
  BY InitType DEF Init, IInv, Untouched, NotAgain, ClosedByShutdown
<1>2. IInv /\ [Next]_acceptVars => IInv'
  <2>1. CASE UNCHANGED acceptVars
    BY <2>1 DEF acceptVars, IInv, TypeOK, Untouched, NotAgain, ClosedByShutdown
  <2>2. ASSUME IInv, Next PROVE IInv'
    BY <2>2, MainType, KernelType, WorkerType, MainKeeps, KernelKeeps, WorkerKeeps
       DEF Next, IInv
  <2> QED BY <2>1, <2>2
<1> QED BY <1>1, <1>2, PTL DEF Spec

\* The workers run until Shutdown() has come to the connections.
RunsUnlessShut == main # "shut" => running

LEMMA RunsUntilShut == Spec => []RunsUnlessShut
<1>1. Init => RunsUnlessShut
  BY DEF Init, RunsUnlessShut
<1>2. RunsUnlessShut /\ [Next]_acceptVars => RunsUnlessShut'
  <2> SUFFICES ASSUME main # "shut" => running, [Next]_acceptVars, main' # "shut"
               PROVE  running'
    BY DEF RunsUnlessShut
  <2>1. CASE MainStep
    BY <2>1 DEF MainStep, Listen, Accepts, ShutdownSocket, ShutdownProxy
  <2>2. CASE KernelStep \/ FreeNetCon
    BY <2>2 DEF KernelStep, PeerConnects, Complete, FreeNetCon
  <2>3. ASSUME NEW w \in Workers, WorkerStep(w) PROVE running'
    BY <2>3 DEF WorkerStep, Repost, OnAccept, Refuse, OnDisconnected
  <2>4. CASE UNCHANGED acceptVars
    BY <2>4 DEF acceptVars
  <2> QED BY <2>1, <2>2, <2>3, <2>4 DEF Next
<1> QED BY <1>1, <1>2, PTL DEF Spec

-------------------------------------------------------------------------------
(* Theorems                                                                *)

\* A buffer is held by one worker at most, and each held buffer by some worker,
\* so that no accept is dropped between its completion and its being posted again.
THEOREM TypeCorrect == Spec => []TypeOK
<1>1. IInv => TypeOK
  BY DEF IInv
<1> QED BY <1>1, Invariant, PTL

\* After one failed accept each of the other buffers yields one more connection
\* at most, for any number of buffers, workers, peers and connections.
THEOREM FewAcceptsLeft == Spec => []LastAccepts
<1>1. IInv => LastAccepts
  BY DEF IInv, NotAgain, LastAccepts
<1> QED BY <1>1, Invariant, PTL

\* The port stays open after Shutdown() only if a failed accept had taken the
\* listener's handle to it away.
THEOREM PortClosed == Spec => []ClosedByShutdown
<1>1. IInv => ClosedByShutdown
  BY DEF IInv
<1> QED BY <1>1, Invariant, PTL

\* What makes a listener deaf stays: the socket that OnDisconnected() gave up is not
\* made again, stopped workers are not started again, and nobody posts a buffer that
\* could not be posted or whose peer was refused or could not be bound (NetListener
\* and NetAcceptor have no call that would).
THEOREM NoWayBack == Spec => DeafForGood
<1>1. IInv /\ RunsUnlessShut /\ [Next]_acceptVars => (Deaf => Deaf')
  <2> SUFFICES ASSUME IInv, main # "shut" => running, [Next]_acceptVars, Deaf
               PROVE  Deaf'
    BY DEF RunsUnlessShut
  <2>1. CASE sock = "lost"
    <3>1. main # "init"
      BY <2>1 DEF IInv, Untouched
    <3>2. sock' = "lost"
      BY <2>1, <3>1 DEF Next, MainStep, Listen, Accepts, ShutdownSocket, ShutdownProxy,
         KernelStep, PeerConnects, Complete, FreeNetCon, WorkerStep, Repost, OnAccept,
         Refuse, OnDisconnected, acceptVars
    <3> QED BY <3>2 DEF Deaf
  <2>2. CASE ~running
    <3>1. main = "shut"
      BY <2>2
    <3>2. ~running'
      BY <2>2, <3>1 DEF Next, MainStep, Listen, Accepts, ShutdownSocket, ShutdownProxy,
         KernelStep, PeerConnects, Complete, FreeNetCon, WorkerStep, Repost, OnAccept,
         Refuse, OnDisconnected, Takes, acceptVars
    <3> QED BY <3>2 DEF Deaf
  <2>3. CASE \A b \in Buffers : buf[b] \in {"unposted", "unbound", "refused"}
    <3>1. CASE buf' = buf
      BY <2>3, <3>1 DEF Deaf
    <3>2. \A w \in Workers : handling[w] # NoBuffer => buf[handling[w]] = "held"
                                                      /\ handling[w] \in Buffers
      BY DEF IInv, TypeOK
    <3>3. CASE MainStep
      BY <2>3, <3>1, <3>3 DEF MainStep, Listen, Accepts, ShutdownSocket, ShutdownProxy,
         Disconnect, Deaf, IInv, TypeOK
    <3>4. CASE KernelStep \/ FreeNetCon
      BY <2>3, <3>1, <3>4 DEF KernelStep, PeerConnects, Complete, FreeNetCon
    <3>5. ASSUME NEW w \in Workers, WorkerStep(w) PROVE Deaf'
      BY <2>3, <3>2, <3>5 DEF WorkerStep, Repost, OnAccept, Refuse, OnDisconnected, Takes
    <3>6. CASE UNCHANGED acceptVars
      BY <3>1, <3>6 DEF acceptVars
    <3> QED BY <3>3, <3>4, <3>5, <3>6 DEF Next
  <2> QED BY <2>1, <2>2, <2>3 DEF Deaf
<1> QED BY <1>1, Invariant, RunsUntilShut, PTL DEF Spec, DeafForGood

===============================================================================

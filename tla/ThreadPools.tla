------------------------------ MODULE ThreadPools ------------------------------
(***************************************************************************)
(* RefLibCommon/reflib_runable_threads.cpp and what stops its threads.     *)
(* A NetService has two pools of threads: the network threads of its       *)
(* NetConnectionProxy and its own game threads.  NetService::Shutdown,     *)
(* called by the application's thread, closes the connections; the thread  *)
(* that finds the last one gone - a network thread in FreeNetCon, or the   *)
(* application's thread - deactivates and joins the network threads, itself*)
(* perhaps among them, and then deactivates the game threads, for which    *)
(* Shutdown waits.                                                         *)
(*                                                                         *)
(* pc[x] says where a thread is.  Threads run side by side and a step is   *)
(* one access to what they share: _activated, _hThreads, _isClosed, the    *)
(* manager's _isActive and its maps (under _conLock, see NetConnectionMgr).*)
(***************************************************************************)
EXTENDS Naturals, FiniteSets

CONSTANTS NetThreads,    \* RunByThread of the NetConnectionProxy
          GameThreads,   \* RunByThread of the NetService
          Main,          \* the application's thread
          Cons,          \* the connections, all of them registered
          NoCon          \* what a thread serves that is in no handler

ASSUME ThreadPoolsAssumption ==
    /\ NetThreads \cap GameThreads = {}
    /\ Main \notin NetThreads \cup GameThreads
    /\ NoCon \notin Cons
    /\ GameThreads = {} => NetThreads = {}   \* both pools have `concurrency'

Pools == {"net", "game"}
ThreadsOf(p) == IF p = "net" THEN NetThreads ELSE GameThreads
Joiners == NetThreads \cup {Main}
Threads == NetThreads \cup GameThreads \cup {Main}

VARIABLES
    activated,   \* activated[p]: _activated of the pool
    hThreads,    \* hThreads[p]: _hThreads, a handle is its thread
    closedH,     \* the handles that were closed
    pc,          \* where each thread is
    joining,     \* joining[x]: the pool whose Join() x is in
    todo,        \* todo[x]: handles x has not come to in this round of Join()
    left,        \* left[x]: threads_left in Join()
    opened,      \* StartListen() or InitClient() was called
    isClosed,    \* NetConnectionProxy::_isClosed
    isActive,    \* NetConnectionMgr::_isActive
    phase,       \* phase[c]: the map that c is in: "pending", "busy", "free"
    sock,        \* sock[c]: _socket is INVALID ("none"), "open" or "closed"
    requests,    \* requests[c]: "recv", "send": the WSARecv, WSASend outstanding
    serving,     \* serving[t]: the connection whose handler t is in
    newSince,    \* history: connections that became busy since IsEmpty held
    gaveUp,      \* history: threads whose handle Join() closed on a time-out
    waitFailed,  \* history: WaitForSingleObject was given a closed handle
    fault        \* history: _hThreads was swapped under another's iteration

conVars == <<phase, sock, requests, serving, newSince>>
joinVars == <<hThreads, closedH, joining, todo, left, gaveUp, waitFailed, fault>>
flagVars == <<activated, opened, isClosed, isActive>>
poolVars == <<conVars, joinVars, flagVars, pc>>

Goto(x, l) == pc' = [pc EXCEPT ![x] = l]
At(x, l) == ~fault /\ pc[x] = l

-------------------------------------------------------------------------------
\* Both pools have called CreateThreads: the threads exist, suspended.
Init ==
    /\ activated = [p \in Pools |-> FALSE]
    /\ hThreads = [p \in Pools |-> ThreadsOf(p)]
    /\ closedH = {}
    /\ pc = [x \in Threads |-> IF x = Main THEN "start" ELSE "suspended"]
    /\ joining = [x \in Joiners |-> "net"]
    /\ todo = [x \in Joiners |-> {}]
    /\ left = [x \in Joiners |-> {}]
    /\ opened = FALSE
    /\ isClosed = FALSE
    /\ isActive = TRUE
    /\ phase = [c \in Cons |-> "pending"]
    /\ sock = [c \in Cons |-> "none"]
    /\ requests = [c \in Cons |-> {}]
    /\ serving = [t \in NetThreads |-> NoCon]
    /\ newSince = {}
    /\ gaveUp = {}
    /\ waitFailed = FALSE
    /\ fault = FALSE

\* Activate(), then Resume().
Activate(p, from, to) ==
    /\ At(Main, from)
    /\ activated' = [activated EXCEPT ![p] = TRUE]
    /\ opened' = (p = "game")
    /\ pc' = [x \in Threads |-> IF x \in ThreadsOf(p) THEN "test"
                                ELSE IF x = Main THEN to ELSE pc[x]]
    /\ UNCHANGED <<conVars, joinVars, isClosed, isActive>>

\* NetWorker::Initialize starts the network threads, StartListen or InitClient the
\* game threads.
ActivateNet == Activate("net", "start", "netup")
ActivateGame == Activate("game", "netup", "running")
ActivatePools == ActivateNet \/ ActivateGame

-------------------------------------------------------------------------------
(* RunByThread() and what a network thread does in Run()                   *)

\* while (IsActive())
TestActive(p, t) ==
    /\ At(t, "test")
    /\ Goto(t, IF activated[p] THEN "run" ELSE "ended")
    /\ UNCHANGED <<conVars, joinVars, flagVars>>

\* Run() that ends with a time-out, or that handles what is not modelled here.
RunOther(t) ==
    /\ At(t, "run")
    /\ Goto(t, "test")
    /\ UNCHANGED <<conVars, joinVars, flagVars>>

\* NetListener::OnAccept: AllocNetCon() tests _isActive before the lock ...
CheckActive(t) ==
    /\ At(t, "run")
    /\ opened /\ isActive
    /\ Goto(t, "alloc")
    /\ UNCHANGED <<conVars, joinVars, flagVars>>

\* Mutant: a connection that was not found is initialised all the same.
AllocNetConUnchecked(t) ==
    /\ At(t, "alloc")
    /\ \A c \in Cons : phase[c] # "pending"
    /\ Goto(t, "init")
    /\ UNCHANGED <<conVars, joinVars, flagVars>>

\* ... and takes a pending connection, if there is one, under the lock.
AllocNetCon(t) ==
    /\ At(t, "alloc")
    /\ \/ \E c \in Cons :
            /\ phase[c] = "pending"
            /\ phase' = [phase EXCEPT ![c] = "busy"]
            /\ serving' = [serving EXCEPT ![t] = c]
            /\ newSince' = newSince \cup {c}
            /\ Goto(t, "init")
       \/ /\ \A c \in Cons : phase[c] # "pending"
          /\ Goto(t, "test")
          /\ UNCHANGED <<phase, serving, newSince>>
    /\ UNCHANGED <<sock, requests, joinVars, flagVars>>

\* NetConnection::Initialize: SetSocket.
SetSocket(t) ==
    /\ At(t, "init")
    /\ sock' = [sock EXCEPT ![serving[t]] = "open"]
    /\ Goto(t, "post")
    /\ UNCHANGED <<phase, requests, serving, newSince, joinVars, flagVars>>

\* A WSARecv completed: OnRecv handles the data and will post the next one.
OnRecv(t, c) ==
    /\ At(t, "run")
    /\ "recv" \in requests[c]
    /\ requests' = [requests EXCEPT ![c] = @ \ {"recv"}]
    /\ serving' = [serving EXCEPT ![t] = c]
    /\ Goto(t, "post")
    /\ UNCHANGED <<phase, sock, newSince, joinVars, flagVars>>

\* A WSASend completed.
OnSent(t, c) ==
    /\ At(t, "run")
    /\ "send" \in requests[c]
    /\ requests' = [requests EXCEPT ![c] = @ \ {"send"}]
    /\ Goto(t, "test")
    /\ UNCHANGED <<phase, sock, serving, newSince, joinVars, flagVars>>

\* OnCompletionFailure, for a WSARecv or WSASend that failed with some bytes
\* transferred: nothing is posted in its place.
OnCompletionFailure(t, c) ==
    /\ At(t, "run")
    /\ \E failed \in requests[c] :
          requests' = [requests EXCEPT ![c] = @ \ {failed}]
    /\ Goto(t, "test")
    /\ UNCHANGED <<phase, sock, serving, newSince, joinVars, flagVars>>

\* PostRecv of OnConnected or OnRecv; a handler may also have sent something.
\* On a socket that is closed or gone the WSARecv fails at once, and so does
\* the DisconnectEx that follows: nothing is outstanding then.
PostRecv(t) ==
    LET c == serving[t]
    IN  /\ At(t, "post")
        /\ \E posted \in {{"recv"}, {"recv", "send"}} :
              requests' = [requests EXCEPT ![c] =
                              IF sock[c] = "open" THEN @ \cup posted ELSE @]
        /\ serving' = [serving EXCEPT ![t] = NoCon]
        /\ Goto(t, "test")
        /\ UNCHANGED <<phase, sock, newSince, joinVars, flagVars>>

\* A request of c failed: NetConnection::OnDisconnected up to FreeNetCon, which
\* finds the connection in the busy map the first time.
OnDisconnected(t, c) ==
    /\ At(t, "run")
    /\ \E failed \in requests[c] :
          requests' = [requests EXCEPT ![c] = @ \ {failed}]
    /\ sock' = [sock EXCEPT ![c] = "none"]
    /\ phase' = [phase EXCEPT ![c] = "free"]
    /\ Goto(t, "freed")
    /\ UNCHANGED <<serving, newSince, joinVars, flagVars>>

\* Mutant: FreeNetCon leaves the end of the threads to Shutdown().
TestClosedNot(t) ==
    /\ At(t, "freed")
    /\ Goto(t, "test")
    /\ UNCHANGED <<conVars, joinVars, flagVars>>

\* NetConnectionProxy::FreeNetCon, after _conMgr->FreeNetCon: if (_isClosed
TestClosed(t) ==
    /\ At(t, "freed")
    /\ Goto(t, IF isClosed THEN "empty" ELSE "test")
    /\ UNCHANGED <<conVars, joinVars, flagVars>>

\* Mutant: IsEmpty() without a look at the connections.
AlwaysEmpty == TRUE

IsEmpty == \A c \in Cons : phase[c] # "busy"

\* ... && _conMgr->IsEmpty()), and the same test in Shutdown().
TestEmpty(x) ==
    /\ At(x, "empty")
    /\ IF IsEmpty
       THEN Goto(x, "term") /\ newSince' = {}
       ELSE Goto(x, IF x = Main THEN "flag" ELSE "test") /\ UNCHANGED newSince
    /\ UNCHANGED <<phase, sock, requests, serving, joinVars, flagVars>>

-------------------------------------------------------------------------------
(* NetConnectionProxy::OnTerminated: Deactivate(), Join()                  *)

EnterJoin(x, p) == Goto(x, "begin") /\ joining' = [joining EXCEPT ![x] = p]

Deactivate(x) ==
    /\ At(x, "term")
    /\ activated' = [activated EXCEPT !["net"] = FALSE]
    /\ EnterJoin(x, "net")
    /\ UNCHANGED <<conVars, hThreads, closedH, todo, left, gaveUp, waitFailed,
                   fault, opened, isClosed, isActive>>

\* while (!_hThreads.empty()) with a new threads_left.
JoinRound(x) ==
    /\ At(x, "begin")
    /\ todo' = [todo EXCEPT ![x] = hThreads[joining[x]]]
    /\ left' = [left EXCEPT ![x] = {}]
    /\ Goto(x, IF hThreads[joining[x]] = {} THEN "joined" ELSE "wait")
    /\ UNCHANGED <<conVars, hThreads, closedH, joining, gaveUp, waitFailed,
                   fault, flagVars>>

\* Mutant: a thread that timed out is not waited for again.
KeepNone(x, h) == left[x]

\* threads_left.insert(*cur_thread)
Keep(x, h) == left[x] \cup {h}

\* WaitForSingleObject: the thread has ended, or one second has passed, or the
\* handle is no longer valid.
JoinWait(x) ==
    /\ At(x, "wait")
    /\ \E h \in todo[x] :
        /\ todo' = [todo EXCEPT ![x] = @ \ {h}]
        /\ waitFailed' = (waitFailed \/ h \in closedH)
        /\ IF h \notin closedH /\ pc[h] # "ended" /\ activated[joining[x]]
           THEN /\ left' = [left EXCEPT ![x] = Keep(x, h)]
                /\ UNCHANGED <<closedH, gaveUp>>
           ELSE /\ closedH' = closedH \cup {h}
                /\ gaveUp' = IF h \notin closedH /\ pc[h] # "ended"
                             THEN gaveUp \cup {h} ELSE gaveUp
                /\ UNCHANGED left
    /\ UNCHANGED <<conVars, hThreads, joining, fault, flagVars, pc>>

\* std::swap(threads_left, _hThreads); what was in _hThreads is destroyed, with
\* the iterators of any other thread that is in the loop.
JoinSwap(x) ==
    /\ At(x, "wait")
    /\ todo[x] = {}
    /\ hThreads' = [hThreads EXCEPT ![joining[x]] = left[x]]
    /\ fault' = \E y \in Joiners \ {x} : pc[y] = "wait" /\ joining[y] = joining[x]
    /\ Goto(x, "begin")
    /\ UNCHANGED <<conVars, closedH, joining, todo, left, gaveUp, waitFailed,
                   flagVars>>

\* OnDeactivated(): that of the network threads is NetService::OnTerminated,
\* which deactivates the game threads.  A network thread goes back to the loop
\* of RunByThread; the application's thread goes on to the Join() of Shutdown.
OnDeactivated(x) ==
    /\ At(x, "joined")
    /\ IF joining[x] = "net"
       THEN /\ activated' = [activated EXCEPT !["game"] = FALSE]
            /\ IF x = Main
               THEN EnterJoin(x, "game")
               ELSE Goto(x, "test") /\ UNCHANGED joining
       ELSE /\ Goto(x, "returned")
            /\ UNCHANGED <<activated, joining>>
    /\ UNCHANGED <<conVars, hThreads, closedH, todo, left, gaveUp, waitFailed,
                   fault, opened, isClosed, isActive>>

-------------------------------------------------------------------------------
(* The application's thread                                                *)

\* NetConnector::Connect: the connection has a socket and a first request.
Connect(c) ==
    /\ At(Main, "running")
    /\ phase[c] = "pending"
    /\ phase' = [phase EXCEPT ![c] = "busy"]
    /\ sock' = [sock EXCEPT ![c] = "open"]
    /\ requests' = [requests EXCEPT ![c] = {"recv"}]
    /\ newSince' = newSince \cup {c}
    /\ UNCHANGED <<serving, joinVars, flagVars, pc>>

\* NetService::Shutdown -> NetConnectionProxy::Shutdown; a server may not have
\* started to listen.
Shutdown ==
    /\ At(Main, "netup") \/ At(Main, "running")
    /\ isClosed' = TRUE
    /\ Goto(Main, "empty")
    /\ UNCHANGED <<conVars, joinVars, activated, opened, isActive>>

\* NetConnectionMgr::Shutdown, before the lock.
ShutdownFlag ==
    /\ At(Main, "flag")
    /\ isActive' = FALSE
    /\ Goto(Main, "sweep")
    /\ UNCHANGED <<conVars, joinVars, activated, opened, isClosed>>

\* NetConnectionMgr::Shutdown, under the lock: Disconnect closes the sockets
\* of the busy connections; then NetService::Shutdown joins its own threads.
ShutdownSweep ==
    /\ At(Main, "sweep")
    /\ sock' = [c \in Cons |-> IF phase[c] = "busy" /\ sock[c] = "open"
                               THEN "closed" ELSE sock[c]]
    /\ EnterJoin(Main, "game")
    /\ UNCHANGED <<phase, requests, serving, newSince, hThreads, closedH, todo,
                   left, gaveUp, waitFailed, fault, flagVars>>

-------------------------------------------------------------------------------
NetStep(t) ==
    \/ TestActive("net", t) \/ RunOther(t) \/ CheckActive(t) \/ AllocNetCon(t)
    \/ SetSocket(t) \/ PostRecv(t) \/ TestClosed(t)
    \/ \E c \in Cons : \/ OnRecv(t, c) \/ OnSent(t, c)
                      \/ OnCompletionFailure(t, c) \/ OnDisconnected(t, c)

GameStep(t) == TestActive("game", t) \/ RunOther(t)

JoinerStep(x) ==
    \/ TestEmpty(x) \/ Deactivate(x) \/ JoinRound(x) \/ JoinWait(x)
    \/ JoinSwap(x) \/ OnDeactivated(x)

MainStep ==
    \/ ActivatePools \/ Shutdown \/ ShutdownFlag \/ ShutdownSweep
    \/ \E c \in Cons : Connect(c)

Next ==
    \/ \E t \in NetThreads : NetStep(t)
    \/ \E t \in GameThreads : GameStep(t)
    \/ \E x \in Joiners : JoinerStep(x)
    \/ MainStep

\* A thread that is not waiting for the port goes on; one that is returns in
\* the end; and a request on a socket that is closed completes, with an error,
\* which the port gives to some thread rather than to let all time out for ever.
Fairness ==
    /\ \A t \in NetThreads :
        WF_poolVars(\/ TestActive("net", t) \/ RunOther(t) \/ AllocNetCon(t)
                    \/ SetSocket(t) \/ PostRecv(t) \/ TestClosed(t))
    /\ \A t \in GameThreads : WF_poolVars(GameStep(t))
    /\ \A x \in Joiners : WF_poolVars(JoinerStep(x))
    /\ WF_poolVars(ShutdownFlag \/ ShutdownSweep)
    /\ \A c \in Cons :
        SF_poolVars(\E t \in NetThreads : sock[c] = "closed" /\ OnDisconnected(t, c))

Spec == Init /\ [][Next]_poolVars
FairSpec == Spec /\ Fairness

-------------------------------------------------------------------------------
(* Properties                                                              *)

Labels == {"suspended", "start", "netup", "running", "test", "run", "alloc",
           "init", "post", "freed", "empty", "term", "begin", "wait", "joined",
           "flag", "sweep", "ended", "returned"}

\* Handles are those of threads; a thread serves a connection just while it is
\* in a handler that will post a request for it.
TypeOK ==
    /\ activated \in [Pools -> BOOLEAN]
    /\ hThreads \in [Pools -> SUBSET Threads]
    /\ closedH \subseteq Threads
    /\ pc \in [Threads -> Labels]
    /\ joining \in [Joiners -> Pools]
    /\ todo \in [Joiners -> SUBSET Threads]
    /\ left \in [Joiners -> SUBSET Threads]
    /\ opened \in BOOLEAN /\ isClosed \in BOOLEAN /\ isActive \in BOOLEAN
    /\ phase \in [Cons -> {"pending", "busy", "free"}]
    /\ sock \in [Cons -> {"none", "open", "closed"}]
    /\ requests \in [Cons -> SUBSET {"recv", "send"}]
    /\ serving \in [NetThreads -> Cons \cup {NoCon}]
    /\ \A t \in NetThreads : serving[t] # NoCon <=> pc[t] \in {"init", "post"}
    /\ newSince \subseteq Cons
    /\ gaveUp \subseteq Threads
    /\ waitFailed \in BOOLEAN /\ fault \in BOOLEAN

Started == pc[Main] # "start"
BusyCons == {c \in Cons : phase[c] = "busy"}

\* The network threads are stopped only when no connection needs them: those
\* that are busy when they are told to stop became busy after IsEmpty() held
\* for the thread that stops them.
StopsOnlyWhenEmpty ==
    Started /\ ~activated["net"] => BusyCons \subseteq newSince

Left(t) == pc[t] = "ended" \/ t \in gaveUp

\* The game threads, which handle the packets of the last connections, are told
\* to stop only after each network thread has ended or Join() has given it up,
\* and Shutdown() returns only after each game thread has.
LeftInOrder ==
    /\ pc[Main] = "returned" => \A t \in NetThreads \cup GameThreads : Left(t)
    /\ opened /\ ~activated["game"] => \A t \in NetThreads : Left(t)

\* A connection that no request and no thread is left to free: Shutdown() did
\* not see it, or closed its socket while a handler was between two requests, or
\* its last request failed part-way.
Stranded ==
    /\ pc[Main] \in {"begin", "wait"}
    /\ \E c \in BusyCons :
        \/ sock[c] = "open"
        \/ sock[c] = "closed" /\ requests[c] = {}
              /\ \A t \in NetThreads : serving[t] # c

\* Shutdown() returns: whoever frees the last connection, or Shutdown() itself,
\* notices and stops the threads - unless a connection was left stranded or two
\* threads were in Join() at once.
ShutdownReturns == isClosed ~> (pc[Main] = "returned" \/ fault \/ Stranded)

\* Comment in Join(): a wait that neither succeeds nor times out "shouldn't
\* happen" - each handle is waited for and closed by one thread, once.
NeverWaitsOnClosedHandle == ~waitFailed

\* x is in the loop of Join() over the handles of p.
InLoop(x, p) == pc[x] = "wait" /\ joining[x] = p

\* Such a wait takes two threads that join the network threads at once: of the
\* game threads each handle is waited for by Shutdown() alone.
FailsOnlyInCompany ==
    [][waitFailed' => waitFailed \/ \E x, y \in Joiners :
                                       x # y /\ InLoop(x, "net") /\ InLoop(y, "net")]_poolVars

\* A busy connection, whose end somebody will see, or a thread that is about to look
\* at _isClosed and IsEmpty(), or has found nothing busy.
Watched == BusyCons # {} \/ \E x \in Joiners : pc[x] \in {"freed", "empty", "term"}

\* Somebody is in the Join() of the network threads.
Joined == \E x \in Joiners : joining[x] = "net" /\ pc[x] \in {"begin", "wait", "joined"}

\* Once Shutdown() has been called there is somebody to stop the network threads
\* until they are told to, and then somebody to stop the game threads.
StopIsHandedOn ==
    isClosed =>
        /\ activated["net"] => Watched
        /\ ~activated["net"] /\ activated["game"] => Joined

===============================================================================

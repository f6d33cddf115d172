-------------------------- MODULE ThreadPools_proofs --------------------------
(***************************************************************************)
(* Proofs about ThreadPools for any threads and connections.               *)
(***************************************************************************)
EXTENDS ThreadPools, TLAPS

USE DEF ActivateNet, ActivateGame

-------------------------------------------------------------------------------
(* The inductive invariant                                                 *)

\* Before the first listen or connect nothing has come to the network threads.
Early ==
    ~opened =>
        /\ \A t \in NetThreads : pc[t] \in {"suspended", "test", "run", "ended"}
        /\ \A g \in GameThreads : pc[g] = "suspended"
        /\ \A c \in Cons : phase[c] = "pending" /\ requests[c] = {}
        /\ pc[Main] \notin {"running", "flag", "sweep"}

\* While the pools are started nobody has left.
Starting ==
    pc[Main] \in {"start", "netup"} =>
        /\ ~opened /\ ~activated["game"] /\ gaveUp = {}
        /\ pc[Main] = "start" => \A t \in NetThreads : pc[t] = "suspended"

\* A closed handle, and a thread without a handle, is that of one that left.
HandlesKept ==
    /\ closedH \subseteq NetThreads \cup GameThreads
    /\ \A h \in closedH : Left(h)
    /\ \A p \in Pools : \A t \in ThreadsOf(p) : t \in hThreads[p] \/ Left(t)
    /\ \A p \in Pools : hThreads[p] \subseteq ThreadsOf(p)

\* Join() has yet to come to each thread that did not leave, or will do so again.
JoinKeeps ==
    \A x \in Joiners :
        /\ pc[x] = "wait" =>
            /\ todo[x] \cup left[x] \subseteq ThreadsOf(joining[x])
            /\ \A t \in ThreadsOf(joining[x]) : t \in todo[x] \cup left[x] \/ Left(t)
        /\ pc[x] = "joined" => \A t \in ThreadsOf(joining[x]) : Left(t)

\* A game thread leaves only once it is told to; then the network threads left.
GameLast ==
    /\ opened /\ (\E g \in GameThreads : Left(g)) => ~activated["game"]
    /\ opened /\ ~activated["game"] => \A t \in NetThreads : Left(t)
    /\ ~opened /\ joining[Main] = "game" => \A t \in NetThreads : Left(t)
    /\ pc[Main] = "returned" => joining[Main] = "game" /\ \A g \in GameThreads : Left(g)

\* Whoever is about to stop the network threads has seen no busy connection.
SeenEmpty ==
    (\E x \in Joiners : pc[x] = "term") \/ (Started /\ ~activated["net"]) =>
        BusyCons \subseteq newSince

IInv == TypeOK /\ Early /\ Starting /\ HandlesKept /\ JoinKeeps /\ GameLast /\ SeenEmpty

\* Only the application's thread joins the game threads.  As long as no iterator was
\* destroyed, a handle that is closed and yet in _hThreads, or before or behind
\* somebody in the loop of Join(), was closed by somebody else who is in that loop.
ClosedInCompany ==
    /\ \A t \in NetThreads : joining[t] = "net"
    /\ ~fault =>
        /\ \A p \in Pools : \A h \in hThreads[p] \cap closedH :
               \E y \in Joiners : InLoop(y, p)
        /\ \A x \in Joiners : pc[x] = "wait" =>
               /\ todo[x] \cap left[x] = {}
               /\ \A h \in (todo[x] \cup left[x]) \cap closedH :
                      \E y \in Joiners \ {x} : InLoop(y, joining[x])

-------------------------------------------------------------------------------
(* The threads                                                             *)

\* What threads there are, and that each is of one kind.
LEMMA Kinds ==
    /\ NetThreads \subseteq Threads /\ GameThreads \subseteq Threads
    /\ Main \in Threads /\ Main \in Joiners /\ Joiners \subseteq Threads
    /\ NetThreads \subseteq Joiners /\ Main \notin NetThreads /\ Main \notin GameThreads
    /\ NetThreads \cap GameThreads = {}
    /\ ThreadsOf("net") = NetThreads /\ ThreadsOf("game") = GameThreads
    /\ \A p \in Pools : ThreadsOf(p) \subseteq Threads
    /\ "net" \in Pools /\ "game" \in Pools
BY ThreadPoolsAssumption DEF Threads, Joiners, ThreadsOf, Pools

-------------------------------------------------------------------------------
(* Types                                                                   *)

LEMMA InitType == ASSUME Init PROVE TypeOK
BY Kinds, ThreadPoolsAssumption DEF Init, TypeOK, Labels, Pools, ThreadsOf, Threads

LEMMA NetType == ASSUME TypeOK, NEW t \in NetThreads, NetStep(t) PROVE TypeOK'
<1> USE Kinds DEF Goto, At
<1>1. CASE TestActive("net", t)
  BY <1>1, ThreadPoolsAssumption DEF TypeOK, TestActive, conVars, joinVars, flagVars, Labels
<1>2. CASE RunOther(t)
  BY <1>2, ThreadPoolsAssumption DEF TypeOK, RunOther, conVars, joinVars, flagVars, Labels
<1>3. CASE CheckActive(t)
  BY <1>3, ThreadPoolsAssumption DEF TypeOK, CheckActive, conVars, joinVars, flagVars, Labels
<1>4. CASE AllocNetCon(t)
  BY <1>4, ThreadPoolsAssumption DEF TypeOK, AllocNetCon, conVars, joinVars, flagVars, Labels
<1>5. CASE SetSocket(t)
  BY <1>5, ThreadPoolsAssumption DEF TypeOK, SetSocket, conVars, joinVars, flagVars, Labels
<1>6. CASE PostRecv(t)
  BY <1>6, ThreadPoolsAssumption DEF TypeOK, PostRecv, conVars, joinVars, flagVars, Labels
<1>7. CASE TestClosed(t)
  BY <1>7, ThreadPoolsAssumption DEF TypeOK, TestClosed, conVars, joinVars, flagVars, Labels
<1>8. ASSUME NEW c \in Cons, OnRecv(t, c) PROVE TypeOK'
  BY <1>8, ThreadPoolsAssumption DEF TypeOK, OnRecv, joinVars, flagVars, Labels
<1>9. ASSUME NEW c \in Cons, OnSent(t, c) PROVE TypeOK'
  BY <1>9, ThreadPoolsAssumption DEF TypeOK, OnSent, joinVars, flagVars, Labels
<1>10. ASSUME NEW c \in Cons, OnDisconnected(t, c) PROVE TypeOK'
  BY <1>10, ThreadPoolsAssumption DEF TypeOK, OnDisconnected, joinVars, flagVars, Labels
<1>11. ASSUME NEW c \in Cons, OnCompletionFailure(t, c) PROVE TypeOK'
  BY <1>11, ThreadPoolsAssumption DEF TypeOK, OnCompletionFailure, joinVars, flagVars, Labels
<1> QED BY <1>1, <1>2, <1>3, <1>4, <1>5, <1>6, <1>7, <1>8, <1>9, <1>10, <1>11 DEF NetStep

LEMMA GameType == ASSUME TypeOK, NEW t \in GameThreads, GameStep(t) PROVE TypeOK'
BY Kinds DEF TypeOK, GameStep, TestActive, RunOther, conVars, joinVars, flagVars,
             Goto, At, Labels

LEMMA JoinerType == ASSUME TypeOK, NEW x \in Joiners, JoinerStep(x) PROVE TypeOK'
<1> USE Kinds DEF Goto, At, EnterJoin
<1>1. CASE TestEmpty(x)
  BY <1>1 DEF TypeOK, TestEmpty, conVars, joinVars, flagVars, Labels
<1>2. CASE Deactivate(x)
  BY <1>2 DEF TypeOK, Deactivate, conVars, joinVars, flagVars, Labels
<1>3. CASE JoinRound(x)
  BY <1>3 DEF TypeOK, JoinRound, conVars, joinVars, flagVars, Labels
<1>4. CASE JoinWait(x)
  BY <1>4 DEF TypeOK, JoinWait, conVars, joinVars, flagVars, Labels, Keep
<1>5. CASE JoinSwap(x)
  BY <1>5 DEF TypeOK, JoinSwap, conVars, joinVars, flagVars, Labels
<1>6. CASE OnDeactivated(x)
  <2>1. CASE joining[x] # "net"
    BY <1>6, <2>1 DEF TypeOK, OnDeactivated, conVars, Labels
  <2>2. CASE joining[x] = "net" /\ x = Main
    <3>1. /\ joining' = [joining EXCEPT ![Main] = "game"]
          /\ activated' = [activated EXCEPT !["game"] = FALSE]
          /\ pc' = [pc EXCEPT ![Main] = "begin"]
          /\ UNCHANGED <<phase, sock, requests, serving, newSince, hThreads,
                         closedH, todo, left, gaveUp, waitFailed, fault, opened,
                         isClosed, isActive>>
      BY <1>6, <2>2 DEF OnDeactivated, conVars
    <3> QED BY <3>1 DEF TypeOK, Labels
  <2>3. CASE joining[x] = "net" /\ x # Main
    BY <1>6, <2>3 DEF TypeOK, OnDeactivated, conVars, Labels
  <2> QED BY <2>1, <2>2, <2>3
<1> QED BY <1>1, <1>2, <1>3, <1>4, <1>5, <1>6 DEF JoinerStep

LEMMA MainType == ASSUME TypeOK, Starting, MainStep PROVE TypeOK'
<1> USE Kinds DEF Goto, At, EnterJoin
<1>1. CASE ActivatePools
  <2>1. CASE Activate("net", "start", "netup")
    BY <1>1, <2>1 DEF TypeOK, Starting, Activate, conVars, joinVars, Labels
  <2>2. CASE Activate("game", "netup", "running")
    BY <1>1, <2>2 DEF TypeOK, Activate, conVars, joinVars, Labels
  <2> QED BY <1>1, <2>1, <2>2 DEF ActivatePools
<1>2. CASE Shutdown
  BY <1>2 DEF TypeOK, Shutdown, conVars, joinVars, Labels
<1>5. CASE ShutdownFlag
  BY <1>5 DEF TypeOK, ShutdownFlag, conVars, joinVars, Labels
<1>3. CASE ShutdownSweep
  BY <1>3 DEF TypeOK, ShutdownSweep, flagVars, Labels
<1>4. ASSUME NEW c \in Cons, Connect(c) PROVE TypeOK'
  BY <1>4 DEF TypeOK, Connect, joinVars, flagVars, Labels
<1> QED BY <1>1, <1>2, <1>3, <1>4, <1>5 DEF MainStep

LEMMA NextType == ASSUME TypeOK, Starting, [Next]_poolVars PROVE TypeOK'
<1>1. CASE UNCHANGED poolVars
  BY <1>1 DEF TypeOK, poolVars, conVars, joinVars, flagVars
<1> QED BY <1>1, NetType, GameType, JoinerType, MainType DEF Next

-------------------------------------------------------------------------------
(* What each kind of step leaves alone                                     *)

\* At a step that is x's, from a place where x has not left.
Moves(x) == pc[x] # "ended" /\ \E l \in Labels : pc' = [pc EXCEPT ![x] = l]

LEMMA NetFrame ==
    ASSUME TypeOK, NEW t \in NetThreads, NetStep(t)
    PROVE  /\ Moves(t) /\ UNCHANGED <<joinVars, flagVars>>
           /\ pc'[t] \notin {"term", "wait", "joined"}
<1> USE Kinds DEF Goto, At, Moves, Labels, TypeOK
<1>1. CASE TestActive("net", t) \/ RunOther(t) \/ CheckActive(t) \/ AllocNetCon(t)
  BY <1>1 DEF TestActive, RunOther, CheckActive, AllocNetCon
<1>2. CASE SetSocket(t) \/ PostRecv(t) \/ TestClosed(t)
  BY <1>2 DEF SetSocket, PostRecv, TestClosed
<1>3. ASSUME NEW c \in Cons,
             OnRecv(t, c) \/ OnSent(t, c) \/ OnCompletionFailure(t, c) \/ OnDisconnected(t, c)
      PROVE  /\ Moves(t) /\ UNCHANGED <<joinVars, flagVars>>
             /\ pc'[t] \notin {"term", "wait", "joined"}
  BY <1>3 DEF OnRecv, OnSent, OnCompletionFailure, OnDisconnected
<1> QED BY <1>1, <1>2, <1>3 DEF NetStep

LEMMA GameFrame ==
    ASSUME TypeOK, NEW t \in GameThreads, GameStep(t)
    PROVE  Moves(t) /\ UNCHANGED <<conVars, joinVars, flagVars>>
BY DEF GameStep, TestActive, RunOther, Goto, At, Moves, Labels

LEMMA JoinerFrame ==
    ASSUME TypeOK, NEW x \in Joiners, JoinerStep(x)
    PROVE  /\ Moves(x) /\ opened' = opened
           /\ pc[x] \in {"empty", "term", "begin", "wait", "joined"}
           /\ \A y \in Joiners \ {x} :
                joining'[y] = joining[y] /\ todo'[y] = todo[y] /\ left'[y] = left[y]
           /\ UNCHANGED phase /\ UNCHANGED requests
<1> USE Kinds DEF Goto, At, Moves, Labels, EnterJoin, TypeOK
<1>1. CASE TestEmpty(x)
  BY <1>1 DEF TestEmpty, joinVars, flagVars
<1>2. CASE Deactivate(x)
  BY <1>2 DEF Deactivate, conVars
<1>3. CASE JoinRound(x)
  BY <1>3 DEF JoinRound, conVars, flagVars
<1>4. CASE JoinWait(x)
  <2>1. pc' = [pc EXCEPT ![x] = "wait"]
    BY <1>4 DEF JoinWait
  <2>2. /\ \A y \in Joiners \ {x} :
             joining'[y] = joining[y] /\ todo'[y] = todo[y] /\ left'[y] = left[y]
        /\ UNCHANGED <<opened, phase, requests>> /\ pc[x] = "wait"
    BY <1>4 DEF JoinWait, conVars, flagVars
  <2> QED BY <2>1, <2>2
<1>5. CASE JoinSwap(x)
  BY <1>5 DEF JoinSwap, conVars, flagVars
<1>6. CASE OnDeactivated(x)
  BY <1>6 DEF OnDeactivated, conVars
<1> QED BY <1>1, <1>2, <1>3, <1>4, <1>5, <1>6 DEF JoinerStep

\* The steps of the application's thread but for those that start the pools.
LEMMA MainFrame ==
    ASSUME TypeOK, MainStep, ~ActivatePools
    PROVE  /\ Moves(Main) /\ opened' = opened
           /\ pc[Main] \in {"netup", "running", "flag", "sweep"}
           /\ pc'[Main] \in {"running", "empty", "sweep", "begin"}
           /\ UNCHANGED <<activated, hThreads, closedH, todo, left, gaveUp>>
           /\ \A y \in NetThreads : joining'[y] = joining[y]
<1> USE Kinds DEF Goto, At, Moves, Labels, EnterJoin, TypeOK
<1>1. CASE Shutdown \/ ShutdownFlag
  BY <1>1 DEF Shutdown, ShutdownFlag, joinVars
<1>2. CASE ShutdownSweep
  BY <1>2 DEF ShutdownSweep, flagVars
<1>3. ASSUME NEW c \in Cons, Connect(c)
      PROVE  /\ pc' = [pc EXCEPT ![Main] = "running"] /\ pc[Main] = "running"
             /\ UNCHANGED <<joinVars, flagVars>>
  BY <1>3 DEF Connect
<1> QED BY <1>1, <1>2, <1>3 DEF MainStep, joinVars, flagVars

-------------------------------------------------------------------------------
(* The start                                                               *)

LEMMA EarlyNet ==
    ASSUME TypeOK, Early, Starting, NEW t \in NetThreads, NetStep(t)
    PROVE  Early' /\ Starting'
<1> USE Kinds
<1>1. Starting'
  <2>1. pc'[Main] = pc[Main] /\ UNCHANGED <<opened, activated, gaveUp>>
    BY NetFrame DEF Moves, TypeOK, joinVars, flagVars
  <2>2. pc[Main] = "start" => pc[t] = "suspended"
    BY DEF Starting
  <2>3. pc[t] # "suspended"
    BY DEF NetStep, TestActive, RunOther, CheckActive, AllocNetCon, SetSocket,
       PostRecv, TestClosed, OnRecv, OnSent, OnCompletionFailure, OnDisconnected, At
  <2> QED BY <2>1, <2>2, <2>3 DEF Starting
<1>2. CASE opened
  BY <1>1, <1>2, NetFrame DEF Early, flagVars
<1>3. CASE ~opened
  <2>1. TestActive("net", t) \/ RunOther(t)
    BY <1>3 DEF Early, NetStep, CheckActive, AllocNetCon, SetSocket, PostRecv,
       TestClosed, OnRecv, OnSent, OnCompletionFailure, OnDisconnected, At
  <2>2. /\ \E l \in {"run", "ended", "test"} : pc' = [pc EXCEPT ![t] = l]
        /\ UNCHANGED <<phase, requests, opened>>
    BY <2>1 DEF TestActive, RunOther, Goto, conVars, flagVars
  <2> QED BY <1>1, <1>3, <2>2 DEF Early, TypeOK
<1> QED BY <1>2, <1>3

LEMMA EarlyGame ==
    ASSUME TypeOK, Early, Starting, NEW t \in GameThreads, GameStep(t)
    PROVE  Early' /\ Starting'
<1> USE Kinds
<1>1. opened
  BY DEF Early, GameStep, TestActive, RunOther, At
<1>2. pc'[Main] = pc[Main] /\ UNCHANGED <<opened, activated, gaveUp>>
  BY GameFrame DEF Moves, TypeOK, joinVars, flagVars
<1> QED BY <1>1, <1>2 DEF Early, Starting

LEMMA EarlyJoiner ==
    ASSUME TypeOK, Early, Starting, NEW x \in Joiners, JoinerStep(x)
    PROVE  Early' /\ Starting'
<1> USE Kinds
<1>1. opened' = opened /\ UNCHANGED <<phase, requests>>
  BY JoinerFrame
<1>2. CASE opened
  <2>1. pc'[Main] = pc[Main] \/ x = Main
    BY JoinerFrame DEF Moves, TypeOK
  <2>2. pc[Main] \notin {"start", "netup"}
    BY <1>2 DEF Starting
  <2>3. pc'[Main] \notin {"start", "netup"}
    <3>1. CASE x # Main
      BY <2>1, <2>2, <3>1
    <3>2. CASE x = Main
      BY <2>2, <3>2 DEF JoinerStep, TestEmpty, Deactivate, JoinRound, JoinWait, JoinSwap,
         OnDeactivated, Goto, EnterJoin, TypeOK
    <3> QED BY <3>1, <3>2
  <2> QED BY <1>1, <1>2, <2>3 DEF Early, Starting
<1>3. CASE ~opened
  <2>1. x = Main
    BY <1>3, JoinerFrame DEF Early, Joiners
  <2>2. IsEmpty
    BY <1>3 DEF Early, IsEmpty
  <2>3. pc'[Main] \in {"term", "begin", "wait", "joined", "returned"}
    BY <2>1, <2>2 DEF JoinerStep, TestEmpty, Deactivate, JoinRound, JoinWait, JoinSwap,
         OnDeactivated, Goto, EnterJoin, TypeOK, At
  <2>4. \A t \in NetThreads \cup GameThreads : pc'[t] = pc[t]
    BY <2>1, JoinerFrame DEF Moves, TypeOK
  <2> QED BY <1>1, <1>3, <2>3, <2>4 DEF Early, Starting
<1> QED BY <1>2, <1>3

LEMMA EarlyMain ==
    ASSUME TypeOK, Early, Starting, MainStep
    PROVE  Early' /\ Starting'
<1> USE Kinds
<1>1. CASE Activate("net", "start", "netup")
  BY <1>1 DEF Activate, Early, Starting, TypeOK, At, conVars, joinVars
<1>2. CASE Activate("game", "netup", "running")
  BY <1>2 DEF Activate, Early, Starting, TypeOK, At, conVars, joinVars
<1>3. CASE ~ActivatePools
  <2>1. \A t \in NetThreads \cup GameThreads : pc'[t] = pc[t]
    BY <1>3, MainFrame DEF Moves, TypeOK
  <2>2. ~opened => Shutdown
    BY <1>3 DEF Early, MainStep, ShutdownFlag, ShutdownSweep, Connect, At
  <2>3. Shutdown => UNCHANGED <<phase, requests>> /\ pc'[Main] = "empty"
    BY DEF Shutdown, conVars, Goto, TypeOK
  <2> QED BY <1>3, <2>1, <2>2, <2>3, MainFrame DEF Early, Starting
<1> QED BY <1>1, <1>2, <1>3 DEF ActivatePools

-------------------------------------------------------------------------------
(* Join()                                                                  *)

\* Who has left, by ending or by being given up, does not come back.
LEMMA LeftStable ==
    ASSUME TypeOK, Early, Starting, Next, NEW h \in NetThreads \cup GameThreads, Left(h)
    PROVE  Left(h)'
<1> USE Kinds
<1>1. ASSUME NEW t \in NetThreads, NetStep(t) PROVE Left(h)'
  BY <1>1, NetFrame DEF Moves, Left, TypeOK, joinVars
<1>2. ASSUME NEW t \in GameThreads, GameStep(t) PROVE Left(h)'
  BY <1>2, GameFrame DEF Moves, Left, TypeOK, joinVars
<1>3. ASSUME NEW x \in Joiners, JoinerStep(x) PROVE Left(h)'
  <2>1. gaveUp \subseteq gaveUp'
    BY <1>3 DEF JoinerStep, TestEmpty, Deactivate, JoinRound, JoinWait, JoinSwap,
         OnDeactivated, joinVars
  <2> QED BY <1>3, <2>1, JoinerFrame DEF Moves, Left, TypeOK
<1>4. CASE MainStep
  <2>1. CASE ActivatePools
    BY <1>4, <2>1 DEF ActivatePools, Activate, At, Left, Early, Starting, TypeOK, joinVars
  <2> QED BY <1>4, <2>1, MainFrame DEF Moves, Left, TypeOK
<1> QED BY <1>1, <1>2, <1>3, <1>4 DEF Next

\* Join() closes the handles of those that left or that it gives up.
LEMMA JoinWaitStep ==
    ASSUME IInv, IInv => \A h \in NetThreads \cup GameThreads : Left(h) => Left(h)',
           NEW x \in Joiners, JoinWait(x)
    PROVE  HandlesKept' /\ JoinKeeps'
<1> USE Kinds
<1>0. PICK h \in todo[x] :
        /\ todo' = [todo EXCEPT ![x] = @ \ {h}]
        /\ IF h \notin closedH /\ pc[h] # "ended" /\ activated[joining[x]]
           THEN left' = [left EXCEPT ![x] = @ \cup {h}] /\ UNCHANGED <<closedH, gaveUp>>
           ELSE /\ closedH' = closedH \cup {h}
                /\ gaveUp' = IF h \notin closedH /\ pc[h] # "ended"
                             THEN gaveUp \cup {h} ELSE gaveUp
                /\ UNCHANGED left
  BY DEF JoinWait, Keep
<1>1. /\ pc[x] = "wait" /\ UNCHANGED <<hThreads, joining, pc>>
      /\ joining[x] \in Pools
  BY DEF JoinWait, At, IInv, TypeOK
<1>2. h \in ThreadsOf(joining[x]) /\ h \in NetThreads \cup GameThreads
  BY <1>0, <1>1 DEF IInv, JoinKeeps, ThreadsOf
<1>3. \A t \in NetThreads \cup GameThreads : Left(t) => Left(t)'
  OBVIOUS
<1>4. CASE h \notin closedH /\ pc[h] # "ended" /\ activated[joining[x]]
  <2>1. HandlesKept'
    BY <1>0, <1>1, <1>3, <1>4 DEF HandlesKept, IInv, ThreadsOf
  <2>2. todo'[x] \cup left'[x] = todo[x] \cup left[x]
    BY <1>0, <1>4 DEF IInv, TypeOK
  <2>3. \A y \in Joiners \ {x} : todo'[y] = todo[y] /\ left'[y] = left[y]
    BY <1>0, <1>4 DEF IInv, TypeOK
  <2>4. \A y \in Joiners : todo'[y] \cup left'[y] = todo[y] \cup left[y] /\ joining[y] \in Pools
    BY <2>2, <2>3 DEF IInv, TypeOK
  <2> QED BY <1>1, <1>3, <2>1, <2>4 DEF JoinKeeps, IInv, ThreadsOf
<1>5. CASE ~(h \notin closedH /\ pc[h] # "ended" /\ activated[joining[x]])
  <2>1. Left(h)'
    <3>1. CASE h \in closedH
      BY <1>2, <1>3, <3>1 DEF IInv, HandlesKept
    <3>2. CASE h \notin closedH
      BY <1>0, <1>1, <1>5, <3>2 DEF Left
    <3> QED BY <3>1, <3>2
  <2>2. HandlesKept'
    BY <1>0, <1>1, <1>2, <1>3, <1>5, <2>1 DEF HandlesKept, IInv, ThreadsOf
  <2>3. todo'[x] = todo[x] \ {h} /\ left'[x] = left[x]
    BY <1>0, <1>5 DEF IInv, TypeOK
  <2>4. \A y \in Joiners \ {x} : todo'[y] = todo[y] /\ left'[y] = left[y]
    BY <1>0, <1>5 DEF IInv, TypeOK
  <2>5. \A y \in Joiners : joining[y] \in Pools
    BY DEF IInv, TypeOK
  <2>6. JoinKeeps'
    <3> SUFFICES ASSUME NEW y \in Joiners
                 PROVE  /\ pc[y] = "wait" =>
                             /\ todo'[y] \cup left'[y] \subseteq ThreadsOf(joining[y])
                             /\ \A t \in ThreadsOf(joining[y]) :
                                    t \in todo'[y] \cup left'[y] \/ Left(t)'
                        /\ pc[y] = "joined" => \A t \in ThreadsOf(joining[y]) : Left(t)'
      BY <1>1 DEF JoinKeeps, ThreadsOf
    <3>1. \A t \in ThreadsOf(joining[y]) : t \in NetThreads \cup GameThreads
      BY DEF ThreadsOf
    <3>2. /\ todo'[y] \cup left'[y] \subseteq todo[y] \cup left[y]
          /\ \A t : t \in todo[y] \cup left[y] => t \in todo'[y] \cup left'[y] \/ t = h
      BY <2>3, <2>4
    <3> QED BY <1>3, <2>1, <3>1, <3>2 DEF JoinKeeps, IInv
  <2> QED BY <2>2, <2>6
<1> QED BY <1>4, <1>5

LEMMA JoinSwapStep ==
    ASSUME IInv, IInv => \A h \in NetThreads \cup GameThreads : Left(h) => Left(h)',
           NEW x \in Joiners, JoinSwap(x)
    PROVE  HandlesKept' /\ JoinKeeps'
<1> USE Kinds
<1>1. /\ pc[x] = "wait" /\ todo[x] = {} /\ UNCHANGED <<closedH, joining, todo, left>>
      /\ hThreads' = [hThreads EXCEPT ![joining[x]] = left[x]]
      /\ pc' = [pc EXCEPT ![x] = "begin"]
      /\ joining[x] \in Pools
  BY DEF JoinSwap, At, Goto, IInv, TypeOK
<1>2. \A t \in NetThreads \cup GameThreads : Left(t) => Left(t)'
  OBVIOUS
<1>3. left[x] \subseteq ThreadsOf(joining[x])
      /\ \A t \in ThreadsOf(joining[x]) : t \in left[x] \/ Left(t)
  BY <1>1 DEF IInv, JoinKeeps
<1>4. \A p \in Pools : hThreads'[p] = IF p = joining[x] THEN left[x] ELSE hThreads[p]
  BY <1>1 DEF IInv, TypeOK
<1>5. \A p \in Pools : \A t \in ThreadsOf(p) : t \in NetThreads \cup GameThreads
  BY DEF ThreadsOf
<1>6. HandlesKept'
  <2>1. \A p \in Pools : \A t \in ThreadsOf(p) : t \in hThreads'[p] \/ Left(t)'
    BY <1>2, <1>3, <1>4, <1>5 DEF IInv, HandlesKept
  <2>2. \A p \in Pools : hThreads'[p] \subseteq ThreadsOf(p)
    BY <1>3, <1>4 DEF IInv, HandlesKept
  <2> QED BY <1>1, <1>2, <2>1, <2>2 DEF IInv, HandlesKept, ThreadsOf
<1>7. JoinKeeps'
  <2>1. \A y \in Joiners : pc'[y] = pc[y] \/ pc'[y] = "begin"
    BY <1>1 DEF IInv, TypeOK
  <2>2. \A y \in Joiners : joining[y] \in Pools
    BY DEF IInv, TypeOK
  <2> QED BY <1>1, <1>2, <1>5, <2>1, <2>2 DEF JoinKeeps, IInv, ThreadsOf
<1> QED BY <1>6, <1>7

\* The other steps of the threads that may be in OnTerminated().
LEMMA OtherJoinerStep ==
    ASSUME IInv, IInv => \A h \in NetThreads \cup GameThreads : Left(h) => Left(h)',
           NEW x \in Joiners,
           TestEmpty(x) \/ Deactivate(x) \/ JoinRound(x) \/ OnDeactivated(x)
    PROVE  HandlesKept' /\ JoinKeeps'
<1> USE Kinds
<1>1. \A t \in NetThreads \cup GameThreads : Left(t) => Left(t)'
  OBVIOUS
<1>2. \A p \in Pools : \A t \in ThreadsOf(p) : t \in NetThreads \cup GameThreads
  BY DEF ThreadsOf
<1>3. UNCHANGED <<hThreads, closedH>>
  BY DEF TestEmpty, Deactivate, JoinRound, OnDeactivated, joinVars
<1>4. HandlesKept'
  BY <1>1, <1>2, <1>3 DEF IInv, HandlesKept
<1>5. \A y \in Joiners \ {x} :
         pc'[y] = pc[y] /\ joining'[y] = joining[y] /\ todo'[y] = todo[y] /\ left'[y] = left[y]
  BY JoinerFrame DEF IInv, TypeOK, Moves, JoinerStep
<1>6. /\ pc'[x] = "wait" => /\ todo'[x] = hThreads[joining[x]] /\ left'[x] = {}
                            /\ joining'[x] = joining[x]
      /\ pc'[x] = "joined" => hThreads[joining[x]] = {} /\ joining'[x] = joining[x]
  BY DEF TestEmpty, Deactivate, JoinRound, OnDeactivated, EnterJoin, Goto, IInv, TypeOK
<1>7. \A y \in Joiners : joining[y] \in Pools
  BY DEF IInv, TypeOK
<1>8. \A p \in Pools : hThreads[p] \subseteq ThreadsOf(p)
                       /\ \A t \in ThreadsOf(p) : t \in hThreads[p] \/ Left(t)
  BY DEF IInv, HandlesKept
<1>9. JoinKeeps'
  <2> SUFFICES ASSUME NEW y \in Joiners
               PROVE  /\ pc'[y] = "wait" =>
                           /\ todo'[y] \cup left'[y] \subseteq ThreadsOf(joining'[y])
                           /\ \A t \in ThreadsOf(joining'[y]) :
                                  t \in todo'[y] \cup left'[y] \/ Left(t)'
                      /\ pc'[y] = "joined" => \A t \in ThreadsOf(joining'[y]) : Left(t)'
    BY DEF JoinKeeps, ThreadsOf
  <2>1. CASE y = x
    BY <1>1, <1>2, <1>6, <1>7, <1>8, <2>1
  <2>2. CASE y # x
    BY <1>1, <1>2, <1>5, <1>7, <2>2 DEF JoinKeeps, IInv
  <2> QED BY <2>1, <2>2
<1> QED BY <1>4, <1>9

LEMMA JoinKept ==
    ASSUME IInv, Next PROVE HandlesKept' /\ JoinKeeps'
<1> USE Kinds
<1>1. \A h \in NetThreads \cup GameThreads : Left(h) => Left(h)'
  BY LeftStable DEF IInv
<1>2. CASE \E x \in Joiners : JoinerStep(x)
  BY <1>1, <1>2, JoinWaitStep, JoinSwapStep, OtherJoinerStep DEF JoinerStep
<1>3. CASE ~ \E x \in Joiners : JoinerStep(x)
  <2>1. UNCHANGED <<hThreads, closedH, todo, left>>
    BY <1>3, NetFrame, GameFrame, MainFrame
       DEF IInv, Next, joinVars, ActivatePools, Activate
  <2>2. \A y \in Joiners : \/ pc'[y] = pc[y] /\ joining'[y] = joining[y]
                          \/ pc'[y] \notin {"wait", "joined"}
    <3>1. CASE \E t \in NetThreads : NetStep(t)
      BY <3>1, NetFrame DEF IInv, Moves, TypeOK, joinVars
    <3>2. CASE \E t \in GameThreads : GameStep(t)
      BY <3>2, GameFrame DEF IInv, Moves, TypeOK, Joiners, joinVars
    <3>3. CASE MainStep /\ ~ActivatePools
      BY <3>3, MainFrame DEF IInv, Moves, TypeOK, Joiners
    <3>4. CASE ActivatePools
      BY <3>4 DEF ActivatePools, Activate, IInv, TypeOK, joinVars
    <3> QED BY <1>3, <3>1, <3>2, <3>3, <3>4 DEF Next
  <2>3. \A y \in Joiners : joining[y] \in Pools
    BY DEF IInv, TypeOK
  <2>4. \A p \in Pools : \A t \in ThreadsOf(p) : t \in NetThreads \cup GameThreads
    BY DEF ThreadsOf
  <2> QED BY <1>1, <2>1, <2>2, <2>3, <2>4 DEF IInv, HandlesKept, JoinKeeps, ThreadsOf
<1> QED BY <1>2, <1>3

-------------------------------------------------------------------------------
(* Who leaves when                                                         *)

LEMMA GameLastStep ==
    ASSUME IInv, Next PROVE GameLast'
<1> USE Kinds
<1>1. \A h \in NetThreads \cup GameThreads : Left(h) => Left(h)'
  BY LeftStable DEF IInv
<1>2. ASSUME NEW t \in NetThreads, NetStep(t) PROVE GameLast'
  <2>1. /\ UNCHANGED <<joinVars, flagVars>>
        /\ \A y \in GameThreads \cup {Main} : pc'[y] = pc[y]
    BY <1>2, NetFrame DEF IInv, Moves, TypeOK
  <2>2. \A g \in GameThreads : Left(g)' = Left(g)
    BY <2>1 DEF Left, joinVars
  <2> QED BY <1>1, <2>1, <2>2 DEF IInv, GameLast, joinVars, flagVars
<1>3. ASSUME NEW t \in GameThreads, GameStep(t) PROVE GameLast'
  <2>1. /\ UNCHANGED <<joinVars, flagVars>>
        /\ pc'[Main] = pc[Main]
        /\ \A g \in GameThreads \ {t} : pc'[g] = pc[g]
    BY <1>3, GameFrame DEF IInv, Moves, TypeOK
  <2>2. pc'[t] = "ended" => ~activated["game"]
    BY <1>3 DEF GameStep, TestActive, RunOther, Goto, IInv, TypeOK
  <2>3. \A g \in GameThreads : Left(g)' => Left(g) \/ ~activated["game"]
    BY <2>1, <2>2 DEF Left, joinVars
  <2> QED BY <1>1, <2>1, <2>3 DEF IInv, GameLast, joinVars, flagVars
<1>4. ASSUME NEW x \in Joiners, JoinerStep(x) PROVE GameLast'
  <2>1. /\ \A g \in GameThreads : pc'[g] = pc[g]
        /\ opened' = opened /\ pc[x] # "returned"
        /\ x # Main => pc'[Main] = pc[Main] /\ joining'[Main] = joining[Main]
    BY <1>4, JoinerFrame DEF IInv, Moves, TypeOK, Joiners
  <2>2. \A g \in GameThreads : Left(g)' => Left(g) \/ ~activated'["game"]
    <3>1. CASE JoinWait(x)
      <4>1. PICK h \in todo[x] :
               gaveUp' # gaveUp => gaveUp' = gaveUp \cup {h} /\ ~activated[joining[x]]
        BY <3>1 DEF JoinWait
      <4>2. h \in ThreadsOf(joining[x]) /\ joining[x] \in Pools /\ UNCHANGED activated
        BY <3>1 DEF JoinWait, At, IInv, TypeOK, JoinKeeps, flagVars
      <4>3. h \in GameThreads => joining[x] = "game"
        BY <4>2 DEF ThreadsOf, Pools
      <4> QED BY <2>1, <4>1, <4>2, <4>3 DEF Left
    <3>2. CASE ~JoinWait(x)
      <4>1. UNCHANGED gaveUp
        BY <1>4, <3>2 DEF JoinerStep, TestEmpty, Deactivate, JoinRound, JoinSwap,
           OnDeactivated, joinVars
      <4> QED BY <2>1, <4>1 DEF Left
    <3> QED BY <3>1, <3>2
  <2>3. CASE OnDeactivated(x)
    <3>1. pc[x] = "joined" /\ \A t \in ThreadsOf(joining[x]) : Left(t)'
      BY <1>1, <2>3 DEF OnDeactivated, At, IInv, JoinKeeps, ThreadsOf
    <3>2. CASE joining[x] = "net"
      <4>1. /\ activated'["game"] = FALSE /\ \A t \in NetThreads : Left(t)'
            /\ x = Main => pc'[Main] = "begin"
        BY <2>3, <3>1, <3>2 DEF OnDeactivated, EnterJoin, Goto, IInv, TypeOK
      <4>2. pc'[Main] = "returned" => joining'[Main] = "game" /\ \A g \in GameThreads : Left(g)'
        BY <1>1, <2>1, <4>1 DEF IInv, GameLast
      <4> QED BY <4>1, <4>2 DEF GameLast
    <3>3. CASE joining[x] # "net"
      <4>1. joining[x] = "game" /\ UNCHANGED <<activated, joining>>
        BY <2>3, <3>3 DEF OnDeactivated, IInv, TypeOK, Pools
      <4>2. pc'[Main] = "returned" => joining[Main] = "game" /\ \A g \in GameThreads : Left(g)'
        BY <1>1, <2>1, <3>1, <4>1 DEF IInv, GameLast
      <4> QED BY <1>1, <2>1, <2>2, <4>1, <4>2 DEF IInv, GameLast
    <3> QED BY <3>2, <3>3
  <2>4. CASE ~OnDeactivated(x)
    <3>1. /\ activated'["game"] = activated["game"]
          /\ joining'[x] = joining[x] \/ joining'[x] = "net"
          /\ pc'[x] # "returned"
      BY <1>4, <2>4 DEF JoinerStep, TestEmpty, Deactivate, JoinRound, JoinWait, JoinSwap,
         EnterJoin, Goto, At, IInv, TypeOK, joinVars, flagVars
    <3> QED BY <1>1, <2>1, <2>2, <3>1 DEF IInv, GameLast
  <2> QED BY <2>3, <2>4
<1>5. CASE MainStep
  <2>1. CASE Activate("net", "start", "netup")
    BY <2>1 DEF Activate, At, IInv, Starting, GameLast, TypeOK, joinVars, Left
  <2>2. CASE Activate("game", "netup", "running")
    BY <2>2 DEF Activate, At, IInv, Starting, GameLast, TypeOK, joinVars, Left
  <2>3. CASE ~ActivatePools
    <3>1. /\ \A t \in GameThreads : pc'[t] = pc[t]
          /\ pc'[Main] # "returned" /\ UNCHANGED <<opened, activated, gaveUp>>
      BY <1>5, <2>3, MainFrame DEF IInv, Moves, TypeOK
    <3>2. ~opened => joining' = joining
      BY <1>5, <2>3 DEF MainStep, IInv, Early, Shutdown, ShutdownFlag, ShutdownSweep, Connect, At, joinVars
    <3> QED BY <1>1, <3>1, <3>2 DEF IInv, GameLast, Left
  <2> QED BY <1>5, <2>1, <2>2, <2>3 DEF ActivatePools
<1> QED BY <1>2, <1>3, <1>4, <1>5 DEF Next

LEMMA SeenEmptyStep ==
    ASSUME IInv, Next PROVE SeenEmpty'
<1> USE Kinds
<1>1. ASSUME NEW t \in NetThreads, NetStep(t) PROVE SeenEmpty'
  <2>1. BusyCons \subseteq newSince => BusyCons' \subseteq newSince'
    BY <1>1 DEF BusyCons, NetStep, TestActive, RunOther, CheckActive, AllocNetCon,
       SetSocket, PostRecv, TestClosed, OnRecv, OnSent, OnCompletionFailure,
       OnDisconnected, conVars, IInv, TypeOK
  <2>2. /\ UNCHANGED activated /\ pc'[Main] = pc[Main]
        /\ \A x \in Joiners : pc'[x] = "term" => pc[x] = "term"
    BY <1>1, NetFrame DEF IInv, Moves, TypeOK, flagVars
  <2> QED BY <2>1, <2>2 DEF IInv, SeenEmpty, Started
<1>2. ASSUME NEW t \in GameThreads, GameStep(t) PROVE SeenEmpty'
  <2>1. /\ UNCHANGED <<phase, newSince, activated>>
        /\ \A x \in Joiners : pc'[x] = pc[x]
    BY <1>2, GameFrame DEF IInv, Moves, TypeOK, Joiners, conVars, flagVars
  <2> QED BY <2>1 DEF IInv, SeenEmpty, Started, BusyCons
<1>3. ASSUME NEW x \in Joiners, JoinerStep(x) PROVE SeenEmpty'
  <2>1. pc'[Main] = "start" <=> pc[Main] = "start"
    <3>1. pc[x] # "start" /\ pc'[x] # "start"
      BY <1>3 DEF IInv, TypeOK, JoinerStep, TestEmpty, Deactivate, JoinRound, JoinWait,
         JoinSwap, OnDeactivated, EnterJoin, Goto, At
    <3> QED BY <1>3, <3>1, JoinerFrame DEF IInv, Moves, TypeOK
  <2>2. CASE TestEmpty(x)
    <3>1. CASE IsEmpty
      <4>1. BusyCons' = {} /\ newSince' = {}
        BY <2>2, <3>1 DEF BusyCons, IsEmpty, TestEmpty
      <4> QED BY <4>1 DEF SeenEmpty
    <3>2. CASE ~IsEmpty
      <4>1. /\ UNCHANGED <<phase, newSince, activated>>
            /\ \A y \in Joiners : pc'[y] = "term" => pc[y] = "term"
        BY <2>2, <3>2 DEF TestEmpty, Goto, flagVars, IInv, TypeOK
      <4> QED BY <2>1, <4>1 DEF IInv, SeenEmpty, Started, BusyCons
    <3> QED BY <3>1, <3>2
  <2>3. CASE ~TestEmpty(x)
    <3>1. UNCHANGED <<phase, newSince>>
      BY <1>3, <2>3 DEF JoinerStep, Deactivate, JoinRound, JoinWait, JoinSwap,
         OnDeactivated, conVars
    <3>2. /\ \A y \in Joiners : pc'[y] = "term" => pc[y] = "term"
          /\ ~activated'["net"] => ~activated["net"] \/ pc[x] = "term"
      BY <1>3, <2>3 DEF JoinerStep, Deactivate, JoinRound, JoinWait, JoinSwap,
         OnDeactivated, EnterJoin, Goto, At, flagVars, IInv, TypeOK
    <3> QED BY <2>1, <3>1, <3>2 DEF IInv, SeenEmpty, Started, BusyCons
  <2> QED BY <2>2, <2>3
<1>4. CASE MainStep
  <2>1. CASE Activate("net", "start", "netup")
    BY <2>1 DEF Activate, At, IInv, SeenEmpty, Started, TypeOK, conVars, BusyCons
  <2>2. CASE Activate("game", "netup", "running")
    BY <2>2 DEF Activate, At, IInv, SeenEmpty, Started, TypeOK, conVars, BusyCons
  <2>3. CASE ~ActivatePools
    <3>1. /\ \A y \in Joiners : pc'[y] = "term" => pc[y] = "term"
          /\ pc[Main] # "start" /\ UNCHANGED activated
      BY <1>4, <2>3, MainFrame DEF IInv, Moves, TypeOK
    <3>2. BusyCons \subseteq newSince => BusyCons' \subseteq newSince'
      BY <1>4, <2>3 DEF MainStep, Shutdown, ShutdownFlag, ShutdownSweep, Connect, conVars,
         BusyCons, IInv, TypeOK
    <3> QED BY <3>1, <3>2 DEF IInv, SeenEmpty, Started
  <2> QED BY <1>4, <2>1, <2>2, <2>3 DEF ActivatePools
<1> QED BY <1>1, <1>2, <1>3, <1>4 DEF Next

LEMMA InitIInv == ASSUME Init PROVE IInv
<1> USE Kinds DEF Init
<1>1. TypeOK
  BY InitType
<1>2. Early /\ Starting
  BY DEF Early, Starting
<1>3. HandlesKept /\ JoinKeeps
  BY DEF HandlesKept, JoinKeeps, Threads, Joiners
<1>4. GameLast /\ SeenEmpty
  BY DEF GameLast, SeenEmpty, Started, Joiners
<1> QED BY <1>1, <1>2, <1>3, <1>4 DEF IInv

LEMMA NextIInv == ASSUME IInv, [Next]_poolVars PROVE IInv'
<1>1. CASE UNCHANGED poolVars
  BY <1>1 DEF poolVars, conVars, joinVars, flagVars, IInv, TypeOK, Early, Starting,
     HandlesKept, JoinKeeps, GameLast, SeenEmpty, Left, Started, BusyCons
<1>2. CASE Next
  <2>1. TypeOK'
    BY NextType, <1>2 DEF IInv
  <2>2. Early' /\ Starting'
    BY <1>2, EarlyNet, EarlyGame, EarlyJoiner, EarlyMain DEF IInv, Next
  <2> QED BY <1>2, <2>1, <2>2, JoinKept, GameLastStep, SeenEmptyStep DEF IInv
<1> QED BY <1>1, <1>2

LEMMA Invariant == Spec => []IInv
<1>1. Init => IInv
  BY InitIInv
<1>2. IInv /\ [Next]_poolVars => IInv'
  BY NextIInv
<1> QED BY <1>1, <1>2, PTL DEF Spec

-------------------------------------------------------------------------------
(* Who is in Join() when                                                   *)

\* A step that closes nothing, and that nobody enters or leaves the loop by.
LEMMA CompanyStays ==
    ASSUME ClosedInCompany, UNCHANGED <<hThreads, closedH, fault>>,
           \A t \in NetThreads : joining'[t] = "net",
           \A y \in Joiners :
               /\ pc'[y] = "wait" <=> pc[y] = "wait"
               /\ pc[y] = "wait" => /\ todo'[y] = todo[y] /\ left'[y] = left[y]
                                    /\ joining'[y] = joining[y]
    PROVE  ClosedInCompany'
<1>1. \A y \in Joiners, p \in Pools : InLoop(y, p) => InLoop(y, p)'
  BY DEF InLoop
<1>2. SUFFICES ASSUME ~fault
               PROVE  /\ \A p \in Pools : \A h \in hThreads[p] \cap closedH :
                            \E y \in Joiners : InLoop(y, p)'
                      /\ \A x \in Joiners : pc[x] = "wait" =>
                            /\ todo[x] \cap left[x] = {}
                            /\ \A h \in (todo[x] \cup left[x]) \cap closedH :
                                   \E y \in Joiners \ {x} : InLoop(y, joining[x])'
  BY DEF ClosedInCompany, InLoop
<1>3. ASSUME NEW x \in Joiners, pc[x] = "wait"
      PROVE  /\ todo[x] \cap left[x] = {}
             /\ \A h \in (todo[x] \cup left[x]) \cap closedH :
                    \E y \in Joiners \ {x} : InLoop(y, joining[x])'
  BY <1>2, <1>3 DEF ClosedInCompany, InLoop
<1> QED BY <1>1, <1>2, <1>3 DEF ClosedInCompany

LEMMA OthersCompany ==
    ASSUME IInv, ClosedInCompany, Next,
           ~ \E x \in Joiners : JoinRound(x) \/ JoinWait(x) \/ JoinSwap(x)
    PROVE  ClosedInCompany'
<1> USE Kinds
<1>1. CASE \E t \in NetThreads : NetStep(t)
  <2>1. PICK t \in NetThreads : NetStep(t)
    BY <1>1
  <2>2. pc[t] # "wait"
    BY <2>1 DEF NetStep, TestActive, RunOther, CheckActive, AllocNetCon, SetSocket,
         PostRecv, TestClosed, OnRecv, OnSent, OnCompletionFailure, OnDisconnected, At
  <2> QED BY <2>1, <2>2, NetFrame, CompanyStays
         DEF ClosedInCompany, IInv, TypeOK, Moves, joinVars
<1>2. CASE \E t \in GameThreads : GameStep(t)
  BY <1>2, GameFrame, CompanyStays DEF ClosedInCompany, IInv, TypeOK, Moves, Joiners, joinVars
<1>3. ASSUME NEW x \in Joiners, TestEmpty(x) \/ Deactivate(x) \/ OnDeactivated(x)
      PROVE  ClosedInCompany'
  <2>1. /\ pc[x] # "wait" /\ pc'[x] # "wait" /\ UNCHANGED <<hThreads, closedH, fault>>
        /\ x # Main => joining'[x] \in {joining[x], "net"}
    BY <1>3 DEF TestEmpty, Deactivate, OnDeactivated, EnterJoin, Goto, At, joinVars,
         IInv, TypeOK
  <2>2. \A y \in Joiners \ {x} :
          pc'[y] = pc[y] /\ joining'[y] = joining[y] /\ todo'[y] = todo[y] /\ left'[y] = left[y]
    BY <1>3, JoinerFrame DEF JoinerStep, IInv, TypeOK, Moves
  <2>3. \A t \in NetThreads : joining'[t] = "net"
    BY <2>1, <2>2 DEF ClosedInCompany
  <2> QED BY <2>1, <2>2, <2>3, CompanyStays
<1>4. CASE MainStep
  <2>1. UNCHANGED <<hThreads, closedH, fault, todo, left>>
    BY <1>4 DEF MainStep, ActivatePools, Activate, Shutdown, ShutdownFlag, ShutdownSweep,
         Connect, joinVars
  <2>2. \A y \in Joiners : \/ pc'[y] = pc[y] /\ joining'[y] = joining[y]
                           \/ pc[y] # "wait" /\ pc'[y] # "wait"
    <3>1. CASE ActivateNet
      BY <3>1 DEF Activate, At, Joiners, IInv, TypeOK, Starting, joinVars
    <3>2. CASE ActivateGame
      BY <3>2 DEF Activate, At, Joiners, IInv, TypeOK, joinVars
    <3>3. CASE ~ActivatePools
      BY <1>4, <3>3, MainFrame DEF Moves, Joiners, IInv, TypeOK
    <3> QED BY <3>1, <3>2, <3>3 DEF ActivatePools
  <2>3. \A t \in NetThreads : joining'[t] = joining[t]
    BY <1>4, MainFrame DEF ActivatePools, Activate, IInv, joinVars
  <2> QED BY <2>1, <2>2, <2>3, CompanyStays DEF ClosedInCompany
<1> QED BY <1>1, <1>2, <1>3, <1>4 DEF Next, JoinerStep

\* Who enters the loop finds nothing closed but what somebody in it has closed.
LEMMA JoinRoundCompany ==
    ASSUME IInv, ClosedInCompany, NEW x \in Joiners, JoinRound(x)
    PROVE  ClosedInCompany'
<1> USE Kinds
<1>1. /\ ~fault /\ pc[x] = "begin" /\ joining[x] \in Pools
      /\ UNCHANGED <<hThreads, closedH, joining, fault>>
      /\ todo'[x] = hThreads[joining[x]] /\ left'[x] = {}
  BY DEF JoinRound, At, IInv, TypeOK
<1>2. \A y \in Joiners \ {x} : pc'[y] = pc[y] /\ todo'[y] = todo[y] /\ left'[y] = left[y]
  BY JoinerFrame DEF JoinerStep, IInv, TypeOK, Moves
<1>3. \A y \in Joiners, p \in Pools : InLoop(y, p) => y # x /\ InLoop(y, p)'
  BY <1>1, <1>2 DEF InLoop
<1>4. \A p \in Pools : \A h \in hThreads[p] \cap closedH :
        \E y \in Joiners \ {x} : InLoop(y, p)'
  BY <1>1, <1>3 DEF ClosedInCompany
<1>5. ASSUME NEW y \in Joiners, pc'[y] = "wait"
      PROVE  /\ todo'[y] \cap left'[y] = {}
             /\ \A h \in (todo'[y] \cup left'[y]) \cap closedH :
                    \E z \in Joiners \ {y} : InLoop(z, joining[y])'
  <2>1. CASE y = x
    BY <1>1, <1>4, <2>1
  <2>2. CASE y # x
    <3>1. joining[y] \in Pools
      BY DEF IInv, TypeOK
    <3> QED BY <1>1, <1>2, <1>3, <1>5, <2>2, <3>1 DEF ClosedInCompany
  <2> QED BY <2>1, <2>2
<1> QED BY <1>1, <1>4, <1>5 DEF ClosedInCompany, InLoop

\* Who closes a handle is in the loop, in the company of all others that have it.
LEMMA JoinWaitCompany ==
    ASSUME IInv, ClosedInCompany, NEW x \in Joiners, JoinWait(x)
    PROVE  ClosedInCompany'
<1> USE Kinds
<1>1. /\ ~fault /\ pc[x] = "wait" /\ joining[x] \in Pools
      /\ UNCHANGED <<hThreads, joining, fault, pc>>
  BY DEF JoinWait, At, IInv, TypeOK
<1>2. PICK h \in todo[x] :
        /\ todo' = [todo EXCEPT ![x] = @ \ {h}]
        /\ \/ h \notin closedH /\ left' = [left EXCEPT ![x] = @ \cup {h}] /\ closedH' = closedH
           \/ closedH' = closedH \cup {h} /\ left' = left
  BY DEF JoinWait, Keep
<1>3. h \in ThreadsOf(joining[x])
  BY <1>1 DEF IInv, JoinKeeps
<1>4. /\ todo'[x] = todo[x] \ {h}
      /\ left'[x] = left[x] \/ (left'[x] = left[x] \cup {h} /\ h \notin closedH')
      /\ \A y \in Joiners \ {x} : todo'[y] = todo[y] /\ left'[y] = left[y]
      /\ closedH' \subseteq closedH \cup {h}
  BY <1>2 DEF IInv, TypeOK
<1>5. \A y \in Joiners : joining[y] \in Pools
  BY DEF IInv, TypeOK
<1>6. \A p \in Pools : h \in ThreadsOf(p) => p = joining[x]
  BY <1>1, <1>3 DEF Pools
<1>7. \A y \in Joiners, p \in Pools : InLoop(y, p)' <=> InLoop(y, p)
  BY <1>1 DEF InLoop
<1>8. ASSUME NEW p \in Pools, NEW g \in hThreads[p] \cap closedH'
      PROVE  \E y \in Joiners : InLoop(y, p)
  <2>1. CASE g \in closedH
    BY <1>1, <2>1 DEF ClosedInCompany
  <2>2. CASE g = h
    <3>1. p = joining[x]
      BY <1>6, <2>2 DEF IInv, HandlesKept
    <3> QED BY <1>1, <3>1 DEF InLoop
  <2> QED BY <1>4, <2>1, <2>2
<1>9. ASSUME NEW y \in Joiners, pc[y] = "wait"
      PROVE  /\ todo'[y] \cap left'[y] = {}
             /\ \A g \in (todo'[y] \cup left'[y]) \cap closedH' :
                    \E z \in Joiners \ {y} : InLoop(z, joining[y])
  <2>1. /\ todo[y] \cap left[y] = {}
        /\ \A g \in (todo[y] \cup left[y]) \cap closedH :
               \E z \in Joiners \ {y} : InLoop(z, joining[y])
    BY <1>1, <1>9 DEF ClosedInCompany
  <2>2. CASE y = x
    BY <1>2, <1>4, <2>1, <2>2
  <2>3. CASE y # x
    <3>1. \A g \in todo[y] \cup left[y] : g \in ThreadsOf(joining[y])
      BY <1>9 DEF IInv, JoinKeeps
    <3>2. h \in todo[y] \cup left[y] => joining[y] = joining[x]
      BY <1>5, <1>6, <3>1
    <3>3. InLoop(x, joining[x]) /\ x \in Joiners \ {y}
      BY <1>1, <2>3 DEF InLoop
    <3> QED BY <1>4, <2>1, <2>3, <3>2, <3>3
  <2> QED BY <2>2, <2>3
<1> QED BY <1>1, <1>5, <1>7, <1>8, <1>9 DEF ClosedInCompany

\* Who leaves the loop was alone in it, or there is a fault.
LEMMA JoinSwapCompany ==
    ASSUME IInv, ClosedInCompany, NEW x \in Joiners, JoinSwap(x)
    PROVE  ClosedInCompany'
<1> USE Kinds
<1>1. /\ ~fault /\ pc[x] = "wait" /\ joining[x] \in Pools
      /\ UNCHANGED <<closedH, joining, todo, left>>
      /\ pc' = [pc EXCEPT ![x] = "begin"]
      /\ hThreads' = [hThreads EXCEPT ![joining[x]] = left[x]]
      /\ fault' <=> \E y \in Joiners \ {x} : pc[y] = "wait" /\ joining[y] = joining[x]
  BY DEF JoinSwap, At, Goto, IInv, TypeOK
<1> SUFFICES ASSUME ~fault' PROVE ClosedInCompany'
  BY <1>1 DEF ClosedInCompany
<1>2. \A y \in Joiners \ {x} : ~InLoop(y, joining[x])
  BY <1>1 DEF InLoop
<1>3. left[x] \cap closedH = {}
  BY <1>1, <1>2 DEF ClosedInCompany
<1>4. \A y \in Joiners : pc'[y] = IF y = x THEN "begin" ELSE pc[y]
  BY <1>1 DEF IInv, TypeOK
<1>5. \A p \in Pools : hThreads'[p] = IF p = joining[x] THEN left[x] ELSE hThreads[p]
  BY <1>1 DEF IInv, TypeOK
<1>6. \A y \in Joiners, p \in Pools : InLoop(y, p) /\ p # joining[x] => InLoop(y, p)'
  BY <1>1, <1>4 DEF InLoop
<1>7. ASSUME NEW p \in Pools, NEW g \in hThreads'[p] \cap closedH
      PROVE  \E y \in Joiners : InLoop(y, p)'
  <2>1. p # joining[x] /\ g \in hThreads[p]
    BY <1>3, <1>5
  <2>2. \E y \in Joiners : InLoop(y, p)
    BY <1>1, <2>1 DEF ClosedInCompany
  <2> QED BY <1>6, <2>1, <2>2
<1>8. ASSUME NEW y \in Joiners, pc'[y] = "wait"
      PROVE  /\ todo[y] \cap left[y] = {}
             /\ \A g \in (todo[y] \cup left[y]) \cap closedH :
                    \E z \in Joiners \ {y} : InLoop(z, joining[y])'
  <2>1. y # x /\ pc[y] = "wait" /\ joining[y] \in Pools
    BY <1>4, <1>8 DEF IInv, TypeOK
  <2>2. joining[y] # joining[x]
    BY <1>2, <2>1 DEF InLoop
  <2> QED BY <1>1, <1>6, <2>1, <2>2 DEF ClosedInCompany
<1> QED BY <1>1, <1>7, <1>8 DEF ClosedInCompany, InLoop

LEMMA InCompany == Spec => []ClosedInCompany
<1>1. Init => ClosedInCompany
  BY Kinds DEF Init, ClosedInCompany
<1>2. IInv /\ ClosedInCompany /\ [Next]_poolVars => ClosedInCompany'
  <2>1. CASE UNCHANGED poolVars
    BY <2>1 DEF poolVars, joinVars, ClosedInCompany, InLoop
  <2>2. ASSUME IInv, ClosedInCompany, Next PROVE ClosedInCompany'
    BY <2>2, OthersCompany, JoinRoundCompany, JoinWaitCompany, JoinSwapCompany
  <2> QED BY <2>1, <2>2
<1> QED BY <1>1, <1>2, Invariant, PTL DEF Spec

-------------------------------------------------------------------------------
(* Who will stop the pools                                                 *)

\* Before Shutdown() nobody stops them, and after it nothing is started.
OnlyOnceClosed ==
    /\ isClosed <=> pc[Main] \notin {"start", "netup", "running"}
    /\ ~isClosed =>
        /\ pc[Main] # "start" => activated["net"]
        /\ \A x \in Joiners : pc[x] \notin {"empty", "term", "begin", "wait", "joined"}

\* A step that keeps who stops the pools, and tells none to stop.
LEMMA WatchKept ==
    ASSUME StopIsHandedOn, activated' = activated, isClosed' = isClosed,
           isClosed /\ Watched => Watched', Joined => Joined'
    PROVE  StopIsHandedOn'
<1>1. activated'["net"] = activated["net"] /\ activated'["game"] = activated["game"]
  OBVIOUS
<1> QED BY <1>1, Zenon DEF StopIsHandedOn

\* A step of somebody who is not a witness, with which no connection is freed.
LEMMA WitnessesStay ==
    ASSUME NEW x \in Threads, UNCHANGED activated, UNCHANGED isClosed,
           phase' = phase \/ BusyCons \subseteq BusyCons',
           \A y \in Joiners \ {x} : pc'[y] = pc[y] /\ joining'[y] = joining[y],
           pc[x] \notin {"freed", "empty", "term", "begin", "wait", "joined"},
           StopIsHandedOn
    PROVE  StopIsHandedOn'
<1>1. BusyCons \subseteq BusyCons'
  BY DEF BusyCons
<1>2. /\ Watched => Watched'
      /\ Joined => Joined'
  BY <1>1 DEF Watched, Joined
<1> QED BY <1>2 DEF StopIsHandedOn

LEMMA HandedNet ==
    ASSUME TypeOK, OnlyOnceClosed, StopIsHandedOn, NEW t \in NetThreads, NetStep(t)
    PROVE  OnlyOnceClosed' /\ StopIsHandedOn'
<1> USE Kinds
<1>1. /\ activated' = activated /\ isClosed' = isClosed /\ joining' = joining
      /\ \A y \in Threads \ {t} : pc'[y] = pc[y]
      /\ pc' \in [Threads -> Labels]
      /\ pc'[t] \notin {"term", "begin", "wait", "joined"} /\ (~isClosed => pc'[t] # "empty")
  <2>1. Moves(t) /\ UNCHANGED <<joinVars, flagVars>>
    BY NetFrame
  <2>2. pc'[t] \notin {"term", "begin", "wait", "joined"} /\ (~isClosed => pc'[t] # "empty")
    BY DEF NetStep, TestActive, RunOther, CheckActive, AllocNetCon, SetSocket, PostRecv,
       TestClosed, OnRecv, OnSent, OnCompletionFailure, OnDisconnected, Goto, TypeOK
  <2> QED BY <2>1, <2>2 DEF Moves, joinVars, flagVars, TypeOK
<1>2. OnlyOnceClosed'
  BY <1>1 DEF OnlyOnceClosed, Joiners
<1> SUFFICES StopIsHandedOn'
  BY <1>2
<1>3. CASE \E c \in Cons : OnDisconnected(t, c)
  <2>1. pc'[t] = "freed" /\ pc[t] = "run"
    BY <1>3 DEF OnDisconnected, Goto, At, TypeOK
  <2>2. Watched'
    BY <2>1 DEF Watched
  <2>3. Joined => Joined'
    BY <1>1, <2>1 DEF Joined, Joiners
  <2> QED BY <1>1, <2>2, <2>3, WatchKept
<1>4. CASE TestClosed(t)
  <2>1. pc'[t] = (IF isClosed THEN "empty" ELSE "test") /\ pc[t] = "freed"
    BY <1>4 DEF TestClosed, Goto, At, TypeOK
  <2>2. isClosed => Watched'
    BY <2>1 DEF Watched
  <2>3. Joined => Joined'
    BY <1>1, <2>1 DEF Joined, Joiners
  <2> QED BY <1>1, <2>2, <2>3, WatchKept
<1>5. CASE ~(\E c \in Cons : OnDisconnected(t, c)) /\ ~TestClosed(t)
  <2>1. pc[t] \notin {"freed", "empty", "term", "begin", "wait", "joined"}
    BY <1>5 DEF NetStep, TestActive, RunOther, CheckActive, AllocNetCon, SetSocket,
       PostRecv, OnRecv, OnSent, OnCompletionFailure, At
  <2>2. BusyCons \subseteq BusyCons'
    BY <1>5 DEF NetStep, TestActive, RunOther, CheckActive, AllocNetCon, SetSocket,
       PostRecv, OnRecv, OnSent, OnCompletionFailure, conVars, BusyCons, TypeOK
  <2> QED BY <1>1, <1>2, <2>1, <2>2, WitnessesStay DEF Joiners
<1> QED BY <1>3, <1>4, <1>5

LEMMA HandedJoiner ==
    ASSUME TypeOK, OnlyOnceClosed, StopIsHandedOn, NEW x \in Joiners, JoinerStep(x)
    PROVE  OnlyOnceClosed' /\ StopIsHandedOn'
<1> USE Kinds
<1>1. /\ pc[x] \in {"empty", "term", "begin", "wait", "joined"} /\ phase' = phase
      /\ \A y \in Joiners \ {x} : pc'[y] = pc[y] /\ joining'[y] = joining[y]
      /\ pc' \in [Threads -> Labels]
  BY JoinerFrame DEF Moves, TypeOK
<1>2. isClosed /\ isClosed' = isClosed
  <2>1. isClosed' = isClosed
    BY DEF JoinerStep, TestEmpty, Deactivate, JoinRound, JoinWait, JoinSwap,
       OnDeactivated, flagVars
  <2> QED BY <1>1, <2>1 DEF OnlyOnceClosed
<1>3. OnlyOnceClosed'
  <2>1. pc'[Main] \in {pc[Main], "term", "flag", "test", "begin", "wait", "joined", "returned"}
    BY <1>1 DEF JoinerStep, TestEmpty, Deactivate, JoinRound, JoinWait, JoinSwap,
       OnDeactivated, EnterJoin, Goto, TypeOK
  <2> QED BY <1>2, <2>1 DEF OnlyOnceClosed
<1> SUFFICES StopIsHandedOn'
  BY <1>3
<1>4. BusyCons' = BusyCons
  BY <1>1 DEF BusyCons
<1>5. CASE TestEmpty(x)
  <2>1. pc[x] = "empty" /\ activated' = activated /\ joining' = joining
        /\ (IsEmpty => pc'[x] = "term")
    BY <1>5 DEF TestEmpty, Goto, At, TypeOK, joinVars, flagVars
  <2>2. Watched'
    <3>1. CASE IsEmpty
      BY <2>1, <3>1 DEF Watched
    <3>2. CASE ~IsEmpty
      BY <1>4, <3>2 DEF IsEmpty, BusyCons, Watched
    <3> QED BY <3>1, <3>2
  <2>3. Joined => Joined'
    BY <1>1, <2>1 DEF Joined
  <2> QED BY <1>2, <2>1, <2>2, <2>3, WatchKept
<1>6. CASE Deactivate(x)
  <2>1. ~activated'["net"] /\ pc'[x] = "begin" /\ joining'[x] = "net"
    BY <1>6 DEF Deactivate, EnterJoin, Goto, TypeOK
  <2>2. Joined'
    BY <2>1 DEF Joined
  <2> QED BY <2>1, <2>2 DEF StopIsHandedOn
<1>7. CASE JoinRound(x) \/ JoinWait(x) \/ JoinSwap(x)
  <2>1. /\ activated' = activated /\ joining' = joining /\ pc[x] \in {"begin", "wait"}
        /\ pc'[x] \in {"begin", "wait", "joined"}
    BY <1>7 DEF JoinRound, JoinWait, JoinSwap, Goto, At, TypeOK, flagVars
  <2>2. Watched => Watched'
    BY <1>1, <1>4, <2>1 DEF Watched
  <2>3. Joined => Joined'
    BY <1>1, <2>1 DEF Joined
  <2> QED BY <1>2, <2>1, <2>2, <2>3, WatchKept
<1>8. CASE OnDeactivated(x)
  <2>1. pc[x] = "joined" /\ activated'["net"] = activated["net"]
    BY <1>8 DEF OnDeactivated, At, TypeOK
  <2>2. Watched => Watched'
    BY <1>1, <1>4, <2>1 DEF Watched
  <2>3. CASE joining[x] = "net"
    <3>1. ~activated'["game"]
      BY <1>8, <2>3 DEF OnDeactivated, TypeOK
    <3> QED BY <1>2, <2>1, <2>2, <3>1 DEF StopIsHandedOn
  <2>4. CASE joining[x] # "net"
    <3>1. activated' = activated
      BY <1>8, <2>4 DEF OnDeactivated
    <3>2. Joined => Joined'
      BY <1>1, <2>4 DEF Joined
    <3> QED BY <1>2, <2>2, <3>1, <3>2, WatchKept
  <2> QED BY <2>3, <2>4
<1> QED BY <1>5, <1>6, <1>7, <1>8 DEF JoinerStep

LEMMA HandedMain ==
    ASSUME TypeOK, OnlyOnceClosed, StopIsHandedOn, MainStep
    PROVE  OnlyOnceClosed' /\ StopIsHandedOn'
<1> USE Kinds
<1>1. CASE ActivatePools
  <2>1. /\ ~isClosed /\ isClosed' = isClosed
        /\ activated["net"] => activated'["net"]
        /\ pc[Main] = "start" => activated'["net"]
        /\ pc'[Main] \in {"netup", "running"}
        /\ \A x \in Joiners : pc'[x] \in {pc[x], "test", "netup", "running"}
    BY <1>1 DEF ActivatePools, Activate, At, OnlyOnceClosed, TypeOK, Joiners
  <2> QED BY <2>1 DEF OnlyOnceClosed, StopIsHandedOn
<1>2. CASE Shutdown
  <2>1. /\ pc' = [pc EXCEPT ![Main] = "empty"] /\ isClosed' /\ activated' = activated
        /\ pc[Main] \in {"netup", "running"}
    BY <1>2 DEF Shutdown, Goto, At
  <2>2. activated["net"]
    BY <2>1 DEF OnlyOnceClosed
  <2>3. pc'[Main] = "empty"
    BY <2>1 DEF TypeOK
  <2>4. Watched'
    BY <2>3 DEF Watched
  <2> QED BY <2>1, <2>2, <2>3, <2>4 DEF OnlyOnceClosed, StopIsHandedOn
<1>3. CASE ShutdownFlag \/ ShutdownSweep
  <2>1. /\ pc[Main] \in {"flag", "sweep"}
        /\ activated' = activated /\ isClosed' = isClosed /\ phase' = phase
        /\ pc'[Main] \in {"sweep", "begin"}
        /\ \A y \in Joiners \ {Main} : pc'[y] = pc[y] /\ joining'[y] = joining[y]
    <3>1. CASE ShutdownFlag
      BY <3>1 DEF ShutdownFlag, Goto, At, TypeOK, conVars, joinVars
    <3>2. CASE ShutdownSweep
      BY <3>2 DEF ShutdownSweep, EnterJoin, Goto, At, TypeOK, flagVars
    <3> QED BY <1>3, <3>1, <3>2
  <2>2. isClosed
    BY <2>1 DEF OnlyOnceClosed
  <2> QED BY <2>1, <2>2, WitnessesStay DEF OnlyOnceClosed
<1>4. ASSUME NEW c \in Cons, Connect(c) PROVE OnlyOnceClosed' /\ StopIsHandedOn'
  BY <1>4 DEF Connect, At, flagVars, OnlyOnceClosed, StopIsHandedOn
<1> QED BY <1>1, <1>2, <1>3, <1>4 DEF MainStep

LEMMA Handed == Spec => [](OnlyOnceClosed /\ StopIsHandedOn)
<1>1. Init => OnlyOnceClosed /\ StopIsHandedOn
  BY Kinds DEF Init, OnlyOnceClosed, StopIsHandedOn, Joiners
<1>2. IInv /\ OnlyOnceClosed /\ StopIsHandedOn /\ [Next]_poolVars
        => OnlyOnceClosed' /\ StopIsHandedOn'
  <2> SUFFICES ASSUME IInv, OnlyOnceClosed, StopIsHandedOn, [Next]_poolVars
               PROVE  OnlyOnceClosed' /\ StopIsHandedOn'
    OBVIOUS
  <2>1. CASE UNCHANGED poolVars
    BY <2>1 DEF poolVars, conVars, joinVars, flagVars, OnlyOnceClosed, StopIsHandedOn, Watched, Joined,
       BusyCons
  <2>2. ASSUME NEW g \in GameThreads, GameStep(g)
        PROVE  OnlyOnceClosed' /\ StopIsHandedOn'
    <3>1. /\ UNCHANGED <<conVars, joinVars, flagVars>>
          /\ \A y \in Joiners : pc'[y] = pc[y]
      BY <2>2, Kinds, GameFrame DEF Moves, IInv, TypeOK, Joiners
    <3> QED BY <3>1, Kinds
         DEF conVars, joinVars, flagVars, OnlyOnceClosed, StopIsHandedOn, Watched, Joined,
             BusyCons
  <2> QED BY <2>1, <2>2, HandedNet, HandedJoiner, HandedMain DEF Next, IInv
<1> QED BY <1>1, <1>2, Invariant, PTL DEF Spec

-------------------------------------------------------------------------------
(* Theorems                                                                *)

\* A thread is always somewhere in the code of this module, and serves a
\* connection just while it is in a handler that will post a request for it.
THEOREM TypeCorrect == Spec => []TypeOK
<1>1. IInv => TypeOK
  BY DEF IInv
<1> QED BY <1>1, Invariant, PTL

\* The network threads are told to stop only when no connection was busy: what
\* is busy then became so after the thread that tells them called IsEmpty().
THEOREM StopOnEmpty == Spec => []StopsOnlyWhenEmpty
<1>1. IInv => StopsOnlyWhenEmpty
  BY DEF IInv, SeenEmpty, StopsOnlyWhenEmpty
<1> QED BY <1>1, Invariant, PTL

\* Shutdown() returns, and the game threads are told to stop, only after every
\* thread it should wait for has ended or was given up after a second.
THEOREM LeaveInOrder == Spec => []LeftInOrder
<1>1. IInv => LeftInOrder
  <2> SUFFICES ASSUME IInv PROVE LeftInOrder
    OBVIOUS
  <2>1. opened /\ ~activated["game"] => \A t \in NetThreads : Left(t)
    BY DEF IInv, GameLast
  <2>2. ASSUME pc[Main] = "returned"
        PROVE  \A t \in NetThreads \cup GameThreads : Left(t)
    <3>1. joining[Main] = "game" /\ \A g \in GameThreads : Left(g)
      BY <2>2 DEF IInv, GameLast
    <3>2. CASE GameThreads = {}
      BY <3>2, ThreadPoolsAssumption
    <3>3. CASE ~opened
      BY <3>1, <3>3 DEF IInv, GameLast
    <3>4. CASE opened /\ GameThreads # {}
      BY <3>1, <3>4 DEF IInv, GameLast
    <3> QED BY <3>1, <3>2, <3>3, <3>4
  <2> QED BY <2>1, <2>2 DEF LeftInOrder
<1> QED BY <1>1, Invariant, PTL

\* WaitForSingleObject() is given a closed handle, which a comment in Join() says
\* should not happen, only while two threads join the network threads at once: a
\* thread that joins alone waits for each handle it has not closed, and Shutdown()
\* is always alone in joining the game threads.
THEOREM WaitsAlone == Spec => FailsOnlyInCompany
<1> DEFINE Company == \E x, y \in Joiners : x # y /\ InLoop(x, "net") /\ InLoop(y, "net")
<1>1. IInv /\ ClosedInCompany /\ [Next]_poolVars => (waitFailed' => waitFailed \/ Company)
  <2> SUFFICES ASSUME IInv, ClosedInCompany, [Next]_poolVars, waitFailed', ~waitFailed
               PROVE  Company
    OBVIOUS
  <2>1. PICK x \in Joiners : JoinWait(x)
    <3>1. \A t \in NetThreads : NetStep(t) => UNCHANGED waitFailed
      BY NetFrame DEF IInv, joinVars
    <3>2. \A t \in GameThreads : GameStep(t) => UNCHANGED waitFailed
      BY GameFrame DEF IInv, joinVars
    <3>3. MainStep => UNCHANGED waitFailed
      BY DEF MainStep, ActivatePools, Activate, Shutdown, ShutdownFlag, ShutdownSweep,
         Connect, joinVars
    <3>4. \A x \in Joiners : JoinerStep(x) => JoinWait(x) \/ UNCHANGED waitFailed
      BY DEF JoinerStep, TestEmpty, Deactivate, JoinRound, JoinSwap, OnDeactivated, joinVars
    <3>5. UNCHANGED poolVars => UNCHANGED waitFailed
      BY DEF poolVars, joinVars
    <3> QED BY <3>1, <3>2, <3>3, <3>4, <3>5 DEF Next
  <2>2. PICK h \in todo[x] : h \in closedH
    BY <2>1 DEF JoinWait
  <2>3. ~fault /\ pc[x] = "wait" /\ joining[x] \in Pools
    BY <2>1 DEF JoinWait, At, IInv, TypeOK
  <2>4. PICK y \in Joiners \ {x} : InLoop(y, joining[x])
    BY <2>2, <2>3 DEF ClosedInCompany
  <2>5. x \in NetThreads \/ y \in NetThreads
    BY <2>4 DEF Joiners
  <2>6. joining[x] = "net"
    BY <2>4, <2>5 DEF ClosedInCompany, InLoop
  <2> QED BY <2>3, <2>4, <2>6 DEF InLoop
<1> QED BY <1>1, Invariant, InCompany, PTL DEF Spec, FailsOnlyInCompany

\* FreeNetCon() and Shutdown() test _isClosed and IsEmpty() without a lock and may
\* both find the last connection gone, but never neither: the pools are stopped by
\* somebody, unless a busy connection is never freed or a Join() never ends.
THEOREM SomebodyStops == Spec => []StopIsHandedOn
BY Handed, PTL

===============================================================================

----------------------------- MODULE ConnectionLife -----------------------------
(***************************************************************************)
(* The lives of a client's connections.  NetService::Connect() takes a     *)
(* NetConnection out of the pool, files the game object, gives the         *)
(* connection a socket and posts a ConnectEx; the network threads handle   *)
(* the completions of its requests, each of which carries the address of   *)
(* the connection and says nothing of the use it was posted in; the first  *)
(* that fails ends the use, and the connection, which is never destroyed,  *)
(* goes back to the pool for the next Connect().                           *)
(*                                                                         *)
(* The pool's maps are NetConnectionMgr's subject: here a connection is    *)
(* free, pending or busy.  A socket is the use of the connection that it   *)
(* was made for.                                                           *)
(***************************************************************************)
EXTENDS Naturals, FiniteSets

CONSTANTS Capacity,    \* connections, and slots of _objs
          Objs,        \* game objects that the application connects
          Workers,     \* network threads
          MaxUses,     \* bound: uses of a connection
          MaxSends,    \* bound: packets that are sent
          None         \* no object

ASSUME LifeAssumption ==
    /\ Capacity \in Nat \ {0} /\ MaxUses \in Nat /\ MaxSends \in Nat
    /\ None \notin Objs
    /\ IsFiniteSet(Workers)

Slots == 0 .. (Capacity - 1)
Uses == 1 .. MaxUses
Kinds == {"connect", "read", "write", "disconnect"}
Requests == Slots \X Uses \X Kinds

VARIABLES
    place,      \* the map that the connection is in
    use,        \* its present or last use
    sock,       \* _socket; 0 is INVALID_SOCKET
    parent,     \* NetConnection::_parent
    conOf,      \* NetObj::_con; Capacity for none
    open,       \* sockets that are not closed
    req,        \* outstanding requests
    freeObjs,   \* _freeObjs: pairs of a key and an object
    objs,       \* _objs
    main,       \* where the application's thread is
    mainObj, mainCon,  \* the object that it connects, the object's connection
    pc, at,     \* where each network thread is, and with which connection
    sends,      \* bound
    failed,     \* history: a call for the present use failed at once, or a read of
                \* it part-way
    crowded,    \* history: a use ended with something else still going on
    mixed       \* history: an object was filed after others were connected

conVars == <<place, use, sock, parent, conOf>>
ioVars == <<open, req>>
registryVars == <<freeObjs, objs>>
mainVars == <<main, mainObj, mainCon>>
workVars == <<pc, at>>
historyVars == <<failed, crowded, mixed>>
lifeVars == <<conVars, ioVars, registryVars, mainVars, workVars, sends, historyVars>>

Init ==
    /\ place = [c \in Slots |-> "free"]
    /\ use = [c \in Slots |-> 0]
    /\ sock = [c \in Slots |-> 0]
    /\ parent = [c \in Slots |-> None]
    /\ conOf = [o \in Objs |-> Capacity]
    /\ open = {}
    /\ req = [r \in Requests |-> 0]
    /\ freeObjs = {}
    /\ objs = [c \in Slots |-> None]
    /\ main = "idle" /\ mainObj = None /\ mainCon = 0
    /\ pc = [t \in Workers |-> "idle"]
    /\ at = [t \in Workers |-> 0]
    /\ sends = 0
    /\ failed = [c \in Slots |-> FALSE]
    /\ crowded = FALSE /\ mixed = FALSE

Socket(c) == <<c, sock[c]>>
IsOpen(c) == Socket(c) \in open
Fails(c) == failed' = [failed EXCEPT ![c] = TRUE]

-------------------------------------------------------------------------------
(* Requests                                                                *)

Posted(c, k) == [req EXCEPT ![<<c, sock[c], k>>] = @ + 1]

\* NetSocketBase::Disconnect(NET_CTYPE_SYSTEM): DisconnectEx, which may fail, and
\* closesocket, which makes every request of the socket fail.
Disconnect(c) ==
    /\ open' = open \ {Socket(c)}
    /\ \/ IsOpen(c) /\ req' = Posted(c, "disconnect")
       \/ UNCHANGED req

\* A WSARecv, WSASend or ConnectEx is posted or fails at once; then Otherwise.
Post(c, k, Otherwise) ==
    \/ IsOpen(c) /\ req' = Posted(c, k) /\ UNCHANGED <<open, failed>>
    \/ Fails(c) /\ Otherwise

-------------------------------------------------------------------------------
(* The application's thread                                                *)

\* RegisterNetObj: RegisterCon() takes the first free connection, and object and
\* connection are told of each other.  That an object in use is not connected again is
\* the caller's affair: the code does not test it.
RegisterCon(o) ==
    /\ main = "idle"
    /\ conOf[o] \in Slots => place[conOf[o]] # "busy"
    /\ \E c \in Slots :
        /\ place[c] = "free" /\ \A d \in Slots : place[d] = "free" => c <= d
        /\ use[c] < MaxUses
        /\ place' = [place EXCEPT ![c] = "pending"]
        /\ conOf' = [conOf EXCEPT ![o] = c]
        /\ parent' = [parent EXCEPT ![c] = o]
        /\ mainCon' = c
    /\ main' = "file" /\ mainObj' = o
    /\ UNCHANGED <<use, sock, ioVars, registryVars, workVars, sends, historyVars>>

Filed(slot) == \E p \in freeObjs : p[1] = slot

\* emplace leaves what is filed under the slot.
Emplace(slot, o) ==
    freeObjs' = IF Filed(slot) THEN freeObjs ELSE freeObjs \cup {<<slot, o>>}

\* The rest of RegisterNetObj: the object is filed under the number of objects
\* that are filed.
RegisterNetObj ==
    /\ main = "file"
    /\ Emplace(Cardinality(freeObjs), mainObj)
    /\ mixed' = (mixed \/ use[mainCon] > 0 \/ \E c \in Slots : objs[c] # None)
    /\ main' = "alloc"
    /\ UNCHANGED <<conVars, ioVars, objs, mainObj, mainCon, workVars, sends, failed,
                   crowded>>

\* socket() and AllocNetCon(id, sock).  If there is no socket the connection stays
\* pending.
AllocNetCon ==
    /\ main = "alloc"
    /\ \/ /\ place' = [place EXCEPT ![mainCon] = "busy"]
          /\ use' = [use EXCEPT ![mainCon] = @ + 1]
          /\ sock' = [sock EXCEPT ![mainCon] = use'[mainCon]]
          /\ open' = open \cup {<<mainCon, use'[mainCon]>>}
          /\ failed' = [failed EXCEPT ![mainCon] = FALSE]
          /\ main' = "associate"
       \/ main' = "idle" /\ UNCHANGED <<place, use, sock, open, failed>>
    /\ UNCHANGED <<parent, conOf, req, registryVars, mainObj, mainCon, workVars, sends,
                   crowded, mixed>>

\* CreateIoCompletionPort, and SetSocket in NetSocketBase::Connect.
Associate ==
    /\ main = "associate"
    /\ \/ /\ main' = "connect"
          /\ sock' = [sock EXCEPT ![mainCon] = use[mainCon]]
          /\ UNCHANGED failed
       \/ main' = "idle" /\ Fails(mainCon) /\ UNCHANGED sock
    /\ UNCHANGED <<place, use, parent, conOf, ioVars, registryVars, mainObj, mainCon,
                   workVars, sends, crowded, mixed>>

\* NetworkAPI::Connect: bind and ConnectEx, whose failure is not looked at.
Connect ==
    /\ main = "connect"
    /\ main' = "idle"
    /\ Post(mainCon, "connect", UNCHANGED <<open, req>>)
    /\ UNCHANGED <<conVars, registryVars, mainObj, mainCon, workVars, sends, crowded,
                   mixed>>

\* NetConnectionMgr::Shutdown: no connection is given out any more, and the
\* sockets of the busy ones are closed.
Shutdown ==
    /\ main = "idle"
    /\ main' = "done"
    /\ open' = open \ {Socket(c) : c \in {d \in Slots : place[d] = "busy"}}
    /\ UNCHANGED <<conVars, req, registryVars, mainObj, mainCon, workVars, sends,
                   historyVars>>

\* The game sends on a connection: PostSend.
Send(c) ==
    /\ sends < MaxSends /\ sends' = sends + 1
    /\ place[c] = "busy" /\ objs[c] # None
    /\ Post(c, "write", Disconnect(c))
    /\ UNCHANGED <<conVars, registryVars, mainVars, workVars, crowded, mixed>>

-------------------------------------------------------------------------------
(* The network threads                                                     *)

Goto(t, l) == pc' = [pc EXCEPT ![t] = l]

\* Mutant: a timeout of the wait is taken for a completion.
TakeOnTimeout(t, c, u, k) ==
    /\ pc[t] = "idle"
    /\ req' = [req EXCEPT ![<<c, u, k>>] = @ - 1]
    /\ at' = [at EXCEPT ![t] = c]

\* NetWorker::Run takes a completion, for whatever use its connection is in.
Take(t, c, u, k) ==
    /\ pc[t] = "idle"
    /\ req[<<c, u, k>>] > 0
    /\ req' = [req EXCEPT ![<<c, u, k>>] = @ - 1]
    /\ at' = [at EXCEPT ![t] = c]

\* The ConnectEx or a WSARecv succeeded.
OnSuccess(t, c, u) ==
    /\ <<c, u>> \in open
    /\ \/ Take(t, c, u, "connect") /\ Goto(t, "connected")
       \/ Take(t, c, u, "read") /\ Goto(t, "recv")
    /\ UNCHANGED <<conVars, open, registryVars, mainVars, sends, historyVars>>

\* A WSASend succeeded, and there is nothing more to send.
OnSent(t, c, u) ==
    /\ <<c, u>> \in open
    /\ Take(t, c, u, "write")
    /\ UNCHANGED <<conVars, open, registryVars, mainVars, sends, pc, historyVars>>

\* OnCompletionFailure, for a WSARecv or WSASend that failed with some bytes
\* transferred: nothing is posted in its place.
OnCompletionFailure(t, c, u) ==
    /\ \/ Take(t, c, u, "read") /\ failed' = [failed EXCEPT ![c] = @ \/ u = use[c]]
       \/ Take(t, c, u, "write") /\ UNCHANGED failed
    /\ UNCHANGED <<conVars, open, registryVars, mainVars, sends, pc, crowded, mixed>>

\* Mutant: OnRecv reads no more.
PostFirstRecv(t) ==
    /\ pc[t] \in {"connected", "recv"}
    /\ IF pc[t] = "connected"
       THEN Goto(t, "alloc") /\ Post(at[t], "read", Disconnect(at[t]))
       ELSE Goto(t, "idle") /\ UNCHANGED <<ioVars, failed>>
    /\ UNCHANGED <<conVars, registryVars, mainVars, at, sends, crowded, mixed>>

\* PostRecv, at the end of OnRecv or in OnConnected, where the game object comes
\* next.
PostRecv(t) ==
    /\ pc[t] \in {"connected", "recv"}
    /\ Goto(t, IF pc[t] = "connected" THEN "alloc" ELSE "idle")
    /\ Post(at[t], "read", Disconnect(at[t]))
    /\ UNCHANGED <<conVars, registryVars, mainVars, at, sends, crowded, mixed>>

\* The slot that NetObj::GetCompId() names: that of the connection that the
\* connection's object has now.
SlotOf(c) == conOf[parent[c]]

\* Mutant: the next free object will do.
AllocAnyNetObj(t) ==
    /\ pc[t] = "alloc"
    /\ \E p \in freeObjs :
        /\ freeObjs' = freeObjs \ {p}
        /\ objs' = [objs EXCEPT ![SlotOf(at[t])] = p[2]]
    /\ Goto(t, "idle")
    /\ UNCHANGED <<conVars, ioVars, mainVars, at, sends, historyVars>>

\* AllocNetObj: what is filed under the slot becomes the connection's object.
AllocNetObj(t) ==
    /\ pc[t] = "alloc"
    /\ LET slot == SlotOf(at[t])
       IN  IF Filed(slot)
           THEN \E p \in freeObjs :
                    /\ p[1] = slot
                    /\ freeObjs' = freeObjs \ {p}
                    /\ objs' = [objs EXCEPT ![slot] = p[2]]
           ELSE UNCHANGED <<freeObjs, objs>>
    /\ Goto(t, "idle")
    /\ UNCHANGED <<conVars, ioVars, mainVars, at, sends, historyVars>>

\* What goes on for c, not counting t.
Others(t, c) ==
    \/ \E u \in Uses, k \in Kinds : req'[<<c, u, k>>] > 0
    \/ \E o \in Workers \ {t} : pc[o] # "idle" /\ at[o] = c
    \/ main \in {"file", "alloc", "associate", "connect"} /\ mainCon = c

\* A request failed with nothing transferred, or the DisconnectEx succeeded:
\* NetSocketBase::OnDisconnected, which does not close the socket.
OnDisconnected(t, c, u) ==
    /\ \E k \in Kinds : Take(t, c, u, k)
    /\ Goto(t, "unfile")
    /\ sock' = [sock EXCEPT ![c] = 0]
    /\ crowded' = (crowded \/ Others(t, c))
    /\ UNCHANGED <<place, use, parent, conOf, open, registryVars, mainVars, sends,
                   failed, mixed>>

\* Mutant: the object stays in _objs.
KeepNetObj(t) ==
    /\ pc[t] = "unfile"
    /\ Goto(t, "free")
    /\ UNCHANGED <<conVars, ioVars, registryVars, mainVars, at, sends, historyVars>>

\* FreeNetObj.
FreeNetObj(t) ==
    /\ pc[t] = "unfile"
    /\ LET slot == SlotOf(at[t])
       IN  IF objs[slot] # None
           THEN Emplace(slot, objs[slot]) /\ objs' = [objs EXCEPT ![slot] = None]
           ELSE UNCHANGED <<freeObjs, objs>>
    /\ Goto(t, "free")
    /\ UNCHANGED <<conVars, ioVars, mainVars, at, sends, historyVars>>

\* FreeNetCon: a connection that is in the busy map goes back to the free ones.
FreeNetCon(t) ==
    /\ pc[t] = "free"
    /\ place' = [place EXCEPT ![at[t]] = IF @ = "busy" THEN "free" ELSE @]
    /\ Goto(t, "idle")
    /\ UNCHANGED <<use, sock, parent, conOf, ioVars, registryVars, mainVars, at, sends,
                   historyVars>>

-------------------------------------------------------------------------------
MainStep ==
    \/ \E o \in Objs : RegisterCon(o)
    \/ RegisterNetObj \/ AllocNetCon \/ Associate \/ Connect \/ Shutdown

WorkerStep(t) ==
    \/ \E c \in Slots, u \in Uses :
        \/ OnSuccess(t, c, u) \/ OnSent(t, c, u)
        \/ OnCompletionFailure(t, c, u) \/ OnDisconnected(t, c, u)
    \/ PostRecv(t) \/ AllocNetObj(t) \/ FreeNetObj(t) \/ FreeNetCon(t)

Next ==
    \/ MainStep
    \/ \E c \in Slots : Send(c)
    \/ \E t \in Workers : WorkerStep(t)

Spec == Init /\ [][Next]_lifeVars

-------------------------------------------------------------------------------
(* Properties                                                              *)

TypeOK ==
    /\ place \in [Slots -> {"free", "pending", "busy"}]
    /\ use \in [Slots -> 0 .. MaxUses]
    /\ sock \in [Slots -> Nat] /\ \A c \in Slots : sock[c] \in {0, use[c]}
    /\ parent \in [Slots -> Objs \cup {None}]
    /\ conOf \in [Objs -> 0 .. Capacity]
    /\ open \subseteq Slots \X Uses
    /\ req \in [Requests -> Nat]
    /\ freeObjs \subseteq Nat \X Objs
    /\ objs \in [Slots -> Objs \cup {None}]
    /\ main \in {"idle", "file", "alloc", "associate", "connect", "done"}
    /\ mainObj \in Objs \cup {None} /\ mainCon \in Slots
    /\ pc \in [Workers -> {"idle", "connected", "recv", "alloc", "unfile", "free"}]
    /\ at \in [Workers -> Slots]
    /\ sends \in 0 .. MaxSends
    /\ failed \in [Slots -> BOOLEAN] /\ crowded \in BOOLEAN /\ mixed \in BOOLEAN

Requested(c, kinds) == \E u \in Uses, k \in kinds : req[<<c, u, k>>] > 0

\* Places of a thread that will yet post a request or free the connection.
Pursuing == {"connected", "recv", "unfile", "free"}

\* A busy connection has a request of its present use outstanding, a send not counted,
\* or somebody at work that will post one or free it, unless in this use a call failed
\* at once or a read failed when it had transferred some bytes: it is only then that
\* the connection can stay busy for ever, and Shutdown() waits for it.
BusyHasRequest ==
    \A c \in Slots : place[c] = "busy" /\ ~failed[c] =>
        \/ \E u \in Uses, k \in Kinds \ {"write"} : u = use[c] /\ req[<<c, u, k>>] > 0
        \/ \E t \in Workers : pc[t] \in Pursuing /\ at[t] = c
        \/ main \in {"associate", "connect"} /\ mainCon = c

\* As long as every use ended with nothing else going on for its connection, a
\* connection that is not in use has no request, no handler, no socket and no object.
FreeIsQuiet ==
    ~crowded =>
        \A c \in Slots : place[c] # "busy" =>
            /\ ~Requested(c, Kinds) /\ sock[c] = 0 /\ objs[c] = None
            /\ \A t \in Workers : pc[t] = "idle" \/ at[t] # c

\* The object that is filed for a connection is the one that was registered for it,
\* unless objects were registered when others were connected, or for the second
\* use of a connection.
FiledIsParent ==
    ~crowded /\ ~mixed => \A c \in Slots : objs[c] \in {None, parent[c]}

\* With its application, its requests and its handlers, of which several may end
\* the same use, a connection still goes round free -> pending -> busy -> free.
Pool == INSTANCE ConnectionPool WITH
    Cons <- Slots, MaxGeneration <- MaxUses,
    phase <- place, generation <- use

ImplementsPool == Pool!Spec

===============================================================================

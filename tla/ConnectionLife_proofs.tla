------------------------- MODULE ConnectionLife_proofs -------------------------
(***************************************************************************)
(* Proofs about ConnectionLife for any number of connections, uses, game   *)
(* objects and network threads.                                            *)
(***************************************************************************)
EXTENDS ConnectionLife, FiniteSetTheorems, FunctionTheorems, TLAPS

\* What each place of the application's thread says of the connection it has.
MainKnows ==
    /\ main \in {"file", "alloc"} => place[mainCon] = "pending" /\ use[mainCon] < MaxUses
    /\ main \in {"associate", "connect"} => use[mainCon] > 0
    /\ main = "file" => mainObj \in Objs

\* A connection that was ever registered has an object, and while it is in use, or the
\* application's thread is about to use it, it is that object's connection.
Paired ==
    \A c \in Slots :
        /\ use[c] > 0 \/ place[c] # "free" => parent[c] # None
        /\ parent[c] # None => conOf[parent[c]] \in Slots
        /\ place[c] = "busy" \/ (main \in {"file", "alloc"} /\ mainCon = c)
            => conOf[parent[c]] = c

\* Only connections that have been in use are handled or have requests.
UsedBefore ==
    /\ \A c \in Slots, u \in Uses, k \in Kinds : req[<<c, u, k>>] > 0 => use[c] > 0
    /\ \A t \in Workers : pc[t] # "idle" => use[at[t]] > 0

TInv == TypeOK /\ IsFiniteSet(freeObjs) /\ MainKnows /\ Paired /\ UsedBefore

\* With no crowd, a thread in OnDisconnected() is all that is left of a use.
Alone(t) ==
    /\ ~Requested(at[t], Kinds) /\ sock[at[t]] = 0
    /\ \A o \in Workers \ {t} : pc[o] = "idle" \/ at[o] # at[t]
    /\ main \in {"file", "alloc", "associate", "connect"} => mainCon # at[t]
    /\ pc[t] = "free" => objs[at[t]] = None

\* What FreeIsQuiet says of one connection.
Quiet(c) ==
    /\ ~Requested(c, Kinds) /\ sock[c] = 0 /\ objs[c] = None
    /\ \A t \in Workers : pc[t] = "idle" \/ at[t] # c

Settled ==
    /\ \A c \in Slots : place[c] # "busy" => Quiet(c)
    /\ \A t \in Workers : pc[t] \in {"unfile", "free"} => Alone(t)
    /\ main \in {"associate", "connect"} => place[mainCon] = "busy"

Calm == ~crowded => Settled

\* A connection that was just registered for the first time, its object not yet filed.
Fresh == main = "file" /\ use[mainCon] = 0
Known(c) == parent[c] # None /\ ~(Fresh /\ c = mainCon)

\* Connections are registered for the first time in the order of their slots.
InTurn ==
    /\ \E n \in Nat : (\A c \in Slots : Known(c) <=> c < n) /\ (Fresh => mainCon = n)
    /\ \A c \in Slots : parent[c] # None => use[c] > 0 \/ place[c] # "free"

\* An object is in one place, under its connection's slot: in _freeObjs or in _objs.
OneEntry ==
    /\ \A p \in freeObjs :
        /\ p[1] \in Slots /\ objs[p[1]] = None /\ Known(p[1])
        /\ p[2] = parent[p[1]] \/ (main = "file" /\ p[1] = mainCon)
    /\ \A p, q \in freeObjs : p[1] = q[1] => p = q
    /\ \A c \in Slots : objs[c] \in {None, parent[c]}
    /\ \A c \in Slots : Known(c) => objs[c] # None \/ Filed(c)
    /\ main = "file" => parent[mainCon] = mainObj

Sorted == ~crowded /\ ~mixed => OneEntry

IInv == TInv /\ BusyHasRequest /\ Calm /\ InTurn /\ Sorted

-------------------------------------------------------------------------------
(* Requests                                                                *)

LEMMA RequestType ==
    \A c \in Slots, u \in Uses, k \in Kinds : <<c, u, k>> \in Requests
BY DEF Requests

LEMMA PostedEffect ==
    ASSUME TInv, NEW c \in Slots, NEW k \in Kinds, IsOpen(c), req' = Posted(c, k)
    PROVE  /\ sock[c] \in Uses /\ sock[c] = use[c]
           /\ req' \in [Requests -> Nat]
           /\ req'[<<c, sock[c], k>>] > 0
           /\ \A d \in Slots, u \in Uses, l \in Kinds :
                /\ req'[<<d, u, l>>] >= req[<<d, u, l>>]
                /\ d # c => req'[<<d, u, l>>] = req[<<d, u, l>>]
<1>1. sock[c] \in Uses /\ sock[c] = use[c]
  BY DEF TInv, TypeOK, IsOpen, Socket, Uses
<1>2. <<c, sock[c], k>> \in Requests
  BY <1>1, RequestType
<1>3. req \in [Requests -> Nat]
  BY DEF TInv, TypeOK
<1>4. req' = [req EXCEPT ![<<c, sock[c], k>>] = @ + 1]
  BY DEF Posted
<1>5. req' \in [Requests -> Nat] /\ req'[<<c, sock[c], k>>] = req[<<c, sock[c], k>>] + 1
      /\ \A r \in Requests : r # <<c, sock[c], k>> => req'[r] = req[r]
  BY <1>2, <1>3, <1>4
<1>6. ASSUME NEW d \in Slots, NEW u \in Uses, NEW l \in Kinds
      PROVE  /\ req'[<<d, u, l>>] >= req[<<d, u, l>>]
             /\ d # c => req'[<<d, u, l>>] = req[<<d, u, l>>]
  <2>1. <<d, u, l>> \in Requests
    BY RequestType
  <2>2. CASE <<d, u, l>> = <<c, sock[c], k>>
    BY <1>2, <1>3, <1>5, <2>2
  <2>3. CASE <<d, u, l>> # <<c, sock[c], k>>
    BY <1>3, <1>5, <2>1, <2>3
  <2> QED BY <2>2, <2>3
<1> QED BY <1>1, <1>2, <1>3, <1>5, <1>6

\* Nothing of another connection changes, and that of this one grows.
Grows(c) ==
    /\ open' \subseteq open
    /\ req' \in [Requests -> Nat]
    /\ \A d \in Slots, u \in Uses, l \in Kinds :
        /\ req'[<<d, u, l>>] >= req[<<d, u, l>>]
        /\ d # c \/ use[c] = 0 \/ sock[c] = 0 => req'[<<d, u, l>>] = req[<<d, u, l>>]

LEMMA PostedGrows ==
    ASSUME TInv, NEW c \in Slots, NEW k \in Kinds, IsOpen(c), req' = Posted(c, k),
           open' \subseteq open
    PROVE  Grows(c)
<1>1. use[c] # 0 /\ sock[c] # 0
  <2>1. sock[c] \in Uses /\ sock[c] = use[c]
    BY PostedEffect
  <2> QED BY <2>1 DEF Uses
<1>2. req' \in [Requests -> Nat]
  BY PostedEffect
<1>3. \A d \in Slots, u \in Uses, l \in Kinds :
        /\ req'[<<d, u, l>>] >= req[<<d, u, l>>]
        /\ d # c => req'[<<d, u, l>>] = req[<<d, u, l>>]
  BY PostedEffect
<1> QED BY <1>1, <1>2, <1>3, Zenon DEF Grows

LEMMA SameEffect ==
    ASSUME TInv, NEW c \in Slots, req' = req, open' \subseteq open PROVE Grows(c)
<1>1. req \in [Requests -> Nat]
  BY DEF TInv, TypeOK
<1>2. \A d \in Slots, u \in Uses, l \in Kinds : req[<<d, u, l>>] \in Nat
  BY <1>1, RequestType
<1> QED BY <1>1, <1>2 DEF Grows

LEMMA DisconnectEffect ==
    ASSUME TInv, NEW c \in Slots, Disconnect(c) PROVE Grows(c)
<1>1. CASE UNCHANGED req
  BY <1>1, SameEffect DEF Disconnect
<1>2. CASE IsOpen(c) /\ req' = Posted(c, "disconnect")
  <2>1. "disconnect" \in Kinds
    BY DEF Kinds
  <2>2. open' \subseteq open
    BY DEF Disconnect
  <2> QED BY <1>2, <2>1, <2>2, PostedGrows
<1> QED BY <1>1, <1>2 DEF Disconnect

\* What a call leaves behind: a request, or the mark of its failure.
Tried(c, k) ==
    /\ failed' \in [Slots -> BOOLEAN]
    /\ \A d \in Slots : (d # c \/ failed[d]) => failed'[d] = failed[d]
    /\ failed'[c] \/ \E u \in Uses : u = use[c] /\ req'[<<c, u, k>>] > 0

LEMMA PostEffect ==
    ASSUME TInv, NEW c \in Slots, NEW k \in Kinds,
           \/ Post(c, k, Disconnect(c))
           \/ Post(c, k, UNCHANGED <<open, req>>)
    PROVE  Grows(c) /\ Tried(c, k)
<1>0. failed \in [Slots -> BOOLEAN]
  BY DEF TInv, TypeOK
<1>1. CASE IsOpen(c) /\ req' = Posted(c, k) /\ UNCHANGED <<open, failed>>
  <2>1. Grows(c)
    BY <1>1, PostedGrows
  <2> QED BY <1>0, <1>1, <2>1, PostedEffect DEF Tried
<1>2. CASE Fails(c) /\ Disconnect(c)
  BY <1>0, <1>2, DisconnectEffect DEF Fails, Tried
<1>3. CASE Fails(c) /\ UNCHANGED <<open, req>>
  <2>1. Grows(c)
    BY <1>3, SameEffect
  <2> QED BY <1>0, <1>3, <2>1 DEF Fails, Tried
<1> QED BY <1>1, <1>2, <1>3 DEF Post

LEMMA TakeEffect ==
    ASSUME TInv, NEW t \in Workers, NEW c \in Slots, NEW u \in Uses, NEW k \in Kinds,
           Take(t, c, u, k)
    PROVE  /\ req[<<c, u, k>>] > 0 /\ use[c] > 0
           /\ req' \in [Requests -> Nat]
           /\ \A d \in Slots, v \in Uses, l \in Kinds :
                /\ req'[<<d, v, l>>] <= req[<<d, v, l>>]
                /\ d # c \/ l # k => req'[<<d, v, l>>] = req[<<d, v, l>>]
           /\ at' \in [Workers -> Slots] /\ at'[t] = c
           /\ \A o \in Workers \ {t} : at'[o] = at[o]
<1>1. <<c, u, k>> \in Requests /\ req \in [Requests -> Nat] /\ at \in [Workers -> Slots]
  BY RequestType DEF TInv, TypeOK
<1>2. req' = [req EXCEPT ![<<c, u, k>>] = @ - 1] /\ req[<<c, u, k>>] > 0
      /\ at' = [at EXCEPT ![t] = c]
  BY DEF Take
<1>3. req' \in [Requests -> Nat] /\ req'[<<c, u, k>>] = req[<<c, u, k>>] - 1
      /\ \A r \in Requests : r # <<c, u, k>> => req'[r] = req[r]
  BY <1>1, <1>2
<1>4. ASSUME NEW d \in Slots, NEW v \in Uses, NEW l \in Kinds
      PROVE  /\ req'[<<d, v, l>>] <= req[<<d, v, l>>]
             /\ d # c \/ l # k => req'[<<d, v, l>>] = req[<<d, v, l>>]
  <2>1. <<d, v, l>> \in Requests
    BY RequestType
  <2>2. CASE <<d, v, l>> = <<c, u, k>>
    BY <1>1, <1>3, <2>2
  <2>3. CASE <<d, v, l>> # <<c, u, k>>
    BY <1>1, <1>3, <2>1, <2>3
  <2> QED BY <2>2, <2>3
<1>5. use[c] > 0
  BY <1>2 DEF TInv, UsedBefore
<1> QED BY <1>1, <1>2, <1>3, <1>4, <1>5

LEMMA TakeLeaves ==
    ASSUME TInv, NEW t \in Workers, NEW c \in Slots, NEW u \in Uses, NEW k \in Kinds,
           Take(t, c, u, k), NEW d \in Slots, NEW v \in Uses, NEW l \in Kinds,
           d # c \/ v # u \/ l # k
    PROVE  req'[<<d, v, l>>] = req[<<d, v, l>>] /\ req[<<d, v, l>>] \in Nat
<1>1. <<c, u, k>> \in Requests /\ <<d, v, l>> \in Requests
  BY RequestType
<1>2. <<d, v, l>> # <<c, u, k>>
  OBVIOUS
<1> QED BY <1>1, <1>2 DEF Take, TInv, TypeOK

-------------------------------------------------------------------------------
(* Types                                                                   *)

LEMMA InitTInv == ASSUME Init PROVE TInv
<1> USE LifeAssumption
<1>1. TypeOK
  <2>1. 0 \in Slots /\ Capacity \in 0 .. Capacity /\ 0 \in 0 .. MaxUses /\ 0 \in 0 .. MaxSends
    BY DEF Slots
  <2>2. /\ place \in [Slots -> {"free", "pending", "busy"}]
        /\ use \in [Slots -> 0 .. MaxUses]
        /\ sock \in [Slots -> Nat] /\ \A c \in Slots : sock[c] \in {0, use[c]}
        /\ parent \in [Slots -> Objs \cup {None}]
        /\ conOf \in [Objs -> 0 .. Capacity]
    BY <2>1 DEF Init
  <2>3. /\ open \subseteq Slots \X Uses
        /\ req \in [Requests -> Nat]
        /\ freeObjs \subseteq Nat \X Objs
        /\ objs \in [Slots -> Objs \cup {None}]
    BY DEF Init
  <2>4. /\ main = "idle" /\ mainObj = None /\ mainCon \in Slots
        /\ pc \in [Workers -> {"idle", "connected", "recv", "alloc", "unfile", "free"}]
        /\ at \in [Workers -> Slots]
        /\ sends \in 0 .. MaxSends
        /\ failed \in [Slots -> BOOLEAN] /\ crowded \in BOOLEAN /\ mixed \in BOOLEAN
    BY <2>1 DEF Init
  <2> QED BY <2>2, <2>3, <2>4 DEF TypeOK
<1>2. IsFiniteSet(freeObjs)
  BY FS_EmptySet DEF Init
<1>3. MainKnows /\ Paired
  BY DEF Init, MainKnows, Paired
<1>4. UsedBefore
  BY RequestType DEF Init, UsedBefore
<1> QED BY <1>1, <1>2, <1>3, <1>4 DEF TInv

LEMMA EmplaceType ==
    ASSUME TInv, NEW slot \in Nat, NEW o \in Objs, Emplace(slot, o)
    PROVE  freeObjs' \subseteq Nat \X Objs /\ IsFiniteSet(freeObjs')
<1>1. freeObjs' = freeObjs \/ freeObjs' = freeObjs \cup {<<slot, o>>}
  BY DEF Emplace
<1>2. IsFiniteSet(freeObjs \cup {<<slot, o>>})
  BY FS_AddElement DEF TInv
<1>3. freeObjs \subseteq Nat \X Objs /\ IsFiniteSet(freeObjs)
  BY DEF TInv, TypeOK
<1>4. <<slot, o>> \in Nat \X Objs
  OBVIOUS
<1>5. freeObjs \cup {<<slot, o>>} \subseteq Nat \X Objs
  BY <1>3, <1>4
<1> QED BY <1>1, <1>2, <1>3, <1>5

\* What a call changes leaves the types and the uses as they were.
LEMMA GrowsType ==
    ASSUME TInv, NEW c \in Slots, Grows(c)
    PROVE  /\ open' \subseteq Slots \X Uses
           /\ \A d \in Slots, u \in Uses, k \in Kinds :
                req'[<<d, u, k>>] > 0 => use[d] > 0
<1>1. ASSUME NEW d \in Slots, NEW u \in Uses, NEW k \in Kinds, req'[<<d, u, k>>] > 0
      PROVE  use[d] > 0
  <2>1. CASE req'[<<d, u, k>>] = req[<<d, u, k>>]
    BY <1>1, <2>1 DEF TInv, UsedBefore
  <2>2. CASE req'[<<d, u, k>>] # req[<<d, u, k>>]
    <3>1. d = c /\ use[c] # 0
      BY <2>2 DEF Grows
    <3> QED BY <3>1 DEF TInv, TypeOK
  <2> QED BY <2>1, <2>2
<1> QED BY <1>1 DEF Grows, TInv, TypeOK

LEMMA MainType == ASSUME TInv, MainStep PROVE TInv'
<1> USE LifeAssumption
<1>1. ASSUME NEW o \in Objs, RegisterCon(o) PROVE TInv'
  <2>1. PICK c \in Slots :
          /\ place[c] = "free" /\ use[c] < MaxUses
          /\ place' = [place EXCEPT ![c] = "pending"]
          /\ conOf' = [conOf EXCEPT ![o] = c]
          /\ parent' = [parent EXCEPT ![c] = o]
          /\ mainCon' = c
    BY <1>1 DEF RegisterCon
  <2>2. /\ conOf[o] \in Slots => place[conOf[o]] # "busy"
        /\ main' = "file" /\ mainObj' = o
        /\ UNCHANGED <<use, sock, ioVars, registryVars, workVars, sends, historyVars>>
    BY <1>1 DEF RegisterCon
  <2>3. TypeOK'
    <3>1. c \in 0 .. Capacity
      BY DEF Slots
    <3>2. /\ place' \in [Slots -> {"free", "pending", "busy"}]
          /\ conOf' \in [Objs -> 0 .. Capacity]
          /\ parent' \in [Slots -> Objs \cup {None}]
      BY <2>1, <3>1 DEF TInv, TypeOK
    <3> QED
      BY <2>1, <2>2, <3>2 DEF TInv, TypeOK, ioVars, registryVars, workVars, historyVars
  <2>4. MainKnows'
    BY <2>1, <2>2 DEF TInv, TypeOK, MainKnows
  <2>5. Paired'
    <3> SUFFICES ASSUME NEW d \in Slots
                 PROVE  /\ use'[d] > 0 \/ place'[d] # "free" => parent'[d] # None
                        /\ parent'[d] # None => conOf'[parent'[d]] \in Slots
                        /\ place'[d] = "busy" \/ (main' \in {"file", "alloc"} /\ mainCon' = d)
                            => conOf'[parent'[d]] = d
      BY DEF Paired
    <3>1. CASE d = c
      BY <2>1, <2>2, <3>1 DEF TInv, TypeOK
    <3>2. CASE d # c
      <4>1. place'[d] = place[d] /\ parent'[d] = parent[d] /\ use'[d] = use[d]
        BY <2>1, <2>2, <3>2 DEF TInv, TypeOK
      <4>2. CASE parent[d] = o
        BY <2>1, <2>2, <4>1, <4>2 DEF TInv, TypeOK, Paired
      <4>3. CASE parent[d] # o
        <5>1. parent[d] # None => conOf'[parent[d]] = conOf[parent[d]]
          BY <2>1, <4>3 DEF TInv, TypeOK
        <5>2. ~(main' \in {"file", "alloc"} /\ mainCon' = d)
          BY <2>1, <3>2
        <5>3. place'[d] = "busy" => conOf[parent[d]] = d /\ parent[d] # None
          BY <4>1 DEF TInv, Paired
        <5> QED BY <4>1, <5>1, <5>2, <5>3 DEF TInv, Paired
      <4> QED BY <4>2, <4>3
    <3> QED BY <3>1, <3>2
  <2>6. UsedBefore'
    BY <2>2 DEF TInv, UsedBefore, ioVars, workVars
  <2> QED BY <2>2, <2>3, <2>4, <2>5, <2>6 DEF TInv, registryVars
<1>2. CASE RegisterNetObj
  <2>1. Cardinality(freeObjs) \in Nat /\ mainObj \in Objs
    BY <1>2, FS_CardinalityType DEF RegisterNetObj, TInv, MainKnows
  <2>2. freeObjs' \subseteq Nat \X Objs /\ IsFiniteSet(freeObjs')
    BY <1>2, <2>1, EmplaceType DEF RegisterNetObj
  <2>3. mixed' \in BOOLEAN
    BY <1>2 DEF RegisterNetObj
  <2>4. /\ main = "file" /\ main' = "alloc"
        /\ UNCHANGED <<conVars, ioVars, objs, mainObj, mainCon, workVars, sends, failed,
                       crowded>>
    BY <1>2 DEF RegisterNetObj
  <2>5. TypeOK'
    BY <2>2, <2>3, <2>4 DEF TInv, TypeOK, conVars, ioVars, workVars
  <2> QED
    BY <2>2, <2>4, <2>5
       DEF TInv, MainKnows, Paired, UsedBefore, conVars, ioVars, workVars
<1>3. CASE AllocNetCon
  <2>1. /\ main = "alloc"
        /\ UNCHANGED <<parent, conOf, req, registryVars, mainObj, mainCon, workVars,
                       sends, crowded, mixed>>
    BY <1>3 DEF AllocNetCon
  <2>2. mainCon \in Slots /\ use[mainCon] + 1 \in Uses /\ place[mainCon] = "pending"
    BY <2>1 DEF TInv, TypeOK, MainKnows, Uses
  <2>3. CASE main' = "idle" /\ UNCHANGED <<place, use, sock, open, failed>>
    BY <2>1, <2>3
       DEF TInv, TypeOK, MainKnows, Paired, UsedBefore, registryVars, workVars
  <2>4. CASE /\ place' = [place EXCEPT ![mainCon] = "busy"]
             /\ use' = [use EXCEPT ![mainCon] = @ + 1]
             /\ sock' = [sock EXCEPT ![mainCon] = use'[mainCon]]
             /\ open' = open \cup {<<mainCon, use'[mainCon]>>}
             /\ failed' = [failed EXCEPT ![mainCon] = FALSE]
             /\ main' = "associate"
    <3>1. use'[mainCon] = use[mainCon] + 1 /\ use' \in [Slots -> 0 .. MaxUses]
          /\ \A d \in Slots : d # mainCon => use'[d] = use[d]
      BY <2>2, <2>4 DEF TInv, TypeOK, Uses
    <3>2. sock' \in [Slots -> Nat] /\ \A d \in Slots : sock'[d] \in {0, use'[d]}
      BY <2>2, <2>4, <3>1 DEF TInv, TypeOK, Uses
    <3>3. open' \subseteq Slots \X Uses
      BY <2>2, <2>4, <3>1 DEF TInv, TypeOK
    <3>4. TypeOK'
      BY <2>1, <2>2, <2>4, <3>1, <3>2, <3>3 DEF TInv, TypeOK, registryVars, workVars
    <3>5. \A d \in Slots : use[d] > 0 => use'[d] > 0
      BY <3>1 DEF TInv, TypeOK
    <3>6. MainKnows' /\ UsedBefore'
      BY <2>1, <2>2, <2>4, <3>1, <3>5
         DEF TInv, TypeOK, MainKnows, UsedBefore, workVars
    <3>7. Paired'
      BY <2>1, <2>2, <2>4, <3>1 DEF TInv, TypeOK, Paired
    <3> QED BY <2>1, <3>4, <3>6, <3>7 DEF TInv, registryVars
  <2> QED BY <1>3, <2>3, <2>4 DEF AllocNetCon
<1>4. CASE Associate
  <2>1. mainCon \in Slots /\ use[mainCon] > 0
    BY <1>4 DEF Associate, TInv, TypeOK, MainKnows
  <2>2. sock' \in [Slots -> Nat] /\ \A d \in Slots : sock'[d] \in {0, use[d]}
    BY <1>4, <2>1 DEF Associate, TInv, TypeOK
  <2>3. failed' \in [Slots -> BOOLEAN] /\ main' \in {"connect", "idle"}
    BY <1>4, <2>1 DEF Associate, Fails, TInv, TypeOK
  <2>4. UNCHANGED <<place, use, parent, conOf, ioVars, registryVars, mainObj, mainCon,
                    workVars, sends, crowded, mixed>>
    BY <1>4 DEF Associate
  <2> QED
    BY <2>1, <2>2, <2>3, <2>4
       DEF TInv, TypeOK, MainKnows, Paired, UsedBefore, ioVars, registryVars, workVars
<1>5. CASE Connect
  <2>1. Grows(mainCon) /\ Tried(mainCon, "connect") /\ mainCon \in Slots
    BY <1>5, PostEffect DEF Connect, TInv, TypeOK, Kinds
  <2>2. main' = "idle" /\ UNCHANGED <<conVars, registryVars, mainObj, mainCon, workVars,
                                     sends, crowded, mixed>>
    BY <1>5 DEF Connect
  <2> QED
    BY <2>1, <2>2, GrowsType
       DEF TInv, TypeOK, MainKnows, Paired, UsedBefore, conVars, registryVars, workVars,
           Grows, Tried
<1>6. CASE Shutdown
  BY <1>6 DEF Shutdown, TInv, TypeOK, MainKnows, Paired, UsedBefore, conVars,
              registryVars, workVars, historyVars
<1> QED BY <1>1, <1>2, <1>3, <1>4, <1>5, <1>6 DEF MainStep

LEMMA SendType == ASSUME TInv, NEW c \in Slots, Send(c) PROVE TInv'
<1>1. Grows(c) /\ Tried(c, "write")
  BY PostEffect DEF Send, Kinds
<1>2. /\ sends' \in 0 .. MaxSends
      /\ UNCHANGED <<conVars, registryVars, mainVars, workVars, crowded, mixed>>
  BY LifeAssumption DEF Send, TInv, TypeOK
<1> QED
  BY <1>1, <1>2, GrowsType
     DEF TInv, TypeOK, MainKnows, Paired, UsedBefore, conVars, registryVars, mainVars,
         workVars, Grows, Tried

\* A thread that is at work has a connection with an object, whose slot SlotOf names.
LEMMA SlotOfType ==
    ASSUME TInv, NEW t \in Workers, pc[t] # "idle" PROVE SlotOf(at[t]) \in Slots
BY DEF TInv, TypeOK, Paired, UsedBefore, SlotOf

\* What a thread that takes a completion leaves as it was.
LEMMA TakeType ==
    ASSUME TInv, NEW t \in Workers, NEW c \in Slots, NEW u \in Uses, NEW k \in Kinds,
           NEW l \in {"idle", "connected", "recv", "unfile"},
           Take(t, c, u, k), pc' = [pc EXCEPT ![t] = l],
           UNCHANGED <<place, use, parent, conOf, open, registryVars, mainVars, sends>>,
           sock' = sock \/ sock' = [sock EXCEPT ![c] = 0],
           failed' \in [Slots -> BOOLEAN], mixed' = mixed, crowded' \in BOOLEAN
    PROVE  TInv'
<1>1. /\ req' \in [Requests -> Nat] /\ at' \in [Workers -> Slots]
      /\ pc' \in [Workers -> {"idle", "connected", "recv", "alloc", "unfile", "free"}]
  BY TakeEffect DEF TInv, TypeOK
<1>2. sock' \in [Slots -> Nat] /\ \A d \in Slots : sock'[d] \in {0, use[d]}
  BY DEF TInv, TypeOK
<1>3. TypeOK'
  BY <1>1, <1>2 DEF TInv, TypeOK, registryVars, mainVars
<1>4. \A d \in Slots, v \in Uses, j \in Kinds : req'[<<d, v, j>>] > 0 => req[<<d, v, j>>] > 0
  <2> SUFFICES ASSUME NEW d \in Slots, NEW v \in Uses, NEW j \in Kinds
               PROVE  req'[<<d, v, j>>] > 0 => req[<<d, v, j>>] > 0
    OBVIOUS
  <2>1. <<d, v, j>> \in Requests /\ req'[<<d, v, j>>] <= req[<<d, v, j>>]
    BY RequestType, TakeEffect
  <2> QED BY <1>1, <2>1 DEF TInv, TypeOK
<1>5. \A o \in Workers : pc'[o] # "idle" => use[at'[o]] > 0
  BY TakeEffect DEF TInv, TypeOK, UsedBefore
<1>6. UsedBefore'
  BY <1>4, <1>5 DEF TInv, UsedBefore
<1> QED BY <1>3, <1>6 DEF TInv, MainKnows, Paired, registryVars, mainVars

LEMMA WorkerType == ASSUME TInv, NEW t \in Workers, WorkerStep(t) PROVE TInv'
<1> USE DEF Goto
<1>1. ASSUME NEW c \in Slots, NEW u \in Uses, OnSuccess(t, c, u) PROVE TInv'
  <2>1. PICK k \in {"connect", "read"}, l \in {"connected", "recv"} :
          Take(t, c, u, k) /\ pc' = [pc EXCEPT ![t] = l]
    BY <1>1 DEF OnSuccess
  <2>2. k \in Kinds /\ crowded' \in BOOLEAN /\ failed' \in [Slots -> BOOLEAN]
    BY <1>1 DEF Kinds, OnSuccess, historyVars, TInv, TypeOK
  <2> QED BY <1>1, <2>1, <2>2, TakeType DEF OnSuccess, conVars, historyVars
<1>2. ASSUME NEW c \in Slots, NEW u \in Uses, OnSent(t, c, u) PROVE TInv'
  <2>1. pc' = [pc EXCEPT ![t] = "idle"]
    BY <1>2 DEF OnSent, Take, TInv, TypeOK
  <2>2. "write" \in Kinds /\ crowded' \in BOOLEAN /\ failed' \in [Slots -> BOOLEAN]
    BY <1>2 DEF Kinds, OnSent, historyVars, TInv, TypeOK
  <2> QED BY <1>2, <2>1, <2>2, TakeType DEF OnSent, conVars, historyVars
<1>3. ASSUME NEW c \in Slots, NEW u \in Uses, OnDisconnected(t, c, u) PROVE TInv'
  <2>1. PICK k \in Kinds : Take(t, c, u, k)
    BY <1>3 DEF OnDisconnected
  <2>2. crowded' \in BOOLEAN
    BY <1>3, Zenon DEF OnDisconnected
  <2>3. failed' \in [Slots -> BOOLEAN]
    BY <1>3 DEF OnDisconnected, TInv, TypeOK
  <2> QED BY <1>3, <2>1, <2>2, <2>3, TakeType DEF OnDisconnected
<1>8. ASSUME NEW c \in Slots, NEW u \in Uses, OnCompletionFailure(t, c, u) PROVE TInv'
  <2>1. PICK k \in {"read", "write"} : Take(t, c, u, k)
    BY <1>8 DEF OnCompletionFailure
  <2>2. k \in Kinds /\ crowded' \in BOOLEAN
    BY <1>8 DEF Kinds, OnCompletionFailure, TInv, TypeOK
  <2>3. failed' \in [Slots -> BOOLEAN]
    BY <1>8 DEF OnCompletionFailure, TInv, TypeOK
  <2>4. pc' = [pc EXCEPT ![t] = "idle"]
    BY <1>8, <2>1 DEF OnCompletionFailure, Take, TInv, TypeOK
  <2> QED BY <1>8, <2>1, <2>2, <2>3, <2>4, TakeType DEF OnCompletionFailure, conVars
<1>4. CASE PostRecv(t)
  <2>1. at[t] \in Slots /\ Grows(at[t]) /\ Tried(at[t], "read")
    BY <1>4, PostEffect DEF PostRecv, TInv, TypeOK, Kinds
  <2>2. /\ pc[t] # "idle"
        /\ pc' = [pc EXCEPT ![t] = IF pc[t] = "connected" THEN "alloc" ELSE "idle"]
        /\ UNCHANGED <<conVars, registryVars, mainVars, at, sends, crowded, mixed>>
    BY <1>4 DEF PostRecv
  <2> QED
    BY <2>1, <2>2, GrowsType
       DEF TInv, TypeOK, MainKnows, Paired, UsedBefore, conVars, registryVars, mainVars,
           Grows, Tried
<1>5. CASE AllocNetObj(t)
  <2>1. SlotOf(at[t]) \in Slots
    BY <1>5, SlotOfType DEF AllocNetObj
  <2>2. \/ UNCHANGED <<freeObjs, objs>>
        \/ \E p \in freeObjs : /\ freeObjs' = freeObjs \ {p}
                               /\ objs' = [objs EXCEPT ![SlotOf(at[t])] = p[2]]
    BY <1>5 DEF AllocNetObj
  <2>3. /\ freeObjs' \subseteq Nat \X Objs /\ IsFiniteSet(freeObjs')
        /\ objs' \in [Slots -> Objs \cup {None}]
    BY <2>1, <2>2, FS_RemoveElement DEF TInv, TypeOK
  <2>4. /\ pc[t] # "idle" /\ pc' = [pc EXCEPT ![t] = "idle"]
        /\ UNCHANGED <<conVars, ioVars, mainVars, at, sends, historyVars>>
    BY <1>5 DEF AllocNetObj
  <2> QED
    BY <2>3, <2>4 DEF TInv, TypeOK, MainKnows, Paired, UsedBefore, conVars, ioVars,
                      mainVars, historyVars
<1>6. CASE FreeNetObj(t)
  <2>1. SlotOf(at[t]) \in Slots
    BY <1>6, SlotOfType DEF FreeNetObj
  <2>2. /\ freeObjs' \subseteq Nat \X Objs /\ IsFiniteSet(freeObjs')
        /\ objs' \in [Slots -> Objs \cup {None}]
    <3>1. CASE objs[SlotOf(at[t])] # None
      <4>1. objs[SlotOf(at[t])] \in Objs /\ SlotOf(at[t]) \in Nat
        BY <2>1, <3>1 DEF TInv, TypeOK, Slots
      <4> QED BY <1>6, <2>1, <3>1, <4>1, EmplaceType DEF FreeNetObj, TInv, TypeOK
    <3>2. CASE objs[SlotOf(at[t])] = None
      BY <1>6, <3>2 DEF FreeNetObj, TInv, TypeOK
    <3> QED BY <3>1, <3>2
  <2>3. /\ pc[t] # "idle" /\ pc' = [pc EXCEPT ![t] = "free"]
        /\ UNCHANGED <<conVars, ioVars, mainVars, at, sends, historyVars>>
    BY <1>6 DEF FreeNetObj
  <2> QED
    BY <2>2, <2>3 DEF TInv, TypeOK, MainKnows, Paired, UsedBefore, conVars, ioVars,
                      mainVars, historyVars
<1>7. CASE FreeNetCon(t)
  <2>1. /\ place' \in [Slots -> {"free", "pending", "busy"}]
        /\ \A c \in Slots : place'[c] = place[c] \/ (place[c] = "busy" /\ place'[c] = "free")
    BY <1>7 DEF FreeNetCon, TInv, TypeOK
  <2>2. /\ pc[t] # "idle" /\ pc' = [pc EXCEPT ![t] = "idle"]
        /\ UNCHANGED <<use, sock, parent, conOf, ioVars, registryVars, mainVars, at, sends,
                       historyVars>>
    BY <1>7 DEF FreeNetCon
  <2>3. TypeOK' /\ UsedBefore'
    BY <2>1, <2>2 DEF TInv, TypeOK, UsedBefore, ioVars, registryVars, mainVars, historyVars
  <2>4. MainKnows' /\ Paired' /\ IsFiniteSet(freeObjs')
    BY <2>1, <2>2 DEF TInv, TypeOK, MainKnows, Paired, registryVars, mainVars
  <2> QED BY <2>3, <2>4 DEF TInv
<1> QED BY <1>1, <1>2, <1>3, <1>4, <1>5, <1>6, <1>7, <1>8 DEF WorkerStep

LEMMA TypeStep == ASSUME TInv, [Next]_lifeVars PROVE TInv'
<1>1. CASE Next
  BY <1>1, MainType, SendType, WorkerType DEF Next
<1>2. CASE UNCHANGED lifeVars
  BY <1>2 DEF TInv, TypeOK, MainKnows, Paired, UsedBefore, lifeVars, conVars, ioVars,
              registryVars, mainVars, workVars, historyVars
<1> QED BY <1>1, <1>2

-------------------------------------------------------------------------------
(* A busy connection has a request or somebody who pursues it              *)

Kept(c) ==
    \/ \E u \in Uses, k \in Kinds \ {"write"} : u = use[c] /\ req[<<c, u, k>>] > 0
    \/ \E t \in Workers : pc[t] \in Pursuing /\ at[t] = c
    \/ main \in {"associate", "connect"} /\ mainCon = c

LEMMA InitBusy == ASSUME Init PROVE BusyHasRequest
BY DEF Init, BusyHasRequest

\* Requests that are added, and a thread that stays, keep what was kept.
LEMMA KeptStays ==
    ASSUME TInv, NEW c \in Slots, Kept(c), use'[c] = use[c],
           \A u \in Uses, k \in Kinds \ {"write"} :
                u = use[c] => req'[<<c, u, k>>] >= req[<<c, u, k>>],
           req' \in [Requests -> Nat],
           \A t \in Workers : pc[t] \in Pursuing /\ at[t] = c =>
                pc'[t] \in Pursuing /\ at'[t] = c,
           main \in {"associate", "connect"} /\ mainCon = c =>
                main' \in {"associate", "connect"} /\ mainCon' = c
    PROVE  Kept(c)'
<1>1. CASE \E u \in Uses, k \in Kinds \ {"write"} : u = use[c] /\ req[<<c, u, k>>] > 0
  <2>1. PICK u \in Uses, k \in Kinds \ {"write"} : u = use[c] /\ req[<<c, u, k>>] > 0
    BY <1>1
  <2>2. req[<<c, u, k>>] \in Nat /\ req'[<<c, u, k>>] \in Nat
        /\ req'[<<c, u, k>>] >= req[<<c, u, k>>]
    BY <2>1, RequestType DEF TInv, TypeOK
  <2>3. req'[<<c, u, k>>] > 0
    BY <2>1, <2>2
  <2> QED BY <2>1, <2>3 DEF Kept
<1>2. CASE \E t \in Workers : pc[t] \in Pursuing /\ at[t] = c
  BY <1>2 DEF Kept
<1>3. CASE main \in {"associate", "connect"} /\ mainCon = c
  BY <1>3 DEF Kept
<1> QED BY <1>1, <1>2, <1>3 DEF Kept

LEMMA BusyIsKept ==
    BusyHasRequest <=> \A c \in Slots : place[c] = "busy" /\ ~failed[c] => Kept(c)
BY DEF BusyHasRequest, Kept

LEMMA MainBusy == ASSUME TInv, BusyHasRequest, MainStep PROVE BusyHasRequest'
<1> SUFFICES ASSUME NEW c \in Slots, place'[c] = "busy", ~failed'[c] PROVE Kept(c)'
  BY DEF BusyHasRequest, Kept
<1>0. req \in [Requests -> Nat] /\ \A u \in Uses, k \in Kinds : req[<<c, u, k>>] \in Nat
  BY RequestType DEF TInv, TypeOK
<1>1. ASSUME NEW o \in Objs, RegisterCon(o) PROVE Kept(c)'
  <2>1. place[c] = "busy" /\ ~failed[c]
    BY <1>1 DEF RegisterCon, historyVars, TInv, TypeOK
  <2>2. main = "idle" /\ UNCHANGED <<ioVars, workVars>>
    BY <1>1 DEF RegisterCon
  <2>3. use'[c] = use[c]
    BY <1>1 DEF RegisterCon
  <2> QED BY <1>0, <2>1, <2>2, <2>3, BusyIsKept, KeptStays DEF ioVars, workVars
<1>2. CASE RegisterNetObj
  <2>1. /\ place[c] = "busy" /\ ~failed[c] /\ main = "file"
        /\ UNCHANGED <<use, ioVars, workVars>>
    BY <1>2 DEF RegisterNetObj, conVars
  <2> QED BY <1>0, <2>1, BusyIsKept, KeptStays DEF ioVars, workVars
<1>3. CASE AllocNetCon
  <2>1. main = "alloc" /\ UNCHANGED <<req, workVars, mainCon>>
    BY <1>3 DEF AllocNetCon
  <2>2. CASE main' = "associate" /\ c = mainCon
    BY <2>1, <2>2 DEF Kept
  <2>3. CASE ~(main' = "associate" /\ c = mainCon)
    <3>1. place[c] = "busy" /\ ~failed[c] /\ use'[c] = use[c]
      BY <1>3, <2>3 DEF AllocNetCon, TInv, TypeOK
    <3> QED BY <1>0, <2>1, <3>1, BusyIsKept, KeptStays DEF workVars
  <2> QED BY <2>2, <2>3
<1>4. CASE Associate
  <2>1. main = "associate" /\ UNCHANGED <<place, use, ioVars, mainCon, workVars>>
    BY <1>4 DEF Associate
  <2>2. CASE main' = "connect" /\ failed' = failed
    BY <1>0, <2>1, <2>2, BusyIsKept, KeptStays DEF ioVars, workVars
  <2>3. CASE Fails(mainCon)
    <3>1. c # mainCon /\ ~failed[c] /\ place[c] = "busy"
      BY <2>1, <2>3 DEF Fails, TInv, TypeOK
    <3> QED BY <1>0, <2>1, <3>1, BusyIsKept, KeptStays DEF ioVars, workVars
  <2> QED BY <1>4, <2>2, <2>3 DEF Associate
<1>5. CASE Connect
  <2>1. Grows(mainCon) /\ Tried(mainCon, "connect") /\ mainCon \in Slots
    BY <1>5, PostEffect DEF Connect, TInv, TypeOK, Kinds
  <2>2. UNCHANGED <<conVars, mainCon, workVars>>
    BY <1>5 DEF Connect
  <2>3. CASE c = mainCon
    BY <2>1, <2>2, <2>3 DEF Tried, Kept, Kinds, conVars
  <2>4. CASE c # mainCon
    <3>1. place[c] = "busy" /\ ~failed[c] /\ use'[c] = use[c]
      BY <2>1, <2>2, <2>4 DEF Tried, conVars
    <3> QED BY <1>0, <2>1, <2>2, <2>4, <3>1, BusyIsKept, KeptStays DEF Grows, workVars
  <2> QED BY <2>3, <2>4
<1>6. CASE Shutdown
  <2>1. /\ place[c] = "busy" /\ ~failed[c] /\ main = "idle"
        /\ UNCHANGED <<use, req, workVars>>
    BY <1>6 DEF Shutdown, conVars, historyVars
  <2> QED BY <1>0, <2>1, BusyIsKept, KeptStays DEF workVars
<1> QED BY <1>1, <1>2, <1>3, <1>4, <1>5, <1>6 DEF MainStep

LEMMA SendBusy ==
    ASSUME TInv, BusyHasRequest, NEW d \in Slots, Send(d) PROVE BusyHasRequest'
<1> SUFFICES ASSUME NEW c \in Slots, place'[c] = "busy", ~failed'[c] PROVE Kept(c)'
  BY DEF BusyHasRequest, Kept
<1>1. Grows(d) /\ Tried(d, "write")
  BY PostEffect DEF Send, Kinds
<1>2. UNCHANGED <<conVars, mainVars, workVars>>
  BY DEF Send
<1>3. place[c] = "busy" /\ ~failed[c] /\ use'[c] = use[c]
  BY <1>1, <1>2 DEF Tried, conVars
<1> QED BY <1>1, <1>2, <1>3, BusyIsKept, KeptStays DEF Grows, mainVars, workVars

\* Others than the one whose thread takes a completion stay kept, and so does that one
\* if the completion is of a send or of an earlier use.
LEMMA TakeKept ==
    ASSUME TInv, BusyHasRequest, NEW t \in Workers, NEW c \in Slots, NEW u \in Uses,
           NEW k \in Kinds, Take(t, c, u, k), UNCHANGED <<place, use, mainVars>>,
           \A o \in Workers \ {t} : pc'[o] = pc[o],
           NEW d \in Slots, d # c \/ u # use[c] \/ k = "write",
           place'[d] = "busy", ~failed'[d], failed'[d] = failed[d]
    PROVE  Kept(d)'
<1>1. pc[t] = "idle" /\ "idle" \notin Pursuing
  BY DEF Take, Pursuing
<1>2. \A v \in Uses, l \in Kinds \ {"write"} :
        v = use[d] => req'[<<d, v, l>>] >= req[<<d, v, l>>]
  <2> SUFFICES ASSUME NEW v \in Uses, NEW l \in Kinds \ {"write"}, v = use[d]
               PROVE  req'[<<d, v, l>>] >= req[<<d, v, l>>]
    OBVIOUS
  <2>1. l \in Kinds /\ (d # c \/ v # u \/ l # k)
    OBVIOUS
  <2>2. req'[<<d, v, l>>] = req[<<d, v, l>>] /\ req[<<d, v, l>>] \in Nat
    BY <2>1, TakeLeaves
  <2> QED BY <2>2
<1>3. \A o \in Workers : pc[o] \in Pursuing /\ at[o] = d => pc'[o] \in Pursuing /\ at'[o] = d
  BY <1>1, TakeEffect
<1>4. req' \in [Requests -> Nat] /\ Kept(d)
  BY TakeEffect, BusyIsKept
<1> QED BY <1>2, <1>3, <1>4, KeptStays DEF mainVars

LEMMA WorkerBusy ==
    ASSUME TInv, BusyHasRequest, NEW t \in Workers, WorkerStep(t) PROVE BusyHasRequest'
<1> USE DEF Goto
<1> SUFFICES ASSUME NEW d \in Slots, place'[d] = "busy", ~failed'[d] PROVE Kept(d)'
  BY DEF BusyHasRequest, Kept
<1>0. req \in [Requests -> Nat] /\ \A u \in Uses, k \in Kinds : req[<<d, u, k>>] \in Nat
  BY RequestType DEF TInv, TypeOK
<1>p. pc \in [Workers -> {"idle", "connected", "recv", "alloc", "unfile", "free"}]
  BY DEF TInv, TypeOK
<1>1. ASSUME NEW c \in Slots, NEW u \in Uses, OnSuccess(t, c, u) PROVE Kept(d)'
  <2>1. PICK k \in {"connect", "read"}, l \in {"connected", "recv"} :
          Take(t, c, u, k) /\ pc' = [pc EXCEPT ![t] = l]
    BY <1>1 DEF OnSuccess
  <2>2. k \in Kinds
    BY DEF Kinds
  <2>3. CASE d = c
    BY <1>p, <2>1, <2>2, <2>3, TakeEffect DEF Kept, Pursuing
  <2>4. CASE d # c
    BY <1>p, <1>1, <2>1, <2>2, <2>4, TakeKept DEF OnSuccess, conVars, historyVars
  <2> QED BY <2>3, <2>4
<1>2. ASSUME NEW c \in Slots, NEW u \in Uses, OnSent(t, c, u) PROVE Kept(d)'
  BY <1>2, TakeKept DEF OnSent, Kinds, conVars, historyVars
<1>8. ASSUME NEW c \in Slots, NEW u \in Uses, OnCompletionFailure(t, c, u) PROVE Kept(d)'
  <2>1. /\ UNCHANGED <<place, use, mainVars>> /\ \A o \in Workers \ {t} : pc'[o] = pc[o]
        /\ "read" \in Kinds /\ "write" \in Kinds
    BY <1>8 DEF OnCompletionFailure, conVars, Kinds
  <2>2. CASE Take(t, c, u, "write") /\ UNCHANGED failed
    BY <2>1, <2>2, TakeKept
  <2>3. CASE /\ Take(t, c, u, "read")
             /\ failed' = [failed EXCEPT ![c] = @ \/ u = use[c]]
    <3>1. (d # c \/ u # use[c]) /\ failed'[d] = failed[d]
      BY <2>3 DEF TInv, TypeOK
    <3> QED BY <2>1, <2>3, <3>1, TakeKept
  <2> QED BY <1>8, <2>2, <2>3 DEF OnCompletionFailure
<1>3. ASSUME NEW c \in Slots, NEW u \in Uses, OnDisconnected(t, c, u) PROVE Kept(d)'
  <2>1. PICK k \in Kinds : Take(t, c, u, k)
    BY <1>3 DEF OnDisconnected
  <2>2. CASE d = c
    BY <1>p, <1>3, <2>1, <2>2, TakeEffect DEF OnDisconnected, Kept, Pursuing
  <2>3. CASE d # c
    BY <1>p, <1>3, <2>1, <2>3, TakeKept DEF OnDisconnected
  <2> QED BY <2>2, <2>3
<1>4. CASE PostRecv(t)
  <2>1. at[t] \in Slots /\ Grows(at[t]) /\ Tried(at[t], "read")
    BY <1>4, PostEffect DEF PostRecv, TInv, TypeOK, Kinds
  <2>2. UNCHANGED <<conVars, mainVars, at>> /\ \A o \in Workers \ {t} : pc'[o] = pc[o]
    BY <1>4, <1>p DEF PostRecv
  <2>3. CASE d = at[t]
    BY <2>1, <2>2, <2>3 DEF Tried, Kept, Kinds, conVars
  <2>4. CASE d # at[t]
    <3>1. Kept(d)
      BY <2>1, <2>2, <2>4, BusyIsKept DEF Tried, conVars
    <3> QED BY <2>1, <2>2, <2>4, <3>1, KeptStays DEF Grows, mainVars, conVars
  <2> QED BY <2>3, <2>4
<1>5. CASE AllocNetObj(t)
  <2>1. pc[t] \notin Pursuing /\ \A o \in Workers \ {t} : pc'[o] = pc[o]
    BY <1>5, <1>p DEF AllocNetObj, Pursuing
  <2>2. UNCHANGED <<conVars, ioVars, mainVars, at, historyVars>>
    BY <1>5 DEF AllocNetObj
  <2>3. Kept(d)
    BY <2>2, BusyIsKept DEF conVars, historyVars
  <2> QED BY <1>0, <2>1, <2>2, <2>3, KeptStays DEF conVars, ioVars, mainVars
<1>6. CASE FreeNetObj(t)
  <2>1. pc'[t] \in Pursuing /\ \A o \in Workers \ {t} : pc'[o] = pc[o]
    BY <1>6, <1>p DEF FreeNetObj, Pursuing
  <2>2. UNCHANGED <<conVars, ioVars, mainVars, at, historyVars>>
    BY <1>6 DEF FreeNetObj
  <2>3. Kept(d)
    BY <2>2, BusyIsKept DEF conVars, historyVars
  <2> QED BY <1>0, <2>1, <2>2, <2>3, KeptStays DEF conVars, ioVars, mainVars
<1>7. CASE FreeNetCon(t)
  <2>1. \A o \in Workers \ {t} : pc'[o] = pc[o]
    BY <1>7, <1>p DEF FreeNetCon
  <2>2. UNCHANGED <<use, ioVars, mainVars, at, historyVars>>
    BY <1>7 DEF FreeNetCon
  <2>3. d # at[t] /\ place[d] = "busy"
    BY <1>7 DEF FreeNetCon, TInv, TypeOK
  <2>4. Kept(d)
    BY <2>2, <2>3, BusyIsKept DEF historyVars
  <2> QED BY <1>0, <2>1, <2>2, <2>3, <2>4, KeptStays DEF ioVars, mainVars
<1> QED BY <1>1, <1>2, <1>3, <1>4, <1>5, <1>6, <1>7, <1>8 DEF WorkerStep

LEMMA BusyStep == ASSUME TInv, BusyHasRequest, [Next]_lifeVars PROVE BusyHasRequest'
<1>1. CASE Next
  BY <1>1, MainBusy, SendBusy, WorkerBusy DEF Next
<1>2. CASE UNCHANGED lifeVars
  BY <1>2 DEF BusyHasRequest, Requested, lifeVars, conVars, ioVars, mainVars, workVars,
              historyVars
<1> QED BY <1>1, <1>2

-------------------------------------------------------------------------------
(* With no crowd, a connection that is not in use is quiet                 *)

\* Requests of one connection that are the same, or fewer.
LEMMA NotRequested ==
    ASSUME NEW c \in Slots, ~Requested(c, Kinds),
           \A u \in Uses, k \in Kinds : req'[<<c, u, k>>] > 0 => req[<<c, u, k>>] > 0
    PROVE  ~Requested(c, Kinds)'
BY DEF Requested

LEMMA InitCalm == ASSUME Init PROVE Calm
<1>0. \A c \in Slots, u \in Uses, k \in Kinds : req[<<c, u, k>>] = 0
  BY RequestType DEF Init
<1>1. ASSUME NEW c \in Slots, Requested(c, Kinds) PROVE FALSE
  <2>1. PICK u \in Uses, k \in Kinds : req[<<c, u, k>>] > 0
    BY <1>1 DEF Requested
  <2> QED BY <1>0, <2>1
<1>2. \A c \in Slots : Quiet(c)
  BY <1>1 DEF Init, Quiet
<1> QED BY <1>2 DEF Init, Calm, Settled

\* A connection whose requests, socket, object and threads stay as they are.
Untouched(c) ==
    /\ \A u \in Uses, k \in Kinds : req'[<<c, u, k>>] > 0 => req[<<c, u, k>>] > 0
    /\ sock'[c] = sock[c] /\ objs'[c] = objs[c]
    /\ \A t \in Workers : pc'[t] = "idle" \/ at'[t] # c \/ (pc'[t] = pc[t] /\ at'[t] = at[t])

LEMMA QuietStays == ASSUME NEW c \in Slots, Quiet(c), Untouched(c) PROVE Quiet(c)'
<1>1. ~Requested(c, Kinds)'
  BY NotRequested DEF Quiet, Untouched
<1> QED BY <1>1 DEF Quiet, Untouched

LEMMA AloneStays ==
    ASSUME NEW t \in Workers, at[t] \in Slots, Alone(t), Untouched(at[t]), at'[t] = at[t],
           pc'[t] = pc[t],
           main' \in {"file", "alloc", "associate", "connect"} => mainCon' # at[t]
    PROVE  Alone(t)'
<1>1. ~Requested(at[t], Kinds)'
  BY NotRequested DEF Alone, Untouched
<1> QED BY <1>1 DEF Alone, Untouched

LEMMA MainCalm == ASSUME TInv, Settled, MainStep PROVE Settled'
<1>0. at \in [Workers -> Slots]
  BY DEF TInv, TypeOK
<1>1. ASSUME NEW o \in Objs, RegisterCon(o) PROVE Settled'
  <2>1. PICK c \in Slots : /\ place[c] = "free" /\ mainCon' = c
                           /\ place' = [place EXCEPT ![c] = "pending"]
    BY <1>1 DEF RegisterCon
  <2>2. main' = "file" /\ UNCHANGED <<req, sock, objs, pc, at>>
    BY <1>1 DEF RegisterCon, ioVars, registryVars, workVars
  <2>3. \A d \in Slots : Untouched(d)
    BY <2>2 DEF Untouched
  <2>4. \A d \in Slots : place'[d] # "busy" => place[d] # "busy"
    BY <2>1 DEF TInv, TypeOK
  <2>5. \A t \in Workers : pc[t] # "idle" => at[t] # c
    BY <2>1 DEF Settled, Quiet
  <2> QED BY <1>0, <2>1, <2>2, <2>3, <2>4, <2>5, QuietStays, AloneStays DEF Settled
<1>2. CASE RegisterNetObj
  <2>1. main = "file" /\ main' = "alloc" /\ UNCHANGED <<place, req, sock, objs, pc, at, mainCon>>
    BY <1>2 DEF RegisterNetObj, conVars, ioVars, workVars
  <2>2. \A d \in Slots : Untouched(d)
    BY <2>1 DEF Untouched
  <2>3. \A t \in Workers : pc[t] \in {"unfile", "free"} => mainCon # at[t]
    BY <2>1 DEF Settled, Alone
  <2> QED BY <1>0, <2>1, <2>2, <2>3, QuietStays, AloneStays DEF Settled
<1>3. CASE AllocNetCon
  <2>1. main = "alloc" /\ UNCHANGED <<req, objs, pc, at, mainCon>> /\ mainCon \in Slots
    BY <1>3 DEF AllocNetCon, registryVars, workVars, TInv, TypeOK
  <2>2. \A t \in Workers : pc[t] \in {"unfile", "free"} => mainCon # at[t]
    BY <2>1 DEF Settled, Alone
  <2>3. /\ \A d \in Slots : d # mainCon => sock'[d] = sock[d] /\ place'[d] = place[d]
        /\ \/ main' = "associate" /\ place'[mainCon] = "busy"
           \/ main' = "idle" /\ UNCHANGED <<place, sock>>
    BY <1>3, <2>1 DEF AllocNetCon, TInv, TypeOK
  <2>4. \A d \in Slots : d # mainCon \/ main' = "idle" => Untouched(d)
    BY <2>1, <2>3 DEF Untouched
  <2> QED BY <1>0, <2>1, <2>2, <2>3, <2>4, QuietStays, AloneStays DEF Settled
<1>4. CASE Associate
  <2>1. /\ main = "associate" /\ main' \in {"connect", "idle"}
        /\ UNCHANGED <<place, req, objs, pc, at, mainCon>> /\ mainCon \in Slots
    BY <1>4 DEF Associate, ioVars, registryVars, workVars, TInv, TypeOK
  <2>2. \A t \in Workers : pc[t] \in {"unfile", "free"} => mainCon # at[t]
    BY <2>1 DEF Settled, Alone
  <2>3. place[mainCon] = "busy" /\ \A d \in Slots : d # mainCon => sock'[d] = sock[d]
    BY <1>4, <2>1 DEF Associate, Settled, TInv, TypeOK
  <2>4. \A d \in Slots : d # mainCon => Untouched(d)
    BY <2>1, <2>3 DEF Untouched
  <2> QED BY <1>0, <2>1, <2>2, <2>3, <2>4, QuietStays, AloneStays DEF Settled
<1>5. CASE Connect
  <2>1. Grows(mainCon) /\ mainCon \in Slots
    BY <1>5, PostEffect DEF Connect, TInv, TypeOK, Kinds
  <2>2. /\ main = "connect" /\ main' = "idle"
        /\ UNCHANGED <<place, sock, objs, pc, at, mainCon>>
    BY <1>5 DEF Connect, conVars, registryVars, workVars
  <2>3. place[mainCon] = "busy"
        /\ \A t \in Workers : pc[t] \in {"unfile", "free"} => mainCon # at[t]
    BY <2>2 DEF Settled, Alone
  <2>4. \A d \in Slots : d # mainCon => Untouched(d)
    BY <2>1, <2>2 DEF Untouched, Grows
  <2> QED BY <1>0, <2>1, <2>2, <2>3, <2>4, QuietStays, AloneStays DEF Settled
<1>6. CASE Shutdown
  <2>1. main' = "done" /\ UNCHANGED <<place, req, sock, objs, pc, at>>
    BY <1>6 DEF Shutdown, conVars, registryVars, workVars
  <2>2. \A d \in Slots : Untouched(d)
    BY <2>1 DEF Untouched
  <2> QED BY <1>0, <2>1, <2>2, QuietStays, AloneStays DEF Settled
<1> QED BY <1>1, <1>2, <1>3, <1>4, <1>5, <1>6 DEF MainStep

LEMMA SendCalm == ASSUME TInv, Settled, NEW c \in Slots, Send(c) PROVE Settled'
<1>0. at \in [Workers -> Slots]
  BY DEF TInv, TypeOK
<1>1. Grows(c) /\ place[c] = "busy" /\ objs[c] # None
  BY PostEffect DEF Send, Kinds
<1>2. UNCHANGED <<place, sock, objs, pc, at, main, mainCon>>
  BY DEF Send, conVars, registryVars, workVars, mainVars
<1>3. \A d \in Slots : d # c \/ sock[d] = 0 => Untouched(d)
  BY <1>1, <1>2 DEF Untouched, Grows
<1>4. \A t \in Workers : pc[t] \in {"unfile", "free"} => Alone(t)'
  <2> SUFFICES ASSUME NEW t \in Workers, pc[t] \in {"unfile", "free"} PROVE Alone(t)'
    OBVIOUS
  <2>1. Alone(t) /\ Untouched(at[t])
    BY <1>0, <1>3 DEF Settled, Alone
  <2> QED BY <1>0, <1>2, <2>1, AloneStays DEF Alone
<1>5. \A d \in Slots : place[d] # "busy" => Quiet(d)'
  BY <1>1, <1>3, QuietStays DEF Settled
<1> QED BY <1>1, <1>2, <1>4, <1>5 DEF Settled

\* A thread that is at work has a busy connection, which is filed under its slot.
LEMMA AtWork ==
    ASSUME TInv, Settled, NEW t \in Workers, pc[t] # "idle"
    PROVE  at[t] \in Slots /\ place[at[t]] = "busy" /\ SlotOf(at[t]) = at[t]
<1>1. at[t] \in Slots
  BY DEF TInv, TypeOK
<1>2. place[at[t]] = "busy"
  BY <1>1 DEF Settled, Quiet
<1> QED BY <1>1, <1>2 DEF TInv, Paired, SlotOf

\* A completion is taken for a busy connection that no thread is alone with.
LEMMA TakeCalm ==
    ASSUME TInv, Settled, NEW t \in Workers, NEW c \in Slots, NEW u \in Uses,
           NEW k \in Kinds, NEW l \in {"idle", "connected", "recv", "unfile"},
           Take(t, c, u, k), pc' = [pc EXCEPT ![t] = l],
           UNCHANGED <<place, registryVars, mainVars>>,
           \/ sock' = sock /\ l # "unfile"
           \/ sock' = [sock EXCEPT ![c] = 0] /\ ~Others(t, c)
    PROVE  Settled'
<1>0. /\ at \in [Workers -> Slots] /\ sock \in [Slots -> Nat]
      /\ pc \in [Workers -> {"idle", "connected", "recv", "alloc", "unfile", "free"}]
  BY DEF TInv, TypeOK
<1>1. Requested(c, Kinds)
  BY TakeEffect DEF Requested
<1>2. place[c] = "busy" /\ \A o \in Workers : pc[o] \in {"unfile", "free"} => at[o] # c
  BY <1>1 DEF Settled, Quiet, Alone
<1>3. at'[t] = c /\ pc'[t] = l /\ pc[t] = "idle"
      /\ \A o \in Workers \ {t} : at'[o] = at[o] /\ pc'[o] = pc[o]
  BY <1>0, TakeEffect DEF Take
<1>4. ASSUME NEW d \in Slots, d # c PROVE Untouched(d)
  <2>1. \A v \in Uses, j \in Kinds : req'[<<d, v, j>>] = req[<<d, v, j>>]
    BY <1>4, TakeLeaves
  <2>2. sock'[d] = sock[d] /\ objs'[d] = objs[d]
    BY <1>0, <1>4 DEF registryVars
  <2>3. \A o \in Workers : at'[o] # d \/ (pc'[o] = pc[o] /\ at'[o] = at[o])
    BY <1>3, <1>4
  <2> QED BY <2>1, <2>2, <2>3 DEF Untouched
<1>5. ASSUME NEW d \in Slots, place'[d] # "busy" PROVE Quiet(d)'
  BY <1>2, <1>4, <1>5, QuietStays DEF Settled
<1>6. ASSUME NEW o \in Workers, pc'[o] \in {"unfile", "free"} PROVE Alone(o)'
  <2>1. CASE o # t
    <3>1. Alone(o) /\ at[o] # c /\ at[o] \in Slots /\ at'[o] = at[o] /\ pc'[o] = pc[o]
      BY <1>0, <1>2, <1>3, <1>6, <2>1 DEF Settled
    <3>2. Untouched(at[o])
      BY <1>4, <3>1
    <3> QED BY <3>1, <3>2, AloneStays DEF Alone, mainVars
  <2>2. CASE o = t
    <3>1. sock'[c] = 0 /\ ~Others(t, c) /\ pc'[t] = "unfile"
      BY <1>0, <1>3, <1>6, <2>2
    <3>2. ~Requested(c, Kinds)'
      BY <3>1 DEF Others, Requested
    <3>3. \A p \in Workers \ {t} : pc'[p] = "idle" \/ at'[p] # c
      BY <1>3, <3>1 DEF Others
    <3>4. main' \in {"file", "alloc", "associate", "connect"} => mainCon' # c
      BY <3>1 DEF Others, mainVars
    <3> QED BY <1>3, <2>2, <3>1, <3>2, <3>3, <3>4 DEF Alone
  <2> QED BY <2>1, <2>2
<1> QED BY <1>5, <1>6 DEF Settled, mainVars

LEMMA WorkerCalm ==
    ASSUME TInv, Settled, NEW t \in Workers, WorkerStep(t), ~crowded' PROVE Settled'
<1> USE DEF Goto
<1>0. /\ at \in [Workers -> Slots]
      /\ pc \in [Workers -> {"idle", "connected", "recv", "alloc", "unfile", "free"}]
  BY DEF TInv, TypeOK
<1>1. ASSUME NEW c \in Slots, NEW u \in Uses, OnSuccess(t, c, u) PROVE Settled'
  <2>1. PICK k \in {"connect", "read"}, l \in {"connected", "recv"} :
          Take(t, c, u, k) /\ pc' = [pc EXCEPT ![t] = l]
    BY <1>1 DEF OnSuccess
  <2>2. k \in Kinds
    BY DEF Kinds
  <2> QED BY <1>1, <2>1, <2>2, TakeCalm DEF OnSuccess, conVars
<1>2. ASSUME NEW c \in Slots, NEW u \in Uses, OnSent(t, c, u) PROVE Settled'
  <2>1. pc' = [pc EXCEPT ![t] = "idle"] /\ "write" \in Kinds
    BY <1>0, <1>2 DEF OnSent, Take, Kinds
  <2> QED BY <1>2, <2>1, TakeCalm DEF OnSent, conVars
<1>3. ASSUME NEW c \in Slots, NEW u \in Uses, OnDisconnected(t, c, u) PROVE Settled'
  <2>1. PICK k \in Kinds : Take(t, c, u, k)
    BY <1>3 DEF OnDisconnected
  <2>2. crowded' = (crowded \/ Others(t, c))
    BY <1>3 DEF OnDisconnected
  <2>3. ~Others(t, c)
    BY <2>2, Zenon
  <2>4. /\ pc' = [pc EXCEPT ![t] = "unfile"] /\ sock' = [sock EXCEPT ![c] = 0]
        /\ UNCHANGED <<place, registryVars, mainVars>>
    BY <1>3 DEF OnDisconnected
  <2> QED BY <2>1, <2>3, <2>4, TakeCalm
<1>8. ASSUME NEW c \in Slots, NEW u \in Uses, OnCompletionFailure(t, c, u) PROVE Settled'
  <2>1. PICK k \in {"read", "write"} : Take(t, c, u, k)
    BY <1>8 DEF OnCompletionFailure
  <2>2. pc' = [pc EXCEPT ![t] = "idle"] /\ k \in Kinds
    BY <1>0, <1>8, <2>1 DEF OnCompletionFailure, Take, Kinds
  <2> QED BY <1>8, <2>1, <2>2, TakeCalm DEF OnCompletionFailure, conVars
<1>4. CASE PostRecv(t)
  <2>1. at[t] \in Slots /\ Grows(at[t])
    BY <1>4, PostEffect DEF PostRecv, TInv, TypeOK, Kinds
  <2>2. /\ pc[t] \in {"connected", "recv"}
        /\ pc' = [pc EXCEPT ![t] = IF pc[t] = "connected" THEN "alloc" ELSE "idle"]
        /\ UNCHANGED <<place, sock, objs, at, main, mainCon>>
    BY <1>4 DEF PostRecv, conVars, registryVars, mainVars
  <2>3. place[at[t]] = "busy"
    BY <2>2, AtWork
  <2>4. \A o \in Workers : pc[o] \in {"unfile", "free"} => o # t /\ at[o] # at[t]
    BY <2>2 DEF Settled, Alone
  <2>5. \A d \in Slots : d # at[t] => Untouched(d)
    BY <1>0, <2>1, <2>2 DEF Untouched, Grows
  <2>6. \A o \in Workers : pc'[o] \in {"unfile", "free"} => pc[o] = pc'[o] /\ o # t
    BY <1>0, <2>2
  <2>7. \A o \in Workers : pc'[o] \in {"unfile", "free"} => Alone(o)'
    BY <1>0, <2>2, <2>4, <2>5, <2>6, AloneStays DEF Settled, Alone
  <2>8. \A d \in Slots : place'[d] # "busy" => Quiet(d)'
    BY <2>2, <2>3, <2>5, QuietStays DEF Settled
  <2> QED BY <2>2, <2>7, <2>8 DEF Settled
<1>5. CASE AllocNetObj(t)
  <2>1. /\ pc[t] = "alloc" /\ pc' = [pc EXCEPT ![t] = "idle"]
        /\ UNCHANGED <<place, req, sock, at, main, mainCon>>
    BY <1>5 DEF AllocNetObj, conVars, ioVars, mainVars
  <2>2. at[t] \in Slots /\ place[at[t]] = "busy" /\ SlotOf(at[t]) = at[t]
    BY <2>1, AtWork
  <2>3. \A d \in Slots : d # at[t] => objs'[d] = objs[d]
    BY <1>5, <2>2 DEF AllocNetObj, TInv, TypeOK
  <2>4. \A o \in Workers : pc[o] \in {"unfile", "free"} => o # t /\ at[o] # at[t]
    BY <2>1 DEF Settled, Alone
  <2>5. \A d \in Slots : d # at[t] => Untouched(d)
    BY <1>0, <2>1, <2>3 DEF Untouched
  <2>6. \A o \in Workers : pc'[o] \in {"unfile", "free"} => pc[o] = pc'[o] /\ o # t
    BY <1>0, <2>1
  <2>7. \A o \in Workers : pc'[o] \in {"unfile", "free"} => Alone(o)'
    BY <1>0, <2>1, <2>4, <2>5, <2>6, AloneStays DEF Settled, Alone
  <2>8. \A d \in Slots : place'[d] # "busy" => Quiet(d)'
    BY <2>1, <2>2, <2>5, QuietStays DEF Settled
  <2> QED BY <2>1, <2>7, <2>8 DEF Settled
<1>6. CASE FreeNetObj(t)
  <2>1. /\ pc[t] = "unfile" /\ pc' = [pc EXCEPT ![t] = "free"]
        /\ UNCHANGED <<place, req, sock, at, main, mainCon>>
    BY <1>6 DEF FreeNetObj, conVars, ioVars, mainVars
  <2>2. at[t] \in Slots /\ place[at[t]] = "busy" /\ SlotOf(at[t]) = at[t]
    BY <2>1, AtWork
  <2>3. objs'[at[t]] = None /\ \A d \in Slots : d # at[t] => objs'[d] = objs[d]
    BY <1>6, <2>2 DEF FreeNetObj, TInv, TypeOK
  <2>4. Alone(t) /\ \A o \in Workers \ {t} : pc[o] # "idle" => at[o] # at[t]
    BY <2>1 DEF Settled, Alone
  <2>5. \A d \in Slots : d # at[t] => Untouched(d)
    BY <1>0, <2>1, <2>3 DEF Untouched
  <2>6. \A o \in Workers \ {t} : pc'[o] = pc[o]
    BY <1>0, <2>1
  <2>7. \A o \in Workers \ {t} : pc'[o] \in {"unfile", "free"} => Alone(o)'
    BY <1>0, <2>1, <2>4, <2>5, <2>6, AloneStays DEF Settled, Alone
  <2>8. Alone(t)'
    <3>1. ~Requested(at[t], Kinds)'
      BY <2>1, <2>4 DEF Alone, Requested
    <3> QED BY <2>1, <2>3, <2>4, <2>6, <3>1 DEF Alone
  <2>9. \A d \in Slots : place'[d] # "busy" => Quiet(d)'
    BY <2>1, <2>2, <2>5, QuietStays DEF Settled
  <2> QED BY <2>1, <2>7, <2>8, <2>9 DEF Settled
<1>7. CASE FreeNetCon(t)
  <2>1. /\ pc[t] = "free" /\ pc' = [pc EXCEPT ![t] = "idle"]
        /\ UNCHANGED <<req, sock, objs, at, main, mainCon>>
    BY <1>7 DEF FreeNetCon, ioVars, registryVars, mainVars
  <2>2. at[t] \in Slots /\ Alone(t)
    BY <1>0, <2>1 DEF Settled
  <2>3. \A d \in Slots : d # at[t] => place'[d] = place[d]
    BY <1>7, <2>2 DEF FreeNetCon, TInv, TypeOK
  <2>4. \A d \in Slots : Untouched(d)
    BY <1>0, <2>1 DEF Untouched
  <2>5. \A o \in Workers : pc'[o] \in {"unfile", "free"} => pc[o] = pc'[o] /\ o # t
    BY <1>0, <2>1
  <2>6. \A o \in Workers : pc'[o] \in {"unfile", "free"} => Alone(o)'
    BY <1>0, <2>1, <2>4, <2>5, AloneStays DEF Settled, Alone
  <2>7. Quiet(at[t])'
    <3>1. ~Requested(at[t], Kinds)'
      BY <2>1, <2>2 DEF Alone, Requested
    <3> QED BY <1>0, <2>1, <2>2, <3>1 DEF Alone, Quiet
  <2>8. \A d \in Slots : place'[d] # "busy" => Quiet(d)'
    BY <2>1, <2>3, <2>4, <2>7, QuietStays DEF Settled
  <2>9. main' \in {"associate", "connect"} => place'[mainCon'] = "busy"
    BY <2>1, <2>2, <2>3 DEF Settled, Alone, TInv, TypeOK
  <2> QED BY <2>6, <2>8, <2>9 DEF Settled
<1> QED BY <1>1, <1>2, <1>3, <1>4, <1>5, <1>6, <1>7, <1>8 DEF WorkerStep

\* What was crowded stays so.
LEMMA CrowdedStays == ASSUME [Next]_lifeVars, ~crowded' PROVE ~crowded
<1> USE DEF MainStep, historyVars
<1>1. ASSUME MainStep PROVE ~crowded
  BY <1>1, Zenon
     DEF RegisterCon, RegisterNetObj, AllocNetCon, Associate, Connect, Shutdown
<1>2. ASSUME NEW c \in Slots, Send(c) PROVE ~crowded
  BY <1>2, Zenon DEF Send
<1>3. ASSUME NEW t \in Workers, WorkerStep(t) PROVE ~crowded
  <2>1. ASSUME NEW c \in Slots, NEW u \in Uses, OnDisconnected(t, c, u) PROVE ~crowded
    BY <2>1, Zenon DEF OnDisconnected
  <2>2. ASSUME NEW c \in Slots, NEW u \in Uses,
               OnSuccess(t, c, u) \/ OnSent(t, c, u) \/ OnCompletionFailure(t, c, u)
        PROVE  ~crowded
    BY <2>2, Zenon DEF OnSuccess, OnSent, OnCompletionFailure
  <2>3. ASSUME PostRecv(t) \/ AllocNetObj(t) \/ FreeNetObj(t) \/ FreeNetCon(t)
        PROVE  ~crowded
    BY <2>3, Zenon DEF PostRecv, AllocNetObj, FreeNetObj, FreeNetCon
  <2> QED BY <1>3, <2>1, <2>2, <2>3, Zenon DEF WorkerStep
<1>4. ASSUME UNCHANGED lifeVars PROVE ~crowded
  BY <1>4, Zenon DEF lifeVars
<1> QED BY <1>1, <1>2, <1>3, <1>4, Zenon DEF Next

LEMMA CalmStep == ASSUME TInv, Calm, [Next]_lifeVars PROVE Calm'
<1> SUFFICES ASSUME ~crowded' PROVE Settled'
  BY Zenon DEF Calm
<1>1. Settled
  BY CrowdedStays, Zenon DEF Calm
<1>2. CASE Next
  BY <1>1, <1>2, MainCalm, SendCalm, WorkerCalm, Zenon DEF Next
<1>3. CASE UNCHANGED lifeVars
  BY <1>1, <1>3 DEF Settled, Quiet, Alone, Requested, lifeVars, conVars, ioVars,
                    registryVars, mainVars, workVars
<1> QED BY <1>2, <1>3

-------------------------------------------------------------------------------
(* The registry                                                            *)

LEMMA InitSorted == ASSUME Init PROVE InTurn /\ Sorted
<1>1. \A c \in Slots : ~Known(c)
  BY DEF Init, Known
<1>2. ~Fresh /\ \A c \in Slots : ~(c < 0)
  BY DEF Init, Fresh, Slots
<1>3. InTurn
  BY <1>1, <1>2 DEF Init, InTurn
<1> QED BY <1>1, <1>3 DEF Init, Sorted, OneEntry

\* A step that changes neither parents nor what RegisterNetObj() is about to file.
Unmoved ==
    /\ parent' = parent /\ (main' = "file" <=> main = "file")
    /\ main = "file" => UNCHANGED <<use, mainCon, mainObj>>

LEMMA KnownStays == ASSUME Unmoved PROVE (Fresh' <=> Fresh) /\ \A c : Known(c)' <=> Known(c)
BY DEF Unmoved, Fresh, Known

LEMMA TurnStays ==
    ASSUME InTurn, Unmoved,
           \A c \in Slots : use[c] > 0 \/ place[c] # "free" => use'[c] > 0 \/ place'[c] # "free"
    PROVE  InTurn'
<1>1. PICK n \in Nat : (\A c \in Slots : Known(c) <=> c < n) /\ (Fresh => mainCon = n)
  BY DEF InTurn
<1>2. (\A c \in Slots : Known(c)' <=> c < n) /\ (Fresh' => mainCon' = n)
  BY <1>1, KnownStays DEF Fresh, Unmoved
<1>3. \A c \in Slots : parent'[c] # None => use'[c] > 0 \/ place'[c] # "free"
  BY DEF InTurn, Unmoved
<1> QED BY <1>2, <1>3 DEF InTurn

LEMMA EntryStays == ASSUME OneEntry, Unmoved, UNCHANGED registryVars PROVE OneEntry'
<1>1. freeObjs' = freeObjs /\ objs' = objs
  BY DEF registryVars
<1> QED BY <1>1, KnownStays DEF OneEntry, Unmoved, Filed

\* All steps but those two that register an object leave it at that.
LEMMA OthersUnmoved ==
    ASSUME TInv, [Next]_lifeVars, ~(\E o \in Objs : RegisterCon(o)), ~RegisterNetObj
    PROVE  /\ Unmoved
           /\ \A c \in Slots : use[c] > 0 \/ place[c] # "free"
                                => use'[c] > 0 \/ place'[c] # "free"
<1> USE DEF conVars, mainVars
<1>0. /\ place \in [Slots -> {"free", "pending", "busy"}] /\ use \in [Slots -> 0 .. MaxUses]
      /\ mainCon \in Slots /\ at \in [Workers -> Slots]
  BY DEF TInv, TypeOK
<1>1. CASE AllocNetCon
  BY <1>0, <1>1 DEF AllocNetCon, Unmoved
<1>2. CASE Associate \/ Connect \/ Shutdown
  BY <1>2 DEF Associate, Connect, Shutdown, Unmoved
<1>3. ASSUME NEW c \in Slots, Send(c) PROVE Unmoved /\ UNCHANGED <<use, place>>
  BY <1>3 DEF Send, Unmoved
<1>4. ASSUME NEW t \in Workers, WorkerStep(t) PROVE Unmoved /\ UNCHANGED use
  <2>1. ASSUME NEW c \in Slots, NEW u \in Uses,
               OnSuccess(t, c, u) \/ OnSent(t, c, u) \/ OnCompletionFailure(t, c, u)
        PROVE  Unmoved /\ UNCHANGED use
    BY <2>1 DEF OnSuccess, OnSent, OnCompletionFailure, Unmoved
  <2>2. ASSUME NEW c \in Slots, NEW u \in Uses, OnDisconnected(t, c, u)
        PROVE  Unmoved /\ UNCHANGED use
    BY <2>2 DEF OnDisconnected, Unmoved
  <2>3. CASE PostRecv(t) \/ AllocNetObj(t)
    BY <2>3 DEF PostRecv, AllocNetObj, Unmoved
  <2>4. CASE FreeNetObj(t) \/ FreeNetCon(t)
    BY <2>4 DEF FreeNetObj, FreeNetCon, Unmoved
  <2> QED BY <1>4, <2>1, <2>2, <2>3, <2>4 DEF WorkerStep
<1>5. ASSUME NEW t \in Workers, WorkerStep(t), NEW c \in Slots, place[c] # "free"
      PROVE  use'[c] > 0 \/ place'[c] # "free"
  <2>1. CASE FreeNetCon(t)
    <3>1. c # at[t] => place'[c] = place[c]
      BY <1>0, <2>1 DEF FreeNetCon
    <3>2. use'[at[t]] > 0
      BY <2>1 DEF FreeNetCon, TInv, UsedBefore
    <3> QED BY <1>5, <3>1, <3>2
  <2>2. ASSUME NEW d \in Slots, NEW u \in Uses,
               \/ OnSuccess(t, d, u) \/ OnSent(t, d, u)
               \/ OnCompletionFailure(t, d, u) \/ OnDisconnected(t, d, u)
        PROVE  place' = place
    BY <2>2 DEF OnSuccess, OnSent, OnCompletionFailure, OnDisconnected
  <2>3. CASE PostRecv(t) \/ AllocNetObj(t) \/ FreeNetObj(t)
    BY <1>5, <2>3 DEF PostRecv, AllocNetObj, FreeNetObj
  <2> QED BY <1>5, <2>1, <2>2, <2>3 DEF WorkerStep
<1>6. CASE UNCHANGED lifeVars
  BY <1>6 DEF lifeVars, Unmoved
<1> QED BY <1>1, <1>2, <1>3, <1>4, <1>5, <1>6 DEF Next, MainStep

\* RegisterCon() takes the first free connection: a new one is the next in turn.
LEMMA RegisterConTurn ==
    ASSUME TInv, InTurn, NEW o \in Objs, RegisterCon(o), NEW n \in Nat,
           \A c \in Slots : Known(c) <=> c < n
    PROVE  /\ \A c \in Slots : Known(c)' <=> c < n
           /\ Fresh' => mainCon' = n
           /\ InTurn'
<1>1. PICK c \in Slots :
        /\ place[c] = "free" /\ \A d \in Slots : place[d] = "free" => c <= d
        /\ place' = [place EXCEPT ![c] = "pending"]
        /\ parent' = [parent EXCEPT ![c] = o]
        /\ mainCon' = c
  BY DEF RegisterCon
<1>2. main = "idle" /\ main' = "file" /\ use' = use
  BY DEF RegisterCon
<1>3. /\ parent \in [Slots -> Objs \cup {None}] /\ place \in [Slots -> {"free", "pending", "busy"}]
      /\ use \in [Slots -> 0 .. MaxUses]
  BY DEF TInv, TypeOK
<1>4. \A d \in Slots : parent[d] # None <=> d < n
  BY <1>2 DEF Known, Fresh
<1>5. o # None
  BY LifeAssumption
<1>6. CASE use[c] = 0
  <2>1. parent[c] = None
    BY <1>1, <1>6 DEF InTurn
  <2>2. \A d \in Slots : d < c => parent[d] # None
    BY <1>1 DEF TInv, Paired, Slots
  <2>3. ~(c < n) /\ \A d \in Slots : d < c => d < n
    BY <1>4, <2>1, <2>2
  <2>4. c <= n
    <3>1. n < c => n \in Slots
      BY LifeAssumption DEF Slots
    <3> QED BY <2>3, <3>1 DEF Slots
  <2>5. c = n
    BY <2>3, <2>4 DEF Slots
  <2>6. \A d \in Slots : Known(d)' <=> d < n
    BY <1>1, <1>2, <1>3, <1>4, <1>6, <2>3, <2>5 DEF Known, Fresh
  <2>7. \A d \in Slots : parent'[d] # None => use'[d] > 0 \/ place'[d] # "free"
    BY <1>1, <1>2, <1>3 DEF InTurn
  <2> QED BY <1>1, <2>5, <2>6, <2>7 DEF InTurn
<1>7. CASE use[c] # 0
  <2>1. parent[c] # None
    BY <1>3, <1>7 DEF TInv, Paired
  <2>2. ~Fresh'
    BY <1>1, <1>2, <1>7 DEF Fresh
  <2>3. \A d \in Slots : Known(d)' <=> d < n
    BY <1>1, <1>3, <1>4, <1>5, <2>1, <2>2 DEF Known
  <2>4. \A d \in Slots : parent'[d] # None => use'[d] > 0 \/ place'[d] # "free"
    BY <1>1, <1>2, <1>3 DEF InTurn
  <2> QED BY <2>2, <2>3, <2>4 DEF InTurn
<1> QED BY <1>6, <1>7

LEMMA TurnStep == ASSUME TInv, InTurn, [Next]_lifeVars PROVE InTurn'
<1>0. PICK n \in Nat : (\A c \in Slots : Known(c) <=> c < n) /\ (Fresh => mainCon = n)
  BY DEF InTurn
<1>1. ASSUME NEW o \in Objs, RegisterCon(o) PROVE InTurn'
  BY <1>0, <1>1, RegisterConTurn
<1>2. CASE RegisterNetObj
  <2>1. /\ main = "file" /\ main' = "alloc"
        /\ UNCHANGED <<place, use, parent, mainCon>>
    BY <1>2 DEF RegisterNetObj, conVars
  <2>2. ~Fresh' /\ \A c \in Slots : Known(c)' <=> parent[c] # None
    BY <2>1 DEF Fresh, Known
  <2>3. CASE Fresh
    <3>1. mainCon = n /\ parent[mainCon] # None /\ mainCon \in Slots
      BY <1>0, <2>1, <2>3 DEF TInv, TypeOK, MainKnows, Paired
    <3>2. \A c \in Slots : c < n + 1 <=> c < n \/ c = n
      BY DEF Slots
    <3>3. \A c \in Slots : Known(c)' <=> c < n + 1
      BY <1>0, <2>2, <3>1, <3>2 DEF Known
    <3> QED BY <2>1, <2>2, <3>3 DEF InTurn
  <2>4. CASE ~Fresh
    BY <1>0, <2>1, <2>2, <2>4 DEF InTurn, Known
  <2> QED BY <2>3, <2>4
<1>3. CASE ~(\E o \in Objs : RegisterCon(o)) /\ ~RegisterNetObj
  BY <1>3, OthersUnmoved, TurnStays
<1> QED BY <1>1, <1>2, <1>3

\* What was filed late stays so.
LEMMA MixedStays == ASSUME [Next]_lifeVars, ~mixed' PROVE ~mixed
<1> USE DEF MainStep, historyVars
<1>1. ASSUME MainStep PROVE ~mixed
  BY <1>1, Zenon
     DEF RegisterCon, RegisterNetObj, AllocNetCon, Associate, Connect, Shutdown
<1>2. ASSUME NEW c \in Slots, Send(c) PROVE ~mixed
  BY <1>2, Zenon DEF Send
<1>3. ASSUME NEW t \in Workers, WorkerStep(t) PROVE ~mixed
  <2>1. ASSUME NEW c \in Slots, NEW u \in Uses,
               \/ OnSuccess(t, c, u) \/ OnSent(t, c, u)
               \/ OnCompletionFailure(t, c, u) \/ OnDisconnected(t, c, u)
        PROVE  ~mixed
    BY <2>1, Zenon DEF OnSuccess, OnSent, OnCompletionFailure, OnDisconnected
  <2>2. ASSUME PostRecv(t) \/ AllocNetObj(t) \/ FreeNetObj(t) \/ FreeNetCon(t)
        PROVE  ~mixed
    BY <2>2, Zenon DEF PostRecv, AllocNetObj, FreeNetObj, FreeNetCon
  <2> QED BY <1>3, <2>1, <2>2, Zenon DEF WorkerStep
<1>4. ASSUME UNCHANGED lifeVars PROVE ~mixed
  BY <1>4, Zenon DEF lifeVars
<1> QED BY <1>1, <1>2, <1>3, <1>4, Zenon DEF Next

\* As long as no object is in _objs, the number of those in _freeObjs is the slot of
\* the connection that is registered.
LEMMA FiledInTurn ==
    ASSUME TInv, OneEntry, InTurn, Fresh, \A c \in Slots : objs[c] = None
    PROVE  Cardinality(freeObjs) = mainCon
<1>1. mainCon \in Slots /\ mainCon \in Nat /\ IsFiniteSet(freeObjs)
  BY DEF TInv, TypeOK, Slots
<1>2. \A c \in Slots : Known(c) <=> c < mainCon
  BY DEF InTurn
<1> DEFINE T == 0 .. (mainCon - 1)
           slot == [p \in freeObjs |-> p[1]]
<1>3. slot \in [freeObjs -> T]
  <2>1. ASSUME NEW p \in freeObjs PROVE p[1] \in T
    BY <1>1, <1>2 DEF OneEntry, Slots
  <2> QED BY <2>1
<1>4. \A p, q \in freeObjs : slot[p] = slot[q] => p = q
  BY DEF OneEntry
<1>5. ASSUME NEW c \in T PROVE \E p \in freeObjs : slot[p] = c
  <2>1. c \in Slots /\ c < mainCon
    BY <1>1, LifeAssumption DEF Slots
  <2>2. Filed(c)
    BY <1>2, <2>1 DEF OneEntry
  <2> QED BY <2>2 DEF Filed
<1>6. slot \in Bijection(freeObjs, T)
  <2> HIDE DEF T, slot
  <2> QED BY <1>3, <1>4, <1>5, Fun_IsBij
<1>7. ExistsBijection(freeObjs, T)
  <2> HIDE DEF T, slot
  <2> QED BY <1>6, Fun_ExistsBij
<1>8. Cardinality(T) = Cardinality(freeObjs)
  <2> HIDE DEF T
  <2> QED BY <1>1, <1>7, FS_Bijection
<1>9. Cardinality(T) = mainCon
  <2>1. 0 \in Int /\ mainCon - 1 \in Int
    BY <1>1
  <2>2. Cardinality(T) = IF 0 > mainCon - 1 THEN 0 ELSE (mainCon - 1) - 0 + 1
    BY <2>1, FS_Interval
  <2> QED BY <1>1, <2>2
<1> QED BY <1>8, <1>9

LEMMA RegisterConEntry ==
    ASSUME TInv, Settled, InTurn, OneEntry, NEW o \in Objs, RegisterCon(o)
    PROVE  OneEntry'
<1>1. PICK c \in Slots :
        /\ place[c] = "free"
        /\ parent' = [parent EXCEPT ![c] = o]
        /\ mainCon' = c
  BY DEF RegisterCon
<1>2. main = "idle" /\ main' = "file" /\ mainObj' = o /\ freeObjs' = freeObjs /\ objs' = objs
  BY DEF RegisterCon, registryVars
<1>3. parent \in [Slots -> Objs \cup {None}]
  BY DEF TInv, TypeOK
<1>4. parent'[c] = o /\ \A d \in Slots : d # c => parent'[d] = parent[d]
  BY <1>1, <1>3
<1>5. objs[c] = None
  BY <1>1 DEF Settled, Quiet
<1>6. \A d \in Slots : Known(d)' <=> Known(d)
  <2>1. PICK n \in Nat : \A d \in Slots : Known(d) <=> d < n
    BY DEF InTurn
  <2>2. \A d \in Slots : Known(d)' <=> d < n
    BY <2>1, RegisterConTurn
  <2> QED BY <2>1, <2>2
<1>7. ASSUME NEW p \in freeObjs'
      PROVE  /\ p[1] \in Slots /\ objs'[p[1]] = None /\ Known(p[1])'
             /\ p[2] = parent'[p[1]] \/ p[1] = c
  BY <1>2, <1>4, <1>6, <1>7 DEF OneEntry
<1>8. \A d \in Slots : objs'[d] \in {None, parent'[d]}
  BY <1>2, <1>4, <1>5 DEF OneEntry
<1>9. \A d \in Slots : Known(d)' => objs'[d] # None \/ Filed(d)'
  BY <1>2, <1>6 DEF OneEntry, Filed
<1>10. \A p, q \in freeObjs' : p[1] = q[1] => p = q
  BY <1>2 DEF OneEntry
<1> QED BY <1>1, <1>2, <1>4, <1>7, <1>8, <1>9, <1>10 DEF OneEntry

LEMMA RegisterNetObjEntry ==
    ASSUME TInv, InTurn, OneEntry, RegisterNetObj, ~mixed'
    PROVE  OneEntry'
<1>1. /\ main = "file" /\ main' = "alloc" /\ objs' = objs /\ parent' = parent
      /\ mainCon' = mainCon /\ Emplace(Cardinality(freeObjs), mainObj)
  BY DEF RegisterNetObj, conVars
<1>2. ~(use[mainCon] > 0) /\ \A c \in Slots : objs[c] = None
  BY DEF RegisterNetObj
<1>3. mainCon \in Slots /\ use[mainCon] \in Nat
  BY DEF TInv, TypeOK
<1>4. Fresh
  BY <1>1, <1>2, <1>3 DEF Fresh
<1>5. Cardinality(freeObjs) = mainCon
  BY <1>2, <1>4, FiledInTurn
<1>6. ~Known(mainCon) /\ ~Filed(mainCon)
  BY <1>4 DEF OneEntry, Known, Filed
<1>7. freeObjs' = freeObjs \cup {<<mainCon, mainObj>>}
  BY <1>1, <1>5, <1>6 DEF Emplace
<1>8. parent[mainCon] = mainObj /\ parent[mainCon] # None
  BY <1>1, <1>3 DEF OneEntry, TInv, MainKnows, Paired
<1>9. \A c \in Slots : Known(c)' <=> Known(c) \/ c = mainCon
  BY <1>1, <1>8 DEF Known, Fresh
<1>10. ASSUME NEW p \in freeObjs'
       PROVE  /\ p[1] \in Slots /\ objs'[p[1]] = None /\ Known(p[1])'
              /\ p[2] = parent'[p[1]]
  <2>1. CASE p \in freeObjs
    BY <1>1, <1>6, <1>9, <2>1 DEF OneEntry
  <2>2. CASE p = <<mainCon, mainObj>>
    BY <1>1, <1>2, <1>3, <1>8, <1>9, <2>2
  <2> QED BY <1>7, <2>1, <2>2
<1>11. \A p, q \in freeObjs' : p[1] = q[1] => p = q
  BY <1>6, <1>7 DEF OneEntry, Filed
<1>12. \A c \in Slots : objs'[c] \in {None, parent'[c]}
  BY <1>1 DEF OneEntry
<1>13. ASSUME NEW c \in Slots, Known(c)' PROVE objs'[c] # None \/ Filed(c)'
  <2>1. CASE Known(c)
    BY <1>1, <1>7, <2>1 DEF OneEntry, Filed
  <2>2. CASE c = mainCon
    <3>1. <<mainCon, mainObj>> \in freeObjs' /\ <<mainCon, mainObj>>[1] = mainCon
      BY <1>7
    <3> QED BY <2>2, <3>1 DEF Filed
  <2> QED BY <1>9, <1>13, <2>1, <2>2
<1> QED BY <1>1, <1>10, <1>11, <1>12, <1>13 DEF OneEntry

\* The connection of a thread that is at work is not the one that is registered.
LEMMA WorkKnown ==
    ASSUME TInv, Settled, NEW t \in Workers, pc[t] # "idle"
    PROVE  Known(at[t]) /\ ~(main = "file" /\ at[t] = mainCon)
BY AtWork DEF TInv, MainKnows, Paired, Known, Fresh

LEMMA AllocNetObjEntry ==
    ASSUME TInv, Settled, OneEntry, NEW t \in Workers, AllocNetObj(t), Unmoved
    PROVE  OneEntry'
<1> DEFINE c == at[t]
<1>1. pc[t] # "idle"
  BY DEF AllocNetObj
<1>2. c \in Slots /\ SlotOf(c) = c /\ Known(c) /\ ~(main = "file" /\ c = mainCon)
  BY <1>1, AtWork, WorkKnown
<1>3. objs \in [Slots -> Objs \cup {None}] /\ parent' = parent /\ conOf' = conOf
  BY DEF TInv, TypeOK, AllocNetObj, conVars
<1>4. CASE Filed(c)
  <2>1. PICK p \in freeObjs :
          /\ p[1] = c /\ freeObjs' = freeObjs \ {p}
          /\ objs' = [objs EXCEPT ![c] = p[2]]
    BY <1>2, <1>4 DEF AllocNetObj
  <2>2. p[2] = parent[c] /\ p[2] # None
    BY <1>2, <2>1 DEF OneEntry, Known
  <2>3. objs'[c] = p[2] /\ \A d \in Slots : d # c => objs'[d] = objs[d]
    BY <1>2, <1>3, <2>1
  <2>4. ASSUME NEW q \in freeObjs'
        PROVE  /\ q[1] \in Slots /\ objs'[q[1]] = None /\ Known(q[1])'
               /\ q[2] = parent'[q[1]] \/ (main' = "file" /\ q[1] = mainCon')
    <3>1. q \in freeObjs /\ q[1] # c
      BY <2>1 DEF OneEntry
    <3> QED BY <1>3, <2>3, <3>1, KnownStays DEF OneEntry, Unmoved
  <2>5. \A d \in Slots : objs'[d] \in {None, parent'[d]}
    BY <1>3, <2>2, <2>3 DEF OneEntry
  <2>6. ASSUME NEW d \in Slots, Known(d)' PROVE objs'[d] # None \/ Filed(d)'
    <3>1. CASE d = c
      BY <2>2, <2>3, <3>1
    <3>2. CASE d # c
      BY <2>1, <2>3, <2>6, <3>2, KnownStays DEF OneEntry, Filed
    <3> QED BY <3>1, <3>2
  <2> QED BY <2>1, <2>4, <2>5, <2>6 DEF OneEntry, Unmoved
<1>5. CASE ~Filed(c)
  BY <1>2, <1>5, EntryStays DEF AllocNetObj, registryVars
<1> QED BY <1>4, <1>5

LEMMA FreeNetObjEntry ==
    ASSUME TInv, Settled, OneEntry, NEW t \in Workers, FreeNetObj(t), Unmoved
    PROVE  OneEntry'
<1> DEFINE c == at[t]
<1>1. pc[t] # "idle"
  BY DEF FreeNetObj
<1>2. c \in Slots /\ SlotOf(c) = c /\ Known(c) /\ ~(main = "file" /\ c = mainCon)
  BY <1>1, AtWork, WorkKnown
<1>3. objs \in [Slots -> Objs \cup {None}] /\ parent' = parent
  BY DEF TInv, TypeOK, FreeNetObj, conVars
<1>4. CASE objs[c] # None
  <2>1. ~Filed(c) /\ objs[c] = parent[c]
    BY <1>2, <1>4 DEF OneEntry, Filed
  <2>2. /\ freeObjs' = freeObjs \cup {<<c, parent[c]>>}
        /\ objs' = [objs EXCEPT ![c] = None]
    BY <1>2, <1>4, <2>1 DEF FreeNetObj, Emplace
  <2>3. objs'[c] = None /\ \A d \in Slots : d # c => objs'[d] = objs[d]
    BY <1>2, <1>3, <2>2
  <2>4. ASSUME NEW q \in freeObjs'
        PROVE  /\ q[1] \in Slots /\ objs'[q[1]] = None /\ Known(q[1])'
               /\ q[2] = parent'[q[1]] \/ (main' = "file" /\ q[1] = mainCon')
    <3>1. CASE q \in freeObjs
      BY <1>3, <2>3, <3>1, KnownStays DEF OneEntry, Unmoved
    <3>2. CASE q = <<c, parent[c]>>
      BY <1>2, <1>3, <2>3, <3>2, KnownStays
    <3> QED BY <2>2, <3>1, <3>2
  <2>5. \A p, q \in freeObjs' : p[1] = q[1] => p = q
    BY <2>1, <2>2 DEF OneEntry, Filed
  <2>6. \A d \in Slots : objs'[d] \in {None, parent'[d]}
    BY <1>3, <2>3 DEF OneEntry
  <2>7. ASSUME NEW d \in Slots, Known(d)' PROVE objs'[d] # None \/ Filed(d)'
    <3>1. CASE d = c
      <4>1. <<c, parent[c]>> \in freeObjs' /\ <<c, parent[c]>>[1] = c
        BY <2>2
      <4> QED BY <3>1, <4>1 DEF Filed
    <3>2. CASE d # c
      BY <2>2, <2>3, <2>7, <3>2, KnownStays DEF OneEntry, Filed
    <3> QED BY <3>1, <3>2
  <2> QED BY <2>4, <2>5, <2>6, <2>7 DEF OneEntry, Unmoved
<1>5. CASE objs[c] = None
  BY <1>2, <1>5, EntryStays DEF FreeNetObj, registryVars
<1> QED BY <1>4, <1>5

\* All other steps leave the registry alone.
LEMMA RegistryStays ==
    ASSUME [Next]_lifeVars, ~(\E o \in Objs : RegisterCon(o)), ~RegisterNetObj,
           ~(\E t \in Workers : AllocNetObj(t) \/ FreeNetObj(t))
    PROVE  UNCHANGED registryVars
<1>1. CASE AllocNetCon \/ Associate \/ Connect \/ Shutdown
  BY <1>1 DEF AllocNetCon, Associate, Connect, Shutdown
<1>2. ASSUME NEW c \in Slots, Send(c) PROVE UNCHANGED registryVars
  BY <1>2 DEF Send
<1>3. ASSUME NEW t \in Workers, WorkerStep(t) PROVE UNCHANGED registryVars
  <2>1. ASSUME NEW c \in Slots, NEW u \in Uses,
               \/ OnSuccess(t, c, u) \/ OnSent(t, c, u)
               \/ OnCompletionFailure(t, c, u) \/ OnDisconnected(t, c, u)
        PROVE  UNCHANGED registryVars
    BY <2>1 DEF OnSuccess, OnSent, OnCompletionFailure, OnDisconnected
  <2>2. CASE PostRecv(t) \/ FreeNetCon(t)
    BY <2>2 DEF PostRecv, FreeNetCon
  <2> QED BY <1>3, <2>1, <2>2 DEF WorkerStep
<1>4. CASE UNCHANGED lifeVars
  BY <1>4 DEF lifeVars
<1> QED BY <1>1, <1>2, <1>3, <1>4 DEF Next, MainStep

LEMMA SortedStep ==
    ASSUME TInv, Calm, InTurn, Sorted, [Next]_lifeVars PROVE Sorted'
<1> SUFFICES ASSUME ~crowded', ~mixed' PROVE OneEntry'
  BY DEF Sorted
<1>1. Settled /\ OneEntry
  BY CrowdedStays, MixedStays DEF Calm, Sorted
<1>2. CASE \E o \in Objs : RegisterCon(o)
  BY <1>1, <1>2, RegisterConEntry
<1>3. CASE RegisterNetObj
  BY <1>1, <1>3, RegisterNetObjEntry
<1>4. CASE ~(\E o \in Objs : RegisterCon(o)) /\ ~RegisterNetObj
  <2>1. Unmoved
    BY <1>4, OthersUnmoved
  <2>2. CASE \E t \in Workers : AllocNetObj(t) \/ FreeNetObj(t)
    BY <1>1, <2>1, <2>2, AllocNetObjEntry, FreeNetObjEntry
  <2>3. CASE ~(\E t \in Workers : AllocNetObj(t) \/ FreeNetObj(t))
    BY <1>1, <1>4, <2>1, <2>3, RegistryStays, EntryStays
  <2> QED BY <2>2, <2>3
<1> QED BY <1>2, <1>3, <1>4

-------------------------------------------------------------------------------
(* The theorems                                                            *)

\* The invariant of the specification: the types, what each place of the
\* application's thread knows, the pairing of connections and objects, and the two
\* properties with what makes them inductive.
THEOREM Invariant == Spec => []IInv
<1>1. Init => IInv
  BY InitTInv, InitBusy, InitCalm, InitSorted DEF IInv
<1>2. IInv /\ [Next]_lifeVars => IInv'
  BY TypeStep, BusyStep, CalmStep, TurnStep, SortedStep DEF IInv
<1> QED BY <1>1, <1>2, PTL DEF Spec

\* Every variable keeps its type, for any number of connections, objects, uses and
\* network threads: the counts of outstanding requests never go below zero.
THEOREM TypeCorrect == Spec => []TypeOK
<1>1. IInv => TypeOK
  BY DEF IInv, TInv
<1> QED BY <1>1, Invariant, PTL

\* A busy connection has a request outstanding that will end it, or a thread that
\* will post one or free it, unless a call for it failed at once
\* (NetworkAPI::Connect, NetSocket::PostRecv, NetConnector::Connect).
THEOREM NoZombies == Spec => []BusyHasRequest
<1>1. IInv => BusyHasRequest
  BY DEF IInv
<1> QED BY <1>1, Invariant, PTL

\* As long as every use ends with nothing else going on for the connection, a
\* connection that is not in use has no request, no handler, no socket and no
\* object (NetSocketBase::OnDisconnected, NetService::FreeNetObj,
\* NetConnectionProxy::FreeNetCon).
THEOREM QuietWhenFree == Spec => []FreeIsQuiet
<1>1. IInv => FreeIsQuiet
  BY DEF IInv, Calm, Settled, Quiet, FreeIsQuiet
<1> QED BY <1>1, Invariant, PTL

\* As long as every use ends with nothing else going on for its connection, and
\* objects are registered before any is connected and each once, what AllocNetObj
\* finds under a connection's slot is the object that the connection was registered
\* for (NetService::RegisterNetObj, AllocNetObj, FreeNetObj).
THEOREM FiledForParent == Spec => []FiledIsParent
<1>1. IInv => FiledIsParent
  BY DEF IInv, Sorted, OneEntry, FiledIsParent
<1> QED BY <1>1, Invariant, PTL

-------------------------------------------------------------------------------
(* The round of a connection                                               *)

\* What the steps that change no connection's place or use leave alone.
LEMMA PlaceStays ==
    ASSUME [Next]_lifeVars, ~(\E o \in Objs : RegisterCon(o)), ~AllocNetCon,
           ~(\E t \in Workers : FreeNetCon(t))
    PROVE  UNCHANGED <<place, use>>
<1>1. CASE RegisterNetObj \/ Associate \/ Connect \/ Shutdown
  BY <1>1 DEF RegisterNetObj, Associate, Connect, Shutdown, conVars
<1>2. ASSUME NEW c \in Slots, Send(c) PROVE UNCHANGED <<place, use>>
  BY <1>2 DEF Send, conVars
<1>3. ASSUME NEW t \in Workers, WorkerStep(t) PROVE UNCHANGED <<place, use>>
  <2>1. ASSUME NEW c \in Slots, NEW u \in Uses,
               \/ OnSuccess(t, c, u) \/ OnSent(t, c, u)
               \/ OnCompletionFailure(t, c, u) \/ OnDisconnected(t, c, u)
        PROVE  UNCHANGED <<place, use>>
    BY <2>1 DEF OnSuccess, OnSent, OnCompletionFailure, OnDisconnected, conVars
  <2>2. CASE PostRecv(t) \/ AllocNetObj(t) \/ FreeNetObj(t)
    BY <2>2 DEF PostRecv, AllocNetObj, FreeNetObj, conVars
  <2> QED BY <1>3, <2>1, <2>2 DEF WorkerStep
<1>4. CASE UNCHANGED lifeVars
  BY <1>4 DEF lifeVars, conVars
<1> QED BY <1>1, <1>2, <1>3, <1>4 DEF Next, MainStep

LEMMA PoolStep ==
    ASSUME TInv, [Next]_lifeVars PROVE [Pool!Next]_(Pool!poolVars)
<1> USE DEF Pool!Next, Pool!poolVars
<1>1. place \in [Slots -> {"free", "pending", "busy"}] /\ use \in [Slots -> 0 .. MaxUses]
  BY DEF TInv, TypeOK
<1>2. ASSUME NEW o \in Objs, RegisterCon(o) PROVE [Pool!Next]_(Pool!poolVars)
  <2>1. PICK c \in Slots : Pool!Register(c)
    BY <1>2 DEF RegisterCon, Pool!Register
  <2> QED BY <2>1
<1>3. CASE AllocNetCon
  <2>1. mainCon \in Slots /\ place[mainCon] = "pending" /\ use[mainCon] < MaxUses
    BY <1>3 DEF AllocNetCon, TInv, TypeOK, MainKnows
  <2>2. Pool!Use(mainCon) \/ UNCHANGED <<place, use>>
    BY <1>3, <2>1 DEF AllocNetCon, Pool!Use
  <2> QED BY <2>1, <2>2
<1>4. ASSUME NEW t \in Workers, FreeNetCon(t) PROVE [Pool!Next]_(Pool!poolVars)
  <2>1. at[t] \in Slots /\ use' = use
        /\ place' = [place EXCEPT ![at[t]] = IF @ = "busy" THEN "free" ELSE @]
    BY <1>4 DEF FreeNetCon, TInv, TypeOK
  <2>2. CASE place[at[t]] = "busy"
    <3>1. Pool!Release(at[t])
      BY <2>1, <2>2 DEF Pool!Release
    <3> QED BY <2>1, <3>1
  <2>3. CASE place[at[t]] # "busy"
    BY <1>1, <2>1, <2>3
  <2> QED BY <2>2, <2>3
<1>5. CASE UNCHANGED <<place, use>>
  BY <1>5
<1> QED BY <1>2, <1>3, <1>4, <1>5, PlaceStays

\* Whatever the application and the network threads do, each connection keeps to the
\* round of ConnectionPool: RegisterCon() takes it only when it is free, AllocNetCon()
\* uses it only when it was registered, and of several threads that call FreeNetCon()
\* for the same use the first frees it and the others find it gone.
THEOREM Refinement == Spec => ImplementsPool
<1>1. Init => Pool!Init
  BY DEF Init, Pool!Init
<1>2. IInv /\ [Next]_lifeVars => [Pool!Next]_(Pool!poolVars)
  BY PoolStep DEF IInv
<1> QED BY <1>1, <1>2, Invariant, PTL DEF Spec, ImplementsPool, Pool!Spec

===============================================================================

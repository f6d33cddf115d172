--------------------------- MODULE NetConnectionMgr ---------------------------
(***************************************************************************)
(* RefLibNet/reflib_net_connection_manager.cpp: the owner of the           *)
(* NetConnections.  Each of them is filed in one of three maps: _freeCons  *)
(* (nobody uses it), _pendingCons (a game object holds it and waits for a  *)
(* peer) and _busyCons (it has a socket).  A connection is represented by  *)
(* its slot, which never changes; its salt does.                           *)
(*                                                                         *)
(* _conLock makes each operation one step, but for what the code does      *)
(* outside the lock: AllocNetCon() reads _isActive before it locks,        *)
(* Shutdown() clears _isActive before it locks, and the identity given to  *)
(* FreeNetCon is a copy that its caller took earlier.                      *)
(***************************************************************************)
EXTENDS CompositId, FiniteSets

CONSTANTS Capacity,   \* number of connections that Initialize creates
          Threads,    \* the threads that call in: network threads, for the most
          LastSalt    \* bound: a connection with this salt is not reused again

ASSUME MgrAssumption ==
    /\ Capacity \in Nat
    /\ LastSalt \in Int
    /\ IsFiniteSet(Threads)

Slots == 0 .. (Capacity - 1)

\* A value of CompositId; NoId is what a thread holds that frees nothing.
CompIds == [slot : Slots, salt : Word]
NoId == [slot |-> -1, salt |-> 0]

VARIABLES
    freeCons,      \* _freeCons: slot -> connection
    pendingCons,   \* _pendingCons: slot -> connection
    busyCons,      \* _busyCons: CompositId::GetIndex() -> connection
    salt,          \* salt[c]: the _salt in the CompositId of c
    isActive,      \* _isActive
    checked,       \* threads in AllocNetCon(), past the test of _isActive
    freeing,       \* freeing[t]: the identity t has read and will free
    shutdown,      \* how far Shutdown() got: "no", "flagged", "swept"
    disconnected   \* busy connections that Shutdown() has disconnected

mgrVars == <<freeCons, pendingCons, busyCons, salt, isActive, checked,
             freeing, shutdown, disconnected>>

-------------------------------------------------------------------------------
(* std::map                                                                *)

EmptyMap == [k \in {} |-> k]

\* emplace leaves the map as it is when the key is there already.
Emplace(m, k, c) ==
    IF k \in DOMAIN m THEN m
    ELSE [j \in DOMAIN m \cup {k} |-> IF j = k THEN c ELSE m[j]]

\* Mutant: a connection that is taken stays in the map.
EraseNothing(m, k) == m

Erase(m, k) == [j \in DOMAIN m \ {k} |-> m[j]]

Values(m) == {m[k] : k \in DOMAIN m}

\* k is the key that begin() points at.
IsFirst(m, k) == k \in DOMAIN m /\ \A j \in DOMAIN m : k <= j

-------------------------------------------------------------------------------
\* The connections that a map keeps alive.
Owned == Values(freeCons) \cup Values(pendingCons) \cup Values(busyCons)

CompId(c) == [slot |-> c, salt |-> salt[c]]
Key(id) == GetIndex(id.slot, id.salt)

\* The keys that MakeBusy and FreeNetCon file under.  Mutants: the key is
\* computed before IncSalt, or is the one of the busy map.
BusyKeyBeforeIncSalt(con) == GetIndex(con, salt[con])
BusyKey(con) == GetIndex(con, salt'[con])
FreeKeyAsBusy(id) == Key(id)
FreeKey(id) == id.slot

\* The state after Initialize(Capacity).
Init ==
    /\ freeCons = [c \in Slots |-> c]
    /\ pendingCons = EmptyMap
    /\ busyCons = EmptyMap
    /\ salt = [c \in Slots |-> 0]
    /\ isActive = TRUE
    /\ checked = {}
    /\ freeing = [t \in Threads |-> NoId]
    /\ shutdown = "no"
    /\ disconnected = {}

\* Mutant: connections that wait for a peer count as busy.
IsEmptyFreeOnly == Cardinality(DOMAIN freeCons) = Capacity

IsEmpty ==
    Cardinality(DOMAIN freeCons) + Cardinality(DOMAIN pendingCons) = Capacity

\* The free connection with the lowest key becomes pending.
RegisterCon ==
    /\ isActive
    /\ \E k \in DOMAIN freeCons :
        /\ IsFirst(freeCons, k)
        /\ freeCons' = Erase(freeCons, k)
        /\ pendingCons' = Emplace(pendingCons, freeCons[k], freeCons[k])
    /\ UNCHANGED <<busyCons, salt, isActive, checked, freeing, shutdown,
                   disconnected>>

\* What both AllocNetCon do to the pending connection under key k.
MakeBusy(k) ==
    LET con == pendingCons[k]
    IN  /\ salt[con] # LastSalt
        /\ pendingCons' = Erase(pendingCons, k)
        /\ salt' = [salt EXCEPT ![con] = IncSalt(@)]
        /\ busyCons' = Emplace(busyCons, BusyKey(con), con)
        /\ disconnected' = disconnected \ {con}

\* AllocNetCon(), before the lock.
CheckActive(t) ==
    /\ t \notin checked
    /\ freeing[t] = NoId
    /\ isActive
    /\ checked' = checked \cup {t}
    /\ UNCHANGED <<freeCons, pendingCons, busyCons, salt, isActive, freeing,
                   shutdown, disconnected>>

\* AllocNetCon(), under the lock: the pending connection with the lowest slot.
AllocNetCon(t) ==
    /\ t \in checked
    /\ checked' = checked \ {t}
    /\ \/ \E k \in DOMAIN pendingCons : IsFirst(pendingCons, k) /\ MakeBusy(k)
       \/ /\ DOMAIN pendingCons = {}      \* "Out of network connection."
          /\ UNCHANGED <<pendingCons, salt, busyCons, disconnected>>
    /\ UNCHANGED <<freeCons, isActive, freeing, shutdown>>

\* Mutant: the test of _isActive is missing.
AllocNetConByIdAlways(slot) ==
    /\ slot \in DOMAIN pendingCons
    /\ MakeBusy(slot)
    /\ UNCHANGED <<freeCons, isActive, checked, freeing, shutdown>>

\* AllocNetCon(compId): the pending connection with the slot of compId.
AllocNetConById(slot) ==
    /\ isActive
    /\ slot \in DOMAIN pendingCons
    /\ MakeBusy(slot)
    /\ UNCHANGED <<freeCons, isActive, checked, freeing, shutdown>>

\* NetConnection::OnDisconnected copies the identity of its connection: one
\* that has been put to use at least once and has not been destroyed.
ReadCompId(t, c) ==
    /\ t \notin checked
    /\ freeing[t] = NoId
    /\ salt[c] # 0
    /\ c \in Owned
    /\ freeing' = [freeing EXCEPT ![t] = CompId(c)]
    /\ UNCHANGED <<freeCons, pendingCons, busyCons, salt, isActive, checked,
                   shutdown, disconnected>>

\* FreeNetCon(compId) with the identity that t copied earlier.
FreeNetCon(t) ==
    LET id == freeing[t]
    IN  /\ id # NoId
        /\ freeing' = [freeing EXCEPT ![t] = NoId]
        /\ IF Key(id) \in DOMAIN busyCons
           THEN /\ busyCons' = Erase(busyCons, Key(id))
                /\ freeCons' = Emplace(freeCons, FreeKey(id), busyCons[Key(id)])
           ELSE UNCHANGED <<busyCons, freeCons>>
        /\ UNCHANGED <<pendingCons, salt, isActive, checked, shutdown,
                       disconnected>>

\* Shutdown(), before the lock.
ShutdownFlag ==
    /\ shutdown = "no"
    /\ shutdown' = "flagged"
    /\ isActive' = FALSE
    /\ UNCHANGED <<freeCons, pendingCons, busyCons, salt, checked, freeing,
                   disconnected>>

\* Shutdown(), under the lock: Disconnect every busy connection.
ShutdownSweep ==
    /\ shutdown = "flagged"
    /\ shutdown' = "swept"
    /\ disconnected' = Values(busyCons)
    /\ UNCHANGED <<freeCons, pendingCons, busyCons, salt, isActive, checked,
                   freeing>>

Next ==
    \/ RegisterCon
    \/ \E t \in Threads : CheckActive(t) \/ AllocNetCon(t) \/ FreeNetCon(t)
    \/ \E t \in Threads, c \in Slots : ReadCompId(t, c)
    \/ \E c \in Slots : AllocNetConById(c)
    \/ ShutdownFlag
    \/ ShutdownSweep

Spec == Init /\ [][Next]_mgrVars

-------------------------------------------------------------------------------
(* Properties                                                              *)

\* The maps map keys to connections and the threads hold identities.
TypeOK ==
    /\ DOMAIN freeCons \subseteq Slots /\ Values(freeCons) \subseteq Slots
    /\ DOMAIN pendingCons \subseteq Slots /\ Values(pendingCons) \subseteq Slots
    /\ Values(busyCons) \subseteq Slots
    /\ salt \in [Slots -> Word]
    /\ isActive \in BOOLEAN
    /\ checked \subseteq Threads
    /\ freeing \in [Threads -> CompIds \cup {NoId}]
    /\ shutdown \in {"no", "flagged", "swept"}
    /\ disconnected \subseteq Slots

\* No connection is lost: whatever the calls and their order, each one is in
\* a map, so a later registration or shutdown can still reach it.
NothingLost == Owned = Slots

\* No connection is in two places: two users never share a NetConnection.
NothingShared ==
    /\ Values(freeCons) \cap Values(pendingCons) = {}
    /\ Values(freeCons) \cap Values(busyCons) = {}
    /\ Values(pendingCons) \cap Values(busyCons) = {}
    /\ \A j, k \in DOMAIN freeCons : freeCons[j] = freeCons[k] => j = k
    /\ \A j, k \in DOMAIN pendingCons : pendingCons[j] = pendingCons[k] => j = k
    /\ \A j, k \in DOMAIN busyCons : busyCons[j] = busyCons[k] => j = k

\* Each connection is filed where a caller that knows its present identity
\* looks for it.  For the free map this rests on FreeNetCon using the slot of
\* the identity it was given, for the busy map on no salt changing in there.
FiledUnderOwnId ==
    /\ \A k \in DOMAIN freeCons : freeCons[k] = k
    /\ \A k \in DOMAIN pendingCons : pendingCons[k] = k
    /\ \A k \in DOMAIN busyCons : k = Key(CompId(busyCons[k]))

\* A connection stops being busy only through an identity that is its present
\* one: a late FreeNetCon with the identity of an earlier use frees nothing.
FreedByPresentId ==
    \A c \in Values(busyCons) \ Values(busyCons') :
        \E t \in Threads : freeing[t] = CompId(c)

FreedByPresentIdOnly == [][FreedByPresentId]_mgrVars

\* IsEmpty(), which decides whether the workers may be stopped, counts the
\* connections that are not busy; that is right while none is lost.
IsEmptyMeansNoneBusy == IsEmpty <=> DOMAIN busyCons = {}

\* After Shutdown() the connections it did not disconnect are those of the
\* threads that had read _isActive before it was cleared, at most one each.
LateConnectionsBounded ==
    shutdown = "swept" =>
        Cardinality(Values(busyCons) \ disconnected) + Cardinality(checked)
            <= Cardinality(Threads)

\* Where each connection is on its round.
PhaseOf ==
    [c \in Slots |-> CASE c \in Values(busyCons) -> "busy"
                       [] c \in Values(pendingCons) -> "pending"
                       [] OTHER -> "free"]

\* With salts that do not reach the negative half of the word, the manager is
\* the pool of connections that go round free -> pending -> busy -> free.
Pool == INSTANCE ConnectionPool WITH
    Cons <- Slots, MaxGeneration <- LastSalt,
    phase <- PhaseOf, generation <- salt

ImplementsPool == Pool!Spec

===============================================================================

------------------------ MODULE NetConnectionMgr_proofs ------------------------
(***************************************************************************)
(* Proofs about NetConnectionMgr for every number of connections, set of   *)
(* threads and word size, as long as no salt becomes negative (NoWrap).    *)
(***************************************************************************)
EXTENDS NetConnectionMgr, FiniteSetTheorems, TLAPS

\* A connection is not reused so often that its salt reaches 2^31.
NoWrap == LastSalt \in 0 .. (SaltLimit - 1)

-------------------------------------------------------------------------------
(* The arithmetic of identities                                            *)

\* A 64-bit word is its two halves.
LEMMA Halves ==
    ASSUME NEW a \in Nat, NEW b \in Nat,
           NEW x \in 0 .. (WordSize - 1), NEW y \in 0 .. (WordSize - 1), a < b
    PROVE  a * WordSize + x < b * WordSize + y
<1> DEFINE W == WordSize
<1>1. W \in Nat /\ x \in 0 .. (W - 1) /\ y \in 0 .. (W - 1)
  BY SaltLimitAssumption DEF WordSize
<1> HIDE DEF W
<1>2. PICK d \in Nat : b = a + 1 + d
  <2>1. b - a - 1 \in Nat /\ b = a + 1 + (b - a - 1)
    OBVIOUS
  <2> QED BY <2>1
<1>3. b * W = a * W + W + d * W /\ a * W \in Nat /\ d * W \in Nat
  BY <1>1, <1>2
<1>4. a * W + x < b * W + y
  BY <1>1, <1>3
<1> QED BY <1>4 DEF W

\* Which identities have the same key: those that are the same, and those that have
\* the same negative salt, whatever their slots (the sign extension in
\* CompositId::GetIndex).
THEOREM KeysThatCollide ==
    ASSUME NEW i \in Nat, NEW j \in Nat, NEW s \in Word, NEW u \in Word
    PROVE  GetIndex(i, s) = GetIndex(j, u) <=> s = u /\ (s < 0 \/ i = j)
<1> DEFINE Upper(n, w) == IF w >= 0 THEN n ELSE WordSize - 1
<1>0. WordSize \in Nat /\ WordSize = 2 * SaltLimit /\ SaltLimit \in Nat \ {0}
  BY SaltLimitAssumption DEF WordSize
<1>1. /\ AsUnsigned(s) \in 0 .. (WordSize - 1) /\ AsUnsigned(u) \in 0 .. (WordSize - 1)
      /\ AsUnsigned(s) = AsUnsigned(u) <=> s = u
  BY <1>0 DEF Word, AsUnsigned
<1>2. Upper(i, s) \in Nat /\ Upper(j, u) \in Nat
  BY <1>0
<1>3. /\ GetIndex(i, s) = Upper(i, s) * WordSize + AsUnsigned(s)
      /\ GetIndex(j, u) = Upper(j, u) * WordSize + AsUnsigned(u)
  BY <1>0 DEF GetIndex, AsUnsigned, Word
<1>4. s = u => (Upper(i, s) = Upper(j, u) <=> s < 0 \/ i = j)
  BY <1>0 DEF Word
<1> HIDE DEF Upper
<1>5. Upper(i, s) * WordSize \in Nat /\ Upper(j, u) * WordSize \in Nat
  BY <1>0, <1>2
<1>6. CASE Upper(i, s) = Upper(j, u)
  BY <1>1, <1>3, <1>4, <1>5, <1>6
<1>7. CASE Upper(i, s) < Upper(j, u)
  <2>1. GetIndex(i, s) < GetIndex(j, u)
    BY <1>1, <1>2, <1>3, <1>7, Halves
  <2>2. GetIndex(i, s) \in Nat /\ GetIndex(j, u) \in Nat
    BY <1>1, <1>3, <1>5
  <2>3. Upper(i, s) # Upper(j, u)
    BY <1>2, <1>7
  <2> QED BY <1>4, <2>1, <2>2, <2>3
<1>8. CASE Upper(j, u) < Upper(i, s)
  <2>1. GetIndex(j, u) < GetIndex(i, s)
    BY <1>1, <1>2, <1>3, <1>8, Halves
  <2>2. GetIndex(i, s) \in Nat /\ GetIndex(j, u) \in Nat
    BY <1>1, <1>3, <1>5
  <2>3. Upper(i, s) # Upper(j, u)
    BY <1>2, <1>8
  <2> QED BY <1>4, <2>1, <2>2, <2>3
<1> QED BY <1>2, <1>6, <1>7, <1>8

\* Two identities with salts that are not negative have different keys: the
\* busy map tells every use of every connection from every other.
THEOREM KeyInjective ==
    ASSUME NEW i \in Nat, NEW j \in Nat,
           NEW s \in 0 .. (SaltLimit - 1), NEW u \in 0 .. (SaltLimit - 1),
           GetIndex(i, s) = GetIndex(j, u)
    PROVE  i = j /\ s = u
<1>1. s \in Word /\ u \in Word /\ ~(s < 0)
  BY SaltLimitAssumption DEF Word
<1> QED BY <1>1, KeysThatCollide

\* CompositId::IncSalt counts modulo 2^32 in spite of the signed type: no salt comes
\* again before all of them have been used, but after 2^31 uses of a connection they
\* are negative.
THEOREM IncSaltIsModular ==
    ASSUME NEW s \in Word
    PROVE  /\ IncSalt(s) \in Word
           /\ AsUnsigned(IncSalt(s)) = IF AsUnsigned(s) = WordSize - 1
                                       THEN 0 ELSE AsUnsigned(s) + 1
BY SaltLimitAssumption DEF Word, IncSalt, AsUnsigned, WordSize

\* A salt below LastSalt is counted up by one.
LEMMA IncSaltCounts ==
    ASSUME NoWrap, NEW s \in 0 .. LastSalt, s # LastSalt
    PROVE  IncSalt(s) = s + 1 /\ IncSalt(s) \in 0 .. LastSalt
BY SaltLimitAssumption DEF NoWrap, IncSalt, AsUnsigned, WordSize

-------------------------------------------------------------------------------
(* std::map                                                                *)

\* Emplacing under a new key adds the value.
LEMMA EmplaceValue ==
    ASSUME NEW m, NEW k, NEW c, k \notin DOMAIN m
    PROVE  Values(Emplace(m, k, c)) = Values(m) \cup {c}
<1> DEFINE e == Emplace(m, k, c)
<1>1. /\ DOMAIN e = DOMAIN m \cup {k}
      /\ e[k] = c
      /\ \A j \in DOMAIN m : e[j] = m[j]
  BY DEF Emplace
<1> HIDE DEF e
<1>2. Values(e) = Values(m) \cup {c}
  BY <1>1 DEF Values
<1> QED BY <1>2 DEF e

\* Erasing a key takes its value out of a map in which no other key has it.
LEMMA EraseValue ==
    ASSUME NEW m, NEW k \in DOMAIN m, \A j \in DOMAIN m : m[j] = m[k] => j = k
    PROVE  Values(Erase(m, k)) = Values(m) \ {m[k]}
<1> DEFINE e == Erase(m, k)
<1>1. /\ DOMAIN e = DOMAIN m \ {k}
      /\ \A j \in DOMAIN m \ {k} : e[j] = m[j]
  BY DEF Erase
<1> HIDE DEF e
<1>2. Values(e) = Values(m) \ {m[k]}
  BY <1>1 DEF Values
<1> QED BY <1>2 DEF e

\* The two operations on a map that files each connection under its slot.
LEMMA EraseFiled ==
    ASSUME NEW m, NEW k \in DOMAIN m, \A j \in DOMAIN m : m[j] = j
    PROVE  /\ Values(Erase(m, k)) = Values(m) \ {k}
           /\ \A j \in DOMAIN Erase(m, k) : Erase(m, k)[j] = j
<1>1. \A j \in DOMAIN m : m[j] = m[k] => j = k
  OBVIOUS
<1>2. Values(Erase(m, k)) = Values(m) \ {m[k]}
  BY <1>1, EraseValue
<1>3. \A j \in DOMAIN Erase(m, k) : Erase(m, k)[j] = j
  BY DEF Erase
<1>4. m[k] = k
  OBVIOUS
<1> QED BY <1>2, <1>3, <1>4

LEMMA EmplaceFiled ==
    ASSUME NEW m, NEW k, k \notin DOMAIN m, \A j \in DOMAIN m : m[j] = j
    PROVE  /\ Values(Emplace(m, k, k)) = Values(m) \cup {k}
           /\ \A j \in DOMAIN Emplace(m, k, k) : Emplace(m, k, k)[j] = j
<1>1. Values(Emplace(m, k, k)) = Values(m) \cup {k}
  BY EmplaceValue
<1>2. \A j \in DOMAIN Emplace(m, k, k) : Emplace(m, k, k)[j] = j
  BY DEF Emplace
<1> QED BY <1>1, <1>2

-------------------------------------------------------------------------------
(* The inductive invariant: the three maps partition the connections, each *)
(* files them under their present identities, and neither a connection nor *)
(* a thread has a negative salt.                                           *)

SaltsCounted ==
    /\ salt \in [Slots -> 0 .. LastSalt]
    /\ freeing \in [Threads -> [slot : Slots, salt : 0 .. LastSalt] \cup {NoId}]

Partition ==
    /\ Owned = Slots
    /\ Values(freeCons) \cap Values(pendingCons) = {}
    /\ Values(freeCons) \cap Values(busyCons) = {}
    /\ Values(pendingCons) \cap Values(busyCons) = {}

FlagsOK ==
    /\ isActive \in BOOLEAN
    /\ checked \subseteq Threads
    /\ shutdown \in {"no", "flagged", "swept"}
    /\ disconnected \subseteq Slots

IInv == SaltsCounted /\ Partition /\ FiledUnderOwnId /\ FlagsOK

\* Where the keys of free and pending connections are their slots, the keys
\* and the connections are the same sets.
LEMMA FiledValues ==
    ASSUME FiledUnderOwnId
    PROVE  /\ Values(freeCons) = DOMAIN freeCons
           /\ Values(pendingCons) = DOMAIN pendingCons
BY DEF FiledUnderOwnId, Values

\* The key of a use that has not begun is not in the busy map.
LEMMA NextKeyIsNew ==
    ASSUME NoWrap, IInv, NEW c \in Slots, NEW u \in 0 .. LastSalt,
           c \notin Values(busyCons) \/ u # salt[c]
    PROVE  GetIndex(c, u) \notin DOMAIN busyCons
<1> SUFFICES ASSUME GetIndex(c, u) \in DOMAIN busyCons PROVE FALSE
  OBVIOUS
<1> DEFINE d == busyCons[GetIndex(c, u)]
<1>1. d \in Slots /\ d \in Values(busyCons)
  BY DEF IInv, Partition, Owned, Values
<1>2. GetIndex(c, u) = GetIndex(d, salt[d])
  BY DEF IInv, FiledUnderOwnId, Key, CompId
<1>3. salt[d] \in 0 .. (SaltLimit - 1) /\ u \in 0 .. (SaltLimit - 1)
  BY <1>1, SaltLimitAssumption, MgrAssumption DEF IInv, SaltsCounted, NoWrap
<1>4. c \in Nat /\ d \in Nat
  BY <1>1, MgrAssumption DEF Slots
<1>5. c = d /\ u = salt[d]
  BY <1>2, <1>3, <1>4, KeyInjective
<1> QED BY <1>1, <1>5

LEMMA InitIInv == ASSUME NoWrap, Init PROVE IInv
<1>1. SaltsCounted
  BY MgrAssumption DEF Init, SaltsCounted, NoWrap
<1>2. Partition /\ FiledUnderOwnId /\ FlagsOK
  BY DEF Init, Partition, FiledUnderOwnId, FlagsOK, Owned, Values, EmptyMap
<1> QED BY <1>1, <1>2 DEF IInv

LEMMA RegisterConIInv == ASSUME NoWrap, IInv, RegisterCon PROVE IInv'
<1>1. PICK k \in DOMAIN freeCons :
        /\ freeCons' = Erase(freeCons, k)
        /\ pendingCons' = Emplace(pendingCons, freeCons[k], freeCons[k])
  BY DEF RegisterCon
<1>2. freeCons[k] = k /\ k \in Values(freeCons) /\ k \notin DOMAIN pendingCons
  BY FiledValues DEF IInv, FiledUnderOwnId, Partition
<1>3. /\ Values(freeCons') = Values(freeCons) \ {k}
      /\ \A j \in DOMAIN freeCons' : freeCons'[j] = j
  <2>1. \A j \in DOMAIN freeCons : freeCons[j] = j
    BY DEF IInv, FiledUnderOwnId
  <2> QED BY <1>1, <2>1, EraseFiled
<1>4. /\ Values(pendingCons') = Values(pendingCons) \cup {k}
      /\ \A j \in DOMAIN pendingCons' : pendingCons'[j] = j
  <2>1. \A j \in DOMAIN pendingCons : pendingCons[j] = j
    BY DEF IInv, FiledUnderOwnId
  <2>2. pendingCons' = Emplace(pendingCons, k, k)
    BY <1>1, <1>2
  <2> QED BY <1>2, <2>1, <2>2, EmplaceFiled
<1>5. UNCHANGED <<busyCons, salt, isActive, checked, freeing, shutdown,
                  disconnected>>
  BY DEF RegisterCon
<1>6. Partition'
  <2>1. Values(busyCons') = Values(busyCons)
    BY <1>5
  <2> QED BY <1>2, <1>3, <1>4, <2>1 DEF IInv, Partition, Owned
<1>7. FiledUnderOwnId'
  BY <1>3, <1>4, <1>5 DEF IInv, FiledUnderOwnId, Key, CompId
<1>8. SaltsCounted' /\ FlagsOK'
  BY <1>5 DEF IInv, SaltsCounted, FlagsOK
<1> QED BY <1>6, <1>7, <1>8 DEF IInv

\* The lookup of an identity in the busy map finds the connection that the
\* identity names, in its present use, or nothing.
LEMMA KeyFindsPresentUse ==
    ASSUME NoWrap, IInv, NEW id \in [slot : Slots, salt : 0 .. LastSalt],
           Key(id) \in DOMAIN busyCons
    PROVE  /\ busyCons[Key(id)] = id.slot
           /\ id = CompId(id.slot)
<1> DEFINE d == busyCons[Key(id)]
<1>1. d \in Slots
  BY DEF IInv, Partition, Owned, Values
<1>2. GetIndex(id.slot, id.salt) = GetIndex(d, salt[d])
  BY DEF IInv, FiledUnderOwnId, Key, CompId
<1>3. salt[d] \in 0 .. (SaltLimit - 1) /\ id.salt \in 0 .. (SaltLimit - 1)
  BY <1>1, SaltLimitAssumption, MgrAssumption DEF IInv, SaltsCounted, NoWrap
<1>4. id.slot \in Nat /\ d \in Nat
  BY <1>1, MgrAssumption DEF Slots
<1>5. id.slot = d /\ id.salt = salt[d]
  BY <1>2, <1>3, <1>4, KeyInjective
<1>6. id = [slot |-> d, salt |-> salt[d]]
  BY <1>5
<1> QED BY <1>5, <1>6 DEF CompId

\* Moving a pending connection to the busy map under its next identity.
LEMMA MakeBusyIInv ==
    ASSUME NoWrap, IInv, NEW k \in DOMAIN pendingCons, MakeBusy(k),
           UNCHANGED <<freeCons, freeing>>
    PROVE  /\ SaltsCounted' /\ Partition' /\ FiledUnderOwnId'
           /\ disconnected' \subseteq Slots
           /\ Values(busyCons') = Values(busyCons) \cup {k}
           /\ Values(pendingCons') = Values(pendingCons) \ {k}
           /\ salt' = [salt EXCEPT ![k] = @ + 1]
           /\ salt[k] < LastSalt
<1> DEFINE u == IncSalt(salt[k])
<1>1. pendingCons[k] = k /\ k \in Values(pendingCons) /\ k \in Slots
  BY FiledValues DEF IInv, FiledUnderOwnId, Partition, Owned
<1>2. salt[k] \in 0 .. LastSalt /\ salt[k] # LastSalt
  BY <1>1 DEF IInv, SaltsCounted, MakeBusy
<1>3. u = salt[k] + 1 /\ u \in 0 .. LastSalt
  BY <1>2, IncSaltCounts
<1>4. salt' = [salt EXCEPT ![k] = u] /\ salt'[k] = u
  BY <1>1 DEF MakeBusy, IInv, SaltsCounted
<1>5. SaltsCounted'
  BY <1>3, <1>4 DEF IInv, SaltsCounted
<1>6. busyCons' = Emplace(busyCons, GetIndex(k, u), k)
  BY <1>1, <1>4 DEF MakeBusy, BusyKey
<1> HIDE DEF u
<1>7. GetIndex(k, u) \notin DOMAIN busyCons /\ k \notin Values(busyCons)
  BY <1>1, <1>2, <1>3, NextKeyIsNew DEF IInv, Partition
<1>8. /\ Values(busyCons') = Values(busyCons) \cup {k}
      /\ DOMAIN busyCons' = DOMAIN busyCons \cup {GetIndex(k, u)}
      /\ busyCons'[GetIndex(k, u)] = k
      /\ \A j \in DOMAIN busyCons : busyCons'[j] = busyCons[j]
  <2> DEFINE g == GetIndex(k, u)
  <2>1. g \notin DOMAIN busyCons
    BY <1>7
  <2> HIDE DEF g
  <2>2. busyCons' = Emplace(busyCons, g, k)
    BY <1>6 DEF g
  <2>3. Values(busyCons') = Values(busyCons) \cup {k}
    BY <2>1, <2>2, EmplaceValue
  <2>4. /\ DOMAIN busyCons' = DOMAIN busyCons \cup {g}
        /\ busyCons'[g] = k
        /\ \A j \in DOMAIN busyCons : busyCons'[j] = busyCons[j]
    BY <2>1, <2>2 DEF Emplace
  <2> QED BY <2>3, <2>4 DEF g
<1>9. /\ Values(pendingCons') = Values(pendingCons) \ {k}
      /\ \A j \in DOMAIN pendingCons' : pendingCons'[j] = j
  <2>1. \A j \in DOMAIN pendingCons : pendingCons[j] = j
    BY DEF IInv, FiledUnderOwnId
  <2>2. pendingCons' = Erase(pendingCons, k)
    BY <1>1 DEF MakeBusy
  <2> QED BY <2>1, <2>2, EraseFiled
<1>10. Partition'
  <2>1. Values(freeCons') = Values(freeCons)
    OBVIOUS
  <2> QED BY <1>1, <1>8, <1>9, <2>1 DEF IInv, Partition, Owned
<1>11. FiledUnderOwnId'
  <2>1. ASSUME NEW j \in DOMAIN busyCons
        PROVE  j = GetIndex(busyCons'[j], salt'[busyCons'[j]])
    <3>1. busyCons[j] # k /\ busyCons[j] \in Slots
      BY <1>7 DEF Values, IInv, Partition, Owned
    <3>2. salt'[busyCons[j]] = salt[busyCons[j]]
      BY <1>4, <3>1 DEF IInv, SaltsCounted
    <3> QED BY <1>8, <3>2 DEF IInv, FiledUnderOwnId, Key, CompId
  <2>2. GetIndex(k, u) = GetIndex(k, salt'[k])
    BY <1>4
  <2>3. \A j \in DOMAIN freeCons' : freeCons'[j] = j
    BY DEF IInv, FiledUnderOwnId
  <2> QED BY <1>8, <1>9, <2>1, <2>2, <2>3 DEF FiledUnderOwnId, Key, CompId
<1>12. disconnected' \subseteq Slots
  BY DEF IInv, FlagsOK, MakeBusy
<1>13. salt[k] < LastSalt
  BY <1>2, MgrAssumption
<1> QED BY <1>3, <1>4, <1>5, <1>8, <1>9, <1>10, <1>11, <1>12, <1>13

LEMMA AllocNetConIInv ==
    ASSUME NoWrap, IInv, NEW t \in Threads, AllocNetCon(t) PROVE IInv'
<1>1. /\ checked' = checked \ {t}
      /\ UNCHANGED <<freeCons, isActive, freeing, shutdown>>
  BY DEF AllocNetCon
<1>2. CASE \E k \in DOMAIN pendingCons : MakeBusy(k)
  <2>1. SaltsCounted' /\ Partition' /\ FiledUnderOwnId' /\ disconnected' \subseteq Slots
    BY <1>1, <1>2, MakeBusyIInv
  <2>2. FlagsOK'
    BY <1>1, <2>1 DEF IInv, FlagsOK
  <2> QED BY <2>1, <2>2 DEF IInv
<1>3. CASE UNCHANGED <<pendingCons, salt, busyCons, disconnected>>
  <2>1. SaltsCounted' /\ FiledUnderOwnId'
    BY <1>1, <1>3 DEF IInv, SaltsCounted, FiledUnderOwnId, Key, CompId
  <2>2. Partition'
    BY <1>1, <1>3 DEF IInv, Partition, Owned, Values
  <2>3. FlagsOK'
    BY <1>1, <1>3 DEF IInv, FlagsOK
  <2> QED BY <2>1, <2>2, <2>3 DEF IInv
<1> QED BY <1>2, <1>3 DEF AllocNetCon, IsFirst

LEMMA AllocNetConByIdIInv ==
    ASSUME NoWrap, IInv, NEW c \in Slots, AllocNetConById(c) PROVE IInv'
<1>1. /\ c \in DOMAIN pendingCons /\ MakeBusy(c)
      /\ UNCHANGED <<freeCons, isActive, checked, freeing, shutdown>>
  BY DEF AllocNetConById
<1>2. SaltsCounted' /\ Partition' /\ FiledUnderOwnId' /\ disconnected' \subseteq Slots
  BY <1>1, MakeBusyIInv
<1>3. FlagsOK'
  BY <1>1, <1>2 DEF IInv, FlagsOK
<1> QED BY <1>2, <1>3 DEF IInv

\* What FreeNetCon does when it finds a connection.
LEMMA FreeFoundCon ==
    ASSUME NoWrap, IInv, NEW t \in Threads, FreeNetCon(t),
           Key(freeing[t]) \in DOMAIN busyCons
    PROVE  LET con == freeing[t].slot
           IN  /\ con \in Values(busyCons)
               /\ freeing[t] = CompId(con)
               /\ busyCons' = Erase(busyCons, Key(freeing[t]))
               /\ busyCons[Key(freeing[t])] = con
               /\ Values(busyCons') = Values(busyCons) \ {con}
               /\ freeCons' = Emplace(freeCons, con, con)
               /\ con \notin DOMAIN freeCons
               /\ Values(freeCons') = Values(freeCons) \cup {con}
               /\ \A j \in DOMAIN freeCons' : freeCons'[j] = j
<1> DEFINE id == freeing[t]
           con == freeing[t].slot
<1>1. id \in [slot : Slots, salt : 0 .. LastSalt]
  BY DEF FreeNetCon, IInv, SaltsCounted
<1>2. busyCons[Key(id)] = con /\ id = CompId(con)
  BY <1>1, KeyFindsPresentUse
<1>3. /\ busyCons' = Erase(busyCons, Key(id))
      /\ freeCons' = Emplace(freeCons, con, con)
  BY <1>2 DEF FreeNetCon, FreeKey
<1>4. con \in Values(busyCons)
  BY <1>2 DEF Values
<1>5. con \notin DOMAIN freeCons
  BY <1>4, FiledValues DEF IInv, Partition
<1>6. Values(busyCons') = Values(busyCons) \ {con}
  <2>1. \A j \in DOMAIN busyCons : busyCons[j] = busyCons[Key(id)] => j = Key(id)
    BY <1>2 DEF IInv, FiledUnderOwnId
  <2> QED BY <1>2, <1>3, <2>1, EraseValue
<1>7. /\ Values(freeCons') = Values(freeCons) \cup {con}
      /\ \A j \in DOMAIN freeCons' : freeCons'[j] = j
  <2>1. \A j \in DOMAIN freeCons : freeCons[j] = j
    BY DEF IInv, FiledUnderOwnId
  <2> HIDE DEF con
  <2> QED BY <1>3, <1>5, <2>1, EmplaceFiled
<1> QED BY <1>2, <1>3, <1>4, <1>5, <1>6, <1>7

LEMMA FreeNetConIInv ==
    ASSUME NoWrap, IInv, NEW t \in Threads, FreeNetCon(t) PROVE IInv'
<1>1. /\ freeing' = [freeing EXCEPT ![t] = NoId]
      /\ UNCHANGED <<pendingCons, salt, isActive, checked, shutdown,
                     disconnected>>
  BY DEF FreeNetCon
<1>2. SaltsCounted' /\ FlagsOK'
  BY <1>1 DEF IInv, SaltsCounted, FlagsOK
<1>3. CASE Key(freeing[t]) \in DOMAIN busyCons
  <2> DEFINE con == freeing[t].slot
  <2>1. /\ con \in Values(busyCons)
        /\ busyCons' = Erase(busyCons, Key(freeing[t]))
        /\ Values(busyCons') = Values(busyCons) \ {con}
        /\ Values(freeCons') = Values(freeCons) \cup {con}
        /\ \A j \in DOMAIN freeCons' : freeCons'[j] = j
    BY <1>3, FreeFoundCon
  <2>2. Values(pendingCons') = Values(pendingCons)
    BY <1>1
  <2> HIDE DEF con
  <2>3. Partition'
    BY <2>1, <2>2 DEF IInv, Partition, Owned
  <2>4. \A j \in DOMAIN busyCons' :
            j \in DOMAIN busyCons /\ busyCons'[j] = busyCons[j]
    BY <2>1 DEF Erase
  <2>5. FiledUnderOwnId'
    BY <1>1, <2>1, <2>4 DEF IInv, FiledUnderOwnId, Key, CompId
  <2> QED BY <1>2, <2>3, <2>5 DEF IInv
<1>4. CASE Key(freeing[t]) \notin DOMAIN busyCons
  <2>1. UNCHANGED <<freeCons, busyCons>>
    BY <1>4 DEF FreeNetCon
  <2>2. FiledUnderOwnId'
    BY <1>1, <2>1 DEF IInv, FiledUnderOwnId, Key, CompId
  <2>3. Partition'
    BY <1>1, <2>1 DEF IInv, Partition, Owned, Values
  <2> QED BY <1>2, <2>2, <2>3 DEF IInv
<1> QED BY <1>3, <1>4

\* The steps that leave the maps and the salts alone.
LEMMA OtherStepsIInv ==
    ASSUME NoWrap, IInv,
           \/ \E t \in Threads : CheckActive(t)
           \/ \E t \in Threads, c \in Slots : ReadCompId(t, c)
           \/ ShutdownFlag
           \/ ShutdownSweep
           \/ UNCHANGED mgrVars
    PROVE  IInv'
<1>1. UNCHANGED <<freeCons, pendingCons, busyCons, salt>>
  BY DEF CheckActive, ReadCompId, ShutdownFlag, ShutdownSweep, mgrVars
<1>2. FiledUnderOwnId'
  BY <1>1 DEF IInv, FiledUnderOwnId, Key, CompId
<1>3. Partition'
  BY <1>1 DEF IInv, Partition, Owned, Values
<1>4. FlagsOK'
  BY DEF IInv, FlagsOK, Partition, Owned, CheckActive, ReadCompId,
         ShutdownFlag, ShutdownSweep, mgrVars
<1>5. SaltsCounted'
  <2>1. ASSUME NEW t \in Threads, NEW c \in Slots, ReadCompId(t, c)
        PROVE  SaltsCounted'
    BY <2>1 DEF IInv, SaltsCounted, ReadCompId, CompId
  <2>2. CASE UNCHANGED freeing
    BY <1>1, <2>2 DEF IInv, SaltsCounted
  <2> QED BY <2>1, <2>2
       DEF CheckActive, ReadCompId, ShutdownFlag, ShutdownSweep, mgrVars
<1> QED BY <1>2, <1>3, <1>4, <1>5 DEF IInv

LEMMA NextIInv == ASSUME NoWrap, IInv, [Next]_mgrVars PROVE IInv'
BY RegisterConIInv, AllocNetConIInv, AllocNetConByIdIInv, FreeNetConIInv,
   OtherStepsIInv DEF Next

\* The invariant holds throughout every execution.
THEOREM Invariance == ASSUME NoWrap PROVE Spec => []IInv
<1>1. Init => IInv
  BY InitIInv
<1>2. IInv /\ [Next]_mgrVars => IInv'
  BY NextIInv
<1> QED BY <1>1, <1>2, PTL DEF Spec

-------------------------------------------------------------------------------
(* What follows from the invariant                                         *)

LEMMA IInvTypeOK == ASSUME NoWrap, IInv PROVE TypeOK
<1>1. 0 .. LastSalt \subseteq Word
  BY SaltLimitAssumption DEF NoWrap, Word
<1>2. salt \in [Slots -> Word] /\ freeing \in [Threads -> CompIds \cup {NoId}]
  BY <1>1 DEF IInv, SaltsCounted, CompIds
<1>3. /\ Values(freeCons) \subseteq Slots /\ DOMAIN freeCons \subseteq Slots
      /\ Values(pendingCons) \subseteq Slots /\ DOMAIN pendingCons \subseteq Slots
      /\ Values(busyCons) \subseteq Slots
  BY FiledValues DEF IInv, Partition, Owned
<1> QED BY <1>2, <1>3 DEF IInv, FlagsOK, TypeOK

LEMMA IInvNothingShared == ASSUME IInv PROVE NothingShared
BY DEF IInv, Partition, FiledUnderOwnId, NothingShared

\* The variables keep their types: in particular no thread ever holds, and no
\* map ever files under, an identity outside the slots and the word.
THEOREM TypeCorrect == ASSUME NoWrap PROVE Spec => []TypeOK
<1>1. IInv => TypeOK
  BY IInvTypeOK
<1> QED BY <1>1, Invariance, PTL

\* No order of calls loses a connection.
THEOREM NoneIsLost == ASSUME NoWrap PROVE Spec => []NothingLost
<1>1. IInv => NothingLost
  BY DEF IInv, Partition, NothingLost
<1> QED BY <1>1, Invariance, PTL

\* No order of calls puts a connection in two maps, or twice in one.
THEOREM NoneIsShared == ASSUME NoWrap PROVE Spec => []NothingShared
<1>1. IInv => NothingShared
  BY IInvNothingShared
<1> QED BY <1>1, Invariance, PTL

\* No order of calls files a connection where its present identity does not lead.
THEOREM FoundUnderOwnId == ASSUME NoWrap PROVE Spec => []FiledUnderOwnId
<1>1. IInv => FiledUnderOwnId
  BY DEF IInv
<1> QED BY <1>1, Invariance, PTL

LEMMA StepFreedByPresentId ==
    ASSUME NoWrap, IInv, [Next]_mgrVars PROVE FreedByPresentId
<1>1. CASE \E t \in Threads : FreeNetCon(t)
  <2>1. PICK t \in Threads : FreeNetCon(t)
    BY <1>1
  <2>2. CASE Key(freeing[t]) \in DOMAIN busyCons
    <3>1. /\ freeing[t] = CompId(freeing[t].slot)
          /\ Values(busyCons') = Values(busyCons) \ {freeing[t].slot}
      BY <2>1, <2>2, FreeFoundCon
    <3> QED BY <3>1 DEF FreedByPresentId
  <2>3. CASE Key(freeing[t]) \notin DOMAIN busyCons
    BY <2>1, <2>3 DEF FreeNetCon, FreedByPresentId, Values
  <2> QED BY <2>2, <2>3
<1>2. CASE \E k \in DOMAIN pendingCons :
              MakeBusy(k) /\ UNCHANGED <<freeCons, freeing>>
  <2>1. Values(busyCons) \subseteq Values(busyCons')
    BY <1>2, MakeBusyIInv
  <2> QED BY <2>1 DEF FreedByPresentId
<1>3. CASE UNCHANGED busyCons
  BY <1>3 DEF FreedByPresentId, Values
<1> QED BY <1>1, <1>2, <1>3
     DEF Next, RegisterCon, CheckActive, AllocNetCon, AllocNetConById,
         ReadCompId, ShutdownFlag, ShutdownSweep, IsFirst, mgrVars

\* A late FreeNetCon with the identity of an earlier use frees nothing.
THEOREM StaleIdsFreeNothing == ASSUME NoWrap PROVE Spec => FreedByPresentIdOnly
<1>1. IInv /\ [Next]_mgrVars => [FreedByPresentId]_mgrVars
  BY StepFreedByPresentId
<1>2. Spec => [][FreedByPresentId]_mgrVars
  BY <1>1, Invariance, PTL DEF Spec
<1> QED BY <1>2 DEF FreedByPresentIdOnly

-------------------------------------------------------------------------------
(* IsEmpty()                                                               *)

LEMMA SlotsFinite == IsFiniteSet(Slots) /\ Cardinality(Slots) = Capacity
<1>1. /\ IsFiniteSet(0 .. (Capacity - 1))
      /\ Cardinality(0 .. (Capacity - 1))
           = IF 0 > Capacity - 1 THEN 0 ELSE (Capacity - 1) - 0 + 1
  BY MgrAssumption, FS_Interval
<1> QED BY <1>1, MgrAssumption DEF Slots

LEMMA IInvIsEmpty == ASSUME IInv PROVE IsEmptyMeansNoneBusy
<1> DEFINE F == DOMAIN freeCons
           P == DOMAIN pendingCons
           B == Values(busyCons)
<1>1. /\ F \cup P \cup B = Slots /\ F \cap P = {}
      /\ F \cap B = {} /\ P \cap B = {}
  BY FiledValues DEF IInv, Partition, Owned
<1>2. B = {} <=> DOMAIN busyCons = {}
  BY DEF Values
<1> HIDE DEF F, P, B
<1>3. /\ IsFiniteSet(F) /\ IsFiniteSet(P) /\ IsFiniteSet(F \cup P)
  BY <1>1, SlotsFinite, FS_Subset
<1>4. Cardinality(F \cup P) = Cardinality(F) + Cardinality(P)
  <2>1. Cardinality(F \cup P)
            = Cardinality(F) + Cardinality(P) - Cardinality(F \cap P)
    BY <1>3, FS_Union
  <2>2. Cardinality(F \cap P) = 0
    BY <1>1, FS_EmptySet
  <2>3. Cardinality(F) \in Nat /\ Cardinality(P) \in Nat
    BY <1>3, FS_CardinalityType
  <2> QED BY <2>1, <2>2, <2>3
<1>5. Cardinality(F \cup P) = Capacity <=> F \cup P = Slots
  BY <1>1, SlotsFinite, FS_Subset
<1>6. F \cup P = Slots <=> B = {}
  BY <1>1
<1> QED BY <1>2, <1>4, <1>5, <1>6 DEF IsEmptyMeansNoneBusy, IsEmpty, F, P

\* IsEmpty() is true exactly when no connection is busy.
THEOREM IsEmptyCorrect == ASSUME NoWrap PROVE Spec => []IsEmptyMeansNoneBusy
<1>1. IInv => IsEmptyMeansNoneBusy
  BY IInvIsEmpty
<1> QED BY <1>1, Invariance, PTL

-------------------------------------------------------------------------------
(* Shutdown()                                                              *)

\* The busy connections that Shutdown() did not disconnect.
Late == Values(busyCons) \ disconnected

\* LateConnectionsBounded with what makes it inductive.
LateInv ==
    /\ shutdown # "no" => ~isActive
    /\ LateConnectionsBounded

LEMMA InitLateInv == ASSUME Init PROVE LateInv
BY DEF Init, LateInv, LateConnectionsBounded

\* One more late connection for one thread less that has read _isActive.
LEMMA AllocLateInv ==
    ASSUME NoWrap, IInv, LateInv, NEW t \in Threads, AllocNetCon(t)
    PROVE  LateInv'
<1>1. /\ t \in checked /\ checked' = checked \ {t}
      /\ UNCHANGED <<freeCons, isActive, freeing, shutdown>>
  BY DEF AllocNetCon
<1>2. SUFFICES ASSUME shutdown = "swept"
               PROVE  Cardinality(Late') + Cardinality(checked')
                          <= Cardinality(Threads)
  BY <1>1 DEF LateInv, LateConnectionsBounded, Late
<1>3. Cardinality(Late) + Cardinality(checked) <= Cardinality(Threads)
  BY <1>2 DEF LateInv, LateConnectionsBounded, Late
<1>4. IsFiniteSet(Late) /\ IsFiniteSet(checked) /\ IsFiniteSet(Slots)
  BY SlotsFinite, MgrAssumption, FS_Subset
     DEF IInv, FlagsOK, Partition, Owned, Late
<1>5. PICK c : Late' \subseteq Late \cup {c}
  <2>1. CASE \E k \in DOMAIN pendingCons : MakeBusy(k)
    <3>1. PICK k \in DOMAIN pendingCons : MakeBusy(k)
      BY <2>1
    <3>2. Values(busyCons') = Values(busyCons) \cup {k}
      BY <1>1, <3>1, MakeBusyIInv
    <3>3. disconnected' = disconnected \ {k}
      BY <3>1 DEF MakeBusy, IInv, FiledUnderOwnId
    <3>4. Late' \subseteq Late \cup {k}
      BY <3>2, <3>3 DEF Late
    <3> QED BY <3>4
  <2>2. CASE UNCHANGED <<busyCons, disconnected>>
    <3>1. Late' = Late
      BY <2>2 DEF Late, Values
    <3> QED BY <3>1
  <2> QED BY <2>1, <2>2 DEF AllocNetCon, IsFirst
<1>6. Cardinality(Late') <= Cardinality(Late) + 1
  <2>1. /\ IsFiniteSet(Late \cup {c})
        /\ Cardinality(Late \cup {c})
             = IF c \in Late THEN Cardinality(Late) ELSE Cardinality(Late) + 1
    BY <1>4, FS_AddElement
  <2>2. Cardinality(Late') <= Cardinality(Late \cup {c}) /\ IsFiniteSet(Late')
    BY <1>5, <2>1, FS_Subset
  <2>3. Cardinality(Late') \in Nat /\ Cardinality(Late) \in Nat
    BY <1>4, <2>2, FS_CardinalityType
  <2> QED BY <2>1, <2>2, <2>3
<1>7. Cardinality(checked') = Cardinality(checked) - 1
  BY <1>1, <1>4, FS_RemoveElement
<1>8. /\ Cardinality(Late) \in Nat /\ Cardinality(checked) \in Nat
      /\ IsFiniteSet(Late')
  BY <1>4, <1>5, FS_CardinalityType, FS_AddElement, FS_Subset
<1>9. Cardinality(Late') \in Nat /\ Cardinality(Threads) \in Nat
  BY <1>8, MgrAssumption, FS_CardinalityType
<1> QED BY <1>3, <1>6, <1>7, <1>8, <1>9

LEMMA SweepLateInv == ASSUME IInv, LateInv, ShutdownSweep PROVE LateInv'
<1>1. Late' = {} /\ checked' = checked /\ isActive' = isActive /\ ~isActive
  BY DEF ShutdownSweep, LateInv, Late, Values
<1>2. Cardinality(checked) <= Cardinality(Threads) /\ Cardinality(checked) \in Nat
  BY MgrAssumption, FS_Subset, FS_CardinalityType DEF IInv, FlagsOK
<1>3. Cardinality(Late') = 0
  BY <1>1, FS_EmptySet
<1>4. Cardinality(Late') + Cardinality(checked') <= Cardinality(Threads)
  BY <1>1, <1>2, <1>3
<1> QED BY <1>1, <1>4 DEF LateInv, LateConnectionsBounded, Late

LEMMA FreeLateInv ==
    ASSUME NoWrap, IInv, LateInv, NEW t \in Threads, FreeNetCon(t)
    PROVE  LateInv'
<1>1. UNCHANGED <<isActive, checked, shutdown, disconnected>>
  BY DEF FreeNetCon
<1>2. Late' \subseteq Late
  <2>1. CASE Key(freeing[t]) \in DOMAIN busyCons
    <3>1. Values(busyCons') = Values(busyCons) \ {freeing[t].slot}
      BY <2>1, FreeFoundCon
    <3> QED BY <1>1, <3>1 DEF Late
  <2>2. CASE Key(freeing[t]) \notin DOMAIN busyCons
    <3>1. busyCons' = busyCons
      BY <2>2 DEF FreeNetCon
    <3> QED BY <1>1, <3>1 DEF Late, Values
  <2> QED BY <2>1, <2>2
<1>3. IsFiniteSet(Late) /\ IsFiniteSet(checked)
  BY SlotsFinite, MgrAssumption, FS_Subset
     DEF IInv, FlagsOK, Partition, Owned, Late
<1>4. Cardinality(Late') <= Cardinality(Late) /\ IsFiniteSet(Late')
  BY <1>2, <1>3, FS_Subset
<1>5. /\ Cardinality(Late') \in Nat /\ Cardinality(Late) \in Nat
      /\ Cardinality(checked) \in Nat /\ Cardinality(Threads) \in Nat
  BY <1>3, <1>4, MgrAssumption, FS_CardinalityType
<1> QED BY <1>1, <1>4, <1>5 DEF LateInv, LateConnectionsBounded, Late

LEMMA NextLateInv ==
    ASSUME NoWrap, IInv, LateInv, [Next]_mgrVars PROVE LateInv'
<1>1. CASE RegisterCon \/ \E c \in Slots : AllocNetConById(c)
  BY <1>1 DEF RegisterCon, AllocNetConById, LateInv, LateConnectionsBounded,
              IInv, FlagsOK
<1>2. CASE \E t \in Threads : CheckActive(t)
  BY <1>2 DEF CheckActive, LateInv, LateConnectionsBounded, IInv, FlagsOK
<1>3. CASE \/ \E t \in Threads, c \in Slots : ReadCompId(t, c)
           \/ UNCHANGED mgrVars
  BY <1>3 DEF ReadCompId, mgrVars, LateInv, LateConnectionsBounded, Values
<1>4. CASE ShutdownFlag
  BY <1>4 DEF ShutdownFlag, LateInv, LateConnectionsBounded
<1> QED BY <1>1, <1>2, <1>3, <1>4, AllocLateInv, FreeLateInv, SweepLateInv
     DEF Next

\* Shutdown() misses at most one connection per thread that was in
\* AllocNetCon() when it cleared _isActive.
THEOREM ShutdownMissesFew ==
    ASSUME NoWrap PROVE Spec => []LateConnectionsBounded
<1>1. Init => LateInv
  BY InitLateInv
<1>2. IInv /\ LateInv /\ [Next]_mgrVars => LateInv'
  BY NextLateInv
<1>3. LateInv => LateConnectionsBounded
  BY DEF LateInv
<1> QED BY <1>1, <1>2, <1>3, Invariance, PTL DEF Spec

-------------------------------------------------------------------------------
(* Refinement                                                              *)

\* Where a connection is on its round, read off the partition.
LEMMA PhaseFacts ==
    ASSUME IInv
    PROVE  \A c \in Slots :
               /\ PhaseOf[c] = "free" <=> c \in Values(freeCons)
               /\ PhaseOf[c] = "pending" <=> c \in Values(pendingCons)
               /\ PhaseOf[c] = "busy" <=> c \in Values(busyCons)
               /\ PhaseOf[c] \in {"free", "pending", "busy"}
BY DEF IInv, Partition, Owned, PhaseOf

\* If one connection moves from a phase to another and the other connections
\* stay where they are, the phases change at that connection only.
LEMMA PhaseMoves ==
    ASSUME NEW c \in Slots, NEW p,
           PhaseOf'[c] = p,
           \A d \in Slots \ {c} : PhaseOf'[d] = PhaseOf[d]
    PROVE  PhaseOf' = [PhaseOf EXCEPT ![c] = p]
<1>1. PhaseOf = [d \in Slots |-> PhaseOf[d]]
  BY DEF PhaseOf
<1>2. PhaseOf' = [d \in Slots |-> PhaseOf'[d]]
  BY DEF PhaseOf
<1> QED BY <1>1, <1>2

LEMMA InitRefines == ASSUME NoWrap, Init PROVE Pool!Init
<1>1. PhaseOf = [c \in Slots |-> "free"]
  BY DEF Init, PhaseOf, Values, EmptyMap
<1> QED BY <1>1 DEF Init, Pool!Init

LEMMA RegisterConRefines ==
    ASSUME NoWrap, IInv, RegisterCon PROVE \E c \in Slots : Pool!Register(c)
<1>1. IInv'
  BY RegisterConIInv
<1>2. PICK k \in DOMAIN freeCons :
        /\ freeCons' = Erase(freeCons, k)
        /\ pendingCons' = Emplace(pendingCons, freeCons[k], freeCons[k])
  BY DEF RegisterCon
<1>3. /\ freeCons[k] = k /\ k \in Values(freeCons) /\ k \in Slots
      /\ k \notin DOMAIN pendingCons
  BY FiledValues DEF IInv, FiledUnderOwnId, Partition, Owned
<1>4. Values(freeCons') = Values(freeCons) \ {k}
  <2>1. \A j \in DOMAIN freeCons : freeCons[j] = j
    BY DEF IInv, FiledUnderOwnId
  <2> QED BY <1>2, <2>1, EraseFiled
<1>5. Values(pendingCons') = Values(pendingCons) \cup {k}
  <2>1. pendingCons' = Emplace(pendingCons, k, k)
    BY <1>2, <1>3
  <2> QED BY <1>3, <2>1, EmplaceValue
<1>6. busyCons' = busyCons /\ salt' = salt
  BY DEF RegisterCon
<1>7. PhaseOf[k] = "free" /\ PhaseOf'[k] = "pending"
  <2>1. k \notin Values(busyCons')
    BY <1>1, <1>5 DEF IInv, Partition
  <2>2. PhaseOf'[k] = "pending"
    BY <1>3, <1>5, <2>1 DEF PhaseOf
  <2> QED BY <1>3, <2>2, PhaseFacts
<1>8. \A d \in Slots \ {k} : PhaseOf'[d] = PhaseOf[d]
  BY <1>5, <1>6 DEF PhaseOf, Values
<1>9. Pool!Register(k)
  BY <1>3, <1>6, <1>7, <1>8, PhaseMoves DEF Pool!Register
<1> QED BY <1>3, <1>9

LEMMA MakeBusyRefines ==
    ASSUME NoWrap, IInv, NEW k \in DOMAIN pendingCons, MakeBusy(k),
           UNCHANGED <<freeCons, freeing>>
    PROVE  \E c \in Slots : Pool!Use(c)
<1>1. /\ Values(busyCons') = Values(busyCons) \cup {k}
      /\ Values(pendingCons') = Values(pendingCons) \ {k}
      /\ salt' = [salt EXCEPT ![k] = @ + 1]
      /\ salt[k] < LastSalt
  BY MakeBusyIInv
<1>2. k \in Values(pendingCons) /\ k \in Slots
  BY FiledValues DEF IInv, Partition, Owned
<1>3. PhaseOf[k] = "pending" /\ PhaseOf'[k] = "busy"
  <2>1. PhaseOf'[k] = "busy"
    BY <1>1, <1>2 DEF PhaseOf
  <2> QED BY <1>2, <2>1, PhaseFacts
<1>4. \A d \in Slots \ {k} : PhaseOf'[d] = PhaseOf[d]
  BY <1>1 DEF PhaseOf
<1>5. Pool!Use(k)
  BY <1>1, <1>2, <1>3, <1>4, PhaseMoves DEF Pool!Use
<1> QED BY <1>2, <1>5

LEMMA FreeNetConRefines ==
    ASSUME NoWrap, IInv, NEW t \in Threads, FreeNetCon(t),
           Key(freeing[t]) \in DOMAIN busyCons
    PROVE  \E c \in Slots : Pool!Release(c)
<1> DEFINE con == freeing[t].slot
<1>1. /\ con \in Values(busyCons)
      /\ Values(busyCons') = Values(busyCons) \ {con}
  BY FreeFoundCon
<1>2. pendingCons' = pendingCons /\ salt' = salt
  BY DEF FreeNetCon
<1> HIDE DEF con
<1>3. con \in Slots /\ con \notin Values(pendingCons)
  BY <1>1 DEF IInv, Partition, Owned
<1>4. con \notin Values(busyCons') /\ con \notin Values(pendingCons')
  BY <1>1, <1>2, <1>3
<1>5. PhaseOf[con] = "busy" /\ PhaseOf'[con] = "free"
  <2>1. PhaseOf'[con] = "free"
    BY <1>3, <1>4 DEF PhaseOf
  <2> QED BY <1>1, <1>3, <2>1, PhaseFacts
<1>6. \A d \in Slots \ {con} : PhaseOf'[d] = PhaseOf[d]
  BY <1>1, <1>2 DEF PhaseOf
<1>7. Pool!Release(con)
  BY <1>2, <1>3, <1>5, <1>6, PhaseMoves DEF Pool!Release
<1> QED BY <1>3, <1>7

LEMMA StepRefines ==
    ASSUME NoWrap, IInv, [Next]_mgrVars
    PROVE  [Pool!Next]_(Pool!poolVars)
<1>1. CASE RegisterCon
  BY <1>1, RegisterConRefines DEF Pool!Next
<1>2. CASE \E k \in DOMAIN pendingCons :
              MakeBusy(k) /\ UNCHANGED <<freeCons, freeing>>
  BY <1>2, MakeBusyRefines DEF Pool!Next
<1>3. CASE \E t \in Threads :
              FreeNetCon(t) /\ Key(freeing[t]) \in DOMAIN busyCons
  BY <1>3, FreeNetConRefines DEF Pool!Next
<1>4. CASE UNCHANGED <<pendingCons, busyCons, salt>>
  <2>1. PhaseOf' = PhaseOf
    BY <1>4 DEF PhaseOf, Values
  <2> QED BY <1>4, <2>1 DEF Pool!poolVars
<1> QED BY <1>1, <1>2, <1>3, <1>4
     DEF Next, CheckActive, AllocNetCon, AllocNetConById, ReadCompId,
         FreeNetCon, ShutdownFlag, ShutdownSweep, IsFirst, mgrVars

\* The manager with its maps, keys, lock and threads implements the pool: a
\* connection goes round free -> pending -> busy -> free and begins a new
\* generation exactly when it becomes busy.
THEOREM Refinement == ASSUME NoWrap PROVE Spec => ImplementsPool
<1>1. Init => Pool!Init
  BY InitRefines
<1>2. IInv /\ [Next]_mgrVars => [Pool!Next]_(Pool!poolVars)
  BY StepRefines
<1> QED BY <1>1, <1>2, Invariance, PTL DEF Spec, ImplementsPool, Pool!Spec

================================================================================

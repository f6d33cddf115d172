------------------------- MODULE CircularBuffer_proofs -------------------------
(***************************************************************************)
(* Proofs about CircularBuffer for all sizes and all bytes.                *)
(***************************************************************************)
EXTENDS CircularBuffer, TLAPS

Cell == Byte \cup {Junk}

\* The positions of a ring that the operations can bring about.  _headPos
\* passes the end of the buffer, but never by more than _tailPos.
RingOK(r) ==
    /\ r = [size |-> r.size, buf |-> r.buf, head |-> r.head, tail |-> r.tail]
    /\ r.size \in DefBufferSize .. MaxBufferSize
    /\ r.buf \in [0 .. r.size - 1 -> Cell]
    /\ r.tail \in 0 .. r.size
    /\ r.head \in 0 .. r.size + r.tail
    /\ r.tail = r.size => r.head >= r.size

\* Nothing uninitialised is among the bytes.
Stored(r) == \A i \in 1 .. Size(r) : At(r, r.head + i - 1) \in Byte

LEMMA DivExceeds ==
    ASSUME NEW x \in Nat, NEW p \in Nat \ {0}
    PROVE  p * ((x \div p) + 1) \in Nat /\ p * ((x \div p) + 1) > x
<1>1. (x \div p) \in Nat /\ x = (p * (x \div p)) + (x % p) /\ (x % p) \in 0 .. p - 1
  OBVIOUS
<1>2. p * ((x \div p) + 1) = (p * (x \div p)) + p
  BY <1>1
<1>3. p * (x \div p) \in Nat
  BY <1>1
<1> QED BY <1>1, <1>2, <1>3

\* The positions as plain numbers.
LEMMA Positions ==
    ASSUME NEW r, RingOK(r)
    PROVE  /\ r.size \in Nat /\ r.tail \in Nat /\ r.head \in Nat
           /\ MaxPacketSize \in Nat /\ MaxPacketSize < r.size
           /\ r.tail <= r.size /\ r.head <= r.size + r.tail
           /\ r.tail = r.size => r.head >= r.size
           /\ r.size <= MaxBufferSize /\ MaxBufferSize \in Nat
BY BufferAssumption DEF RingOK

LEMMA SizeBounds ==
    ASSUME NEW r, RingOK(r)
    PROVE  Size(r) \in Nat /\ Size(r) <= r.size
BY Positions DEF Size

LEMMA DataType ==
    ASSUME NEW d \in Data
    PROVE  /\ d \in Seq(Byte) /\ Len(d) \in 1 .. MaxPacketSize
           /\ \A i \in 1 .. Len(d) : d[i] \in Byte
<1>1. PICK n \in 1 .. MaxPacketSize : d \in [1 .. n -> Byte]
  BY DEF Data
<1>2. n \in Nat
  BY <1>1, BufferAssumption
<1> QED BY <1>1, <1>2

-------------------------------------------------------------------------------
(* Memory is overrun only by a ring whose head is past the end             *)

LEMMA ReadsOutside ==
    ASSUME NEW r, RingOK(r), NEW n \in Nat, n <= Size(r), ~ReadsInside(r, n)
    PROVE  r.head > r.size
BY Positions DEF ReadsInside, WrapsOnRead, Inside, Size

LEMMA MovesOutside ==
    ASSUME NEW r, RingOK(r), ~MovesInside(r)
    PROVE  r.head > r.size
BY Positions DEF MovesInside, Inside

LEMMA WritesOutside ==
    ASSUME NEW r, RingOK(r), NEW n \in 1 .. MaxPacketSize,
           n <= r.size - Size(r), ~WritesInside(r, n)
    PROVE  r.head > r.size
<1>1. CASE r.head = r.tail
  BY <1>1, Positions DEF WritesInside, WrapsOnWrite, Inside, Size
<1>2. CASE r.head # r.tail /\ WrapsOnWrite(r, n)
  BY <1>2, Positions DEF WritesInside, WrapsOnWrite, Inside, Size
<1>3. CASE r.head # r.tail /\ ~WrapsOnWrite(r, n)
  BY <1>3, Positions DEF WritesInside, WrapsOnWrite, Inside, Size
<1> QED BY <1>1, <1>2, <1>3

-------------------------------------------------------------------------------
(* memcpy                                                                  *)

LEMMA MemcpyCells ==
    ASSUME NEW N \in Nat, NEW b \in [0 .. N - 1 -> Cell], NEW at \in Nat,
           NEW s \in Seq(Cell)
    PROVE  /\ Memcpy(b, at, s) \in [0 .. N - 1 -> Cell]
           /\ \A i \in 0 .. N - 1 :
                  Memcpy(b, at, s)[i] = IF i >= at /\ i < at + Len(s)
                                        THEN s[i - at + 1] ELSE b[i]
<1>1. ASSUME NEW i \in 0 .. N - 1
      PROVE  /\ Memcpy(b, at, s)[i] = IF i >= at /\ i < at + Len(s)
                                      THEN s[i - at + 1] ELSE b[i]
             /\ Memcpy(b, at, s)[i] \in Cell
  <2>1. Len(s) \in Nat /\ \A k \in 1 .. Len(s) : s[k] \in Cell
    OBVIOUS
  <2>2. i \in at .. at + Len(s) - 1 <=> i >= at /\ i < at + Len(s)
    BY <2>1
  <2>3. Memcpy(b, at, s)[i] = IF i >= at /\ i < at + Len(s)
                              THEN s[i - at + 1] ELSE b[i]
    BY <2>2 DEF Memcpy
  <2>4. CASE i >= at /\ i < at + Len(s)
    <3>1. i - at + 1 \in 1 .. Len(s)
      BY <2>1, <2>4
    <3> QED BY <2>1, <2>3, <2>4, <3>1
  <2>5. CASE ~(i >= at /\ i < at + Len(s))
    BY <2>3, <2>5
  <2> QED BY <2>3, <2>4, <2>5
<1>2. DOMAIN b = 0 .. N - 1
  OBVIOUS
<1>3. Memcpy(b, at, s) = [i \in 0 .. N - 1 |-> Memcpy(b, at, s)[i]]
  BY <1>2 DEF Memcpy
<1>4. Memcpy(b, at, s) \in [0 .. N - 1 -> Cell]
  BY <1>1, <1>3
<1> QED BY <1>1, <1>4

LEMMA FreshCells == ASSUME NEW N \in Nat PROVE Fresh(N) \in [0 .. N - 1 -> Cell]
BY DEF Fresh, Cell

\* Every byte of a stored ring is a byte of the buffer.
LEMMA BytesType ==
    ASSUME NEW r, RingOK(r), Stored(r)
    PROVE  Bytes(r) \in Seq(Byte) /\ Len(Bytes(r)) = Size(r)
<1>1. Size(r) \in Nat
  BY SizeBounds
<1>2. Bytes(r) \in [1 .. Size(r) -> Byte]
  BY DEF Bytes, Stored
<1>3. Bytes(r) \in Seq(Byte)
  BY <1>1, <1>2
<1>4. Len(Bytes(r)) = Size(r)
  BY <1>1, <1>2
<1> QED BY <1>3, <1>4

-------------------------------------------------------------------------------
(* SetCapacity                                                             *)

LEMMA SetCapacityKeeps ==
    ASSUME NEW r, RingOK(r), Stored(r),
           NEW size \in Nat, r.size < size, size <= MaxBufferSize
    PROVE  LET q == SetCapacity(r, size)
           IN  /\ RingOK(q) /\ Stored(q)
               /\ q.size = size /\ q.head = 0 /\ q.tail = Size(r)
               /\ Bytes(q) = Bytes(r)
<1> DEFINE s == Bytes(r)
           q == SetCapacity(r, size)
<1>1. Size(r) \in Nat /\ Size(r) <= r.size /\ r.size \in Nat
  BY SizeBounds, Positions
<1>2. s \in Seq(Byte) /\ s \in Seq(Cell) /\ Len(s) = Size(r)
  BY BytesType DEF Cell
<1>3. q = [size |-> size, buf |-> Memcpy(Fresh(size), 0, s), head |-> 0,
           tail |-> Size(r)]
  BY <1>1 DEF SetCapacity
<1>4. /\ Memcpy(Fresh(size), 0, s) \in [0 .. size - 1 -> Cell]
      /\ \A i \in 0 .. size - 1 :
             Memcpy(Fresh(size), 0, s)[i] = IF i >= 0 /\ i < 0 + Len(s)
                                            THEN s[i - 0 + 1] ELSE Fresh(size)[i]
  <2>1. Fresh(size) \in [0 .. size - 1 -> Cell] /\ s \in Seq(Cell) /\ 0 \in Nat
    BY <1>2, FreshCells
  <2> HIDE DEF s, q
  <2> QED BY <2>1, MemcpyCells
<1>5. q.size = size /\ q.head = 0 /\ q.tail = Size(r) /\ q.tail < size
  BY <1>1, <1>3
<1>6. q.buf = Memcpy(Fresh(size), 0, s)
  BY <1>3
<1>7. RingOK(q)
  <2>1. q.buf \in [0 .. q.size - 1 -> Cell]
    BY <1>4, <1>5, <1>6
  <2>2. q.size \in DefBufferSize .. MaxBufferSize
    BY <1>1, <1>5, BufferAssumption DEF RingOK
  <2>3. q.tail \in 0 .. q.size /\ q.head \in 0 .. q.size + q.tail
    BY <1>1, <1>5
  <2> QED BY <1>3, <1>5, <2>1, <2>2, <2>3 DEF RingOK
<1> HIDE DEF q, s
<1>8. Size(q) = Size(r)
  BY <1>1, <1>5 DEF Size
<1>9. ASSUME NEW i \in 1 .. Size(q) PROVE At(q, q.head + i - 1) = s[i]
  <2>1. i - 1 \in 0 .. size - 1 /\ i - 1 < Len(s) /\ i - 1 >= 0
    BY <1>1, <1>2, <1>8
  <2>2. q.buf[i - 1] = s[i]
    BY <1>4, <1>6, <2>1
  <2>3. At(q, q.head + i - 1) = q.buf[i - 1]
    BY <1>5, <2>1 DEF At
  <2> QED BY <2>2, <2>3
<1>10. Bytes(q) = Bytes(r)
  <2>1. s = [i \in 1 .. Size(q) |-> s[i]]
    BY <1>2, <1>8
  <2>2. Bytes(q) = s
    BY <1>9, <2>1 DEF Bytes
  <2> QED BY <2>2 DEF s
<1>11. Stored(q)
  <2>1. \A i \in 1 .. Size(q) : s[i] \in Byte
    BY <1>2, <1>8
  <2> QED BY <1>9, <2>1 DEF Stored
<1> QED BY <1>5, <1>7, <1>10, <1>11 DEF q

-------------------------------------------------------------------------------
(* PutDataWithoutResize                                                    *)

\* What a put of d into r leaves behind in q, if it does not fill r.
Appended(r, d, q) ==
    /\ RingOK(q) /\ Stored(q) /\ Size(q) = Size(r) + Len(d)
    /\ \A i \in 1 .. Size(r) : At(q, q.head + i - 1) = At(r, r.head + i - 1)
    /\ \A i \in 1 .. Len(d) : At(q, q.head + Size(r) + i - 1) = d[i]

\* An empty ring starts again at position 0.
LEMMA PutEmpty ==
    ASSUME NEW r, RingOK(r), NEW d \in Data, r.head = r.tail
    PROVE  Appended(r, d, PutDataWithoutResize(r, d))
<1> DEFINE n == Len(d)
           q == PutDataWithoutResize(r, d)
<1>0. /\ d \in Seq(Cell) /\ n \in Nat /\ n > 0 /\ n <= MaxPacketSize
      /\ \A i \in 1 .. n : d[i] \in Byte
  BY DataType, BufferAssumption DEF Cell
<1>1. q = [r EXCEPT !.buf = Memcpy(@, 0, d), !.head = 0, !.tail = n]
  BY Positions DEF PutDataWithoutResize, WrapsOnWrite
<1>2. r = [size |-> r.size, buf |-> r.buf, head |-> r.head, tail |-> r.tail]
  BY DEF RingOK
<1>3. q = [size |-> r.size, buf |-> Memcpy(r.buf, 0, d), head |-> 0, tail |-> n]
  BY <1>1, <1>2
<1>4. /\ q.size = r.size /\ q.buf = Memcpy(r.buf, 0, d) /\ q.head = 0
      /\ q.tail = n
  BY <1>3
<1> HIDE DEF n, q
<1>5. /\ q.buf \in [0 .. r.size - 1 -> Cell]
      /\ \A i \in 0 .. r.size - 1 :
             q.buf[i] = IF i >= 0 /\ i < 0 + n THEN d[i - 0 + 1] ELSE r.buf[i]
  <2>1. r.buf \in [0 .. r.size - 1 -> Cell] /\ r.size \in Nat /\ 0 \in Nat
    BY Positions DEF RingOK
  <2>2. /\ Memcpy(r.buf, 0, d) \in [0 .. r.size - 1 -> Cell]
        /\ \A i \in 0 .. r.size - 1 :
               Memcpy(r.buf, 0, d)[i] = IF i >= 0 /\ i < 0 + Len(d)
                                        THEN d[i - 0 + 1] ELSE r.buf[i]
    BY <1>0, <2>1, MemcpyCells
  <2> QED BY <1>4, <2>2 DEF n
<1>6. Size(r) = 0 /\ Size(q) = n
  BY <1>0, <1>4, Positions DEF Size
<1>7. ASSUME NEW i \in 1 .. n PROVE At(q, q.head + i - 1) = d[i]
  <2>1. i - 1 \in 0 .. r.size - 1 /\ i - 1 >= 0 /\ i - 1 < 0 + n
    BY <1>0, Positions
  <2>2. q.buf[i - 1] = d[i]
    BY <1>5, <2>1
  <2>3. q.head + i - 1 = i - 1 /\ i - 1 < q.size
    BY <1>4, <2>1, Positions
  <2> QED BY <2>2, <2>3 DEF At
<1>8. RingOK(q)
  <2>1. n < r.size /\ r.size \in Nat
    BY <1>0, Positions
  <2>2. r.size \in DefBufferSize .. MaxBufferSize
    BY DEF RingOK
  <2>3. /\ q.tail \in 0 .. q.size /\ q.head \in 0 .. q.size + q.tail
        /\ q.tail # q.size
    BY <1>0, <1>4, <2>1
  <2> QED BY <1>3, <1>4, <1>5, <2>2, <2>3 DEF RingOK
<1>9. Stored(q)
  BY <1>0, <1>6, <1>7 DEF Stored
<1>10. \A i \in 1 .. n : At(q, q.head + Size(r) + i - 1) = d[i]
  BY <1>4, <1>6, <1>7
<1> QED BY <1>6, <1>8, <1>9, <1>10 DEF Appended, n, q

\* Where the byte At(r, k) is.
Idx(r, k) == IF k < r.size THEN k ELSE k - r.size

\* The i-th byte of a ring, and the place i places behind the last one.
LEMMA OldPlace ==
    ASSUME NEW r, RingOK(r), NEW i \in 1 .. Size(r)
    PROVE  /\ Idx(r, r.head + i - 1) \in 0 .. r.size - 1
           /\ r.head < r.tail => /\ Idx(r, r.head + i - 1) >= r.head
                                 /\ Idx(r, r.head + i - 1) < r.tail
           /\ r.tail < r.head => \/ Idx(r, r.head + i - 1) >= r.head
                                 \/ Idx(r, r.head + i - 1) < r.tail
BY Positions, SizeBounds DEF Idx, Size

LEMMA NewPlace ==
    ASSUME NEW r, RingOK(r), r.head # r.tail, NEW n \in Nat,
           n <= r.size - Size(r), NEW i \in 1 .. n
    PROVE  /\ r.head < r.tail => Idx(r, r.head + Size(r) + i - 1) =
                  IF r.tail + i - 1 < r.size THEN r.tail + i - 1
                                             ELSE r.tail + i - 1 - r.size
           /\ r.tail < r.head => Idx(r, r.head + Size(r) + i - 1) = r.tail + i - 1
BY Positions, SizeBounds DEF Idx, Size

\* A write that does not wrap.
LEMMA PutPlain ==
    ASSUME NEW r, RingOK(r), Stored(r), NEW d \in Data, r.head # r.tail,
           ~WrapsOnWrite(r, Len(d)), WritesInside(r, Len(d)),
           Len(d) < r.size - Size(r)
    PROVE  Appended(r, d, PutDataWithoutResize(r, d))
<1> DEFINE n == Len(d)
           q == PutDataWithoutResize(r, d)
<1>0. /\ d \in Seq(Cell) /\ n \in Nat /\ n > 0 /\ n <= MaxPacketSize
      /\ \A i \in 1 .. n : d[i] \in Byte
  BY DataType, BufferAssumption DEF Cell
<1>1. q = [r EXCEPT !.buf = Memcpy(@, r.tail, d), !.tail = @ + n]
  BY DEF PutDataWithoutResize
<1>2. r = [size |-> r.size, buf |-> r.buf, head |-> r.head, tail |-> r.tail]
  BY DEF RingOK
<1>3. q = [size |-> r.size, buf |-> Memcpy(r.buf, r.tail, d), head |-> r.head,
           tail |-> r.tail + n]
  BY <1>1, <1>2
<1>4. /\ q.size = r.size /\ q.buf = Memcpy(r.buf, r.tail, d) /\ q.head = r.head
      /\ q.tail = r.tail + n
  BY <1>3
<1>5. /\ r.tail + n <= r.size
      /\ r.head < r.tail => r.tail + n < r.size
      /\ r.tail < r.head => r.tail + n < r.head
      /\ r.head < r.tail \/ r.tail < r.head
  BY <1>0, Positions DEF WritesInside, WrapsOnWrite, Inside, Size
<1> HIDE DEF n, q
<1>6. /\ q.buf \in [0 .. r.size - 1 -> Cell]
      /\ \A i \in 0 .. r.size - 1 :
             q.buf[i] = IF i >= r.tail /\ i < r.tail + n THEN d[i - r.tail + 1]
                                                         ELSE r.buf[i]
  <2>1. r.buf \in [0 .. r.size - 1 -> Cell] /\ r.size \in Nat /\ r.tail \in Nat
    BY Positions DEF RingOK
  <2>2. /\ Memcpy(r.buf, r.tail, d) \in [0 .. r.size - 1 -> Cell]
        /\ \A i \in 0 .. r.size - 1 :
               Memcpy(r.buf, r.tail, d)[i] = IF i >= r.tail /\ i < r.tail + Len(d)
                                             THEN d[i - r.tail + 1] ELSE r.buf[i]
    BY <1>0, <2>1, MemcpyCells
  <2> QED BY <1>4, <2>2 DEF n
<1>7. Size(q) = Size(r) + n /\ Size(r) \in Nat
  BY <1>0, <1>4, <1>5, Positions DEF Size
<1>8. ASSUME NEW i \in 1 .. Size(r)
      PROVE  At(q, q.head + i - 1) = At(r, r.head + i - 1)
  <2> DEFINE k == Idx(r, r.head + i - 1)
  <2>1. k \in 0 .. r.size - 1 /\ ~(k >= r.tail /\ k < r.tail + n)
    BY <1>0, <1>5, OldPlace, Positions
  <2>2. At(r, r.head + i - 1) = r.buf[k] /\ At(q, q.head + i - 1) = q.buf[k]
    BY <1>4 DEF At, Idx
  <2> HIDE DEF k
  <2> QED BY <1>6, <2>1, <2>2
<1>9. ASSUME NEW i \in 1 .. n
      PROVE  At(q, q.head + Size(r) + i - 1) = d[i]
  <2> DEFINE k == Idx(r, r.head + Size(r) + i - 1)
  <2>1. k = r.tail + i - 1
    <3>1. n <= r.size - Size(r) /\ n \in Nat /\ r.head # r.tail
      BY <1>0, <1>5, <1>7, Positions DEF n
    <3>2. r.head < r.tail => r.tail + i - 1 < r.size
      BY <1>0, <1>5, Positions
    <3> HIDE DEF k
    <3> QED BY <1>5, <3>1, <3>2, NewPlace DEF k
  <2>2. At(q, q.head + Size(r) + i - 1) = q.buf[k]
    BY <1>4 DEF At, Idx
  <2> HIDE DEF k
  <2>3. k \in 0 .. r.size - 1 /\ k >= r.tail /\ k < r.tail + n /\ k - r.tail + 1 = i
    BY <1>0, <1>5, <2>1, Positions
  <2> QED BY <1>6, <2>2, <2>3
<1>10. RingOK(q)
  <2>1. r.size \in DefBufferSize .. MaxBufferSize
    BY DEF RingOK
  <2>2. /\ r.tail + n \in 0 .. r.size /\ r.head \in 0 .. r.size + (r.tail + n)
        /\ r.tail + n = r.size => r.head >= r.size
    BY <1>0, <1>5, Positions
  <2> QED BY <1>3, <1>4, <1>6, <2>1, <2>2 DEF RingOK
<1>11. Stored(q)
  <2>1. ASSUME NEW i \in 1 .. Size(q) PROVE At(q, q.head + i - 1) \in Byte
    <3>1. CASE i <= Size(r)
      BY <1>7, <1>8, <3>1 DEF Stored
    <3>2. CASE i > Size(r)
      <4>1. i - Size(r) \in 1 .. n
        BY <1>0, <1>7, <3>2
      <4>2. q.head + Size(r) + (i - Size(r)) - 1 = q.head + i - 1
        BY <1>4, <1>7, Positions
      <4> QED BY <1>0, <1>9, <4>1, <4>2
    <3> QED BY <1>0, <1>7, <3>1, <3>2
  <2> QED BY <2>1 DEF Stored
<1> QED BY <1>7, <1>8, <1>9, <1>10, <1>11 DEF Appended, n, q

\* A write that wraps: the first copyLen1 bytes go to the end of the buffer.
LEMMA PutWrapped ==
    ASSUME NEW r, RingOK(r), Stored(r), NEW d \in Data,
           WrapsOnWrite(r, Len(d)), Len(d) < r.size - Size(r)
    PROVE  Appended(r, d, PutDataWithoutResize(r, d))
<1> DEFINE n == Len(d)
           c == r.size - r.tail
           d1 == SubSeq(d, 1, c)
           d2 == SubSeq(d, c + 1, n)
           b1 == Memcpy(r.buf, r.tail, d1)
           b2 == Memcpy(b1, 0, d2)
           q == PutDataWithoutResize(r, d)
<1>0. /\ d \in Seq(Cell) /\ n \in Nat /\ n > 0 /\ n <= MaxPacketSize
      /\ \A i \in 1 .. n : d[i] \in Byte
  BY DataType, BufferAssumption DEF Cell
<1>1. /\ r.head < r.tail /\ r.tail + n >= r.size /\ c \in Nat /\ c > 0 /\ c <= n
      /\ n - c < r.head /\ n - c \in Nat /\ r.tail + c = r.size
  BY <1>0, Positions DEF WrapsOnWrite, Size
<1>2. q = [r EXCEPT !.buf = b2, !.tail = n - c]
  BY <1>1, Positions DEF PutDataWithoutResize
<1>3. r = [size |-> r.size, buf |-> r.buf, head |-> r.head, tail |-> r.tail]
  BY DEF RingOK
<1>4. q = [size |-> r.size, buf |-> b2, head |-> r.head, tail |-> n - c]
  BY <1>2, <1>3
<1>5. q.size = r.size /\ q.buf = b2 /\ q.head = r.head /\ q.tail = n - c
  BY <1>4
<1>6. /\ d1 \in Seq(Cell) /\ Len(d1) = c /\ \A i \in 1 .. c : d1[i] = d[i]
      /\ d2 \in Seq(Cell) /\ Len(d2) = n - c
      /\ \A i \in 1 .. n - c : d2[i] = d[c + i]
  BY <1>0, <1>1
<1> HIDE DEF n, c, d1, d2, b1, b2, q
<1>7. /\ b1 \in [0 .. r.size - 1 -> Cell]
      /\ \A i \in 0 .. r.size - 1 :
             b1[i] = IF i >= r.tail /\ i < r.tail + c THEN d1[i - r.tail + 1]
                                                      ELSE r.buf[i]
  <2>1. r.buf \in [0 .. r.size - 1 -> Cell] /\ r.size \in Nat /\ r.tail \in Nat
    BY Positions DEF RingOK
  <2>2. /\ Memcpy(r.buf, r.tail, d1) \in [0 .. r.size - 1 -> Cell]
        /\ \A i \in 0 .. r.size - 1 :
               Memcpy(r.buf, r.tail, d1)[i] =
                   IF i >= r.tail /\ i < r.tail + Len(d1) THEN d1[i - r.tail + 1]
                                                          ELSE r.buf[i]
    BY <1>6, <2>1, MemcpyCells
  <2> QED BY <1>6, <2>2 DEF b1
<1>8. /\ b2 \in [0 .. r.size - 1 -> Cell]
      /\ \A i \in 0 .. r.size - 1 :
             b2[i] = IF i >= 0 /\ i < 0 + (n - c) THEN d2[i - 0 + 1] ELSE b1[i]
  <2>1. r.size \in Nat /\ 0 \in Nat
    BY Positions
  <2>2. /\ Memcpy(b1, 0, d2) \in [0 .. r.size - 1 -> Cell]
        /\ \A i \in 0 .. r.size - 1 :
               Memcpy(b1, 0, d2)[i] = IF i >= 0 /\ i < 0 + Len(d2)
                                      THEN d2[i - 0 + 1] ELSE b1[i]
    BY <1>6, <1>7, <2>1, MemcpyCells
  <2> QED BY <1>6, <2>2 DEF b2
<1>9. Size(q) = Size(r) + n /\ Size(r) \in Nat /\ Size(r) = r.tail - r.head
  BY <1>0, <1>1, <1>5, Positions DEF Size
<1>10. ASSUME NEW i \in 1 .. Size(r)
       PROVE  At(q, q.head + i - 1) = At(r, r.head + i - 1)
  <2> DEFINE k == Idx(r, r.head + i - 1)
  <2>1. k \in 0 .. r.size - 1 /\ k >= r.head /\ k < r.tail
    BY <1>1, OldPlace
  <2>2. At(r, r.head + i - 1) = r.buf[k] /\ At(q, q.head + i - 1) = b2[k]
    BY <1>5 DEF At, Idx
  <2> HIDE DEF k
  <2>3. ~(k < 0 + (n - c)) /\ ~(k >= r.tail)
    BY <1>0, <1>1, <2>1, Positions
  <2>4. b2[k] = b1[k] /\ b1[k] = r.buf[k]
    BY <1>7, <1>8, <2>1, <2>3
  <2> QED BY <2>2, <2>4
<1>11. ASSUME NEW i \in 1 .. n
       PROVE  At(q, q.head + Size(r) + i - 1) = d[i]
  <2> DEFINE k == Idx(r, r.head + Size(r) + i - 1)
  <2>1. k = IF r.tail + i - 1 < r.size THEN r.tail + i - 1
                                       ELSE r.tail + i - 1 - r.size
    <3>1. n <= r.size - Size(r) /\ n \in Nat /\ r.head # r.tail
      BY <1>0, <1>1, <1>9, Positions DEF n
    <3> HIDE DEF k
    <3> QED BY <1>1, <3>1, NewPlace DEF k
  <2>2. At(q, q.head + Size(r) + i - 1) = b2[k]
    BY <1>5 DEF At, Idx
  <2> HIDE DEF k
  <2>3. CASE r.tail + i - 1 < r.size
    <3>1. /\ k \in 0 .. r.size - 1 /\ k >= r.tail /\ k < r.tail + c
          /\ k - r.tail + 1 = i /\ i \in 1 .. c /\ ~(k < 0 + (n - c))
      <4>1. k = r.tail + i - 1
        BY <2>1, <2>3
      <4> QED BY <1>0, <1>1, <2>3, <4>1, Positions
    <3>2. b2[k] = b1[k] /\ b1[k] = d1[i]
      BY <1>7, <1>8, <3>1
    <3> QED BY <1>6, <2>2, <3>1, <3>2
  <2>4. CASE ~(r.tail + i - 1 < r.size)
    <3>1. /\ k \in 0 .. r.size - 1 /\ k >= 0 /\ k < 0 + (n - c)
          /\ k - 0 + 1 = i - c /\ i - c \in 1 .. n - c /\ c + (i - c) = i
      <4>1. k = r.tail + i - 1 - r.size
        BY <2>1, <2>4
      <4>2. k = i - c - 1 /\ i - c >= 1 /\ i - c <= n - c /\ i - c \in Int
        BY <1>0, <1>1, <2>4, <4>1, Positions
      <4>3. n - c <= r.size
        BY <1>1, Positions
      <4> QED BY <1>0, <1>1, <4>2, <4>3, Positions
    <3>2. b2[k] = d2[i - c]
      BY <1>8, <3>1
    <3>3. d2[i - c] = d[c + (i - c)]
      BY <1>6, <3>1
    <3> QED BY <2>2, <3>1, <3>2, <3>3
  <2> QED BY <2>3, <2>4
<1>12. RingOK(q)
  <2>1. r.size \in DefBufferSize .. MaxBufferSize
    BY DEF RingOK
  <2>2. /\ n - c \in 0 .. r.size /\ r.head \in 0 .. r.size + (n - c)
        /\ n - c # r.size
    BY <1>0, <1>1, Positions
  <2> QED BY <1>4, <1>5, <1>8, <2>1, <2>2 DEF RingOK
<1>13. Stored(q)
  <2>1. ASSUME NEW i \in 1 .. Size(q) PROVE At(q, q.head + i - 1) \in Byte
    <3>1. CASE i <= Size(r)
      BY <1>9, <1>10, <3>1 DEF Stored
    <3>2. CASE i > Size(r)
      <4>1. i - Size(r) \in 1 .. n
        BY <1>0, <1>9, <3>2
      <4>2. q.head + Size(r) + (i - Size(r)) - 1 = q.head + i - 1
        BY <1>5, <1>9, Positions
      <4> QED BY <1>0, <1>11, <4>1, <4>2
    <3> QED BY <1>0, <1>9, <3>1, <3>2
  <2> QED BY <2>1 DEF Stored
<1> QED BY <1>9, <1>10, <1>11, <1>12, <1>13 DEF Appended, n, q

LEMMA NoBytes == ASSUME NEW r, Size(r) = 0 PROVE Bytes(r) = <<>>
<1>1. 1 .. 0 = {}
  OBVIOUS
<1> QED BY <1>1 DEF Bytes

\* A put that fills the ring leaves it looking empty.
LEMMA PutFull ==
    ASSUME NEW r, RingOK(r), NEW d \in Data, WritesInside(r, Len(d)),
           Len(d) = r.size - Size(r)
    PROVE  LET q == PutDataWithoutResize(r, d)
           IN  RingOK(q) /\ Stored(q) /\ Bytes(q) = <<>>
<1> DEFINE n == Len(d)
           c == r.size - r.tail
           q == PutDataWithoutResize(r, d)
<1>0. /\ d \in Seq(Cell) /\ n \in Nat /\ n > 0 /\ n <= MaxPacketSize
  BY DataType, BufferAssumption DEF Cell
<1>1. r = [size |-> r.size, buf |-> r.buf, head |-> r.head, tail |-> r.tail]
      /\ r.size \in DefBufferSize .. MaxBufferSize
      /\ r.buf \in [0 .. r.size - 1 -> Cell]
  BY DEF RingOK
<1>2. r.head # r.tail
  BY <1>0, Positions DEF Size
<1>3. CASE r.head < r.tail
  <2>1. WrapsOnWrite(r, n) /\ c > 0 /\ c \in Nat /\ n - c = r.head /\ c <= n
    BY <1>0, <1>3, Positions DEF WrapsOnWrite, Size
  <2> DEFINE d1 == SubSeq(d, 1, c)
             d2 == SubSeq(d, c + 1, n)
             b1 == Memcpy(r.buf, r.tail, d1)
             b2 == Memcpy(b1, 0, d2)
  <2>2. q = [r EXCEPT !.buf = b2, !.tail = n - c]
    BY <1>2, <2>1, Positions DEF PutDataWithoutResize
  <2>3. q = [size |-> r.size, buf |-> b2, head |-> r.head, tail |-> r.head]
    BY <1>1, <2>1, <2>2
  <2>4. d1 \in Seq(Cell) /\ d2 \in Seq(Cell)
    BY <1>0, <2>1
  <2> HIDE DEF n, c, d1, d2, b1, b2, q
  <2>5. b1 \in [0 .. r.size - 1 -> Cell]
    BY <1>1, <2>4, Positions, MemcpyCells DEF b1
  <2>6. b2 \in [0 .. r.size - 1 -> Cell]
    <3>1. r.size \in Nat /\ 0 \in Nat
      BY Positions
    <3> QED BY <2>4, <2>5, <3>1, MemcpyCells DEF b2
  <2>7. /\ q.size = r.size /\ q.buf = b2 /\ q.head = r.head /\ q.tail = r.head
    BY <2>3
  <2>8. /\ r.head \in 0 .. r.size /\ r.head \in 0 .. r.size + r.head
        /\ r.head # r.size
    BY <1>3, Positions
  <2>9. RingOK(q)
    BY <1>1, <2>3, <2>6, <2>7, <2>8 DEF RingOK
  <2>10. Size(q) = 0
    BY <2>7, Positions DEF Size
  <2> QED BY <2>9, <2>10, NoBytes DEF Stored, q
<1>4. CASE r.tail < r.head
  <2>1. /\ ~WrapsOnWrite(r, n) /\ r.tail + n = r.head /\ r.tail + n <= r.size
    BY <1>0, <1>4, Positions DEF WrapsOnWrite, WritesInside, Inside, Size
  <2> DEFINE b == Memcpy(r.buf, r.tail, d)
  <2>2. q = [r EXCEPT !.buf = b, !.tail = @ + n]
    BY <1>2, <2>1 DEF PutDataWithoutResize
  <2>3. q = [size |-> r.size, buf |-> b, head |-> r.head, tail |-> r.head]
    BY <1>1, <2>1, <2>2
  <2> HIDE DEF n, b, q
  <2>5. b \in [0 .. r.size - 1 -> Cell]
    BY <1>0, <1>1, Positions, MemcpyCells DEF b
  <2>7. /\ q.size = r.size /\ q.buf = b /\ q.head = r.head /\ q.tail = r.head
    BY <2>3
  <2>8. /\ r.head \in 0 .. r.size /\ r.head \in 0 .. r.size + r.head
    BY <2>1, Positions
  <2>9. RingOK(q)
    BY <1>1, <2>3, <2>5, <2>7, <2>8, Positions DEF RingOK
  <2>10. Size(q) = 0
    BY <2>7, Positions DEF Size
  <2> QED BY <2>9, <2>10, NoBytes DEF Stored, q
<1> QED BY <1>2, <1>3, <1>4, Positions

\* All puts into a ring with room for them.
LEMMA PutAppends ==
    ASSUME NEW r, RingOK(r), Stored(r), NEW d \in Data, WritesInside(r, Len(d)),
           Len(d) < r.size - Size(r)
    PROVE  LET q == PutDataWithoutResize(r, d)
           IN  RingOK(q) /\ Stored(q) /\ Bytes(q) = Bytes(r) \o d
<1> DEFINE q == PutDataWithoutResize(r, d)
<1>1. Appended(r, d, q)
  <2>1. CASE r.head = r.tail
    BY <2>1, PutEmpty
  <2>2. CASE r.head # r.tail /\ ~WrapsOnWrite(r, Len(d))
    BY <2>2, PutPlain
  <2>3. CASE WrapsOnWrite(r, Len(d))
    BY <2>3, PutWrapped
  <2> QED BY <2>1, <2>2, <2>3
<1> HIDE DEF q
<1>2. RingOK(q) /\ Stored(q) /\ Size(q) = Size(r) + Len(d)
  BY <1>1 DEF Appended
<1>3. /\ Bytes(r) \in Seq(Byte) /\ Len(Bytes(r)) = Size(r)
      /\ Bytes(q) \in Seq(Byte) /\ Len(Bytes(q)) = Size(q)
      /\ d \in Seq(Byte) /\ Size(r) \in Nat /\ Len(d) \in Nat
  BY <1>2, BytesType, DataType, SizeBounds
<1>4. ASSUME NEW i \in 1 .. Size(q) PROVE Bytes(q)[i] = (Bytes(r) \o d)[i]
  <2>0. Bytes(q)[i] = At(q, q.head + i - 1)
    BY DEF Bytes
  <2>1. CASE i <= Size(r)
    <3>1. i \in 1 .. Size(r)
      BY <1>2, <1>3, <2>1
    <3>2. (Bytes(r) \o d)[i] = Bytes(r)[i]
      BY <1>3, <3>1
    <3>3. Bytes(r)[i] = At(r, r.head + i - 1)
      BY <3>1 DEF Bytes
    <3> QED BY <1>1, <2>0, <3>1, <3>2, <3>3 DEF Appended
  <2>2. CASE i > Size(r)
    <3>1. PICK j \in 1 .. Len(d) : i = Size(r) + j
      <4>1. i - Size(r) \in 1 .. Len(d) /\ i = Size(r) + (i - Size(r))
        BY <1>2, <1>3, <2>2
      <4> QED BY <4>1
    <3>2. (Bytes(r) \o d)[i] = d[j]
      BY <1>3, <3>1
    <3>3. q.head + i - 1 = q.head + Size(r) + j - 1
      BY <1>2, <1>3, <3>1, Positions
    <3>4. At(q, q.head + Size(r) + j - 1) = d[j]
      BY <1>1 DEF Appended
    <3> QED BY <2>0, <3>2, <3>3, <3>4
  <2> QED BY <1>2, <1>3, <2>1, <2>2
<1>5. /\ Bytes(r) \o d \in Seq(Byte) /\ Len(Bytes(r) \o d) = Size(q)
  BY <1>2, <1>3
<1>6. Bytes(q) = Bytes(r) \o d
  BY <1>3, <1>4, <1>5
<1> QED BY <1>2, <1>6 DEF q

-------------------------------------------------------------------------------
(* PutData makes room                                                      *)

LEMMA ExtendSizeBounds ==
    ASSUME NEW r, RingOK(r), NEW n \in Nat, r.size - Size(r) <= n
    PROVE  /\ ExtendSize(r, n) \in Nat
           /\ r.size + ExtendSize(r, n) <= MaxBufferSize
           /\ \/ r.size + ExtendSize(r, n) > Size(r) + n
              \/ r.size + ExtendSize(r, n) = MaxBufferSize
<1> DEFINE x == n - (r.size - Size(r))
           whole == MaxPacketSize * ((x \div MaxPacketSize) + 1)
           left == MaxBufferSize - r.size
<1>1. x \in Nat /\ left \in Nat /\ r.size \in Nat /\ Size(r) \in Nat
  BY SizeBounds, Positions
<1>2. whole \in Nat /\ whole > x
  BY <1>1, DivExceeds, BufferAssumption
<1>3. ExtendSize(r, n) = IF whole <= left THEN whole ELSE left
  BY DEF ExtendSize
<1> HIDE DEF whole
<1>4. MaxBufferSize \in Nat /\ x = n - (r.size - Size(r))
  BY BufferAssumption
<1> QED BY <1>1, <1>2, <1>3, <1>4

\* The ring that PutData writes into: it has room, and more than that unless
\* the largest buffer is filled.
LEMMA RoomyRing ==
    ASSUME NEW r, RingOK(r), Stored(r), NEW n \in Nat, r.size - Size(r) <= n,
           n <= r.size - Size(r) + ExtendSize(r, n)
    PROVE  LET q == SetCapacity(r, r.size + ExtendSize(r, n))
           IN  /\ RingOK(q) /\ Stored(q) /\ Bytes(q) = Bytes(r)
               /\ Size(q) = Size(r) /\ n <= q.size - Size(q)
               /\ Size(r) + n # MaxBufferSize => n < q.size - Size(q)
               /\ Size(r) + n = MaxBufferSize => n = q.size - Size(q)
               /\ q.head <= r.head
               /\ q = r \/ q.head = 0
<1> DEFINE e == ExtendSize(r, n)
           q == SetCapacity(r, r.size + e)
<1>1. /\ e \in Nat /\ r.size + e <= MaxBufferSize
      /\ r.size + e > Size(r) + n \/ r.size + e = MaxBufferSize
  BY ExtendSizeBounds
<1>2. r.size \in Nat /\ Size(r) \in Nat /\ MaxBufferSize \in Nat /\ r.head \in Nat
  BY SizeBounds, Positions
<1>3. n <= r.size - Size(r) + e
  OBVIOUS
<1> HIDE DEF e
<1>4. CASE e = 0
  <2>1. q = r
    BY <1>2, <1>4 DEF SetCapacity
  <2>2. n <= r.size - Size(r)
    BY <1>2, <1>3, <1>4
  <2>3. /\ Size(r) + n # MaxBufferSize => n < r.size - Size(r)
        /\ Size(r) + n = MaxBufferSize => n = r.size - Size(r)
    BY <1>1, <1>2, <1>3, <1>4
  <2> HIDE DEF q
  <2> QED BY <1>2, <2>1, <2>2, <2>3 DEF q, e
<1>5. CASE e > 0
  <2>1. /\ RingOK(q) /\ Stored(q) /\ q.size = r.size + e /\ q.head = 0
        /\ q.tail = Size(r) /\ Bytes(q) = Bytes(r)
    <3>1. r.size + e \in Nat /\ r.size < r.size + e
      BY <1>1, <1>2, <1>5
    <3> QED BY <1>1, <3>1, SetCapacityKeeps
  <2> HIDE DEF q
  <2>2. Size(q) = Size(r)
    BY <1>2, <2>1 DEF Size
  <2>3. /\ n <= q.size - Size(q)
        /\ Size(r) + n # MaxBufferSize => n < q.size - Size(q)
        /\ Size(r) + n = MaxBufferSize => n = q.size - Size(q)
    BY <1>1, <1>2, <1>3, <2>1, <2>2
  <2> QED BY <1>2, <2>1, <2>2, <2>3 DEF q, e
<1> QED BY <1>1, <1>4, <1>5

-------------------------------------------------------------------------------
(* The invariant                                                           *)

Inv ==
    /\ RingOK(ring) /\ Stored(ring)
    /\ overrun \in BOOLEAN
    /\ OverrunOnlyPastEnd
    /\ result.ok \in BOOLEAN /\ result.data \in Seq(Byte)

LEMMA InitInv == ASSUME Init PROVE Inv
<1>1. DefBufferSize \in Nat /\ DefBufferSize > 0
  BY BufferAssumption
<1>2. Fresh(DefBufferSize) \in [0 .. DefBufferSize - 1 -> Cell]
  BY <1>1, FreshCells
<1>3. /\ ring.size = DefBufferSize /\ ring.buf = Fresh(DefBufferSize)
      /\ ring.head = 0 /\ ring.tail = 0
      /\ ring = [size |-> ring.size, buf |-> ring.buf, head |-> ring.head,
                 tail |-> ring.tail]
  BY DEF Init
<1>4. DefBufferSize \in DefBufferSize .. MaxBufferSize
  BY BufferAssumption
<1>5. RingOK(ring)
  BY <1>1, <1>2, <1>3, <1>4 DEF RingOK
<1>6. Size(ring) = 0
  BY <1>3 DEF Size
<1>7. Stored(ring)
  BY <1>6 DEF Stored
<1>8. overrun = FALSE /\ result.ok = TRUE /\ result.data = <<>>
  BY DEF Init
<1>9. result.data \in Seq(Byte)
  BY <1>8
<1>10. result.ok \in BOOLEAN /\ overrun \in BOOLEAN /\ OverrunOnlyPastEnd
  BY <1>8 DEF OverrunOnlyPastEnd
<1> QED BY <1>5, <1>7, <1>9, <1>10 DEF Inv

LEMMA EmptyResult ==
    ASSUME NEW res, res.ok = TRUE \/ res.ok = FALSE, res.data = <<>>
    PROVE  res.ok \in BOOLEAN /\ res.data \in Seq(Byte)
<1>1. res.ok \in BOOLEAN
  OBVIOUS
<1>2. res.data \in Seq(Byte)
  OBVIOUS
<1> QED BY <1>1, <1>2

\* GetData, with the abstract Get.
LEMMA GetStep ==
    ASSUME Inv, NEW n \in 0 .. MaxPacketSize, GetData(n)
    PROVE  Inv' /\ (Queue!Get(n) \/ (Contents' = Contents /\ result' = result))
<1>0. /\ RingOK(ring) /\ Stored(ring) /\ n \in Nat /\ ~overrun
      /\ result.ok \in BOOLEAN /\ result.data \in Seq(Byte)
  BY BufferAssumption DEF Inv, GetData
<1>1. /\ Contents \in Seq(Byte) /\ Len(Contents) = Size(ring)
      /\ Size(ring) \in Nat
  BY <1>0, BytesType, SizeBounds DEF Contents
<1>2. CASE n > Size(ring)
  <2>1. /\ ring' = ring /\ overrun' = overrun
        /\ result' = [ok |-> FALSE, data |-> <<>>]
    BY <1>0, <1>1, <1>2 DEF GetData
  <2>2. Inv'
    BY <1>0, <2>1 DEF Inv, OverrunOnlyPastEnd
  <2>3. Queue!Get(n)
    BY <1>0, <1>1, <1>2, <2>1 DEF Queue!Get, Queue!Returns, Contents
  <2> QED BY <2>2, <2>3
<1>3. CASE n <= Size(ring) /\ ReadsInside(ring, n)
  <2>1. /\ ring' = [ring EXCEPT !.head = @ + n] /\ overrun' = overrun
        /\ result' = [ok |-> TRUE,
                      data |-> [i \in 1 .. n |-> At(ring, ring.head + i - 1)]]
    BY <1>0, <1>1, <1>3 DEF GetData
  <2>2. /\ ring' = [size |-> ring.size, buf |-> ring.buf,
                    head |-> ring.head + n, tail |-> ring.tail]
    BY <1>0, <2>1 DEF RingOK
  <2>3. /\ ring'.size = ring.size /\ ring'.buf = ring.buf
        /\ ring'.head = ring.head + n /\ ring'.tail = ring.tail
    BY <2>2
  <2>4. RingOK(ring')
    <3>1. /\ ring.head + n \in 0 .. ring.size + ring.tail
          /\ ring.tail = ring.size => ring.head + n >= ring.size
      BY <1>0, <1>3, Positions DEF Size
    <3>2. /\ ring.size \in DefBufferSize .. MaxBufferSize
          /\ ring.buf \in [0 .. ring.size - 1 -> Cell]
          /\ ring.tail \in 0 .. ring.size
      BY <1>0 DEF RingOK
    <3> QED BY <2>2, <2>3, <3>1, <3>2 DEF RingOK
  <2>5. Size(ring') = Size(ring) - n
    <3>1. Size(ring') = IF ring.head + n <= ring.tail
                        THEN ring.tail - (ring.head + n)
                        ELSE ring.size - ((ring.head + n) - ring.tail)
      BY <2>3 DEF Size
    <3>2. Size(ring) = IF ring.head <= ring.tail
                       THEN ring.tail - ring.head
                       ELSE ring.size - (ring.head - ring.tail)
      BY DEF Size
    <3>3. ring.head \in Nat /\ ring.tail \in Nat /\ ring.size \in Nat
      BY <1>0, Positions
    <3> QED BY <1>0, <1>3, <3>1, <3>2, <3>3
  <2>6. ASSUME NEW i \in 1 .. Size(ring')
        PROVE  /\ At(ring', ring'.head + i - 1) = At(ring, ring.head + (n + i) - 1)
               /\ n + i \in 1 .. Size(ring)
    <3>1. n + i \in 1 .. Size(ring)
      BY <1>0, <1>1, <1>3, <2>5
    <3>2. ring'.head + i - 1 = ring.head + (n + i) - 1
      BY <1>0, <1>1, <2>3, <2>5, Positions
    <3> QED BY <2>3, <3>1, <3>2 DEF At
  <2>7. Stored(ring')
    BY <1>0, <2>6 DEF Stored
  <2>8. result'.data = SubSeq(Contents, 1, n)
    <3>1. result'.data = [i \in 1 .. n |-> Contents[i]]
      <4>1. \A i \in 1 .. n : At(ring, ring.head + i - 1) = Contents[i]
        BY <1>0, <1>1, <1>3 DEF Contents, Bytes
      <4> QED BY <2>1, <4>1
    <3>2. SubSeq(Contents, 1, n) = [i \in 1 .. n |-> Contents[i]]
      BY <1>0, <1>1, <1>3
    <3> QED BY <3>1, <3>2
  <2>9. Contents' = SubSeq(Contents, n + 1, Len(Contents))
    <3>1. Contents' = [i \in 1 .. Size(ring) - n |-> Contents[n + i]]
      <4>1. Contents' = [i \in 1 .. Size(ring') |-> At(ring', ring'.head + i - 1)]
        BY DEF Contents, Bytes
      <4>2. \A i \in 1 .. Size(ring') :
                At(ring', ring'.head + i - 1) = Contents[n + i]
        BY <2>6 DEF Contents, Bytes
      <4> QED BY <2>5, <4>1, <4>2
    <3>2. SubSeq(Contents, n + 1, Len(Contents)) =
              [i \in 1 .. Size(ring) - n |-> Contents[n + i]]
      BY <1>0, <1>1, <1>3
    <3> QED BY <3>1, <3>2
  <2>10. SubSeq(Contents, 1, n) \in Seq(Byte)
    BY <1>0, <1>1, <1>3
  <2>11. Inv'
    BY <1>0, <2>1, <2>4, <2>7, <2>8, <2>10 DEF Inv, OverrunOnlyPastEnd
  <2>12. Queue!Get(n)
    BY <1>1, <1>3, <2>1, <2>8, <2>9 DEF Queue!Get, Queue!Returns
  <2> QED BY <2>11, <2>12
<1>4. CASE n <= Size(ring) /\ ~ReadsInside(ring, n)
  <2>1. ring' = ring /\ overrun' = TRUE /\ result' = result
    BY <1>0, <1>1, <1>4 DEF GetData
  <2>2. ring.head > ring.size
    BY <1>0, <1>4, ReadsOutside
  <2>3. Inv'
    BY <1>0, <2>1, <2>2 DEF Inv, OverrunOnlyPastEnd
  <2>4. Contents' = Contents
    BY <2>1 DEF Contents
  <2> QED BY <2>1, <2>3, <2>4
<1> QED BY <1>0, <1>1, <1>2, <1>3, <1>4

\* PutData, with the abstract Put.
LEMMA PutStep ==
    ASSUME Inv, NEW d \in Data, PutData(d)
    PROVE  Inv' /\ (Queue!Put(d) \/ (Contents' = Contents /\ result' = result))
<1> DEFINE n == Len(d)
           e == ExtendSize(ring, n)
           room == ring.size - Size(ring)
           grow == room <= n
           roomy == IF grow THEN SetCapacity(ring, ring.size + e) ELSE ring
           inside == /\ grow /\ e > 0 => MovesInside(ring)
                     /\ WritesInside(roomy, n)
<1>0. /\ RingOK(ring) /\ Stored(ring) /\ ~overrun
      /\ result.ok \in BOOLEAN /\ result.data \in Seq(Byte)
  BY DEF Inv, PutData
<1>1. /\ n \in Nat /\ n \in 1 .. MaxPacketSize /\ ring.size \in Nat
      /\ Size(ring) \in Nat /\ MaxBufferSize \in Nat /\ ring.size <= MaxBufferSize
      /\ Len(Contents) = Size(ring)
  BY <1>0, DataType, SizeBounds, Positions, BytesType, BufferAssumption
     DEF Contents
<1>2. \/ /\ grow /\ n > room + e
         /\ ring' = ring /\ overrun' = overrun
         /\ result' = [ok |-> FALSE, data |-> <<>>]
      \/ /\ ~(grow /\ n > room + e) /\ inside
         /\ ring' = PutDataWithoutResize(roomy, d) /\ overrun' = overrun
         /\ result' = [ok |-> TRUE, data |-> <<>>]
      \/ /\ ~(grow /\ n > room + e) /\ ~inside
         /\ overrun' = TRUE /\ ring' = ring /\ result' = result
  BY DEF PutData
<1>3. CASE /\ grow /\ n > room + e
           /\ ring' = ring /\ overrun' = overrun
           /\ result' = [ok |-> FALSE, data |-> <<>>]
  <2>1. result'.ok = FALSE /\ result'.data = <<>>
    BY <1>3
  <2>2. result'.ok \in BOOLEAN /\ result'.data \in Seq(Byte)
    BY <2>1, EmptyResult
  <2>3. Inv'
    BY <1>0, <1>3, <2>2 DEF Inv, OverrunOnlyPastEnd
  <2>4. Size(ring) + n > MaxBufferSize
    <3>1. /\ e \in Nat
          /\ ring.size + e > Size(ring) + n \/ ring.size + e = MaxBufferSize
      BY <1>0, <1>1, <1>3, ExtendSizeBounds
    <3> HIDE DEF e, n
    <3> QED BY <1>1, <1>3, <3>1
  <2>5. Contents' = Contents
    BY <1>3 DEF Contents
  <2>6. Len(Contents) + Len(d) > MaxBufferSize
    BY <1>1, <2>4
  <2>7. Queue!Put(d)
    BY <1>3, <2>5, <2>6 DEF Queue!Put, Queue!Returns
  <2> QED BY <2>3, <2>7
<1>4. ASSUME ~(grow /\ n > room + e)
      PROVE  /\ RingOK(roomy) /\ Stored(roomy) /\ Bytes(roomy) = Bytes(ring)
             /\ n <= roomy.size - Size(roomy) /\ Size(roomy) \in Nat
             /\ roomy.size \in Nat
             /\ Size(ring) + n # MaxBufferSize => n < roomy.size - Size(roomy)
             /\ Size(ring) + n = MaxBufferSize => n = roomy.size - Size(roomy)
             /\ roomy.head > roomy.size => roomy = ring
             /\ Size(ring) + n <= MaxBufferSize
  <2>1. CASE ~grow
    <3>1. roomy = ring
      BY <2>1
    <3>2. n < ring.size - Size(ring)
      BY <1>1, <2>1
    <3> HIDE DEF roomy
    <3> QED BY <1>0, <1>1, <3>1, <3>2
  <2>2. CASE grow
    <3>1. roomy = SetCapacity(ring, ring.size + e)
      BY <2>2
    <3>2. e \in Nat /\ ring.size + e <= MaxBufferSize
      BY <1>0, <1>1, <2>2, ExtendSizeBounds
    <3>3. n <= ring.size - Size(ring) + e
      BY <1>1, <1>4, <2>2, <3>2
    <3>4. /\ RingOK(roomy) /\ Stored(roomy) /\ Bytes(roomy) = Bytes(ring)
          /\ n <= roomy.size - Size(roomy)
          /\ Size(ring) + n # MaxBufferSize => n < roomy.size - Size(roomy)
          /\ Size(ring) + n = MaxBufferSize => n = roomy.size - Size(roomy)
          /\ roomy = ring \/ roomy.head = 0
      BY <1>0, <1>1, <2>2, <3>1, <3>3, RoomyRing
    <3>5. Size(ring) + n <= MaxBufferSize
      BY <1>1, <3>2, <3>3
    <3> HIDE DEF roomy
    <3>6. Size(roomy) \in Nat /\ roomy.size \in Nat
      BY <3>4, SizeBounds, Positions
    <3> QED BY <3>4, <3>5, <3>6
  <2> QED BY <2>1, <2>2
<1>5. CASE /\ ~(grow /\ n > room + e) /\ inside
           /\ ring' = PutDataWithoutResize(roomy, d) /\ overrun' = overrun
           /\ result' = [ok |-> TRUE, data |-> <<>>]
  <2> HIDE DEF n, e, room, grow, roomy, inside
  <2>0. /\ RingOK(roomy) /\ Stored(roomy) /\ Bytes(roomy) = Bytes(ring)
        /\ n <= roomy.size - Size(roomy) /\ Size(roomy) \in Nat
        /\ roomy.size \in Nat
        /\ Size(ring) + n # MaxBufferSize => n < roomy.size - Size(roomy)
        /\ Size(ring) + n = MaxBufferSize => n = roomy.size - Size(roomy)
        /\ Size(ring) + n <= MaxBufferSize
        /\ WritesInside(roomy, n)
    BY <1>4, <1>5 DEF inside
  <2> USE DEF n
  <2>1. result'.ok = TRUE /\ result'.data = <<>>
    BY <1>5
  <2>2. result'.ok \in BOOLEAN /\ result'.data \in Seq(Byte)
    BY <2>1, EmptyResult
  <2>3. RingOK(ring') /\ Stored(ring')
    <3>1. CASE n < roomy.size - Size(roomy)
      BY <1>5, <2>0, <3>1, PutAppends
    <3>2. CASE n = roomy.size - Size(roomy)
      BY <1>5, <2>0, <3>2, PutFull
    <3> QED BY <1>1, <2>0, <3>1, <3>2
  <2>4. Inv'
    BY <1>0, <1>5, <2>2, <2>3 DEF Inv, OverrunOnlyPastEnd
  <2>5. CASE Size(ring) + n # MaxBufferSize
    <3>1. Bytes(ring') = Bytes(roomy) \o d
      BY <1>5, <2>0, <2>5, PutAppends
    <3>2. Contents' = Contents \o d
      BY <2>0, <3>1 DEF Contents
    <3>3. Len(Contents) + Len(d) < MaxBufferSize
      BY <1>1, <2>0, <2>5
    <3>4. Queue!Put(d)
      BY <1>5, <3>2, <3>3 DEF Queue!Put, Queue!Returns
    <3> QED BY <2>4, <3>4
  <2>6. CASE Size(ring) + n = MaxBufferSize
    <3>1. Bytes(ring') = <<>>
      BY <1>5, <2>0, <2>6, PutFull
    <3>2. Contents' = <<>> /\ Len(Contents) + Len(d) = MaxBufferSize
      BY <1>1, <2>6, <3>1 DEF Contents
    <3>3. Queue!Put(d)
      BY <1>5, <3>2 DEF Queue!Put, Queue!Returns
    <3> QED BY <2>4, <3>3
  <2> QED BY <2>5, <2>6
<1>6. CASE /\ ~(grow /\ n > room + e) /\ ~inside
           /\ overrun' = TRUE /\ ring' = ring /\ result' = result
  <2> HIDE DEF n, e, room, grow, roomy, inside
  <2>1. /\ RingOK(roomy) /\ n <= roomy.size - Size(roomy)
        /\ roomy.head > roomy.size => roomy = ring
    BY <1>4, <1>6
  <2> USE DEF n, inside
  <2>2. ring.head > ring.size
    <3>1. CASE ~MovesInside(ring)
      BY <1>0, <3>1, MovesOutside
    <3>2. CASE ~WritesInside(roomy, n)
      <4> HIDE DEF roomy
      <4>1. roomy.head > roomy.size
        BY <1>1, <2>1, <3>2, WritesOutside
      <4> QED BY <2>1, <4>1
    <3> QED BY <1>6, <3>1, <3>2
  <2>3. Inv'
    BY <1>0, <1>6, <2>2 DEF Inv, OverrunOnlyPastEnd
  <2>4. Contents' = Contents
    BY <1>6 DEF Contents
  <2> QED BY <1>6, <2>3, <2>4
<1> HIDE DEF n, e, room, grow, roomy, inside
<1> QED BY <1>2, <1>3, <1>5, <1>6

LEMMA ClearStep == ASSUME Inv, Clear PROVE Inv' /\ Queue!Clear
<1>0. /\ RingOK(ring) /\ ring' = [ring EXCEPT !.head = 0, !.tail = 0]
      /\ overrun' = overrun /\ overrun \in BOOLEAN /\ ~overrun
      /\ result' = [ok |-> TRUE, data |-> <<>>]
  BY DEF Inv, Clear
<1>1. ring' = [size |-> ring.size, buf |-> ring.buf, head |-> 0, tail |-> 0]
  BY <1>0 DEF RingOK
<1>2. /\ ring'.size = ring.size /\ ring'.buf = ring.buf /\ ring'.head = 0
      /\ ring'.tail = 0
  BY <1>1
<1>3. RingOK(ring')
  <2>1. /\ ring.size \in DefBufferSize .. MaxBufferSize
        /\ ring.buf \in [0 .. ring.size - 1 -> Cell]
    BY <1>0 DEF RingOK
  <2>2. ring.size \in Nat /\ ring.size > 0 /\ 0 \in 0 .. ring.size
        /\ 0 \in 0 .. ring.size + 0
    BY <1>0, Positions, BufferAssumption
  <2> QED BY <1>1, <1>2, <2>1, <2>2 DEF RingOK
<1>4. Size(ring') = 0
  BY <1>2 DEF Size
<1>5. Stored(ring') /\ Contents' = <<>>
  <2>1. Stored(ring')
    BY <1>4 DEF Stored
  <2>2. Contents' = [i \in 1 .. 0 |-> At(ring', ring'.head + i - 1)]
    BY <1>4 DEF Contents, Bytes
  <2>3. 1 .. 0 = {}
    OBVIOUS
  <2> QED BY <2>1, <2>2, <2>3
<1>6. result'.ok = TRUE /\ result'.data = <<>>
  BY <1>0
<1>7. result'.ok \in BOOLEAN /\ result'.data \in Seq(Byte)
  BY <1>6, EmptyResult
<1>8. Inv'
  BY <1>0, <1>3, <1>5, <1>7 DEF Inv, OverrunOnlyPastEnd
<1> QED BY <1>0, <1>5, <1>8 DEF Queue!Clear, Queue!Returns

LEMMA NextInv == ASSUME Inv, [Next]_bufferVars PROVE Inv'
<1>1. CASE UNCHANGED bufferVars
  BY <1>1 DEF bufferVars, Inv, OverrunOnlyPastEnd
<1>2. CASE Next
  BY <1>2, GetStep, PutStep, ClearStep DEF Next
<1> QED BY <1>1, <1>2

LEMMA Invariance == Spec => []Inv
<1>1. Init => Inv
  BY InitInv
<1>2. Inv /\ [Next]_bufferVars => Inv'
  BY NextInv
<1> QED BY <1>1, <1>2, PTL DEF Spec

\* The positions stay in their ranges, the buffer holds bytes, and no read
\* returns an uninitialised one.
THEOREM TypeCorrect == Spec => []TypeOK
<1>1. Inv => TypeOK
  BY DEF Inv, RingOK, Cell, TypeOK
<1> QED BY <1>1, Invariance, PTL

\* Whatever is put and got in whatever order, memory is overrun only after a
\* wrapped read has left _headPos beyond the end of the buffer.
THEOREM OverrunNeedsHeadPastEnd == Spec => []OverrunOnlyPastEnd
<1>1. Inv => OverrunOnlyPastEnd
  BY DEF Inv
<1> QED BY <1>1, Invariance, PTL

\* Until it overruns memory the buffer is a queue of bytes, for all sizes and
\* all packets, that loses bytes only when its largest size is filled.
THEOREM Refinement == Spec => ImplementsByteQueue
<1>1. Init => Queue!Init
  <2>1. ASSUME Init PROVE Queue!Init
    <3>1. Size(ring) = 0 /\ result = [ok |-> TRUE, data |-> <<>>]
      BY <2>1 DEF Init, Size
    <3>2. Contents = <<>>
      <4>1. 1 .. 0 = {}
        OBVIOUS
      <4> QED BY <3>1, <4>1 DEF Contents, Bytes
    <3> QED BY <3>1, <3>2 DEF Queue!Init, Queue!Returns
  <2> QED BY <2>1
<1>2. Inv /\ [Next]_bufferVars => [Queue!Next]_<<Contents, result>>
  <2>1. ASSUME Inv, NEW d \in Data, PutData(d)
        PROVE  [Queue!Next]_<<Contents, result>>
    BY <2>1, PutStep DEF Queue!Next
  <2>2. ASSUME Inv, NEW n \in 0 .. MaxPacketSize, GetData(n)
        PROVE  [Queue!Next]_<<Contents, result>>
    BY <2>2, GetStep DEF Queue!Next
  <2>3. ASSUME Inv, Clear PROVE [Queue!Next]_<<Contents, result>>
    BY <2>3, ClearStep DEF Queue!Next
  <2>4. ASSUME UNCHANGED bufferVars PROVE [Queue!Next]_<<Contents, result>>
    BY <2>4 DEF bufferVars, Contents
  <2> QED BY <2>1, <2>2, <2>3, <2>4 DEF Next
<1> QED BY <1>1, <1>2, Invariance, PTL
     DEF Spec, ImplementsByteQueue, Queue!Spec

===============================================================================

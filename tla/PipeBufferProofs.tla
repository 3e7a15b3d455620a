------------------------- MODULE PipeBufferProofs -------------------------
(***************************************************************************)
(* The circular buffer of PipeBuffer is a bounded queue as long as it is   *)
(* shorter than 2^width(FMSTR_SIZE8): what Put adds comes after what was   *)
(* there, and reads and discards take from the front.  The results speak   *)
(* of the waiting bytes by number (Holds), so that nothing above them      *)
(* needs to know where the pointers are.                                   *)
(***************************************************************************)
EXTENDS PipeBuffer, TLAPS

\* A well-formed buffer of the given size.
IsBuff(b, size) ==
    /\ b \in [buff : [0 .. size - 1 -> Nat], size : {size},
              wp : 0 .. size - 1, rp : 0 .. size - 1, bIsFull : BOOLEAN]
    /\ b.bIsFull => b.wp = b.rp

\* The sizes for which no cast of a length loses anything.
Narrow(size) == size \in Nat \ {0} /\ size < Size8 /\ size < 65536

\* The bytes waiting in b are numbered from k + 1.
Holds(b, k) == \A i \in 0 .. BytesReady(b) - 1 : b.buff[Cell(b, i)] = k + i + 1

-----------------------------------------------------------------------------
(* Places around the ring.                                                 *)

\* The place n after p, and the number of places from r on to w.
Move(size, p, n) == IF p + n >= size THEN p + n - size ELSE p + n
Count(size, r, w) == IF w >= r THEN w - r ELSE size - r + w

\* How much of n comes before the end.
First(size, p, n) == IF size - p <= n THEN size - p ELSE n

\* Places after p lie in the ring.
LEMMA MoveRange ==
    ASSUME NEW size \in Nat \ {0}, NEW p \in 0 .. size - 1, NEW n \in 0 .. size
    PROVE  Move(size, p, n) \in 0 .. size - 1
  BY DEF Move

\* A move past the end is a move to the end and one from the start.
LEMMA MoveParts ==
    ASSUME NEW size \in Nat \ {0}, NEW p \in 0 .. size - 1, NEW n \in 1 .. size
    PROVE  /\ First(size, p, n) \in 1 .. n
           /\ Move(size, p, First(size, p, n)) \in 0 .. size - 1
           /\ Move(size, p, First(size, p, n)) + (n - First(size, p, n)) = Move(size, p, n)
  <1>1. CASE size - p <= n
    BY <1>1 DEF Move, First
  <1>2. CASE size - p > n
    BY <1>2 DEF Move, First
  <1> QED BY <1>1, <1>2

\* Moving the write pointer on by n adds n to the count, until it meets r.
LEMMA CountIn ==
    ASSUME NEW size \in Nat \ {0}, NEW w \in 0 .. size - 1, NEW r \in 0 .. size - 1,
           NEW n \in 1 .. size, Count(size, r, w) + n <= size
    PROVE  IF Move(size, w, n) = r THEN Count(size, r, w) + n = size
           ELSE Count(size, r, Move(size, w, n)) = Count(size, r, w) + n
  <1>1. CASE w >= r
    BY <1>1 DEF Move, Count
  <1>2. CASE w < r
    BY <1>2 DEF Move, Count
  <1> QED BY <1>1, <1>2

\* Moving the read pointer on by n takes n off the count.
LEMMA CountOut ==
    ASSUME NEW size \in Nat \ {0}, NEW w \in 0 .. size - 1, NEW r \in 0 .. size - 1,
           NEW n \in 1 .. size
    PROVE  /\ n <= Count(size, r, w) =>
                Count(size, Move(size, r, n), w) = Count(size, r, w) - n
           /\ w = r => Count(size, Move(size, r, n), w) = size - n
  BY DEF Move, Count

\* Two moves are one.
LEMMA MoveTwice ==
    ASSUME NEW size \in Nat \ {0}, NEW p \in 0 .. size - 1, NEW m \in 0 .. size,
           NEW n \in 0 .. size, m + n <= size
    PROVE  Move(size, Move(size, p, m), n) = Move(size, p, m + n)
  BY DEF Move

\* Of n places from w on, s before the end and the rest from w1 on: the i-th
\* place from r on is before them if i is less than the count, and is the
\* place of number i - count among them otherwise.
LEMMA Places ==
    ASSUME NEW size \in Nat \ {0}, NEW w \in 0 .. size - 1, NEW r \in 0 .. size - 1,
           NEW n \in 1 .. size, NEW i \in Nat,
           NEW s, s = First(size, w, n),
           NEW w1, w1 = Move(size, w, s),
           NEW c, c = Move(size, r, i),
           NEW ready, ready = Count(size, r, w),
           ready + n <= size, i < ready + n
    PROVE  /\ i < ready => ~(w1 <= c /\ c < w1 + (n - s)) /\ ~(w <= c /\ c < w + s)
           /\ i >= ready /\ w1 <= c /\ c < w1 + (n - s)
                => s + c - w1 = i - ready /\ s + c - w1 < n
           /\ i >= ready /\ ~(w1 <= c /\ c < w1 + (n - s))
                => w <= c /\ c < w + s /\ c - w = i - ready
  <1>1. CASE size - w <= n /\ w >= r
    <2>1. s = size - w /\ w1 = 0 /\ ready = w - r
      BY <1>1 DEF First, Move, Count
    <2> QED BY <1>1, <2>1 DEF Move
  <1>2. CASE size - w <= n /\ w < r
    <2>1. s = size - w /\ w1 = 0 /\ ready = size - r + w
      BY <1>2 DEF First, Move, Count
    <2> QED BY <1>2, <2>1 DEF Move
  <1>3. CASE size - w > n /\ w >= r
    <2>1. s = n /\ w1 = w + n /\ ready = w - r
      BY <1>3 DEF First, Move, Count
    <2> QED BY <1>3, <2>1 DEF Move
  <1>4. CASE size - w > n /\ w < r
    <2>1. s = n /\ w1 = w + n /\ ready = size - r + w
      BY <1>4 DEF First, Move, Count
    <2> QED BY <1>4, <2>1 DEF Move
  <1> QED BY <1>1, <1>2, <1>3, <1>4

-----------------------------------------------------------------------------
(* What the definitions say of a well-formed buffer.                       *)

\* The casts do not change what fits.
LEMMA CastsKeep ==
    /\ \A n \in Nat : n < Size8 => ToSize8(n) = n
    /\ \A n \in Nat : n < 65536 => ToPipeSize(n) = n
  BY DEF ToSize8, ToPipeSize

\* The fields.
LEMMA BuffFields ==
    ASSUME NEW size, Narrow(size), NEW b, IsBuff(b, size)
    PROVE  /\ b.size = size /\ size \in Nat \ {0} /\ size < Size8 /\ size < 65536
           /\ b.wp \in 0 .. size - 1 /\ b.rp \in 0 .. size - 1
           /\ b.bIsFull \in BOOLEAN /\ (b.bIsFull => b.wp = b.rp)
           /\ b.buff \in [0 .. size - 1 -> Nat]
  BY DEF Narrow, IsBuff

\* A buffer as FMSTR_PipeOpen leaves it is well formed and empty.
LEMMA EmptyBuffLemma ==
    ASSUME NEW size, Narrow(size)
    PROVE  /\ IsBuff(EmptyBuff(size), size)
           /\ BytesReady(EmptyBuff(size)) = 0
  <1> DEFINE b == EmptyBuff(size)
  <1>1. b = [buff |-> [i \in 0 .. size - 1 |-> NoByte], size |-> size,
             wp |-> 0, rp |-> 0, bIsFull |-> FALSE]
    BY DEF EmptyBuff
  <1>2. [i \in 0 .. size - 1 |-> NoByte] \in [0 .. size - 1 -> Nat]
    BY DEF NoByte
  <1>3. IsBuff(b, size)
    BY <1>1, <1>2 DEF IsBuff, Narrow
  <1>4. BytesReady(b) = 0
    BY <1>1 DEF BytesReady
  <1> QED BY <1>3, <1>4

\* The waiting bytes lie from rp up to wp, and the free ones are the others.
LEMMA ReadyFree ==
    ASSUME NEW size, Narrow(size), NEW b, IsBuff(b, size)
    PROVE  /\ BytesReady(b) \in 0 .. size
           /\ BytesFree(b) = size - BytesReady(b)
           /\ BytesReady(b) = IF b.bIsFull THEN size ELSE Count(size, b.rp, b.wp)
  <1>1. CASE b.bIsFull
    BY <1>1, BuffFields DEF BytesReady, BytesFree
  <1>2. CASE ~b.bIsFull /\ b.wp < b.rp
    <2>1. ToPipeSize(b.size - b.rp + b.wp) = size - b.rp + b.wp
      BY <1>2, BuffFields, CastsKeep
    <2> QED BY <1>2, <2>1, BuffFields DEF BytesReady, BytesFree, Count
  <1>3. CASE ~b.bIsFull /\ b.wp >= b.rp
    <2>1. ToPipeSize(b.size - b.wp + b.rp) = size - b.wp + b.rp
      BY <1>3, BuffFields, CastsKeep
    <2> QED BY <1>3, <2>1, BuffFields DEF BytesReady, BytesFree, Count
  <1> QED BY <1>1, <1>2, <1>3, BuffFields

\* The routines' own arithmetic, without its casts, is that of the ring.
LEMMA RingArithmetic ==
    ASSUME NEW size, Narrow(size), NEW b, IsBuff(b, size),
           NEW p \in 0 .. size - 1, NEW n \in 1 .. size
    PROVE  /\ UpToEnd(b, p, n) = First(size, p, n)
           /\ Wrap(b, p + First(size, p, n)) = Move(size, p, First(size, p, n))
           /\ ToSize8(First(size, p, n)) = First(size, p, n)
           /\ ToSize8(n - First(size, p, n)) = n - First(size, p, n)
  <1>1. b.size = size /\ size \in Nat \ {0} /\ size < Size8 /\ size < 65536
    BY BuffFields
  <1>2. UpToEnd(b, p, n) = First(size, p, n)
    <2>1. ToPipeSize(b.size - p) = size - p
      BY <1>1, CastsKeep
    <2> QED BY <2>1 DEF UpToEnd, Min2, First
  <1>3. First(size, p, n) \in 1 .. n /\ p + First(size, p, n) <= size
    BY <1>1 DEF First
  <1>4. Wrap(b, p + First(size, p, n)) = Move(size, p, First(size, p, n))
    BY <1>1, <1>3 DEF Wrap, Move
  <1>5. /\ First(size, p, n) \in Nat /\ First(size, p, n) < Size8
        /\ n - First(size, p, n) \in Nat /\ n - First(size, p, n) < Size8
    BY <1>1, <1>3, Size8Assumption
  <1> QED BY <1>2, <1>4, <1>5, CastsKeep

\* The cell of the i-th waiting byte.
LEMMA CellPlace ==
    ASSUME NEW size, Narrow(size), NEW b, IsBuff(b, size), NEW i \in 0 .. size
    PROVE  Cell(b, i) = Move(size, b.rp, i) /\ Cell(b, i) \in 0 .. size - 1
  BY BuffFields DEF Cell, Move

-----------------------------------------------------------------------------
(* Writing.                                                                *)

\* A place within a part of a write.
LEMMA Offset ==
    ASSUME NEW p \in Nat, NEW n \in Nat, NEW s \in 1 .. n, NEW i \in Nat, p <= i, i < p + s
    PROVE  i - p + 1 \in 1 .. n
  OBVIOUS

\* The cells after such a write hold bytes of data or of b.
LEMMA WrittenCells ==
    ASSUME NEW size, Narrow(size), NEW b, IsBuff(b, size),
           NEW data \in Seq(Nat), NEW n \in 1 .. size, n = Len(data),
           NEW s \in 1 .. n, NEW w1 \in 0 .. size - 1
    PROVE  Written(b, data, s, s, w1, n - s) \in [0 .. size - 1 -> Nat]
  <1> DEFINE buff == Written(b, data, s, s, w1, n - s)
  <1>1. /\ b.size = size /\ size \in Nat \ {0}
        /\ b.wp \in 0 .. size - 1 /\ b.buff \in [0 .. size - 1 -> Nat]
    BY BuffFields
  <1>2. \A k \in 1 .. n : data[k] \in Nat
    OBVIOUS
  <1>3. ASSUME NEW i \in 0 .. size - 1 PROVE buff[i] \in Nat
    <2>1. buff[i] = IF w1 <= i /\ i < w1 + (n - s)
                    THEN IF s + i - w1 < n THEN data[s + i - w1 + 1] ELSE NoByte
                    ELSE IF b.wp <= i /\ i < b.wp + s THEN data[i - b.wp + 1]
                    ELSE b.buff[i]
      BY <1>1 DEF Written
    <2> HIDE DEF buff
    <2>2. CASE w1 <= i /\ i < w1 + (n - s) /\ s + i - w1 < n
      <3>1. s + i - w1 + 1 \in 1 .. n
        BY <1>1, <2>2
      <3>2. buff[i] = data[s + i - w1 + 1]
        BY <2>1, <2>2
      <3> QED BY <1>2, <3>1, <3>2
    <2>3. CASE w1 <= i /\ i < w1 + (n - s) /\ ~(s + i - w1 < n)
      BY <2>1, <2>3 DEF NoByte
    <2>4. CASE ~(w1 <= i /\ i < w1 + (n - s)) /\ b.wp <= i /\ i < b.wp + s
      <3>1. i - b.wp + 1 \in 1 .. n
        <4>1. b.wp \in Nat /\ i \in Nat /\ n \in Nat
          BY <1>1
        <4> QED BY <2>4, <4>1, Offset
      <3>2. buff[i] = data[i - b.wp + 1]
        BY <2>1, <2>4
      <3> QED BY <1>2, <3>1, <3>2
    <2>5. CASE ~(w1 <= i /\ i < w1 + (n - s)) /\ ~(b.wp <= i /\ i < b.wp + s)
      BY <1>1, <2>1, <2>5
    <2> QED BY <2>2, <2>3, <2>4, <2>5
  <1> QED BY <1>1, <1>3 DEF Written

\* The cells of such a write, one by one.
LEMMA WrittenAt ==
    ASSUME NEW size, Narrow(size), NEW b, IsBuff(b, size), ~b.bIsFull,
           NEW data \in Seq(Nat), NEW n \in 1 .. size, n = Len(data),
           n <= size - BytesReady(b),
           NEW s, s = First(size, b.wp, n),
           NEW i \in 0 .. BytesReady(b) + n - 1
    PROVE  Written(b, data, s, s, Move(size, b.wp, s), n - s)[Cell(b, i)] =
               IF i < BytesReady(b) THEN b.buff[Cell(b, i)] ELSE data[i - BytesReady(b) + 1]
  <1>1. /\ b.size = size /\ size \in Nat \ {0}
        /\ b.wp \in 0 .. size - 1 /\ b.rp \in 0 .. size - 1
    BY BuffFields
  <1>2. PICK ready \in 0 .. size : ready = BytesReady(b)
    BY <1>1, ReadyFree
  <1>3. ready = Count(size, b.rp, b.wp)
    BY <1>2, ReadyFree
  <1>4. ready + n <= size /\ i \in Nat /\ i < ready + n /\ i \in 0 .. size
    <2>1. n <= size - ready /\ i \in 0 .. ready + n - 1
      BY <1>2
    <2> QED BY <1>1, <2>1
  <1>5. PICK c \in 0 .. size - 1 : c = Cell(b, i) /\ c = Move(size, b.rp, i)
    BY <1>4, CellPlace
  <1>6. PICK w1 : w1 = Move(size, b.wp, s)
    OBVIOUS
  <1>7. Written(b, data, s, s, w1, n - s)[c] =
            IF w1 <= c /\ c < w1 + (n - s)
            THEN IF s + c - w1 < n THEN data[s + c - w1 + 1] ELSE NoByte
            ELSE IF b.wp <= c /\ c < b.wp + s THEN data[c - b.wp + 1]
            ELSE b.buff[c]
    BY <1>1 DEF Written
  <1>8. /\ i < ready => ~(w1 <= c /\ c < w1 + (n - s)) /\ ~(b.wp <= c /\ c < b.wp + s)
        /\ i >= ready /\ w1 <= c /\ c < w1 + (n - s)
             => s + c - w1 = i - ready /\ s + c - w1 < n
        /\ i >= ready /\ ~(w1 <= c /\ c < w1 + (n - s))
             => b.wp <= c /\ c < b.wp + s /\ c - b.wp = i - ready
    BY <1>1, <1>3, <1>4, <1>5, <1>6, Places, SMTT(20)
  <1>9. CASE i < ready
    <2>1. ~(w1 <= c /\ c < w1 + (n - s)) /\ ~(b.wp <= c /\ c < b.wp + s)
      BY <1>8, <1>9
    <2>2. Written(b, data, s, s, w1, n - s)[c] = b.buff[c]
      BY <1>7, <2>1
    <2> QED BY <1>2, <1>5, <1>6, <1>9, <2>2
  <1>10. CASE i >= ready /\ w1 <= c /\ c < w1 + (n - s)
    BY <1>2, <1>4, <1>5, <1>6, <1>7, <1>8, <1>10
  <1>11. CASE i >= ready /\ ~(w1 <= c /\ c < w1 + (n - s))
    BY <1>2, <1>4, <1>5, <1>6, <1>7, <1>8, <1>11
  <1> QED BY <1>4, <1>9, <1>10, <1>11

\* Writing n bytes that fit adds them behind the bytes that wait.
LEMMA PutLemma ==
    ASSUME NEW size, Narrow(size), NEW b, IsBuff(b, size),
           NEW data \in Seq(Nat), Len(data) <= BytesFree(b)
    PROVE  /\ IsBuff(Put(b, data), size)
           /\ BytesReady(Put(b, data)) = BytesReady(b) + Len(data)
           /\ \A i \in 0 .. BytesReady(b) + Len(data) - 1 :
                Put(b, data).buff[Cell(Put(b, data), i)] =
                    IF i < BytesReady(b) THEN b.buff[Cell(b, i)]
                    ELSE data[i - BytesReady(b) + 1]
  <1>1. /\ b.size = size /\ size \in Nat \ {0}
        /\ b.wp \in 0 .. size - 1 /\ b.rp \in 0 .. size - 1
    BY BuffFields
  <1>2. Len(data) \in Nat /\ BytesReady(b) \in 0 .. size /\ Len(data) <= size - BytesReady(b)
    BY ReadyFree
  <1>3. CASE Len(data) = 0
    <2>1. Put(b, data) = b
      BY <1>3 DEF Put
    <2> QED BY <1>2, <1>3, <2>1
  <1>4. CASE Len(data) > 0
    <2>1. PICK n \in 1 .. size : n = Len(data)
      BY <1>1, <1>2, <1>4
    <2>2. ~b.bIsFull
      BY <1>1, <1>2, <1>4, ReadyFree
    <2>3. PICK s : s = First(size, b.wp, n)
      OBVIOUS
    <2>4. PICK w2 : w2 = Move(size, b.wp, n)
      OBVIOUS
    <2>5. PICK buff : buff = Written(b, data, s, s, Move(size, b.wp, s), n - s)
      OBVIOUS
    <2>6. PICK p : p = Put(b, data)
      OBVIOUS
    <2>7. s \in 1 .. n /\ Move(size, b.wp, s) \in 0 .. size - 1 /\ w2 \in 0 .. size - 1
      <3>1. s \in 1 .. n /\ Move(size, b.wp, s) \in 0 .. size - 1
        BY <1>1, <2>3, MoveParts
      <3>2. w2 \in 0 .. size - 1
        <4>1. n \in 0 .. size
          BY <1>1
        <4> QED BY <1>1, <2>4, <4>1, MoveRange
      <3> QED BY <3>1, <3>2
    <2>8. buff \in [0 .. size - 1 -> Nat]
      BY <2>1, <2>5, <2>7, WrittenCells
    <2>9. p = [b EXCEPT !.buff = buff, !.wp = w2, !.bIsFull = (w2 = b.rp)]
      <3>1. Put(b, data) =
              [b EXCEPT !.buff = Written(b, data, s, s, Move(size, b.wp, s), n - s),
                        !.wp = Move(size, b.wp, n),
                        !.bIsFull = (Move(size, b.wp, n) = b.rp)]
        <4>1. UpToEnd(b, b.wp, n) = s /\ Wrap(b, b.wp + s) = Move(size, b.wp, s)
          BY <1>1, <2>3, RingArithmetic
        <4>2. ToSize8(s) = s /\ ToSize8(n - s) = n - s
          BY <1>1, <2>3, RingArithmetic
        <4>3. Move(size, b.wp, s) + (n - s) = Move(size, b.wp, n)
          BY <1>1, <2>3, MoveParts
        <4>4. Put(b, data) = CopiedIn(b, data, s)
          BY <1>4, <2>1, <4>1 DEF Put
        <4>5. Len(data) - ToSize8(s) = n - s
          BY <2>1, <4>2
        <4>6. CopiedIn(b, data, s) =
                [b EXCEPT !.buff = Written(b, data, ToSize8(s), s, Wrap(b, b.wp + s),
                                           ToSize8(Len(data) - ToSize8(s))),
                          !.wp = Wrap(b, b.wp + s) + (Len(data) - ToSize8(s)),
                          !.bIsFull = (Wrap(b, b.wp + s) + (Len(data) - ToSize8(s)) = b.rp)]
          BY <2>2 DEF CopiedIn
        <4> QED BY <4>1, <4>2, <4>3, <4>4, <4>5, <4>6
      <3> QED BY <2>4, <2>5, <2>6, <3>1
    <2>10. /\ p.size = size /\ p.rp = b.rp /\ p.wp = w2 /\ p.buff = buff
           /\ p.bIsFull = (w2 = b.rp)
           /\ IsBuff(p, size)
      BY <2>7, <2>8, <2>9 DEF IsBuff
    <2>11. BytesReady(p) = BytesReady(b) + n
      <3>1. BytesReady(p) = IF w2 = b.rp THEN size ELSE Count(size, b.rp, w2)
        BY <2>10, ReadyFree
      <3>2. BytesReady(b) = Count(size, b.rp, b.wp)
        BY <2>2, ReadyFree
      <3>3. Count(size, b.rp, b.wp) + n <= size
        BY <1>1, <1>2, <2>1, <3>2
      <3> QED BY <1>1, <2>4, <3>1, <3>2, <3>3, CountIn
    <2>12. ASSUME NEW i \in 0 .. BytesReady(b) + n - 1
           PROVE  p.buff[Cell(p, i)] =
                    IF i < BytesReady(b) THEN b.buff[Cell(b, i)]
                    ELSE data[i - BytesReady(b) + 1]
      <3>1. Cell(p, i) = Cell(b, i)
        BY <1>1, <2>10 DEF Cell
      <3>2. n <= size - BytesReady(b)
        BY <1>2, <2>1
      <3>3. buff[Cell(b, i)] = IF i < BytesReady(b) THEN b.buff[Cell(b, i)]
                               ELSE data[i - BytesReady(b) + 1]
        BY <2>1, <2>2, <2>3, <2>5, <3>2, WrittenAt
      <3> QED BY <2>10, <3>1, <3>3
    <2> QED BY <2>1, <2>6, <2>10, <2>11, <2>12
  <1> QED BY <1>2, <1>3, <1>4

-----------------------------------------------------------------------------
(* Reading and discarding.                                                 *)

\* The two copies of a read are the waiting bytes in order.
LEMMA TakenLemma ==
    ASSUME NEW size, Narrow(size), NEW b, IsBuff(b, size), NEW n \in 0 .. BytesReady(b)
    PROVE  Taken(b, n) = Peek(b, n)
  <1>1. /\ b.size = size /\ size \in Nat \ {0} /\ b.rp \in 0 .. size - 1
        /\ BytesReady(b) \in 0 .. size
    BY BuffFields, ReadyFree
  <1>2. CASE n = 0
    BY <1>2 DEF Taken, CopiedOut, Peek
  <1>3. CASE n > 0
    <2>1. n \in 1 .. size
      BY <1>1, <1>3
    <2>2. PICK s : s = First(size, b.rp, n)
      OBVIOUS
    <2>3. UpToEnd(b, b.rp, n) = s /\ Wrap(b, b.rp + s) = Move(size, b.rp, s)
      BY <1>1, <2>1, <2>2, RingArithmetic
    <2>4. ToSize8(s) = s /\ ToSize8(n - s) = n - s
      BY <1>1, <2>1, <2>2, RingArithmetic
    <2>5. PICK r1 : r1 = Move(size, b.rp, s)
      OBVIOUS
    <2>6. ASSUME NEW j \in 1 .. n
          PROVE  (IF j <= s THEN b.buff[b.rp + j - 1]
                  ELSE IF s < j /\ j <= s + (n - s) /\ r1 + j - s - 1 < size
                       THEN b.buff[r1 + j - s - 1] ELSE NoByte)
                 = b.buff[Cell(b, j - 1)]
      <3>1. Cell(b, j - 1) = IF b.rp + (j - 1) < size THEN b.rp + (j - 1)
                             ELSE b.rp + (j - 1) - size
        BY <1>1 DEF Cell
      <3>2. PICK p \in 0 .. size - 1 : p = b.rp
        BY <1>1
      <3>3. CASE j <= s
        <4>1. Cell(b, j - 1) = b.rp + j - 1
          BY <1>1, <2>1, <2>2, <3>1, <3>2, <3>3 DEF First
        <4> QED BY <3>3, <4>1
      <3>4. CASE j > s
        <4>1. s \in Nat /\ s = size - p /\ r1 = 0
          BY <1>1, <2>1, <2>2, <2>5, <3>2, <3>4 DEF First, Move
        <4>2. /\ Cell(b, j - 1) = r1 + j - s - 1
              /\ s < j /\ j <= s + (n - s) /\ r1 + j - s - 1 < size /\ ~(j <= s)
          BY <1>1, <2>1, <3>1, <3>2, <3>4, <4>1
        <4> QED BY <4>2
      <3>5. s \in Nat
        BY <1>1, <2>1, <2>2 DEF First
      <3> QED BY <3>3, <3>4, <3>5
    <2> QED BY <1>1, <2>3, <2>4, <2>5, <2>6 DEF Taken, CopiedOut, Peek
  <1> QED BY <1>1, <1>2, <1>3

\* A buffer whose read pointer has moved over n waiting bytes.
Moved(size, b, n) == [b EXCEPT !.rp = Move(size, b.rp, n), !.bIsFull = FALSE]

\* It holds the bytes behind those n.
LEMMA MovedOn ==
    ASSUME NEW size, Narrow(size), NEW b, IsBuff(b, size), NEW n \in 1 .. BytesReady(b)
    PROVE  /\ IsBuff(Moved(size, b, n), size)
           /\ BytesReady(Moved(size, b, n)) = BytesReady(b) - n
           /\ \A i \in 0 .. BytesReady(b) - n - 1 :
                Moved(size, b, n).buff[Cell(Moved(size, b, n), i)] = b.buff[Cell(b, n + i)]
  <1>1. /\ b.size = size /\ size \in Nat \ {0}
        /\ b.wp \in 0 .. size - 1 /\ b.rp \in 0 .. size - 1
        /\ b.bIsFull \in BOOLEAN /\ (b.bIsFull => b.wp = b.rp)
    BY BuffFields
  <1>2. PICK ready \in 0 .. size : ready = BytesReady(b)
    BY <1>1, ReadyFree
  <1>3. n \in 1 .. size /\ n \in 0 .. size /\ n <= ready
    BY <1>1, <1>2
  <1>4. PICK r \in 0 .. size - 1 : r = Move(size, b.rp, n)
    BY <1>1, <1>3, MoveRange
  <1>0. PICK d : d = Moved(size, b, n)
    OBVIOUS
  <1>5. d.size = size /\ d.rp = r /\ d.wp = b.wp /\ d.buff = b.buff /\ ~d.bIsFull /\ IsBuff(d, size)
    BY <1>4, <1>0 DEF IsBuff, Moved
  <1>6. BytesReady(d) = ready - n
    <2>1. BytesReady(d) = Count(size, r, b.wp)
      BY <1>5, ReadyFree
    <2>2. CASE b.bIsFull
      <3>1. ready = size /\ b.wp = b.rp
        BY <1>1, <1>2, <2>2, ReadyFree
      <3> QED BY <1>1, <1>3, <1>4, <2>1, <3>1, CountOut
    <2>3. CASE ~b.bIsFull
      <3>1. ready = Count(size, b.rp, b.wp)
        BY <1>2, <2>3, ReadyFree
      <3> QED BY <1>1, <1>3, <1>4, <2>1, <3>1, CountOut
    <2> QED BY <1>1, <2>2, <2>3
  <1>7. ASSUME NEW i \in 0 .. ready - n - 1
        PROVE  d.buff[Cell(d, i)] = b.buff[Cell(b, n + i)]
    <2>1. i \in 0 .. size /\ n + i \in 0 .. size /\ n + i <= size
      BY <1>1, <1>2, <1>3
    <2>2. Cell(d, i) = Move(size, r, i) /\ Cell(b, n + i) = Move(size, b.rp, n + i)
      BY <1>5, <2>1, CellPlace
    <2> QED BY <1>1, <1>3, <1>4, <1>5, <2>1, <2>2, MoveTwice
  <1> QED BY <1>2, <1>0, <1>5, <1>6, <1>7

\* A read of n bytes takes n bytes from the front.
LEMMA RestLemma ==
    ASSUME NEW size, Narrow(size), NEW b, IsBuff(b, size), NEW n \in 0 .. BytesReady(b)
    PROVE  /\ IsBuff(Rest(b, n), size)
           /\ BytesReady(Rest(b, n)) = BytesReady(b) - n
           /\ \A i \in 0 .. BytesReady(b) - n - 1 :
                Rest(b, n).buff[Cell(Rest(b, n), i)] = b.buff[Cell(b, n + i)]
  <1>1. size \in Nat \ {0} /\ b.rp \in 0 .. size - 1 /\ BytesReady(b) \in 0 .. size
    BY BuffFields, ReadyFree
  <1>2. CASE n = 0
    <2>1. Rest(b, n) = b
      BY <1>2 DEF Rest
    <2> QED BY <1>1, <1>2, <2>1
  <1>3. CASE n > 0
    <2>1. n \in 1 .. size /\ n \in 1 .. BytesReady(b)
      BY <1>1, <1>3
    <2>2. PICK s : s = First(size, b.rp, n)
      OBVIOUS
    <2>3. UpToEnd(b, b.rp, n) = s /\ Wrap(b, b.rp + s) = Move(size, b.rp, s) /\ ToSize8(s) = s
      BY <1>1, <2>1, <2>2, RingArithmetic
    <2>4. Move(size, b.rp, s) + (n - s) = Move(size, b.rp, n)
      BY <1>1, <2>1, <2>2, MoveParts
    <2>5. s \in Nat /\ Move(size, b.rp, s) \in Nat
      <3>1. s \in 1 .. n /\ Move(size, b.rp, s) \in 0 .. size - 1
        BY <1>1, <2>1, <2>2, MoveParts
      <3> QED BY <1>1, <2>1, <3>1
    <2>6. AfterRead(b, n, s) = Move(size, b.rp, n)
      BY <2>1, <2>3, <2>4, <2>5 DEF AfterRead
    <2>7. Rest(b, n) = Moved(size, b, n)
      BY <1>3, <2>3, <2>6 DEF Rest, Moved
    <2> QED BY <2>1, <2>7, MovedOn
  <1> QED BY <1>1, <1>2, <1>3

\* Discarding count bytes that are there takes that many from the front.
LEMMA DiscardLemma ==
    ASSUME NEW size, Narrow(size), NEW b, IsBuff(b, size), NEW count \in 0 .. BytesReady(b)
    PROVE  /\ IsBuff(DiscardBytes(b, count), size)
           /\ BytesReady(DiscardBytes(b, count)) = BytesReady(b) - count
           /\ \A i \in 0 .. BytesReady(b) - count - 1 :
                DiscardBytes(b, count).buff[Cell(DiscardBytes(b, count), i)]
                    = b.buff[Cell(b, count + i)]
  <1>1. size \in Nat \ {0} /\ b.rp \in 0 .. size - 1 /\ BytesReady(b) \in 0 .. size
    BY BuffFields, ReadyFree
  <1>2. Min2(count, BytesReady(b)) = count
    BY <1>1 DEF Min2
  <1>3. CASE count = 0
    <2>1. DiscardBytes(b, count) = b
      BY <1>2, <1>3 DEF DiscardBytes
    <2> QED BY <1>1, <1>3, <2>1
  <1>4. CASE count > 0
    <2>1. count \in 0 .. size /\ count \in 1 .. BytesReady(b)
      BY <1>1, <1>4
    <2>2. Cell(b, count) = Move(size, b.rp, count)
      BY <2>1, CellPlace
    <2>3. DiscardBytes(b, count) = Moved(size, b, count)
      BY <1>2, <1>4, <2>1, <2>2 DEF DiscardBytes, Moved
    <2> QED BY <2>1, <2>3, MovedOn
  <1> QED BY <1>1, <1>3, <1>4

-----------------------------------------------------------------------------
(* The same in terms of the numbers of the bytes.                          *)

\* Bytes that continue the numbering leave it gapless.
LEMMA HoldsPut ==
    ASSUME NEW size, Narrow(size), NEW b, IsBuff(b, size), NEW k \in Nat, Holds(b, k),
           NEW data \in Seq(Nat), Len(data) <= BytesFree(b),
           \A i \in 1 .. Len(data) : data[i] = k + BytesReady(b) + i
    PROVE  Holds(Put(b, data), k)
  <1>1. PICK ready \in Nat : ready = BytesReady(b)
    BY BuffFields, ReadyFree
  <1>2. PICK p : p = Put(b, data)
    OBVIOUS
  <1>3. /\ BytesReady(p) = ready + Len(data)
        /\ \A i \in 0 .. ready + Len(data) - 1 :
             p.buff[Cell(p, i)] = IF i < ready THEN b.buff[Cell(b, i)] ELSE data[i - ready + 1]
    BY <1>1, <1>2, PutLemma
  <1>4. ASSUME NEW i \in 0 .. BytesReady(p) - 1 PROVE p.buff[Cell(p, i)] = k + i + 1
    <2>1. CASE i < ready
      <3>1. i \in 0 .. BytesReady(b) - 1
        BY <1>1, <2>1
      <3>2. b.buff[Cell(b, i)] = k + i + 1
        BY <3>1 DEF Holds
      <3> QED BY <1>3, <2>1, <3>2
    <2>2. CASE i >= ready
      <3>1. PICK j \in 1 .. Len(data) : j = i - ready + 1
        BY <1>1, <1>3, <2>2
      <3>2. data[j] = k + ready + j
        BY <1>1, <3>1
      <3>3. k + ready + j = k + i + 1
        BY <1>1, <3>1
      <3>4. i \in 0 .. ready + Len(data) - 1 /\ ~(i < ready)
        BY <1>1, <1>3, <2>2
      <3>5. p.buff[Cell(p, i)] = data[j]
        BY <1>3, <3>1, <3>4
      <3> QED BY <3>2, <3>3, <3>5
    <2> QED BY <1>1, <1>3, <2>1, <2>2
  <1> QED BY <1>2, <1>4 DEF Holds

\* What a read returns follows the k bytes read before it.
LEMMA HoldsTaken ==
    ASSUME NEW size, Narrow(size), NEW b, IsBuff(b, size), NEW k \in Nat, Holds(b, k),
           NEW n \in 0 .. BytesReady(b)
    PROVE  /\ Taken(b, n) = [i \in 1 .. n |-> k + i]
           /\ Peek(b, n) = [i \in 1 .. n |-> k + i]
  <1>1. ASSUME NEW i \in 1 .. n PROVE b.buff[Cell(b, i - 1)] = k + i
    <2>1. i - 1 \in 0 .. BytesReady(b) - 1
      BY BuffFields, ReadyFree
    <2>2. b.buff[Cell(b, i - 1)] = k + (i - 1) + 1
      BY <2>1 DEF Holds
    <2> QED BY <2>2
  <1>2. Peek(b, n) = [i \in 1 .. n |-> k + i]
    BY <1>1 DEF Peek
  <1> QED BY <1>2, TakenLemma

\* What a buffer holds when n bytes are gone from the front.
LEMMA HoldsMoved ==
    ASSUME NEW b, NEW k \in Nat, Holds(b, k), BytesReady(b) \in Nat,
           NEW n \in 0 .. BytesReady(b),
           NEW d, BytesReady(d) = BytesReady(b) - n,
           \A i \in 0 .. BytesReady(b) - n - 1 : d.buff[Cell(d, i)] = b.buff[Cell(b, n + i)]
    PROVE  Holds(d, k + n)
  <1>1. ASSUME NEW i \in 0 .. BytesReady(d) - 1
        PROVE  d.buff[Cell(d, i)] = k + n + i + 1
    <2>1. n + i \in 0 .. BytesReady(b) - 1 /\ i \in 0 .. BytesReady(b) - n - 1
      OBVIOUS
    <2>2. b.buff[Cell(b, n + i)] = k + (n + i) + 1
      BY <2>1 DEF Holds
    <2> QED BY <2>1, <2>2
  <1> QED BY <1>1 DEF Holds

=============================================================================

---------------------------- MODULE PipeBuffer ----------------------------
(***************************************************************************)
(* The circular buffer of a pipe (FMSTR_PIPE_BUFF of freemaster_pipes.c)   *)
(* as a record with the source's fields, and the routines that move bytes  *)
(* through it.  wp = rp means "empty" or "full" and only bIsFull tells     *)
(* which.                                                                  *)
(*                                                                         *)
(* The buffer only moves bytes, so a byte is any positive number and       *)
(* NoByte is what lies in memory that no write has reached.  Lengths are   *)
(* bytes, one byte per address (FMSTR_CFG_BUS_WIDTH = 1, as on every       *)
(* platform of the repository).                                            *)
(***************************************************************************)
EXTENDS Integers, Sequences

CONSTANT Size8  \* number of values of FMSTR_SIZE8: 256 where it is an unsigned char

ASSUME Size8Assumption == Size8 \in Nat \ {0}

NoByte == 0

Min2(a, b) == IF a <= b THEN a ELSE b

\* The cast (FMSTR_SIZE8)n.
ToSize8(n) == IF n < Size8 THEN n ELSE n % Size8

\* The cast (FMSTR_PIPE_SIZE)n, an unsigned short.
ToPipeSize(n) == IF 0 <= n /\ n < 65536 THEN n ELSE n % 65536

\* A buffer as FMSTR_PipeOpen leaves it.
EmptyBuff(size) ==
    [buff |-> [i \in 0 .. size - 1 |-> NoByte], size |-> size,
     wp |-> 0, rp |-> 0, bIsFull |-> FALSE]

BytesFree(b) ==
    IF b.bIsFull THEN 0
    ELSE IF b.wp < b.rp THEN b.rp - b.wp
    ELSE ToPipeSize(b.size - b.wp + b.rp)

\* Mutant: the flag that tells full from empty is not consulted.
BytesReadyByPointers(b) == IF b.wp >= b.rp THEN b.wp - b.rp ELSE ToPipeSize(b.size - b.rp + b.wp)

BytesReady(b) ==
    IF b.bIsFull THEN b.size
    ELSE IF b.wp >= b.rp THEN b.wp - b.rp
    ELSE ToPipeSize(b.size - b.rp + b.wp)

\* Mutant: the pointer is left one behind the end.
WrapOneLate(b, p) == IF p > b.size THEN 0 ELSE p

\* A pointer that has reached the end of the buffer starts over.
Wrap(b, p) == IF p >= b.size THEN 0 ELSE p

\* The cell i places after rp, for i up to the size.
Cell(b, i) == IF b.rp + i < b.size THEN b.rp + i ELSE b.rp + i - b.size

\* How much of n bytes fits between a pointer and the end of the buffer.
UpToEnd(b, p, n) == Min2(ToPipeSize(b.size - p), n)

\* The cells after two copies out of data: its first n1 bytes to wp, and n2
\* bytes of it from the offset s to w1.
Written(b, data, n1, s, w1, n2) ==
    [i \in 0 .. b.size - 1 |->
        IF w1 <= i /\ i < w1 + n2
        THEN IF s + i - w1 < Len(data) THEN data[s + i - w1 + 1] ELSE NoByte
        ELSE IF b.wp <= i /\ i < b.wp + n1 THEN data[i - b.wp + 1]
        ELSE b.buff[i]]

\* Copy data in at wp, its first s bytes up to the end of the buffer and the
\* rest at its start.  The lengths of both copies, and what the first one
\* leaves to be copied, pass through FMSTR_SIZE8; wp moves by the full length.
CopiedIn(b, data, s) ==
    LET w1   == Wrap(b, b.wp + s)
        rest == Len(data) - ToSize8(s)
    IN  [b EXCEPT
            !.buff = Written(b, data, ToSize8(s), s, w1, ToSize8(rest)),
            !.wp = w1 + rest,
            !.bIsFull = @ \/ w1 + rest = b.rp]

Put(b, data) ==
    IF Len(data) = 0 THEN b ELSE CopiedIn(b, data, UpToEnd(b, b.wp, Len(data)))

\* Copy n bytes out at rp, which does not move.
Peek(b, n) == [i \in 1 .. n |-> b.buff[Cell(b, i - 1)]]

\* A read of n bytes, with the same two copies and casts: what the caller's
\* memory holds afterwards.
CopiedOut(b, n, s) ==
    LET r1 == Wrap(b, b.rp + s)
    IN  [j \in 1 .. n |->
            IF j <= ToSize8(s) THEN b.buff[b.rp + j - 1]
            ELSE IF s < j /\ j <= s + ToSize8(n - ToSize8(s)) /\ r1 + j - s - 1 < b.size
            THEN b.buff[r1 + j - s - 1]
            ELSE NoByte]

Taken(b, n) == CopiedOut(b, n, UpToEnd(b, b.rp, n))

\* Where such a read leaves rp.
AfterRead(b, n, s) == Wrap(b, b.rp + s) + n - ToSize8(s)

\* The buffer after a read of n bytes.
Rest(b, n) ==
    IF n = 0 THEN b
    ELSE [b EXCEPT !.rp = AfterRead(b, n, UpToEnd(b, b.rp, n)), !.bIsFull = FALSE]

\* Mutant: discarding leaves the buffer marked full.
DiscardStillFull(b, count) == [b EXCEPT !.rp = Cell(b, Min2(count, BytesReady(b)))]

\* Move rp over count bytes, or over all that are ready if there are fewer.
DiscardBytes(b, count) ==
    LET n == Min2(count, BytesReady(b))
    IN  IF n = 0 THEN b ELSE [b EXCEPT !.rp = Cell(b, n), !.bIsFull = FALSE]

\* The length a read or write moves: no more than there is, in whole units.
Whole(len, avail, granularity) ==
    LET n == Min2(len, avail)
    IN  IF granularity > 1 THEN (n \div granularity) * granularity ELSE n
=============================================================================

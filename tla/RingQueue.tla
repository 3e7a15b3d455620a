----------------------------- MODULE RingQueue -----------------------------
(***************************************************************************)
(* The ring buffer of freemaster_utils.c (FMSTR_RING_BUFFER): an array and *)
(* two indices.  It has no count and no full mark: one cell stays free, so *)
(* that equal indices mean that the queue is empty.                        *)
(***************************************************************************)
EXTENDS Naturals, Sequences

CONSTANT RingSize  \* FMSTR_COMM_RQUEUE_SIZE

ASSUME RingAssumption == RingSize \in Nat \ {0, 1}

\* The index after i; both routines compare with the end before they store.
NextCell(i) == IF i + 1 >= RingSize THEN 0 ELSE i + 1

RingBuffCreate(blank) ==
    [cell |-> [i \in 0 .. RingSize - 1 |-> blank], rp |-> 0, wp |-> 0]

RingBuffHasData(q) == q.rp # q.wp

RingBuffIsFull(q) == NextCell(q.wp) = q.rp

\* A character that finds no space is dropped.
RingBuffPut(q, c) ==
    IF RingBuffIsFull(q) THEN q
    ELSE [q EXCEPT !.cell[q.wp] = c, !.wp = NextCell(@)]

RingBuffHead(q) == q.cell[q.rp]

RingBuffGet(q) == IF RingBuffHasData(q) THEN [q EXCEPT !.rp = NextCell(@)] ELSE q

\* What is in the queue, oldest first.
RingContents(q) ==
    [i \in 1 .. (q.wp + RingSize - q.rp) % RingSize |-> q.cell[(q.rp + i - 1) % RingSize]]
=============================================================================

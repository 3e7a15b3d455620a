------------------------------ MODULE MemCopy ------------------------------
(***************************************************************************)
(* Copying between the communication buffer and the memory of the          *)
(* application (freemaster_utils.c).  The application and its interrupts   *)
(* run while a block is copied, so what counts is which operations on      *)
(* memory a copy consists of: each is an access, an address and a width,   *)
(* and moves as many bytes as it is wide at once.  The buffer's side needs *)
(* no alignment and is accessed byte by byte.                              *)
(***************************************************************************)
EXTENDS Integers, Sequences, SequencesExt

CONSTANT MaxSize  \* FMSTR_MEMCPY_MAX_SIZE, the widest operation

ASSUME MemCopyAssumption == MaxSize \in {1, 2, 4, 8}

Cells(access) == access.addr .. access.addr + access.width - 1

\* One operand, read with a single operation.
CopySrcAligned(memory, access) == [i \in 1 .. access.width |-> memory[access.addr + i - 1]]

\* One operand, written with a single operation: the bytes whose number is in
\* the mask are replaced, the others are put back as they were read.
CopyDstAligned(memory, access, bytes) ==
    [c \in DOMAIN memory |->
        IF c \in Cells(access) THEN bytes[c - access.addr + 1] ELSE memory[c]]

CopyMaskedDstAligned(read, mask, bytes) ==
    [i \in DOMAIN read |-> IF i \in mask THEN bytes[i] ELSE read[i]]
-----------------------------------------------------------------------------
(* What is left of a block to copy, and the accesses made so far.          *)

Block(addr, size) == [addr |-> addr, size |-> size, accesses |-> <<>>]

\* Mutant: the odd halfword is recognized by the alignment of the odd byte.
TestMisalignedLess(addr, n) == addr % (IF n > 2 THEN n \div 2 ELSE n) # 0

TestMisaligned(addr, n) == addr % n # 0

\* n operands of a width.
Take(b, width, n) ==
    [addr |-> b.addr + n * width, size |-> b.size - n * width,
     accesses |-> b.accesses \o [i \in 1 .. n |-> [addr |-> b.addr + (i - 1) * width, width |-> width]]]

\* The odd byte, halfword and word that make the rest of the block aligned.
OddOperand(b, width) ==
    IF 2 * width <= MaxSize /\ TestMisaligned(b.addr, 2 * width) /\ b.size >= width
    THEN Take(b, width, 1) ELSE b

OddOperands(b) == OddOperand(OddOperand(OddOperand(b, 1), 2), 4)

\* As many operands of a width as there are.
AlignedOperands(b, width) == IF width <= MaxSize THEN Take(b, width, b.size \div width) ELSE b

\* The rest, with the widest operations first.
MemCpySrcAligned(b) ==
    AlignedOperands(AlignedOperands(AlignedOperands(AlignedOperands(b, 8), 4), 2), 1)

\* Writing goes through memory like reading, with a mask or without.
MemCpyDstAligned(b) == MemCpySrcAligned(b)
MemCpyMaskedDstAligned(b) == MemCpySrcAligned(b)

MemCpyFrom(addr, size) == MemCpySrcAligned(OddOperands(Block(addr, size))).accesses
MemCpyTo(addr, size) == MemCpyDstAligned(OddOperands(Block(addr, size))).accesses
MemCpyToMasked(addr, size) == MemCpyMaskedDstAligned(OddOperands(Block(addr, size))).accesses

\* FMSTR_GetAlignmentCorrection, for a power of two: what address n lacks.
GetAlignmentCorrection(addr, n) == (n - (addr % n)) % n
=============================================================================

-------------------------------- MODULE Sha1 --------------------------------
(***************************************************************************)
(* SHA-1 of data that comes piece by piece (freemaster_sha.c).  What the   *)
(* transformation computes is left out: the state is the sequence of the   *)
(* blocks it was given, and the hash is known when the blocks are.         *)
(***************************************************************************)
EXTENDS Integers, Sequences

CONSTANTS
    BlockSize,  \* 64
    LengthSize  \* 8, the bytes at the end of the last block for the length

ASSUME Sha1Assumption == BlockSize \in Nat \ {0} /\ LengthSize \in 1 .. BlockSize

\* FMSTR_Sha1Init.  The buffer is not cleared.
Sha1Init(garbage) == [data |-> garbage, datalen |-> 0, bitlen |-> 0, blocks |-> <<>>]

Transform(ctx) == [ctx EXCEPT !.blocks = Append(@, ctx.data)]

AddByte(ctx, b) ==
    LET put == [ctx EXCEPT !.data[ctx.datalen + 1] = b, !.datalen = @ + 1]
    IN  IF put.datalen = BlockSize
        THEN [Transform(put) EXCEPT !.bitlen = @ + 8 * BlockSize, !.datalen = 0] ELSE put

Sha1Update(ctx, data) ==
    LET after[i \in 0 .. Len(data)] == IF i = 0 THEN ctx ELSE AddByte(after[i - 1], data[i])
    IN  after[Len(data)]

\* Mutant: one byte more is taken to fit in front of the length.
PaddedToo(ctx) ==
    LET end == IF ctx.datalen <= BlockSize - LengthSize THEN BlockSize - LengthSize ELSE BlockSize
        pad == [i \in 1 .. BlockSize |->
                    IF i <= ctx.datalen \/ i > end THEN ctx.data[i]
                    ELSE IF i = ctx.datalen + 1 THEN 128 ELSE 0]
    IN  IF end < BlockSize THEN [ctx EXCEPT !.data = pad]
        ELSE [Transform([ctx EXCEPT !.data = pad]) EXCEPT
                !.data = [i \in 1 .. BlockSize |-> IF i <= BlockSize - LengthSize THEN 0 ELSE pad[i]]]

\* The end mark and zeros up to the length; a block of its own when there is no
\* room for both.
Padded(ctx) ==
    LET end == IF ctx.datalen < BlockSize - LengthSize THEN BlockSize - LengthSize ELSE BlockSize
        pad == [i \in 1 .. BlockSize |->
                    IF i <= ctx.datalen \/ i > end THEN ctx.data[i]
                    ELSE IF i = ctx.datalen + 1 THEN 128 ELSE 0]
    IN  IF end < BlockSize THEN [ctx EXCEPT !.data = pad]
        ELSE [Transform([ctx EXCEPT !.data = pad]) EXCEPT
                !.data = [i \in 1 .. BlockSize |-> IF i <= BlockSize - LengthSize THEN 0 ELSE pad[i]]]

\* The length, the most significant byte first.
BigEndian(n, size) == [i \in 1 .. size |-> (n \div 256^(size - i)) % 256]

\* FMSTR_Sha1Final: the hash is that of the blocks.
Sha1Final(ctx) ==
    LET bitlen == ctx.bitlen + 8 * ctx.datalen
    IN  Transform([Padded(ctx) EXCEPT !.bitlen = bitlen,
                                      !.data = SubSeq(@, 1, BlockSize - LengthSize) \o BigEndian(bitlen, LengthSize)])
=============================================================================

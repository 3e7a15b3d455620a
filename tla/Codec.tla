------------------------------- MODULE Codec -------------------------------
(***************************************************************************)
(* How numbers and strings are laid out in the communication buffer, and   *)
(* the checksums over it (freemaster_utils.c).  Numbers are encoded as     *)
(* LEB128: seven bits to a byte, the least significant first, the eighth   *)
(* says that more follow.  The code works on the bytes of the variable, so *)
(* that a number of any width can be coded; here the bytes of a number are *)
(* listed from the least significant one, whatever the processor's order.  *)
(* Bits put together with | are disjoint, and added.                       *)
(***************************************************************************)
EXTENDS Integers, Sequences, SequencesExt, Bitwise

Byte == 0 .. 255

\* Where in the variable the next bits go.
Cursor(size) == [result |-> [i \in 1 .. size |-> 0], at |-> 1, shift |-> 0, size |-> size]

\* Seven bits: what does not fit into the byte goes into the next one, if there
\* is one, and bits behind the last are dropped.
PutGroup(c, v) ==
    LET shift == c.shift + 7
        low   == [c.result EXCEPT ![c.at] = @ + ((v * 2^c.shift) % 256)]
        carry == IF c.size > 1 /\ shift > 8
                 THEN [low EXCEPT ![c.at + 1] = @ + (v \div 2^(15 - shift))] ELSE low
    IN  IF c.size = 0 THEN c
        ELSE IF shift < 8 THEN [c EXCEPT !.result = low, !.shift = shift]
        ELSE [result |-> carry, at |-> c.at + 1, shift |-> shift - 8, size |-> c.size - 1]

\* The sign fills what is left.
FillSign(c) ==
    [i \in DOMAIN c.result |->
        IF c.size = 0 \/ i < c.at THEN c.result[i]
        ELSE IF i = c.at THEN c.result[i] + ((255 * 2^c.shift) % 256) ELSE 255]

\* The length of the LEB at the beginning of a buffer, and what is behind it.
LebLength(in) == CHOOSE n \in DOMAIN in : in[n] < 128 /\ \A m \in 1 .. n - 1 : in[m] >= 128
SkipInBufferLeb(in) == SubSeq(in, LebLength(in) + 1, Len(in))

LebDecode(in, size, sleb) ==
    LET n == LebLength(in)
        c == FoldLeft(LAMBDA d, b : PutGroup(d, b % 128), Cursor(size), SubSeq(in, 1, n))
    IN  IF sleb /\ in[n] % 128 >= 64 THEN FillSign(c) ELSE c.result

UlebDecode(in, size) == LebDecode(in, size, FALSE)
SlebDecode(in, size) == LebDecode(in, size, TRUE)

\* The most significant zeros are not encoded.
Significant(bytes) ==
    LET used == {i \in DOMAIN bytes : bytes[i] # 0}
    IN  IF used = {} THEN 0 ELSE CHOOSE i \in used : \A j \in used : j <= i

\* The byte in progress is complete when bits are left for another one.
Flush(e, v, more) ==
    IF more \/ v # 0 THEN [e EXCEPT !.out = Append(@, e.byte + 128), !.byte = v % 128] ELSE e

\* Mutant: what the seventh bit of shift leaves over is forgotten.
EncodeByteNoCarry(e, v, more) ==
    LET low == Flush([e EXCEPT !.byte = @ + ((v * 2^e.shift) % 128)], v \div 2^(7 - e.shift), more)
    IN  [low EXCEPT !.shift = IF e.shift = 7 THEN 1 ELSE e.shift + 1]

EncodeByte(e, v, more) ==
    LET low  == Flush([e EXCEPT !.byte = @ + ((v * 2^e.shift) % 128)], v \div 2^(7 - e.shift), more)
        high == Flush(low, v \div 2^(14 - e.shift), more)
    IN  IF e.shift = 7 THEN [high EXCEPT !.shift = 1] ELSE [low EXCEPT !.shift = e.shift + 1]

UlebEncode(bytes) ==
    LET n == Significant(bytes)
        e == FoldLeft(LAMBDA d, i : EncodeByte(d, bytes[i], i < n), [out |-> <<>>, byte |-> 0, shift |-> 0],
                      [i \in 1 .. n |-> i])
    IN  Append(e.out, e.byte)
-----------------------------------------------------------------------------
AddressToBuffer(addr) == UlebEncode(addr)
SizeToBuffer(size) == UlebEncode(size)
ULebToBuffer(num) == UlebEncode(num)
AddressFromBuffer(in, width) == UlebDecode(in, width)
SizeFromBuffer(in, width) == UlebDecode(in, width)
ULebFromBuffer(in) == UlebDecode(in, 4)
IndexFromBuffer(in, width) == SlebDecode(in, width)

ValueToBuffer16BE(bytes) == <<bytes[2], bytes[1]>>
ValueFromBuffer16BE(in) == <<in[2], in[1]>>

\* A string is sent with its 0.
StringCopyToBuffer(string) == Append(string, 0)
StringLength(in) == CHOOSE n \in DOMAIN in : in[n] = 0 /\ \A m \in 1 .. n - 1 : in[m] # 0

\* ASCII only, and cut so that the 0 still fits.
StringFromBuffer(in, maxSize) ==
    LET ascii == SelectSeq(SubSeq(in, 1, StringLength(in) - 1), LAMBDA b : b < 128)
    IN  SubSeq(ascii, 1, Min({maxSize - 1, Len(ascii)}))

\* -1, 0 or 1; a string ends with a 0 of its own.
Compare(c1, c2) == IF c1 < c2 THEN -1 ELSE IF c1 > c2 THEN 1 ELSE 0

MemCmp(p1, p2, size) ==
    LET differs == {i \in 1 .. size : p1[i] # p2[i]}
        first   == CHOOSE i \in differs : \A j \in differs : i <= j
    IN  IF differs = {} THEN 0 ELSE Compare(p1[first], p2[first])

StrCmp(s1, s2) == MemCmp(Append(s1, 0), Append(s2, 0), Min({Len(s1), Len(s2)}) + 1)
-----------------------------------------------------------------------------
\* One bit of a CRC with the polynomial 0x07.
CrcShift(crc) == IF crc >= 128 THEN (2 * crc - 256) ^^ 7 ELSE 2 * crc

\* All bits of a byte.
Crc8Bits == [crc \in Byte |-> FoldLeft(LAMBDA c, x : CrcShift(c), crc, [x \in 1 .. 8 |-> x])]

Crc8AddByte(crc, data) == Crc8Bits[crc ^^ data]

Crc8Init == 0
Crc8(bytes) == FoldLeft(Crc8AddByte, Crc8Init, bytes)
=============================================================================

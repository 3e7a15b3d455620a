------------------------------ MODULE Message ------------------------------
(***************************************************************************)
(* What is sent arrives: a message is put together of fields, closed with  *)
(* a checksum, perhaps damaged on its way, checked and taken apart again.  *)
(***************************************************************************)
EXTENDS Codec

CONSTANTS
    FieldLists,  \* the fields of the messages: [kind, value, size]
    Damaged      \* those that may be damaged

VARIABLES
    pc,      \* what is done
    fields,  \* the fields of the message
    count,   \* how many of them were put, then taken
    frame,   \* the bytes put, then those still to be taken
    taken,   \* the values taken
    damage   \* the message was damaged

vars == <<pc, fields, count, frame, taken, damage>>

\* A signed number, as a host encodes it, and its bytes.
RECURSIVE SlebOf(_)
SlebOf(n) == IF n \in -64 .. 63 THEN <<n % 128>> ELSE <<128 + (n % 128)>> \o SlebOf(n \div 128)
BytesOf(n, size) == [i \in 1 .. size |-> (n \div 256^(i - 1)) % 256]

Encoded(f) ==
    CASE f.kind = "address" -> AddressToBuffer(f.value)
      [] f.kind = "size"    -> SizeToBuffer(f.value)
      [] f.kind = "number"  -> ULebToBuffer(f.value)
      [] f.kind = "index"   -> SlebOf(f.value)
      [] f.kind = "word"    -> ValueToBuffer16BE(f.value)
      [] f.kind = "name"    -> StringCopyToBuffer(f.value)

Decoded(f, in) ==
    CASE f.kind = "address" -> AddressFromBuffer(in, f.size)
      [] f.kind = "size"    -> SizeFromBuffer(in, f.size)
      [] f.kind = "number"  -> ULebFromBuffer(in)
      [] f.kind = "index"   -> IndexFromBuffer(in, f.size)
      [] f.kind = "word"    -> ValueFromBuffer16BE(in)
      [] f.kind = "name"    -> StringFromBuffer(in, f.size)

Behind(f, in) ==
    CASE f.kind = "word" -> SubSeq(in, 3, Len(in))
      [] f.kind = "name" -> SubSeq(in, StringLength(in) + 1, Len(in))
      [] OTHER -> SkipInBufferLeb(in)

Init ==
    /\ pc = "put"
    /\ fields \in FieldLists
    /\ count = 0 /\ frame = <<>> /\ taken = <<>> /\ damage = FALSE

Put ==
    /\ pc = "put" /\ count < Len(fields)
    /\ count' = count + 1
    /\ frame' = frame \o Encoded(fields[count + 1])
    /\ UNCHANGED <<pc, fields, taken, damage>>

Close ==
    /\ pc = "put" /\ count = Len(fields)
    /\ pc' = "sent"
    /\ frame' = Append(frame, Crc8(frame))
    /\ UNCHANGED <<fields, count, taken, damage>>

\* A burst of at most eight bits, anywhere.
Damage(at, shift, bits) ==
    LET word == bits * 2^(8 - shift)
    IN  /\ pc = "sent" /\ ~damage /\ fields \in Damaged
        /\ at + 1 \in DOMAIN frame \/ (at \in DOMAIN frame /\ word % 256 = 0)
        /\ frame' = [i \in DOMAIN frame |->
                        CASE i = at -> frame[i] ^^ (word \div 256)
                          [] i = at + 1 -> frame[i] ^^ (word % 256)
                          [] OTHER -> frame[i]]
        /\ damage' = TRUE
        /\ UNCHANGED <<pc, fields, count, taken>>

Check ==
    /\ pc = "sent"
    /\ pc' = IF Crc8(Front(frame)) = Last(frame) THEN "take" ELSE "rejected"
    /\ frame' = Front(frame)
    /\ count' = 0
    /\ UNCHANGED <<fields, taken, damage>>

Take ==
    /\ pc = "take" /\ count < Len(fields)
    /\ taken' = Append(taken, Decoded(fields[count + 1], frame))
    /\ frame' = Behind(fields[count + 1], frame)
    /\ count' = count + 1
    /\ UNCHANGED <<pc, fields, damage>>

Next ==
    \/ Put \/ Close \/ Check \/ Take
    \/ \E at \in 1 .. Len(frame), shift \in 0 .. 7, bits \in 128 .. 255 : Damage(at, shift, bits)

Spec == Init /\ [][Next]_vars
-----------------------------------------------------------------------------
\* What a field is for who receives it: a variable too narrow keeps the low
\* bytes, a wide one is filled with zeros or the sign, a name is cut.
Meaning(f) ==
    CASE f.kind \in {"address", "size"} ->
            [i \in 1 .. f.size |-> IF i \in DOMAIN f.value THEN f.value[i] ELSE 0]
      [] f.kind = "index" -> BytesOf(f.value, f.size)
      [] f.kind = "name" -> LET ascii == SelectSeq(f.value, LAMBDA b : b < 128)
                            IN  [i \in 1 .. Min({f.size - 1, Len(ascii)}) |-> ascii[i]]
      [] OTHER -> f.value

\* A message that is accepted is the one that was sent: its fields, taken one
\* after the other, have the values they were given, none runs into the next,
\* and nothing is left over; a burst of up to eight bits is always noticed.
FieldsComeBack ==
    pc = "take" =>
        /\ ~damage
        /\ \A i \in 1 .. count : MemCmp(taken[i], Meaning(fields[i]), Len(taken[i])) = 0
        /\ \A i \in 1 .. count : StrCmp(taken[i], Meaning(fields[i])) = 0
        /\ count = Len(fields) => frame = <<>>
=============================================================================

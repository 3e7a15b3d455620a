----------------------------- MODULE MCMessage -----------------------------
(***************************************************************************)
(* Numbers of two, four and eight bytes of the values at which carries,    *)
(* signs and ends of groups happen; or digests, one after the other.       *)
(***************************************************************************)
EXTENDS Message, Digest

\* No message: digests are computed.
NoMessage ==
    /\ pc = "none" /\ fields = <<>> /\ count = 0
    /\ frame = <<>> /\ taken = <<>> /\ damage = FALSE

EitherInit == DigestInit /\ (Init \/ NoMessage)

EitherNext ==
    \/ Next /\ UNCHANGED <<hashed, context>>
    \/ pc = "none" /\ DigestNext /\ UNCHANGED vars

EitherSpec == EitherInit /\ [][EitherNext]_<<vars, hashed, context>>

Field(kind, value, size) == [kind |-> kind, value |-> value, size |-> size]

Halves == {<<a, b>> : a, b \in {0, 1, 63, 64, 127, 128, 255}}
Words == {<<a, b, c, d>> : a, d \in {0, 1, 127, 128, 255}, b, c \in {0, 255}}
Doubles == {<<a, 0, b, 255, c, c, d, e>> : a, b, c, d \in {0, 128}, e \in {0, 1, 127, 128, 255}}
Indices == {-32768, -8193, -8192, -129, -128, -65, -64, -1, 0, 63, 64, 127, 128, 8191, 8192, 32767}

MCFieldLists ==
    {<<Field("address", v, 8), Field("size", h, 2)>> : v \in Doubles, h \in {<<1, 0>>, <<200, 1>>}}
        \cup {<<Field("address", v, w), Field("number", v, 4)>> : v \in Words, w \in {2, 4, 8}}
        \cup {<<Field("index", n, w), Field("size", h, 2), Field("word", h, 2)>> : n \in Indices, w \in {2, 4}, h \in Halves}
        \cup {<<Field("name", n, 4), Field("size", <<3, 0>>, 2)>> :
                  n \in {<<>>, <<65>>, <<65, 66, 67>>, <<65, 66, 67, 68, 69>>, <<65, 200, 66>>, <<200>>}}

MCDamaged ==
    {<<Field("address", <<0, 128, 0, 0>>, 4), Field("number", <<0, 128, 0, 0>>, 4)>>,
     <<Field("name", <<65>>, 4), Field("size", <<3, 0>>, 2)>>}

\* Pieces that fill a block of eight bytes, and go beyond it, in many ways.
MCPieces == {<<1>>, <<128, 0, 0, 2, 3>>, <<4, 5, 6, 7, 8, 9, 128, 10, 11>>}
=============================================================================

---------------------------- MODULE MCPipePorts ----------------------------
(* Two slots for two ports.  The transmit buffer has room for three        *)
(* characters and printfBuff for eight, so that calls end at every kind    *)
(* of item; the formats have every flag, radix and type.                   *)
EXTENDS PipePorts

Lit(n) == [i \in 1 .. n |-> Char("a")]
N(plus, zero, width, letter) == <<Conv(plus, zero, width, "", letter)>>
One(format, type, arg) == [format |-> format, type |-> type, arg |-> arg]
List(format, args) == [format |-> format, args |-> args]

MCOneCalls ==
    {One(N(TRUE, TRUE, 4, "d"), "S8", -128), One(N(TRUE, FALSE, 3, "i"), "S32", 0),
     One(N(FALSE, TRUE, 4, "x"), "S8", -128), One(N(FALSE, TRUE, 1, "X"), "U16", 2560),
     One(N(FALSE, FALSE, 4, "o"), "U8", 160), One(N(FALSE, FALSE, 1, "b"), "U8", 160),
     One(N(FALSE, TRUE, 2, "u"), "S16", -1), One(N(FALSE, FALSE, 2, "c"), "U32", Wide)}

MCListCalls ==
    {List(Lit(9) \o <<Conv(FALSE, FALSE, 0, "hh", "i")>>, <<-1>>),
     List(<<Conv(FALSE, TRUE, 2, "l", "u"), Char("%"), Conv(FALSE, FALSE, 0, "", "s")>>, <<0, <<"b">>>>),
     List(<<Conv(FALSE, TRUE, 6, "h", "x"), Conv(FALSE, FALSE, 0, "", "s"), Char("a")>>, <<10, <<"b", "c">>>>)}

MCStrings == {<<"b", "b">>}

\* The calls keep it, and so do other conversions of every type, radix and flag,
\* as long as they are no wider than printfBuff. What writes behind printfBuff is
\* the numbers with more digits than it holds, and a sign that fits before zeros
\* of no width.
MCTypes == [S8 |-> {-128, -127, -9, -1, 0, 1, 64, 127}, U8 |-> {0, 7, 10, 100, 200, 255},
            S16 |-> {-32768, -256, -10, 0, 9, 32767}, U16 |-> {0, 4095, 10000, 65535},
            S32 |-> {0, 99999, 16777215}, U32 |-> {0, 16, 65536, 999999}]

ASSUME MCConverted ==
    /\ Converted
    /\ \A type \in DOMAIN MCTypes : \A arg \in MCTypes[type] :
       \A plus, zero \in BOOLEAN, width \in 0 .. PrintfSize, letter \in {"d", "u", "x", "X", "o", "b"} :
           LET f      == Conv(plus, zero, width, "", letter)
               r      == OneToA(type, arg, ParseFormat(f))
               signed == letter = "d" /\ (plus \/ arg < 0)
               digits == TextOf(Conv(FALSE, FALSE, 0, "", IF letter = "d" THEN "u" ELSE letter),
                                BytesOfType(type), IF letter = "d" /\ arg < 0 THEN -arg ELSE arg)
           IN  IF \/ Len(digits) > PrintfSize
                  \/ signed /\ zero /\ width = 0 /\ Len(digits) < PrintfSize
               THEN r.overrun
               ELSE Converts(r, f, BytesOfType(type), arg)
============================================================================

----------------------------- MODULE PipePrint -----------------------------
(***************************************************************************)
(* Formatted printing into a pipe (FMSTR_PipePuts, FMSTR_PipePrintf and    *)
(* its variants for one argument).  Characters collect in printfBuff until *)
(* the next conversion or the end of the format flushes them into the      *)
(* transmit buffer; a number is put there least significant digit first,   *)
(* padded, and reversed.  What does not fit ends the call, and what is     *)
(* left in printfBuff goes out at the beginning of a later one.            *)
(*                                                                         *)
(* A format is a sequence of items, each a character or a conversion with  *)
(* its flags, width, size modifier and letter; '%%' is the character '%'.  *)
(* A pipe is a record with the fields tx and print (printfBuff up to       *)
(* printfBPtr); a printed character is a string of length one.  Of a       *)
(* character in tx, only which opening of the pipe wrote it is kept.       *)
(***************************************************************************)
EXTENDS PipeBuffer, SequencesExt

CONSTANT PrintfSize  \* FMSTR_PIPES_PRINTF_BUFF_SIZE, at least 8

Char(c) == [k |-> "char", c |-> c]
Conv(plus, zero, width, size, letter) ==
    [k |-> "conv", plus |-> plus, zero |-> zero, width |-> width, size |-> size, letter |-> letter]

\* A character beyond 0xff, in an argument of more than one byte.
Wide == "wide"

Times(c, n) == [i \in 1 .. n |-> c]

\* Bytes of an integer type and the digits that are printed of it at most.
Digits(bytes, radix) ==
    CASE radix = 0  -> 1
      [] radix = 2  -> 8 * bytes
      [] radix = 8  -> (8 * bytes + 2) \div 3
      [] radix = 10 -> IF bytes = 1 THEN 3 ELSE IF bytes = 2 THEN 5 ELSE 10
      [] radix = 16 -> 2 * bytes

XDigit(d, upperc) ==
    IF d < 10 THEN <<"0", "1", "2", "3", "4", "5", "6", "7", "8", "9">>[d + 1]
    ELSE IF upperc THEN <<"A", "B", "C", "D", "E", "F">>[d - 9]
    ELSE <<"a", "b", "c", "d", "e", "f">>[d - 9]

\* The context a conversion of a format sets up.
ParseFormat(f) ==
    [showsign |-> f.plus, zeroes |-> f.zero, alen |-> f.width,
     dtsize |-> IF f.letter = "c" THEN 1
                ELSE CASE f.size = "hh" -> 1 [] f.size = "h" -> 2 [] f.size \in {"", "l"} -> 4,
     radix |-> CASE f.letter \in {"d", "i", "u"} -> 10
                 [] f.letter \in {"x", "X"} -> 16
                 [] f.letter = "o" -> 8
                 [] f.letter = "b" -> 2
                 [] f.letter \in {"c", "s"} -> 0,
     signedtype |-> f.letter \in {"d", "i"}, upperc |-> f.letter = "X",
     isstring |-> f.letter = "s", negative |-> FALSE]

\* What becomes of a conversion: whether it succeeds, and its text.
Made(ok, text) == [ok |-> ok, text |-> text, overrun |-> FALSE]

\* It writes behind printfBuff, where printfBPtr itself lies: nothing is known
\* of what it returns or leaves there, and calls that do it are not modelled.
Overrun == [ok |-> FALSE, text |-> <<>>, overrun |-> TRUE]

\* What the digits of a number become, and whether they fit.  With a zero flag,
\* no width and a sign to show, alen-- wraps, and the filling runs over the end.
IToAFinalize(digits, ctx) ==
    LET some   == IF digits = <<>> THEN <<"0">> ELSE digits
        last   == CHOOSE n \in 1 .. Len(some) :
                    /\ \A i \in n + 1 .. Len(some) : some[i] = "0"
                    /\ n = 1 \/ some[n] # "0"
        bare   == SubSeq(some, 1, last)
        sign   == IF ctx.signedtype /\ (ctx.showsign \/ ctx.negative)
                  THEN IF ctx.negative THEN <<"-">> ELSE <<"+">>
                  ELSE <<>>
        alen   == Min2(ctx.alen, PrintfSize)
        z      == IF ~ctx.zeroes THEN " "
                  ELSE IF ~ctx.negative THEN "0"
                  ELSE CASE ctx.radix = 2 -> "1" [] ctx.radix = 8 -> "7"
                         [] ctx.radix = 16 -> XDigit(15, ctx.upperc) [] OTHER -> "0"
        fill   == Times(z, alen - Len(bare) - Len(sign))
    IN  IF PrintfSize < Len(bare) + Len(sign) THEN Made(FALSE, <<>>)
        ELSE IF ctx.zeroes /\ alen < Len(sign) THEN Overrun
        ELSE Made(TRUE, Reverse(IF ctx.zeroes THEN bare \o fill \o sign ELSE bare \o sign \o fill))

\* The digits of an unsigned number, the least significant first.
DigitsOf(n, radix, most, upperc) ==
    LET count == CHOOSE k \in 0 .. most : /\ n \div radix^k = 0
                                          /\ k = 0 \/ n \div radix^(k - 1) # 0
    IN  [k \in 1 .. count |-> XDigit((n \div radix^(k - 1)) % radix, upperc)]

\* Unsigned arithmetic wraps at this, or at a larger power of two.
Unsigned == 65536

\* The digits go into the emptied printfBuff if printfBPtr, which is 0, is not
\* beyond FMSTR_PIPES_PRINTF_BUFF_SIZE - most.  That difference is unsigned, so
\* for a buffer shorter than most the check passes too.
PutDigits(digits, most, ctx) ==
    IF 0 > (PrintfSize - most) % Unsigned THEN Made(FALSE, <<>>)
    ELSE IF Len(digits) > PrintfSize THEN Overrun
    ELSE IToAFinalize(digits, ctx)

\* The digits of a number of some bytes, or a character.
DigitsToA(bytes, arg, ctx) ==
    PutDigits(IF ctx.radix # 0 THEN DigitsOf(arg, ctx.radix, Digits(bytes, ctx.radix), ctx.upperc)
              ELSE IF arg = Wide THEN <<".">> ELSE <<arg>>,
              Digits(bytes, ctx.radix), ctx)

U8ToA(arg, ctx)  == DigitsToA(1, arg, ctx)
U16ToA(arg, ctx) == DigitsToA(2, arg, ctx)
U32ToA(arg, ctx) == DigitsToA(4, arg, ctx)

UToA(bytes, arg, ctx) ==
    CASE bytes = 1 -> U8ToA(arg, ctx) [] bytes = 2 -> U16ToA(arg, ctx) [] bytes = 4 -> U32ToA(arg, ctx)

\* A signed number of some bytes: negated if its sign will be shown, and
\* otherwise taken for an unsigned one.
SToA(bytes, arg, ctx) ==
    LET signed == [ctx EXCEPT !.negative = arg < 0]
    IN  UToA(bytes, IF arg >= 0 THEN arg ELSE IF ctx.signedtype THEN -arg ELSE 256^bytes + arg,
             signed)

S8ToA(arg, ctx)  == SToA(1, arg, ctx)
S16ToA(arg, ctx) == SToA(2, arg, ctx)
S32ToA(arg, ctx) == SToA(4, arg, ctx)

\* A call of one of the functions for a single argument.
OneToA(type, arg, ctx) ==
    CASE type = "U8"  -> U8ToA(arg, ctx)  [] type = "S8"  -> S8ToA(arg, ctx)
      [] type = "U16" -> U16ToA(arg, ctx) [] type = "S16" -> S16ToA(arg, ctx)
      [] type = "U32" -> U32ToA(arg, ctx) [] type = "S32" -> S32ToA(arg, ctx)

\* An argument of the variable list, by the size and the sign of its format.
PrintfAny(arg, ctx) ==
    IF ctx.signedtype THEN SToA(ctx.dtsize, arg, ctx) ELSE UToA(ctx.dtsize, arg, ctx)
-----------------------------------------------------------------------------
(* A call in progress: the pipe p, whether all went well so far, the       *)
(* characters that went into the pipe, and how many arguments were taken.  *)

Called(p) == [ok |-> TRUE, p |-> p, put |-> <<>>, args |-> 0]

Bytes(p, text) == [i \in DOMAIN text |-> p.opened]

\* FMSTR_PipeWrite of some characters, granularity 0.
Write(st, text) ==
    LET n == Whole(Len(text), BytesFree(st.p.tx), 0)
    IN  [st EXCEPT !.p.tx = Put(@, Bytes(st.p, SubSeq(text, 1, n))),
                   !.put = @ \o SubSeq(text, 1, n)]

Puts(st, text) ==
    IF Len(text) > BytesFree(st.p.tx) THEN [st EXCEPT !.ok = FALSE] ELSE Write(st, text)

\* Mutant: what was printed is not moved out of the way of what was not.
PrintfFlushAgain(st) ==
    LET done == Len(st.p.print) <= BytesFree(st.p.tx)
    IN  [Write(st, st.p.print) EXCEPT !.ok = done, !.p.print = IF done THEN <<>> ELSE @]

PrintfFlush(st) ==
    LET printed == Min2(Len(st.p.print), BytesFree(st.p.tx))
    IN  [Write(st, st.p.print) EXCEPT
            !.ok = printed = Len(st.p.print),
            !.p.print = SubSeq(@, printed + 1, Len(@))]

PrintfPutc(st, c) ==
    LET flushed == IF Len(st.p.print) >= PrintfSize THEN PrintfFlush(st) ELSE st
    IN  IF ~flushed.ok THEN flushed ELSE [flushed EXCEPT !.p.print = Append(@, c)]

\* A converted number replaces the content of the emptied buffer.
Number(st, text) == [st EXCEPT !.ok = text.ok, !.p.print = text.text]

\* One item of a format whose conversions all print the same argument.
OneItem(st, item, type, arg) ==
    IF ~st.ok THEN st
    ELSE IF item.k = "char" THEN PrintfPutc(st, item.c)
    ELSE LET flushed == PrintfFlush(st)
         IN  IF ~flushed.ok THEN flushed ELSE Number(flushed, OneToA(type, arg, ParseFormat(item)))

\* One item of a format that takes the next of a list of arguments.
NextItem(st, item, args) ==
    IF ~st.ok THEN st
    ELSE IF item.k = "char" THEN PrintfPutc(st, item.c)
    ELSE LET flushed == PrintfFlush(st)
             ctx     == ParseFormat(item)
             taken   == [flushed EXCEPT !.args = @ + 1]
         IN  IF ~flushed.ok THEN flushed
             ELSE IF ctx.isstring THEN Puts(taken, args[taken.args])
             ELSE Number(taken, PrintfAny(args[taken.args], ctx))

Finished(st) == IF st.ok THEN PrintfFlush(st) ELSE st

\* The loop over the items of a format: the call after i of them.
OneItems(p, format, type, arg) ==
    LET after[i \in 0 .. Len(format)] ==
            IF i = 0 THEN Called(p) ELSE OneItem(after[i - 1], format[i], type, arg)
    IN  after

NextItems(p, format, args) ==
    LET after[i \in 0 .. Len(format)] ==
            IF i = 0 THEN Called(p) ELSE NextItem(after[i - 1], format[i], args)
    IN  after

PrintfOne(p, format, type, arg) == Finished(OneItems(p, format, type, arg)[Len(format)])

PrintfV(p, format, args) == Finished(NextItems(p, format, args)[Len(format)])
=============================================================================

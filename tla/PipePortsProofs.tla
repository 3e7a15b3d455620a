-------------------------- MODULE PipePortsProofs --------------------------
(***************************************************************************)
(* The table of pipes, for every number of slots, ports, calls and frames: *)
(* no port has two pipes, a round is completed by the pipe that took part  *)
(* in it, no pipe inherits bytes of another, and formatted text comes out  *)
(* in order.                                                               *)
(***************************************************************************)
EXTENDS PipePorts, PipeBufferProofs, FiniteSetTheorems, SequenceTheorems, WellFoundedInduction

\* The buffers are so small that no cast of a length loses anything.
NarrowPipes == Narrow(RxSize) /\ Narrow(TxSize)

PipeFields == {"port", "rx", "tx", "bExpectOdd", "nLast", "print", "opened"}
CallFields == {"ok", "p", "put", "args"}

\* All that waits in b is v.
Own(b, size, v) ==
    /\ IsBuff(b, size)
    /\ \A i \in 0 .. BytesReady(b) - 1 : b.buff[Cell(b, i)] = v

\* A call on pipe p may have printed in st, but has changed nothing else.
Continues(st, p) ==
    /\ DOMAIN st = CallFields /\ DOMAIN st.p = PipeFields
    /\ st.p.port = p.port /\ st.p.rx = p.rx /\ st.p.opened = p.opened
    /\ st.p.bExpectOdd = p.bExpectOdd /\ st.p.nLast = p.nLast

\* And what it printed belongs to this opening of the pipe.
Writes(st, p) ==
    /\ Continues(st, p)
    /\ NarrowPipes => st.p.print \in Seq(STRING) /\ Own(st.p.tx, TxSize, p.opened)
-----------------------------------------------------------------------------
(* Buffers with one owner.                                                 *)

LEMMA OwnPut ==
    ASSUME NEW size, Narrow(size), NEW b, NEW v \in Nat, Own(b, size, v),
           NEW n \in Nat, n <= BytesFree(b), NEW data, data = [i \in 1 .. n |-> v]
    PROVE  Own(Put(b, data), size, v)
  <1>1. data \in Seq(Nat) /\ Len(data) = n /\ \A i \in 1 .. n : data[i] = v
    OBVIOUS
  <1>2. IsBuff(b, size)
    BY DEF Own
  <1>3. PICK q : q = Put(b, data)
    OBVIOUS
  <1>4. PICK ready \in Nat : ready = BytesReady(b)
    BY <1>2, ReadyFree, BuffFields
  <1>5. /\ IsBuff(q, size) /\ BytesReady(q) = ready + n
        /\ \A i \in 0 .. ready + n - 1 :
             q.buff[Cell(q, i)] = IF i < ready THEN b.buff[Cell(b, i)] ELSE data[i - ready + 1]
    <2>1. data \in Seq(Nat) /\ Len(data) <= BytesFree(b)
      BY <1>1
    <2>2. /\ IsBuff(Put(b, data), size)
          /\ BytesReady(Put(b, data)) = BytesReady(b) + Len(data)
          /\ \A i \in 0 .. BytesReady(b) + Len(data) - 1 :
               Put(b, data).buff[Cell(Put(b, data), i)] =
                   IF i < BytesReady(b) THEN b.buff[Cell(b, i)]
                   ELSE data[i - BytesReady(b) + 1]
      BY <1>2, <2>1, PutLemma
    <2>3. Len(data) = n
      BY <1>1
    <2> QED BY <1>3, <1>4, <2>2, <2>3
  <1>6. ASSUME NEW i \in 0 .. ready + n - 1
        PROVE  q.buff[Cell(q, i)] = v
    <2>1. CASE i < ready
      <3>1. i \in 0 .. BytesReady(b) - 1
        BY <1>4, <2>1
      <3> QED BY <1>5, <2>1, <3>1 DEF Own
    <2>2. CASE ~(i < ready)
      <3>1. i - ready + 1 \in 1 .. n
        BY <2>2
      <3> QED BY <1>1, <1>5, <2>2, <3>1
    <2> QED BY <2>1, <2>2
  <1> QED BY <1>3, <1>5, <1>6 DEF Own

LEMMA OwnRest ==
    ASSUME NEW size, Narrow(size), NEW b, IsBuff(b, size), NEW v
    PROVE  Own(Rest(b, BytesReady(b)), size, v)
  <1>1. BytesReady(b) \in Nat /\ BytesReady(b) \in 0 .. BytesReady(b)
    BY ReadyFree, BuffFields
  <1>2. IsBuff(Rest(b, BytesReady(b)), size) /\ BytesReady(Rest(b, BytesReady(b))) = 0
    BY <1>1, RestLemma
  <1> QED BY <1>2 DEF Own

LEMMA OwnDiscard ==
    ASSUME NEW size, Narrow(size), NEW b, NEW v, Own(b, size, v), NEW count \in Nat
    PROVE  Own(DiscardBytes(b, count), size, v)
  <1>1. IsBuff(b, size)
    BY DEF Own
  <1>2. PICK ready \in Nat : ready = BytesReady(b)
    BY <1>1, ReadyFree, BuffFields
  <1>3. PICK n \in 0 .. ready : n = Min2(count, ready)
    BY DEF Min2
  <1>4. DiscardBytes(b, count) = DiscardBytes(b, n)
    <2>1. Min2(n, ready) = n
      BY <1>3 DEF Min2
    <2> QED BY <1>2, <1>3, <2>1 DEF DiscardBytes
  <1>5. PICK q : q = DiscardBytes(b, n)
    OBVIOUS
  <1>6. /\ IsBuff(q, size) /\ BytesReady(q) = ready - n
        /\ \A i \in 0 .. ready - n - 1 : q.buff[Cell(q, i)] = b.buff[Cell(b, n + i)]
    BY <1>1, <1>2, <1>5, DiscardLemma
  <1>7. \A i \in 0 .. ready - n - 1 : n + i \in 0 .. BytesReady(b) - 1
    BY <1>2
  <1> QED BY <1>4, <1>5, <1>6, <1>7 DEF Own

LEMMA OwnEmpty ==
    ASSUME NEW size, Narrow(size), NEW v
    PROVE  Own(EmptyBuff(size), size, v)
  BY EmptyBuffLemma DEF Own
-----------------------------------------------------------------------------
(* Printing.                                                               *)

\* The call st with other characters in the pipe, and then others in printfBuff.
WithWritten(st, tx, put) == [st EXCEPT !.p.tx = tx, !.put = put]
WithPrint(st, ok, print) == [st EXCEPT !.ok = ok, !.p.print = print]

LEMMA WrittenLemma ==
    ASSUME NEW st, DOMAIN st = CallFields, DOMAIN st.p = PipeFields, NEW tx, NEW put,
           NEW q, q = WithWritten(st, tx, put)
    PROVE  /\ DOMAIN q = CallFields /\ DOMAIN q.p = PipeFields
           /\ q.ok = st.ok /\ q.args = st.args /\ q.p.tx = tx
           /\ q.p.port = st.p.port /\ q.p.rx = st.p.rx /\ q.p.opened = st.p.opened
           /\ q.p.bExpectOdd = st.p.bExpectOdd /\ q.p.nLast = st.p.nLast /\ q.p.print = st.p.print
  BY DEF WithWritten, CallFields, PipeFields

LEMMA PrintLemma ==
    ASSUME NEW st, DOMAIN st = CallFields, DOMAIN st.p = PipeFields, NEW ok, NEW print,
           NEW q, q = WithPrint(st, ok, print)
    PROVE  /\ DOMAIN q = CallFields /\ DOMAIN q.p = PipeFields
           /\ q.ok = ok /\ q.args = st.args /\ q.p.print = print
           /\ q.p.port = st.p.port /\ q.p.rx = st.p.rx /\ q.p.opened = st.p.opened
           /\ q.p.bExpectOdd = st.p.bExpectOdd /\ q.p.nLast = st.p.nLast /\ q.p.tx = st.p.tx
  BY DEF WithPrint, CallFields, PipeFields

LEMMA WriteLemma ==
    ASSUME NEW p, p.opened \in Nat, NEW st, Writes(st, p), NEW text, NarrowPipes => text \in Seq(STRING),
           NEW q, q = Write(st, text)
    PROVE  Writes(q, p) /\ q.ok = st.ok /\ q.args = st.args /\ q.p.print = st.p.print
  <1>1. DOMAIN st = CallFields /\ DOMAIN st.p = PipeFields
    BY DEF Writes, Continues
  <1>2. PICK n : n = Whole(Len(text), BytesFree(st.p.tx), 0)
    OBVIOUS
  <1>3. PICK tx, put : /\ tx = Put(st.p.tx, Bytes(st.p, SubSeq(text, 1, n)))
                       /\ put = st.put \o SubSeq(text, 1, n)
    OBVIOUS
  <1>4. q = WithWritten(st, tx, put)
    BY <1>2, <1>3 DEF Write, WithWritten
  <1>5. /\ DOMAIN q = CallFields /\ DOMAIN q.p = PipeFields
        /\ q.ok = st.ok /\ q.args = st.args /\ q.p.tx = tx
        /\ q.p.port = st.p.port /\ q.p.rx = st.p.rx /\ q.p.opened = st.p.opened
        /\ q.p.bExpectOdd = st.p.bExpectOdd /\ q.p.nLast = st.p.nLast /\ q.p.print = st.p.print
    BY <1>1, <1>4, WrittenLemma
  <1>6. Continues(q, p)
    BY <1>5 DEF Writes, Continues
  <1>7. ASSUME NarrowPipes PROVE Own(tx, TxSize, p.opened)
    <2>1. Own(st.p.tx, TxSize, p.opened) /\ Narrow(TxSize) /\ Len(text) \in Nat
      BY <1>7 DEF Writes, NarrowPipes
    <2>2. BytesFree(st.p.tx) \in Nat
      BY <2>1, ReadyFree, BuffFields DEF Own
    <2>3. n \in Nat /\ n <= BytesFree(st.p.tx)
      BY <1>2, <2>1, <2>2 DEF Whole, Min2
    <2>4. Bytes(st.p, SubSeq(text, 1, n)) = [i \in 1 .. n |-> p.opened]
      <3>1. DOMAIN SubSeq(text, 1, n) = 1 .. n
        <4>1. n <= Len(text)
          BY <1>2, <2>1, <2>2 DEF Whole, Min2
        <4> QED BY <1>7, <2>1, <2>3, <4>1
      <3>2. st.p.opened = p.opened
        BY DEF Writes, Continues
      <3> QED BY <3>1, <3>2 DEF Bytes
    <2> QED BY <1>3, <2>1, <2>3, <2>4, OwnPut
  <1> QED BY <1>5, <1>6, <1>7 DEF Writes

LEMMA FlushLemma ==
    ASSUME NEW p, p.opened \in Nat, NEW st, Writes(st, p), NEW q, q = PrintfFlush(st)
    PROVE  Writes(q, p) /\ q.args = st.args
  <1>1. NarrowPipes => st.p.print \in Seq(STRING)
    BY DEF Writes
  <1>2. PICK w : w = Write(st, st.p.print)
    OBVIOUS
  <1>3. Writes(w, p) /\ w.ok = st.ok /\ w.args = st.args /\ w.p.print = st.p.print
    BY <1>1, <1>2, WriteLemma
  <1>4. PICK printed : printed = Min2(Len(st.p.print), BytesFree(st.p.tx))
    OBVIOUS
  <1>5. PICK ok, print : /\ ok = (printed = Len(st.p.print))
                         /\ print = SubSeq(st.p.print, printed + 1, Len(st.p.print))
    OBVIOUS
  <1>6. DOMAIN w = CallFields /\ DOMAIN w.p = PipeFields
    BY <1>3 DEF Writes, Continues
  <1>7. q = WithPrint(w, ok, print)
    <2>1. q = [w EXCEPT !.ok = printed = Len(st.p.print),
                        !.p.print = SubSeq(@, printed + 1, Len(@))]
      BY <1>2, <1>4 DEF PrintfFlush
    <2> QED BY <1>3, <1>5, <1>6, <2>1 DEF WithPrint, CallFields, PipeFields
  <1>8. /\ DOMAIN q = CallFields /\ DOMAIN q.p = PipeFields
        /\ q.args = w.args /\ q.p.print = print
        /\ q.p.port = w.p.port /\ q.p.rx = w.p.rx /\ q.p.opened = w.p.opened
        /\ q.p.bExpectOdd = w.p.bExpectOdd /\ q.p.nLast = w.p.nLast /\ q.p.tx = w.p.tx
    BY <1>6, <1>7, PrintLemma
  <1>9. ASSUME NarrowPipes PROVE print \in Seq(STRING)
    <2>1. st.p.print \in Seq(STRING) /\ Len(st.p.print) \in Nat
      BY <1>1, <1>9
    <2>2. BytesFree(st.p.tx) \in Nat
      BY <1>9, ReadyFree, BuffFields DEF Own, Writes, NarrowPipes
    <2>3. printed \in Nat
      BY <1>4, <2>1, <2>2 DEF Min2
    <2> QED BY <1>5, <2>1, <2>3
  <1> QED BY <1>3, <1>8, <1>9 DEF Writes, Continues

LEMMA ReplacedLemma ==
    ASSUME NEW p, NEW st, Writes(st, p), NEW ok, NEW print, NarrowPipes => print \in Seq(STRING),
           NEW q, q = WithPrint(st, ok, print)
    PROVE  Writes(q, p) /\ q.args = st.args
  BY PrintLemma DEF Writes, Continues

LEMMA PutcLemma ==
    ASSUME NEW p, p.opened \in Nat, NEW st, Writes(st, p), NEW c, NarrowPipes => c \in STRING,
           NEW q, q = PrintfPutc(st, c)
    PROVE  Writes(q, p) /\ q.args = st.args
  <1>1. PICK w : w = IF Len(st.p.print) >= PrintfSize THEN PrintfFlush(st) ELSE st
    OBVIOUS
  <1>2. Writes(w, p) /\ w.args = st.args
    BY <1>1, FlushLemma
  <1>3. PICK print : print = Append(w.p.print, c)
    OBVIOUS
  <1>4. NarrowPipes => print \in Seq(STRING)
    BY <1>2, <1>3 DEF Writes
  <1>5. CASE ~w.ok
    BY <1>1, <1>2, <1>5 DEF PrintfPutc
  <1>6. CASE w.ok
    <2>1. DOMAIN w = CallFields /\ DOMAIN w.p = PipeFields
      BY <1>2 DEF Writes, Continues
    <2>2. q = [w EXCEPT !.p.print = Append(@, c)]
      BY <1>1, <1>6 DEF PrintfPutc
    <2>3. PICK v : v = WithPrint(w, w.ok, print)
      OBVIOUS
    <2>4. q = v
      BY <1>3, <2>1, <2>2, <2>3 DEF WithPrint, CallFields, PipeFields
    <2> QED BY <1>2, <1>4, <2>3, <2>4, ReplacedLemma
  <1> QED BY <1>5, <1>6

LEMMA NumberLemma ==
    ASSUME NEW p, NEW st, Writes(st, p), NEW text, NarrowPipes => text.text \in Seq(STRING),
           NEW q, q = Number(st, text)
    PROVE  Writes(q, p) /\ q.args = st.args
  <1>1. q = WithPrint(st, text.ok, text.text)
    BY DEF Number, WithPrint
  <1> QED BY <1>1, ReplacedLemma

LEMMA PutsLemma ==
    ASSUME NEW p, p.opened \in Nat, NEW st, Writes(st, p), NEW text, NarrowPipes => text \in Seq(STRING),
           NEW q, q = Puts(st, text)
    PROVE  Writes(q, p) /\ q.args = st.args
  <1>1. CASE Len(text) > BytesFree(st.p.tx)
    <2>1. DOMAIN st = CallFields
      BY DEF Writes, Continues
    <2>2. q = [st EXCEPT !.ok = FALSE]
      BY <1>1 DEF Puts
    <2>3. q.p = st.p /\ q.args = st.args /\ DOMAIN q = CallFields
      BY <2>1, <2>2 DEF CallFields
    <2> QED BY <2>3 DEF Writes, Continues
  <1>2. CASE ~(Len(text) > BytesFree(st.p.tx))
    BY <1>2, WriteLemma DEF Puts
  <1> QED BY <1>1, <1>2
-----------------------------------------------------------------------------
(* The items of a format.                                                  *)

LEMMA LeastNat ==
    ASSUME NEW S \in SUBSET Nat, S # {}
    PROVE  \E i \in S : \A j \in S : i <= j
  <1> DEFINE R == {ss \in Nat \X Nat : ss[1] < ss[2]}
  <1>1. IsWellFoundedOn(R, Nat)
    BY NatLessThanWellFounded DEF OpToRel
  <1> HIDE DEF R
  <1>2. PICK i \in S : \A j \in S : <<j, i>> \notin R
    BY <1>1, WFMin
  <1>3. ASSUME NEW j \in S PROVE i <= j
    <2>1. ~(j < i)
      BY <1>2 DEF R
    <2> QED BY <2>1
  <1> QED BY <1>3

\* A conversion of an item prints strings, and so does a character.
Prints(item, text) ==
    IF item.k = "char" THEN item.c \in STRING ELSE text \in Seq(STRING)

LEMMA OneItemLemma ==
    ASSUME NEW p, p.opened \in Nat, NEW st, Writes(st, p), NEW item, NEW type, NEW arg,
           Prints(item, OneToA(type, arg, ParseFormat(item)).text),
           NEW q, q = OneItem(st, item, type, arg)
    PROVE  Writes(q, p)
  <1>1. CASE ~st.ok
    BY <1>1 DEF OneItem
  <1>2. CASE st.ok /\ item.k = "char"
    BY <1>2, PutcLemma DEF OneItem, Prints
  <1>3. CASE st.ok /\ item.k # "char"
    <2>1. PICK flushed : flushed = PrintfFlush(st)
      OBVIOUS
    <2>2. Writes(flushed, p)
      BY <2>1, FlushLemma
    <2>3. PICK text : text = OneToA(type, arg, ParseFormat(item))
      OBVIOUS
    <2>4. q = IF ~flushed.ok THEN flushed ELSE Number(flushed, text)
      BY <1>3, <2>1, <2>3 DEF OneItem
    <2>5. text.text \in Seq(STRING)
      BY <1>3, <2>3 DEF Prints
    <2> QED BY <2>2, <2>4, <2>5, NumberLemma
  <1> QED BY <1>1, <1>2, <1>3

WithArgs(st, args) == [st EXCEPT !.args = args]

LEMMA ArgsLemma ==
    ASSUME NEW p, NEW st, Writes(st, p), NEW n, NEW q, q = WithArgs(st, n)
    PROVE  Writes(q, p) /\ q.args = n
  <1>1. DOMAIN st = CallFields
    BY DEF Writes, Continues
  <1>2. DOMAIN q = CallFields /\ q.p = st.p /\ q.args = n
    BY <1>1 DEF CallFields, WithArgs
  <1>3. Writes(q, p)
    BY <1>2 DEF Writes, Continues
  <1> QED BY <1>2, <1>3

\* What an item prints of the argument it takes.
TextOfItem(item, arg) ==
    IF ParseFormat(item).isstring THEN arg ELSE PrintfAny(arg, ParseFormat(item)).text

LEMMA NextItemLemma ==
    ASSUME NEW p, p.opened \in Nat, NEW st, Writes(st, p), NEW item, NEW args,
           st.ok => Prints(item, TextOfItem(item, args[st.args + 1])),
           NEW q, q = NextItem(st, item, args)
    PROVE  /\ Writes(q, p)
           /\ ~st.ok => ~q.ok
           /\ q.ok => q.args = IF item.k = "char" THEN st.args ELSE st.args + 1
  <1>1. CASE ~st.ok
    BY <1>1 DEF NextItem
  <1>2. CASE st.ok /\ item.k = "char"
    <2>1. q = PrintfPutc(st, item.c) /\ item.c \in STRING
      BY <1>2 DEF NextItem, Prints
    <2> QED BY <1>2, <2>1, PutcLemma
  <1>3. CASE st.ok /\ item.k # "char"
    <2>1. PICK flushed : flushed = PrintfFlush(st)
      OBVIOUS
    <2>2. Writes(flushed, p) /\ flushed.args = st.args
      BY <2>1, FlushLemma
    <2>3. PICK taken : taken = WithArgs(flushed, flushed.args + 1)
      OBVIOUS
    <2>4. Writes(taken, p) /\ taken.args = st.args + 1
      <3>1. PICK n : n = flushed.args + 1
        OBVIOUS
      <3>2. taken = WithArgs(flushed, n)
        BY <2>3, <3>1
      <3>3. Writes(taken, p) /\ taken.args = n
        BY <2>2, <3>2, ArgsLemma
      <3> QED BY <2>2, <3>1, <3>3
    <2>5. PICK arg, ctx : arg = args[st.args + 1] /\ ctx = ParseFormat(item)
      OBVIOUS
    <2>6. q = IF ~flushed.ok THEN flushed
              ELSE IF ctx.isstring THEN Puts(taken, arg)
              ELSE Number(taken, PrintfAny(arg, ctx))
      <3>1. taken = [flushed EXCEPT !.args = @ + 1]
        BY <2>3 DEF WithArgs
      <3> QED BY <1>3, <2>1, <2>4, <2>5, <3>1 DEF NextItem
    <2>7. IF ctx.isstring THEN arg \in Seq(STRING) ELSE PrintfAny(arg, ctx).text \in Seq(STRING)
      BY <1>3, <2>5 DEF Prints, TextOfItem
    <2>8. CASE ~flushed.ok
      BY <1>3, <2>2, <2>6, <2>8
    <2>9. CASE flushed.ok /\ ctx.isstring
      BY <1>3, <2>4, <2>6, <2>7, <2>9, PutsLemma
    <2>10. CASE flushed.ok /\ ~ctx.isstring
      BY <1>3, <2>4, <2>6, <2>7, <2>10, NumberLemma
    <2> QED BY <2>8, <2>9, <2>10
  <1> QED BY <1>1, <1>2, <1>3

LEMMA CalledLemma ==
    ASSUME NEW p, DOMAIN p = PipeFields,
           NarrowPipes => p.print \in Seq(STRING) /\ Own(p.tx, TxSize, p.opened)
    PROVE  Writes(Called(p), p) /\ Called(p).ok /\ Called(p).args = 0
  BY DEF Called, Writes, Continues, CallFields

LEMMA FinishedLemma ==
    ASSUME NEW p, p.opened \in Nat, NEW st, Writes(st, p), NEW q, q = Finished(st)
    PROVE  Writes(q, p)
  BY FlushLemma DEF Finished

(* The loops: what their recursive functions return.                       *)

OneLoop(p, format, type, arg, after) ==
    [i \in 0 .. Len(format) |->
        IF i = 0 THEN Called(p) ELSE OneItem(after[i - 1], format[i], type, arg)]

\* g follows the loop for m items.
OneFollows(g, m, p, format, type, arg) ==
    \A i \in 0 .. m :
        g[i] = IF i = 0 THEN Called(p) ELSE OneItem(g[i - 1], format[i], type, arg)

LEMMA OneItemsLemma ==
    ASSUME NEW p, NEW format, Len(format) \in Nat, NEW type, NEW arg,
           NEW after, after = OneItems(p, format, type, arg)
    PROVE  /\ after[0] = Called(p)
           /\ \A i \in 1 .. Len(format) : after[i] = OneItem(after[i - 1], format[i], type, arg)
  <1>1. \E g : g = OneLoop(p, format, type, arg, g)
    <2> DEFINE Bad == {m \in Nat : ~\E g : OneFollows(g, m, p, format, type, arg)}
    <2>1. Bad = {}
      <3>1. SUFFICES ASSUME Bad # {} PROVE FALSE
        OBVIOUS
      <3>2. PICK m \in Bad : \A j \in Bad : m <= j
        BY <3>1, LeastNat
      <3>3. CASE m = 0
        <4>1. OneFollows([i \in 0 .. 0 |-> Called(p)], 0, p, format, type, arg)
          BY DEF OneFollows
        <4> QED BY <3>2, <3>3, <4>1
      <3>4. CASE m # 0
        <4>1. m \in Nat /\ m - 1 \in Nat /\ m - 1 \notin Bad
          BY <3>2, <3>4
        <4>2. PICK g : OneFollows(g, m - 1, p, format, type, arg)
          BY <4>1
        <4>3. PICK h : h = [i \in 0 .. m |-> IF i = m THEN OneItem(g[m - 1], format[m], type, arg)
                                             ELSE g[i]]
          OBVIOUS
        <4>4. \A i \in 0 .. m - 1 : h[i] = g[i]
          BY <4>1, <4>3
        <4>5. h[m] = OneItem(g[m - 1], format[m], type, arg)
          BY <4>1, <4>3
        <4>6. ASSUME NEW i \in 0 .. m
              PROVE  h[i] = IF i = 0 THEN Called(p) ELSE OneItem(h[i - 1], format[i], type, arg)
          <5>1. CASE i = m
            <6>1. h[m - 1] = g[m - 1]
              BY <4>1, <4>4
            <6> QED BY <3>4, <4>5, <5>1, <6>1
          <5>2. CASE i = 0
            BY <3>4, <4>1, <4>2, <4>4, <5>2 DEF OneFollows
          <5>3. CASE i # m /\ i # 0
            <6>1. i \in 0 .. m - 1 /\ i - 1 \in 0 .. m - 1
              BY <4>1, <5>3
            <6>2. h[i] = g[i] /\ h[i - 1] = g[i - 1]
              BY <4>4, <6>1
            <6>3. g[i] = OneItem(g[i - 1], format[i], type, arg)
              BY <4>2, <5>3, <6>1 DEF OneFollows
            <6> QED BY <5>3, <6>2, <6>3
          <5> QED BY <5>1, <5>2, <5>3
        <4>7. OneFollows(h, m, p, format, type, arg)
          BY <4>6 DEF OneFollows
        <4> QED BY <3>2, <4>7
      <3> QED BY <3>3, <3>4
    <2>2. PICK g : OneFollows(g, Len(format), p, format, type, arg)
      BY <2>1
    <2>3. PICK h : h = [i \in 0 .. Len(format) |-> g[i]]
      OBVIOUS
    <2>4. h = OneLoop(p, format, type, arg, h)
      BY <2>2, <2>3 DEF OneFollows, OneLoop
    <2> QED BY <2>4
  <1>2. after = OneLoop(p, format, type, arg, after)
    BY <1>1 DEF OneItems, OneLoop
  <1> QED BY <1>2 DEF OneLoop

NextLoop(p, format, args, after) ==
    [i \in 0 .. Len(format) |->
        IF i = 0 THEN Called(p) ELSE NextItem(after[i - 1], format[i], args)]

NextFollows(g, m, p, format, args) ==
    \A i \in 0 .. m :
        g[i] = IF i = 0 THEN Called(p) ELSE NextItem(g[i - 1], format[i], args)

LEMMA NextItemsLemma ==
    ASSUME NEW p, NEW format, Len(format) \in Nat, NEW args,
           NEW after, after = NextItems(p, format, args)
    PROVE  /\ after[0] = Called(p)
           /\ \A i \in 1 .. Len(format) : after[i] = NextItem(after[i - 1], format[i], args)
  <1>1. \E g : g = NextLoop(p, format, args, g)
    <2> DEFINE Bad == {m \in Nat : ~\E g : NextFollows(g, m, p, format, args)}
    <2>1. Bad = {}
      <3>1. SUFFICES ASSUME Bad # {} PROVE FALSE
        OBVIOUS
      <3>2. PICK m \in Bad : \A j \in Bad : m <= j
        BY <3>1, LeastNat
      <3>3. CASE m = 0
        <4>1. NextFollows([i \in 0 .. 0 |-> Called(p)], 0, p, format, args)
          BY DEF NextFollows
        <4> QED BY <3>2, <3>3, <4>1
      <3>4. CASE m # 0
        <4>1. m \in Nat /\ m - 1 \in Nat /\ m - 1 \notin Bad
          BY <3>2, <3>4
        <4>2. PICK g : NextFollows(g, m - 1, p, format, args)
          BY <4>1
        <4>3. PICK h : h = [i \in 0 .. m |-> IF i = m THEN NextItem(g[m - 1], format[m], args)
                                             ELSE g[i]]
          OBVIOUS
        <4>4. \A i \in 0 .. m - 1 : h[i] = g[i]
          BY <4>1, <4>3
        <4>5. h[m] = NextItem(g[m - 1], format[m], args)
          BY <4>1, <4>3
        <4>6. ASSUME NEW i \in 0 .. m
              PROVE  h[i] = IF i = 0 THEN Called(p) ELSE NextItem(h[i - 1], format[i], args)
          <5>1. CASE i = m
            <6>1. h[m - 1] = g[m - 1]
              BY <4>1, <4>4
            <6> QED BY <3>4, <4>5, <5>1, <6>1
          <5>2. CASE i = 0
            BY <3>4, <4>1, <4>2, <4>4, <5>2 DEF NextFollows
          <5>3. CASE i # m /\ i # 0
            <6>1. i \in 0 .. m - 1 /\ i - 1 \in 0 .. m - 1
              BY <4>1, <5>3
            <6>2. h[i] = g[i] /\ h[i - 1] = g[i - 1]
              BY <4>4, <6>1
            <6>3. g[i] = NextItem(g[i - 1], format[i], args)
              BY <4>2, <5>3, <6>1 DEF NextFollows
            <6> QED BY <5>3, <6>2, <6>3
          <5> QED BY <5>1, <5>2, <5>3
        <4>7. NextFollows(h, m, p, format, args)
          BY <4>6 DEF NextFollows
        <4> QED BY <3>2, <4>7
      <3> QED BY <3>3, <3>4
    <2>2. PICK g : NextFollows(g, Len(format), p, format, args)
      BY <2>1
    <2>3. PICK h : h = [i \in 0 .. Len(format) |-> g[i]]
      OBVIOUS
    <2>4. h = NextLoop(p, format, args, h)
      BY <2>2, <2>3 DEF NextFollows, NextLoop
    <2> QED BY <2>4
  <1>2. after = NextLoop(p, format, args, after)
    BY <1>1 DEF NextItems, NextLoop
  <1> QED BY <1>2 DEF NextLoop

LEMMA ArgOfLemma ==
    ASSUME NEW format, NEW i \in Nat \ {0}
    PROVE  /\ ArgOf(format, 0) = 0
           /\ ArgOf(format, i) = IF format[i].k = "char" THEN ArgOf(format, i - 1)
                                 ELSE ArgOf(format, i - 1) + 1
  <1> DEFINE Convs(n) == {j \in 1 .. n : format[j].k # "char"}
  <1>1. ArgOf(format, 0) = 0
    <2>1. {j \in 1 .. 0 : format[j].k # "char"} = {}
      OBVIOUS
    <2> QED BY <2>1, FS_EmptySet DEF ArgOf
  <1>2. IsFiniteSet(Convs(i - 1))
    <2>1. PICK n \in Int : n = i - 1
      OBVIOUS
    <2>2. IsFiniteSet(1 .. n)
      <3>1. 1 \in Int /\ n \in Int
        OBVIOUS
      <3> QED BY <3>1, FS_Interval, Zenon
    <2>3. Convs(n) \subseteq 1 .. n
      OBVIOUS
    <2>4. IsFiniteSet(Convs(n))
      BY <2>2, <2>3, FS_Subset
    <2> QED BY <2>1, <2>4
  <1>3. CASE format[i].k = "char"
    <2>1. Convs(i) = Convs(i - 1)
      BY <1>3
    <2> QED BY <1>1, <1>3, <2>1 DEF ArgOf
  <1>4. CASE format[i].k # "char"
    <2>1. Convs(i) = Convs(i - 1) \cup {i} /\ i \notin Convs(i - 1)
      BY <1>4
    <2>2. Cardinality(Convs(i)) = Cardinality(Convs(i - 1)) + 1
      <3> HIDE DEF Convs
      <3> QED BY <1>2, <2>1, FS_AddElement
    <2> QED BY <1>1, <1>4, <2>2 DEF ArgOf
  <1> QED BY <1>3, <1>4

LEMMA PrintfOneLemma ==
    ASSUME NEW p, p.opened \in Nat, DOMAIN p = PipeFields,
           NarrowPipes => p.print \in Seq(STRING) /\ Own(p.tx, TxSize, p.opened),
           NEW c \in OneCalls, NEW q, q = PrintfOne(p, c.format, c.type, c.arg)
    PROVE  Writes(q, p)
  <1>1. PICK n \in Nat : n = Len(c.format)
    BY CallsAssumption
  <1>2. PICK after : after = OneItems(p, c.format, c.type, c.arg)
    OBVIOUS
  <1>3. /\ after[0] = Called(p)
        /\ \A i \in 1 .. n : after[i] = OneItem(after[i - 1], c.format[i], c.type, c.arg)
    <2>1. PICK format, type, arg : format = c.format /\ type = c.type /\ arg = c.arg
      OBVIOUS
    <2>2. Len(format) \in Nat /\ after = OneItems(p, format, type, arg)
      BY <1>1, <1>2, <2>1
    <2>3. /\ after[0] = Called(p)
          /\ \A i \in 1 .. Len(format) : after[i] = OneItem(after[i - 1], format[i], type, arg)
      BY <2>2, OneItemsLemma
    <2> QED BY <1>1, <2>1, <2>3
  <1>4. ASSUME NEW i \in 1 .. n
        PROVE  Prints(c.format[i], OneToA(c.type, c.arg, ParseFormat(c.format[i])).text)
    BY <1>1, CallsAssumption DEF Prints
  <1> DEFINE Bad == {i \in 0 .. n : ~Writes(after[i], p)}
  <1>5. Bad = {}
    <2>1. SUFFICES ASSUME Bad # {} PROVE FALSE
      OBVIOUS
    <2>2. PICK i \in Bad : \A j \in Bad : i <= j
      <3>1. Bad \in SUBSET Nat
        OBVIOUS
      <3> HIDE DEF Bad
      <3> QED BY <2>1, <3>1, LeastNat
    <2>3. i # 0
      BY <1>3, <2>2, CalledLemma
    <2>4. i \in 1 .. n /\ i - 1 \in 0 .. n /\ Writes(after[i - 1], p)
      BY <2>2, <2>3
    <2>5. Writes(after[i], p)
      BY <1>3, <1>4, <2>4, OneItemLemma
    <2> QED BY <2>2, <2>5
  <1>6. Writes(after[n], p)
    BY <1>5
  <1>7. q = Finished(after[n])
    BY <1>1, <1>2 DEF PrintfOne
  <1> QED BY <1>6, <1>7, FinishedLemma

LEMMA PrintfVLemma ==
    ASSUME NEW p, p.opened \in Nat, DOMAIN p = PipeFields,
           NarrowPipes => p.print \in Seq(STRING) /\ Own(p.tx, TxSize, p.opened),
           NEW c \in ListCalls, NEW q, q = PrintfV(p, c.format, c.args)
    PROVE  Writes(q, p)
  <1>1. PICK n \in Nat : n = Len(c.format)
    BY CallsAssumption
  <1>2. PICK after : after = NextItems(p, c.format, c.args)
    OBVIOUS
  <1>3. /\ after[0] = Called(p)
        /\ \A i \in 1 .. n : after[i] = NextItem(after[i - 1], c.format[i], c.args)
    <2>1. PICK format, args : format = c.format /\ args = c.args
      OBVIOUS
    <2>2. Len(format) \in Nat /\ after = NextItems(p, format, args)
      BY <1>1, <1>2, <2>1
    <2>3. /\ after[0] = Called(p)
          /\ \A i \in 1 .. Len(format) : after[i] = NextItem(after[i - 1], format[i], args)
      BY <2>2, NextItemsLemma
    <2> QED BY <1>1, <2>1, <2>3
  <1>4. ASSUME NEW i \in 1 .. n
        PROVE  Prints(c.format[i], TextOfItem(c.format[i], c.args[ArgOf(c.format, i)]))
    BY <1>1, CallsAssumption DEF Prints, TextOfItem
  <1> DEFINE Right(i) == Writes(after[i], p) /\ (after[i].ok => after[i].args = ArgOf(c.format, i))
             Bad == {i \in 0 .. n : ~Right(i)}
  <1>5. Bad = {}
    <2>1. SUFFICES ASSUME Bad # {} PROVE FALSE
      OBVIOUS
    <2>2. PICK i \in Bad : \A j \in Bad : i <= j
      <3>1. Bad \in SUBSET Nat
        OBVIOUS
      <3> HIDE DEF Bad
      <3> QED BY <2>1, <3>1, LeastNat
    <2>3. i # 0
      <3>1. Right(0)
        BY <1>3, CalledLemma, ArgOfLemma
      <3> QED BY <2>2, <3>1
    <2>4. i \in 1 .. n /\ i - 1 \in 0 .. n /\ Right(i - 1)
      BY <2>2, <2>3
    <2>5. PICK st, r, item : st = after[i - 1] /\ r = after[i] /\ item = c.format[i]
      OBVIOUS
    <2>6. r = NextItem(st, item, c.args) /\ Writes(st, p)
      BY <1>3, <2>4, <2>5
    <2>7. ArgOf(c.format, i) = IF item.k = "char" THEN ArgOf(c.format, i - 1)
                               ELSE ArgOf(c.format, i - 1) + 1
      BY <2>4, <2>5, ArgOfLemma
    <2>8. st.ok => Prints(item, TextOfItem(item, c.args[st.args + 1]))
      <3>1. CASE item.k = "char"
        BY <1>4, <2>4, <2>5, <3>1 DEF Prints
      <3>2. CASE item.k # "char"
        BY <1>4, <2>4, <2>5, <2>7, <3>2
      <3> QED BY <3>1, <3>2
    <2>9. /\ Writes(r, p)
          /\ ~st.ok => ~r.ok
          /\ r.ok => r.args = IF item.k = "char" THEN st.args ELSE st.args + 1
      BY <2>6, <2>8, NextItemLemma
    <2>10. Right(i)
      <3>1. st.ok => st.args = ArgOf(c.format, i - 1)
        BY <2>4, <2>5
      <3>2. r.ok => r.args = ArgOf(c.format, i)
        <4>1. r.ok => st.ok
          BY <2>9
        <4>2. ASSUME r.ok PROVE r.args = ArgOf(c.format, i)
          <5>1. st.args = ArgOf(c.format, i - 1)
            BY <3>1, <4>1, <4>2
          <5>2. r.args = IF item.k = "char" THEN st.args ELSE st.args + 1
            BY <2>9, <4>2
          <5> QED BY <2>7, <5>1, <5>2
        <4> QED BY <4>2
      <3>3. Writes(after[i], p) /\ (after[i].ok => after[i].args = ArgOf(c.format, i))
        BY <2>5, <2>9, <3>2
      <3> QED BY <3>3
    <2> QED BY <2>2, <2>10
  <1>6. Writes(after[n], p)
    BY <1>5
  <1>7. q = Finished(after[n])
    BY <1>1, <1>2 DEF PrintfV
  <1> QED BY <1>6, <1>7, FinishedLemma
-----------------------------------------------------------------------------
(* The inductive invariant.                                                *)

HostFields == {"odd", "skip", "took"}

\* The pipe p, and what is buffered in it when its port is open.
PipeOK(p) ==
    /\ DOMAIN p = PipeFields
    /\ p.port \in Ports \cup {0} /\ p.bExpectOdd \in BOOLEAN /\ p.opened \in Nat
    /\ NarrowPipes => /\ IsBuff(p.rx, RxSize) /\ Own(p.tx, TxSize, p.opened)
                      /\ p.print \in Seq(STRING)
                      /\ p.port # 0 => Own(p.rx, RxSize, p.port)

HostOK(h) ==
    /\ DOMAIN h = HostFields /\ h.odd \in BOOLEAN
    /\ NarrowPipes => h.skip \in Nat

\* A host that has sent its frame and not seen the response: what the pipe
\* took is what the pipe will say it took.
Agrees(p, h) == h.odd # p.bExpectOdd => h.took = p.nLast

TablesOK ==
    /\ opens \in Nat
    /\ pipes = [s \in Slots |-> pipes[s]] /\ \A s \in Slots : PipeOK(pipes[s])
    /\ host = [p \in Ports |-> host[p]] /\ \A p \in Ports : HostOK(host[p])

RoundsAgree == \A s \in Slots : pipes[s].port # 0 => Agrees(pipes[s], host[pipes[s].port])

IInv == TablesOK /\ OnePipePerPort /\ RoundsAgree /\ AckIsOfThisOpening

\* A slot is what FindPipe returns only if it has the port, and there is none
\* if no slot has it.
LEMMA FoundLemma ==
    ASSUME NEW port
    PROVE  /\ \A s \in FindPipe(port) : s \in Slots /\ pipes[s].port = port
           /\ FindPipe(port) = {} => \A s \in Slots : pipes[s].port # port
  <1> DEFINE found == {s \in Slots : pipes[s].port = port}
  <1>1. CASE found = {}
    <2>1. FindPipe(port) = {}
      BY <1>1 DEF FindPipe
    <2> QED BY <1>1, <2>1
  <1>2. CASE found # {}
    <2>1. found \in SUBSET Nat
      BY PortsAssumption
    <2>2. PICK s : s = CHOOSE i \in found : \A t \in found : i <= t
      OBVIOUS
    <2>3. FindPipe(port) = {s}
      BY <1>2, <2>2 DEF FindPipe
    <2>4. s \in found
      <3> HIDE DEF found
      <3>1. \E i \in found : \A t \in found : i <= t
        BY <1>2, <2>1, LeastNat
      <3> QED BY <2>2, <3>1
    <2> QED BY <2>3, <2>4
  <1> QED BY <1>1, <1>2

Opened(port, n) == [FreeSlot EXCEPT !.port = port, !.opened = n]

LEMMA FreeSlotLemma ==
    ASSUME NEW port \in Ports, NEW opened \in Nat, NEW q, q = Opened(port, opened)
    PROVE  PipeOK(q) /\ q.port = port /\ q.nLast = 0
  <1>1. /\ DOMAIN q = PipeFields /\ q.port = port /\ q.opened = opened
        /\ q.rx = EmptyBuff(RxSize) /\ q.tx = EmptyBuff(TxSize)
        /\ q.bExpectOdd = FALSE /\ q.nLast = 0 /\ q.print = <<>>
    BY DEF Opened, FreeSlot, PipeFields
  <1>2. ASSUME NarrowPipes PROVE Own(q.rx, RxSize, port) /\ Own(q.tx, TxSize, opened)
    BY <1>1, <1>2, OwnEmpty DEF NarrowPipes
  <1>3. q.print \in Seq(STRING)
    BY <1>1
  <1> QED BY <1>1, <1>2, <1>3 DEF PipeOK, Own

LEMMA InitLemma == Init => IInv
  <1>1. SUFFICES ASSUME Init PROVE IInv
    OBVIOUS
  <1>2. ASSUME NEW s \in Slots PROVE PipeOK(pipes[s]) /\ pipes[s].port = 0
    <2>1. PICK q : q = pipes[s]
      OBVIOUS
    <2>2. q = FreeSlot
      BY <1>1, <2>1 DEF Init
    <2>3. /\ DOMAIN q = PipeFields /\ q.port = 0 /\ q.opened = 0
          /\ q.rx = EmptyBuff(RxSize) /\ q.tx = EmptyBuff(TxSize)
          /\ q.bExpectOdd = FALSE /\ q.print = <<>>
      BY <2>2 DEF FreeSlot, PipeFields
    <2>4. ASSUME NarrowPipes PROVE IsBuff(q.rx, RxSize) /\ Own(q.tx, TxSize, q.opened)
      BY <2>3, <2>4, EmptyBuffLemma, OwnEmpty DEF NarrowPipes
    <2>5. q.print \in Seq(STRING)
      BY <2>3
    <2>6. PipeOK(q)
      <3>1. q.port \in Ports \cup {0} /\ q.opened \in Nat
        BY <2>3
      <3>2. q.bExpectOdd \in BOOLEAN
        BY <2>3, Zenon
      <3> QED BY <2>3, <2>4, <2>5, <3>1, <3>2 DEF PipeOK
    <2> QED BY <2>1, <2>3, <2>6
  <1>3. ASSUME NEW p \in Ports PROVE HostOK(host[p])
    BY <1>1 DEF Init, HostOK, HostFields
  <1>4. TablesOK
    BY <1>1, <1>2, <1>3 DEF Init, TablesOK
  <1>5. OnePipePerPort /\ RoundsAgree
    BY <1>2 DEF OnePipePerPort, RoundsAgree
  <1>6. AckIsOfThisOpening
    BY <1>1 DEF Init, Quiet, AckIsOfThisOpening
  <1> QED BY <1>4, <1>5, <1>6 DEF IInv

\* A step that changes a pipe other than by a frame keeps its round, and its
\* port too, or frees the slot.
LEMMA SlotLemma ==
    ASSUME IInv, NEW s \in Slots, NEW q, pipes' = [pipes EXCEPT ![s] = q],
           PipeOK(q), q.port \in {pipes[s].port, 0},
           q.bExpectOdd = pipes[s].bExpectOdd, q.nLast = pipes[s].nLast,
           host' = host, opens' = opens, step'.kind # "round"
    PROVE  IInv'
  <1>1. /\ pipes'[s] = q /\ \A t \in Slots : t # s => pipes'[t] = pipes[t]
        /\ pipes' = [t \in Slots |-> pipes'[t]]
    BY DEF IInv, TablesOK
  <1>2. TablesOK'
    BY <1>1 DEF IInv, TablesOK
  <1>3. OnePipePerPort'
    BY <1>1 DEF IInv, OnePipePerPort
  <1>4. RoundsAgree'
    BY <1>1 DEF IInv, RoundsAgree, Agrees
  <1>5. AckIsOfThisOpening'
    BY DEF AckIsOfThisOpening
  <1> QED BY <1>2, <1>3, <1>4, <1>5 DEF IInv

LEMMA PrintedLemma ==
    ASSUME IInv, NEW s \in Slots, NEW st, Writes(st, pipes[s]),
           pipes' = [pipes EXCEPT ![s] = st.p],
           host' = host, opens' = opens, step'.kind # "round"
    PROVE  IInv'
  <1>1. PICK p, q : p = pipes[s] /\ q = st.p
    OBVIOUS
  <1>2. PipeOK(p)
    BY <1>1 DEF IInv, TablesOK
  <1>3. /\ DOMAIN q = PipeFields /\ q.port = p.port /\ q.rx = p.rx /\ q.opened = p.opened
        /\ q.bExpectOdd = p.bExpectOdd /\ q.nLast = p.nLast
        /\ NarrowPipes => q.print \in Seq(STRING) /\ Own(q.tx, TxSize, p.opened)
    BY <1>1 DEF Writes, Continues
  <1>4. PipeOK(q)
    BY <1>2, <1>3 DEF PipeOK
  <1>5. pipes' = [pipes EXCEPT ![s] = q]
    BY <1>1
  <1> QED BY <1>1, <1>3, <1>4, <1>5, SlotLemma

LEMMA OpenLemma ==
    ASSUME IInv, NEW port \in Ports, PipeOpen(port)
    PROVE  IInv'
  <1>1. PICK s \in SlotToOpen(port) :
            pipes' = [pipes EXCEPT ![s] = [FreeSlot EXCEPT !.port = port, !.opened = opens + 1]]
    BY DEF PipeOpen
  <1>2. s \in Slots /\ \A t \in Slots : pipes[t].port = port => t = s
    <2>1. CASE FindPipe(port) # {}
      <3>1. s \in Slots /\ pipes[s].port = port
        BY <1>1, <2>1, FoundLemma DEF SlotToOpen
      <3>2. port # 0
        BY PortsAssumption
      <3> QED BY <3>1, <3>2 DEF IInv, OnePipePerPort
    <2>2. CASE FindPipe(port) = {}
      BY <1>1, <2>2, FoundLemma DEF SlotToOpen
    <2> QED BY <2>1, <2>2
  <1>3. PICK q, n : q = Opened(port, n) /\ n = opens + 1
    OBVIOUS
  <1>4. PipeOK(q) /\ q.port = port /\ q.nLast = 0
    <2>1. n \in Nat
      BY <1>3 DEF IInv, TablesOK
    <2>2. port \in Ports /\ q = Opened(port, n)
      BY <1>3
    <2> QED BY <2>1, <2>2, FreeSlotLemma
  <1>5. /\ pipes'[s] = q /\ \A t \in Slots : t # s => pipes'[t] = pipes[t]
        /\ pipes' = [t \in Slots |-> pipes'[t]]
    <2>1. pipes' = [pipes EXCEPT ![s] = q]
      BY <1>1, <1>3 DEF Opened
    <2> QED BY <1>2, <2>1 DEF IInv, TablesOK
  <1>6. PICK h : h = [host[port] EXCEPT !.took = 0]
    OBVIOUS
  <1>7. HostOK(h) /\ h.took = 0
    <2>1. PICK g : g = host[port]
      OBVIOUS
    <2>2. HostOK(g)
      BY <2>1 DEF IInv, TablesOK
    <2>3. DOMAIN h = HostFields /\ h.odd = g.odd /\ h.skip = g.skip /\ h.took = 0
      BY <1>6, <2>1, <2>2 DEF HostOK, HostFields
    <2> QED BY <2>2, <2>3 DEF HostOK
  <1>8. /\ host'[port] = h /\ \A p \in Ports : p # port => host'[p] = host[p]
        /\ host' = [p \in Ports |-> host'[p]]
    BY <1>6 DEF PipeOpen, IInv, TablesOK
  <1>9. opens' \in Nat /\ step'.kind = "none"
    BY DEF PipeOpen, Quiet, IInv, TablesOK
  <1>10. TablesOK'
    <2>1. \A t \in Slots : PipeOK(pipes'[t])
      BY <1>2, <1>4, <1>5 DEF IInv, TablesOK
    <2>2. \A p \in Ports : HostOK(host'[p])
      BY <1>7, <1>8 DEF IInv, TablesOK
    <2> QED BY <1>5, <1>8, <1>9, <2>1, <2>2 DEF TablesOK
  <1>11. OnePipePerPort'
    BY <1>2, <1>4, <1>5 DEF IInv, OnePipePerPort
  <1>12. RoundsAgree'
    <2>1. SUFFICES ASSUME NEW t \in Slots, pipes'[t].port # 0
                   PROVE  Agrees(pipes'[t], host'[pipes'[t].port])
      BY DEF RoundsAgree
    <2>2. CASE t = s
      BY <1>4, <1>5, <1>7, <1>8, <2>2 DEF Agrees
    <2>3. CASE t # s
      <3>1. pipes'[t] = pipes[t] /\ pipes[t].port # port
        BY <1>2, <1>5, <2>3
      <3>2. pipes[t].port \in Ports
        BY <2>1, <3>1 DEF IInv, TablesOK, PipeOK
      <3>3. host'[pipes[t].port] = host[pipes[t].port]
        BY <1>8, <3>1, <3>2
      <3> QED BY <2>1, <3>1, <3>3 DEF IInv, RoundsAgree
    <2> QED BY <2>2, <2>3
  <1>13. AckIsOfThisOpening'
    BY <1>9 DEF AckIsOfThisOpening
  <1> QED BY <1>10, <1>11, <1>12, <1>13 DEF IInv

\* What a frame makes of a pipe and its host.
ServedFields(p, odd, tx, rx, n) ==
    [p EXCEPT !.bExpectOdd = odd, !.tx = tx, !.rx = rx, !.nLast = n]

LEMMA ServedFieldsLemma ==
    ASSUME NEW p, DOMAIN p = PipeFields, NEW odd, NEW tx, NEW rx, NEW n,
           NEW q, q = ServedFields(p, odd, tx, rx, n)
    PROVE  /\ DOMAIN q = PipeFields
           /\ q.bExpectOdd = odd /\ q.tx = tx /\ q.rx = rx /\ q.nLast = n
           /\ q.port = p.port /\ q.print = p.print /\ q.opened = p.opened
  BY DEF ServedFields, PipeFields

LEMMA ServedLemma ==
    ASSUME NEW p, PipeOK(p), p.port # 0, NEW h, HostOK(h), Agrees(p, h), NEW n \in Nat,
           NEW q, q = Served(p, h, p.port, n)
    PROVE  /\ PipeOK(q) /\ q.port = p.port /\ h.odd # q.bExpectOdd
           /\ IF h.odd = p.bExpectOdd THEN TRUE ELSE q.nLast = h.took
  <1>1. CASE h.odd # p.bExpectOdd
    <2>1. q = p
      BY <1>1 DEF Served
    <2> QED BY <1>1, <2>1 DEF Agrees
  <1>2. CASE h.odd = p.bExpectOdd
    <2>1. PICK accepted : accepted = Min2(n, BytesFree(p.rx))
      OBVIOUS
    <2>2. PICK odd, tx, rx : /\ odd = ~p.bExpectOdd
                             /\ tx = DiscardBytes(p.tx, h.skip)
                             /\ rx = Put(p.rx, [i \in 1 .. accepted |-> p.port])
      OBVIOUS
    <2>3. DOMAIN p = PipeFields
      BY DEF PipeOK
    <2>4. q = ServedFields(p, odd, tx, rx, accepted)
      <3>1. q = [p EXCEPT !.bExpectOdd = ~@,
                          !.tx = DiscardBytes(@, h.skip),
                          !.rx = Put(@, [i \in 1 .. accepted |-> p.port]),
                          !.nLast = accepted]
        BY <1>2, <2>1 DEF Served
      <3> QED BY <2>2, <2>3, <3>1 DEF ServedFields, PipeFields
    <2>5. /\ DOMAIN q = PipeFields
          /\ q.bExpectOdd = odd /\ q.tx = tx /\ q.rx = rx /\ q.nLast = accepted
          /\ q.port = p.port /\ q.print = p.print /\ q.opened = p.opened
      BY <2>3, <2>4, ServedFieldsLemma
    <2>6. odd \in BOOLEAN /\ h.odd # odd
      BY <1>2, <2>2 DEF PipeOK, HostOK
    <2>7. ASSUME NarrowPipes
          PROVE  Own(rx, RxSize, p.port) /\ Own(tx, TxSize, p.opened)
      <3>1. Own(p.rx, RxSize, p.port) /\ Own(p.tx, TxSize, p.opened) /\ h.skip \in Nat
        BY <2>7 DEF PipeOK, HostOK
      <3>2. BytesFree(p.rx) \in Nat
        BY <2>7, <3>1, ReadyFree, BuffFields DEF Own, NarrowPipes
      <3>3. accepted \in Nat /\ accepted <= BytesFree(p.rx)
        BY <2>1, <3>2 DEF Min2
      <3>4. p.port \in Nat
        BY PortsAssumption DEF PipeOK
      <3>5. Own(rx, RxSize, p.port)
        <4>1. PICK data : data = [i \in 1 .. accepted |-> p.port]
          OBVIOUS
        <4>2. PICK b, v : b = p.rx /\ v = p.port
          OBVIOUS
        <4>3. Own(Put(b, data), RxSize, v)
          BY <2>7, <3>1, <3>3, <3>4, <4>1, <4>2, OwnPut DEF NarrowPipes
        <4> QED BY <2>2, <4>1, <4>2, <4>3
      <3>6. Own(tx, TxSize, p.opened)
        BY <2>2, <2>7, <3>1, OwnDiscard DEF NarrowPipes
      <3> QED BY <3>5, <3>6
    <2>8. PipeOK(q)
      BY <2>5, <2>6, <2>7 DEF PipeOK, Own
    <2> QED BY <1>2, <2>5, <2>6, <2>8
  <1> QED BY <1>1, <1>2

LEMMA FrameLemma ==
    ASSUME IInv, NEW port \in Ports, NEW n \in 0 .. MaxData, PipeFrame(port, n)
    PROVE  IInv'
  <1> DEFINE h == host[port]
  <1>1. PICK s \in FindPipe(port), lost \in BOOLEAN :
          LET p    == Served(pipes[s], h, port, n)
              took == IF h.odd = pipes[s].bExpectOdd THEN p.nLast ELSE h.took
          IN  /\ pipes' = [pipes EXCEPT ![s] = p]
              /\ IF lost
                 THEN /\ host' = [host EXCEPT ![port].took = took]
                      /\ step' = Quiet
                 ELSE /\ host' = [host EXCEPT ![port] =
                                     [odd |-> ~h.odd, took |-> 0,
                                      skip |-> Min2(BytesReady(p.tx), MaxSend)]]
                      /\ step' = [kind |-> "round", acked |-> p.nLast, took |-> took]
    BY DEF PipeFrame
  <1>2. s \in Slots /\ pipes[s].port = port /\ port # 0
    BY FoundLemma, PortsAssumption
  <1>3. \A t \in Slots : t # s => pipes[t].port # port
    BY <1>2 DEF IInv, OnePipePerPort
  <1>4. PICK p, q, g : p = pipes[s] /\ q = Served(p, h, port, n) /\ g = h
    OBVIOUS
  <1>5. PICK took : took = IF g.odd = p.bExpectOdd THEN q.nLast ELSE g.took
    OBVIOUS
  <1>6. PipeOK(p) /\ p.port = port /\ HostOK(g) /\ Agrees(p, g)
    <2>1. Agrees(pipes[s], host[pipes[s].port])
      BY <1>2 DEF IInv, RoundsAgree
    <2> QED BY <1>2, <1>4, <2>1 DEF IInv, TablesOK
  <1>7. /\ PipeOK(q) /\ q.port = port /\ g.odd # q.bExpectOdd
        /\ IF g.odd = p.bExpectOdd THEN TRUE ELSE q.nLast = g.took
    <2>1. n \in Nat /\ q = Served(p, g, p.port, n) /\ p.port # 0
      BY <1>2, <1>4, <1>6, PortsAssumption
    <2> QED BY <1>6, <2>1, ServedLemma
  <1>8. took = q.nLast
    BY <1>5, <1>7
  <1>9. /\ pipes'[s] = q /\ \A t \in Slots : t # s => pipes'[t] = pipes[t]
        /\ pipes' = [t \in Slots |-> pipes'[t]]
    BY <1>1, <1>2, <1>4 DEF IInv, TablesOK
  <1>10. PICK new : new = IF lost THEN [g EXCEPT !.took = took]
                          ELSE [odd |-> ~g.odd, took |-> 0, skip |-> Min2(BytesReady(q.tx), MaxSend)]
    OBVIOUS
  <1>11. host' = [host EXCEPT ![port] = new]
    BY <1>1, <1>4, <1>5, <1>10
  <1>12. /\ host'[port] = new /\ \A r \in Ports : r # port => host'[r] = host[r]
         /\ host' = [r \in Ports |-> host'[r]]
    BY <1>11 DEF IInv, TablesOK
  <1>13. HostOK(new) /\ Agrees(q, new)
    <2>1. CASE lost
      <3>1. new = [g EXCEPT !.took = took] /\ DOMAIN g = HostFields
        BY <1>6, <1>10, <2>1 DEF HostOK
      <3>2. DOMAIN new = HostFields /\ new.odd = g.odd /\ new.skip = g.skip /\ new.took = took
        BY <3>1 DEF HostFields
      <3> QED BY <1>6, <1>8, <3>2 DEF HostOK, Agrees
    <2>2. CASE ~lost
      <3>1. new = [odd |-> ~g.odd, took |-> 0, skip |-> Min2(BytesReady(q.tx), MaxSend)]
        BY <1>10, <2>2
      <3>2. /\ DOMAIN new = HostFields /\ new.odd = ~g.odd
            /\ new.skip = Min2(BytesReady(q.tx), MaxSend)
        BY <3>1 DEF HostFields
      <3>3. ASSUME NarrowPipes PROVE new.skip \in Nat
        <4>1. IsBuff(q.tx, TxSize) /\ Narrow(TxSize)
          BY <1>7, <3>3 DEF PipeOK, Own, NarrowPipes
        <4>2. BytesReady(q.tx) \in Nat
          BY <4>1, ReadyFree, BuffFields
        <4> QED BY <3>2, <4>2, PortsAssumption DEF Min2
      <3>4. new.odd = q.bExpectOdd /\ new.odd \in BOOLEAN
        BY <1>6, <1>7, <3>2 DEF HostOK, PipeOK
      <3> QED BY <3>2, <3>3, <3>4 DEF HostOK, Agrees
    <2> QED BY <2>1, <2>2
  <1>14. TablesOK'
    <2>1. \A t \in Slots : PipeOK(pipes'[t])
      BY <1>2, <1>7, <1>9 DEF IInv, TablesOK
    <2>2. \A r \in Ports : HostOK(host'[r])
      BY <1>12, <1>13 DEF IInv, TablesOK
    <2>3. opens' \in Nat
      BY DEF PipeFrame, IInv, TablesOK
    <2> QED BY <1>9, <1>12, <2>1, <2>2, <2>3 DEF TablesOK
  <1>15. OnePipePerPort'
    BY <1>2, <1>7, <1>9 DEF IInv, OnePipePerPort
  <1>16. RoundsAgree'
    <2>1. SUFFICES ASSUME NEW t \in Slots, pipes'[t].port # 0
                   PROVE  Agrees(pipes'[t], host'[pipes'[t].port])
      BY DEF RoundsAgree
    <2>2. CASE t = s
      BY <1>7, <1>9, <1>12, <1>13, <2>2
    <2>3. CASE t # s
      <3>1. pipes'[t] = pipes[t] /\ pipes[t].port # port
        BY <1>3, <1>9, <2>3
      <3>2. pipes[t].port \in Ports
        BY <2>1, <3>1 DEF IInv, TablesOK, PipeOK
      <3>3. host'[pipes[t].port] = host[pipes[t].port]
        BY <1>12, <3>1, <3>2
      <3> QED BY <2>1, <3>1, <3>3 DEF IInv, RoundsAgree
    <2> QED BY <2>2, <2>3
  <1>17. AckIsOfThisOpening'
    <2>1. CASE lost
      <3>1. step'.kind = "none"
        BY <1>1, <2>1 DEF Quiet
      <3> QED BY <3>1 DEF AckIsOfThisOpening
    <2>2. CASE ~lost
      <3>1. step' = [kind |-> "round", acked |-> q.nLast, took |-> took]
        BY <1>1, <1>4, <1>5, <2>2
      <3> QED BY <1>8, <3>1 DEF AckIsOfThisOpening
    <2> QED BY <2>1, <2>2
  <1> QED BY <1>14, <1>15, <1>16, <1>17 DEF IInv

\* The calls that print.
LEMMA PrintingLemma ==
    ASSUME IInv, NEW s \in Slots, Printing(s)
    PROVE  IInv'
  <1>1. PICK p : p = pipes[s]
    OBVIOUS
  <1>2. /\ p.opened \in Nat /\ DOMAIN p = PipeFields
        /\ NarrowPipes => p.print \in Seq(STRING) /\ Own(p.tx, TxSize, p.opened)
    BY <1>1 DEF IInv, TablesOK, PipeOK
  <1>3. CASE PipePuts(s)
    <2>1. PICK text \in Strings :
            /\ pipes' = [pipes EXCEPT ![s] = Puts(Called(pipes[s]), text).p]
            /\ step' = Quiet /\ opens' = opens /\ host' = host
      BY <1>3 DEF PipePuts
    <2>2. PICK called, st : called = Called(p) /\ st = Puts(called, text)
      OBVIOUS
    <2>3. Writes(called, p)
      BY <1>2, <2>2, CalledLemma
    <2>4. text \in Seq(STRING)
      BY CallsAssumption
    <2>5. Writes(st, p)
      BY <1>2, <2>2, <2>3, <2>4, PutsLemma
    <2>6. pipes' = [pipes EXCEPT ![s] = st.p] /\ Writes(st, pipes[s])
      BY <1>1, <2>1, <2>2, <2>5
    <2>7. step'.kind # "round"
      BY <2>1 DEF Quiet
    <2> QED BY <2>1, <2>6, <2>7, PrintedLemma
  <1>4. CASE PrintfOneArg(s)
    <2>0. PICK c \in OneCalls :
             \E text : Printed(s, text, PrintfOne(pipes[s], c.format, c.type, c.arg))
      BY <1>4 DEF PrintfOneArg
    <2>1. PICK text : Printed(s, text, PrintfOne(pipes[s], c.format, c.type, c.arg))
      BY <2>0
    <2>2. PICK st : st = PrintfOne(p, c.format, c.type, c.arg)
      OBVIOUS
    <2>3. Writes(st, p)
      BY <1>2, <2>2, PrintfOneLemma
    <2>4. Printed(s, text, st) /\ Writes(st, pipes[s])
      BY <1>1, <2>1, <2>2, <2>3
    <2>5. /\ pipes' = [pipes EXCEPT ![s] = st.p] /\ opens' = opens /\ host' = host
          /\ step' = [kind |-> "print", slot |-> s, text |-> text, put |-> st.put, ok |-> st.ok]
      BY <2>4 DEF Printed
    <2>6. step'.kind # "round"
      BY <2>5
    <2> QED BY <2>4, <2>5, <2>6, PrintedLemma
  <1>5. CASE Printf(s)
    <2>0. PICK c \in ListCalls :
             \E text : Printed(s, text, PrintfV(pipes[s], c.format, c.args))
      BY <1>5 DEF Printf
    <2>1. PICK text : Printed(s, text, PrintfV(pipes[s], c.format, c.args))
      BY <2>0
    <2>2. PICK st : st = PrintfV(p, c.format, c.args)
      OBVIOUS
    <2>3. Writes(st, p)
      BY <1>2, <2>2, PrintfVLemma
    <2>4. Printed(s, text, st) /\ Writes(st, pipes[s])
      BY <1>1, <2>1, <2>2, <2>3
    <2>5. /\ pipes' = [pipes EXCEPT ![s] = st.p] /\ opens' = opens /\ host' = host
          /\ step' = [kind |-> "print", slot |-> s, text |-> text, put |-> st.put, ok |-> st.ok]
      BY <2>4 DEF Printed
    <2>6. step'.kind # "round"
      BY <2>5
    <2> QED BY <2>4, <2>5, <2>6, PrintedLemma
  <1> QED BY <1>3, <1>4, <1>5 DEF Printing

\* A pipe with another port, and one with another receive buffer.
WithPort(p, port) == [p EXCEPT !.port = port]
WithRx(p, rx) == [p EXCEPT !.rx = rx]

LEMMA CloseLemma ==
    ASSUME IInv, NEW s \in Slots, PipeClose(s)
    PROVE  IInv'
  <1>1. PICK p, q : p = pipes[s] /\ q = WithPort(p, 0)
    OBVIOUS
  <1>2. PipeOK(p)
    BY <1>1 DEF IInv, TablesOK
  <1>3. /\ DOMAIN q = PipeFields /\ q.port = 0 /\ q.rx = p.rx /\ q.tx = p.tx
        /\ q.bExpectOdd = p.bExpectOdd /\ q.nLast = p.nLast
        /\ q.print = p.print /\ q.opened = p.opened
    BY <1>1, <1>2 DEF WithPort, PipeOK, PipeFields
  <1>4. PipeOK(q)
    BY <1>2, <1>3 DEF PipeOK
  <1>5. /\ pipes' = [pipes EXCEPT ![s] = q] /\ step'.kind = "none"
        /\ host' = host /\ opens' = opens
    BY <1>1 DEF PipeClose, WithPort, Quiet
  <1> QED BY <1>1, <1>3, <1>4, <1>5, SlotLemma

LEMMA ReadLemma ==
    ASSUME IInv, NEW s \in Slots, PipeRead(s)
    PROVE  IInv'
  <1>1. PICK p, rx : p = pipes[s] /\ rx = Rest(p.rx, BytesReady(p.rx))
    OBVIOUS
  <1>2. PICK q : q = WithRx(p, rx)
    OBVIOUS
  <1>3. PipeOK(p)
    BY <1>1 DEF IInv, TablesOK
  <1>4. /\ DOMAIN q = PipeFields /\ q.port = p.port /\ q.rx = rx /\ q.tx = p.tx
        /\ q.bExpectOdd = p.bExpectOdd /\ q.nLast = p.nLast
        /\ q.print = p.print /\ q.opened = p.opened
    BY <1>2, <1>3 DEF WithRx, PipeOK, PipeFields
  <1>5. ASSUME NarrowPipes PROVE Own(rx, RxSize, p.port)
    BY <1>1, <1>3, <1>5, OwnRest DEF PipeOK, NarrowPipes
  <1>6. PipeOK(q)
    BY <1>3, <1>4, <1>5 DEF PipeOK, Own
  <1>7. /\ pipes' = [pipes EXCEPT ![s] = q] /\ step'.kind = "none"
        /\ host' = host /\ opens' = opens
    BY <1>1, <1>2 DEF PipeRead, WithRx, Quiet
  <1> QED BY <1>1, <1>4, <1>6, <1>7, SlotLemma

\* Steps that change no pipe and no host.
LEMMA IdleLemma ==
    ASSUME IInv, pipes' = pipes, host' = host, opens' = opens, step'.kind # "round" \/ step' = step
    PROVE  IInv'
  <1>1. TablesOK' /\ OnePipePerPort' /\ RoundsAgree'
    BY DEF IInv, TablesOK, OnePipePerPort, RoundsAgree
  <1>2. AckIsOfThisOpening'
    BY DEF IInv, AckIsOfThisOpening
  <1> QED BY <1>1, <1>2 DEF IInv

LEMMA NextLemma ==
    ASSUME IInv, [Next]_vars
    PROVE  IInv'
  <1>1. ASSUME NEW port \in Ports, PipeError(port)
        PROVE  IInv'
    BY <1>1, IdleLemma DEF PipeError, Quiet
  <1>2. ASSUME NEW port \in Ports, GetPipe(port)
        PROVE  IInv'
    <2>1. step'.kind # "round"
      BY <1>2 DEF GetPipe, Quiet
    <2> QED BY <1>2, <2>1, IdleLemma DEF GetPipe
  <1>3. CASE UNCHANGED vars
    BY <1>3, IdleLemma DEF vars
  <1> QED BY <1>1, <1>2, <1>3, OpenLemma, FrameLemma, CloseLemma, PrintingLemma, ReadLemma DEF Next

\* Tables, rounds and buffers always agree, whatever the application opens,
\* closes and prints and whichever responses are lost.
THEOREM Invariance == Spec => []IInv
  <1>1. IInv /\ [Next]_vars => IInv'
    BY NextLemma
  <1> QED BY InitLemma, <1>1, PTL DEF Spec

\* FMSTR_PipeOpen never gives a port a second pipe, whatever was closed before.
THEOREM PortHasOnePipe == Spec => []OnePipePerPort
  <1>1. IInv => OnePipePerPort
    BY DEF IInv
  <1> QED BY <1>1, Invariance, PTL

\* The count in a response is of the bytes this opening of the pipe took in
\* this round of the host, however often the pipe was opened during it.
THEOREM AckOfThisOpening == Spec => []AckIsOfThisOpening
  <1>1. IInv => AckIsOfThisOpening
    BY DEF IInv
  <1> QED BY <1>1, Invariance, PTL

\* A pipe opened in a used slot, or anew on its port, neither sends nor hands
\* out bytes from before, with buffers no longer than FMSTR_SIZE8 counts.
THEOREM NothingInherited ==
    ASSUME NarrowPipes
    PROVE  Spec => []BuffersAreOwn
  <1>1. ASSUME NEW size, Narrow(size), NEW b, NEW v, Own(b, size, v)
        PROVE  \A i \in DOMAIN Peek(b, BytesReady(b)) : Peek(b, BytesReady(b))[i] = v
    <2>1. PICK n \in Nat : n = BytesReady(b)
      BY <1>1, ReadyFree, BuffFields DEF Own
    <2>2. \A i \in 1 .. n : i - 1 \in 0 .. n - 1
      OBVIOUS
    <2>3. \A i \in 0 .. n - 1 : b.buff[Cell(b, i)] = v
      BY <1>1, <2>1 DEF Own
    <2> QED BY <2>1, <2>2, <2>3 DEF Peek
  <1>2. IInv => BuffersAreOwn
    <2>1. SUFFICES ASSUME IInv, NEW s \in Slots, pipes[s].port # 0
                   PROVE  LET p   == pipes[s]
                              out == Peek(p.tx, BytesReady(p.tx))
                              in  == Peek(p.rx, BytesReady(p.rx))
                          IN  /\ \A i \in DOMAIN out : out[i] = p.opened
                              /\ \A i \in DOMAIN in : in[i] = p.port
      BY DEF BuffersAreOwn
    <2>2. PICK p : p = pipes[s]
      OBVIOUS
    <2>3. Own(p.rx, RxSize, p.port) /\ Own(p.tx, TxSize, p.opened)
      BY <2>1, <2>2 DEF IInv, TablesOK, PipeOK
    <2>4. Narrow(RxSize) /\ Narrow(TxSize)
      BY DEF NarrowPipes
    <2>5. \A i \in DOMAIN Peek(p.tx, BytesReady(p.tx)) : Peek(p.tx, BytesReady(p.tx))[i] = p.opened
      BY <1>1, <2>3, <2>4
    <2>6. \A i \in DOMAIN Peek(p.rx, BytesReady(p.rx)) : Peek(p.rx, BytesReady(p.rx))[i] = p.port
      BY <1>1, <2>3, <2>4
    <2> QED BY <2>2, <2>5, <2>6
  <1> QED BY <1>2, Invariance, PTL
-----------------------------------------------------------------------------
(* What is printed.                                                        *)

\* The call st on pipe p has printed u: what it put into the pipe and what is
\* left in printfBuff come behind what was left there before.
Exactly(st, p, u) ==
    /\ st.put \in Seq(STRING) /\ st.p.print \in Seq(STRING)
    /\ u \in Seq(STRING) /\ st.put \o st.p.print = p.print \o u

\* Or, if it has ended early, the beginning of u.
Partly(st, p, u) ==
    /\ u \in Seq(STRING)
    /\ \E t, v \in Seq(STRING) : Exactly(st, p, t) /\ u = t \o v

HasPrinted(st, p, u) == Partly(st, p, u) /\ (st.ok => Exactly(st, p, u))

\* Texts.
LEMMA TextLemma ==
    ASSUME NEW s \in Seq(STRING), NEW t \in Seq(STRING)
    PROVE  /\ s \o t \in Seq(STRING) /\ Len(s \o t) = Len(s) + Len(t)
           /\ s \o <<>> = s /\ <<>> \o s = s
           /\ \A c \in STRING : Append(s, c) \in Seq(STRING) /\ Append(s, c) = s \o <<c>>
  <1>1. s \o t \in Seq(STRING) /\ Len(s \o t) = Len(s) + Len(t)
    BY ConcatProperties
  <1>2. s \o <<>> = s /\ <<>> \o s = s
    BY ConcatEmptySeq
  <1>3. \A c \in STRING : Append(s, c) \in Seq(STRING) /\ Append(s, c) = s \o <<c>>
    BY AppendProperties, AppendIsConcat, Zenon
  <1> QED BY <1>1, <1>2, <1>3

LEMMA ThreeTexts ==
    ASSUME NEW s \in Seq(STRING), NEW t \in Seq(STRING), NEW u \in Seq(STRING)
    PROVE  (s \o t) \o u = s \o (t \o u)
  BY ConcatAssociative

\* FMSTR_PipeWrite puts as much as there is room for.
LEMMA WrittenText ==
    ASSUME NarrowPipes, NEW p, NEW st, Writes(st, p), NEW text \in Seq(STRING),
           NEW n, n = Min2(Len(text), BytesFree(st.p.tx)), NEW q, q = Write(st, text)
    PROVE  /\ n \in 0 .. Len(text) /\ q.put = st.put \o SubSeq(text, 1, n)
           /\ BytesFree(st.p.tx) \in Nat
  <1>1. DOMAIN st = CallFields
    BY DEF Writes, Continues
  <1>2. BytesFree(st.p.tx) \in Nat
    BY ReadyFree, BuffFields DEF Own, Writes, NarrowPipes
  <1>3. n \in 0 .. Len(text) /\ n = Whole(Len(text), BytesFree(st.p.tx), 0)
    BY <1>2 DEF Whole, Min2
  <1>4. q.put = st.put \o SubSeq(text, 1, n)
    <2>1. PICK tx, put : /\ tx = Put(st.p.tx, Bytes(st.p, SubSeq(text, 1, n)))
                         /\ put = st.put \o SubSeq(text, 1, n)
      OBVIOUS
    <2>2. q = WithWritten(st, tx, put)
      BY <1>3, <2>1 DEF Write, WithWritten
    <2>3. q.put = put
      BY <1>1, <2>2 DEF WithWritten, CallFields
    <2> QED BY <2>1, <2>3
  <1> QED BY <1>2, <1>3, <1>4

\* Flushing moves characters from printfBuff into the pipe, all if it succeeds.
LEMMA FlushedLemma ==
    ASSUME NarrowPipes, NEW p, p.opened \in Nat, NEW st, Writes(st, p), NEW u, Exactly(st, p, u),
           NEW q, q = PrintfFlush(st)
    PROVE  Exactly(q, p, u) /\ (q.ok => q.p.print = <<>>)
  <1>1. PICK text \in Seq(STRING) : text = st.p.print
    BY DEF Exactly
  <1>2. PICK w : w = Write(st, text)
    OBVIOUS
  <1>3. Writes(w, p)
    BY <1>1, <1>2, WriteLemma
  <1>4. PICK n : n = Min2(Len(text), BytesFree(st.p.tx))
    OBVIOUS
  <1>5. n \in 0 .. Len(text) /\ w.put = st.put \o SubSeq(text, 1, n)
    BY <1>2, <1>4, WrittenText
  <1>6. DOMAIN w = CallFields /\ DOMAIN w.p = PipeFields
    BY <1>3 DEF Writes, Continues
  <1>7. w.p.print = text
    BY <1>1, <1>2, WriteLemma
  <1>8. PICK rest, ok : rest = SubSeq(text, n + 1, Len(text)) /\ ok = (n = Len(text))
    OBVIOUS
  <1>9. q = [w EXCEPT !.ok = n = Len(text), !.p.print = SubSeq(@, n + 1, Len(@))]
    BY <1>1, <1>2, <1>4 DEF PrintfFlush
  <1>10. q.ok = (n = Len(text)) /\ q.p.print = rest /\ q.put = w.put
    <2>1. [w EXCEPT !.ok = ok, !.p.print = rest].ok = ok
      BY <1>6 DEF CallFields
    <2>2. /\ [w EXCEPT !.ok = ok, !.p.print = rest].p.print = rest
          /\ [w EXCEPT !.ok = ok, !.p.print = rest].put = w.put
      BY <1>6 DEF CallFields, PipeFields
    <2>3. q = [w EXCEPT !.ok = ok, !.p.print = rest]
      BY <1>7, <1>8, <1>9
    <2> QED BY <1>8, <2>1, <2>2, <2>3
  <1>11. Len(text) \in Nat /\ n \in 0 .. Len(text)
    BY <1>5
  <1>12. SubSeq(text, 1, n) \in Seq(STRING) /\ rest \in Seq(STRING)
    BY <1>8, <1>11
  <1>13. SubSeq(text, 1, n) \o rest = text
    <2>1. 1 \in 1 .. Len(text) + 1 /\ n \in 1 - 1 .. Len(text) /\ Len(text) \in n .. Len(text)
      BY <1>11
    <2>2. SubSeq(text, 1, n) \o SubSeq(text, n + 1, Len(text)) = SubSeq(text, 1, Len(text))
      BY <2>1, ConcatAdjacentSubSeq
    <2> QED BY <1>8, <2>2, SubSeqFull
  <1>14. (st.put \o SubSeq(text, 1, n)) \o rest = st.put \o text
    <2>1. PICK a \in Seq(STRING), b \in Seq(STRING) : a = st.put /\ b = SubSeq(text, 1, n)
      BY <1>12 DEF Exactly
    <2>2. (a \o b) \o rest = a \o (b \o rest)
      BY <1>12, ThreeTexts
    <2> QED BY <1>13, <2>1, <2>2
  <1>15. q.put \in Seq(STRING)
    BY <1>5, <1>10, <1>12, TextLemma DEF Exactly
  <1>16. q.ok => q.p.print = <<>>
    <2>1. n = Len(text) => SubSeq(text, n + 1, Len(text)) = <<>>
      BY <1>11, SubSeqEmpty
    <2> QED BY <1>8, <1>10, <2>1
  <1> QED BY <1>1, <1>5, <1>10, <1>12, <1>14, <1>15, <1>16 DEF Exactly

\* What is behind u.
LEMMA ExactlyMore ==
    ASSUME NEW st, NEW p, p.print \in Seq(STRING), NEW u, Exactly(st, p, u),
           NEW s \in Seq(STRING), NEW put \in Seq(STRING), NEW print \in Seq(STRING),
           put \o print = (st.put \o st.p.print) \o s,
           NEW q, q.put = put, q.p.print = print
    PROVE  Exactly(q, p, u \o s)
  <1>1. (p.print \o u) \o s = p.print \o (u \o s)
    <2>1. PICK a \in Seq(STRING), b \in Seq(STRING) : a = p.print /\ b = u
      BY DEF Exactly
    <2>2. (a \o b) \o s = a \o (b \o s)
      BY ThreeTexts, SMTT(60)
    <2> QED BY <2>1, <2>2
  <1>2. u \o s \in Seq(STRING)
    BY TextLemma DEF Exactly
  <1> QED BY <1>1, <1>2 DEF Exactly

LEMMA PutcPrints ==
    ASSUME NarrowPipes, NEW p, p.opened \in Nat, p.print \in Seq(STRING),
           NEW st, Writes(st, p), NEW u, st.ok, Exactly(st, p, u),
           NEW c \in STRING, NEW q, q = PrintfPutc(st, c)
    PROVE  IF q.ok THEN Exactly(q, p, u \o <<c>>) ELSE Exactly(q, p, u)
  <1>1. PICK w : w = IF Len(st.p.print) >= PrintfSize THEN PrintfFlush(st) ELSE st
    OBVIOUS
  <1>2. Writes(w, p) /\ Exactly(w, p, u)
    BY <1>1, FlushLemma, FlushedLemma
  <1>3. CASE ~w.ok
    BY <1>1, <1>2, <1>3 DEF PrintfPutc
  <1>4. CASE w.ok
    <2>1. DOMAIN w = CallFields /\ DOMAIN w.p = PipeFields
      BY <1>2 DEF Writes, Continues
    <2>2. PICK print : print = Append(w.p.print, c)
      OBVIOUS
    <2>3. q = [w EXCEPT !.p.print = print]
      BY <1>1, <1>4, <2>2 DEF PrintfPutc
    <2>4. q.ok = w.ok /\ q.put = w.put /\ q.p.print = print
      BY <2>1, <2>3 DEF CallFields, PipeFields
    <2>5. print = w.p.print \o <<c>> /\ print \in Seq(STRING) /\ <<c>> \in Seq(STRING)
      <3>1. w.p.print \in Seq(STRING)
        BY <1>2 DEF Exactly
      <3>2. <<c>> \in Seq(STRING)
        OBVIOUS
      <3> QED BY <2>2, <3>1, <3>2, TextLemma
    <2>6. w.put \o print = (w.put \o w.p.print) \o <<c>>
      <3>1. PICK a \in Seq(STRING), b \in Seq(STRING), d \in Seq(STRING) :
                a = w.put /\ b = w.p.print /\ d = <<c>>
        BY <1>2, <2>5 DEF Exactly
      <3>2. (a \o b) \o d = a \o (b \o d)
        BY ThreeTexts
      <3> QED BY <2>5, <3>1, <3>2
    <2>7. w.put \in Seq(STRING)
      BY <1>2 DEF Exactly
    <2>8. Exactly(q, p, u \o <<c>>)
      BY <1>2, <2>4, <2>5, <2>6, <2>7, ExactlyMore
    <2> QED BY <1>4, <2>4, <2>8
  <1> QED BY <1>3, <1>4

\* After an item that stands for s the call has printed it, or has ended.
ItemDone(q, p, u, s) == IF q.ok THEN Exactly(q, p, u \o s) ELSE Exactly(q, p, u)

LEMMA DoneLemma ==
    ASSUME NEW p, NEW q, NEW u \in Seq(STRING), NEW s \in Seq(STRING), ItemDone(q, p, u, s)
    PROVE  HasPrinted(q, p, u \o s)
  <1>1. PICK w \in Seq(STRING) : w = u \o s
    BY TextLemma
  <1>2. w = w \o <<>> /\ <<>> \in Seq(STRING)
    BY TextLemma
  <1>3. CASE q.ok
    <2>1. Exactly(q, p, w)
      BY <1>1, <1>3 DEF ItemDone
    <2>2. Partly(q, p, w)
      BY <1>2, <2>1 DEF Partly
    <2> QED BY <1>1, <2>1, <2>2 DEF HasPrinted
  <1>4. CASE ~q.ok
    <2>1. Exactly(q, p, u)
      BY <1>4 DEF ItemDone
    <2>2. Partly(q, p, w)
      BY <1>1, <2>1 DEF Partly
    <2> QED BY <1>1, <1>4, <2>2 DEF HasPrinted
  <1> QED BY <1>3, <1>4

\* What ends early stays the beginning of whatever more is asked for.
LEMMA EndedLemma ==
    ASSUME NEW p, NEW st, NEW u, HasPrinted(st, p, u), ~st.ok, NEW s \in Seq(STRING)
    PROVE  HasPrinted(st, p, u \o s)
  <1>1. PICK t \in Seq(STRING), v \in Seq(STRING) : Exactly(st, p, t) /\ u = t \o v
    BY DEF HasPrinted, Partly
  <1>2. PICK w \in Seq(STRING) : w = v \o s
    BY TextLemma
  <1>3. u \o s = t \o w
    BY <1>1, <1>2, ThreeTexts
  <1>4. t \o w \in Seq(STRING)
    BY TextLemma
  <1> QED BY <1>1, <1>3, <1>4 DEF HasPrinted, Partly

\* A converted number, and a string, behind an empty printfBuff.
LEMMA NumberPrints ==
    ASSUME NEW p, p.print \in Seq(STRING), NEW st, Writes(st, p), NEW u, Exactly(st, p, u), st.p.print = <<>>,
           NEW s \in Seq(STRING), NEW text, text.text = IF text.ok THEN s ELSE <<>>,
           NEW q, q = Number(st, text)
    PROVE  ItemDone(q, p, u, s)
  <1>1. DOMAIN st = CallFields /\ DOMAIN st.p = PipeFields
    BY DEF Writes, Continues
  <1>2. q.ok = text.ok /\ q.put = st.put /\ q.p.print = text.text
    BY <1>1 DEF Number, CallFields, PipeFields
  <1>3. PICK a \in Seq(STRING) : a = st.put
    BY DEF Exactly
  <1>4. a \o <<>> = a
    BY TextLemma
  <1>5. CASE text.ok
    <2>1. q.put \o q.p.print = (st.put \o st.p.print) \o s
      BY <1>2, <1>3, <1>4, <1>5
    <2>2. Exactly(q, p, u \o s)
      BY <1>2, <1>3, <1>5, <2>1, ExactlyMore
    <2> QED BY <1>2, <1>5, <2>2 DEF ItemDone
  <1>6. CASE ~text.ok
    <2>1. Exactly(q, p, u)
      BY <1>2, <1>6 DEF Exactly
    <2> QED BY <1>2, <1>6, <2>1 DEF ItemDone
  <1> QED BY <1>5, <1>6

LEMMA PutsPrints ==
    ASSUME NarrowPipes, NEW p, p.opened \in Nat, p.print \in Seq(STRING),
           NEW st, Writes(st, p), NEW u, Exactly(st, p, u), st.p.print = <<>>, st.ok,
           NEW s \in Seq(STRING), NEW q, q = Puts(st, s)
    PROVE  ItemDone(q, p, u, s)
  <1>1. DOMAIN st = CallFields /\ DOMAIN st.p = PipeFields
    BY DEF Writes, Continues
  <1>2. CASE Len(s) > BytesFree(st.p.tx)
    <2>1. q = [st EXCEPT !.ok = FALSE]
      BY <1>2 DEF Puts
    <2>2. q.ok = FALSE /\ q.put = st.put /\ q.p = st.p
      BY <1>1, <2>1 DEF CallFields
    <2> QED BY <2>2 DEF ItemDone, Exactly
  <1>3. CASE ~(Len(s) > BytesFree(st.p.tx))
    <2>1. q = Write(st, s)
      BY <1>3 DEF Puts
    <2>2. PICK n : n = Min2(Len(s), BytesFree(st.p.tx))
      OBVIOUS
    <2>3. q.put = st.put \o SubSeq(s, 1, n) /\ BytesFree(st.p.tx) \in Nat
      BY <2>1, <2>2, WrittenText
    <2>4. n = Len(s)
      BY <1>3, <2>2, <2>3 DEF Min2
    <2>5. q.put = st.put \o s
      BY <2>3, <2>4, SubSeqFull
    <2>6. q.ok /\ q.p.print = <<>>
      BY <2>1, WriteLemma
    <2>7. PICK a \in Seq(STRING), b \in Seq(STRING) : a = st.put /\ b = a \o s
      BY TextLemma DEF Exactly
    <2>8. a \o <<>> = a /\ b \o <<>> = b /\ <<>> \in Seq(STRING)
      BY TextLemma
    <2>9. q.put \o q.p.print = (st.put \o st.p.print) \o s /\ q.put \in Seq(STRING)
      BY <2>5, <2>6, <2>7, <2>8
    <2>10. Exactly(q, p, u \o s)
      BY <2>6, <2>8, <2>9, ExactlyMore
    <2> QED BY <2>6, <2>10 DEF ItemDone
  <1> QED BY <1>2, <1>3

\* What an item of a format stands for, if r is what its conversion returns.
Stands(item, r, s) ==
    IF item.k = "char" THEN item.c \in STRING /\ s = <<item.c>>
    ELSE r.text = IF r.ok THEN s ELSE <<>>

LEMMA OneItemPrints ==
    ASSUME NarrowPipes, NEW p, p.opened \in Nat, p.print \in Seq(STRING),
           NEW st, Writes(st, p), NEW u, HasPrinted(st, p, u),
           NEW item, NEW type, NEW arg, NEW s \in Seq(STRING),
           Stands(item, OneToA(type, arg, ParseFormat(item)), s),
           NEW q, q = OneItem(st, item, type, arg)
    PROVE  HasPrinted(q, p, u \o s)
  <1>1. u \in Seq(STRING)
    BY DEF HasPrinted, Partly
  <1>2. CASE ~st.ok
    BY <1>2, EndedLemma DEF OneItem
  <1>3. CASE st.ok /\ item.k = "char"
    <2>1. q = PrintfPutc(st, item.c) /\ item.c \in STRING /\ s = <<item.c>>
      BY <1>3 DEF OneItem, Stands
    <2>2. Exactly(st, p, u)
      BY <1>3 DEF HasPrinted
    <2>3. PICK c \in STRING : c = item.c
      BY <2>1
    <2>4. ItemDone(q, p, u, s)
      BY <1>3, <2>1, <2>2, <2>3, PutcPrints DEF ItemDone
    <2> QED BY <1>1, <2>4, DoneLemma
  <1>4. CASE st.ok /\ item.k # "char"
    <2>1. PICK w, text : w = PrintfFlush(st) /\ text = OneToA(type, arg, ParseFormat(item))
      OBVIOUS
    <2>2. Exactly(st, p, u)
      BY <1>4 DEF HasPrinted
    <2>3. Writes(w, p) /\ Exactly(w, p, u) /\ (w.ok => w.p.print = <<>>)
      BY <2>1, <2>2, FlushLemma, FlushedLemma
    <2>4. q = IF ~w.ok THEN w ELSE Number(w, text)
      BY <1>4, <2>1 DEF OneItem
    <2>5. text.text = IF text.ok THEN s ELSE <<>>
      BY <1>4, <2>1 DEF Stands
    <2>6. ItemDone(q, p, u, s)
      <3>1. CASE ~w.ok
        BY <2>3, <2>4, <3>1 DEF ItemDone
      <3>2. CASE w.ok
        BY <2>3, <2>4, <2>5, <3>2, NumberPrints
      <3> QED BY <3>1, <3>2
    <2> QED BY <1>1, <2>6, DoneLemma
  <1> QED BY <1>2, <1>3, <1>4

\* The same with the next of a list of arguments.
StandsNext(item, arg, s) ==
    IF item.k = "char" THEN item.c \in STRING /\ s = <<item.c>>
    ELSE IF ParseFormat(item).isstring THEN s = arg
    ELSE LET r == PrintfAny(arg, ParseFormat(item)) IN r.text = IF r.ok THEN s ELSE <<>>

LEMMA NextItemPrints ==
    ASSUME NarrowPipes, NEW p, p.opened \in Nat, p.print \in Seq(STRING),
           NEW st, Writes(st, p), NEW u, HasPrinted(st, p, u),
           NEW item, NEW args, NEW s \in Seq(STRING),
           st.ok => StandsNext(item, args[st.args + 1], s),
           NEW q, q = NextItem(st, item, args)
    PROVE  HasPrinted(q, p, u \o s)
  <1>1. u \in Seq(STRING)
    BY DEF HasPrinted, Partly
  <1>2. CASE ~st.ok
    BY <1>2, EndedLemma DEF NextItem
  <1>3. CASE st.ok /\ item.k = "char"
    <2>1. q = PrintfPutc(st, item.c) /\ item.c \in STRING /\ s = <<item.c>>
      BY <1>3 DEF NextItem, StandsNext
    <2>2. Exactly(st, p, u)
      BY <1>3 DEF HasPrinted
    <2>3. PICK c \in STRING : c = item.c
      BY <2>1
    <2>4. ItemDone(q, p, u, s)
      BY <1>3, <2>1, <2>2, <2>3, PutcPrints DEF ItemDone
    <2> QED BY <1>1, <2>4, DoneLemma
  <1>4. CASE st.ok /\ item.k # "char"
    <2>1. PICK w : w = PrintfFlush(st)
      OBVIOUS
    <2>2. Exactly(st, p, u)
      BY <1>4 DEF HasPrinted
    <2>3. Writes(w, p) /\ w.args = st.args /\ Exactly(w, p, u) /\ (w.ok => w.p.print = <<>>)
      BY <2>1, <2>2, FlushLemma, FlushedLemma
    <2>4. PICK n : n = w.args + 1
      OBVIOUS
    <2>5. PICK taken : taken = WithArgs(w, n)
      OBVIOUS
    <2>6. Writes(taken, p) /\ taken.args = n
      BY <2>3, <2>5, ArgsLemma
    <2>7. taken.put = w.put /\ taken.p = w.p /\ taken.ok = w.ok
      <3>1. DOMAIN w = CallFields
        BY <2>3 DEF Writes, Continues
      <3> QED BY <2>5, <3>1 DEF WithArgs, CallFields
    <2>8. Exactly(taken, p, u)
      BY <2>3, <2>7 DEF Exactly
    <2>9. PICK arg, ctx : arg = args[st.args + 1] /\ ctx = ParseFormat(item)
      OBVIOUS
    <2>10. q = IF ~w.ok THEN w
               ELSE IF ctx.isstring THEN Puts(taken, arg)
               ELSE Number(taken, PrintfAny(arg, ctx))
      <3>1. taken = [w EXCEPT !.args = @ + 1]
        BY <2>4, <2>5 DEF WithArgs
      <3>2. taken.args = st.args + 1
        BY <2>3, <2>4, <2>6
      <3> QED BY <1>4, <2>1, <2>9, <3>1, <3>2 DEF NextItem
    <2>11. StandsNext(item, arg, s)
      BY <1>4, <2>9
    <2>12. ItemDone(q, p, u, s)
      <3>1. CASE ~w.ok
        BY <2>3, <2>10, <3>1 DEF ItemDone
      <3>2. CASE w.ok /\ ctx.isstring
        <4>1. q = Puts(taken, s)
          BY <1>4, <2>9, <2>10, <2>11, <3>2 DEF StandsNext
        <4> QED BY <2>3, <2>6, <2>7, <2>8, <3>2, <4>1, PutsPrints
      <3>3. CASE w.ok /\ ~ctx.isstring
        <4>1. PICK text : text = PrintfAny(arg, ctx)
          OBVIOUS
        <4>2. q = Number(taken, text)
          BY <2>10, <3>3, <4>1
        <4>3. text.text = IF text.ok THEN s ELSE <<>>
          BY <1>4, <2>9, <2>11, <3>3, <4>1 DEF StandsNext
        <4> QED BY <2>3, <2>6, <2>7, <2>8, <3>3, <4>2, <4>3, NumberPrints
      <3> QED BY <3>1, <3>2, <3>3
    <2> QED BY <1>1, <2>12, DoneLemma
  <1> QED BY <1>2, <1>3, <1>4

\* The text of the items up to each of them.
Texts(texts, seqs, n) ==
    /\ texts[0] = <<>>
    /\ \A i \in 1 .. n : texts[i] = texts[i - 1] \o seqs[i]

FlatLoop(seqs, flat) ==
    [i \in 1 .. Len(seqs) |-> IF i = 1 THEN seqs[i] ELSE flat[i - 1] \o seqs[i]]

LEMMA TextsAreTexts ==
    ASSUME NEW n \in Nat, NEW seqs, \A i \in 1 .. n : seqs[i] \in Seq(STRING),
           NEW texts, Texts(texts, seqs, n)
    PROVE  \A i \in 0 .. n : texts[i] \in Seq(STRING)
  <1> DEFINE Bad == {i \in 0 .. n : texts[i] \notin Seq(STRING)}
  <1>1. Bad = {}
    <2>1. SUFFICES ASSUME Bad # {} PROVE FALSE
      OBVIOUS
    <2>2. PICK i \in Bad : \A j \in Bad : i <= j
      <3>1. Bad \in SUBSET Nat
        OBVIOUS
      <3> HIDE DEF Bad
      <3> QED BY <2>1, <3>1, LeastNat
    <2>3. i # 0
      <3>1. texts[0] = <<>> /\ <<>> \in Seq(STRING)
        BY DEF Texts
      <3> QED BY <2>2, <3>1
    <2>4. i \in 1 .. n /\ i - 1 \in 0 .. n /\ texts[i - 1] \in Seq(STRING)
      BY <2>2, <2>3
    <2>5. texts[i] = texts[i - 1] \o seqs[i] /\ seqs[i] \in Seq(STRING)
      BY <2>4 DEF Texts
    <2> QED BY <2>2, <2>4, <2>5, TextLemma
  <1> QED BY <1>1

LEMMA SomeTexts ==
    ASSUME NEW seqs, NEW n \in Nat
    PROVE  \E g : Texts(g, seqs, n)
  <1> DEFINE Bad == {m \in Nat : ~\E g : Texts(g, seqs, m)}
  <1>1. Bad = {}
    <2>1. SUFFICES ASSUME Bad # {} PROVE FALSE
      OBVIOUS
    <2>2. PICK m \in Bad : \A j \in Bad : m <= j
      BY <2>1, LeastNat
    <2>3. CASE m = 0
      <3>1. Texts([i \in 0 .. 0 |-> <<>>], seqs, 0)
        BY DEF Texts
      <3> QED BY <2>2, <2>3, <3>1
    <2>4. CASE m # 0
      <3>1. m \in Nat /\ m - 1 \in Nat /\ m - 1 \notin Bad
        BY <2>2, <2>4
      <3>2. PICK g : Texts(g, seqs, m - 1)
        BY <3>1
      <3>3. PICK h : h = [i \in 0 .. m |-> IF i = m THEN g[m - 1] \o seqs[m] ELSE g[i]]
        OBVIOUS
      <3>4. \A i \in 0 .. m - 1 : h[i] = g[i]
        BY <3>1, <3>3
      <3>5. h[m] = g[m - 1] \o seqs[m]
        BY <3>1, <3>3
      <3>6. ASSUME NEW i \in 1 .. m
            PROVE  h[i] = h[i - 1] \o seqs[i]
        <4>1. CASE i = m
          <5>1. h[m - 1] = g[m - 1]
            BY <3>1, <3>4
          <5> QED BY <3>5, <4>1, <5>1
        <4>2. CASE i # m
          <5>1. i \in 1 .. m - 1 /\ i \in 0 .. m - 1 /\ i - 1 \in 0 .. m - 1
            BY <3>1, <4>2
          <5>2. h[i] = g[i] /\ h[i - 1] = g[i - 1]
            BY <3>4, <5>1
          <5>3. g[i] = g[i - 1] \o seqs[i]
            BY <3>2, <5>1 DEF Texts
          <5> QED BY <5>2, <5>3
        <4> QED BY <4>1, <4>2
      <3>7. h[0] = <<>>
        BY <3>1, <3>2, <3>4 DEF Texts
      <3>8. Texts(h, seqs, m)
        BY <3>6, <3>7 DEF Texts
      <3> QED BY <2>2, <3>8
    <2> QED BY <2>3, <2>4
  <1> QED BY <1>1

LEMMA FlattenLemma ==
    ASSUME NEW n \in Nat, NEW seqs \in Seq(Seq(STRING)), Len(seqs) = n
    PROVE  \E texts : /\ Texts(texts, seqs, n) /\ texts[n] = FlattenSeq(seqs)
                      /\ \A i \in 0 .. n : texts[i] \in Seq(STRING)
  <1>1. \A i \in 1 .. n : seqs[i] \in Seq(STRING)
    OBVIOUS
  <1>2. \E g : Texts(g, seqs, n)
    BY SomeTexts
  <1>3. PICK g : Texts(g, seqs, n)
    BY <1>2
  <1>4. \E flat : flat = FlatLoop(seqs, flat)
    <2>1. PICK flat : flat = [i \in 1 .. n |-> g[i]]
      OBVIOUS
    <2>2. ASSUME NEW i \in 1 .. n
          PROVE  flat[i] = IF i = 1 THEN seqs[i] ELSE flat[i - 1] \o seqs[i]
      <3>1. flat[i] = g[i - 1] \o seqs[i]
        BY <1>3, <2>1 DEF Texts
      <3>2. CASE i = 1
        <4>1. PICK s \in Seq(STRING) : s = seqs[i]
          BY <1>1
        <4>2. <<>> \o s = s
          BY TextLemma
        <4> QED BY <1>3, <3>1, <3>2, <4>1, <4>2 DEF Texts
      <3>3. CASE i # 1
        <4>1. i - 1 \in 1 .. n
          BY <3>3
        <4> QED BY <2>1, <3>1, <3>3, <4>1
      <3> QED BY <3>2, <3>3
    <2>3. flat = FlatLoop(seqs, flat)
      BY <2>1, <2>2 DEF FlatLoop
    <2> QED BY <2>3
  <1>5. PICK flat : flat = CHOOSE f : f = FlatLoop(seqs, f)
    OBVIOUS
  <1>6. flat = FlatLoop(seqs, flat)
    BY <1>4, <1>5
  <1>7. n # 0 => FlattenSeq(seqs) = flat[n]
    BY <1>5 DEF FlattenSeq, FlatLoop
  <1>8. PICK texts : texts = [i \in 0 .. n |-> IF i = 0 THEN <<>> ELSE flat[i]]
    OBVIOUS
  <1>9. Texts(texts, seqs, n)
    <2>1. texts[0] = <<>>
      BY <1>8
    <2>2. ASSUME NEW i \in 1 .. n PROVE texts[i] = texts[i - 1] \o seqs[i]
      <3>1. texts[i] = flat[i]
        BY <1>8
      <3>2. flat[i] = IF i = 1 THEN seqs[i] ELSE flat[i - 1] \o seqs[i]
        BY <1>6 DEF FlatLoop
      <3>3. CASE i = 1
        <4>1. PICK s \in Seq(STRING) : s = seqs[i]
          BY <1>1
        <4>2. <<>> \o s = s
          BY TextLemma
        <4> QED BY <2>1, <3>1, <3>2, <3>3, <4>1, <4>2
      <3>4. CASE i # 1
        <4>1. i - 1 \in 0 .. n /\ i - 1 # 0
          BY <3>4
        <4> QED BY <1>8, <3>1, <3>2, <3>4, <4>1
      <3> QED BY <3>3, <3>4
    <2> QED BY <2>1, <2>2 DEF Texts
  <1>10. texts[n] = FlattenSeq(seqs)
    <2>1. CASE n = 0
      <3>1. seqs = <<>> /\ FlattenSeq(seqs) = seqs
        BY <2>1 DEF FlattenSeq
      <3> QED BY <1>8, <2>1, <3>1
    <2>2. CASE n # 0
      BY <1>7, <1>8, <2>2
    <2> QED BY <2>1, <2>2
  <1>11. \A i \in 0 .. n : texts[i] \in Seq(STRING)
    BY <1>1, <1>9, TextsAreTexts
  <1> QED BY <1>9, <1>10, <1>11

\* A call begins with nothing printed, and ends with a flush.
LEMMA CalledPrints ==
    ASSUME NEW p, p.print \in Seq(STRING), NEW st, st = Called(p)
    PROVE  HasPrinted(st, p, <<>>)
  <1>1. st.ok /\ st.p = p /\ st.put = <<>>
    BY DEF Called
  <1>2. PICK a \in Seq(STRING) : a = p.print
    OBVIOUS
  <1>3. PICK e : e = <<>> /\ e \in Seq(STRING)
    BY EmptySeq
  <1>4. e \o a = a \o e /\ e = e \o e
    BY <1>3, TextLemma
  <1>5. Exactly(st, p, e)
    BY <1>1, <1>2, <1>3, <1>4 DEF Exactly
  <1>6. Partly(st, p, e)
    BY <1>3, <1>4, <1>5 DEF Partly
  <1> QED BY <1>3, <1>5, <1>6 DEF HasPrinted

LEMMA FinishedPrints ==
    ASSUME NarrowPipes, NEW p, p.opened \in Nat, NEW st, Writes(st, p), NEW u, HasPrinted(st, p, u),
           NEW q, q = Finished(st)
    PROVE  HasPrinted(q, p, u) /\ (q.ok => q.p.print = <<>>)
  <1>1. CASE ~st.ok
    BY <1>1 DEF Finished
  <1>2. CASE st.ok
    <2>1. PICK a \in Seq(STRING) : a = u
      BY DEF HasPrinted, Partly
    <2>2. a = a \o <<>> /\ <<>> \in Seq(STRING)
      BY TextLemma
    <2>3. q = PrintfFlush(st) /\ Exactly(st, p, u)
      BY <1>2 DEF Finished, HasPrinted
    <2>4. Exactly(q, p, u) /\ (q.ok => q.p.print = <<>>)
      BY <2>3, FlushedLemma
    <2>5. Partly(q, p, u)
      BY <2>1, <2>2, <2>4 DEF Partly
    <2> QED BY <2>4, <2>5 DEF HasPrinted
  <1> QED BY <1>1, <1>2

LEMMA SeqLemma ==
    ASSUME NEW S, NEW n \in Nat, NEW f, f = [i \in 1 .. n |-> f[i]], \A i \in 1 .. n : f[i] \in S
    PROVE  f \in Seq(S) /\ Len(f) = n
  OBVIOUS

\* The calls print the text of their formats.
OneText(c) == [i \in DOMAIN c.format |-> ItemText(c.format[i], BytesOfType(c.type), c.arg)]

LEMMA OneStands ==
    ASSUME Converted, NEW c \in OneCalls, NEW i \in 1 .. Len(c.format),
           NEW f, f = c.format[i], NEW s, s = ItemText(f, BytesOfType(c.type), c.arg)
    PROVE  s \in Seq(STRING) /\ Stands(f, OneToA(c.type, c.arg, ParseFormat(f)), s)
  <1>1. CASE f.k = "char"
    <2>1. PICK char \in STRING : char = f.c
      BY <1>1, CallsAssumption
    <2>2. s = <<char>> /\ <<char>> \in Seq(STRING)
      BY <1>1, <2>1 DEF ItemText
    <2> QED BY <1>1, <2>1, <2>2 DEF Stands
  <1>2. CASE f.k # "char"
    <2>1. PICK r, bytes, arg : /\ r = OneToA(c.type, c.arg, ParseFormat(f))
                               /\ bytes = BytesOfType(c.type) /\ arg = c.arg
      OBVIOUS
    <2>2. Converts(r, f, bytes, arg)
      BY <1>2, <2>1 DEF Converted
    <2> QED BY <1>2, <2>1, <2>2 DEF Converts, Stands
  <1> QED BY <1>1, <1>2

LEMMA OnePrints ==
    ASSUME NarrowPipes, Converted, NEW p, p.opened \in Nat, DOMAIN p = PipeFields,
           p.print \in Seq(STRING), Own(p.tx, TxSize, p.opened),
           NEW c \in OneCalls, NEW q, q = PrintfOne(p, c.format, c.type, c.arg)
    PROVE  HasPrinted(q, p, FlattenSeq(OneText(c))) /\ (q.ok => q.p.print = <<>>)
  <1>1. PICK n \in Nat : n = Len(c.format)
    BY CallsAssumption
  <1>2. PICK after : after = OneItems(p, c.format, c.type, c.arg)
    OBVIOUS
  <1>3. /\ after[0] = Called(p)
        /\ \A i \in 1 .. n : after[i] = OneItem(after[i - 1], c.format[i], c.type, c.arg)
    <2>1. PICK format, type, arg : format = c.format /\ type = c.type /\ arg = c.arg
      OBVIOUS
    <2>2. Len(format) \in Nat /\ after = OneItems(p, format, type, arg)
      BY <1>1, <1>2, <2>1
    <2>3. /\ after[0] = Called(p)
          /\ \A i \in 1 .. Len(format) : after[i] = OneItem(after[i - 1], format[i], type, arg)
      BY <2>2, OneItemsLemma
    <2> QED BY <1>1, <2>1, <2>3
  <1>4. PICK seqs : seqs = OneText(c)
    OBVIOUS
  <1>5. \A i \in 1 .. n : /\ seqs[i] \in Seq(STRING)
                          /\ Stands(c.format[i], OneToA(c.type, c.arg, ParseFormat(c.format[i])), seqs[i])
    <2>1. SUFFICES ASSUME NEW i \in 1 .. n
                   PROVE  /\ seqs[i] \in Seq(STRING)
                          /\ Stands(c.format[i], OneToA(c.type, c.arg, ParseFormat(c.format[i])), seqs[i])
      OBVIOUS
    <2>2. i \in DOMAIN c.format /\ i \in 1 .. Len(c.format)
      BY <1>1, CallsAssumption
    <2>3. PICK f : f = c.format[i]
      OBVIOUS
    <2>4. seqs[i] = ItemText(f, BytesOfType(c.type), c.arg)
      BY <1>4, <2>2, <2>3 DEF OneText
    <2>5. PICK s : s = ItemText(f, BytesOfType(c.type), c.arg)
      OBVIOUS
    <2>6. s \in Seq(STRING) /\ Stands(f, OneToA(c.type, c.arg, ParseFormat(f)), s)
      BY <2>2, <2>3, <2>5, OneStands
    <2> QED BY <2>3, <2>4, <2>5, <2>6
  <1>6. seqs \in Seq(Seq(STRING)) /\ Len(seqs) = n
    <2>1. DOMAIN seqs = 1 .. n /\ seqs = [i \in 1 .. n |-> seqs[i]]
      BY <1>1, <1>4, CallsAssumption DEF OneText
    <2> QED BY <1>5, <2>1, SeqLemma
  <1>7. PICK texts : /\ Texts(texts, seqs, n) /\ texts[n] = FlattenSeq(seqs)
                     /\ \A i \in 0 .. n : texts[i] \in Seq(STRING)
    BY <1>6, FlattenLemma
  <1> DEFINE Right(i) == Writes(after[i], p) /\ HasPrinted(after[i], p, texts[i])
             Bad == {i \in 0 .. n : ~Right(i)}
  <1>8. Bad = {}
    <2>1. SUFFICES ASSUME Bad # {} PROVE FALSE
      OBVIOUS
    <2>2. PICK i \in Bad : \A j \in Bad : i <= j
      <3>1. Bad \in SUBSET Nat
        OBVIOUS
      <3> HIDE DEF Bad
      <3> QED BY <2>1, <3>1, LeastNat
    <2>3. i # 0
      <3>1. Writes(after[0], p)
        BY <1>3, CalledLemma
      <3>2. HasPrinted(after[0], p, <<>>) /\ texts[0] = <<>>
        BY <1>3, <1>7, CalledPrints DEF Texts
      <3> QED BY <2>2, <3>1, <3>2
    <2>4. i \in 1 .. n /\ i - 1 \in 0 .. n /\ Right(i - 1)
      BY <2>2, <2>3
    <2>5. PICK st, r, item, type, arg, u, s :
              /\ st = after[i - 1] /\ r = after[i] /\ item = c.format[i]
              /\ type = c.type /\ arg = c.arg /\ u = texts[i - 1] /\ s = seqs[i]
      OBVIOUS
    <2>6. r = OneItem(st, item, type, arg) /\ Writes(st, p) /\ HasPrinted(st, p, u)
      BY <1>3, <2>4, <2>5
    <2>7. s \in Seq(STRING) /\ Stands(item, OneToA(type, arg, ParseFormat(item)), s)
      BY <1>5, <2>4, <2>5
    <2>8. HasPrinted(r, p, u \o s)
      BY <2>6, <2>7, OneItemPrints
    <2>9. texts[i] = u \o s
      BY <1>7, <2>4, <2>5 DEF Texts
    <2>10. Prints(item, OneToA(type, arg, ParseFormat(item)).text)
      BY <1>1, <2>4, <2>5, CallsAssumption DEF Prints
    <2>11. Writes(r, p)
      BY <2>6, <2>10, OneItemLemma
    <2> QED BY <2>2, <2>5, <2>8, <2>9, <2>11
  <1>9. Right(n)
    BY <1>8
  <1>10. PICK st, u : st = after[n] /\ u = texts[n]
    OBVIOUS
  <1>11. q = Finished(st)
    BY <1>1, <1>2, <1>10 DEF PrintfOne
  <1>12. HasPrinted(q, p, u) /\ (q.ok => q.p.print = <<>>)
    BY <1>9, <1>10, <1>11, FinishedPrints
  <1> QED BY <1>4, <1>7, <1>10, <1>12

ListText(c) ==
    [i \in DOMAIN c.format |->
        IF c.format[i].k = "char" THEN <<c.format[i].c>>
        ELSE ItemText(c.format[i], ParseFormat(c.format[i]).dtsize, c.args[ArgOf(c.format, i)])]

LEMMA ListStands ==
    ASSUME Converted, NEW c \in ListCalls, NEW i \in 1 .. Len(c.format),
           NEW f, f = c.format[i], NEW arg, arg = c.args[ArgOf(c.format, i)],
           NEW s, s = IF f.k = "char" THEN <<f.c>> ELSE ItemText(f, ParseFormat(f).dtsize, arg)
    PROVE  s \in Seq(STRING) /\ StandsNext(f, arg, s)
  <1>1. CASE f.k = "char"
    <2>1. PICK char \in STRING : char = f.c
      BY <1>1, CallsAssumption
    <2>2. s = <<char>> /\ <<char>> \in Seq(STRING)
      BY <1>1, <2>1
    <2> QED BY <1>1, <2>1, <2>2 DEF StandsNext
  <1>2. CASE f.k # "char"
    <2>1. PICK ctx : ctx = ParseFormat(f)
      OBVIOUS
    <2>2. CASE ctx.isstring
      <3>1. f.letter = "s"
        BY <2>1, <2>2 DEF ParseFormat
      <3>2. s = arg
        BY <1>2, <3>1 DEF ItemText
      <3>3. arg \in Seq(STRING)
        BY <1>2, <2>1, <2>2, CallsAssumption
      <3> QED BY <1>2, <2>1, <2>2, <3>2, <3>3 DEF StandsNext
    <2>3. CASE ~ctx.isstring
      <3>1. PICK r, bytes : r = PrintfAny(arg, ctx) /\ bytes = ctx.dtsize
        OBVIOUS
      <3>2. Converts(r, f, bytes, arg)
        BY <1>2, <2>1, <2>3, <3>1 DEF Converted
      <3>3. s = ItemText(f, bytes, arg)
        BY <1>2, <2>1, <3>1
      <3> QED BY <1>2, <2>1, <2>3, <3>1, <3>2, <3>3 DEF Converts, StandsNext
    <2> QED BY <2>2, <2>3
  <1> QED BY <1>1, <1>2

LEMMA ListPrints ==
    ASSUME NarrowPipes, Converted, NEW p, p.opened \in Nat, DOMAIN p = PipeFields,
           p.print \in Seq(STRING), Own(p.tx, TxSize, p.opened),
           NEW c \in ListCalls, NEW q, q = PrintfV(p, c.format, c.args)
    PROVE  HasPrinted(q, p, FlattenSeq(ListText(c))) /\ (q.ok => q.p.print = <<>>)
  <1>1. PICK n \in Nat : n = Len(c.format)
    BY CallsAssumption
  <1>2. PICK after : after = NextItems(p, c.format, c.args)
    OBVIOUS
  <1>3. /\ after[0] = Called(p)
        /\ \A i \in 1 .. n : after[i] = NextItem(after[i - 1], c.format[i], c.args)
    <2>1. PICK format, args : format = c.format /\ args = c.args
      OBVIOUS
    <2>2. Len(format) \in Nat /\ after = NextItems(p, format, args)
      BY <1>1, <1>2, <2>1
    <2>3. /\ after[0] = Called(p)
          /\ \A i \in 1 .. Len(format) : after[i] = NextItem(after[i - 1], format[i], args)
      BY <2>2, NextItemsLemma
    <2> QED BY <1>1, <2>1, <2>3
  <1>4. PICK seqs : seqs = ListText(c)
    OBVIOUS
  <1>5. \A i \in 1 .. n : /\ seqs[i] \in Seq(STRING)
                          /\ StandsNext(c.format[i], c.args[ArgOf(c.format, i)], seqs[i])
    <2>1. SUFFICES ASSUME NEW i \in 1 .. n
                   PROVE  /\ seqs[i] \in Seq(STRING)
                          /\ StandsNext(c.format[i], c.args[ArgOf(c.format, i)], seqs[i])
      OBVIOUS
    <2>2. i \in DOMAIN c.format /\ i \in 1 .. Len(c.format)
      BY <1>1, CallsAssumption
    <2>3. PICK f, arg : f = c.format[i] /\ arg = c.args[ArgOf(c.format, i)]
      OBVIOUS
    <2>4. PICK s : s = IF f.k = "char" THEN <<f.c>> ELSE ItemText(f, ParseFormat(f).dtsize, arg)
      OBVIOUS
    <2>5. seqs[i] = s
      BY <1>4, <2>2, <2>3, <2>4 DEF ListText
    <2>6. s \in Seq(STRING) /\ StandsNext(f, arg, s)
      BY <2>2, <2>3, <2>4, ListStands
    <2> QED BY <2>3, <2>5, <2>6
  <1>6. seqs \in Seq(Seq(STRING)) /\ Len(seqs) = n
    <2>1. DOMAIN seqs = 1 .. n /\ seqs = [i \in 1 .. n |-> seqs[i]]
      BY <1>1, <1>4, CallsAssumption DEF ListText
    <2> QED BY <1>5, <2>1, SeqLemma
  <1>7. PICK texts : /\ Texts(texts, seqs, n) /\ texts[n] = FlattenSeq(seqs)
                     /\ \A i \in 0 .. n : texts[i] \in Seq(STRING)
    BY <1>6, FlattenLemma
  <1> DEFINE Right(i) == /\ Writes(after[i], p) /\ HasPrinted(after[i], p, texts[i])
                         /\ after[i].ok => after[i].args = ArgOf(c.format, i)
             Bad == {i \in 0 .. n : ~Right(i)}
  <1>8. Bad = {}
    <2>1. SUFFICES ASSUME Bad # {} PROVE FALSE
      OBVIOUS
    <2>2. PICK i \in Bad : \A j \in Bad : i <= j
      <3>1. Bad \in SUBSET Nat
        OBVIOUS
      <3> HIDE DEF Bad
      <3> QED BY <2>1, <3>1, LeastNat
    <2>3. i # 0
      <3>1. Writes(after[0], p) /\ (after[0].ok => after[0].args = ArgOf(c.format, 0))
        BY <1>3, CalledLemma, ArgOfLemma
      <3>2. HasPrinted(after[0], p, <<>>) /\ texts[0] = <<>>
        BY <1>3, <1>7, CalledPrints DEF Texts
      <3> QED BY <2>2, <3>1, <3>2
    <2>4. i \in 1 .. n /\ i - 1 \in 0 .. n /\ Right(i - 1)
      BY <2>2, <2>3
    <2>5. PICK st, r, item, arg, u, s :
              /\ st = after[i - 1] /\ r = after[i] /\ item = c.format[i]
              /\ arg = c.args[ArgOf(c.format, i)] /\ u = texts[i - 1] /\ s = seqs[i]
      OBVIOUS
    <2>6. /\ r = NextItem(st, item, c.args) /\ Writes(st, p) /\ HasPrinted(st, p, u)
          /\ st.ok => st.args = ArgOf(c.format, i - 1)
      BY <1>3, <2>4, <2>5
    <2>7. ArgOf(c.format, i) = IF item.k = "char" THEN ArgOf(c.format, i - 1)
                               ELSE ArgOf(c.format, i - 1) + 1
      BY <2>4, <2>5, ArgOfLemma
    <2>8. s \in Seq(STRING) /\ StandsNext(item, arg, s)
      BY <1>5, <2>4, <2>5
    <2>9. st.ok /\ item.k # "char" => c.args[st.args + 1] = arg
      BY <2>5, <2>6, <2>7
    <2>10. st.ok => StandsNext(item, c.args[st.args + 1], s)
      BY <2>8, <2>9 DEF StandsNext
    <2>11. HasPrinted(r, p, u \o s)
      BY <2>6, <2>8, <2>10, NextItemPrints
    <2>12. texts[i] = u \o s
      BY <1>7, <2>4, <2>5 DEF Texts
    <2>13. Prints(item, TextOfItem(item, arg))
      BY <1>1, <2>4, <2>5, CallsAssumption DEF Prints, TextOfItem
    <2>14. st.ok => Prints(item, TextOfItem(item, c.args[st.args + 1]))
      BY <2>9, <2>13 DEF Prints
    <2>15. /\ Writes(r, p)
           /\ ~st.ok => ~r.ok
           /\ r.ok => r.args = IF item.k = "char" THEN st.args ELSE st.args + 1
      BY <2>6, <2>14, NextItemLemma
    <2>16. r.ok => r.args = ArgOf(c.format, i)
      <3>1. SUFFICES ASSUME r.ok PROVE r.args = ArgOf(c.format, i)
        OBVIOUS
      <3>2. st.ok
        BY <2>15, <3>1
      <3> QED BY <2>6, <2>7, <2>15, <3>1, <3>2
    <2> QED BY <2>2, <2>5, <2>11, <2>12, <2>15, <2>16
  <1>9. Right(n)
    BY <1>8
  <1>10. PICK st, u : st = after[n] /\ u = texts[n]
    OBVIOUS
  <1>11. q = Finished(st)
    BY <1>1, <1>2, <1>10 DEF PrintfV
  <1>12. HasPrinted(q, p, u) /\ (q.ok => q.p.print = <<>>)
    BY <1>9, <1>10, <1>11, FinishedPrints
  <1> QED BY <1>4, <1>7, <1>10, <1>12

LEMMA PrefixLemma ==
    ASSUME NEW s \in Seq(STRING), NEW t \in Seq(STRING)
    PROVE  IsPrefix(s, s \o t)
  <1>1. Len(s) \in Nat /\ Len(t) \in Nat /\ Len(s \o t) = Len(s) + Len(t)
    BY TextLemma
  <1>2. s \o t \in Seq(STRING)
    BY TextLemma
  <1>3. SubSeq(s, 1, Len(s)) = SubSeq(s \o t, 1, Len(s))
    <2>1. CASE Len(s) = 0
      <3>1. SubSeq(s, 1, 0) = <<>>
        BY SubSeqEmpty
      <3>2. SubSeq(s \o t, 1, 0) = <<>>
        BY <1>2, SubSeqEmpty
      <3> QED BY <2>1, <3>1, <3>2
    <2>2. CASE Len(s) # 0
      <3>1. 1 \in 1 .. Len(s) /\ Len(s) \in 1 .. Len(s)
        BY <1>1, <2>2
      <3> QED BY <3>1, SubSeqOfConcat1
    <2> QED BY <2>1, <2>2
  <1>4. Len(s) <= Len(s \o t)
    BY <1>1
  <1> QED BY <1>3, <1>4 DEF IsPrefix

\* In the words of TextPrinted.
LEMMA PrintedText ==
    ASSUME NEW p, p.print \in Seq(STRING), NEW st, NEW u, HasPrinted(st, p, u),
           st.ok => st.p.print = <<>>,
           NEW out, out = st.put \o st.p.print
    PROVE  /\ IsPrefix(out, p.print \o u) /\ Len(out) >= Len(p.print)
           /\ st.ok => st.put = p.print \o u
  <1>1. PICK a \in Seq(STRING) : a = p.print
    OBVIOUS
  <1>2. PICK t \in Seq(STRING), v \in Seq(STRING) : Exactly(st, p, t) /\ u = t \o v
    BY DEF HasPrinted, Partly
  <1>3. out = a \o t /\ out \in Seq(STRING)
    BY <1>1, <1>2, TextLemma DEF Exactly
  <1>4. Len(out) = Len(a) + Len(t) /\ Len(a) \in Nat /\ Len(t) \in Nat
    BY <1>3, TextLemma
  <1>5. a \o u = out \o v
    BY <1>2, <1>3, ThreeTexts
  <1>6. IsPrefix(out, a \o u) /\ Len(out) >= Len(a)
    <2>1. IsPrefix(out, out \o v)
      BY <1>3, PrefixLemma
    <2>2. Len(out) >= Len(a)
      BY <1>4
    <2> QED BY <1>5, <2>1, <2>2
  <1>7. ASSUME st.ok PROVE st.put = a \o u
    <2>1. Exactly(st, p, u) /\ st.p.print = <<>>
      BY <1>7 DEF HasPrinted
    <2>2. PICK b \in Seq(STRING) : b = st.put
      BY <2>1 DEF Exactly
    <2>3. b \o <<>> = b
      BY TextLemma
    <2> QED BY <1>1, <2>1, <2>2, <2>3 DEF Exactly
  <1> QED BY <1>1, <1>6, <1>7

\* A step that prints what a call has printed.
LEMMA StepPrints ==
    ASSUME IInv, NarrowPipes, NEW s \in Slots, NEW u, NEW st, Printed(s, u, st),
           HasPrinted(st, pipes[s], u), st.ok => st.p.print = <<>>
    PROVE  LET p   == pipes[step'.slot]
               out == step'.put \o pipes'[step'.slot].print
           IN  /\ IsPrefix(out, p.print \o step'.text)
               /\ Len(out) >= Len(p.print)
               /\ step'.ok => step'.put = p.print \o step'.text
  <1>1. PICK p : p = pipes[s]
    OBVIOUS
  <1>2. p.print \in Seq(STRING)
    BY <1>1 DEF IInv, TablesOK, PipeOK
  <1>3. step'.slot = s /\ step'.put = st.put /\ step'.text = u /\ step'.ok = st.ok
    BY DEF Printed
  <1>4. pipes'[s] = st.p
    BY DEF Printed, IInv, TablesOK
  <1>5. PICK out : out = st.put \o st.p.print
    OBVIOUS
  <1>6. /\ IsPrefix(out, p.print \o u) /\ Len(out) >= Len(p.print)
        /\ st.ok => st.put = p.print \o u
    BY <1>1, <1>2, <1>5, PrintedText
  <1> QED BY <1>1, <1>3, <1>4, <1>5, <1>6

\* As much of what a format stands for as fits goes into the pipe or waits in
\* printfBuff, in order, whatever waited there before and however full the
\* buffer is, when each conversion comes out as the text it stands for.
THEOREM TextComesOut ==
    ASSUME NarrowPipes, Converted
    PROVE  Spec => TextPrinted
  <1> DEFINE Out == step'.kind = "print" =>
                LET p   == pipes[step'.slot]
                    out == step'.put \o pipes'[step'.slot].print
                IN  /\ IsPrefix(out, p.print \o step'.text)
                    /\ Len(out) >= Len(p.print)
                    /\ step'.ok => step'.put = p.print \o step'.text
  <1>1. IInv /\ Next => Out
    <2>1. SUFFICES ASSUME IInv, Next, step'.kind = "print" PROVE Out
      OBVIOUS
    <2>2. PICK s \in Slots : PrintfOneArg(s) \/ Printf(s)
      <3>1. ASSUME NEW port \in Ports
            PROVE  ~PipeOpen(port) /\ ~PipeError(port) /\ ~GetPipe(port)
        BY <2>1 DEF PipeOpen, PipeError, GetPipe, Quiet
      <3>2. ASSUME NEW port \in Ports, NEW n \in 0 .. MaxData
            PROVE  ~PipeFrame(port, n)
        BY <2>1 DEF PipeFrame, Quiet
      <3>3. ASSUME NEW s \in Slots
            PROVE  ~PipeClose(s) /\ ~PipeRead(s) /\ ~PipePuts(s)
        BY <2>1 DEF PipeClose, PipeRead, PipePuts, Quiet
      <3> QED BY <2>1, <3>1, <3>2, <3>3 DEF Next, Printing
    <2>3. PICK p : p = pipes[s]
      OBVIOUS
    <2>4. /\ p.opened \in Nat /\ DOMAIN p = PipeFields
          /\ p.print \in Seq(STRING) /\ Own(p.tx, TxSize, p.opened)
      BY <2>1, <2>3 DEF IInv, TablesOK, PipeOK
    <2>5. CASE PrintfOneArg(s)
      <3>1. PICK c \in OneCalls :
                Printed(s, FlattenSeq(OneText(c)), PrintfOne(p, c.format, c.type, c.arg))
        BY <2>3, <2>5 DEF PrintfOneArg, OneText
      <3>2. PICK st, u : st = PrintfOne(p, c.format, c.type, c.arg) /\ u = FlattenSeq(OneText(c))
        OBVIOUS
      <3>3. HasPrinted(st, p, u) /\ (st.ok => st.p.print = <<>>)
        BY <2>4, <3>2, OnePrints
      <3>4. Printed(s, u, st)
        BY <3>1, <3>2
      <3> QED BY <2>1, <2>3, <3>3, <3>4, StepPrints
    <2>6. CASE Printf(s)
      <3>1. PICK c \in ListCalls :
                Printed(s, FlattenSeq(ListText(c)), PrintfV(p, c.format, c.args))
        BY <2>3, <2>6 DEF Printf, ListText
      <3>2. PICK st, u : st = PrintfV(p, c.format, c.args) /\ u = FlattenSeq(ListText(c))
        OBVIOUS
      <3>3. HasPrinted(st, p, u) /\ (st.ok => st.p.print = <<>>)
        BY <2>4, <3>2, ListPrints
      <3>4. Printed(s, u, st)
        BY <3>1, <3>2
      <3> QED BY <2>1, <2>3, <3>3, <3>4, StepPrints
    <2> QED BY <2>2, <2>5, <2>6
  <1>2. IInv /\ [Next]_vars => [Out]_vars
    BY <1>1
  <1> QED BY <1>2, Invariance, PTL DEF Spec, TextPrinted
=============================================================================

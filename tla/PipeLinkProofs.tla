-------------------------- MODULE PipeLinkProofs --------------------------
(***************************************************************************)
(* What PipeLink promises, proved for buffers of any size that an          *)
(* FMSTR_SIZE8 can hold, for any payload a frame carries and for a link    *)
(* with any number of frames on it.                                        *)
(***************************************************************************)
EXTENDS PipeLink, PipeBufferProofs, SequenceTheorems

\* The buffers are well formed, and hold what follows what has left them.
Buffers ==
    /\ IsBuff(rx, RxSize) /\ Holds(rx, Len(appGot))
    /\ IsBuff(tx, TxSize) /\ Holds(tx, Discarded)
    /\ Discarded \in Nat /\ Accepted <= hostWritten

\* On the link, frames of the host's present round come last.
Sorted(q) == \A i, j \in DOMAIN q : i < j /\ q[i].odd = hostOdd => q[j].odd = hostOdd

\* The requests of the present round all say the same but for their length.
Requests ==
    /\ Sorted(req)
    /\ \A i \in DOMAIN req : req[i].odd = hostOdd =>
        /\ req[i].skip = hostSkip
        /\ hostAcked + Len(req[i].data) <= hostWritten
        /\ Follows(req[i].data, hostAcked)

\* The target has yet to see a request of the present round.
BeforeFrame ==
    /\ Accepted = hostAcked /\ Discarded + hostSkip = Len(hostGot)
    /\ \A i \in DOMAIN rsp : rsp[i].odd # hostOdd

\* It has seen one and answers the others alike.
AfterFrame ==
    /\ Accepted = hostAcked + nLast /\ Discarded = Len(hostGot)
    /\ \A i \in DOMAIN req : req[i].odd = hostOdd
    /\ Sorted(rsp)
    /\ \A i \in DOMAIN rsp : rsp[i].odd = hostOdd =>
        /\ rsp[i].nLast = nLast
        /\ Len(hostGot) + Len(rsp[i].data) <= txWritten
        /\ Follows(rsp[i].data, Len(hostGot))

Rounds == IF bExpectOdd = hostOdd THEN BeforeFrame ELSE AfterFrame

\* The inductive invariant.
IInv == TypeOK /\ DeliveredInOrder /\ Buffers /\ Requests /\ Rounds

-----------------------------------------------------------------------------
(* The steps a buffer takes, in terms of the numbered streams.             *)

\* Lengths in whole units stay within what there is.
LEMMA WholeRange ==
    ASSUME NEW len \in Nat, NEW avail \in Nat, NEW g \in Nat
    PROVE  Whole(len, avail, g) \in 0 .. avail
  <1>1. PICK n \in 0 .. avail : n = Min2(len, avail)
    BY DEF Min2
  <1>2. CASE g > 1
    <2>1. (n \div g) * g <= n /\ (n \div g) * g \in Nat
      BY <1>2
    <2> QED BY <1>1, <1>2, <2>1 DEF Whole
  <1> QED BY <1>1, <1>2 DEF Whole

\* A stream of n bytes is a sequence of n numbers.
LEMMA NumberedSeq ==
    ASSUME NEW k \in Nat, NEW n \in Nat
    PROVE  /\ Numbered(k, n) \in Seq(Nat) /\ Len(Numbered(k, n)) = n
           /\ Follows(Numbered(k, n), k)
  BY DEF Numbered, Follows

\* A beginning of a stream and what follows it are a beginning of it.
LEMMA FollowsOn ==
    ASSUME NEW s \in Seq(Nat), NEW t \in Seq(Nat), Follows(s, 0), Follows(t, Len(s))
    PROVE  Follows(s \o t, 0)
  <1>1. PICK m \in Nat : m = Len(s)
    OBVIOUS
  <1>2. PICK n \in Nat : n = Len(t)
    OBVIOUS
  <1>3. /\ s \o t \in Seq(Nat) /\ Len(s \o t) = m + n
        /\ \A i \in 1 .. m + n : (s \o t)[i] = IF i <= m THEN s[i] ELSE t[i - m]
    BY <1>1, <1>2, ConcatProperties
  <1>4. ASSUME NEW i \in 1 .. m + n PROVE (s \o t)[i] = 0 + i
    <2>1. CASE i <= m
      <3>1. i \in DOMAIN s
        BY <1>1, <2>1
      <3> QED BY <1>3, <2>1, <3>1 DEF Follows
    <2>2. CASE i > m
      <3>1. i - m \in 1 .. n
        BY <2>2
      <3>2. PICK j \in DOMAIN t : j = i - m /\ j \in Nat
        BY <1>2, <3>1
      <3>3. t[j] = m + j
        BY <1>1 DEF Follows
      <3>4. (s \o t)[i] = t[j]
        BY <1>3, <2>2, <3>2
      <3> QED BY <1>1, <3>2, <3>3, <3>4
    <2> QED BY <1>1, <1>2, <2>1, <2>2
  <1>5. DOMAIN (s \o t) = 1 .. m + n
    BY <1>3, LenProperties
  <1> QED BY <1>4, <1>5 DEF Follows

\* A reader that takes n more bytes still has a beginning of the stream.
LEMMA ReadKeeps ==
    ASSUME NEW size, Narrow(size), NEW b, IsBuff(b, size),
           NEW got \in Seq(Nat), Follows(got, 0),
           Holds(b, Len(got)), NEW n \in 0 .. BytesReady(b)
    PROVE  /\ got \o Taken(b, n) \in Seq(Nat)
           /\ Len(got \o Taken(b, n)) = Len(got) + n
           /\ Follows(got \o Taken(b, n), 0)
           /\ Taken(b, n) \in Seq(Nat)
           /\ IsBuff(Rest(b, n), size) /\ Holds(Rest(b, n), Len(got) + n)
           /\ BytesReady(Rest(b, n)) = BytesReady(b) - n
  <1>0. PICK got2 : got2 = got \o Taken(b, n)
    OBVIOUS
  <1>1. Len(got) \in Nat /\ n \in Nat /\ BytesReady(b) \in Nat
    BY BuffFields, ReadyFree
  <1>2. Taken(b, n) = Numbered(Len(got), n)
    BY <1>1, HoldsTaken DEF Numbered
  <1>3. PICK t \in Seq(Nat) : t = Taken(b, n) /\ Len(t) = n /\ Follows(t, Len(got))
    BY <1>1, <1>2, NumberedSeq
  <1>4. got2 \in Seq(Nat) /\ Len(got2) = Len(got) + n
    <2>1. got \o t \in Seq(Nat) /\ Len(got \o t) = Len(got) + Len(t)
      BY ConcatProperties
    <2> QED BY <1>0, <1>3, <2>1
  <1>5. Follows(got2, 0)
    BY <1>0, <1>3, FollowsOn
  <1>6. IsBuff(Rest(b, n), size) /\ BytesReady(Rest(b, n)) = BytesReady(b) - n
    BY RestLemma
  <1>7. Holds(Rest(b, n), Len(got) + n)
    BY <1>1, RestLemma, HoldsMoved
  <1> QED BY <1>0, <1>3, <1>4, <1>5, <1>6, <1>7

\* A writer that adds n more bytes continues the stream.
LEMMA WriteKeeps ==
    ASSUME NEW size, Narrow(size), NEW b, IsBuff(b, size), NEW k \in Nat, Holds(b, k),
           NEW data \in Seq(Nat), Len(data) <= BytesFree(b),
           Follows(data, k + BytesReady(b))
    PROVE  /\ IsBuff(Put(b, data), size) /\ Holds(Put(b, data), k)
           /\ BytesReady(Put(b, data)) = BytesReady(b) + Len(data)
  <1>1. \A i \in 1 .. Len(data) : data[i] = k + BytesReady(b) + i
    BY LenProperties DEF Follows
  <1> QED BY <1>1, PutLemma, HoldsPut

\* Discarding what is there moves the beginning of what is held.
LEMMA DiscardKeeps ==
    ASSUME NEW size, Narrow(size), NEW b, IsBuff(b, size), NEW k \in Nat, Holds(b, k),
           NEW count \in 0 .. BytesReady(b)
    PROVE  /\ IsBuff(DiscardBytes(b, count), size)
           /\ Holds(DiscardBytes(b, count), k + count)
           /\ BytesReady(DiscardBytes(b, count)) = BytesReady(b) - count
  <1>1. BytesReady(b) \in Nat /\ count \in Nat
    BY BuffFields, ReadyFree
  <1>2. /\ IsBuff(DiscardBytes(b, count), size)
        /\ BytesReady(DiscardBytes(b, count)) = BytesReady(b) - count
        /\ \A i \in 0 .. BytesReady(b) - count - 1 :
                DiscardBytes(b, count).buff[Cell(DiscardBytes(b, count), i)]
                    = b.buff[Cell(b, count + i)]
    BY DiscardLemma
  <1>3. Holds(DiscardBytes(b, count), k + count)
    BY <1>1, <1>2, HoldsMoved
  <1> QED BY <1>2, <1>3

-----------------------------------------------------------------------------
(* The initial states, and the steps of the application.                   *)

\* Both buffers lose nothing to an FMSTR_SIZE8.
NarrowPipe == Narrow(RxSize) /\ Narrow(TxSize)

\* What every state of the invariant knows of the two counters.
LEMMA Counters ==
    ASSUME NarrowPipe, TypeOK, Buffers
    PROVE  /\ BytesReady(rx) \in Nat /\ BytesReady(tx) \in Nat
           /\ BytesReady(rx) <= RxSize /\ BytesFree(rx) = RxSize - BytesReady(rx)
           /\ BytesReady(tx) <= TxSize /\ BytesFree(tx) = TxSize - BytesReady(tx)
           /\ Len(appGot) \in Nat /\ Accepted = Len(appGot) + BytesReady(rx)
           /\ Discarded = txWritten - BytesReady(tx) /\ txWritten \in Nat
           /\ txWritten = Discarded + BytesReady(tx)
  <1>1. BytesReady(rx) \in 0 .. RxSize /\ BytesFree(rx) = RxSize - BytesReady(rx)
    BY ReadyFree DEF NarrowPipe, Buffers
  <1>2. BytesReady(tx) \in 0 .. TxSize /\ BytesFree(tx) = TxSize - BytesReady(tx)
    BY ReadyFree DEF NarrowPipe, Buffers
  <1>3. RxSize \in Nat /\ TxSize \in Nat
    BY DEF NarrowPipe, Narrow
  <1>4. Len(appGot) \in Nat /\ txWritten \in Nat
    BY DEF TypeOK
  <1>5. BytesReady(rx) \in Nat /\ BytesReady(tx) \in Nat
    BY <1>1, <1>2, <1>3
  <1> QED BY <1>1, <1>2, <1>3, <1>4, <1>5 DEF Accepted, Discarded

\* Both counters stay within what was written.
LEMMA CounterBounds ==
    ASSUME NarrowPipe, TypeOK, Buffers
    PROVE  /\ Accepted \in Nat /\ hostWritten \in Nat /\ Accepted <= hostWritten
           /\ Discarded \in Nat /\ txWritten \in Nat /\ Discarded <= txWritten
  <1>1. /\ Len(appGot) \in Nat /\ BytesReady(rx) \in Nat
        /\ Accepted = Len(appGot) + BytesReady(rx)
    BY Counters
  <1>2. BytesReady(tx) \in Nat /\ txWritten = Discarded + BytesReady(tx)
    BY Counters
  <1>3. Discarded \in Nat /\ Accepted <= hostWritten
    BY DEF Buffers
  <1>4. hostWritten \in Nat /\ txWritten \in Nat
    BY DEF TypeOK
  <1>5. Discarded <= txWritten
    BY <1>2, <1>3
  <1> QED BY <1>1, <1>3, <1>4, <1>5

\* What the type invariant says of what the steps use.
LEMMA TypeFacts ==
    ASSUME TypeOK
    PROVE  /\ txWritten \in Nat /\ hostWritten \in Nat /\ hostAcked \in Nat
           /\ hostSkip \in Nat /\ nLast \in Nat
           /\ bExpectOdd \in BOOLEAN /\ hostOdd \in BOOLEAN
           /\ appGot \in Seq(Nat) /\ Len(appGot) \in Nat
           /\ hostGot \in Seq(Nat) /\ Len(hostGot) \in Nat
           /\ Len(req) \in Nat /\ DOMAIN req = 1 .. Len(req)
           /\ Len(rsp) \in Nat /\ DOMAIN rsp = 1 .. Len(rsp)
           /\ \A i \in DOMAIN req :
                /\ req[i] \in [odd : BOOLEAN, skip : Nat, data : Seq(Nat)]
                /\ req[i].data \in Seq(Nat) /\ Len(req[i].data) \in Nat
           /\ \A i \in DOMAIN rsp :
                /\ rsp[i] \in [odd : BOOLEAN, nLast : Nat, data : Seq(Nat)]
                /\ rsp[i].data \in Seq(Nat) /\ Len(rsp[i].data) \in Nat
  <1>1. /\ req \in Seq([odd : BOOLEAN, skip : Nat, data : Seq(Nat)])
        /\ rsp \in Seq([odd : BOOLEAN, nLast : Nat, data : Seq(Nat)])
    BY DEF TypeOK
  <1>2. /\ Len(req) \in Nat /\ DOMAIN req = 1 .. Len(req)
        /\ Len(rsp) \in Nat /\ DOMAIN rsp = 1 .. Len(rsp)
    BY <1>1, LenProperties
  <1>3. ASSUME NEW i \in DOMAIN req
        PROVE  /\ req[i] \in [odd : BOOLEAN, skip : Nat, data : Seq(Nat)]
               /\ req[i].data \in Seq(Nat) /\ Len(req[i].data) \in Nat
    <2>1. req[i] \in [odd : BOOLEAN, skip : Nat, data : Seq(Nat)]
      BY <1>1, <1>2, ElementOfSeq
    <2> QED BY <2>1
  <1>4. ASSUME NEW i \in DOMAIN rsp
        PROVE  /\ rsp[i] \in [odd : BOOLEAN, nLast : Nat, data : Seq(Nat)]
               /\ rsp[i].data \in Seq(Nat) /\ Len(rsp[i].data) \in Nat
    <2>1. rsp[i] \in [odd : BOOLEAN, nLast : Nat, data : Seq(Nat)]
      BY <1>1, <1>2, ElementOfSeq
    <2> QED BY <2>1
  <1> QED BY <1>2, <1>3, <1>4 DEF TypeOK

\* The invariant holds when the pipe is opened.
LEMMA InitIInv ==
    ASSUME NarrowPipe, Init
    PROVE  IInv
  <1>1. /\ IsBuff(rx, RxSize) /\ BytesReady(rx) = 0
        /\ IsBuff(tx, TxSize) /\ BytesReady(tx) = 0
    BY EmptyBuffLemma DEF Init, NarrowPipe
  <1>2. TypeOK
    <2>1. /\ rx \in [buff : [0 .. RxSize - 1 -> Nat], size : {RxSize},
                     wp : 0 .. RxSize - 1, rp : 0 .. RxSize - 1, bIsFull : BOOLEAN]
          /\ tx \in [buff : [0 .. TxSize - 1 -> Nat], size : {TxSize},
                     wp : 0 .. TxSize - 1, rp : 0 .. TxSize - 1, bIsFull : BOOLEAN]
      BY <1>1 DEF IsBuff
    <2>2. /\ <<>> \in Seq(Nat)
          /\ <<>> \in Seq([odd : BOOLEAN, skip : Nat, data : Seq(Nat)])
          /\ <<>> \in Seq([odd : BOOLEAN, nLast : Nat, data : Seq(Nat)])
      BY EmptySeq
    <2> QED BY <2>1, <2>2 DEF Init, TypeOK
  <1>3. DeliveredInOrder
    BY DEF Init, DeliveredInOrder, Follows
  <1>4. Accepted = 0 /\ Discarded = 0 /\ Len(hostGot) = 0 /\ Len(appGot) = 0
    BY <1>1 DEF Init, Accepted, Discarded
  <1>5. Buffers
    BY <1>1, <1>4 DEF Buffers, Holds, Init
  <1>6. Requests
    BY DEF Requests, Sorted, Init
  <1>7. Rounds
    <2>1. \A i \in DOMAIN rsp : rsp[i].odd # hostOdd
      BY DEF Init
    <2>2. bExpectOdd = hostOdd /\ hostAcked = 0 /\ hostSkip = 0
      BY DEF Init
    <2>3. BeforeFrame
      BY <1>4, <2>1, <2>2 DEF BeforeFrame
    <2> QED BY <2>2, <2>3 DEF Rounds
  <1> QED BY <1>2, <1>3, <1>5, <1>6, <1>7 DEF IInv

\* A step that leaves the counters of both streams, the link and the host's
\* round alone leaves Requests and Rounds alone.
LEMMA SameRound ==
    ASSUME Requests, Rounds, TypeOK,
           Accepted' = Accepted, Discarded' = Discarded,
           txWritten' \in Nat, txWritten <= txWritten',
           hostWritten' \in Nat, hostWritten <= hostWritten',
           UNCHANGED <<bExpectOdd, nLast, req, rsp, hostOdd, hostSkip, hostAcked, hostGot>>
    PROVE  Requests' /\ Rounds'
  <1>1. ASSUME NEW i \in DOMAIN req, hostAcked + Len(req[i].data) <= hostWritten
        PROVE  hostAcked + Len(req[i].data) <= hostWritten'
    <2>1. Len(req[i].data) \in Nat /\ hostAcked \in Nat /\ hostWritten \in Nat
      BY TypeFacts
    <2> QED BY <1>1, <2>1
  <1>2. Requests'
    BY <1>1 DEF Requests, Sorted
  <1>3. ASSUME NEW i \in DOMAIN rsp, Len(hostGot) + Len(rsp[i].data) <= txWritten
        PROVE  Len(hostGot) + Len(rsp[i].data) <= txWritten'
    <2>1. Len(rsp[i].data) \in Nat /\ Len(hostGot) \in Nat /\ txWritten \in Nat
      BY TypeFacts
    <2> QED BY <1>3, <2>1
  <1>4. Rounds'
    BY <1>3 DEF Rounds, BeforeFrame, AfterFrame, Sorted
  <1> QED BY <1>2, <1>4

\* FMSTR_PipeRead keeps the invariant.
LEMMA PipeReadIInv ==
    ASSUME PipeAssumption, NarrowPipe, IInv,
           NEW len \in Nat, NEW g \in Nat, PipeRead(len, g)
    PROVE  IInv'
  <1> USE DEF IInv
  <1>1. PICK n \in 0 .. BytesReady(rx) :
          /\ appGot' = appGot \o Taken(rx, n) /\ rx' = Rest(rx, n)
          /\ UNCHANGED <<tx, bExpectOdd, nLast, txWritten, req, rsp, hostVars>>
    BY Counters, WholeRange DEF PipeRead
  <1>2. /\ appGot' \in Seq(Nat) /\ Len(appGot') = Len(appGot) + n
        /\ Follows(appGot', 0)
        /\ IsBuff(rx', RxSize) /\ Holds(rx', Len(appGot'))
        /\ BytesReady(rx') = BytesReady(rx) - n
    <2>1. /\ Narrow(RxSize) /\ IsBuff(rx, RxSize) /\ Holds(rx, Len(appGot))
          /\ Follows(appGot, 0)
      BY DEF NarrowPipe, Buffers, DeliveredInOrder
    <2>2. appGot \in Seq(Nat)
      BY TypeFacts
    <2> QED BY <1>1, <2>1, <2>2, ReadKeeps
  <1>3. Accepted' = Accepted /\ Discarded' = Discarded
    BY <1>1, <1>2, Counters DEF Accepted, Discarded
  <1>4. TypeOK'
    BY <1>1, <1>2 DEF TypeOK, IsBuff, hostVars
  <1>5. Buffers'
    BY <1>1, <1>2, <1>3 DEF Buffers, hostVars
  <1>6. DeliveredInOrder'
    <2>1. Len(appGot') <= Accepted'
      BY <1>1, <1>2, <1>3, Counters
    <2>2. Len(appGot') <= hostWritten
      <3>1. Accepted <= hostWritten
        BY DEF Buffers
      <3>2. Accepted \in Nat
        BY CounterBounds
      <3>3. hostWritten \in Nat /\ Len(appGot') \in Nat
        BY <1>2, TypeFacts
      <3> QED BY <1>3, <2>1, <3>1, <3>2, <3>3
    <2> QED BY <1>1, <1>2, <2>2 DEF DeliveredInOrder, hostVars
  <1>7. Requests' /\ Rounds'
    <2>1. txWritten \in Nat /\ hostWritten \in Nat
      BY TypeFacts
    <2>2. txWritten' = txWritten /\ hostWritten' = hostWritten
      BY <1>1 DEF hostVars
    <2> QED BY <1>1, <1>3, <2>1, <2>2, SameRound DEF hostVars
  <1> QED BY <1>4, <1>5, <1>6, <1>7

\* So does FMSTR_PipeWrite, and with it FMSTR_PipePuts.
LEMMA PipeWriteIInv ==
    ASSUME PipeAssumption, NarrowPipe, IInv,
           NEW len \in Nat, NEW g \in Nat, PipeWrite(len, g)
    PROVE  IInv'
  <1> USE DEF IInv
  <1>1. PICK n \in 0 .. BytesFree(tx) :
          /\ tx' = Put(tx, Numbered(txWritten, n)) /\ txWritten' = txWritten + n
          /\ UNCHANGED <<rx, bExpectOdd, nLast, appGot, req, rsp, hostVars>>
    <2>1. BytesFree(tx) \in Nat
      BY Counters DEF NarrowPipe, Narrow
    <2> QED BY <2>1, WholeRange DEF PipeWrite
  <1>2. /\ n \in Nat /\ BytesReady(tx) \in Nat /\ Discarded \in Nat
        /\ txWritten = Discarded + BytesReady(tx)
    BY Counters DEF Buffers, NarrowPipe, Narrow
  <1>3. /\ IsBuff(tx', TxSize) /\ Holds(tx', Discarded)
        /\ BytesReady(tx') = BytesReady(tx) + n
    <2>1. PICK data \in Seq(Nat) :
            data = Numbered(txWritten, n) /\ Len(data) = n
            /\ Follows(data, txWritten)
      BY <1>2, NumberedSeq DEF TypeOK
    <2>2. Len(data) <= BytesFree(tx)
      BY <1>2, <2>1, Counters DEF NarrowPipe, Narrow
    <2>3. Follows(data, Discarded + BytesReady(tx))
      BY <1>2, <2>1
    <2>4. Narrow(TxSize) /\ IsBuff(tx, TxSize) /\ Holds(tx, Discarded)
      BY DEF Buffers, NarrowPipe
    <2>5. /\ IsBuff(Put(tx, data), TxSize) /\ Holds(Put(tx, data), Discarded)
          /\ BytesReady(Put(tx, data)) = BytesReady(tx) + Len(data)
      BY <1>2, <2>2, <2>3, <2>4, WriteKeeps
    <2> QED BY <1>1, <2>1, <2>5
  <1>4. txWritten' \in Nat /\ txWritten <= txWritten'
    <2>1. txWritten \in Nat
      BY TypeFacts
    <2> QED BY <1>1, <1>2, <2>1
  <1>5. Accepted' = Accepted /\ Discarded' = Discarded
    <2>1. txWritten' - BytesReady(tx') = txWritten - BytesReady(tx)
      <3>1. txWritten \in Nat
        BY TypeFacts
      <3> QED BY <1>1, <1>2, <1>3, <3>1
    <2> QED BY <1>1, <2>1 DEF Accepted, Discarded
  <1>6. TypeOK'
    BY <1>1, <1>3, <1>4 DEF TypeOK, IsBuff, hostVars
  <1>7. Buffers'
    BY <1>1, <1>3, <1>5 DEF Buffers, hostVars
  <1>8. DeliveredInOrder'
    BY <1>1, <1>4 DEF DeliveredInOrder, hostVars, TypeOK
  <1>9. Requests' /\ Rounds'
    <2>1. hostWritten' = hostWritten /\ hostWritten \in Nat
      BY <1>1, TypeFacts DEF hostVars
    <2> QED BY <1>1, <1>4, <1>5, <2>1, SameRound DEF hostVars
  <1> QED BY <1>6, <1>7, <1>8, <1>9

-----------------------------------------------------------------------------
(* The link and the host.                                                  *)

\* The frames on a link after the first is taken off.
LEMMA TailFrames ==
    ASSUME NEW S, NEW q \in Seq(S), q # <<>>
    PROVE  /\ Tail(q) \in Seq(S)
           /\ Head(q) = q[1] /\ 1 \in DOMAIN q
           /\ \A i \in DOMAIN Tail(q) : i + 1 \in DOMAIN q /\ Tail(q)[i] = q[i + 1] /\ i \in Nat
  <1>1. Len(q) \in Nat \ {0} /\ DOMAIN q = 1 .. Len(q)
    BY EmptySeq, LenProperties
  <1>2. /\ Tail(q) \in Seq(S) /\ Len(Tail(q)) = Len(q) - 1
        /\ \A i \in 1 .. Len(Tail(q)) : Tail(q)[i] = q[i + 1]
    BY HeadTailProperties
  <1>3. DOMAIN Tail(q) = 1 .. Len(q) - 1
    BY <1>2, LenProperties
  <1> QED BY <1>1, <1>2, <1>3

\* The frames on a link after another is added.
LEMMA AppendFrames ==
    ASSUME NEW S, NEW q \in Seq(S), NEW e \in S
    PROVE  /\ Append(q, e) \in Seq(S)
           /\ \A i \in DOMAIN Append(q, e) :
                i \in Nat /\ IF i \in DOMAIN q THEN Append(q, e)[i] = q[i] /\ i <= Len(q)
                             ELSE Append(q, e)[i] = e /\ i = Len(q) + 1
  <1>1. Len(q) \in Nat /\ DOMAIN q = 1 .. Len(q)
    BY LenProperties
  <1>2. /\ Append(q, e) \in Seq(S) /\ Len(Append(q, e)) = Len(q) + 1
        /\ \A i \in 1 .. Len(q) : Append(q, e)[i] = q[i]
        /\ Append(q, e)[Len(q) + 1] = e
    BY AppendProperties
  <1>3. DOMAIN Append(q, e) = 1 .. Len(q) + 1
    BY <1>2, LenProperties
  <1> QED BY <1>1, <1>2, <1>3

\* A sorted link stays sorted when its first frame goes.
LEMMA TailSorted ==
    ASSUME NEW S, NEW q \in Seq(S), q # <<>>, Sorted(q)
    PROVE  Sorted(Tail(q))
  <1> SUFFICES ASSUME NEW i \in DOMAIN Tail(q), NEW j \in DOMAIN Tail(q),
                      i < j, Tail(q)[i].odd = hostOdd
               PROVE  Tail(q)[j].odd = hostOdd
    BY DEF Sorted
  <1>1. /\ i + 1 \in DOMAIN q /\ Tail(q)[i] = q[i + 1] /\ i \in Nat
        /\ j + 1 \in DOMAIN q /\ Tail(q)[j] = q[j + 1] /\ j \in Nat
    BY TailFrames
  <1>2. i + 1 < j + 1
    BY <1>1
  <1> QED BY <1>1, <1>2 DEF Sorted

\* It stays sorted when a frame of the present round comes.
LEMMA AppendSorted ==
    ASSUME NEW S, NEW q \in Seq(S), NEW e \in S, Sorted(q), e.odd = hostOdd
    PROVE  Sorted(Append(q, e))
  <1> SUFFICES ASSUME NEW i \in DOMAIN Append(q, e), NEW j \in DOMAIN Append(q, e),
                      i < j, Append(q, e)[i].odd = hostOdd
               PROVE  Append(q, e)[j].odd = hostOdd
    BY DEF Sorted
  <1>1. Len(q) \in Nat /\ DOMAIN q = 1 .. Len(q)
    BY LenProperties
  <1>2. CASE j \in DOMAIN q
    <2>1. i \in DOMAIN q
      BY <1>1, <1>2, AppendFrames
    <2> QED BY <1>2, <2>1, AppendFrames DEF Sorted
  <1>3. CASE j \notin DOMAIN q
    BY <1>3, AppendFrames
  <1> QED BY <1>2, <1>3

\* A lost request.
LEMMA LoseRequestIInv ==
    ASSUME NarrowPipe, IInv, LoseRequest
    PROVE  IInv'
  <1> USE DEF IInv
  <1>1. /\ req # <<>> /\ req' = Tail(req) /\ UNCHANGED <<targetVars, rsp, hostVars>>
        /\ req \in Seq([odd : BOOLEAN, skip : Nat, data : Seq(Nat)])
    BY DEF LoseRequest, TypeOK
  <1>2. /\ req' \in Seq([odd : BOOLEAN, skip : Nat, data : Seq(Nat)])
        /\ \A i \in DOMAIN req' : i + 1 \in DOMAIN req /\ req'[i] = req[i + 1] /\ i \in Nat
    BY <1>1, TailFrames
  <1>3. Accepted' = Accepted /\ Discarded' = Discarded
    BY <1>1 DEF Accepted, Discarded, targetVars
  <1>4. TypeOK'
    BY <1>1, <1>2 DEF TypeOK, targetVars, hostVars
  <1>5. Buffers'
    BY <1>1, <1>3 DEF Buffers, targetVars, hostVars
  <1>6. DeliveredInOrder'
    BY <1>1 DEF DeliveredInOrder, targetVars, hostVars
  <1>7. Requests'
    <2>1. Sorted(req')
      BY <1>1, TailSorted DEF Requests
    <2> QED BY <1>1, <1>2, <2>1 DEF Requests, Sorted, hostVars
  <1>8. Rounds'
    BY <1>1, <1>2, <1>3 DEF Rounds, BeforeFrame, AfterFrame, Sorted, targetVars, hostVars
  <1> QED BY <1>4, <1>5, <1>6, <1>7, <1>8

\* A lost response.
LEMMA LoseResponseIInv ==
    ASSUME NarrowPipe, IInv, LoseResponse
    PROVE  IInv'
  <1> USE DEF IInv
  <1>1. /\ rsp # <<>> /\ rsp' = Tail(rsp) /\ UNCHANGED <<targetVars, req, hostVars>>
        /\ rsp \in Seq([odd : BOOLEAN, nLast : Nat, data : Seq(Nat)])
    BY DEF LoseResponse, TypeOK
  <1>2. /\ rsp' \in Seq([odd : BOOLEAN, nLast : Nat, data : Seq(Nat)])
        /\ \A i \in DOMAIN rsp' : i + 1 \in DOMAIN rsp /\ rsp'[i] = rsp[i + 1] /\ i \in Nat
    BY <1>1, TailFrames
  <1>3. Accepted' = Accepted /\ Discarded' = Discarded
    BY <1>1 DEF Accepted, Discarded, targetVars
  <1>4. TypeOK'
    BY <1>1, <1>2 DEF TypeOK, targetVars, hostVars
  <1>5. Buffers'
    BY <1>1, <1>3 DEF Buffers, targetVars, hostVars
  <1>6. DeliveredInOrder'
    BY <1>1 DEF DeliveredInOrder, targetVars, hostVars
  <1>7. Requests'
    BY <1>1 DEF Requests, Sorted, hostVars
  <1>8. Rounds'
    <2>1. CASE bExpectOdd = hostOdd
      BY <1>1, <1>2, <1>3, <2>1 DEF Rounds, BeforeFrame, targetVars, hostVars
    <2>2. CASE bExpectOdd # hostOdd
      <3>1. Sorted(rsp')
        BY <1>1, <2>2, TailSorted DEF Rounds, AfterFrame
      <3> QED BY <1>1, <1>2, <1>3, <2>2, <3>1
              DEF Rounds, AfterFrame, Sorted, targetVars, hostVars
    <2> QED BY <2>1, <2>2
  <1> QED BY <1>4, <1>5, <1>6, <1>7, <1>8

\* The user of the host writes another byte.
LEMMA HostWriteIInv ==
    ASSUME NarrowPipe, IInv, HostWrite
    PROVE  IInv'
  <1> USE DEF IInv
  <1>1. /\ hostWritten' = hostWritten + 1
        /\ UNCHANGED <<targetVars, req, rsp, hostOdd, hostSkip, hostAcked, hostGot>>
    BY DEF HostWrite
  <1>2. hostWritten' \in Nat /\ hostWritten <= hostWritten'
    BY <1>1, TypeFacts
  <1>3. Accepted' = Accepted /\ Discarded' = Discarded /\ Accepted \in Nat
    BY <1>1, Counters DEF Accepted, Discarded, targetVars
  <1>4. TypeOK'
    BY <1>1, <1>2 DEF TypeOK, targetVars
  <1>5. Buffers'
    <2>1. Accepted' <= hostWritten'
      BY <1>1, <1>2, <1>3, TypeFacts DEF Buffers
    <2> QED BY <1>1, <1>3, <2>1 DEF Buffers, targetVars
  <1>6. DeliveredInOrder'
    <2>1. Len(appGot) <= hostWritten'
      BY <1>2, TypeFacts DEF DeliveredInOrder
    <2> QED BY <1>1, <2>1 DEF DeliveredInOrder, targetVars
  <1>7. Requests' /\ Rounds'
    <2>1. txWritten' = txWritten /\ txWritten \in Nat
      BY <1>1, TypeFacts DEF targetVars
    <2> QED BY <1>1, <1>2, <1>3, <2>1, SameRound DEF targetVars
  <1> QED BY <1>4, <1>5, <1>6, <1>7

\* The host sends or repeats its request.
LEMMA HostSendIInv ==
    ASSUME PipeAssumption, NarrowPipe, IInv, HostSend
    PROVE  IInv'
  <1> USE DEF IInv
  <1>1. PICK n : /\ n \in 0 .. Min2(hostWritten - hostAcked, MaxData)
                 /\ req' = Append(req, [odd |-> hostOdd, skip |-> hostSkip,
                                        data |-> Numbered(hostAcked, n)])
                 /\ UNCHANGED <<targetVars, rsp, hostVars>>
    <2>1. Min2(hostWritten - hostAcked, MaxData) \in Nat
      <3>1. hostAcked <= hostWritten
        <4>1. hostAcked \in Nat /\ nLast \in Nat
          BY TypeFacts
        <4>2. Accepted = hostAcked \/ Accepted = hostAcked + nLast
          BY DEF Rounds, BeforeFrame, AfterFrame
        <4>3. Accepted <= hostWritten /\ hostWritten \in Nat
          BY CounterBounds
        <4> QED BY <4>1, <4>2, <4>3
      <3> QED BY <3>1, TypeFacts DEF Min2, PipeAssumption
    <2> QED BY <2>1 DEF HostSend
  <1>2. n \in Nat /\ hostAcked + n <= hostWritten
    BY <1>1, TypeFacts DEF Min2, PipeAssumption
  <1>3. PICK e : e = [odd |-> hostOdd, skip |-> hostSkip, data |-> Numbered(hostAcked, n)]
    OBVIOUS
  <1>4. /\ e \in [odd : BOOLEAN, skip : Nat, data : Seq(Nat)]
        /\ e.odd = hostOdd /\ e.skip = hostSkip
        /\ hostAcked + Len(e.data) <= hostWritten
        /\ Follows(e.data, hostAcked)
    <2>1. /\ Numbered(hostAcked, n) \in Seq(Nat) /\ Len(Numbered(hostAcked, n)) = n
          /\ Follows(Numbered(hostAcked, n), hostAcked)
      BY <1>2, TypeFacts, NumberedSeq
    <2> QED BY <1>2, <1>3, <2>1, TypeFacts
  <1>5. /\ req' \in Seq([odd : BOOLEAN, skip : Nat, data : Seq(Nat)])
        /\ \A i \in DOMAIN req' : IF i \in DOMAIN req THEN req'[i] = req[i] ELSE req'[i] = e
        /\ Sorted(req')
    <2>1. req \in Seq([odd : BOOLEAN, skip : Nat, data : Seq(Nat)]) /\ req' = Append(req, e)
      BY <1>1, <1>3 DEF TypeOK
    <2>2. Sorted(req')
      <3>1. Sorted(Append(req, e))
        BY <1>4, <2>1, AppendSorted DEF Requests
      <3> QED BY <2>1, <3>1
    <2>3. /\ Append(req, e) \in Seq([odd : BOOLEAN, skip : Nat, data : Seq(Nat)])
          /\ \A i \in DOMAIN Append(req, e) :
                IF i \in DOMAIN req THEN Append(req, e)[i] = req[i] ELSE Append(req, e)[i] = e
      BY <1>4, <2>1, AppendFrames
    <2> QED BY <2>1, <2>2, <2>3
  <1>6. Accepted' = Accepted /\ Discarded' = Discarded
    BY <1>1 DEF Accepted, Discarded, targetVars
  <1>7. TypeOK'
    BY <1>1, <1>5 DEF TypeOK, targetVars, hostVars
  <1>8. Buffers'
    BY <1>1, <1>6 DEF Buffers, targetVars, hostVars
  <1>9. DeliveredInOrder'
    BY <1>1 DEF DeliveredInOrder, targetVars, hostVars
  <1>10. Requests'
    <2>1. Sorted(req)'
      BY <1>1, <1>5 DEF Sorted, hostVars
    <2>2. ASSUME NEW i \in DOMAIN req', req'[i].odd = hostOdd
          PROVE  /\ req'[i].skip = hostSkip
                 /\ hostAcked + Len(req'[i].data) <= hostWritten
                 /\ Follows(req'[i].data, hostAcked)
      <3>1. CASE i \in DOMAIN req
        BY <1>5, <2>2, <3>1 DEF Requests
      <3>2. CASE i \notin DOMAIN req
        BY <1>4, <1>5, <3>2
      <3> QED BY <3>1, <3>2
    <2> QED BY <1>1, <2>1, <2>2 DEF Requests, hostVars
  <1>11. Rounds'
    <2>1. CASE bExpectOdd = hostOdd
      BY <1>1, <1>6, <2>1 DEF Rounds, BeforeFrame, targetVars, hostVars
    <2>2. CASE bExpectOdd # hostOdd
      <3>1. \A i \in DOMAIN req' : req'[i].odd = hostOdd
        BY <1>4, <1>5, <2>2 DEF Rounds, AfterFrame
      <3> QED BY <1>1, <1>6, <2>2, <3>1 DEF Rounds, AfterFrame, Sorted, targetVars, hostVars
    <2> QED BY <2>1, <2>2
  <1> QED BY <1>7, <1>8, <1>9, <1>10, <1>11

\* The host takes a response: its round is complete, or nothing changes.
LEMMA HostReceiveIInv ==
    ASSUME NarrowPipe, IInv, HostReceive
    PROVE  IInv'
  <1> USE DEF IInv
  <1>1. /\ rsp # <<>> /\ rsp' = Tail(rsp) /\ UNCHANGED <<targetVars, req, hostWritten>>
        /\ rsp \in Seq([odd : BOOLEAN, nLast : Nat, data : Seq(Nat)])
    BY DEF HostReceive, TypeOK
  <1>2. /\ rsp' \in Seq([odd : BOOLEAN, nLast : Nat, data : Seq(Nat)])
        /\ Head(rsp) = rsp[1] /\ 1 \in DOMAIN rsp
        /\ \A i \in DOMAIN rsp' : i + 1 \in DOMAIN rsp /\ rsp'[i] = rsp[i + 1] /\ i \in Nat
    BY <1>1, TailFrames
  <1>3. Accepted' = Accepted /\ Discarded' = Discarded
    BY <1>1 DEF Accepted, Discarded, targetVars
  <1>4. CASE rsp[1].odd = hostOdd
    <2>1. bExpectOdd # hostOdd /\ AfterFrame
      BY <1>2, <1>4 DEF Rounds, BeforeFrame
    <2>2. PICK d \in Seq(Nat) : d = rsp[1].data
      BY <1>2, TypeFacts
    <2>3. /\ hostAcked' = hostAcked + nLast /\ hostGot' = hostGot \o d
          /\ hostSkip' = Len(d) /\ hostOdd' = ~hostOdd
      BY <1>2, <1>4, <2>1, <2>2 DEF HostReceive, AfterFrame
    <2>4. /\ Len(d) \in Nat /\ Len(hostGot) + Len(d) <= txWritten
          /\ Follows(d, Len(hostGot))
      BY <1>2, <1>4, <2>1, <2>2 DEF AfterFrame
    <2>5. /\ hostGot' \in Seq(Nat) /\ Len(hostGot') = Len(hostGot) + Len(d)
          /\ Follows(hostGot', 0)
      <3>1. hostGot \o d \in Seq(Nat) /\ Len(hostGot \o d) = Len(hostGot) + Len(d)
        BY TypeFacts, ConcatProperties
      <3>2. Follows(hostGot \o d, 0)
        BY <2>4, TypeFacts, FollowsOn DEF DeliveredInOrder
      <3> QED BY <2>3, <3>1, <3>2
    <2>6. bExpectOdd' = hostOdd' /\ hostOdd' \in BOOLEAN
      <3>1. bExpectOdd' = bExpectOdd
        BY <1>1 DEF targetVars
      <3>2. bExpectOdd \in BOOLEAN /\ hostOdd \in BOOLEAN
        BY TypeFacts
      <3> QED BY <2>1, <2>3, <3>1, <3>2
    <2>7. TypeOK'
      <3>1. hostAcked' \in Nat /\ hostSkip' \in Nat
        BY <2>3, <2>4, TypeFacts
      <3> QED BY <1>1, <1>2, <2>5, <2>6, <3>1 DEF TypeOK, targetVars
    <2>8. Buffers'
      BY <1>1, <1>3 DEF Buffers, targetVars
    <2>9. DeliveredInOrder'
      BY <1>1, <2>4, <2>5 DEF DeliveredInOrder, targetVars
    <2>10. \A i \in DOMAIN req : req[i].odd # hostOdd'
      BY <2>1, <2>3, TypeFacts DEF AfterFrame
    <2>11. Requests'
      BY <1>1, <2>10 DEF Requests, Sorted
    <2>12. \A i \in DOMAIN rsp' : rsp'[i].odd # hostOdd'
      <3>1. ASSUME NEW i \in DOMAIN rsp' PROVE rsp'[i].odd = hostOdd
        <4>1. 1 < i + 1
          BY <1>2
        <4> QED BY <1>2, <1>4, <2>1, <4>1 DEF AfterFrame, Sorted
      <3> QED BY <2>3, <3>1, TypeFacts
    <2>13. BeforeFrame'
      <3>1. Accepted' = hostAcked'
        BY <1>3, <2>1, <2>3 DEF AfterFrame
      <3>2. Discarded' + hostSkip' = Len(hostGot')
        BY <1>3, <2>1, <2>3, <2>5 DEF AfterFrame
      <3> QED BY <2>12, <3>1, <3>2 DEF BeforeFrame
    <2> QED BY <2>6, <2>7, <2>8, <2>9, <2>11, <2>13 DEF Rounds
  <1>5. CASE rsp[1].odd # hostOdd
    <2>1. UNCHANGED <<hostAcked, hostGot, hostSkip, hostOdd>>
      BY <1>2, <1>5 DEF HostReceive
    <2>2. TypeOK' /\ Buffers' /\ DeliveredInOrder'
      BY <1>1, <1>2, <1>3, <2>1 DEF TypeOK, Buffers, DeliveredInOrder, targetVars
    <2>3. Requests'
      BY <1>1, <2>1 DEF Requests, Sorted
    <2>4. Rounds'
      <3>1. CASE bExpectOdd = hostOdd
        BY <1>1, <1>2, <1>3, <2>1, <3>1 DEF Rounds, BeforeFrame, targetVars
      <3>2. CASE bExpectOdd # hostOdd
        <4>1. Sorted(rsp')
          BY <1>1, <3>2, TailSorted DEF Rounds, AfterFrame
        <4> QED BY <1>1, <1>2, <1>3, <2>1, <3>2, <4>1
                DEF Rounds, AfterFrame, Sorted, targetVars
      <3> QED BY <3>1, <3>2
    <2> QED BY <2>2, <2>3, <2>4
  <1> QED BY <1>4, <1>5

-----------------------------------------------------------------------------
(* The PIPE command.                                                       *)

\* The response to a request of a round: its own data from what waits in tx.
LEMMA ResponseData ==
    ASSUME NarrowPipe, PipeAssumption, NEW b, IsBuff(b, TxSize), NEW k \in Nat, Holds(b, k)
    PROVE  /\ Peek(b, Min2(BytesReady(b), MaxSend)) \in Seq(Nat)
           /\ Len(Peek(b, Min2(BytesReady(b), MaxSend))) <= BytesReady(b)
           /\ Len(Peek(b, Min2(BytesReady(b), MaxSend))) \in Nat
           /\ Follows(Peek(b, Min2(BytesReady(b), MaxSend)), k)
  <1>1. BytesReady(b) \in Nat
    BY BuffFields, ReadyFree DEF NarrowPipe
  <1>2. PICK n \in 0 .. BytesReady(b) : n = Min2(BytesReady(b), MaxSend) /\ n \in Nat
    BY <1>1 DEF Min2, PipeAssumption
  <1>3. Peek(b, n) = Numbered(k, n)
    BY HoldsTaken DEF NarrowPipe, Numbered
  <1>4. PICK t \in Seq(Nat) : t = Peek(b, n) /\ Len(t) = n /\ Follows(t, k)
    BY <1>2, <1>3, NumberedSeq
  <1> QED BY <1>1, <1>2, <1>4

\* What a handled request and its callback do to the receive buffer: they add
\* accepted bytes that follow those accepted before, and take some out.
LEMMA ReceiveSide ==
    ASSUME PipeAssumption, NarrowPipe, TypeOK, DeliveredInOrder, Buffers,
           NEW data \in Seq(Nat), Len(data) <= BytesFree(rx),
           Follows(data, Accepted),
           NEW rx1, rx1 = Put(rx, data),
           NEW n \in 0 .. BytesReady(rx1),
           rx' = Rest(rx1, n), appGot' = appGot \o Taken(rx1, n)
    PROVE  /\ Taken(rx1, n) \in Seq(Nat)
           /\ appGot' \in Seq(Nat) /\ Follows(appGot', 0)
           /\ IsBuff(rx', RxSize) /\ Holds(rx', Len(appGot'))
           /\ Accepted' = Accepted + Len(data) /\ Len(appGot') <= Accepted'
           /\ Len(appGot') \in Nat
  <1>1. /\ Narrow(RxSize) /\ IsBuff(rx, RxSize) /\ Holds(rx, Len(appGot))
        /\ Follows(appGot, 0)
        /\ appGot \in Seq(Nat) /\ Len(appGot) \in Nat
    BY TypeFacts DEF NarrowPipe, Buffers, DeliveredInOrder
  <1>2. Follows(data, Len(appGot) + BytesReady(rx))
    BY DEF Accepted
  <1>3. /\ IsBuff(Put(rx, data), RxSize) /\ Holds(Put(rx, data), Len(appGot))
        /\ BytesReady(Put(rx, data)) = BytesReady(rx) + Len(data)
    BY <1>1, <1>2, WriteKeeps
  <1>4. /\ Taken(rx1, n) \in Seq(Nat)
        /\ appGot \o Taken(rx1, n) \in Seq(Nat)
        /\ Len(appGot \o Taken(rx1, n)) = Len(appGot) + n
        /\ Follows(appGot \o Taken(rx1, n), 0)
        /\ IsBuff(Rest(rx1, n), RxSize) /\ Holds(Rest(rx1, n), Len(appGot) + n)
        /\ BytesReady(Rest(rx1, n)) = BytesReady(rx1) - n
    <2>1. IsBuff(rx1, RxSize) /\ Holds(rx1, Len(appGot))
      BY <1>3
    <2> QED BY <1>1, <2>1, ReadKeeps
  <1>5. BytesReady(rx) \in Nat /\ Len(data) \in Nat /\ n \in Nat /\ n <= BytesReady(rx1)
    BY <1>3, Counters
  <1>6. Len(appGot') = Len(appGot) + n /\ BytesReady(rx') = (BytesReady(rx) + Len(data)) - n
    <2>1. /\ Len(appGot') = Len(appGot \o Taken(rx1, n))
          /\ BytesReady(rx') = BytesReady(Rest(rx1, n))
          /\ BytesReady(rx1) = BytesReady(rx) + Len(data)
      BY <1>3
    <2> QED BY <1>4, <2>1
  <1>7. Accepted' = Accepted + Len(data) /\ Len(appGot') <= Accepted'
    <2>1. /\ Accepted = Len(appGot) + BytesReady(rx)
          /\ Accepted' = Len(appGot') + BytesReady(rx')
          /\ n <= BytesReady(rx) + Len(data)
      BY <1>3, <1>5 DEF Accepted
    <2> QED BY <1>1, <1>5, <1>6, <2>1
  <1> QED BY <1>1, <1>4, <1>5, <1>6, <1>7

\* What they do to the transmit buffer: they discard skip bytes, and add n that
\* follow those written before.
LEMMA TransmitSide ==
    ASSUME NarrowPipe, TypeOK, Buffers,
           NEW skip \in 0 .. BytesReady(tx),
           NEW tx1, tx1 = DiscardBytes(tx, skip),
           NEW n \in 0 .. BytesFree(tx1),
           tx' = Put(tx1, Numbered(txWritten, n)), txWritten' = txWritten + n
    PROVE  /\ IsBuff(tx', TxSize) /\ Holds(tx', Discarded + skip)
           /\ Discarded' = Discarded + skip /\ Discarded' \in Nat
           /\ txWritten' \in Nat /\ txWritten <= txWritten'
           /\ txWritten' = Discarded' + BytesReady(tx')
  <1>1. /\ Narrow(TxSize) /\ IsBuff(tx, TxSize) /\ Holds(tx, Discarded)
        /\ Discarded \in Nat /\ BytesReady(tx) \in Nat /\ TxSize \in Nat
        /\ txWritten = Discarded + BytesReady(tx) /\ txWritten \in Nat
        /\ skip \in Nat /\ skip <= BytesReady(tx)
    BY Counters DEF NarrowPipe, Buffers, Narrow
  <1>2. /\ IsBuff(tx1, TxSize) /\ Holds(tx1, Discarded + skip)
        /\ BytesReady(tx1) = BytesReady(tx) - skip
    BY <1>1, DiscardKeeps
  <1>3. BytesFree(tx1) = TxSize - BytesReady(tx1) /\ BytesReady(tx1) \in 0 .. TxSize
    BY <1>1, <1>2, ReadyFree
  <1>4. n \in Nat /\ n <= BytesFree(tx1) /\ BytesReady(tx1) \in Nat
    BY <1>1, <1>3
  <1>5. PICK data \in Seq(Nat) :
          data = Numbered(txWritten, n) /\ Len(data) = n
          /\ Follows(data, txWritten)
    BY <1>1, <1>4, NumberedSeq
  <1>6. PICK k \in Nat : k = Discarded + skip /\ txWritten = k + BytesReady(tx1)
    BY <1>1, <1>2
  <1>7. Follows(data, k + BytesReady(tx1))
    BY <1>5, <1>6
  <1>8. /\ IsBuff(tx', TxSize) /\ Holds(tx', k) /\ BytesReady(tx') = BytesReady(tx1) + n
    <2>1. Len(data) <= BytesFree(tx1) /\ Holds(tx1, k)
      BY <1>2, <1>4, <1>5, <1>6
    <2>2. /\ IsBuff(Put(tx1, data), TxSize) /\ Holds(Put(tx1, data), k)
          /\ BytesReady(Put(tx1, data)) = BytesReady(tx1) + Len(data)
      BY <1>1, <1>2, <1>7, <2>1, WriteKeeps
    <2> QED BY <1>5, <2>2
  <1>9. Discarded' = txWritten' - BytesReady(tx')
    BY DEF Discarded
  <1>10. Discarded' = k /\ txWritten' = k + BytesReady(tx')
    <2>1. PICK r \in Nat : r = BytesReady(tx1)
      BY <1>4
    <2>2. BytesReady(tx') = r + n
      BY <1>8, <2>1
    <2>3. txWritten = k + r
      BY <1>6, <2>1
    <2>4. txWritten' = (k + r) + n
      BY <2>3
    <2>5. n \in Nat /\ k \in Nat
      BY <1>4
    <2> QED BY <1>9, <2>1, <2>2, <2>4, <2>5, SMTT(20)
  <1>11. txWritten' \in Nat /\ txWritten <= txWritten'
    BY <1>1, <1>4
  <1> QED BY <1>6, <1>8, <1>10, <1>11

\* What a request that is handled finds and does, whichever round it is of:
\* one of another round accepts nothing and discards nothing.
LEMMA FrameStep ==
    ASSUME PipeAssumption, NarrowPipe, IInv, PipeFrame
    PROVE  \E data, skip, e :
             /\ data \in Seq(Nat) /\ skip \in Nat
             /\ req # <<>>
             /\ IF req[1].odd = bExpectOdd
                THEN /\ hostOdd = bExpectOdd /\ skip = hostSkip
                     /\ hostAcked + Len(data) <= hostWritten
                     /\ bExpectOdd' = ~bExpectOdd /\ nLast' = Len(data)
                ELSE data = <<>> /\ skip = 0 /\ UNCHANGED <<bExpectOdd, nLast>>
             /\ \E t \in Seq(Nat) : appGot' = appGot \o t
             /\ appGot' \in Seq(Nat) /\ Follows(appGot', 0)
             /\ IsBuff(rx', RxSize) /\ Holds(rx', Len(appGot'))
             /\ Accepted' = Accepted + Len(data) /\ Len(appGot') <= Accepted'
             /\ Len(appGot') \in Nat
             /\ IsBuff(tx', TxSize) /\ Holds(tx', Discarded')
             /\ Discarded' = Discarded + skip /\ Discarded' \in Nat
             /\ txWritten' \in Nat /\ txWritten <= txWritten'
             /\ req' = Tail(req) /\ rsp' = Append(rsp, e)
             /\ e \in [odd : BOOLEAN, nLast : Nat, data : Seq(Nat)]
             /\ e.odd = req[1].odd /\ e.nLast = nLast'
             /\ Discarded' + Len(e.data) <= txWritten' /\ Follows(e.data, Discarded')
             /\ UNCHANGED hostVars
  <1> USE DEF IInv
  <1>1. /\ req # <<>> /\ 1 \in DOMAIN req /\ Head(req) = req[1]
        /\ req[1] \in [odd : BOOLEAN, skip : Nat, data : Seq(Nat)]
    <2>1. req # <<>> /\ req \in Seq([odd : BOOLEAN, skip : Nat, data : Seq(Nat)])
      BY DEF PipeFrame, TypeOK
    <2> QED BY <2>1, TailFrames, TypeFacts
  <1>2. PICK r : r = req[1] /\ r \in [odd : BOOLEAN, skip : Nat, data : Seq(Nat)]
    BY <1>1
  <1>3. PICK accepted : accepted = Min2(Len(r.data), BytesFree(rx))
    OBVIOUS
  <1>4. PICK data : data = IF r.odd = bExpectOdd THEN SubSeq(r.data, 1, accepted) ELSE <<>>
    OBVIOUS
  <1>5. PICK skip : skip = IF r.odd = bExpectOdd THEN r.skip ELSE 0
    OBVIOUS
  <1>6. Put(rx, <<>>) = rx /\ DiscardBytes(tx, 0) = tx
    <2>1. Min2(0, BytesReady(tx)) = 0
      BY Counters DEF Min2
    <2> QED BY <2>1 DEF Put, DiscardBytes
  <1>7. PICK rx1 : rx1 = Put(rx, data)
    OBVIOUS
  <1>8. PICK tx1 : tx1 = DiscardBytes(tx, skip)
    OBVIOUS
  <1>9. PICK rlen, wlen, nread, nwrite, e :
          /\ rlen \in CallbackLens /\ wlen \in CallbackLens
          /\ nread = Whole(rlen, BytesReady(rx1), 0)
          /\ nwrite = Whole(wlen, BytesFree(tx1), 0)
          /\ bExpectOdd' = IF r.odd = bExpectOdd THEN ~bExpectOdd ELSE bExpectOdd
          /\ nLast' = IF r.odd = bExpectOdd THEN accepted ELSE nLast
          /\ rx' = Rest(rx1, nread) /\ appGot' = appGot \o Taken(rx1, nread)
          /\ tx' = Put(tx1, Numbered(txWritten, nwrite)) /\ txWritten' = txWritten + nwrite
          /\ req' = Tail(req) /\ rsp' = Append(rsp, e)
          /\ e = [odd |-> r.odd, nLast |-> nLast',
                  data |-> Peek(tx', Min2(BytesReady(tx'), MaxSend))]
          /\ UNCHANGED hostVars
    BY <1>1, <1>2, <1>3, <1>4, <1>5, <1>6, <1>7, <1>8, ZenonT(40) DEF PipeFrame, Matching
  <1>10. /\ data \in Seq(Nat) /\ Len(data) \in Nat /\ Len(data) <= BytesFree(rx)
         /\ Follows(data, Accepted)
         /\ skip \in Nat /\ skip <= BytesReady(tx)
         /\ IF r.odd = bExpectOdd
            THEN /\ hostOdd = bExpectOdd /\ skip = hostSkip
                 /\ hostAcked + Len(data) <= hostWritten
                 /\ bExpectOdd' = ~bExpectOdd /\ nLast' = Len(data)
            ELSE data = <<>> /\ skip = 0 /\ UNCHANGED <<bExpectOdd, nLast>>
    <2>1. CASE r.odd = bExpectOdd
      <3>1. hostOdd = bExpectOdd /\ BeforeFrame
        BY <1>1, <1>2, <2>1 DEF Rounds, AfterFrame
      <3>2. /\ skip = hostSkip /\ hostAcked + Len(r.data) <= hostWritten
            /\ Follows(r.data, Accepted)
        BY <1>1, <1>2, <1>5, <2>1, <3>1 DEF Requests, BeforeFrame
      <3>3. PICK s \in Seq(Nat) : s = r.data
        BY <1>2
      <3>4. Len(s) \in Nat /\ DOMAIN s = 1 .. Len(s)
        BY LenProperties
      <3>5. BytesFree(rx) \in Nat
        BY Counters DEF NarrowPipe, Narrow
      <3>6. accepted \in 0 .. Len(s) /\ accepted <= BytesFree(rx) /\ accepted \in Nat
        BY <1>3, <3>3, <3>4, <3>5 DEF Min2
      <3>7. /\ SubSeq(s, 1, accepted) \in Seq(Nat) /\ Len(SubSeq(s, 1, accepted)) = accepted
            /\ \A i \in 1 .. accepted : SubSeq(s, 1, accepted)[i] = s[i]
        BY <3>4, <3>6
      <3>8. data = SubSeq(s, 1, accepted)
        BY <1>4, <2>1, <3>3
      <3>9. Follows(data, Accepted)
        <4>1. DOMAIN data = 1 .. accepted
          BY <3>7, <3>8, LenProperties
        <4>2. ASSUME NEW i \in 1 .. accepted PROVE data[i] = Accepted + i
          <5>1. i \in DOMAIN s
            BY <3>4, <3>6
          <5> QED BY <3>2, <3>3, <3>7, <3>8, <5>1 DEF Follows
        <4> QED BY <4>1, <4>2 DEF Follows
      <3>10. hostAcked + Len(data) <= hostWritten
        BY <3>2, <3>3, <3>4, <3>6, <3>7, <3>8, TypeFacts
      <3>11. skip \in Nat /\ skip <= BytesReady(tx)
        <4>1. Discarded + hostSkip <= txWritten
          BY <3>1 DEF BeforeFrame, DeliveredInOrder
        <4>2. /\ BytesReady(tx) \in Nat /\ Discarded \in Nat
              /\ txWritten = Discarded + BytesReady(tx)
          BY Counters, CounterBounds
        <4>3. hostSkip \in Nat
          BY TypeFacts
        <4> QED BY <3>2, <4>1, <4>2, <4>3
      <3>12. bExpectOdd' = ~bExpectOdd /\ nLast' = Len(data)
        BY <1>9, <2>1, <3>7, <3>8
      <3> QED BY <2>1, <3>1, <3>2, <3>6, <3>7, <3>8, <3>9, <3>10, <3>11, <3>12
    <2>2. CASE r.odd # bExpectOdd
      <3>1. data = <<>> /\ skip = 0
        BY <1>4, <1>5, <2>2
      <3>2. data \in Seq(Nat) /\ Len(data) = 0 /\ Follows(data, Accepted)
        BY <3>1, EmptySeq DEF Follows
      <3>3. BytesFree(rx) \in Nat /\ BytesReady(tx) \in Nat
        BY Counters DEF NarrowPipe, Narrow
      <3>4. UNCHANGED <<bExpectOdd, nLast>>
        BY <1>9, <2>2
      <3> QED BY <2>2, <3>1, <3>2, <3>3, <3>4
    <2> QED BY <2>1, <2>2
  <1>11. nread \in 0 .. BytesReady(rx1)
    <2>1. IsBuff(rx1, RxSize)
      BY <1>7, <1>10, PutLemma DEF NarrowPipe, Buffers
    <2>2. BytesReady(rx1) \in Nat
      BY <2>1, ReadyFree DEF NarrowPipe, Narrow
    <2>3. rlen \in Nat
      BY <1>9 DEF PipeAssumption
    <2> QED BY <1>9, <2>2, <2>3, WholeRange
  <1>12. nwrite \in 0 .. BytesFree(tx1)
    <2>1. skip \in 0 .. BytesReady(tx)
      BY <1>10, Counters
    <2>2. IsBuff(tx1, TxSize)
      BY <1>8, <2>1, DiscardLemma DEF NarrowPipe, Buffers
    <2>3. BytesFree(tx1) \in Nat
      BY <2>2, ReadyFree DEF NarrowPipe, Narrow
    <2>4. wlen \in Nat
      BY <1>9 DEF PipeAssumption
    <2> QED BY <1>9, <2>3, <2>4, WholeRange
  <1>13. /\ Taken(rx1, nread) \in Seq(Nat)
         /\ appGot' \in Seq(Nat) /\ Follows(appGot', 0)
         /\ IsBuff(rx', RxSize) /\ Holds(rx', Len(appGot'))
         /\ Accepted' = Accepted + Len(data) /\ Len(appGot') <= Accepted'
         /\ Len(appGot') \in Nat
    BY <1>7, <1>9, <1>10, <1>11, ReceiveSide
  <1>14. /\ IsBuff(tx', TxSize) /\ Holds(tx', Discarded')
         /\ Discarded' = Discarded + skip /\ Discarded' \in Nat
         /\ txWritten' \in Nat /\ txWritten <= txWritten'
         /\ txWritten' = Discarded' + BytesReady(tx')
    <2>1. skip \in 0 .. BytesReady(tx)
      BY <1>10, Counters
    <2> QED BY <1>8, <1>9, <1>12, <2>1, TransmitSide
  <1>15. /\ e \in [odd : BOOLEAN, nLast : Nat, data : Seq(Nat)]
         /\ e.odd = r.odd /\ e.nLast = nLast'
         /\ Discarded' + Len(e.data) <= txWritten' /\ Follows(e.data, Discarded')
    <2>1. PICK d : d = Peek(tx', Min2(BytesReady(tx'), MaxSend))
      OBVIOUS
    <2>2. /\ d \in Seq(Nat) /\ Len(d) <= BytesReady(tx') /\ Len(d) \in Nat
          /\ Follows(d, Discarded')
      BY <1>14, <2>1, ResponseData
    <2>3. nLast' \in Nat
      BY <1>10, TypeFacts
    <2>4. BytesReady(tx') \in Nat
      BY <1>14, ReadyFree DEF NarrowPipe, Narrow
    <2>5. Discarded' + Len(d) <= txWritten'
      BY <1>14, <2>2, <2>4
    <2>6. e = [odd |-> r.odd, nLast |-> nLast', data |-> d]
      BY <1>9, <2>1
    <2> QED BY <1>2, <2>2, <2>3, <2>5, <2>6
  <1> QED BY <1>1, <1>2, <1>9, <1>10, <1>13, <1>14, <1>15

\* FMSTR_PipeFrame keeps the invariant: a request of the round the target
\* expects takes it past that round, and a repetition is answered alike.
LEMMA PipeFrameIInv ==
    ASSUME PipeAssumption, NarrowPipe, IInv, PipeFrame
    PROVE  IInv'
  <1> USE DEF IInv
  <1>1. PICK data, skip, e :
             /\ data \in Seq(Nat) /\ skip \in Nat
             /\ req # <<>>
             /\ IF req[1].odd = bExpectOdd
                THEN /\ hostOdd = bExpectOdd /\ skip = hostSkip
                     /\ hostAcked + Len(data) <= hostWritten
                     /\ bExpectOdd' = ~bExpectOdd /\ nLast' = Len(data)
                ELSE data = <<>> /\ skip = 0 /\ UNCHANGED <<bExpectOdd, nLast>>
             /\ \E t \in Seq(Nat) : appGot' = appGot \o t
             /\ appGot' \in Seq(Nat) /\ Follows(appGot', 0)
             /\ IsBuff(rx', RxSize) /\ Holds(rx', Len(appGot'))
             /\ Accepted' = Accepted + Len(data) /\ Len(appGot') <= Accepted'
             /\ Len(appGot') \in Nat
             /\ IsBuff(tx', TxSize) /\ Holds(tx', Discarded')
             /\ Discarded' = Discarded + skip /\ Discarded' \in Nat
             /\ txWritten' \in Nat /\ txWritten <= txWritten'
             /\ req' = Tail(req) /\ rsp' = Append(rsp, e)
             /\ e \in [odd : BOOLEAN, nLast : Nat, data : Seq(Nat)]
             /\ e.odd = req[1].odd /\ e.nLast = nLast'
             /\ Discarded' + Len(e.data) <= txWritten' /\ Follows(e.data, Discarded')
             /\ UNCHANGED hostVars
    BY FrameStep
  <1>2. /\ req' \in Seq([odd : BOOLEAN, skip : Nat, data : Seq(Nat)])
        /\ 1 \in DOMAIN req
        /\ \A i \in DOMAIN req' : i + 1 \in DOMAIN req /\ req'[i] = req[i + 1] /\ i \in Nat
    BY <1>1, TailFrames DEF TypeOK
  <1>3. /\ rsp' \in Seq([odd : BOOLEAN, nLast : Nat, data : Seq(Nat)])
        /\ \A i \in DOMAIN rsp' : IF i \in DOMAIN rsp THEN rsp'[i] = rsp[i] ELSE rsp'[i] = e
    <2>1. /\ rsp \in Seq([odd : BOOLEAN, nLast : Nat, data : Seq(Nat)])
          /\ e \in [odd : BOOLEAN, nLast : Nat, data : Seq(Nat)] /\ rsp' = Append(rsp, e)
      BY <1>1 DEF TypeOK
    <2>2. Append(rsp, e) \in Seq([odd : BOOLEAN, nLast : Nat, data : Seq(Nat)])
      BY <2>1, AppendFrames
    <2>3. \A i \in DOMAIN Append(rsp, e) :
            IF i \in DOMAIN rsp THEN Append(rsp, e)[i] = rsp[i] ELSE Append(rsp, e)[i] = e
      BY <2>1, AppendFrames
    <2> QED BY <2>1, <2>2, <2>3
  <1>4. UNCHANGED <<hostOdd, hostSkip, hostWritten, hostAcked, hostGot>>
    BY <1>1 DEF hostVars
  <1>5. Len(data) \in Nat /\ Accepted \in Nat /\ Discarded \in Nat
    BY Counters DEF Buffers
  <1>6. bExpectOdd' \in BOOLEAN /\ nLast' \in Nat
    BY <1>1, <1>5, TypeFacts
  <1>7. TypeOK'
    BY <1>1, <1>2, <1>3, <1>4, <1>6 DEF TypeOK, IsBuff
  <1>8. Accepted' <= hostWritten
    <2>1. CASE req[1].odd = bExpectOdd
      <3>1. Accepted = hostAcked
        BY <1>1, <2>1 DEF Rounds, BeforeFrame
      <3> QED BY <1>1, <2>1, <3>1
    <2>2. CASE req[1].odd # bExpectOdd
      <3>1. Len(data) = 0
        BY <1>1, <2>2
      <3> QED BY <1>1, <1>5, <3>1 DEF Buffers
    <2> QED BY <2>1, <2>2
  <1>9. Buffers'
    BY <1>1, <1>4, <1>8 DEF Buffers
  <1>10. DeliveredInOrder'
    <2>1. Len(appGot') <= hostWritten
      <3>1. Len(appGot') <= Accepted' /\ Len(appGot') \in Nat /\ Accepted' = Accepted + Len(data)
        BY <1>1
      <3>2. Accepted' \in Nat /\ hostWritten \in Nat
        BY <1>5, <3>1, TypeFacts
      <3> QED BY <1>8, <3>1, <3>2
    <2>2. Len(hostGot) <= txWritten'
      <3>1. Len(hostGot) <= txWritten /\ Len(hostGot) \in Nat /\ txWritten \in Nat
        BY TypeFacts DEF DeliveredInOrder
      <3>2. txWritten <= txWritten' /\ txWritten' \in Nat
        BY <1>1
      <3> QED BY <3>1, <3>2
    <2> QED BY <1>1, <1>4, <2>1, <2>2 DEF DeliveredInOrder
  <1>11. Requests'
    <2>1. Sorted(req)'
      <3>1. Sorted(Tail(req))
        BY <1>1, TailSorted DEF Requests, TypeOK
      <3> QED BY <1>1, <1>4, <3>1 DEF Sorted
    <2> QED BY <1>2, <1>4, <2>1 DEF Requests
  <1>12. Rounds'
    <2>1. CASE req[1].odd = bExpectOdd
      <3>1. bExpectOdd = hostOdd /\ bExpectOdd' # hostOdd' /\ BeforeFrame /\ req[1].odd = hostOdd
        BY <1>1, <1>4, <2>1, TypeFacts DEF Rounds
      <3>2. Accepted' = hostAcked' + nLast'
        BY <1>1, <1>4, <2>1, <3>1 DEF BeforeFrame
      <3>3. Discarded' = Len(hostGot')
        BY <1>1, <1>4, <2>1, <3>1 DEF BeforeFrame
      <3>4. \A i \in DOMAIN req' : req'[i].odd = hostOdd'
        <4>1. ASSUME NEW i \in DOMAIN req' PROVE req'[i].odd = hostOdd
          <5>1. 1 < i + 1
            BY <1>2
          <5> QED BY <1>2, <3>1, <5>1 DEF Requests, Sorted
        <4> QED BY <1>4, <4>1
      <3>5. \A i \in DOMAIN rsp' : rsp'[i].odd = hostOdd' => i \notin DOMAIN rsp
        BY <1>3, <1>4, <3>1 DEF BeforeFrame
      <3>6. Sorted(rsp)'
        <4>1. e.odd = hostOdd
          BY <1>1, <3>1
        <4>2. Sorted(rsp)
          BY <3>1 DEF Sorted, BeforeFrame
        <4>3. Sorted(Append(rsp, e))
          BY <1>1, <4>1, <4>2, AppendSorted DEF TypeOK
        <4> QED BY <1>1, <1>4, <4>3 DEF Sorted
      <3>7. AfterFrame'
        BY <1>1, <1>3, <1>4, <3>2, <3>3, <3>4, <3>5, <3>6 DEF AfterFrame
      <3> QED BY <3>1, <3>7 DEF Rounds
    <2>2. CASE req[1].odd # bExpectOdd
      <3>1. /\ Accepted' = Accepted /\ Discarded' = Discarded
            /\ bExpectOdd' = bExpectOdd /\ nLast' = nLast
        <4>1. Len(data) = 0 /\ skip = 0
          BY <1>1, <2>2
        <4> QED BY <1>1, <1>5, <2>2, <4>1
      <3>2. CASE bExpectOdd = hostOdd
        <4>1. e.odd # hostOdd
          BY <1>1, <2>2, <3>2
        <4> QED BY <1>3, <1>4, <3>1, <3>2, <4>1 DEF Rounds, BeforeFrame
      <3>3. CASE bExpectOdd # hostOdd
        <4>1. AfterFrame
          BY <3>3 DEF Rounds
        <4>2. \A i \in DOMAIN req' : req'[i].odd = hostOdd'
          BY <1>2, <1>4, <4>1 DEF AfterFrame
        <4>3. Sorted(rsp)'
          <5>1. e.odd = hostOdd
            BY <1>1, <1>2, <4>1 DEF AfterFrame
          <5>2. Sorted(Append(rsp, e))
            BY <1>1, <4>1, <5>1, AppendSorted DEF TypeOK, AfterFrame
          <5> QED BY <1>1, <1>4, <5>2 DEF Sorted
        <4>4. ASSUME NEW i \in DOMAIN rsp', rsp'[i].odd = hostOdd
              PROVE  /\ rsp'[i].nLast = nLast
                     /\ Len(hostGot) + Len(rsp'[i].data) <= txWritten'
                     /\ Follows(rsp'[i].data, Len(hostGot))
          <5>1. CASE i \in DOMAIN rsp
            <6>1. /\ rsp'[i] = rsp[i] /\ rsp[i].nLast = nLast
                  /\ Len(hostGot) + Len(rsp[i].data) <= txWritten
                  /\ Follows(rsp[i].data, Len(hostGot))
              BY <1>3, <4>1, <4>4, <5>1 DEF AfterFrame
            <6>2. Len(hostGot) \in Nat /\ Len(rsp[i].data) \in Nat /\ txWritten \in Nat
              BY <5>1, TypeFacts
            <6>3. Len(hostGot) + Len(rsp[i].data) <= txWritten'
              <7>1. txWritten <= txWritten' /\ txWritten' \in Nat
                BY <1>1
              <7> QED BY <6>1, <6>2, <7>1
            <6> QED BY <6>1, <6>3
          <5>2. CASE i \notin DOMAIN rsp
            <6>1. rsp'[i] = e /\ Discarded' = Len(hostGot)
              BY <1>3, <3>1, <4>1, <5>2 DEF AfterFrame
            <6> QED BY <1>1, <3>1, <6>1
          <5> QED BY <5>1, <5>2
        <4>5. AfterFrame'
          BY <1>4, <3>1, <4>1, <4>2, <4>3, <4>4 DEF AfterFrame
        <4> QED BY <1>4, <3>1, <3>3, <4>5 DEF Rounds
      <3> QED BY <3>2, <3>3
    <2> QED BY <2>1, <2>2
  <1> QED BY <1>7, <1>9, <1>10, <1>11, <1>12

-----------------------------------------------------------------------------
(* The theorems.                                                           *)

\* Every step keeps the invariant.
LEMMA NextIInv ==
    ASSUME PipeAssumption, NarrowPipe, IInv, [Next]_vars
    PROVE  IInv'
  <1>1. ASSUME NEW len \in Lens, NEW g \in Granularities, PipeRead(len, g) PROVE IInv'
    BY <1>1, PipeReadIInv DEF PipeAssumption
  <1>2. ASSUME NEW len \in Lens, NEW g \in Granularities, PipeWrite(len, g) PROVE IInv'
    BY <1>2, PipeWriteIInv DEF PipeAssumption
  <1>3. ASSUME NEW len \in Lens, PipePuts(len) PROVE IInv'
    BY <1>3, PipeWriteIInv DEF PipeAssumption, PipePuts
  <1>4. CASE UNCHANGED vars
    BY <1>4 DEF vars, targetVars, hostVars, IInv, TypeOK, DeliveredInOrder, Buffers, Requests,
                Rounds, BeforeFrame, AfterFrame, Sorted, Accepted, Discarded
  <1> QED BY <1>1, <1>2, <1>3, <1>4, PipeFrameIInv, LoseRequestIInv, LoseResponseIInv,
             HostWriteIInv, HostSendIInv, HostReceiveIInv DEF Next

\* The invariant holds in every reachable state.
THEOREM Invariance == NarrowPipe /\ Spec => []IInv
  <1> SUFFICES ASSUME NarrowPipe PROVE Spec => []IInv
    OBVIOUS
  <1>1. Init => IInv
    BY InitIInv
  <1>2. IInv /\ [Next]_vars => IInv'
    BY PipeAssumption, NextIInv
  <1> QED BY <1>1, <1>2, PTL DEF Spec

\* Every variable keeps its type: no pointer of a buffer leaves it, however
\* the application, the handler and the host take turns.
THEOREM TypeCorrect == NarrowPipe /\ Spec => []TypeOK
  <1>1. IInv => TypeOK
    BY DEF IInv
  <1> QED BY <1>1, Invariance, PTL

\* Both readers get the beginning of what was written, in order, whatever the
\* link loses.
THEOREM Delivery == NarrowPipe /\ Spec => []DeliveredInOrder
  <1>1. IInv => DeliveredInOrder
    BY DEF IInv
  <1> QED BY <1>1, Invariance, PTL

\* Neither side lets go of a byte that the other does not have.
THEOREM Retention == NarrowPipe /\ Spec => []NoByteDropped
  <1> SUFFICES ASSUME NarrowPipe PROVE Spec => []NoByteDropped
    OBVIOUS
  <1>1. IInv => NoByteDropped
    <2> SUFFICES ASSUME IInv PROVE NoByteDropped
      OBVIOUS
    <2>1. /\ Accepted \in Nat /\ Discarded \in Nat /\ nLast \in Nat /\ hostSkip \in Nat
          /\ hostAcked \in Nat
      BY Counters, TypeFacts DEF IInv, Buffers
    <2>2. CASE bExpectOdd = hostOdd
      BY <2>1, <2>2 DEF IInv, Rounds, BeforeFrame, NoByteDropped
    <2>3. CASE bExpectOdd # hostOdd
      BY <2>1, <2>3 DEF IInv, Rounds, AfterFrame, NoByteDropped
    <2> QED BY <2>2, <2>3
  <1> QED BY <1>1, Invariance, PTL

-----------------------------------------------------------------------------
(* Both directions implement PipeStream.                                   *)

\* A reader's new bytes are the next ones of the stream, or there are none.
LEMMA StreamStep ==
    ASSUME NEW got \in Seq(Nat), NEW t \in Seq(Nat), Follows(got \o t, 0),
           NEW written \in Nat, Len(got \o t) <= written
    PROVE  \/ got \o t = got
           \/ \E n \in 1 .. written - Len(got) : got \o t = got \o [i \in 1 .. n |-> Len(got) + i]
  <1>1. PICK m \in Nat : m = Len(got)
    OBVIOUS
  <1>2. PICK n \in Nat : n = Len(t)
    OBVIOUS
  <1>3. /\ got \o t \in Seq(Nat) /\ Len(got \o t) = m + n
        /\ \A i \in 1 .. m + n : (got \o t)[i] = IF i <= m THEN got[i] ELSE t[i - m]
    BY <1>1, <1>2, ConcatProperties
  <1>4. CASE n = 0
    BY <1>2, <1>4, ConcatEmptySeq, EmptySeq
  <1>5. CASE n > 0
    <2>1. n \in 1 .. written - m
      BY <1>1, <1>3, <1>5
    <2>2. ASSUME NEW j \in 1 .. n PROVE t[j] = m + j
      <3>1. m + j \in 1 .. m + n /\ ~(m + j <= m) /\ (m + j) - m = j /\ m + j \in Nat
        BY <1>1, <1>2
      <3>2. (got \o t)[m + j] = t[j]
        BY <1>3, <3>1
      <3>3. m + j \in DOMAIN (got \o t)
        BY <1>3, <3>1, LenProperties
      <3>4. (got \o t)[m + j] = 0 + (m + j)
        BY <3>3 DEF Follows
      <3> QED BY <3>1, <3>2, <3>4
    <2>3. t = [i \in 1 .. n |-> m + i]
      <3>1. t \in [1 .. n -> Nat]
        BY <1>2, LenProperties
      <3> QED BY <2>2, <3>1
    <2> QED BY <1>1, <2>1, <2>3
  <1>6. n = 0 \/ n > 0
    BY <1>2
  <1> QED BY <1>4, <1>5, <1>6

\* What a step may do to the two streams.
LEMMA StreamSteps ==
    ASSUME NarrowPipe, IInv, IInv', Next
    PROVE  /\ \/ appGot' = appGot /\ hostWritten' = hostWritten
              \/ appGot' = appGot /\ hostWritten' \in Nat /\ hostWritten' > hostWritten
              \/ hostWritten' = hostWritten /\ \E t \in Seq(Nat) : appGot' = appGot \o t
           /\ \/ hostGot' = hostGot /\ txWritten' = txWritten
              \/ hostGot' = hostGot /\ txWritten' \in Nat /\ txWritten' > txWritten
              \/ txWritten' = txWritten /\ \E t \in Seq(Nat) : hostGot' = hostGot \o t
  <1> USE DEF IInv
  <1>0. /\ hostWritten \in Nat /\ txWritten \in Nat /\ txWritten' \in Nat
        /\ appGot \in Seq(Nat) /\ hostGot \in Seq(Nat)
    BY TypeFacts DEF TypeOK
  <1>1. ASSUME NEW len \in Nat, NEW g \in Nat, PipeRead(len, g)
        PROVE  /\ hostWritten' = hostWritten /\ \E t \in Seq(Nat) : appGot' = appGot \o t
               /\ hostGot' = hostGot /\ txWritten' = txWritten
    <2>1. PICK n \in 0 .. BytesReady(rx) :
            /\ appGot' = appGot \o Taken(rx, n) /\ rx' = Rest(rx, n)
            /\ UNCHANGED <<txWritten, hostVars>>
      BY <1>1, Counters, WholeRange DEF PipeRead
    <2>2. Taken(rx, n) \in Seq(Nat)
      <3>1. Narrow(RxSize) /\ IsBuff(rx, RxSize) /\ Holds(rx, Len(appGot)) /\ Follows(appGot, 0)
        BY DEF NarrowPipe, Buffers, DeliveredInOrder
      <3> QED BY <1>0, <3>1, ReadKeeps
    <2> QED BY <2>1, <2>2 DEF hostVars
  <1>2. ASSUME NEW len \in Nat, NEW g \in Nat, PipeWrite(len, g)
        PROVE  /\ appGot' = appGot /\ hostWritten' = hostWritten
               /\ hostGot' = hostGot /\ txWritten' \in Nat /\ txWritten' > txWritten
    <2>1. PICK n : n \in Nat /\ n > 0 /\ txWritten' = txWritten + n /\ UNCHANGED <<appGot, hostVars>>
      <3>1. BytesFree(tx) \in Nat
        BY Counters DEF NarrowPipe, Narrow
      <3>2. PICK n : n = Whole(len, BytesFree(tx), g)
        OBVIOUS
      <3>3. n \in Nat
        BY <3>1, <3>2, WholeRange
      <3> QED BY <1>2, <3>2, <3>3 DEF PipeWrite
    <2> QED BY <1>0, <2>1 DEF hostVars
  <1>3. ASSUME PipeFrame
        PROVE  /\ hostWritten' = hostWritten /\ \E t \in Seq(Nat) : appGot' = appGot \o t
               /\ hostGot' = hostGot /\ txWritten' \in Nat /\ txWritten <= txWritten'
    BY <1>3, FrameStep, PipeAssumption DEF hostVars
  <1>4. ASSUME LoseRequest \/ LoseResponse \/ HostSend
        PROVE  UNCHANGED <<appGot, hostWritten, hostGot, txWritten>>
    BY <1>4 DEF LoseRequest, LoseResponse, HostSend, targetVars, hostVars
  <1>5. ASSUME HostWrite
        PROVE  /\ UNCHANGED <<appGot, hostGot, txWritten>>
               /\ hostWritten' \in Nat /\ hostWritten' > hostWritten
    BY <1>0, <1>5 DEF HostWrite, targetVars
  <1>6. ASSUME HostReceive
        PROVE  /\ UNCHANGED <<appGot, hostWritten, txWritten>>
               /\ \/ hostGot' = hostGot
                  \/ \E t \in Seq(Nat) : hostGot' = hostGot \o t
    <2>1. rsp # <<>> /\ UNCHANGED <<targetVars, hostWritten>>
      BY <1>6 DEF HostReceive
    <2>2. 1 \in DOMAIN rsp /\ Head(rsp) = rsp[1]
      BY <2>1, TailFrames DEF TypeOK
    <2>3. Head(rsp).data \in Seq(Nat)
      BY <2>2, TypeFacts
    <2> QED BY <1>6, <2>1, <2>3 DEF HostReceive, targetVars
  <1>7. ASSUME NEW len \in Lens, NEW g \in Granularities, PipeRead(len, g) \/ PipeWrite(len, g)
        PROVE  len \in Nat /\ g \in Nat
    BY PipeAssumption DEF PipeAssumption
  <1>8. ASSUME NEW len \in Lens, PipePuts(len)
        PROVE  len \in Nat /\ PipeWrite(len, 0)
    BY <1>8, PipeAssumption DEF PipeAssumption, PipePuts
  <1>9. txWritten' = txWritten \/ txWritten' > txWritten \/ ~(txWritten <= txWritten')
    BY <1>0
  <1>10. CASE \E len \in Lens, g \in Granularities : PipeRead(len, g) \/ PipeWrite(len, g)
    BY <1>1, <1>2, <1>7, <1>10
  <1>11. CASE \E len \in Lens : PipePuts(len)
    BY <1>2, <1>8, <1>11
  <1>12. CASE PipeFrame
    BY <1>3, <1>9, <1>12
  <1>13. CASE LoseRequest \/ LoseResponse \/ HostSend
    BY <1>4, <1>13
  <1>14. CASE HostWrite
    BY <1>5, <1>14
  <1>15. CASE HostReceive
    BY <1>6, <1>15
  <1> QED BY <1>10, <1>11, <1>12, <1>13, <1>14, <1>15 DEF Next

\* The refinement: what the target and the host make of the bytes written at
\* the far end is a PipeStream, each way.
THEOREM Refinement == NarrowPipe /\ Spec => ImplementsStreams
  <1> SUFFICES ASSUME NarrowPipe PROVE Spec => Down!Spec /\ Up!Spec
    BY DEF ImplementsStreams
  <1>1. Init => Down!Init /\ Up!Init
    BY DEF Init, Down!Init, Up!Init
  <1>2. IInv /\ IInv' /\ [Next]_vars => [Down!Next]_(Down!vars) /\ [Up!Next]_(Up!vars)
    <2> SUFFICES ASSUME IInv, IInv', [Next]_vars
                 PROVE  [Down!Next]_(Down!vars) /\ [Up!Next]_(Up!vars)
      OBVIOUS
    <2>1. /\ appGot \in Seq(Nat) /\ hostGot \in Seq(Nat)
          /\ hostWritten' \in Nat /\ txWritten' \in Nat
          /\ Follows(appGot', 0) /\ Len(appGot') <= hostWritten'
          /\ Follows(hostGot', 0) /\ Len(hostGot') <= txWritten'
      BY DEF IInv, TypeOK, DeliveredInOrder
    <2>2. CASE UNCHANGED vars
      BY <2>2 DEF vars, targetVars, hostVars, Down!vars, Up!vars
    <2>3. CASE Next
      <3>1. ASSUME hostWritten' = hostWritten, NEW t \in Seq(Nat), appGot' = appGot \o t
            PROVE  [Down!Next]_(Down!vars)
        <4>1. \/ appGot' = appGot
              \/ \E n \in 1 .. hostWritten' - Len(appGot) :
                    appGot' = appGot \o [i \in 1 .. n |-> Len(appGot) + i]
          <5>1. PICK w \in Nat : w = hostWritten'
            BY <2>1
          <5>2. Follows(appGot \o t, 0) /\ Len(appGot \o t) <= w
            BY <2>1, <3>1, <5>1
          <5>3. \/ appGot \o t = appGot
                \/ \E n \in 1 .. w - Len(appGot) :
                      appGot \o t = appGot \o [i \in 1 .. n |-> Len(appGot) + i]
            BY <2>1, <5>1, <5>2, StreamStep
          <5> QED BY <3>1, <5>1, <5>3
        <4> QED BY <3>1, <4>1 DEF Down!Next, Down!Read, Down!vars
      <3>2. ASSUME txWritten' = txWritten, NEW t \in Seq(Nat), hostGot' = hostGot \o t
            PROVE  [Up!Next]_(Up!vars)
        <4>1. \/ hostGot' = hostGot
              \/ \E n \in 1 .. txWritten' - Len(hostGot) :
                    hostGot' = hostGot \o [i \in 1 .. n |-> Len(hostGot) + i]
          <5>1. PICK w \in Nat : w = txWritten'
            BY <2>1
          <5>2. Follows(hostGot \o t, 0) /\ Len(hostGot \o t) <= w
            BY <2>1, <3>2, <5>1
          <5>3. \/ hostGot \o t = hostGot
                \/ \E n \in 1 .. w - Len(hostGot) :
                      hostGot \o t = hostGot \o [i \in 1 .. n |-> Len(hostGot) + i]
            BY <2>1, <5>1, <5>2, StreamStep
          <5> QED BY <3>2, <5>1, <5>3
        <4>2. CASE hostGot' = hostGot
          BY <3>2, <4>2 DEF Up!vars
        <4>3. CASE \E n \in 1 .. txWritten' - Len(hostGot) :
                      hostGot' = hostGot \o [i \in 1 .. n |-> Len(hostGot) + i]
          <5>1. Up!Read
            BY <3>2, <4>3 DEF Up!Read
          <5> QED BY <5>1 DEF Up!Next
        <4> QED BY <4>1, <4>2, <4>3
      <3>3. [Down!Next]_(Down!vars)
        <4>1. \/ appGot' = appGot /\ hostWritten' = hostWritten
              \/ appGot' = appGot /\ hostWritten' \in Nat /\ hostWritten' > hostWritten
              \/ hostWritten' = hostWritten /\ \E t \in Seq(Nat) : appGot' = appGot \o t
          BY <2>3, StreamSteps
        <4> QED BY <3>1, <4>1 DEF Down!Next, Down!Write, Down!vars
      <3>4. [Up!Next]_(Up!vars)
        <4>1. \/ hostGot' = hostGot /\ txWritten' = txWritten
              \/ hostGot' = hostGot /\ txWritten' \in Nat /\ txWritten' > txWritten
              \/ txWritten' = txWritten /\ \E t \in Seq(Nat) : hostGot' = hostGot \o t
          BY <2>3, StreamSteps
        <4> QED BY <3>2, <4>1 DEF Up!Next, Up!Write, Up!vars
      <3> QED BY <3>3, <3>4
    <2> QED BY <2>2, <2>3
  <1> QED BY <1>1, <1>2, Invariance, PTL DEF Spec, Down!Spec, Up!Spec

=============================================================================

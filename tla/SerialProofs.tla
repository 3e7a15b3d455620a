---------------------------- MODULE SerialProofs ----------------------------
(***************************************************************************)
(* What is proved of the serial transport: with every device, build, queue *)
(* and buffer, and whatever is lost or changed on the line, only commands  *)
(* that the host has sent are decoded, and what a device sends is the      *)
(* response that was begun.                                                *)
(***************************************************************************)
EXTENDS SerialLink, SequenceTheorems, WellFoundedInduction, TLAPS

-----------------------------------------------------------------------------
(* The devices.                                                            *)

Drivers == {"lpuart", "usart", "linflexd", "zephyr", "usb", "eonce", "eonceTdf"}

\* A record with all of the fields that SerialInit gives it, and no other.
IsDriver(e) ==
    /\ e.drv \in Drivers
    /\ e = [drv |-> e.drv, mode |-> e.mode, bTxActive |-> e.bTxActive, bTxWaitTC |-> e.bTxWaitTC,
            bTxLastCharSOB |-> e.bTxLastCharSOB, bRxLastCharSOB |-> e.bRxLastCharSOB,
            bRxMsgLengthNext |-> e.bRxMsgLengthNext, nTxTodo |-> e.nTxTodo, nRxTodo |-> e.nRxTodo,
            pTxBuff |-> e.pTxBuff, pRxBuff |-> e.pRxBuff, crc |-> e.crc, buf |-> e.buf,
            queue |-> e.queue, fifo |-> e.fifo, rx |-> e.rx, tx |-> e.tx, out |-> e.out,
            rxOn |-> e.rxOn, rxInt |-> e.rxInt, txInt |-> e.txInt, tcInt |-> e.tcInt,
            txEnabled |-> e.txEnabled, txActive |-> e.txActive, attach |-> e.attach,
            dtf |-> e.dtf, tdfNeedRead |-> e.tdfNeedRead, riePending |-> e.riePending,
            jtag |-> e.jtag, decoded |-> e.decoded, answer |-> e.answer]

\* r receives what e does, but may have given up what it has received.
SameRx(r, e) ==
    /\ r.drv = e.drv /\ r.mode = e.mode /\ r.queue = e.queue /\ r.decoded = e.decoded
    /\ r.bRxMsgLengthNext = e.bRxMsgLengthNext /\ r.nRxTodo \in {e.nRxTodo, 0}
    /\ r.pRxBuff = e.pRxBuff /\ r.crc = e.crc /\ r.buf = e.buf

\* Nor has it characters in its device that e does not have.
Kept(r, e) ==
    /\ IsDriver(r) /\ SameRx(r, e)
    /\ \A S : e.fifo \in Seq(S) /\ e.rx \in Seq(S) => r.fifo \in Seq(S) /\ r.rx \in Seq(S)

LEMMA KeptAgain ==
    ASSUME NEW e, NEW g, NEW r, Kept(g, e), Kept(r, g)
    PROVE  Kept(r, e)
  BY DEF Kept, SameRx

\* Switches.
LEMMA EnableTransmitLemma ==
    ASSUME NEW e, IsDriver(e), NEW on
    PROVE  Kept(EnableTransmit(e, on), e)
  BY DEF EnableTransmit, EonceEnableTransmit, LpuartEnableTransmit, UsbEnableTx, LinflexdEnableTransmit,
         UsartEnableTransmit, ZephyrEnableTransmit, IsDriver, Kept, SameRx, Usb, Eonce, Drivers

LEMMA EnableReceiveLemma ==
    ASSUME NEW e, IsDriver(e), NEW on
    PROVE  Kept(EnableReceive(e, on), e)
  BY EmptySeq DEF EnableReceive, EonceEnableReceive, LpuartEnableReceive, UsbEnableRx, LinflexdEnableReceive,
         UsartEnableReceive, ZephyrEnableReceive, IsDriver, Kept, SameRx, Usb, Eonce, Drivers

LEMMA InterruptsLemma ==
    ASSUME NEW e, IsDriver(e), NEW on
    PROVE  /\ Kept(EnableTransmitInterrupt(e, on), e)
           /\ Kept(EnableTransmitCompleteInterrupt(e, on), e)
           /\ Kept(EnableReceiveInterrupt(e, on), e)
  <1>1. Kept(EnableTransmitInterrupt(e, on), e)
    BY DEF EnableTransmitInterrupt, LpuartEnableTransmitInterrupt, UsartEnableTransmitInterrupt,
           LinflexdEnableTransmitInterrupt, ZephyrEnableTransmitInterrupt, EonceEnableTransmitInterrupt,
           IsDriver, Kept, SameRx, Usb, Eonce, Drivers, Interrupts
  <1>2. Kept(EnableTransmitCompleteInterrupt(e, on), e)
    BY DEF EnableTransmitCompleteInterrupt, LpuartEnableTransmitCompleteInterrupt,
           UsartEnableTransmitCompleteInterrupt, UsartEnableTransmitInterrupt,
           LinflexdEnableTransmitCompleteInterrupt, ZephyrEnableTransmitCompleteInterrupt,
           EonceEnableTransmitCompleteInterrupt, EonceEnableTransmitInterrupt,
           IsDriver, Kept, SameRx, Usb, Eonce, Drivers, Interrupts
  <1>3. Kept(EnableReceiveInterrupt(e, on), e)
    BY DEF EnableReceiveInterrupt, LpuartEnableReceiveInterrupt, UsartEnableReceiveInterrupt,
           LinflexdEnableReceiveInterrupt, ZephyrEnableReceiveInterrupt, EonceEnableReceiveInterrupt,
           IsDriver, Kept, SameRx, Usb, Eonce, Drivers, Interrupts
  <1> QED BY <1>1, <1>2, <1>3

\* Characters to send.
LEMMA UsbFlushLemma ==
    ASSUME NEW e, IsDriver(e)
    PROVE  Kept(UsbFlush(e), e)
  BY DEF UsbFlush, UsbTxFunction, IsDriver, Kept, SameRx

LEMMA EonceTryLemma ==
    ASSUME NEW e, IsDriver(e)
    PROVE  Kept(EonceReadTDF(e), e) /\ Kept(EonceTryTransmitData(e), e)
  <1>1. Kept(EonceReadTDF(e), e)
    BY EmptySeq DEF EonceReadTDF, IsDriver, Kept, SameRx
  <1>2. PICK g : g = EonceReadTDF(e)
    OBVIOUS
  <1>3. PICK h : h = [g EXCEPT !.out = e.tx, !.tx = <<>>, !.tdfNeedRead = Confirms(e)]
    OBVIOUS
  <1>4. IsDriver(g)
    BY <1>1, <1>2 DEF Kept
  <1>5. Kept(h, g)
    BY <1>3, <1>4 DEF IsDriver, Kept, SameRx
  <1>6. Kept(h, e)
    BY <1>1, <1>2, <1>5, KeptAgain
  <1>7. EonceTryTransmitData(e) \in {g, h}
    BY <1>2, <1>3 DEF EonceTryTransmitData
  <1> QED BY <1>1, <1>2, <1>6, <1>7

LEMMA TakeTransmitRegLemma ==
    ASSUME NEW e, IsDriver(e)
    PROVE  Kept(TakeTransmitReg(e), e)
  <1>1. Kept(e, e)
    BY DEF Kept, SameRx
  <1> QED BY <1>1, UsbFlushLemma, EonceTryLemma
          DEF TakeTransmitReg, UsbTakeTransmitReg, EonceTakeTransmitReg, IsDriver, Drivers, Usb, Eonce, Uart

LEMMA TakeActiveLemma ==
    ASSUME NEW e, IsDriver(e)
    PROVE  Kept(TakeActive(e), e)
  <1>1. Kept(e, e)
    BY DEF Kept, SameRx
  <1>2. PICK g : /\ g = IF Len(e.tx) = Word THEN EonceTryTransmitData(e) ELSE e
                 /\ Kept(g, e)
    BY <1>1, EonceTryLemma
  <1>3. Kept(EonceReadTDF(g), g)
    BY <1>2, EonceTryLemma DEF Kept
  <1>4. Kept(EonceReadTDF(g), e)
    BY <1>2, <1>3, KeptAgain
  <1> QED BY <1>1, <1>2, <1>4 DEF TakeActive, EonceTakeActive

LEMMA PutCharLemma ==
    ASSUME NEW e, IsDriver(e), NEW c
    PROVE  Kept(PutChar(e, c), e)
  <1>1. CASE e.drv = "lpuart"
    BY <1>1 DEF PutChar, LpuartPutChar, IsDriver, Kept, SameRx, Usb, Eonce, Drivers
  <1>2. CASE e.drv = "usart"
    BY <1>2 DEF PutChar, UsartPutChar, IsDriver, Kept, SameRx, Usb, Eonce, Drivers
  <1>3. CASE e.drv = "linflexd"
    BY <1>3, EmptySeq DEF PutChar, LinflexdPutChar, IsDriver, Kept, SameRx, Usb, Eonce, Drivers
  <1>4. CASE e.drv = "zephyr"
    BY <1>4 DEF PutChar, ZephyrPutChar, IsDriver, Kept, SameRx, Usb, Eonce, Drivers
  <1>5. PICK g : g = [e EXCEPT !.tx = Append(@, c)]
    OBVIOUS
  <1>6. Kept(g, e)
    BY <1>5 DEF IsDriver, Kept, SameRx
  <1>7. Kept(UsbFlush(g), e) /\ Kept(EonceTryTransmitData(g), e)
    BY <1>6, UsbFlushLemma, EonceTryLemma, KeptAgain DEF Kept
  <1>8. Kept(e, e)
    BY DEF Kept, SameRx
  <1>9. CASE e.drv = "usb"
    <2>1. PutChar(e, c) = UsbPutChar(e, c)
      BY <1>9 DEF PutChar, Usb, Eonce
    <2>2. UsbPutChar(e, c) \in {e, g, UsbFlush(g)}
      BY <1>5 DEF UsbPutChar
    <2> QED BY <1>6, <1>7, <1>8, <2>1, <2>2
  <1>10. CASE e.drv \in {"eonce", "eonceTdf"}
    <2>1. PutChar(e, c) = EoncePutChar(e, c)
      BY <1>10 DEF PutChar, Usb, Eonce
    <2>2. EoncePutChar(e, c) \in {g, EonceTryTransmitData(g)}
      BY <1>5 DEF EoncePutChar
    <2> QED BY <1>6, <1>7, <2>1, <2>2
  <1> QED BY <1>1, <1>2, <1>3, <1>4, <1>9, <1>10 DEF IsDriver, Drivers

LEMMA FlushLemma ==
    ASSUME NEW e, IsDriver(e)
    PROVE  Kept(Flush(e), e)
  <1>1. Kept(e, e)
    BY DEF Kept, SameRx
  <1>2. PICK g : g = [e EXCEPT !.tx = Padded(@)]
    OBVIOUS
  <1>3. Kept(g, e)
    BY <1>2 DEF IsDriver, Kept, SameRx
  <1>4. Kept(EonceTryTransmitData(g), e)
    BY <1>3, EonceTryLemma, KeptAgain DEF Kept
  <1> QED BY <1>1, <1>2, <1>4, UsbFlushLemma DEF Flush, EonceFlush, IsDriver, Drivers, Usb, Eonce, Uart

\* Characters received.
LEMMA TakeReceiveRegLemma ==
    ASSUME NEW e, IsDriver(e)
    PROVE  Kept(TakeReceiveReg(e), e)
  <1>1. CASE e.drv = "zephyr" /\ e.rx = <<>> /\ e.rxInt /\ e.fifo # <<>>
    <2>1. PICK x, f : x = <<Head(e.fifo)>> /\ f = Tail(e.fifo)
      OBVIOUS
    <2>2. \A S : e.fifo \in Seq(S) => x \in Seq(S) /\ f \in Seq(S)
      BY <1>1, <2>1
    <2>3. PICK g : g = [e EXCEPT !.rx = x]
      OBVIOUS
    <2>4. g.fifo = e.fifo
      BY <2>3 DEF IsDriver
    <2>5. TakeReceiveReg(e) = [g EXCEPT !.fifo = f]
      BY <1>1, <2>1, <2>3, <2>4 DEF TakeReceiveReg, ZephyrTakeChar, Eonce
    <2>6. [g EXCEPT !.fifo = f] = [e EXCEPT !.rx = x, !.fifo = f]
      BY <2>3
    <2>7. PICK h : h = [e EXCEPT !.rx = x, !.fifo = f]
      OBVIOUS
    <2>8. IsDriver(h) /\ SameRx(h, e) /\ h.rx = x /\ h.fifo = f
      BY <2>7 DEF IsDriver, SameRx
    <2> QED BY <2>2, <2>5, <2>6, <2>7, <2>8 DEF Kept
  <1>2. CASE ~(e.drv = "zephyr" /\ e.rx = <<>> /\ e.rxInt /\ e.fifo # <<>>)
    BY <1>2, EmptySeq DEF TakeReceiveReg, ZephyrTakeChar, EonceTryReceiveData,
                          IsDriver, Kept, SameRx, Eonce, Drivers
  <1> QED BY <1>1, <1>2

LEMMA GetCharLemma ==
    ASSUME NEW e, IsDriver(e), IsReceiveRegFull(e), NEW S, e.fifo \in Seq(S), e.rx \in Seq(S)
    PROVE  ReceivedChar(e) \in S /\ Kept(GetChar(e), e)
  <1>1. ReceivedChar(e) \in S
    <2>1. IF e.drv \in {"lpuart", "usart", "linflexd"} THEN e.fifo # <<>> ELSE e.rx # <<>>
      BY DEF IsReceiveRegFull, LpuartIsReceiveRegFull, UsartIsReceiveRegFull, LinflexdIsReceiveRegFull,
             ZephyrIsReceiveRegFull, UsbIsReceiveRegFull, EonceIsReceiveRegFull, IsDriver, Drivers, Usb, Eonce
    <2>2. \A s \in Seq(S) : s # <<>> => Head(s) \in S
      OBVIOUS
    <2> QED BY <2>1, <2>2 DEF ReceivedChar
  <1>2. PICK f : f = Tail(e.fifo)
    OBVIOUS
  <1>3. PICK x : x = Tail(e.rx)
    OBVIOUS
  <1>4. CASE e.drv \in {"lpuart", "usart", "linflexd"}
    <2>1. e.fifo # <<>>
      BY <1>4 DEF IsReceiveRegFull, LpuartIsReceiveRegFull, UsartIsReceiveRegFull, LinflexdIsReceiveRegFull,
                 Usb, Eonce
    <2>2. \A T : e.fifo \in Seq(T) => f \in Seq(T)
      BY <1>2, <2>1
    <2> QED BY <1>1, <1>2, <1>4, <2>2, EmptySeq
            DEF GetChar, LpuartGetChar, UsartGetChar, LinflexdGetChar, IsDriver, Kept, SameRx, Usb, Eonce
  <1>5. CASE e.drv \in {"usb", "eonce", "eonceTdf"}
    <2>1. e.rx # <<>>
      BY <1>5 DEF IsReceiveRegFull, UsbIsReceiveRegFull, EonceIsReceiveRegFull, Usb, Eonce
    <2>2. \A T : e.rx \in Seq(T) => x \in Seq(T)
      BY <1>3, <2>1
    <2> QED BY <1>1, <1>3, <1>5, <2>1, <2>2 DEF GetChar, UsbGetChar, EonceGetChar, IsDriver,
                                    Kept, SameRx, Usb, Eonce
  <1>6. CASE e.drv = "zephyr"
    BY <1>1, <1>6, EmptySeq DEF GetChar, ZephyrGetChar, IsDriver, Kept, SameRx, Usb, Eonce
  <1> QED BY <1>4, <1>5, <1>6 DEF IsDriver, Drivers
-----------------------------------------------------------------------------
(* Transmitting.                                                           *)

LEMMA ListenLemma ==
    ASSUME NEW e, IsDriver(e)
    PROVE  Kept(Listen(e), e)
  <1>1. PICK a : a = [e EXCEPT !.nRxTodo = 0, !.bTxActive = FALSE, !.bTxWaitTC = FALSE]
    OBVIOUS
  <1>2. Kept(a, e)
    BY <1>1 DEF IsDriver, Kept, SameRx
  <1>3. PICK b : b = EnableTransmit(a, FALSE) /\ Kept(b, e)
    BY <1>2, EnableTransmitLemma, KeptAgain DEF Kept
  <1>4. PICK f : f = EnableReceive(b, TRUE) /\ Kept(f, e)
    BY <1>3, EnableReceiveLemma, KeptAgain DEF Kept
  <1>5. PICK g : g = EnableTransmitInterrupt(f, FALSE) /\ Kept(g, e)
    BY <1>4, InterruptsLemma, KeptAgain DEF Kept
  <1>6. PICK h : h = EnableTransmitCompleteInterrupt(g, FALSE) /\ Kept(h, e)
    BY <1>5, InterruptsLemma, KeptAgain DEF Kept
  <1>7. Kept(EnableReceiveInterrupt(h, TRUE), e)
    BY <1>6, InterruptsLemma, KeptAgain DEF Kept
  <1> QED BY <1>1, <1>3, <1>4, <1>5, <1>6, <1>7 DEF Listen, Idle

LEMMA StartBlockLemma ==
    ASSUME NEW e, IsDriver(e)
    PROVE  Kept(StartBlock(e), e)
  <1>1. PICK a : a = EnableReceive(e, FALSE) /\ Kept(a, e)
    BY EnableReceiveLemma
  <1>2. PICK b : b = EnableTransmit(a, TRUE) /\ Kept(b, e)
    BY <1>1, EnableTransmitLemma, KeptAgain DEF Kept
  <1>3. PICK f : f = TakeTransmitReg(b) /\ Kept(f, e)
    BY <1>2, TakeTransmitRegLemma, KeptAgain DEF Kept
  <1>4. PICK g : g = PutChar(f, Plain(SOB)) /\ Kept(g, e)
    BY <1>3, PutCharLemma, KeptAgain DEF Kept
  <1>5. PICK h : h = EnableReceiveInterrupt(g, FALSE) /\ Kept(h, e)
    BY <1>4, InterruptsLemma, KeptAgain DEF Kept
  <1>6. Kept(EnableTransmitInterrupt(h, TRUE), e)
    BY <1>5, InterruptsLemma, KeptAgain DEF Kept
  <1> QED BY <1>1, <1>2, <1>3, <1>4, <1>5, <1>6 DEF StartBlock

LEMMA TxLemma ==
    ASSUME NEW e, IsDriver(e)
    PROVE  Kept(Tx(e), e)
  <1>1. PICK c, twin : c = e.buf[e.pTxBuff] /\ twin = (c.byte = SOB /\ ~e.bTxLastCharSOB)
    OBVIOUS
  <1>2. PICK g : g = IF twin THEN e ELSE [e EXCEPT !.nTxTodo = @ - 1, !.pTxBuff = @ + 1]
    OBVIOUS
  <1>3. Kept(g, e)
    BY <1>2 DEF IsDriver, Kept, SameRx
  <1>4. PICK h : h = [g EXCEPT !.bTxLastCharSOB = IF c.byte = SOB THEN twin ELSE @]
    OBVIOUS
  <1>5. Kept(h, g)
    BY <1>3, <1>4 DEF IsDriver, Kept, SameRx
  <1>6. Kept(h, e)
    BY <1>3, <1>5, KeptAgain
  <1>7. Kept(PutChar(h, c), e)
    BY <1>6, PutCharLemma, KeptAgain DEF Kept
  <1> QED BY <1>1, <1>2, <1>4, <1>7 DEF Tx

LEMMA TxIfEmptyLemma ==
    ASSUME NEW e, IsDriver(e)
    PROVE  Kept(TxIfEmpty(e), e)
  <1>1. PICK g : g = TakeTransmitReg(e) /\ Kept(g, e)
    BY TakeTransmitRegLemma
  <1>2. Kept(Tx(g), e)
    BY <1>1, TxLemma, KeptAgain DEF Kept
  <1> QED BY <1>1, <1>2 DEF TxIfEmpty

LEMMA LeastNat ==
    ASSUME NEW S \in SUBSET Nat, S # {}
    PROVE  \E i \in S : \A j \in S : i <= j
  <1> DEFINE R == {ss \in Nat \X Nat : ss[1] < ss[2]}
  <1>1. IsWellFoundedOn(R, Nat)
    BY NatLessThanWellFounded DEF OpToRel
  <1> HIDE DEF R
  <1>2. PICK i \in S : \A j \in S : <<j, i>> \notin R
    BY <1>1, WFMin
  <1>3. ASSUME NEW j \in S PROVE i <= j
    <2>1. ~(j < i)
      BY <1>2 DEF R
    <2> QED BY <2>1
  <1> QED BY <1>3

\* The steps of the loops, and what i steps of one make of e, f[i].
LoopStep(loop, e) ==
    CASE loop = "tx" -> TxIfEmpty(e) [] loop = "rx" -> RxIfFull(e) [] loop = "queue" -> QueueIfFull(e)
Steps(f, loop, e, n) == f = [i \in 0 .. n |-> IF i = 0 THEN e ELSE LoopStep(loop, f[i - 1])]

LEMMA StepsExist ==
    ASSUME NEW loop, NEW e, NEW n \in Nat
    PROVE  \E f : Steps(f, loop, e, n)
  <1> DEFINE Bad == {m \in Nat : ~\E f : Steps(f, loop, e, m)}
  <1>1. Bad \in SUBSET Nat
    OBVIOUS
  <1>2. ASSUME NEW m \in Bad, \A j \in Bad : m <= j PROVE FALSE
    <2>1. CASE m = 0
      <3>1. PICK f : f = [i \in 0 .. 0 |-> e]
        OBVIOUS
      <3>2. f = [i \in 0 .. 0 |-> IF i = 0 THEN e ELSE LoopStep(loop, f[i - 1])]
        BY <3>1
      <3> QED BY <1>2, <2>1, <3>2 DEF Steps
    <2>2. CASE m # 0
      <3>1. m \in Nat /\ m - 1 \in Nat /\ m - 1 \notin Bad
        BY <1>2, <2>2
      <3>2. PICK f : Steps(f, loop, e, m - 1)
        BY <3>1
      <3>3. PICK g : g = [i \in 0 .. m |-> IF i = 0 THEN e ELSE LoopStep(loop, f[i - 1])]
        OBVIOUS
      <3>4. \A i \in 0 .. m - 1 : g[i] = f[i]
        BY <3>1, <3>2, <3>3 DEF Steps
      <3>5. \A i \in 0 .. m : i # 0 => f[i - 1] = g[i - 1]
        BY <3>1, <3>4
      <3>6. Steps(g, loop, e, m)
        BY <3>3, <3>5 DEF Steps
      <3> QED BY <1>2, <3>6
    <2> QED BY <2>1, <2>2
  <1> HIDE DEF Bad
  <1>3. Bad = {}
    BY <1>1, <1>2, LeastNat
  <1> QED BY <1>3 DEF Bad

LEMMA RoomLemma ==
    ASSUME NEW e, IsDriver(e)
    PROVE  Room(e) \in Nat
  BY DeviceAssumption DEF Room, TxDepth, Word, Uart, Usb, Eonce, IsDriver, Drivers

LEMMA TxWhileEmptyLemma ==
    ASSUME NEW e, IsDriver(e)
    PROVE  Kept(TxWhileEmpty(e), e)
  <1>1. PICK n \in Nat : n = Room(e)
    BY RoomLemma
  <1>2. PICK f : f = CHOOSE g : g = [i \in 0 .. n |-> IF i = 0 THEN e ELSE TxIfEmpty(g[i - 1])]
    OBVIOUS
  <1>3. TxWhileEmpty(e) = f[n]
    BY <1>1, <1>2 DEF TxWhileEmpty, Repeat
  <1>4. Steps(f, "tx", e, n)
    <2>1. PICK g : Steps(g, "tx", e, n)
      BY StepsExist
    <2> QED BY <1>2, <2>1 DEF Steps, LoopStep
  <1>5. \A i \in 0 .. n : f[i] = IF i = 0 THEN e ELSE TxIfEmpty(f[i - 1])
    BY <1>4 DEF Steps, LoopStep
  <1> DEFINE Bad == {i \in 0 .. n : ~Kept(f[i], e)}
  <1>6. Bad \in SUBSET Nat
    OBVIOUS
  <1>7. ASSUME NEW i \in Bad, \A j \in Bad : i <= j PROVE FALSE
    <2>1. CASE i = 0
      BY <1>5, <1>7, <2>1 DEF Kept, SameRx
    <2>2. CASE i # 0
      <3>1. i - 1 \in 0 .. n /\ i - 1 \notin Bad
        BY <1>7, <2>2
      <3>2. Kept(f[i - 1], e)
        BY <3>1
      <3>3. Kept(TxIfEmpty(f[i - 1]), e)
        BY <3>2, TxIfEmptyLemma, KeptAgain DEF Kept
      <3> QED BY <1>5, <1>7, <2>2, <3>3
    <2> QED BY <2>1, <2>2
  <1> HIDE DEF Bad
  <1>8. Bad = {}
    BY <1>6, <1>7, LeastNat
  <1>9. Kept(f[n], e)
    BY <1>8 DEF Bad
  <1> QED BY <1>3, <1>9

LEMMA AwaitLemma ==
    ASSUME NEW e, IsDriver(e)
    PROVE  Kept(AwaitComplete(e), e)
  <1>1. PICK a : a = Flush(e) /\ Kept(a, e)
    BY FlushLemma
  <1>2. PICK b : b = [a EXCEPT !.bTxWaitTC = TRUE]
    OBVIOUS
  <1>3. Kept(b, a)
    <2>1. IsDriver(a)
      BY <1>1 DEF Kept
    <2> QED BY <1>2, <2>1 DEF IsDriver, Kept, SameRx
  <1>4. Kept(b, e)
    BY <1>1, <1>3, KeptAgain
  <1>5. PICK f : f = IF Interrupts(b) THEN TakeActive(b) ELSE b
    OBVIOUS
  <1>6. Kept(f, e)
    BY <1>4, <1>5, TakeActiveLemma, KeptAgain DEF Kept
  <1>7. PICK g : g = EnableTransmitInterrupt(f, FALSE) /\ Kept(g, e)
    BY <1>6, InterruptsLemma, KeptAgain DEF Kept
  <1>8. Kept(EnableTransmitCompleteInterrupt(g, TRUE), e)
    BY <1>7, InterruptsLemma, KeptAgain DEF Kept
  <1> QED BY <1>1, <1>2, <1>5, <1>6, <1>7, <1>8 DEF AwaitComplete

LEMMA ProcessTxLemma ==
    ASSUME NEW e, IsDriver(e)
    PROVE  Kept(ProcessTx(e), e)
  <1>1. PICK a : a = TxWhileEmpty(e) /\ Kept(a, e)
    BY TxWhileEmptyLemma
  <1>2. PICK f : f = IF IsTransmitRegEmpty(a) /\ a.nTxTodo = 0 THEN AwaitComplete(a) ELSE a
    OBVIOUS
  <1>3. Kept(f, e)
    BY <1>1, <1>2, AwaitLemma, KeptAgain DEF Kept
  <1>4. PICK g : g = IF f.bTxWaitTC THEN TakeActive(f) ELSE f
    OBVIOUS
  <1>5. Kept(g, e)
    BY <1>3, <1>4, TakeActiveLemma, KeptAgain DEF Kept
  <1>6. Kept(Listen(g), e)
    BY <1>5, ListenLemma, KeptAgain DEF Kept
  <1> QED BY <1>1, <1>2, <1>4, <1>5, <1>6 DEF ProcessTx
-----------------------------------------------------------------------------
(* Receiving.                                                              *)

Body(r) == <<r.cmd, Len(r.args)>> \o r.args

\* Bytes.  That the sum which is the byte of a checksum is one, an induction over
\* the data, does not matter here.
Values == Int \union {Check(Body(Requests[i])).byte : i \in DOMAIN Requests}

\* What the host may have sent with one of its first n commands, changed or not:
\* a checksum is that of a command.
Chars(n) ==
    {c \in [byte : Values, of : Seq(Values)] :
        c.of = <<>> \/ \E i \in DOMAIN Requests : i <= n /\ c.of = Body(Requests[i])}

\* What has been received but not handled.
Inputs(e, n) ==
    /\ e.fifo \in Seq(Chars(n)) /\ e.rx \in Seq(Chars(n))
    /\ e.queue \in [cell : [0 .. RingSize - 1 -> Chars(n)], rp : 0 .. RingSize - 1, wp : 0 .. RingSize - 1]

\* While a command is received, what the checksum covers is in the buffer, unless
\* it did not fit.
Receiving(e) == e.bRxMsgLengthNext \/ e.nRxTodo # 0
Stored(e) ==
    Receiving(e) =>
        /\ e.crc \in Seq(Values) /\ Len(e.crc) > 0
        /\ e.bRxMsgLengthNext => e.pRxBuff = 1
        /\ e.pRxBuff # Null => /\ e.pRxBuff = Len(e.crc) /\ e.pRxBuff <= CommSize
                               /\ \A k \in 1 .. Len(e.crc) : e.buf[k - 1].byte = e.crc[k]

\* What was decoded last is one of the first n commands.
HasRun(e, n) ==
    e.decoded # <<>> =>
        \E i \in DOMAIN Requests : i <= n /\ e.decoded = <<Requests[i].cmd>> \o Requests[i].args

Reception(e, n, drv) ==
    /\ IsDriver(e) /\ e.drv = drv /\ DOMAIN e.buf = 0 .. BufEnd
    /\ Inputs(e, n) /\ Stored(e) /\ HasRun(e, n)

LEMMA KeptReception ==
    ASSUME NEW e, NEW r, NEW n, NEW drv, Reception(e, n, drv), Kept(r, e)
    PROVE  Reception(r, n, drv)
  <1>1. IsDriver(r) /\ SameRx(r, e) /\ r.fifo \in Seq(Chars(n)) /\ r.rx \in Seq(Chars(n))
    BY DEF Reception, Kept, Inputs
  <1>2. Inputs(r, n) /\ HasRun(r, n) /\ DOMAIN r.buf = 0 .. BufEnd
    BY <1>1 DEF Reception, SameRx, Inputs, HasRun
  <1>3. Stored(r)
    <2>1. Receiving(r) => Receiving(e)
      BY <1>1 DEF SameRx, Receiving
    <2> QED BY <1>1, <2>1 DEF Reception, SameRx, Stored
  <1> QED BY <1>1, <1>2, <1>3 DEF Reception, SameRx

LEMMA SendLemma ==
    ASSUME NEW e, NEW n, NEW drv, Reception(e, n, drv), ~Receiving(e), NEW length, NEW status
    PROVE  Reception(SendResponse(e, length, status), n, drv)
  <1> DEFINE fits  == length <= Size8 - 4
             k     == IF fits THEN length ELSE 0
             st    == IF fits THEN status ELSE RspBuffOvf
             start == IF VarLen(st) THEN 0 ELSE 1
             todo  == k + 3 - start
             head  == IF VarLen(st) THEN [e.buf EXCEPT ![0] = Plain(st), ![1] = Plain(k)]
                                    ELSE [e.buf EXCEPT ![1] = Plain(st)]
             body  == [i \in 1 .. todo - 1 |-> head[start + i - 1].byte]
             data  == [i \in 1 .. k |-> e.buf[i + 1].byte]
             answer == IF e.bTxActive THEN e.answer ELSE Unsent(e) \o WireOfAnswer(st, data)
             buf   == [head EXCEPT ![start + todo - 1] = Check(body)]
             ready == [e EXCEPT !.answer = IF e.bTxActive THEN @ ELSE Unsent(e) \o WireOfAnswer(st, data),
                                !.buf = [head EXCEPT ![start + todo - 1] = Check(body)],
                                !.pTxBuff = start, !.nTxTodo = todo, !.crc = body,
                                !.bTxActive = TRUE, !.bTxWaitTC = FALSE, !.bTxLastCharSOB = FALSE]
  <1>1. SendResponse(e, length, status) = StartBlock(ready)
    BY DEF SendResponse
  <1>2. DOMAIN buf = 0 .. BufEnd
    BY DEF Reception
  <1>3. PICK a, b, p, t, c : a = answer /\ b = buf /\ p = start /\ t = todo /\ c = body
    OBVIOUS
  <1>4. PICK r : r = [e EXCEPT !.answer = a, !.buf = b, !.pTxBuff = p, !.nTxTodo = t, !.crc = c,
                               !.bTxActive = TRUE, !.bTxWaitTC = FALSE, !.bTxLastCharSOB = FALSE]
    OBVIOUS
  <1>5. r = ready
    BY <1>3, <1>4 DEF Reception, IsDriver
  <1> HIDE DEF ready, buf
  <1>6. /\ IsDriver(r) /\ r.drv = e.drv /\ r.buf = b /\ r.queue = e.queue /\ r.fifo = e.fifo /\ r.rx = e.rx
        /\ r.nRxTodo = e.nRxTodo /\ r.bRxMsgLengthNext = e.bRxMsgLengthNext /\ r.decoded = e.decoded
    BY <1>4 DEF Reception, IsDriver
  <1>7. Reception(r, n, drv)
    BY <1>2, <1>3, <1>6 DEF Reception, Inputs, HasRun, Stored, Receiving
  <1>8. Kept(StartBlock(r), r)
    BY <1>6, StartBlockLemma
  <1> QED BY <1>1, <1>5, <1>7, <1>8, KeptReception

\* s is a sequence of n elements.
IsSequence(s, n) == n \in Nat /\ Len(s) = n /\ s = [i \in 1 .. n |-> s[i]]

LEMMA ElementsLemma ==
    ASSUME NEW S, NEW s \in Seq(S)
    PROVE  IsSequence(s, Len(s)) /\ \A i \in 1 .. Len(s) : s[i] \in S
  <1>1. Len(s) \in Nat /\ s \in [1 .. Len(s) -> S]
    BY LenProperties
  <1>2. s = [i \in 1 .. Len(s) |-> s[i]]
    BY <1>1, Zenon
  <1> QED BY <1>1, <1>2 DEF IsSequence

LEMMA SequenceLemma ==
    ASSUME NEW S, NEW n, NEW s, IsSequence(s, n), \A i \in 1 .. n : s[i] \in S
    PROVE  s \in Seq(S)
  BY DEF IsSequence

LEMMA ConcatLemma ==
    ASSUME NEW S, NEW s \in Seq(S), NEW t \in Seq(S), NEW m \in Nat, NEW n \in Nat, m = Len(s), n = Len(t)
    PROVE  /\ s \o t \in Seq(S) /\ Len(s \o t) = m + n /\ IsSequence(s \o t, m + n)
           /\ (\A i \in 1 .. m : (s \o t)[i] = s[i]) /\ \A i \in 1 .. n : (s \o t)[m + i] = t[i]
  <1>0. s \o t \in Seq(S)
    OBVIOUS
  <1>1. PICK r \in Seq(S) : r = s \o t
    BY <1>0, Zenon
  <1>2. Len(r) = m + n /\ (\A i \in 1 .. m : r[i] = s[i])
    BY <1>1
  <1>3. \A i \in 1 .. n : r[m + i] = t[i]
    BY <1>1
  <1>4. IsSequence(r, m + n)
    BY <1>2, ElementsLemma
  <1> QED BY <1>1, <1>2, <1>3, <1>4

LEMMA RequestLemma ==
    ASSUME NEW i \in DOMAIN Requests
    PROVE  /\ i \in 1 .. Len(Requests) /\ Requests[i].cmd \in Nat /\ Requests[i].args \in Seq(Nat)
           /\ Len(Requests[i].args) \in Nat
  <1>1. PICK R : R = [cmd : Byte, args : Seq(Byte), status : Byte, data : Seq(Byte)]
    OBVIOUS
  <1>2. Requests \in Seq(R)
    BY <1>1, RequestsAssumption
  <1>3. i \in 1 .. Len(Requests) /\ Requests[i] \in R
    BY <1>2
  <1>4. Byte \subseteq Nat
    BY SerialAssumption DEF Byte
  <1>5. Requests[i].cmd \in Byte /\ Requests[i].args \in Seq(Byte)
    BY <1>1, <1>3
  <1>6. PICK a \in Seq(Byte) : a = Requests[i].args
    BY <1>5
  <1>7. PICK n \in Nat : n = Len(a) /\ IsSequence(a, n) /\ \A j \in 1 .. n : a[j] \in Byte
    BY ElementsLemma DEF IsSequence
  <1>8. \A j \in 1 .. n : a[j] \in Nat
    BY <1>4, <1>7
  <1>9. a \in Seq(Nat)
    BY <1>7, <1>8, SequenceLemma
  <1> QED BY <1>3, <1>4, <1>5, <1>6, <1>7, <1>9

LEMMA BodyLemma ==
    ASSUME NEW i \in DOMAIN Requests
    PROVE  LET b == Body(Requests[i])
               a == Requests[i].args
           IN  /\ b \in Seq(Nat) /\ Len(b) = Len(a) + 2
               /\ b[1] = Requests[i].cmd /\ b[2] = Len(a) /\ \A j \in 1 .. Len(a) : b[j + 2] = a[j]
  <1>1. PICK c \in Nat, a \in Seq(Nat), m \in Nat : c = Requests[i].cmd /\ a = Requests[i].args /\ m = Len(a)
    BY RequestLemma
  <1>2. PICK h \in Seq(Nat) : h = <<c, m>> /\ Len(h) = 2 /\ h[1] = c /\ h[2] = m
    <2>1. PICK h : h = <<c, m>>
      OBVIOUS
    <2>2. h \in Seq(Nat) /\ Len(h) = 2 /\ h[1] = c /\ h[2] = m
      BY <2>1
    <2> QED BY <2>1, <2>2
  <1>3. PICK b : b = h \o a
    OBVIOUS
  <1>4. /\ b \in Seq(Nat) /\ Len(b) = 2 + m
        /\ (\A j \in 1 .. 2 : b[j] = h[j]) /\ \A j \in 1 .. m : b[2 + j] = a[j]
    BY <1>1, <1>2, <1>3, ConcatLemma
  <1>5. b[1] = c /\ b[2] = m
    BY <1>2, <1>4
  <1> QED BY <1>1, <1>2, <1>3, <1>4, <1>5 DEF Body

\* A command that matches its checksum and is in the buffer is what is decoded.
LEMMA HeldLemma ==
    ASSUME NEW e, NEW n, NEW drv, Reception(e, n, drv), Receiving(e), e.pRxBuff # Null,
           NEW c \in Chars(n), Matches(e, c)
    PROVE  \E i \in DOMAIN Requests :
              /\ i <= n
              /\ <<e.buf[0].byte>> \o [j \in 1 .. e.buf[1].byte |-> e.buf[j + 1].byte]
                    = <<Requests[i].cmd>> \o Requests[i].args
  <1>1. /\ e.crc \in Seq(Values) /\ Len(e.crc) > 0
        /\ \A k \in 1 .. Len(e.crc) : e.buf[k - 1].byte = e.crc[k]
    BY DEF Reception, Stored
  <1>2. c.of = e.crc /\ c.of # <<>>
    BY <1>1 DEF Matches
  <1>3. PICK i \in DOMAIN Requests : i <= n /\ c.of = Body(Requests[i])
    BY <1>2 DEF Chars
  <1>4. PICK a, m : a = Requests[i].args /\ m = Len(a) /\ m \in Nat /\ a \in Seq(Nat)
    BY RequestLemma
  <1>5. Len(e.crc) = m + 2 /\ e.crc[1] = Requests[i].cmd /\ e.crc[2] = m
        /\ \A j \in 1 .. m : e.crc[j + 2] = a[j]
    BY <1>2, <1>3, <1>4, BodyLemma
  <1>6. e.buf[0].byte = Requests[i].cmd /\ e.buf[1].byte = m
    <2>1. 1 \in 1 .. Len(e.crc) /\ 2 \in 1 .. Len(e.crc)
      BY <1>4, <1>5
    <2>2. e.buf[1 - 1].byte = e.crc[1] /\ e.buf[2 - 1].byte = e.crc[2]
      BY <1>1, <2>1
    <2> QED BY <1>5, <2>2
  <1>7. \A j \in 1 .. m : e.buf[j + 1].byte = a[j]
    <2>1. ASSUME NEW j \in 1 .. m PROVE e.buf[j + 1].byte = a[j]
      <3>1. j + 2 \in 1 .. Len(e.crc) /\ (j + 2) - 1 = j + 1
        BY <1>4, <1>5
      <3>2. e.buf[(j + 2) - 1].byte = e.crc[j + 2]
        BY <1>1, <3>1
      <3> QED BY <1>5, <3>1, <3>2
    <2> QED BY <2>1
  <1>8. [j \in 1 .. m |-> e.buf[j + 1].byte] = a
    <2>1. a = [j \in 1 .. m |-> a[j]]
      BY <1>4, ElementsLemma DEF IsSequence
    <2> QED BY <1>7, <2>1
  <1> QED BY <1>3, <1>4, <1>6, <1>8

LEMMA DecoderLemma ==
    ASSUME NEW e, NEW n, NEW drv, Reception(e, n, drv), ~Receiving(e), NEW cmd, NEW args,
           \E i \in DOMAIN Requests : i <= n /\ <<cmd>> \o args = <<Requests[i].cmd>> \o Requests[i].args
    PROVE  Reception(ProtocolDecoder(e, cmd, args), n, drv)
  <1>1. PICK ran : ran = <<cmd>> \o args
    OBVIOUS
  <1>2. PICK noted : noted = [e EXCEPT !.decoded = ran]
    OBVIOUS
  <1>3. /\ IsDriver(noted) /\ noted.drv = e.drv /\ noted.buf = e.buf
        /\ noted.queue = e.queue /\ noted.fifo = e.fifo /\ noted.rx = e.rx
        /\ noted.nRxTodo = e.nRxTodo /\ noted.bRxMsgLengthNext = e.bRxMsgLengthNext /\ noted.decoded = ran
    BY <1>2 DEF Reception, IsDriver
  <1>4. Reception(noted, n, drv) /\ ~Receiving(noted)
    BY <1>1, <1>3 DEF Reception, Inputs, HasRun, Stored, Receiving
  <1>5. Reception(SendError(noted, InvCmd), n, drv)
    BY <1>4, SendLemma DEF SendError
  <1>6. ASSUME NEW r PROVE Reception(SendResponse([noted EXCEPT !.buf = [k \in 0 .. BufEnd |->
                               IF k - 1 \in DOMAIN r.data THEN Plain(r.data[k - 1]) ELSE e.buf[k]]],
                               Len(r.data), r.status), n, drv)
    <2>1. PICK b : b = [k \in 0 .. BufEnd |-> IF k - 1 \in DOMAIN r.data
                                              THEN Plain(r.data[k - 1]) ELSE e.buf[k]]
      OBVIOUS
    <2>2. PICK g : g = [noted EXCEPT !.buf = b]
      OBVIOUS
    <2>3. /\ IsDriver(g) /\ g.drv = noted.drv /\ g.buf = b /\ g.queue = noted.queue
          /\ g.fifo = noted.fifo /\ g.rx = noted.rx
          /\ g.nRxTodo = noted.nRxTodo /\ g.bRxMsgLengthNext = noted.bRxMsgLengthNext /\ g.decoded = noted.decoded
      BY <1>4, <2>2 DEF Reception, IsDriver
    <2>4. DOMAIN b = 0 .. BufEnd
      BY <2>1
    <2>5. Reception(g, n, drv) /\ ~Receiving(g)
      BY <1>4, <2>3, <2>4 DEF Reception, Inputs, HasRun, Stored, Receiving
    <2> QED BY <2>1, <2>2, <2>5, SendLemma
  <1> QED BY <1>1, <1>2, <1>5, <1>6 DEF ProtocolDecoder

\* r has the device, the queue and the history of e.
SameDevice(r, e) ==
    /\ IsDriver(r) /\ r.drv = e.drv /\ r.fifo = e.fifo /\ r.rx = e.rx /\ r.queue = e.queue
    /\ r.decoded = e.decoded /\ DOMAIN r.buf = DOMAIN e.buf

LEMMA SameReception ==
    ASSUME NEW e, NEW r, NEW n, NEW drv, Reception(e, n, drv), SameDevice(r, e), Stored(r)
    PROVE  Reception(r, n, drv)
  BY DEF Reception, SameDevice, Inputs, HasRun

LEMMA FrameStartReception ==
    ASSUME NEW e, NEW n, NEW drv, Reception(e, n, drv), NEW c \in Chars(n)
    PROVE  Reception(FrameStart(e, c), n, drv)
  <1>1. PICK byte \in Values : byte = c.byte
    BY DEF Chars
  <1>2. PICK b : b = [e.buf EXCEPT ![0] = Plain(byte)]
    OBVIOUS
  <1>3. PICK s : s = <<byte>> /\ s \in Seq(Values) /\ Len(s) = 1 /\ s[1] = byte
    <2>1. PICK s : s = <<byte>>
      OBVIOUS
    <2>2. s \in Seq(Values) /\ Len(s) = 1 /\ s[1] = byte
      BY <2>1
    <2> QED BY <2>1, <2>2
  <1>4. PICK r : r = [e EXCEPT !.buf = b, !.pRxBuff = 1, !.nRxTodo = 0, !.crc = s,
                               !.bRxMsgLengthNext = TRUE, !.bRxLastCharSOB = FALSE]
    OBVIOUS
  <1>5. r = FrameStart(e, c)
    BY <1>1, <1>2, <1>3, <1>4 DEF FrameStart
  <1>6. SameDevice(r, e) /\ r.buf = b /\ r.crc = s /\ r.pRxBuff = 1
    BY <1>2, <1>4 DEF Reception, IsDriver, SameDevice
  <1>7. b[0].byte = byte
    BY <1>2, SerialAssumption DEF Reception, BufEnd, Plain
  <1>8. Stored(r)
    BY <1>3, <1>6, <1>7, SerialAssumption DEF Stored, Null
  <1> QED BY <1>5, <1>6, <1>8, SameReception

LEMMA AppendLemma ==
    ASSUME NEW s \in Seq(Values), NEW b \in Values
    PROVE  LET t == Append(s, b)
           IN  /\ t \in Seq(Values) /\ Len(t) = Len(s) + 1 /\ t[Len(s) + 1] = b
               /\ \A k \in 1 .. Len(s) : t[k] = s[k]
  BY AppendProperties

LEMMA StoreLemma ==
    ASSUME NEW e, NEW n, NEW drv, Reception(e, n, drv), Receiving(e), e.pRxBuff # Null,
           e.pRxBuff < CommSize, NEW byte \in Values,
           NEW r, SameDevice(r, e), r.crc = Append(e.crc, byte),
           r.buf = [e.buf EXCEPT ![e.pRxBuff] = Plain(byte)],
           r.pRxBuff = e.pRxBuff + 1, ~r.bRxMsgLengthNext
    PROVE  Reception(r, n, drv)
  <1>1. PICK s \in Seq(Values), m \in Nat :
           s = e.crc /\ m = Len(s) /\ m > 0 /\ e.pRxBuff = m /\ \A k \in 1 .. m : e.buf[k - 1].byte = s[k]
    <2>1. e.crc \in Seq(Values) /\ Len(e.crc) > 0 /\ e.pRxBuff = Len(e.crc)
          /\ \A k \in 1 .. Len(e.crc) : e.buf[k - 1].byte = e.crc[k]
      BY DEF Reception, Stored
    <2>2. Len(e.crc) \in Nat
      BY <2>1
    <2> QED BY <2>1, <2>2
  <1>2. PICK t : t = Append(s, byte)
    OBVIOUS
  <1>3. t \in Seq(Values) /\ Len(t) = m + 1 /\ t[m + 1] = byte /\ \A k \in 1 .. m : t[k] = s[k]
    BY <1>1, <1>2, AppendLemma
  <1>4. ASSUME NEW k \in 1 .. m + 1 PROVE r.buf[k - 1].byte = t[k]
    <2>1. CASE k = m + 1
      <3>1. m \in DOMAIN e.buf
        BY <1>1, SerialAssumption DEF Reception, BufEnd
      <3>2. k - 1 = m
        BY <1>1, <2>1
      <3> QED BY <1>1, <1>3, <2>1, <3>1, <3>2 DEF Plain
    <2>2. CASE k # m + 1
      <3>1. k \in 1 .. m /\ k - 1 # m
        BY <1>1, <2>2
      <3>2. k - 1 \in DOMAIN e.buf
        BY <1>1, <3>1, SerialAssumption DEF Reception, BufEnd
      <3> QED BY <1>1, <1>3, <3>1, <3>2
    <2> QED BY <2>1, <2>2
  <1>5. Stored(r)
    <2>1. m + 1 <= CommSize
      BY <1>1, SerialAssumption
    <2>2. r.crc = t /\ r.pRxBuff = m + 1
      BY <1>1, <1>2
    <2>3. \A k \in 1 .. Len(r.crc) : r.buf[k - 1].byte = r.crc[k]
      BY <1>3, <1>4, <2>2
    <2> QED BY <1>1, <1>3, <2>1, <2>2, <2>3 DEF Stored
  <1> QED BY <1>5, SameReception

LEMMA LengthByteReception ==
    ASSUME NEW e, NEW n, NEW drv, Reception(e, n, drv), e.bRxMsgLengthNext, NEW c \in Chars(n)
    PROVE  Reception(LengthByte(e, c), n, drv)
  <1>1. PICK byte \in Values : byte = c.byte
    BY DEF Chars
  <1>2. PICK b, s, t, p : /\ b = [e.buf EXCEPT ![e.pRxBuff] = Plain(byte)] /\ s = Append(e.crc, byte)
                          /\ t = (byte + 1) % Size8 /\ p = e.pRxBuff + 1
    OBVIOUS
  <1>3. PICK r : r = [e EXCEPT !.nRxTodo = t, !.crc = s, !.buf = b, !.pRxBuff = p, !.bRxMsgLengthNext = FALSE]
    OBVIOUS
  <1>4. r = LengthByte(e, c)
    BY <1>1, <1>2, <1>3 DEF LengthByte, Reception, IsDriver
  <1>5. SameDevice(r, e) /\ r.buf = b /\ r.crc = s /\ r.pRxBuff = p /\ ~r.bRxMsgLengthNext
    BY <1>2, <1>3 DEF Reception, IsDriver, SameDevice
  <1>6. Receiving(e) /\ e.pRxBuff = 1 /\ 1 < CommSize /\ 1 # Null
    BY SerialAssumption DEF Reception, Stored, Receiving, Null
  <1> QED BY <1>2, <1>4, <1>5, <1>6, StoreLemma

LEMMA DataByteReception ==
    ASSUME NEW e, NEW n, NEW drv, Reception(e, n, drv), ~e.bRxMsgLengthNext, Receiving(e), NEW c \in Chars(n)
    PROVE  Reception(DataByte(e, c), n, drv)
  <1>1. PICK byte \in Values : byte = c.byte
    BY DEF Chars
  <1>2. PICK b, s, t, p : /\ b = [e.buf EXCEPT ![e.pRxBuff] = Plain(byte)] /\ s = Append(e.crc, byte)
                          /\ t = e.nRxTodo - 1 /\ p = e.pRxBuff + 1
    OBVIOUS
  <1>3. PICK g : g = [e EXCEPT !.nRxTodo = t, !.crc = s]
    OBVIOUS
  <1>4. /\ SameDevice(g, e) /\ g.buf = e.buf /\ g.crc = s /\ g.pRxBuff = e.pRxBuff
        /\ g.bRxMsgLengthNext = e.bRxMsgLengthNext
    BY <1>3 DEF Reception, IsDriver, SameDevice
  <1>5. s \in Seq(Values) /\ Len(s) > 0
    BY <1>2, AppendLemma DEF Reception, Stored
  <1>6. CASE e.pRxBuff = Null
    <2>1. Stored(g)
      BY <1>4, <1>5, <1>6 DEF Stored
    <2>2. DataByte(e, c) = g
      BY <1>1, <1>2, <1>3, <1>6 DEF DataByte
    <2> QED BY <1>4, <2>1, <2>2, SameReception
  <1>7. CASE e.pRxBuff # Null /\ ~HasSpace(e.pRxBuff)
    <2>1. PICK r : r = [g EXCEPT !.pRxBuff = Null]
      OBVIOUS
    <2>2. SameDevice(r, e) /\ r.crc = s /\ r.pRxBuff = Null /\ r.bRxMsgLengthNext = e.bRxMsgLengthNext
      BY <1>4, <2>1 DEF IsDriver, SameDevice
    <2>3. Stored(r)
      BY <1>5, <2>2 DEF Stored
    <2>4. DataByte(e, c) = r
      BY <1>1, <1>2, <1>3, <1>7, <2>1 DEF DataByte
    <2> QED BY <2>2, <2>3, <2>4, SameReception
  <1>8. CASE e.pRxBuff # Null /\ HasSpace(e.pRxBuff)
    <2>1. PICK r : r = [g EXCEPT !.buf = b, !.pRxBuff = p]
      OBVIOUS
    <2>2. SameDevice(r, e) /\ r.buf = b /\ r.crc = s /\ r.pRxBuff = p /\ ~r.bRxMsgLengthNext
      BY <1>2, <1>4, <2>1 DEF IsDriver, SameDevice
    <2>3. DataByte(e, c) = r
      BY <1>1, <1>2, <1>3, <1>4, <1>8, <2>1 DEF DataByte
    <2> QED BY <1>2, <1>8, <2>2, <2>3, StoreLemma DEF HasSpace
  <1> QED BY <1>6, <1>7, <1>8

LEMMA LastByteReception ==
    ASSUME NEW e, NEW n, NEW drv, Reception(e, n, drv), ~e.bRxMsgLengthNext, Receiving(e), NEW c \in Chars(n)
    PROVE  Reception(LastByte(e, c), n, drv)
  <1>1. PICK g : g = [e EXCEPT !.nRxTodo = 0]
    OBVIOUS
  <1>2. /\ SameDevice(g, e) /\ g.buf = e.buf /\ g.crc = e.crc /\ g.pRxBuff = e.pRxBuff /\ ~Receiving(g)
    BY <1>1 DEF Reception, IsDriver, SameDevice, Receiving
  <1>3. Reception(g, n, drv)
    BY <1>2, SameReception DEF Stored
  <1>4. Reception(SendError(g, CmdTooLong), n, drv) /\ Reception(SendError(g, CmdCsErr), n, drv)
    BY <1>2, <1>3, SendLemma DEF SendError
  <1>5. ASSUME e.pRxBuff # Null, Matches(e, c)
        PROVE  Reception(
                                ProtocolDecoder(g, g.buf[0].byte, [i \in 1 .. g.buf[1].byte |-> g.buf[i + 1].byte]), n, drv)
    <2>1. PICK cmd, args : cmd = g.buf[0].byte /\ args = [i \in 1 .. g.buf[1].byte |-> g.buf[i + 1].byte]
      OBVIOUS
    <2>2. \E i \in DOMAIN Requests : i <= n /\ <<cmd>> \o args = <<Requests[i].cmd>> \o Requests[i].args
      BY <1>2, <1>5, <2>1, HeldLemma
    <2> QED BY <1>2, <1>3, <2>1, <2>2, DecoderLemma
  <1> QED BY <1>1, <1>2, <1>4, <1>5 DEF LastByte

LEMMA RxReception ==
    ASSUME NEW e, NEW n, NEW drv, Reception(e, n, drv), NEW c \in Chars(n)
    PROVE  Reception(Rx(e, c), n, drv)
  <1>1. PICK g, h : g = [e EXCEPT !.bRxLastCharSOB = TRUE] /\ h = [e EXCEPT !.bRxLastCharSOB = FALSE]
    OBVIOUS
  <1>2. Reception(g, n, drv) /\ Reception(h, n, drv)
    <2>1. Kept(g, e) /\ Kept(h, e)
      BY <1>1 DEF Reception, IsDriver, Kept, SameRx
    <2> QED BY <2>1, KeptReception
  <1>3. Reception(FrameStart(e, c), n, drv)
    BY FrameStartReception
  <1>4. Reception(InFrame(h, c), n, drv)
    <2>1. CASE h.bRxMsgLengthNext
      BY <1>2, <2>1, LengthByteReception DEF InFrame
    <2>2. CASE ~h.bRxMsgLengthNext /\ h.nRxTodo = 1
      BY <1>2, <2>2, LastByteReception DEF InFrame, Receiving
    <2>3. CASE ~h.bRxMsgLengthNext /\ h.nRxTodo # 1 /\ h.nRxTodo > 1
      <3>1. h.nRxTodo # 0
        BY <2>3
      <3> QED BY <1>2, <2>3, <3>1, DataByteReception DEF InFrame, Receiving
    <2>4. CASE ~h.bRxMsgLengthNext /\ h.nRxTodo # 1 /\ ~(h.nRxTodo > 1)
      BY <1>2, <2>4 DEF InFrame
    <2> QED BY <2>1, <2>2, <2>3, <2>4
  <1> QED BY <1>1, <1>2, <1>3, <1>4 DEF Rx

LEMMA PutLemma ==
    ASSUME NEW e, NEW n, NEW drv, Reception(e, n, drv), NEW c \in Chars(n)
    PROVE  Reception(QueueChar(e, c), n, drv)
  <1>1. PICK q : q = RingBuffPut(e.queue, c)
    OBVIOUS
  <1>2. q \in [cell : [0 .. RingSize - 1 -> Chars(n)], rp : 0 .. RingSize - 1, wp : 0 .. RingSize - 1]
    <2>1. PICK S : S = Chars(n)
      OBVIOUS
    <2>2. PICK p : p = e.queue
                  /\ p \in [cell : [0 .. RingSize - 1 -> S], rp : 0 .. RingSize - 1, wp : 0 .. RingSize - 1]
      BY <2>1 DEF Reception, Inputs
    <2>3. PICK cell : cell = [p.cell EXCEPT ![p.wp] = c] /\ cell \in [0 .. RingSize - 1 -> S]
      <3>1. PICK old, w : old = p.cell /\ old \in [0 .. RingSize - 1 -> S] /\ w = p.wp
        BY <2>2
      <3>2. [old EXCEPT ![w] = c] \in [0 .. RingSize - 1 -> S]
        BY <2>1, <3>1
      <3> QED BY <3>1, <3>2
    <2>4. PICK w : w = NextCell(p.wp) /\ w \in 0 .. RingSize - 1
      BY <2>2, RingAssumption DEF NextCell
    <2>5. q = p \/ q = [p EXCEPT !.cell = cell, !.wp = w]
      BY <1>1, <2>2, <2>3, <2>4 DEF RingBuffPut
    <2> QED BY <2>1, <2>2, <2>3, <2>4, <2>5
  <1>3. PICK r : r = [e EXCEPT !.queue = q]
    OBVIOUS
  <1>4. /\ IsDriver(r) /\ r.drv = e.drv /\ r.fifo = e.fifo /\ r.rx = e.rx /\ r.queue = q
        /\ r.decoded = e.decoded /\ r.buf = e.buf
        /\ r.crc = e.crc /\ r.pRxBuff = e.pRxBuff /\ r.nRxTodo = e.nRxTodo /\ r.bRxMsgLengthNext = e.bRxMsgLengthNext
    BY <1>3 DEF Reception, IsDriver
  <1>5. Reception(r, n, drv)
    BY <1>2, <1>4 DEF Reception, Inputs, HasRun, Stored, Receiving
  <1>6. r = QueueChar(e, c)
    BY <1>1, <1>3 DEF QueueChar, Reception, IsDriver
  <1> QED BY <1>5, <1>6

LEMMA ReadReception ==
    ASSUME NEW e, NEW n, NEW drv, Reception(e, n, drv)
    PROVE  Reception(RxIfFull(e), n, drv) /\ Reception(QueueIfFull(e), n, drv)
  <1>1. PICK g : g = TakeReceiveReg(e) /\ Reception(g, n, drv)
    BY TakeReceiveRegLemma, KeptReception DEF Reception
  <1>2. ASSUME IsReceiveRegFull(g)
        PROVE  ReceivedChar(g) \in Chars(n) /\ Reception(GetChar(g), n, drv)
    <2>1. ReceivedChar(g) \in Chars(n) /\ Kept(GetChar(g), g)
      BY <1>1, <1>2, GetCharLemma DEF Reception, Inputs
    <2> QED BY <1>1, <2>1, KeptReception
  <1> QED BY <1>1, <1>2, RxReception, PutLemma DEF RxIfFull, QueueIfFull, ReadIfFull

LEMMA LoopReception ==
    ASSUME NEW e, NEW n, NEW drv, Reception(e, n, drv), NEW m \in Nat,
           NEW f, NEW loop \in {"rx", "queue"}, Steps(f, loop, e, m)
    PROVE  Reception(f[m], n, drv)
  <1>1. \A i \in 0 .. m : f[i] = IF i = 0 THEN e ELSE LoopStep(loop, f[i - 1])
    BY DEF Steps
  <1> DEFINE Bad == {i \in 0 .. m : ~Reception(f[i], n, drv)}
  <1>2. Bad \in SUBSET Nat
    OBVIOUS
  <1>3. ASSUME NEW i \in Bad, \A j \in Bad : i <= j PROVE FALSE
    <2>1. CASE i = 0
      BY <1>1, <1>3, <2>1
    <2>2. CASE i # 0
      <3>1. i - 1 \in 0 .. m /\ i - 1 \notin Bad
        BY <1>3, <2>2
      <3>2. Reception(f[i - 1], n, drv)
        BY <3>1
      <3>3. Reception(LoopStep(loop, f[i - 1]), n, drv)
        BY <3>2, ReadReception DEF LoopStep
      <3> QED BY <1>1, <1>3, <2>2, <3>3
    <2> QED BY <2>1, <2>2
  <1> HIDE DEF Bad
  <1>4. Bad = {}
    BY <1>2, <1>3, LeastNat
  <1> QED BY <1>4 DEF Bad

LEMMA ProcessReception ==
    ASSUME NEW e, NEW n, NEW drv, Reception(e, n, drv)
    PROVE  Reception(Process(e), n, drv)
  <1>1. PICK m \in Nat : m = Len(e.fifo) + Len(e.rx)
    <2>1. PICK S : e.fifo \in Seq(S) /\ e.rx \in Seq(S)
      BY DEF Reception, Inputs
    <2>2. PICK a \in Seq(S), b \in Seq(S) : a = e.fifo /\ b = e.rx
      BY <2>1
    <2>3. PICK i \in Nat, j \in Nat : i = Len(a) /\ j = Len(b)
      OBVIOUS
    <2>4. i + j \in Nat
      OBVIOUS
    <2> QED BY <2>2, <2>3, <2>4
  <1>2. Reception(ProcessTx(e), n, drv)
    BY ProcessTxLemma, KeptReception DEF Reception
  <1>3. Reception(ProcessRx(e), n, drv)
    <2>1. PICK f : f = CHOOSE g : g = [i \in 0 .. m |-> IF i = 0 THEN e ELSE RxIfFull(g[i - 1])]
      OBVIOUS
    <2>2. ProcessRx(e) = f[m]
      BY <1>1, <2>1 DEF ProcessRx, Repeat
    <2>3. Steps(f, "rx", e, m)
      <3>1. PICK g : Steps(g, "rx", e, m)
        BY StepsExist
      <3> QED BY <2>1, <3>1 DEF Steps, LoopStep
    <2> QED BY <2>2, <2>3, LoopReception
  <1>4. Reception(QueueRx(e), n, drv)
    <2>1. PICK f : f = CHOOSE g : g = [i \in 0 .. m |-> IF i = 0 THEN e ELSE QueueIfFull(g[i - 1])]
      OBVIOUS
    <2>2. QueueRx(e) = f[m]
      BY <1>1, <2>1 DEF QueueRx, Repeat
    <2>3. Steps(f, "queue", e, m)
      <3>1. PICK g : Steps(g, "queue", e, m)
        BY StepsExist
      <3> QED BY <2>1, <3>1 DEF Steps, LoopStep
    <2> QED BY <2>2, <2>3, LoopReception
  <1> QED BY <1>2, <1>3, <1>4 DEF Process

LEMMA DequeueReception ==
    ASSUME NEW e, NEW n, NEW drv, Reception(e, n, drv), NEW g, g = [e EXCEPT !.queue = RingBuffGet(@)]
    PROVE  Reception(g, n, drv) /\ Reception(Rx(g, RingBuffHead(e.queue)), n, drv)
  <1>1. PICK S : S = Chars(n)
    OBVIOUS
  <1>2. PICK p : p = e.queue /\ p \in [cell : [0 .. RingSize - 1 -> S], rp : 0 .. RingSize - 1, wp : 0 .. RingSize - 1]
    BY <1>1 DEF Reception, Inputs
  <1>3. PICK w : w = NextCell(p.rp) /\ w \in 0 .. RingSize - 1
    BY <1>2, RingAssumption DEF NextCell
  <1>4. PICK q : q = RingBuffGet(p)
    OBVIOUS
  <1>5. q \in [cell : [0 .. RingSize - 1 -> S], rp : 0 .. RingSize - 1, wp : 0 .. RingSize - 1]
    BY <1>2, <1>3, <1>4 DEF RingBuffGet
  <1>6. g = [e EXCEPT !.queue = q]
    BY <1>2, <1>4
  <1>7. /\ IsDriver(g) /\ g.drv = e.drv /\ g.fifo = e.fifo /\ g.rx = e.rx /\ g.queue = q
        /\ g.decoded = e.decoded /\ g.buf = e.buf
        /\ g.crc = e.crc /\ g.pRxBuff = e.pRxBuff /\ g.nRxTodo = e.nRxTodo /\ g.bRxMsgLengthNext = e.bRxMsgLengthNext
    BY <1>6 DEF Reception, IsDriver
  <1>8. Reception(g, n, drv)
    BY <1>1, <1>5, <1>7 DEF Reception, Inputs, HasRun, Stored, Receiving
  <1>9. RingBuffHead(e.queue) \in Chars(n)
    BY <1>1, <1>2 DEF RingBuffHead
  <1> QED BY <1>8, <1>9, RxReception
-----------------------------------------------------------------------------
(* The line and the host.                                                  *)

\* A change of nothing that is received, and of what the device holds.
LEMMA DeviceReception ==
    ASSUME NEW e, NEW n, NEW drv, Reception(e, n, drv), NEW r, IsDriver(r), SameRx(r, e),
           r.fifo \in Seq(Chars(n)), r.rx \in Seq(Chars(n))
    PROVE  Reception(r, n, drv)
  <1>1. Inputs(r, n) /\ HasRun(r, n) /\ DOMAIN r.buf = 0 .. BufEnd
    BY DEF Reception, SameRx, Inputs, HasRun
  <1>2. Stored(r)
    <2>1. Receiving(r) => Receiving(e)
      BY DEF SameRx, Receiving
    <2> QED BY <2>1 DEF Reception, SameRx, Stored
  <1> QED BY <1>1, <1>2 DEF Reception, SameRx

LEMMA LaterChars ==
    ASSUME NEW m \in Nat, NEW n \in Nat, m <= n
    PROVE  Chars(m) \subseteq Chars(n)
  <1>1. \A i \in DOMAIN Requests : i \in Nat
    <2>1. Len(Requests) \in Nat
      BY RequestsAssumption
    <2> QED BY <2>1, RequestLemma
  <1>2. ASSUME NEW i \in DOMAIN Requests, i <= m PROVE i <= n
    BY <1>1, <1>2
  <1> QED BY <1>2 DEF Chars

LEMMA SeqSubset ==
    ASSUME NEW S, NEW T, S \subseteq T, NEW s \in Seq(S)
    PROVE  s \in Seq(T)
  <1>1. IsSequence(s, Len(s)) /\ \A i \in 1 .. Len(s) : s[i] \in S
    BY ElementsLemma
  <1>2. \A i \in 1 .. Len(s) : s[i] \in T
    BY <1>1
  <1> QED BY <1>1, <1>2, SequenceLemma

LEMMA LaterReception ==
    ASSUME NEW e, NEW m \in Nat, NEW n \in Nat, NEW drv, m <= n, Reception(e, m, drv)
    PROVE  Reception(e, n, drv)
  <1>1. PICK S, T : S = Chars(m) /\ T = Chars(n) /\ S \subseteq T
    BY LaterChars
  <1>2. Inputs(e, n)
    <2>1. e.fifo \in Seq(S) /\ e.rx \in Seq(S)
      BY <1>1 DEF Reception, Inputs
    <2>2. e.fifo \in Seq(T) /\ e.rx \in Seq(T)
      BY <1>1, <2>1, SeqSubset
    <2>3. PICK q : q = e.queue
                  /\ q \in [cell : [0 .. RingSize - 1 -> S], rp : 0 .. RingSize - 1, wp : 0 .. RingSize - 1]
      BY <1>1 DEF Reception, Inputs
    <2>4. q.cell \in [0 .. RingSize - 1 -> T]
      BY <1>1, <2>3
    <2>5. q \in [cell : [0 .. RingSize - 1 -> T], rp : 0 .. RingSize - 1, wp : 0 .. RingSize - 1]
      BY <2>3, <2>4
    <2> QED BY <1>1, <2>2, <2>3, <2>5 DEF Inputs
  <1>3. HasRun(e, n)
    <2>1. \A i \in DOMAIN Requests : i \in Nat
      <3>1. Len(Requests) \in Nat
        BY RequestsAssumption
      <3> QED BY <3>1, RequestLemma
    <2>2. ASSUME NEW i \in DOMAIN Requests, i <= m PROVE i <= n
      BY <2>1, <2>2
    <2> QED BY <2>2 DEF Reception, HasRun
  <1> QED BY <1>2, <1>3 DEF Reception

\* f[i] is what the first i of some sequences make together.
Flattened(f, seqs, n) == f = [i \in 1 .. n |-> IF i = 1 THEN seqs[i] ELSE f[i - 1] \o seqs[i]]

LEMMA FlattenExists ==
    ASSUME NEW seqs, NEW n \in Nat
    PROVE  \E f : Flattened(f, seqs, n)
  <1> DEFINE Bad == {m \in Nat : ~\E f : Flattened(f, seqs, m)}
  <1>1. Bad \in SUBSET Nat
    OBVIOUS
  <1>2. ASSUME NEW m \in Bad, \A j \in Bad : m <= j PROVE FALSE
    <2>1. CASE m = 0
      <3>1. PICK f : f = [i \in 1 .. 0 |-> seqs]
        OBVIOUS
      <3>2. f = [i \in 1 .. 0 |-> IF i = 1 THEN seqs[i] ELSE f[i - 1] \o seqs[i]]
        BY <3>1
      <3> QED BY <1>2, <2>1, <3>2 DEF Flattened
    <2>2. CASE m # 0
      <3>1. m \in Nat /\ m - 1 \in Nat /\ m - 1 \notin Bad
        BY <1>2, <2>2
      <3>2. PICK f : Flattened(f, seqs, m - 1)
        BY <3>1
      <3>3. PICK g : g = [i \in 1 .. m |-> IF i = 1 THEN seqs[i] ELSE f[i - 1] \o seqs[i]]
        OBVIOUS
      <3>4. \A i \in 1 .. m - 1 : g[i] = f[i]
        <4>1. \A i \in 1 .. m - 1 : f[i] = IF i = 1 THEN seqs[i] ELSE f[i - 1] \o seqs[i]
          BY <3>2 DEF Flattened
        <4>2. \A i \in 1 .. m - 1 : i \in 1 .. m
          BY <3>1
        <4>3. \A i \in 1 .. m - 1 : g[i] = IF i = 1 THEN seqs[i] ELSE f[i - 1] \o seqs[i]
          BY <3>3, <4>2
        <4> QED BY <4>1, <4>3
      <3>5. \A i \in 1 .. m : i # 1 => f[i - 1] = g[i - 1]
        BY <3>1, <3>4
      <3>6. Flattened(g, seqs, m)
        BY <3>3, <3>5 DEF Flattened
      <3> QED BY <1>2, <3>6
    <2> QED BY <2>1, <2>2
  <1> HIDE DEF Bad
  <1>3. Bad = {}
    BY <1>1, <1>2, LeastNat
  <1> QED BY <1>3 DEF Bad

LEMMA FlattenLemma ==
    ASSUME NEW S, NEW seqs, NEW n \in Nat, n # 0, Len(seqs) = n, \A i \in 1 .. n : seqs[i] \in Seq(S)
    PROVE  FlattenSeq(seqs) \in Seq(S)
  <1>1. PICK f : f = CHOOSE g : g = [i \in 1 .. n |-> IF i = 1 THEN seqs[i] ELSE g[i - 1] \o seqs[i]]
    OBVIOUS
  <1>2. Flattened(f, seqs, n)
    <2>1. PICK g : Flattened(g, seqs, n)
      BY FlattenExists
    <2> QED BY <1>1, <2>1 DEF Flattened
  <1>3. FlattenSeq(seqs) = f[n]
    BY <1>1 DEF FlattenSeq
  <1>4. \A i \in 1 .. n : f[i] = IF i = 1 THEN seqs[i] ELSE f[i - 1] \o seqs[i]
    BY <1>2 DEF Flattened
  <1> DEFINE Bad == {i \in 1 .. n : f[i] \notin Seq(S)}
  <1>5. Bad \in SUBSET Nat
    OBVIOUS
  <1>6. ASSUME NEW i \in Bad, \A j \in Bad : i <= j PROVE FALSE
    <2>1. CASE i = 1
      BY <1>4, <1>6, <2>1
    <2>2. CASE i # 1
      <3>1. i - 1 \in 1 .. n /\ i - 1 \notin Bad
        BY <1>6, <2>2
      <3>2. PICK a \in Seq(S), b \in Seq(S) : a = f[i - 1] /\ b = seqs[i]
        BY <1>6, <3>1
      <3>3. a \o b \in Seq(S)
        OBVIOUS
      <3> QED BY <1>4, <1>6, <2>2, <3>2, <3>3
    <2> QED BY <2>1, <2>2
  <1> HIDE DEF Bad
  <1>7. Bad = {}
    BY <1>5, <1>6, LeastNat
  <1> QED BY <1>3, <1>7 DEF Bad

LEMMA PlainLemma ==
    ASSUME NEW b \in Values, NEW n
    PROVE  Plain(b) \in Chars(n)
  <1>1. <<>> \in Seq(Values)
    BY EmptySeq
  <1>2. Plain(b) \in [byte : Values, of : Seq(Values)] /\ Plain(b).of = <<>>
    BY <1>1 DEF Plain
  <1> QED BY <1>2 DEF Chars

LEMMA PadLemma ==
    ASSUME NEW n
    PROVE  Pad \in Chars(n)
  <1>1. Pad = Plain(-1) /\ -1 \in Values
    BY DEF Pad, Plain, Values
  <1> QED BY <1>1, PlainLemma

LEMMA CommandLemma ==
    ASSUME NEW i \in DOMAIN Requests, NEW n, i <= n
    PROVE  Command[i] \in Seq(Chars(n))
  <1>1. PICK b, S : b = Body(Requests[i]) /\ S = Chars(n)
    OBVIOUS
  <1>2. b \in Seq(Nat) /\ b \in Seq(Values)
    <2>1. b \in Seq(Nat)
      BY <1>1, BodyLemma
    <2>2. Nat \subseteq Values
      BY DEF Values
    <2> QED BY <2>1, <2>2, SeqSubset
  <1>3. Check(b) \in S
    <2>1. Check(b).byte \in Values /\ Check(b).of = b /\ Check(b) = [byte |-> Check(b).byte, of |-> b]
      BY <1>1 DEF Values, Check
    <2>2. Check(b) \in [byte : Values, of : Seq(Values)]
      BY <1>2, <2>1
    <2> QED BY <1>1, <2>1, <2>2 DEF Chars
  <1>4. PICK m \in Nat : m = Len(b) /\ DOMAIN b = 1 .. m /\ \A j \in 1 .. m : b[j] \in Values
    BY <1>2
  <1>5. PICK p : p = [j \in DOMAIN b |-> Plain(b[j])] /\ p \in Seq(S)
    <2>1. \A j \in 1 .. m : Plain(b[j]) \in S
      BY <1>1, <1>4, PlainLemma
    <2>2. PICK p : p = [j \in 1 .. m |-> Plain(b[j])]
      OBVIOUS
    <2>3. p \in Seq(S)
      BY <2>1, <2>2
    <2> QED BY <1>4, <2>2, <2>3
  <1>6. PICK chars : chars = Append(p, Check(b)) /\ chars \in Seq(S) /\ Len(chars) # 0
    <2>1. PICK c \in S : c = Check(b)
      BY <1>3
    <2>2. PICK j \in Nat : j = Len(p)
      BY <1>5
    <2>3. PICK q : q = Append(p, c) /\ q \in Seq(S) /\ Len(q) = j + 1
      BY <1>5, <2>1, <2>2, AppendProperties
    <2>4. Len(q) # 0
      BY <2>2, <2>3
    <2> QED BY <2>1, <2>3, <2>4
  <1>7. PICK k \in Nat : k = Len(chars) /\ DOMAIN chars = 1 .. k /\ \A j \in 1 .. k : chars[j] \in S
    BY <1>6
  <1>8. PICK seqs : seqs = [j \in DOMAIN chars |-> IF chars[j].byte = SOB
                                              THEN <<chars[j], chars[j]>> ELSE <<chars[j]>>]
    OBVIOUS
  <1>9. \A j \in 1 .. k : seqs[j] \in Seq(S)
    <2>1. \A c \in S : <<c>> \in Seq(S) /\ <<c, c>> \in Seq(S)
      OBVIOUS
    <2> QED BY <1>7, <1>8, <2>1
  <1>10. Len(seqs) = k
    BY <1>7, <1>8
  <1>11. FlattenSeq(seqs) \in Seq(S)
    BY <1>6, <1>7, <1>9, <1>10, FlattenLemma
  <1>12. <<Plain(SOB)>> \in Seq(S)
    <2>1. SOB \in Values
      BY SerialAssumption DEF Values
    <2>2. Plain(SOB) \in S
      BY <1>1, <2>1, PlainLemma
    <2> QED BY <2>2
  <1>13. PICK u \in Seq(S), v \in Seq(S) : u = <<Plain(SOB)>> /\ v = FlattenSeq(seqs)
    BY <1>11, <1>12
  <1>14. u \o v \in Seq(S)
    OBVIOUS
  <1>15. WireOfCommand(Requests[i]) = u \o v
    BY <1>1, <1>5, <1>6, <1>8, <1>13 DEF WireOfCommand, Wire, Body
  <1> QED BY <1>1, <1>14, <1>15 DEF Command

LEMMA PaddedLemma ==
    ASSUME NEW S, Pad \in S, NEW s \in Seq(S)
    PROVE  Padded(s) \in Seq(S) /\ Len(Padded(s)) % Word = 0
  <1>1. PICK k \in Nat, m \in Nat : k = Len(s) /\ m = (-k) % Word
    <2>1. PICK k \in Nat : k = Len(s)
      OBVIOUS
    <2> QED BY <2>1 DEF Word
  <1>2. PICK p : p = [i \in 1 .. m |-> Pad]
    OBVIOUS
  <1>3. p \in Seq(S) /\ Len(p) = m
    BY <1>2
  <1>4. Len(s \o p) = k + m /\ s \o p \in Seq(S)
    BY <1>1, <1>3, ConcatProperties
  <1>5. (k + m) % Word = 0
    BY <1>1 DEF Word
  <1> QED BY <1>1, <1>2, <1>4, <1>5 DEF Padded

\* The line to EOnCE carries words.
Whole(drv, l) == drv \in {"eonce", "eonceTdf"} => Len(l) % Word = 0

LEMMA DropLemma ==
    ASSUME NEW S, NEW s \in Seq(S), NEW m \in Nat, m <= Len(s)
    PROVE  SubSeq(s, 1, m) \in Seq(S) /\ SubSeq(s, m + 1, Len(s)) \in Seq(S)
  OBVIOUS

LEMMA InitReception ==
    ASSUME NEW drv \in Drivers, NEW mode, NEW n
    PROVE  Reception(SerialInit(drv, mode), n, drv)
  <1>1. PICK S, buf, queue : /\ S = Chars(n) /\ buf = [i \in 0 .. BufEnd |-> Plain(0)]
                             /\ queue = [cell |-> [i \in 0 .. RingSize - 1 |-> Plain(0)], rp |-> 0, wp |-> 0]
    OBVIOUS
  <1>2. PICK e : e =
           [drv |-> drv, mode |-> mode,
            bTxActive |-> FALSE, bTxWaitTC |-> FALSE, bTxLastCharSOB |-> FALSE,
            bRxLastCharSOB |-> FALSE, bRxMsgLengthNext |-> FALSE,
            nTxTodo |-> 0, nRxTodo |-> 0, pTxBuff |-> Null, pRxBuff |-> Null, crc |-> <<>>,
            buf |-> buf, queue |-> queue,
            fifo |-> <<>>, rx |-> <<>>, tx |-> <<>>, out |-> <<>>,
            rxOn |-> TRUE, rxInt |-> FALSE, txInt |-> FALSE, tcInt |-> FALSE,
            txEnabled |-> TRUE, txActive |-> FALSE, attach |-> FALSE,
            dtf |-> FALSE, tdfNeedRead |-> FALSE, riePending |-> FALSE, jtag |-> FALSE,
            decoded |-> <<>>, answer |-> <<>>]
    OBVIOUS
  <1>3. SerialInit(drv, mode) = Listen(e)
    BY <1>1, <1>2 DEF SerialInit, RingBuffCreate
  <1>4. /\ IsDriver(e) /\ e.drv = drv /\ e.buf = buf /\ e.queue = queue /\ e.fifo = <<>> /\ e.rx = <<>>
        /\ e.decoded = <<>> /\ ~Receiving(e)
    BY <1>2 DEF IsDriver, Receiving
  <1>5. Plain(0) \in S
    BY <1>1, PlainLemma DEF Values
  <1>6. queue \in [cell : [0 .. RingSize - 1 -> S], rp : 0 .. RingSize - 1, wp : 0 .. RingSize - 1]
    BY <1>1, <1>5, RingAssumption
  <1>7. Inputs(e, n)
    BY <1>1, <1>4, <1>6, EmptySeq DEF Inputs
  <1>8. Reception(e, n, drv)
    BY <1>1, <1>4, <1>7 DEF Reception, Stored, HasRun
  <1> QED BY <1>3, <1>4, <1>8, ListenLemma, KeptReception

IInv ==
    /\ request \in 1 .. Len(Requests) + 1 /\ line \in Seq(Chars(request))
    /\ Reception(d, request, d.drv)
    /\ Whole(d.drv, line)

LEMMA RequestsCounted == Len(Requests) \in Nat /\ DOMAIN Requests = 1 .. Len(Requests)
  <1>1. PICK R : Requests \in Seq(R)
    BY RequestsAssumption
  <1> QED BY <1>1

LEMMA InitIInv == Init => IInv
  <1> SUFFICES ASSUME Init PROVE IInv
    OBVIOUS
  <1>1. PICK build \in Builds : d = SerialInit(build[1], build[2])
    BY DEF Init
  <1>2. build[1] \in Drivers
    BY LinkAssumption DEF Supported, Drivers
  <1>3. Reception(d, request, build[1]) /\ d.drv = build[1]
    BY <1>1, <1>2, InitReception DEF Reception
  <1>4. request \in 1 .. Len(Requests) + 1 /\ line \in Seq(Chars(request))
    BY RequestsCounted, EmptySeq DEF Init
  <1>5. Whole(d.drv, line)
    <2>1. Len(line) = 0
      BY EmptySeq DEF Init
    <2> QED BY <2>1 DEF Whole, Word
  <1> QED BY <1>3, <1>4, <1>5 DEF IInv

\* The device takes characters of the host in.
LEMMA TakeInReception ==
    ASSUME NEW e, NEW n, NEW drv, Reception(e, n, drv), NEW fifo \in Seq(Chars(n))
    PROVE  Reception([e EXCEPT !.fifo = fifo], n, drv)
  <1>1. PICK r : r = [e EXCEPT !.fifo = fifo]
    OBVIOUS
  <1>2. IsDriver(r) /\ SameRx(r, e) /\ r.fifo = fifo /\ r.rx = e.rx
    BY <1>1 DEF Reception, IsDriver, SameRx
  <1>3. e.rx \in Seq(Chars(n))
    BY DEF Reception, Inputs
  <1> QED BY <1>1, <1>2, <1>3, DeviceReception

LEMMA ArrivesReception ==
    ASSUME NEW n, NEW drv, Reception(d, n, drv), NEW c \in Chars(n)
    PROVE  Reception(Arrives(c), n, drv)
  <1>1. d.fifo \in Seq(Chars(n))
    BY DEF Reception, Inputs
  <1>2. PICK f : f = IF d.rxOn THEN Append(d.fifo, c) ELSE d.fifo
    OBVIOUS
  <1>3. f \in Seq(Chars(n))
    BY <1>1, <1>2, AppendProperties
  <1>4. Arrives(c) = [d EXCEPT !.fifo = f]
    BY <1>2 DEF Arrives
  <1> QED BY <1>3, <1>4, TakeInReception

LEMMA HandledReception ==
    ASSUME NEW e, NEW n, NEW drv, Reception(e, n, drv)
    PROVE  Reception(Handled(e), n, drv)
  BY ProcessReception DEF Handled

LEMMA MinLemma ==
    ASSUME NEW m \in Nat, NEW n \in Nat
    PROVE  Min({m, n}) \in Nat /\ Min({m, n}) <= m /\ Min({m, n}) <= n
  <1>1. \E k \in {m, n} : \A j \in {m, n} : k =< j
    OBVIOUS
  <1>2. PICK k : k = Min({m, n}) /\ k \in {m, n} /\ \A j \in {m, n} : k =< j
    BY <1>1 DEF Min
  <1> QED BY <1>2

LEMMA UsbReceivedReception ==
    ASSUME NEW e, NEW n, NEW drv, Reception(e, n, drv), NEW data \in Seq(Chars(n))
    PROVE  Reception(UsbReceived(e, data), n, drv)
  <1>1. PICK S, x : S = Chars(n) /\ x = e.rx \o data /\ e.rx \in Seq(S) /\ e.fifo \in Seq(S)
    BY DEF Reception, Inputs
  <1>2. x \in Seq(S)
    BY <1>1, ConcatProperties
  <1>3. PICK r : r = SubSeq(x, 1, Min({Len(x), UsbQueue}))
    OBVIOUS
  <1>4. r \in Seq(S)
    <2>1. PICK m \in Nat, u \in Nat : m = Len(x) /\ u = UsbQueue
      BY <1>2, DeviceAssumption
    <2>2. Min({m, u}) \in Nat /\ Min({m, u}) <= m
      BY <2>1, MinLemma
    <2> QED BY <1>2, <1>3, <2>1, <2>2, DropLemma
  <1>5. PICK o, g : /\ o = (IF e.txActive THEN Overwritten(e.out, data) ELSE e.out)
                    /\ g = [e EXCEPT !.rx = r, !.out = o]
    OBVIOUS
  <1>6. IsDriver(g) /\ SameRx(g, e) /\ g.fifo = e.fifo /\ g.rx = r
    BY <1>5 DEF Reception, IsDriver, SameRx
  <1>7. g = UsbReceived(e, data)
    BY <1>1, <1>3, <1>5 DEF UsbReceived
  <1> QED BY <1>1, <1>4, <1>6, <1>7, DeviceReception

LEMMA SendStep ==
    ASSUME NEW n, NEW drv, Reception(d, n, drv), NEW i \in DOMAIN Requests, i <= n, Send(i)
    PROVE  Reception(d', n, drv) /\ line' \in Seq(Chars(n)) /\ Whole(drv, line')
  <1>1. Command[i] \in Seq(Chars(n))
    BY CommandLemma
  <1>2. Padded(Command[i]) \in Seq(Chars(n)) /\ Len(Padded(Command[i])) % Word = 0
    BY <1>1, PadLemma, PaddedLemma
  <1>3. PICK b, r : b = Eonce(d) /\ r = [d EXCEPT !.jtag = b] /\ r = d'
    BY DEF Send
  <1>4. Kept(r, d)
    BY <1>3 DEF Reception, IsDriver, Kept, SameRx
  <1>5. drv \in {"eonce", "eonceTdf"} => b
    BY <1>3 DEF Reception, Eonce
  <1> QED BY <1>1, <1>2, <1>3, <1>4, <1>5, KeptReception DEF Send, Whole

LEMMA DeliverStep ==
    ASSUME NEW n, NEW drv, Reception(d, n, drv), line \in Seq(Chars(n)), Whole(drv, line), Deliver
    PROVE  Reception(d', n, drv) /\ line' \in Seq(Chars(n)) /\ Whole(drv, line')
  <1>1. PICK S, s, k : S = Chars(n) /\ s = line /\ s \in Seq(S) /\ k = Len(s) /\ k \in Nat
    OBVIOUS
  <1>2. CASE DeliverChar
    <2>1. s # <<>> /\ d' = Arrives(Head(s)) /\ line' = Tail(s)
      BY <1>1, <1>2 DEF DeliverChar
    <2>2. Head(s) \in S /\ Tail(s) \in Seq(S)
      BY <1>1, <2>1
    <2>3. Whole(drv, line')
      BY <1>2 DEF DeliverChar, Uart, Whole, Reception
    <2> QED BY <1>1, <2>1, <2>2, <2>3, ArrivesReception
  <1>3. CASE DeliverWord
    <2>1. PICK f : f = SubSeq(s, 1, Word) /\ d' = [d EXCEPT !.fifo = f] /\ line' = SubSeq(s, Word + 1, k)
      BY <1>1, <1>3 DEF DeliverWord
    <2>2. k % 4 = 0 /\ k # 0
      BY <1>1, <1>3, EmptySeq DEF DeliverWord, Eonce, Whole, Reception, Word
    <2>3. 4 <= k /\ (k - 4) % 4 = 0
      BY <1>1, <2>2
    <2>4. f \in Seq(S) /\ line' \in Seq(S) /\ Len(line') = k - 4
      BY <1>1, <2>1, <2>3 DEF Word
    <2> QED BY <1>1, <2>1, <2>3, <2>4, TakeInReception DEF Whole, Word
  <1>4. CASE DeliverPacket
    <2>1. PICK m \in Nat : m = PacketLength /\ m <= k
      <3>1. UsbSize \in Nat
        BY DeviceAssumption
      <3> QED BY <1>1, <3>1, MinLemma DEF PacketLength
    <2>2. PICK f, e : /\ f = SubSeq(s, 1, m) /\ e = Handled(Handled(UsbReceived(d, f)))
                      /\ d' = e /\ line' = SubSeq(s, m + 1, k)
      BY <1>1, <1>4, <2>1 DEF DeliverPacket, Became
    <2>3. f \in Seq(S) /\ line' \in Seq(S)
      BY <1>1, <2>1, <2>2, DropLemma
    <2>4. Reception(Handled(Handled(UsbReceived(d, f))), n, drv)
      BY <1>1, <2>3, UsbReceivedReception, HandledReception
    <2>5. Whole(drv, line')
      BY <1>4 DEF DeliverPacket, Usb, Whole, Reception
    <2> QED BY <1>1, <2>2, <2>3, <2>4, <2>5
  <1> QED BY <1>2, <1>3, <1>4 DEF Deliver

LEMMA GarbleStep ==
    ASSUME NEW n, NEW drv, Reception(d, n, drv), line \in Seq(Chars(n)), Whole(drv, line), Garble
    PROVE  Reception(d', n, drv) /\ line' \in Seq(Chars(n)) /\ Whole(drv, line')
  <1>1. PICK S, s : S = Chars(n) /\ s = line /\ s \in Seq(S)
    OBVIOUS
  <1>2. s # <<>> /\ line' = Tail(s) /\ (d' = d \/ \E b \in Byte : d' = Arrives(Plain(b)))
    BY <1>1 DEF Garble
  <1>3. Tail(s) \in Seq(S)
    BY <1>1, <1>2
  <1>4. \A b \in Byte : Plain(b) \in S
    <2>1. Byte \subseteq Values
      BY SerialAssumption DEF Byte, Values
    <2> QED BY <1>1, <2>1, PlainLemma
  <1>5. Whole(drv, line')
    BY DEF Garble, Lossy, Uart, Whole, Reception
  <1> QED BY <1>1, <1>2, <1>3, <1>4, <1>5, ArrivesReception

LEMMA ShiftStep ==
    ASSUME NEW n, NEW drv, Reception(d, n, drv), line \in Seq(Chars(n)), Whole(drv, line), Shift
    PROVE  Reception(d', n, drv) /\ line' \in Seq(Chars(n)) /\ Whole(drv, line')
  <1>1. CASE ShiftChar
    <2>1. PICK o, t : o = Tail(d.out) /\ t = (d.drv = "linflexd")
      OBVIOUS
    <2>2. PICK r : r = [d EXCEPT !.out = o, !.dtf = t]
      OBVIOUS
    <2>3. d' = r /\ line' = line
      BY <1>1, <2>1, <2>2 DEF ShiftChar
    <2>4. Kept(r, d)
      BY <2>2 DEF Reception, IsDriver, Kept, SameRx
    <2> QED BY <2>3, <2>4, KeptReception
  <1>2. CASE ShiftWord
    <2>1. PICK r : r = [d EXCEPT !.out = <<>>] /\ d' = r
      BY <1>2 DEF ShiftWord
    <2>2. Kept(r, d)
      BY <2>1 DEF Reception, IsDriver, Kept, SameRx
    <2>3. PICK S, s : S = Chars(n) /\ s = line /\ s \in Seq(S) /\ Pad \in S /\ <<Pad>> \in Seq(S)
      BY PadLemma
    <2>4. PICK p : p = Padded(<<Pad>>) /\ p \in Seq(S) /\ Len(p) % Word = 0
      BY <2>3, PaddedLemma
    <2>5. s \o p \in Seq(S) /\ Len(s \o p) = Len(s) + Len(p)
      BY <2>3, <2>4, ConcatProperties
    <2>6. line' \in Seq(S) /\ Whole(drv, line')
      <3>1. PICK i \in Nat, j \in Nat : i = Len(s) /\ j = Len(p)
        BY <2>3, <2>4
      <3>2. i % 4 = 0 /\ j % 4 = 0 => (i + j) % 4 = 0
        OBVIOUS
      <3> QED BY <1>2, <2>3, <2>4, <2>5, <3>1, <3>2 DEF ShiftWord, Whole, Word
    <2> QED BY <2>1, <2>2, <2>3, <2>6, KeptReception
  <1>3. CASE ShiftPacket
    <2>1. PICK r : r = [d EXCEPT !.out = <<>>]
      OBVIOUS
    <2>2. Kept(r, d)
      BY <2>1 DEF Reception, IsDriver, Kept, SameRx
    <2>3. Kept(UsbSent(r), r)
      <3>1. IsDriver(r)
        BY <2>2 DEF Kept
      <3> QED BY <3>1 DEF UsbSent, IsDriver, Kept, SameRx
    <2>4. Reception(Handled(UsbSent(r)), n, drv)
      BY <2>2, <2>3, KeptReception, HandledReception
    <2> QED BY <1>3, <2>1, <2>4 DEF ShiftPacket, Whole
  <1> QED BY <1>1, <1>2, <1>3 DEF Shift

LEMMA StepIInv == IInv /\ [Next]_vars => IInv'
  <1> SUFFICES ASSUME IInv, [Next]_vars PROVE IInv'
    OBVIOUS
  <1>1. /\ request \in 1 .. Len(Requests) + 1 /\ line \in Seq(Chars(request))
        /\ Reception(d, request, d.drv)
        /\ Whole(d.drv, line)
    BY DEF IInv
  <1>2. ASSUME request' = request, Reception(d', request, d.drv),
               line' \in Seq(Chars(request)), Whole(d.drv, line')
        PROVE  IInv'
    <2>1. d'.drv = d.drv
      BY <1>2 DEF Reception
    <2> QED BY <1>1, <1>2, <2>1 DEF IInv
  <1>3. CASE ProcessSerial
    <2>1. d' = Process(d) /\ line' = line /\ request' = request
      BY <1>3 DEF ProcessSerial, Became
    <2> QED BY <1>1, <1>2, <2>1, ProcessReception
  <1>4. CASE RxDequeue
    <2>1. PICK g : g = [d EXCEPT !.queue = RingBuffGet(@)]
      OBVIOUS
    <2>2. Reception(g, request, d.drv) /\ Reception(Rx(g, RingBuffHead(d.queue)), request, d.drv)
      BY <1>1, <2>1, DequeueReception
    <2>3. d' \in {g, Rx(g, RingBuffHead(d.queue))} /\ line' = line /\ request' = request
      BY <1>4, <2>1 DEF RxDequeue, Became
    <2> QED BY <1>1, <1>2, <2>2, <2>3
  <1>5. CASE DevicePoll
    <2>1. Kept(EoncePoll(d), d)
      BY <1>1 DEF EoncePoll, EonceEnableReceiveInterrupt, Reception, IsDriver, Kept, SameRx
    <2>2. d' = EoncePoll(d) /\ line' = line /\ request' = request
      BY <1>5 DEF DevicePoll, Became
    <2> QED BY <1>1, <1>2, <2>1, <2>2, KeptReception
  <1>6. CASE Deliver
    <2>1. request' = request
      BY <1>6 DEF Deliver
    <2> QED BY <1>1, <1>2, <1>6, <2>1, DeliverStep
  <1>7. CASE Garble
    <2>1. request' = request
      BY <1>7 DEF Garble
    <2> QED BY <1>1, <1>2, <1>7, <2>1, GarbleStep
  <1>8. CASE Shift
    <2>1. request' = request
      BY <1>8 DEF Shift
    <2> QED BY <1>1, <1>2, <1>8, <2>1, ShiftStep
  <1>9. CASE UsbReset \/ UsbConfigure
    <2>1. PICK r : d' = r /\ \E on \in BOOLEAN : r = [d EXCEPT !.attach = on]
      BY <1>9 DEF UsbReset, UsbConfigure, UsbBusReset, UsbSetConfiguration
    <2>2. Kept(r, d)
      BY <1>1, <2>1 DEF Reception, IsDriver, Kept, SameRx
    <2>3. request' = request /\ line' \in {line, <<>>}
      BY <1>9 DEF UsbReset, UsbConfigure
    <2>4. <<>> \in Seq(Chars(request)) /\ Whole(d.drv, <<>>)
      BY EmptySeq DEF Whole, Word
    <2> QED BY <1>1, <1>2, <2>1, <2>2, <2>3, <2>4, KeptReception
  <1>10. CASE HostSend \/ HostSendEarly
    <2>1. request' = request /\ Send(request) /\ request \in DOMAIN Requests
      BY <1>10 DEF HostSend, HostSendEarly, Todo
    <2> QED BY <1>1, <1>2, <2>1, SendStep
  <1>11. CASE HostNext
    <2>1. PICK n : n = request + 1 /\ request' = n /\ request \in DOMAIN Requests
      BY <1>11 DEF HostNext, Answered, Todo
    <2>2. n \in 1 .. Len(Requests) + 1 /\ request \in Nat /\ n \in Nat /\ request <= n
      BY <1>1, <2>1, RequestsCounted
    <2>3. Reception(d, n, d.drv) /\ line \in Seq(Chars(n))
      <3>1. PICK S, T : S = Chars(request) /\ T = Chars(n) /\ S \subseteq T
        BY <2>2, LaterChars
      <3> QED BY <1>1, <2>2, <3>1, LaterReception, SeqSubset
    <2>4. (n \in DOMAIN Requests /\ Send(n)) \/ (d' = d /\ line' = line)
      BY <1>11, <2>1 DEF HostNext
    <2>5. Reception(d', n, d.drv) /\ line' \in Seq(Chars(n)) /\ Whole(d.drv, line')
      BY <1>1, <2>2, <2>3, <2>4, SendStep
    <2> QED BY <2>1, <2>2, <2>5 DEF IInv, Reception
  <1>12. CASE Finished \/ UNCHANGED vars
    <2>1. d' = d /\ line' = line /\ request' = request
      BY <1>12 DEF Finished, vars
    <2> QED BY <1>1, <1>2, <2>1
  <1> QED BY <1>3, <1>4, <1>5, <1>6, <1>7, <1>8, <1>9, <1>10, <1>11, <1>12 DEF Next

\* A command is executed only if the host has sent it, byte for byte, whatever
\* devices, builds, queues, requests and faults of the line there are
\* (DecodedAsSent).
THEOREM CommandsAreDecodedAsSent == Spec => []DecodedAsSent
  <1>1. IInv => DecodedAsSent
    BY DEF IInv, Reception, HasRun, DecodedAsSent
  <1> QED BY <1>1, InitIInv, StepIInv, PTL DEF Spec
-----------------------------------------------------------------------------
(* What is sent.                                                           *)

\* The characters of responses.
Symbols == {Plain(b) : b \in Nat} \union {Check(s) : s \in Seq(Nat) \ {<<>>}}

Pads(k) == [i \in 1 .. k |-> Pad]

\* What the device has still to send is u; in EOnCE the last word may be filled up.
HoldsUart(e, u) ==
    e.out = u /\ e.tx = <<>> /\ (e.drv = "linflexd" => Len(u) <= 1 /\ (e.dtf => u = <<>>))
HoldsUsb(e, u) == e.tx = u /\ Len(u) <= UsbSize /\ (e.txActive => e.out = u)
HoldsEonce(e, u) ==
    /\ e.out \in Seq(Symbols \union {Pad}) /\ e.tx \in Seq(Symbols \union {Pad}) /\ Len(e.tx) <= Word
    /\ \E k \in Nat : e.out \o e.tx = u \o Pads(k)
Holds(e, u) ==
    /\ u \in Seq(Symbols)
    /\ Uart(e) => HoldsUart(e, u)
    /\ Usb(e) => HoldsUsb(e, u)
    /\ Eonce(e) => HoldsEonce(e, u)

Unfilled(e, u) == Eonce(e) => e.out \o e.tx = u

\* r has the job of e, which no device changes.
SameTask(r, e) ==
    /\ r.drv = e.drv /\ r.mode = e.mode /\ r.bTxActive = e.bTxActive /\ r.bTxWaitTC = e.bTxWaitTC
    /\ r.bTxLastCharSOB = e.bTxLastCharSOB /\ r.bRxLastCharSOB = e.bRxLastCharSOB
    /\ r.nTxTodo = e.nTxTodo /\ r.pTxBuff = e.pTxBuff
    /\ r.buf = e.buf /\ r.answer = e.answer /\ r.attach = e.attach

\* The device has received no more.
Quieter(r, e) == r.fifo \in {e.fifo, <<>>} /\ r.rx \in {e.rx, <<>>}
SameJob(r, e) ==
    SameTask(r, e) /\ Quieter(r, e) /\ r.rxOn = e.rxOn /\ r.txEnabled = e.txEnabled

\* Nor does the device hold anything else.
SameOut(r, e) ==
    SameTask(r, e) /\ r.tx = e.tx /\ r.out = e.out /\ r.txActive = e.txActive /\ (r.dtf => e.dtf)
SameTx(r, e) == SameOut(r, e) /\ r.txEnabled = e.txEnabled

LEMMA SameHolds ==
    ASSUME NEW e, NEW r, NEW u, SameOut(r, e)
    PROVE  /\ Holds(e, u) => Holds(r, u)
           /\ Unfilled(e, u) => Unfilled(r, u)
  BY DEF SameTx, SameOut, SameTask, Holds, HoldsUart, HoldsUsb, HoldsEonce, Unfilled, Uart, Usb, Eonce

LEMMA SymbolsLemma == Pad \notin Symbols /\ Plain(SOB) \in Symbols /\ \A b \in Nat : Plain(b) \in Symbols
  <1>1. \A b \in Nat : Plain(b) # Pad
    BY DEF Plain, Pad
  <1>2. \A s \in Seq(Nat) \ {<<>>} : Check(s) # Pad
    <2>1. \A s : Check(s).of = s
      BY DEF Check
    <2>2. Pad.of = <<>>
      BY DEF Pad
    <2> QED BY <2>1, <2>2
  <1>3. SOB \in Nat
    BY SerialAssumption
  <1> QED BY <1>1, <1>2, <1>3 DEF Symbols

\* What was filled up is as it was.
LEMMA UnpaddedLemma ==
    ASSUME NEW u \in Seq(Symbols), NEW k \in Nat
    PROVE  Unpadded(u \o Pads(k)) = u
  <1>1. PICK p : p = Pads(k)
    OBVIOUS
  <1>2. PICK T : T = Symbols \union {Pad}
    OBVIOUS
  <1>3. p \in Seq(T) /\ Len(p) = k /\ \A i \in 1 .. k : p[i] = Pad
    BY <1>1, <1>2 DEF Pads
  <1>4. PICK m \in Nat : m = Len(u) /\ IsSequence(u, m) /\ \A i \in 1 .. m : u[i] \in Symbols
    BY ElementsLemma DEF IsSequence
  <1>5. u \in Seq(T)
    BY <1>2, SeqSubset
  <1>6. PICK s : s = u \o p
    OBVIOUS
  <1>7. /\ s \in Seq(T) /\ Len(s) = m + k
        /\ (\A i \in 1 .. m : s[i] = u[i]) /\ \A i \in 1 .. k : s[m + i] = Pad
    BY <1>3, <1>4, <1>5, <1>6, ConcatLemma
  <1>8. PICK N : N = {n \in 0 .. Len(s) : \A i \in n + 1 .. Len(s) : s[i] = Pad}
    OBVIOUS
  <1>9. m \in N
    <2>1. ASSUME NEW i \in m + 1 .. m + k PROVE s[i] = Pad
      <3>1. i - m \in 1 .. k /\ m + (i - m) = i
        BY <1>4
      <3> QED BY <1>7, <3>1
    <2> QED BY <1>7, <1>8, <2>1
  <1>10. ASSUME NEW n \in N PROVE m <= n
    <2>1. n \in 0 .. m + k /\ \A i \in n + 1 .. m + k : s[i] = Pad
      BY <1>7, <1>8
    <2>2. CASE n < m
      <3>1. m \in n + 1 .. m + k /\ m \in 1 .. m
        BY <1>4, <2>1, <2>2
      <3> QED BY <1>4, <1>7, <2>1, <3>1, SymbolsLemma
    <2> QED BY <1>4, <2>1, <2>2
  <1>11. Min(N) = m
    <2>1. N \subseteq Nat
      BY <1>7, <1>8
    <2>2. PICK j : j = Min(N) /\ j \in N /\ \A i \in N : j =< i
      BY <1>9, <1>10 DEF Min
    <2> QED BY <1>9, <1>10, <2>1, <2>2
  <1>12. SubSeq(s, 1, m) = u
    <2>1. SubSeq(s, 1, m) = [i \in 1 .. m |-> s[i]]
      BY <1>7
    <2> QED BY <1>4, <1>7, <2>1 DEF IsSequence
  <1> QED BY <1>1, <1>6, <1>8, <1>11, <1>12 DEF Unpadded

LEMMA UnsentLemma ==
    ASSUME NEW e, IsDriver(e), NEW u, Holds(e, u)
    PROVE  Unsent(e) = u
  <1>1. Unpadded(u) = u
    <2>1. u \o Pads(0) = u
      <3>1. Pads(0) = <<>>
        BY DEF Pads
      <3> QED BY <3>1 DEF Holds
    <2> QED BY <2>1, UnpaddedLemma DEF Holds
  <1>2. CASE Uart(e)
    <2>1. u \o <<>> = u
      BY DEF Holds
    <2>2. e.out \o e.tx = u
      BY <1>2, <2>1 DEF Holds, HoldsUart
    <2> QED BY <1>1, <1>2, <2>2 DEF Unsent, Uart, Usb
  <1>3. CASE Usb(e)
    BY <1>1, <1>3 DEF Unsent, Holds, HoldsUsb
  <1>4. CASE Eonce(e)
    BY <1>4, UnpaddedLemma DEF Unsent, Holds, HoldsEonce, Eonce, Usb
  <1> QED BY <1>2, <1>3, <1>4 DEF IsDriver, Drivers, Uart, Usb, Eonce

\* Switches of the receiver and of interrupts.
LEMMA SwitchTx ==
    ASSUME NEW e, IsDriver(e), NEW on
    PROVE  /\ SameTx(EnableReceive(e, on), e) /\ Quieter(EnableReceive(e, on), e)
           /\ LET r == EnableTransmitInterrupt(e, on) IN SameTx(r, e) /\ SameJob(r, e) /\ r.rxInt = e.rxInt
           /\ LET r == EnableTransmitCompleteInterrupt(e, on) IN SameTx(r, e) /\ SameJob(r, e)
           /\ LET r == EnableReceiveInterrupt(e, on) IN SameTx(r, e) /\ SameJob(r, e)
  <1>1. SameTx(EnableReceive(e, on), e) /\ Quieter(EnableReceive(e, on), e)
    BY DEF EnableReceive, EonceEnableReceive, LpuartEnableReceive, UsbEnableRx, LinflexdEnableReceive,
         UsartEnableReceive, ZephyrEnableReceive, IsDriver, SameTx, SameOut, SameJob, SameTask, Quieter,
         Usb, Eonce, Drivers
  <1>2. /\ SameTx(EnableTransmitInterrupt(e, on), e) /\ SameJob(EnableTransmitInterrupt(e, on), e)
        /\ EnableTransmitInterrupt(e, on).rxInt = e.rxInt
    BY DEF EnableTransmitInterrupt, LpuartEnableTransmitInterrupt, UsartEnableTransmitInterrupt,
           LinflexdEnableTransmitInterrupt, ZephyrEnableTransmitInterrupt, EonceEnableTransmitInterrupt,
           IsDriver, SameTx, SameOut, SameJob, SameTask, Quieter, Usb, Eonce, Drivers, Interrupts
  <1>3. SameTx(EnableTransmitCompleteInterrupt(e, on), e) /\ SameJob(EnableTransmitCompleteInterrupt(e, on), e)
    BY DEF EnableTransmitCompleteInterrupt, LpuartEnableTransmitCompleteInterrupt,
           UsartEnableTransmitCompleteInterrupt, UsartEnableTransmitInterrupt,
           LinflexdEnableTransmitCompleteInterrupt, ZephyrEnableTransmitCompleteInterrupt,
           EonceEnableTransmitCompleteInterrupt, EonceEnableTransmitInterrupt,
           IsDriver, SameTx, SameOut, SameJob, SameTask, Quieter, Usb, Eonce, Drivers, Interrupts
  <1>4. SameTx(EnableReceiveInterrupt(e, on), e) /\ SameJob(EnableReceiveInterrupt(e, on), e)
    BY DEF EnableReceiveInterrupt, LpuartEnableReceiveInterrupt, UsartEnableReceiveInterrupt,
           LinflexdEnableReceiveInterrupt, ZephyrEnableReceiveInterrupt, EonceEnableReceiveInterrupt,
           IsDriver, SameTx, SameOut, SameJob, SameTask, Quieter, Usb, Eonce, Drivers, Interrupts
  <1> QED BY <1>1, <1>2, <1>3, <1>4

\* Characters received.
LEMMA ReadTx ==
    ASSUME NEW e, IsDriver(e)
    PROVE  SameTx(TakeReceiveReg(e), e) /\ (IsReceiveRegFull(e) => SameTx(GetChar(e), e))
  <1>1. SameTx(TakeReceiveReg(e), e)
    BY DEF TakeReceiveReg, ZephyrTakeChar, EonceTryReceiveData, IsDriver, SameTx, SameOut, SameTask, Eonce, Drivers
  <1>2. SameTx(GetChar(e), e)
    BY DEF GetChar, LpuartGetChar, UsartGetChar, LinflexdGetChar, ZephyrGetChar, UsbGetChar, EonceGetChar,
           IsDriver, SameTx, SameOut, SameTask, Usb, Eonce, Drivers
  <1> QED BY <1>1, <1>2

\* Characters handed from the driver to the device.
LEMMA EonceTryTx ==
    ASSUME NEW e, IsDriver(e), Eonce(e), NEW u, HoldsEonce(e, u)
    PROVE  /\ SameTx(EonceReadTDF(e), e) /\ SameJob(EonceReadTDF(e), e)
           /\ SameJob(EonceTryTransmitData(e), e) /\ HoldsEonce(EonceTryTransmitData(e), u)
           /\ Unfilled(e, u) => Unfilled(EonceTryTransmitData(e), u)
  <1>1. PICK g : g = EonceReadTDF(e) /\ IsDriver(g)
    BY EonceTryLemma DEF Kept
  <1>2. SameTx(g, e) /\ SameJob(g, e)
    BY <1>1 DEF EonceReadTDF, IsDriver, SameTx, SameOut, SameJob, SameTask, Quieter
  <1>3. PICK h : h = [g EXCEPT !.out = e.tx, !.tx = <<>>, !.tdfNeedRead = Confirms(e)]
    OBVIOUS
  <1>4. h.out = e.tx /\ h.tx = <<>> /\ SameJob(h, e)
    BY <1>1, <1>2, <1>3 DEF IsDriver, SameTx, SameOut, SameJob, SameTask, Quieter
  <1>5. CASE EonceTryTransmitData(e) = g
    BY <1>1, <1>2, <1>5 DEF SameTx, SameOut, SameJob, SameTask, Quieter, HoldsEonce, Unfilled, Eonce
  <1>6. CASE EonceTryTransmitData(e) = h /\ g.out = <<>>
    <2>1. PICK T, t : T = Symbols \union {Pad} /\ t = e.tx /\ t \in Seq(T) /\ e.out = <<>>
      BY <1>2, <1>6 DEF HoldsEonce, SameTx, SameOut
    <2>2. <<>> \o t = t /\ t \o <<>> = t /\ <<>> \in Seq(T)
      BY <2>1
    <2>3. h.out \o h.tx = e.out \o e.tx
      BY <1>4, <2>1, <2>2
    <2>4. Len(<<>>) = 0
      BY EmptySeq
    <2>5. HoldsEonce(h, u)
      BY <1>4, <2>1, <2>2, <2>3, <2>4 DEF HoldsEonce, Word
    <2> QED BY <1>1, <1>2, <1>4, <1>6, <2>3, <2>5 DEF Unfilled, Eonce, SameJob, SameTask, Quieter
  <1>7. EonceTryTransmitData(e) = g \/ (EonceTryTransmitData(e) = h /\ g.out = <<>>)
    BY <1>1, <1>3 DEF EonceTryTransmitData, EonceTDF
  <1> QED BY <1>1, <1>2, <1>5, <1>6, <1>7

LEMMA UsbFlushTx ==
    ASSUME NEW e, IsDriver(e), NEW u, HoldsUsb(e, u)
    PROVE  /\ SameJob(UsbFlush(e), e) /\ HoldsUsb(UsbFlush(e), u)
           /\ e.attach /\ e.tx # <<>> => UsbFlush(e).txActive
  <1>1. CASE e.tx = <<>>
    BY <1>1 DEF UsbFlush, SameJob, SameTask, Quieter
  <1>2. CASE e.tx # <<>>
    <2>1. UsbFlush(e) = [e EXCEPT !.out = IF e.attach THEN e.tx ELSE @, !.txActive = e.attach]
      BY <1>2 DEF UsbFlush, UsbTxFunction
    <2> QED BY <1>2, <2>1 DEF IsDriver, HoldsUsb, SameJob, SameTask, Quieter
  <1> QED BY <1>1, <1>2

\* The device can take a character.
CanTake(e) ==
    /\ e.drv \in {"lpuart", "usart", "zephyr"} => Len(e.out) < TxDepth
    /\ e.drv = "linflexd" => e.out = <<>>
    /\ Usb(e) => ~e.txActive /\ Len(e.tx) < UsbSize
    /\ Eonce(e) => Len(e.tx) < Word

LEMMA EmptyTx ==
    ASSUME NEW e, IsDriver(e), NEW u, Holds(e, u), IsTransmitRegEmpty(e)
    PROVE  CanTake(e)
  BY DEF IsTransmitRegEmpty, LpuartIsTransmitRegEmpty, UsartIsTransmitRegEmpty, LinflexdIsTransmitRegEmpty,
         ZephyrIsTransmitRegEmpty, UsbIsTransmitRegEmpty, UsbMayTransmit, EonceIsTransmitRegEmpty,
         IsDriver, Drivers, Holds, HoldsUart, CanTake, Uart, Usb, Eonce

\* Asking for room moves characters on at most.
LEMMA TakeTransmitTx ==
    ASSUME NEW e, IsDriver(e), NEW u, Holds(e, u)
    PROVE  LET r == TakeTransmitReg(e)
           IN  /\ SameJob(r, e) /\ Holds(r, u) /\ (Unfilled(e, u) => Unfilled(r, u))
               /\ Usb(e) => r.tx = e.tx
               /\ CanTake(e) => r = e
  <1>1. PICK r : r = TakeTransmitReg(e)
    OBVIOUS
  <1>2. CASE r = e
    BY <1>1, <1>2 DEF SameJob, SameTask, Quieter
  <1>3. CASE Usb(e) /\ r = UsbFlush(e) /\ ~CanTake(e)
    <2>1. SameJob(r, e) /\ HoldsUsb(r, u) /\ e.tx = u
      BY <1>3, UsbFlushTx DEF Holds, HoldsUsb
    <2> QED BY <1>1, <1>3, <2>1 DEF Holds, HoldsUsb, SameJob, SameTask, Quieter, Unfilled, Uart, Usb, Eonce
  <1>4. CASE Eonce(e) /\ r = EonceTryTransmitData(e) /\ ~CanTake(e)
    BY <1>1, <1>4, EonceTryTx DEF Holds, SameJob, SameTask, Quieter, Uart, Usb, Eonce
  <1>5. CanTake(e) => r = e
    <2>1. ASSUME Usb(e), CanTake(e) PROVE Len(e.tx) # UsbSize
      BY <2>1, DeviceAssumption DEF CanTake
    <2> QED BY <1>1, <2>1 DEF TakeTransmitReg, UsbTakeTransmitReg, EonceTakeTransmitReg,
                              CanTake, Uart, Usb, Eonce, IsDriver, Drivers
  <1>6. r = e \/ (Usb(e) /\ r = UsbFlush(e)) \/ (Eonce(e) /\ r = EonceTryTransmitData(e))
    BY <1>1 DEF TakeTransmitReg, UsbTakeTransmitReg, EonceTakeTransmitReg, Uart, Usb, Eonce, IsDriver, Drivers
  <1> QED BY <1>2, <1>3, <1>4, <1>5, <1>6

LEMMA ConcatAppend ==
    ASSUME NEW S, NEW s \in Seq(S), NEW t \in Seq(S), NEW c \in S
    PROVE  s \o Append(t, c) = Append(s \o t, c)
  <1>1. <<c>> \in Seq(S) /\ s \o t \in Seq(S)
    BY ConcatProperties
  <1>2. Append(t, c) = t \o <<c>> /\ Append(s \o t, c) = (s \o t) \o <<c>>
    BY <1>1, AppendIsConcat
  <1> QED BY <1>1, <1>2, ConcatAssociative

\* A character put behind the others.
LEMMA PutTx ==
    ASSUME NEW e, IsDriver(e), NEW u, Holds(e, u), Unfilled(e, u), CanTake(e), NEW c \in Symbols
    PROVE  LET r == PutChar(e, c)
           IN  /\ SameJob(r, e) /\ Holds(r, Append(u, c)) /\ Unfilled(r, Append(u, c))
               /\ Usb(e) => r.tx # <<>>
  <1>1. PICK v : v = Append(u, c)
    OBVIOUS
  <1>2. PICK m \in Nat : m = Len(u)
    BY DEF Holds
  <1>3. v \in Seq(Symbols) /\ Len(v) = m + 1 /\ v # <<>>
    BY <1>1, <1>2, AppendProperties, EmptySeq DEF Holds
  <1>4. PICK r : r = PutChar(e, c)
    OBVIOUS
  <1>5. CASE e.drv \in {"lpuart", "usart", "zephyr"}
    <2>1. r = [e EXCEPT !.out = v]
      BY <1>1, <1>4, <1>5 DEF PutChar, LpuartPutChar, UsartPutChar, ZephyrPutChar, LpuartIsTransmitRegEmpty,
                         UsartIsTransmitRegEmpty, CanTake, Holds, HoldsUart, Uart, Usb, Eonce
    <2> QED BY <1>1, <1>3, <1>4, <1>5, <2>1
            DEF IsDriver, SameJob, SameTask, Quieter, Holds, HoldsUart, Unfilled, Uart, Usb, Eonce
  <1>6. CASE e.drv = "linflexd"
    <2>1. u = <<>> /\ v = <<c>>
      <3>1. Append(<<>>, c) = <<c>>
        OBVIOUS
      <3> QED BY <1>1, <1>6, <3>1 DEF CanTake, Holds, HoldsUart, Uart
    <2>2. r = [e EXCEPT !.out = v, !.dtf = FALSE, !.fifo = <<>>]
      BY <1>4, <1>6, <2>1 DEF PutChar, LinflexdPutChar, Usb, Eonce
    <2>3. Len(v) <= 1
      <3>1. m = 0
        BY <1>2, <2>1, EmptySeq
      <3> QED BY <1>3, <3>1
    <2> QED BY <1>1, <1>3, <1>4, <1>6, <2>2, <2>3
            DEF IsDriver, SameJob, SameTask, Quieter, Holds, HoldsUart, Unfilled, Uart, Usb, Eonce
  <1>7. PICK g : g = [e EXCEPT !.tx = Append(@, c)]
    OBVIOUS
  <1>8. IsDriver(g) /\ g.tx = Append(e.tx, c) /\ g.out = e.out /\ SameJob(g, e) /\ g.txActive = e.txActive
    BY <1>7 DEF IsDriver, SameJob, SameTask, Quieter
  <1>9. CASE Usb(e)
    <2>1. g.tx = v /\ m < UsbSize /\ ~e.txActive
      BY <1>1, <1>2, <1>8, <1>9 DEF CanTake, Holds, HoldsUsb
    <2>2. HoldsUsb(g, v)
      BY <1>2, <1>3, <1>8, <2>1, DeviceAssumption DEF HoldsUsb
    <2>3. r \in {g, UsbFlush(g)}
      BY <1>2, <1>4, <1>7, <1>9, <2>1, DeviceAssumption
         DEF PutChar, UsbPutChar, Holds, HoldsUsb, Usb, Eonce
    <2>4. SameJob(r, e) /\ HoldsUsb(r, v)
      BY <1>8, <2>2, <2>3, UsbFlushTx DEF SameJob, SameTask, Quieter
    <2> QED BY <1>1, <1>3, <1>4, <1>9, <2>4 DEF SameJob, SameTask, Quieter, Holds, HoldsUsb, Unfilled, Uart, Usb, Eonce
  <1>10. CASE Eonce(e)
    <2>1. PICK T : T = Symbols \union {Pad}
      OBVIOUS
    <2>2. PICK o \in Seq(T), t \in Seq(T) : o = e.out /\ t = e.tx /\ Len(t) < 4 /\ o \o t = u
      BY <1>10, <2>1 DEF CanTake, Holds, HoldsEonce, Unfilled, Word
    <2>3. PICK w \in Seq(T) : w = Append(t, c) /\ Len(w) <= 4 /\ o \o w = v
      <3>1. c \in T
        BY <2>1
      <3>2. Append(t, c) \in Seq(T) /\ Len(Append(t, c)) = Len(t) + 1 /\ Len(t) \in Nat
        BY <3>1, AppendProperties
      <3>3. o \o Append(t, c) = Append(o \o t, c)
        BY <3>1, ConcatAppend
      <3>4. Append(o \o t, c) = v
        BY <1>1, <2>2
      <3>5. Len(Append(t, c)) <= 4
        BY <2>2, <3>2
      <3> QED BY <3>2, <3>3, <3>4, <3>5, Zenon
    <2>4. v \o Pads(0) = v
      <3>1. Pads(0) = <<>>
        BY DEF Pads
      <3> QED BY <1>3, <3>1
    <2>5. HoldsEonce(g, v) /\ Unfilled(g, v)
      <3>1. g.out = o /\ g.tx = w
        BY <1>8, <2>2, <2>3
      <3>2. g.out \o g.tx = v \o Pads(0) /\ 0 \in Nat
        BY <2>3, <2>4, <3>1
      <3> QED BY <2>1, <2>3, <3>1, <3>2 DEF HoldsEonce, Unfilled, Word
    <2>6. r \in {g, EonceTryTransmitData(g)}
      BY <1>4, <1>7, <1>10 DEF PutChar, EoncePutChar, Usb, Eonce
    <2>7. Eonce(g)
      BY <1>8, <1>10 DEF SameJob, SameTask, Quieter, Eonce
    <2>8. SameJob(r, e) /\ HoldsEonce(r, v) /\ Unfilled(r, v)
      BY <1>8, <2>5, <2>6, <2>7, EonceTryTx DEF SameJob, SameTask, Quieter
    <2> QED BY <1>1, <1>3, <1>4, <1>10, <2>8 DEF SameJob, SameTask, Quieter, Holds, Uart, Usb, Eonce
  <1> QED BY <1>5, <1>6, <1>9, <1>10 DEF IsDriver, Drivers, Uart, Usb, Eonce
-----------------------------------------------------------------------------
(* Where a response is.                                                    *)

\* Of the response A, g has left the device, and u is still in it.
Shown(g, u, A) ==
    /\ {g, u, A} \subseteq Seq(Symbols) /\ Len(g) + Len(u) <= Len(A)
    /\ \A i \in 1 .. Len(g) : A[i] = g[i]
    /\ \A i \in 1 .. Len(u) : A[Len(g) + i] = u[i]

\* The cells of the buffer from i to j - 1 become the end of A, that of cell q
\* what comes behind the first at[q] characters.
Width(c) == IF c.byte = SOB THEN 2 ELSE 1
Coded(A, buf, at, i, j) ==
    /\ i \in Nat /\ j \in Nat /\ i <= j /\ at[j] = Len(A)
    /\ \A q \in i .. j : at[q] \in Nat /\ at[q] <= Len(A)
    /\ \A q \in i .. j - 1 :
          /\ buf[q] \in Symbols /\ at[q + 1] = at[q] + Width(buf[q])
          /\ \A l \in at[q] + 1 .. at[q + 1] : A[l] = buf[q]

\* The transmitter is behind p characters of the response.
Sends(e, p) ==
    \E at, j :
        /\ Coded(e.answer, e.buf, at, e.pTxBuff, j) /\ e.nTxTodo = j - e.pTxBuff
        /\ p = at[e.pTxBuff] + (IF e.bTxLastCharSOB THEN 1 ELSE 0)
        /\ e.bTxLastCharSOB => e.nTxTodo # 0 /\ e.buf[e.pTxBuff].byte = SOB

\* The device has room, whether or not it sends.
Roomy(e) == (e.drv = "zephyr" => Len(e.out) < TxDepth) /\ (Usb(e) => Len(e.tx) < UsbSize)

Sending(e, g, u) ==
    /\ e.bTxActive /\ Holds(e, u) /\ Shown(g, u, e.answer) /\ Sends(e, Len(g) + Len(u))
    /\ e.nTxTodo # 0 => Unfilled(e, u)
    /\ e.bTxWaitTC => e.nTxTodo = 0 /\ Roomy(e)
    /\ Usb(e) => e.txEnabled

\* The device has sent what it will, or can take more.
Ready(e) ==
    /\ e.drv \in {"lpuart", "usart", "linflexd"} \/ Eonce(e) => e.out = <<>>
    /\ Eonce(e) => e.tx = <<>>
    /\ Usb(e) => ~e.txActive
    /\ Roomy(e)

Listening(e, g, u) ==
    /\ ~e.bTxActive /\ Holds(e, u) /\ Shown(g, u, e.answer) /\ Len(g) + Len(u) = Len(e.answer)
    /\ Unfilled(e, u) /\ Ready(e)

\* USB that is handled at its events has something to wait for.
Loaded(e) ==
    Usb(e) /\ e.mode = "long" /\ e.bTxActive => e.tx # <<>> /\ (e.bTxWaitTC => e.txActive)

\* What is received goes no further than the command that is answered.
Shallow == FifoSize <= 2 \/ \A b \in Builds : b[1] \in {"lpuart", "usart"} => b[2] = "short"
Bounded(e) ==
    e.mode # "short" => /\ e.drv \in {"lpuart", "usart"} => Len(e.fifo) <= 2
                        /\ Eonce(e) => e.rx = <<>>

Responding(e, g) ==
    /\ <<e.drv, e.mode>> \in Builds /\ Bounded(e) /\ Loaded(e)
    /\ \E u : Sending(e, g, u) \/ Listening(e, g, u)

\* Only what the device has still to send can change how far a response is.
LEMMA SameSending ==
    ASSUME NEW e, NEW r, NEW g, NEW u, Sending(e, g, u), SameTask(r, e), r.txEnabled = e.txEnabled, Holds(r, u),
           e.nTxTodo # 0 => Unfilled(r, u), e.bTxWaitTC /\ Roomy(e) => Roomy(r)
    PROVE  Sending(r, g, u)
  <1>1. Sends(r, Len(g) + Len(u))
    BY DEF Sending, Sends, SameTask
  <1> QED BY <1>1 DEF Sending, SameTask, Usb

LEMMA SameTxSending ==
    ASSUME NEW e, NEW r, NEW g, NEW u, Sending(e, g, u), SameTx(r, e)
    PROVE  Sending(r, g, u)
  <1>1. Holds(r, u) /\ (Unfilled(e, u) => Unfilled(r, u))
    BY SameHolds DEF Sending, SameTx
  <1>2. Roomy(e) => Roomy(r)
    BY DEF Roomy, SameTx, SameOut, SameTask, Usb
  <1> QED BY <1>1, <1>2, SameSending DEF SameTx, SameOut, Sending

\* Words are filled up, packets handed over.
LEMMA PadsLemma ==
    ASSUME NEW k \in Nat, NEW m \in Nat
    PROVE  Pads(k) \o Pads(m) = Pads(k + m) /\ Pads(k) \in Seq({Pad}) /\ Len(Pads(k)) = k
  <1>1. \A n \in Nat : Pads(n) \in Seq({Pad}) /\ Len(Pads(n)) = n /\ \A i \in 1 .. n : Pads(n)[i] = Pad
    BY DEF Pads
  <1>2. PICK p \in Seq({Pad}), q \in Seq({Pad}), r \in Seq({Pad}) : p = Pads(k) /\ q = Pads(m) /\ r = Pads(k + m)
    BY <1>1
  <1>3. p \o q \in Seq({Pad}) /\ Len(p \o q) = k + m
    <2>1. Len(p) = k /\ Len(q) = m
      BY <1>1, <1>2
    <2> QED BY <2>1, ConcatLemma
  <1>4. PICK s \in Seq({Pad}) : s = p \o q /\ Len(s) = k + m
    BY <1>3
  <1>5. Len(r) = k + m
    BY <1>1, <1>2
  <1>6. ASSUME NEW i \in 1 .. k + m PROVE s[i] = r[i]
    <2>1. s[i] \in {Pad}
      BY <1>4, ElementsLemma
    <2>2. r[i] \in {Pad}
      BY <1>5, ElementsLemma
    <2> QED BY <2>1, <2>2
  <1>7. s = r
    BY <1>4, <1>5, <1>6, SeqEqual
  <1> QED BY <1>1, <1>2, <1>4, <1>7

LEMMA FlushTx ==
    ASSUME NEW e, IsDriver(e), NEW u, Holds(e, u)
    PROVE  LET r == Flush(e)
           IN  /\ SameJob(r, e) /\ Holds(r, u) /\ (Roomy(e) => Roomy(r))
               /\ Usb(e) => r.tx = e.tx
               /\ Usb(e) /\ e.attach /\ e.tx # <<>> => r.txActive
               /\ Uart(e) => r = e
  <1>1. PICK r : r = Flush(e)
    OBVIOUS
  <1>2. CASE r = e /\ ~(Usb(e) /\ e.tx # <<>>)
    BY <1>1, <1>2 DEF SameJob, SameTask, Quieter
  <1>3. CASE Usb(e) /\ r = UsbFlush(e)
    <2>1. SameJob(r, e) /\ HoldsUsb(r, u) /\ e.tx = u /\ (e.attach /\ e.tx # <<>> => r.txActive)
      BY <1>3, UsbFlushTx DEF Holds, HoldsUsb
    <2>2. r.tx = u
      BY <2>1 DEF HoldsUsb
    <2>3. Holds(r, u)
      BY <1>3, <2>1 DEF Holds, SameJob, SameTask, Uart, Usb, Eonce
    <2> QED BY <1>1, <1>3, <2>1, <2>2, <2>3 DEF SameJob, SameTask, Roomy, Uart, Usb
  <1>4. CASE Eonce(e)
    <2>1. PICK T : T = Symbols \union {Pad} /\ {Pad} \subseteq T
      OBVIOUS
    <2>2. PICK o \in Seq(T), t \in Seq(T), k \in Nat : o = e.out /\ t = e.tx /\ Len(t) <= 4 /\ o \o t = u \o Pads(k)
      BY <1>4, <2>1 DEF Holds, HoldsEonce, Word
    <2>3. PICK m \in Nat, n \in Nat : m = Len(t) /\ n = (-m) % 4 /\ m + n <= 4
      BY <2>2
    <2>4. PICK p \in Seq(T) : p = Pads(n) /\ Len(p) = n
      BY <2>1, PadsLemma, SeqSubset
    <2>5. PICK w \in Seq(T) : w = t \o p /\ Len(w) <= 4
      <3>1. t \o p \in Seq(T) /\ Len(t \o p) = m + n
        BY <2>3, <2>4, ConcatProperties
      <3> QED BY <2>3, <3>1
    <2>6. Padded(e.tx) = w
      BY <2>2, <2>3, <2>4, <2>5 DEF Padded, Pads, Word
    <2>7. o \o w = u \o Pads(k + n)
      <3>1. o \o w = (o \o t) \o p
        BY <2>5, ConcatAssociative
      <3>2. PICK v \in Seq(T), q \in Seq(T) : v = u /\ q = Pads(k)
        <4>1. u \in Seq(T)
          BY <2>1, SeqSubset DEF Holds
        <4>2. Pads(k) \in Seq(T)
          BY <2>1, PadsLemma, SeqSubset
        <4> QED BY <4>1, <4>2
      <3>3. (v \o q) \o p = v \o (q \o p)
        BY ConcatAssociative, SMTT(60)
      <3>4. q \o p = Pads(k + n)
        BY <2>4, <3>2, PadsLemma
      <3> QED BY <2>2, <3>1, <3>2, <3>3, <3>4, Zenon
    <2>8. PICK g : g = [e EXCEPT !.tx = w]
      OBVIOUS
    <2>9. IsDriver(g) /\ g.tx = w /\ g.out = o /\ SameJob(g, e)
      BY <2>2, <2>8 DEF IsDriver, SameJob, SameTask, Quieter
    <2>10. Eonce(g) /\ HoldsEonce(g, u)
      <3>1. g.out \o g.tx = u \o Pads(k + n) /\ k + n \in Nat
        <4>1. g.out \o g.tx = u \o Pads(k + n)
          BY <2>7, <2>9, Zenon
        <4>2. k + n \in Nat
          OBVIOUS
        <4> QED BY <4>1, <4>2
      <3> QED BY <1>4, <2>1, <2>5, <2>9, <3>1 DEF HoldsEonce, Word, SameJob, SameTask, Eonce
    <2>11. r \in {e, EonceTryTransmitData(g)}
      BY <1>1, <1>4, <2>6, <2>8 DEF Flush, EonceFlush, Usb, Eonce
    <2>12. SameJob(r, e) /\ HoldsEonce(r, u)
      <3>1. SameJob(e, e)
        BY DEF SameJob, SameTask, Quieter
      <3>2. SameJob(EonceTryTransmitData(g), e) /\ HoldsEonce(EonceTryTransmitData(g), u)
        BY <2>9, <2>10, EonceTryTx DEF SameJob, SameTask, Quieter
      <3> QED BY <1>4, <2>11, <3>1, <3>2 DEF Holds
    <2>13. Holds(r, u)
      BY <1>4, <2>12 DEF Holds, SameJob, SameTask, Uart, Usb, Eonce
    <2> QED BY <1>1, <1>4, <2>12, <2>13 DEF SameJob, SameTask, Roomy, Uart, Usb, Eonce
  <1>5. (r = e /\ ~(Usb(e) /\ e.tx # <<>>)) \/ (Usb(e) /\ r = UsbFlush(e)) \/ Eonce(e)
    BY <1>1 DEF Flush, Uart, Usb, Eonce, IsDriver, Drivers
  <1> QED BY <1>2, <1>3, <1>4, <1>5

LEMMA TakeActiveTx ==
    ASSUME NEW e, IsDriver(e), NEW u, Holds(e, u)
    PROVE  LET r == TakeActive(e) IN SameJob(r, e) /\ Holds(r, u) /\ (~Eonce(e) => r = e)
  <1>1. PICK g : g = IF Len(e.tx) = Word THEN EonceTryTransmitData(e) ELSE e
    OBVIOUS
  <1>2. PICK r : r = TakeActive(e)
    OBVIOUS
  <1>3. CASE Eonce(e)
    <2>1. IsDriver(g) /\ SameJob(g, e) /\ HoldsEonce(g, u)
      BY <1>1, <1>3, EonceTryTx, EonceTryLemma DEF Holds, Kept, SameJob, SameTask, Quieter
    <2>2. Eonce(g)
      BY <1>3, <2>1 DEF SameJob, SameTask, Eonce
    <2>3. SameTx(EonceReadTDF(g), g) /\ SameJob(EonceReadTDF(g), g)
      BY <2>1, <2>2, EonceTryTx
    <2>4. r \in {g, EonceReadTDF(g)}
      BY <1>1, <1>2, <1>3 DEF TakeActive, EonceTakeActive
    <2>5. SameJob(r, e) /\ HoldsEonce(r, u)
      BY <2>1, <2>3, <2>4 DEF SameTx, SameOut, SameJob, SameTask, Quieter, HoldsEonce
    <2> QED BY <1>2, <1>3, <2>5 DEF Holds, SameJob, SameTask, Uart, Usb, Eonce
  <1>4. CASE ~Eonce(e)
    BY <1>4 DEF TakeActive, SameJob, SameTask, Quieter
  <1> QED BY <1>3, <1>4
-----------------------------------------------------------------------------
(* Transmitting.                                                           *)

\* One more character of the response.
LEMMA TxSending ==
    ASSUME NEW e, IsDriver(e), NEW g, NEW u, Sending(e, g, u), CanTake(e), e.nTxTodo # 0
    PROVE  LET r == Tx(e)
           IN  /\ \E v : Sending(r, g, v)
               /\ r.drv = e.drv /\ r.mode = e.mode /\ r.attach = e.attach /\ Quieter(r, e)
               /\ ~r.bTxWaitTC
               /\ Usb(e) => r.tx # <<>>
  <1>1. PICK at, j : /\ Coded(e.answer, e.buf, at, e.pTxBuff, j) /\ e.nTxTodo = j - e.pTxBuff
                     /\ Len(g) + Len(u) = at[e.pTxBuff] + (IF e.bTxLastCharSOB THEN 1 ELSE 0)
                     /\ e.bTxLastCharSOB => e.buf[e.pTxBuff].byte = SOB
    BY DEF Sending, Sends
  <1>2. PICK i \in Nat : i = e.pTxBuff /\ j \in Nat /\ i < j
    BY <1>1 DEF Coded
  <1>3. PICK c \in Symbols : c = e.buf[i]
    BY <1>1, <1>2 DEF Coded
  <1>4. PICK twin \in BOOLEAN : twin = (c.byte = SOB /\ ~e.bTxLastCharSOB)
    OBVIOUS
  <1>5. PICK x : x = IF twin THEN e ELSE [e EXCEPT !.nTxTodo = @ - 1, !.pTxBuff = @ + 1]
    OBVIOUS
  <1>6. PICK y : y = [x EXCEPT !.bTxLastCharSOB = IF c.byte = SOB THEN twin ELSE @]
    OBVIOUS
  <1>7. /\ IsDriver(y) /\ y.drv = e.drv /\ y.mode = e.mode /\ y.attach = e.attach
        /\ y.fifo = e.fifo /\ y.rx = e.rx /\ y.out = e.out /\ y.tx = e.tx /\ y.txActive = e.txActive
        /\ y.dtf = e.dtf /\ y.bTxWaitTC = e.bTxWaitTC /\ y.bTxActive = e.bTxActive
        /\ y.answer = e.answer /\ y.buf = e.buf /\ y.txEnabled = e.txEnabled
        /\ y.bTxLastCharSOB = (IF c.byte = SOB THEN twin ELSE e.bTxLastCharSOB)
        /\ IF twin THEN y.nTxTodo = e.nTxTodo /\ y.pTxBuff = e.pTxBuff
                   ELSE y.nTxTodo = e.nTxTodo - 1 /\ y.pTxBuff = e.pTxBuff + 1
    <2>1. CASE twin
      BY <1>5, <1>6, <2>1 DEF IsDriver
    <2>2. CASE ~twin
      BY <1>5, <1>6, <2>2 DEF IsDriver
    <2> QED BY <2>1, <2>2
  <1>8. PICK r : r = PutChar(y, c) /\ r = Tx(e)
    BY <1>2, <1>3, <1>4, <1>5, <1>6 DEF Tx
  <1>9. Holds(y, u) /\ Unfilled(y, u) /\ CanTake(y)
    BY <1>7 DEF Sending, Holds, HoldsUart, HoldsUsb, HoldsEonce, Unfilled, CanTake, Uart, Usb, Eonce
  <1>10. PICK v : v = Append(u, c)
    OBVIOUS
  <1>11. /\ SameJob(r, y) /\ Holds(r, v) /\ Unfilled(r, v) /\ (Usb(y) => r.tx # <<>>)
    BY <1>7, <1>8, <1>9, <1>10, PutTx
  <1>12. PICK p \in Nat, m \in Nat : p = Len(g) + Len(u) /\ m = Len(g) /\ Len(u) = p - m
    <2>1. g \in Seq(Symbols) /\ u \in Seq(Symbols)
      BY DEF Sending, Shown
    <2>2. PICK k \in Nat, m \in Nat : k = Len(u) /\ m = Len(g)
      BY <2>1
    <2>3. m + k \in Nat /\ k = (m + k) - m
      OBVIOUS
    <2> QED BY <2>2, <2>3
  <1>13. v \in Seq(Symbols) /\ Len(v) = p - m + 1 /\ v[p - m + 1] = c /\ \A l \in 1 .. p - m : v[l] = u[l]
    BY <1>10, <1>12, AppendProperties DEF Sending, Shown
  <1>14. at[i] \in Nat /\ at[i + 1] \in Nat /\ at[i + 1] = at[i] + Width(c) /\ at[i + 1] <= Len(e.answer)
         /\ \A l \in at[i] + 1 .. at[i + 1] : e.answer[l] = c
    <2>1. i \in i .. j /\ i + 1 \in i .. j /\ i \in i .. j - 1
      BY <1>2
    <2> QED BY <1>1, <1>2, <1>3, <2>1 DEF Coded
  <1>15. p + 1 <= at[i + 1] /\ p + 1 \in at[i] + 1 .. at[i + 1]
         /\ (twin => p + 1 = at[i] + 1) /\ (~twin => p + 1 = at[i + 1])
    <2>1. p = at[i] + (IF e.bTxLastCharSOB THEN 1 ELSE 0) /\ (e.bTxLastCharSOB => c.byte = SOB)
      BY <1>1, <1>2, <1>3, <1>12
    <2>2. PICK a \in Nat, b \in Nat : a = at[i] /\ b = at[i + 1] /\ b = a + (IF c.byte = SOB THEN 2 ELSE 1)
      BY <1>14 DEF Width
    <2>3. CASE e.bTxLastCharSOB
      <3>1. ~twin
        BY <1>4, <2>3
      <3>2. p = a + 1 /\ b = a + 2
        BY <2>1, <2>2, <2>3
      <3> QED BY <2>2, <3>1, <3>2
    <2>4. CASE ~e.bTxLastCharSOB
      <3>1. p = a /\ p + 1 <= b
        BY <2>1, <2>2, <2>4
      <3>2. CASE c.byte = SOB
        <4>1. twin
          BY <1>4, <2>4, <3>2
        <4>2. p + 1 \in a + 1 .. b
          BY <2>2, <3>1
        <4> QED BY <2>2, <3>1, <4>1, <4>2
      <3>3. CASE c.byte # SOB
        <4>1. p + 1 = b
          BY <2>2, <3>1, <3>3
        <4> QED BY <1>4, <2>2, <3>1, <3>3, <4>1
      <3> QED BY <3>2, <3>3
    <2> QED BY <2>3, <2>4
  <1>16. Shown(g, v, e.answer)
    <2>1. Len(e.answer) \in Nat /\ p + 1 <= Len(e.answer)
      BY <1>12, <1>14, <1>15 DEF Sending, Shown
    <2>2. e.answer[p + 1] = c
      BY <1>14, <1>15
    <2>3. ASSUME NEW l \in 1 .. p - m + 1 PROVE e.answer[m + l] = v[l]
      <3>1. CASE l = p - m + 1
        BY <1>12, <1>13, <2>2, <3>1
      <3>2. CASE l # p - m + 1
        <4>1. l \in 1 .. p - m
          BY <1>12, <3>2
        <4>2. e.answer[m + l] = u[l]
          BY <1>12, <4>1 DEF Sending, Shown
        <4> QED BY <1>13, <4>1, <4>2
      <3> QED BY <3>1, <3>2
    <2>4. Len(g) + Len(v) <= Len(e.answer)
      BY <1>12, <1>13, <2>1
    <2>5. \A l \in 1 .. Len(v) : e.answer[Len(g) + l] = v[l]
      BY <1>12, <1>13, <2>3
    <2> QED BY <1>13, <2>4, <2>5 DEF Sending, Shown
  <1>17. Sends(r, Len(g) + Len(v))
    <2>1. Len(g) + Len(v) = p + 1
      BY <1>12, <1>13
    <2>2. CASE twin
      <3>1. r.pTxBuff = i /\ r.nTxTodo = j - i /\ r.bTxLastCharSOB = TRUE /\ r.buf = e.buf /\ r.answer = e.answer
        BY <1>1, <1>2, <1>4, <1>7, <1>11, <2>2 DEF SameJob, SameTask
      <3>2. e.buf[i].byte = SOB
        BY <1>3, <1>4, <2>2
      <3>3. p + 1 = at[i] + 1 /\ j - i # 0
        BY <1>2, <1>15, <2>2
      <3> QED BY <1>1, <1>2, <2>1, <3>1, <3>2, <3>3 DEF Sends
    <2>3. CASE ~twin
      <3>1. /\ r.pTxBuff = i + 1 /\ r.nTxTodo = j - (i + 1) /\ ~r.bTxLastCharSOB
            /\ r.buf = e.buf /\ r.answer = e.answer
        BY <1>1, <1>2, <1>3, <1>4, <1>7, <1>11, <2>3 DEF SameJob, SameTask
      <3>2. Coded(e.answer, e.buf, at, i + 1, j)
        <4>1. PICK k \in Nat : k = i + 1 /\ k <= j
          BY <1>1, <1>2 DEF Coded
        <4>2. (\A q \in k .. j : q \in i .. j) /\ \A q \in k .. j - 1 : q \in i .. j - 1
          BY <1>2, <4>1
        <4>3. Coded(e.answer, e.buf, at, k, j)
          BY <1>1, <1>2, <4>1, <4>2, Zenon DEF Coded
        <4> QED BY <4>1, <4>3
      <3> QED BY <1>15, <2>1, <2>3, <3>1, <3>2 DEF Sends
    <2> QED BY <2>2, <2>3
  <1>18. ~e.bTxWaitTC
    BY DEF Sending
  <1>19. Sending(r, g, v)
    BY <1>7, <1>11, <1>16, <1>17, <1>18 DEF Sending, SameJob, SameTask, Usb
  <1> QED BY <1>7, <1>8, <1>11, <1>18, <1>19 DEF SameJob, SameTask, Quieter, Usb

SameKind(r, e) == r.drv = e.drv /\ r.mode = e.mode /\ r.attach = e.attach /\ Quieter(r, e)

LEMMA SameKindAgain ==
    ASSUME NEW e, NEW f, NEW r, SameKind(f, e), SameKind(r, f)
    PROVE  SameKind(r, e)
  BY DEF SameKind, Quieter

\* USB has something to wait for; or it has nothing.
Full(e) == e.tx # <<>> /\ (e.bTxWaitTC => e.txActive)
Fresh(e) == Usb(e) /\ ~e.txActive /\ e.tx = <<>>

LEMMA TxIfEmptySending ==
    ASSUME NEW e, IsDriver(e), NEW g, NEW u, Sending(e, g, u)
    PROVE  LET r == TxIfEmpty(e)
           IN  /\ \E v : Sending(r, g, v)
               /\ SameKind(r, e)
               /\ Usb(e) /\ Full(e) => Full(r)
               /\ Fresh(e) => IF e.nTxTodo = 0 THEN r = e ELSE Full(r)
  <1>1. PICK f : f = TakeTransmitReg(e) /\ IsDriver(f)
    BY TakeTransmitRegLemma DEF Kept
  <1>2. SameJob(f, e) /\ Holds(f, u) /\ (Unfilled(e, u) => Unfilled(f, u)) /\ (Usb(e) => f.tx = e.tx)
        /\ (CanTake(e) => f = e) /\ (Uart(e) => f = e)
    BY <1>1, TakeTransmitTx DEF Sending, TakeTransmitReg, Uart, Usb, Eonce
  <1>3. Sending(f, g, u)
    <2>1. Roomy(e) => Roomy(f)
      BY <1>2 DEF Roomy, Uart, Usb, SameJob, SameTask
    <2> QED BY <1>2, <2>1, SameSending DEF SameJob, Sending
  <1>4. e.nTxTodo \in Nat
    BY DEF Sending, Sends, Coded
  <1>5. Usb(e) /\ Full(e) => Full(f)
    <2>1. Usb(e) /\ e.txActive => f = e
      BY <1>1 DEF TakeTransmitReg, UsbTakeTransmitReg, UsbMayTransmit, Usb, Eonce
    <2> QED BY <1>2, <2>1 DEF Full, SameJob, SameTask
  <1>6. SameKind(f, e)
    BY <1>2 DEF SameKind, SameJob, SameTask
  <1>7. CASE IsTransmitRegEmpty(f) /\ f.nTxTodo > 0
    <2>1. f.nTxTodo # 0 /\ CanTake(f)
      BY <1>1, <1>2, <1>4, <1>7, EmptyTx DEF SameJob, SameTask
    <2>2. PICK r : r = Tx(f)
      OBVIOUS
    <2>3. (\E v : Sending(r, g, v)) /\ SameKind(r, f) /\ (Usb(f) => Full(r))
      BY <1>1, <1>3, <2>1, <2>2, TxSending DEF SameKind, Full
    <2>4. e.nTxTodo # 0 /\ (Usb(e) => Usb(f)) /\ r = TxIfEmpty(e)
      BY <1>1, <1>2, <1>7, <2>1, <2>2 DEF TxIfEmpty, Usb, SameJob, SameTask
    <2> QED BY <1>6, <2>3, <2>4, SameKindAgain DEF Fresh
  <1>8. CASE ~(IsTransmitRegEmpty(f) /\ f.nTxTodo > 0)
    <2>1. TxIfEmpty(e) = f
      BY <1>1, <1>8 DEF TxIfEmpty
    <2>2. ASSUME Fresh(e) PROVE f = e /\ e.nTxTodo = 0
      <3>1. Len(<<>>) = 0
        BY EmptySeq
      <3>2. CanTake(e)
        BY <2>2, <3>1, DeviceAssumption DEF Fresh, CanTake, Usb, Eonce
      <3>3. IsTransmitRegEmpty(e)
        BY <2>2, <3>1, DeviceAssumption
           DEF Fresh, Sending, IsTransmitRegEmpty, UsbIsTransmitRegEmpty, UsbMayTransmit, Usb, Eonce
      <3> QED BY <1>2, <1>4, <1>8, <3>2, <3>3
    <2> QED BY <1>3, <1>5, <1>6, <2>1, <2>2
  <1> QED BY <1>7, <1>8

LEMMA TxWhileEmptySending ==
    ASSUME NEW e, IsDriver(e), NEW g, NEW u, Sending(e, g, u)
    PROVE  LET r == TxWhileEmpty(e)
           IN  /\ IsDriver(r) /\ \E v : Sending(r, g, v)
               /\ SameKind(r, e)
               /\ Usb(e) /\ Full(e) => Full(r)
               /\ Fresh(e) => IF e.nTxTodo = 0 THEN r = e ELSE Full(r)
  <1>1. PICK n \in Nat : n = Room(e) /\ (Usb(e) => n # 0)
    <2>1. Room(e) \in Nat
      BY RoomLemma
    <2>2. Usb(e) => Room(e) = UsbSize
      BY DEF Room, Uart, Usb, Eonce
    <2> QED BY <2>1, <2>2, DeviceAssumption
  <1>2. PICK f : f = CHOOSE h : h = [i \in 0 .. n |-> IF i = 0 THEN e ELSE TxIfEmpty(h[i - 1])]
    OBVIOUS
  <1>3. TxWhileEmpty(e) = f[n]
    BY <1>1, <1>2 DEF TxWhileEmpty, Repeat
  <1>4. Steps(f, "tx", e, n)
    <2>1. PICK h : Steps(h, "tx", e, n)
      BY StepsExist
    <2> QED BY <1>2, <2>1 DEF Steps, LoopStep
  <1>5. \A i \in 0 .. n : f[i] = IF i = 0 THEN e ELSE TxIfEmpty(f[i - 1])
    BY <1>4 DEF Steps, LoopStep
  <1> DEFINE Good(i) == /\ IsDriver(f[i]) /\ (\E v : Sending(f[i], g, v)) /\ SameKind(f[i], e)
                        /\ Usb(e) /\ Full(e) => Full(f[i])
                        /\ Fresh(e) => IF e.nTxTodo = 0 \/ i = 0 THEN f[i] = e ELSE Full(f[i])
             Bad == {i \in 0 .. n : ~Good(i)}
  <1>6. Bad \in SUBSET Nat
    OBVIOUS
  <1>7. ASSUME NEW i \in Bad, \A j \in Bad : i <= j PROVE FALSE
    <2>1. CASE i = 0
      BY <1>5, <1>7, <2>1 DEF SameKind, Quieter
    <2>2. CASE i # 0
      <3>1. i - 1 \in 0 .. n /\ i - 1 \notin Bad
        BY <1>7, <2>2
      <3>2. PICK x : x = f[i - 1]
        OBVIOUS
      <3>3. /\ IsDriver(x) /\ (\E v : Sending(x, g, v)) /\ SameKind(x, e)
            /\ Usb(e) /\ Full(e) => Full(x)
            /\ Fresh(e) => IF e.nTxTodo = 0 \/ i - 1 = 0 THEN x = e ELSE Full(x)
        BY <3>1, <3>2
      <3>4. PICK r : r = TxIfEmpty(x) /\ IsDriver(r)
        BY <3>3, TxIfEmptyLemma DEF Kept
      <3>5. /\ (\E v : Sending(r, g, v)) /\ SameKind(r, x)
            /\ Usb(x) /\ Full(x) => Full(r)
            /\ Fresh(x) => IF x.nTxTodo = 0 THEN r = x ELSE Full(r)
        BY <3>3, <3>4, TxIfEmptySending
      <3>6. SameKind(r, e) /\ (Usb(e) => Usb(x))
        BY <3>3, <3>5, SameKindAgain DEF SameKind, Usb
      <3>7. Fresh(e) => IF e.nTxTodo = 0 THEN r = e ELSE Full(r)
        BY <3>3, <3>5, <3>6 DEF Fresh
      <3>8. f[i] = r
        BY <1>5, <1>7, <2>2, <3>2, <3>4
      <3>9. Good(i)
        BY <2>2, <3>3, <3>4, <3>5, <3>6, <3>7, <3>8
      <3> QED BY <1>7, <3>9
    <2> QED BY <2>1, <2>2
  <1> HIDE DEF Bad
  <1>8. Bad = {}
    BY <1>6, <1>7, LeastNat
  <1>9. Good(n)
    BY <1>8 DEF Bad
  <1>10. Fresh(e) /\ n = 0 => FALSE
    BY <1>1 DEF Fresh
  <1> QED BY <1>3, <1>9, <1>10

\* The end of a response.
LEMMA AwaitSending ==
    ASSUME NEW e, IsDriver(e), NEW g, NEW u, Sending(e, g, u), e.nTxTodo = 0, IsTransmitRegEmpty(e)
    PROVE  LET r == AwaitComplete(e)
           IN  /\ Sending(r, g, u) /\ SameKind(r, e) /\ r.bTxWaitTC
               /\ Usb(e) => r.tx = e.tx /\ (e.attach /\ e.tx # <<>> => r.txActive)
               /\ Fresh(e) => ~r.txActive
  <1>1. Roomy(e)
    BY EmptyTx DEF Sending, CanTake, Roomy
  <1>2. PICK a : a = Flush(e) /\ IsDriver(a)
    BY FlushLemma DEF Kept
  <1>3. /\ SameJob(a, e) /\ Holds(a, u) /\ Roomy(a)
        /\ Usb(e) => a.tx = e.tx
        /\ Usb(e) /\ e.attach /\ e.tx # <<>> => a.txActive
        /\ Fresh(e) => ~a.txActive
    <2>1. Holds(e, u)
      BY DEF Sending
    <2>2. Fresh(e) => a = e
      BY <1>2 DEF Flush, UsbFlush, Fresh, Usb, Eonce, Uart
    <2> QED BY <1>1, <1>2, <2>1, <2>2, FlushTx DEF Fresh
  <1>4. PICK b : b = [a EXCEPT !.bTxWaitTC = TRUE]
    OBVIOUS
  <1>5. /\ IsDriver(b) /\ SameKind(b, e) /\ b.bTxWaitTC /\ b.bTxActive = e.bTxActive /\ b.answer = e.answer
        /\ b.buf = e.buf /\ b.pTxBuff = e.pTxBuff /\ b.nTxTodo = e.nTxTodo
        /\ b.bTxLastCharSOB = e.bTxLastCharSOB /\ b.txEnabled = e.txEnabled
        /\ b.out = a.out /\ b.tx = a.tx /\ b.txActive = a.txActive /\ b.dtf = a.dtf /\ b.drv = a.drv
    <2>1. IsDriver(b) /\ b.bTxWaitTC
      BY <1>2, <1>4 DEF IsDriver
    <2>2. /\ b.drv = a.drv /\ b.mode = a.mode /\ b.attach = a.attach /\ b.fifo = a.fifo /\ b.rx = a.rx
          /\ b.bTxActive = a.bTxActive /\ b.answer = a.answer /\ b.buf = a.buf /\ b.pTxBuff = a.pTxBuff
          /\ b.nTxTodo = a.nTxTodo /\ b.bTxLastCharSOB = a.bTxLastCharSOB /\ b.txEnabled = a.txEnabled
          /\ b.out = a.out /\ b.tx = a.tx /\ b.txActive = a.txActive /\ b.dtf = a.dtf
      BY <1>2, <1>4 DEF IsDriver
    <2> QED BY <1>3, <2>1, <2>2 DEF SameKind, SameJob, SameTask, Quieter
  <1>6. Holds(b, u) /\ Roomy(b)
    BY <1>3, <1>5 DEF Holds, HoldsUart, HoldsUsb, HoldsEonce, Roomy, Uart, Usb, Eonce
  <1>7. Sending(b, g, u)
    <2>1. Sends(b, Len(g) + Len(u))
      BY <1>5 DEF Sending, Sends
    <2> QED BY <1>5, <1>6, <2>1 DEF Sending, Usb, SameKind
  <1>8. PICK f : f = IF Interrupts(b) THEN TakeActive(b) ELSE b
    OBVIOUS
  <1>9. IsDriver(f) /\ SameJob(f, b) /\ Holds(f, u) /\ (~Eonce(b) => f = b)
    <2>1. IsDriver(TakeActive(b))
      BY <1>5, TakeActiveLemma DEF Kept
    <2> QED BY <1>5, <1>6, <1>8, <2>1, TakeActiveTx DEF SameJob, SameTask, Quieter
  <1>10. Sending(f, g, u)
    <2>1. Roomy(f)
      BY <1>6, <1>9 DEF Roomy, SameJob, SameTask, Usb, Eonce
    <2>2. b.nTxTodo = 0
      BY <1>5
    <2> QED BY <1>7, <1>9, <2>1, <2>2, SameSending DEF SameJob
  <1>11. SameKind(f, e) /\ f.bTxWaitTC /\ (Usb(e) => f = b)
    BY <1>5, <1>9, SameKindAgain DEF SameKind, SameJob, SameTask, Quieter, Usb, Eonce
  <1>12. PICK h : h = EnableTransmitInterrupt(f, FALSE) /\ IsDriver(h) /\ SameTx(h, f) /\ SameJob(h, f)
    BY <1>9, SwitchTx, InterruptsLemma DEF Kept
  <1>13. PICK k : k = EnableTransmitCompleteInterrupt(h, TRUE) /\ SameTx(k, h) /\ SameJob(k, h)
    BY <1>12, SwitchTx
  <1>14. SameTx(k, f) /\ SameKind(k, f)
    BY <1>12, <1>13 DEF SameTx, SameOut, SameJob, SameTask, Quieter, SameKind
  <1>15. Sending(k, g, u) /\ SameKind(k, e) /\ k.bTxWaitTC
    BY <1>10, <1>11, <1>14, SameTxSending, SameKindAgain DEF SameTx, SameOut, SameTask
  <1>16. Usb(e) => k.tx = f.tx /\ k.txActive = f.txActive
    BY <1>14 DEF SameTx, SameOut
  <1>17. AwaitComplete(e) \in {f, k}
    BY <1>2, <1>4, <1>8, <1>12, <1>13 DEF AwaitComplete
  <1>18. /\ Usb(e) => f.tx = e.tx /\ (e.attach /\ e.tx # <<>> => f.txActive)
         /\ Fresh(e) => ~f.txActive
    BY <1>3, <1>5, <1>11 DEF Fresh
  <1> QED BY <1>10, <1>11, <1>15, <1>16, <1>17, <1>18 DEF Fresh

LEMMA CompleteTx ==
    ASSUME NEW e, IsDriver(e), NEW u, Holds(e, u), Roomy(e), TransmitComplete(e)
    PROVE  Ready(e)
  BY DEF TransmitComplete, IsTransmitterActive, LpuartIsTransmitterActive, UsartIsTransmitterActive,
         LinflexdIsTransmitterActive, UsbIsTransmitterActive, EonceIsTransmitterActive, EonceTDF,
         Holds, HoldsUart, Ready, Uart, Usb, Eonce

\* The device is switched from sending to receiving, and back.
LEMMA EnableTransmitTx ==
    ASSUME NEW e, IsDriver(e), NEW on \in BOOLEAN, on \/ Ready(e)
    PROVE  LET r == EnableTransmit(e, on)
           IN  SameOut(r, e) /\ Quieter(r, e) /\ r.rxOn = e.rxOn /\ (Usb(e) => r.txEnabled = on)
  BY DEF EnableTransmit, EonceEnableTransmit, LpuartEnableTransmit, UsbEnableTx, LinflexdEnableTransmit,
         UsartEnableTransmit, ZephyrEnableTransmit, IsDriver, SameOut, SameTask, Quieter, Ready, Usb, Eonce, Drivers

LEMMA ReadyUnfilled ==
    ASSUME NEW e, IsDriver(e), NEW u, Holds(e, u), Ready(e)
    PROVE  Unfilled(e, u)
  <1>1. CASE Eonce(e)
    <2>1. PICK k \in Nat : e.out \o e.tx = u \o Pads(k)
      BY <1>1 DEF Holds, HoldsEonce
    <2>2. e.out = <<>> /\ e.tx = <<>>
      BY <1>1 DEF Ready
    <2>3. PICK T : T = Symbols \union {Pad} /\ u \in Seq(T) /\ Pads(k) \in Seq(T) /\ Len(Pads(k)) = k
      <3>1. {Pad} \subseteq Symbols \union {Pad} /\ Symbols \subseteq Symbols \union {Pad}
        OBVIOUS
      <3> QED BY <3>1, PadsLemma, SeqSubset DEF Holds
    <2>4. <<>> \o <<>> = <<>> /\ Len(<<>>) = 0
      BY EmptySeq
    <2>5. PICK m \in Nat : m = Len(u)
      BY <2>3
    <2>6. Len(u \o Pads(k)) = m + k
      BY <2>3, <2>5, ConcatProperties
    <2>7. m = 0
      BY <2>1, <2>2, <2>4, <2>5, <2>6
    <2>8. u = <<>>
      BY <2>3, <2>5, <2>7, EmptySeq
    <2> QED BY <2>2, <2>4, <2>8 DEF Unfilled
  <1> QED BY <1>1 DEF Unfilled

LEMMA SameReady ==
    ASSUME NEW e, NEW r, SameOut(r, e), Ready(e)
    PROVE  Ready(r)
  BY DEF SameOut, SameTask, Ready, Roomy, Usb, Eonce

LEMMA ListenTx ==
    ASSUME NEW e, IsDriver(e), NEW u, Holds(e, u), Ready(e)
    PROVE  LET r == Listen(e)
           IN  /\ ~r.bTxActive /\ Holds(r, u) /\ Unfilled(r, u) /\ Ready(r)
               /\ r.answer = e.answer /\ SameKind(r, e)
  <1>1. PICK a : a = [e EXCEPT !.nRxTodo = 0, !.bTxActive = FALSE, !.bTxWaitTC = FALSE]
    OBVIOUS
  <1>2. /\ IsDriver(a) /\ ~a.bTxActive /\ a.drv = e.drv /\ a.mode = e.mode /\ a.attach = e.attach
        /\ a.fifo = e.fifo /\ a.rx = e.rx /\ a.answer = e.answer
        /\ a.out = e.out /\ a.tx = e.tx /\ a.txActive = e.txActive /\ a.dtf = e.dtf
    BY <1>1 DEF IsDriver
  <1>3. Holds(a, u) /\ Ready(a)
    BY <1>2 DEF Holds, HoldsUart, HoldsUsb, HoldsEonce, Ready, Roomy, Uart, Usb, Eonce
  <1>4. PICK b : b = EnableTransmit(a, FALSE) /\ IsDriver(b) /\ SameOut(b, a) /\ Quieter(b, a)
    BY <1>2, <1>3, EnableTransmitTx, EnableTransmitLemma DEF Kept
  <1>5. PICK f : f = EnableReceive(b, TRUE) /\ IsDriver(f) /\ SameOut(f, b) /\ Quieter(f, b)
    BY <1>4, SwitchTx, EnableReceiveLemma DEF Kept, SameTx
  <1>6. PICK g : g = EnableTransmitInterrupt(f, FALSE) /\ IsDriver(g) /\ SameOut(g, f) /\ Quieter(g, f)
    BY <1>5, SwitchTx, InterruptsLemma DEF Kept, SameTx, SameJob
  <1>7. PICK h : h = EnableTransmitCompleteInterrupt(g, FALSE) /\ IsDriver(h) /\ SameOut(h, g) /\ Quieter(h, g)
    BY <1>6, SwitchTx, InterruptsLemma DEF Kept, SameTx, SameJob
  <1>8. PICK r : r = EnableReceiveInterrupt(h, TRUE) /\ IsDriver(r) /\ SameOut(r, h) /\ Quieter(r, h)
    BY <1>7, SwitchTx, InterruptsLemma DEF Kept, SameTx, SameJob
  <1>9. r = Listen(e)
    BY <1>1, <1>4, <1>5, <1>6, <1>7, <1>8 DEF Listen, Idle
  <1>10. SameOut(r, a) /\ Quieter(r, a)
    <2>1. SameOut(f, a) /\ Quieter(f, a)
      BY <1>4, <1>5 DEF SameOut, SameTask, Quieter
    <2>2. SameOut(g, a) /\ Quieter(g, a)
      BY <1>6, <2>1 DEF SameOut, SameTask, Quieter
    <2>3. SameOut(h, a) /\ Quieter(h, a)
      BY <1>7, <2>2 DEF SameOut, SameTask, Quieter
    <2> QED BY <1>8, <2>3 DEF SameOut, SameTask, Quieter
  <1>11. Holds(r, u) /\ Ready(r)
    BY <1>3, <1>10, SameHolds, SameReady
  <1>12. Unfilled(r, u)
    BY <1>8, <1>11, ReadyUnfilled
  <1> QED BY <1>2, <1>9, <1>10, <1>11, <1>12 DEF SameOut, SameTask, SameKind, Quieter

\* What FMSTR_ProcessSerial does while a response is on its way.
LEMMA ProcessTxSending ==
    ASSUME NEW e, IsDriver(e), NEW g, NEW u, Sending(e, g, u)
    PROVE  LET r == ProcessTx(e)
           IN  /\ \E v : Sending(r, g, v) \/ Listening(r, g, v)
               /\ SameKind(r, e)
               /\ (Usb(e) /\ Full(e)) \/ Fresh(e) => ~r.bTxActive \/ Full(r)
               /\ Usb(e) /\ Full(e) /\ e.attach => r.bTxActive
  <1>1. PICK a : a = TxWhileEmpty(e)
    OBVIOUS
  <1>2. PICK v : Sending(a, g, v)
    BY <1>1, TxWhileEmptySending
  <1>3. IsDriver(a) /\ SameKind(a, e) /\ (Usb(e) /\ Full(e) => Full(a))
        /\ (Fresh(e) => IF e.nTxTodo = 0 THEN a = e ELSE Full(a))
    BY <1>1, TxWhileEmptySending
  <1>4. PICK f : f = IF IsTransmitRegEmpty(a) /\ a.nTxTodo = 0 THEN AwaitComplete(a) ELSE a
    OBVIOUS
  <1>5. IsDriver(f) /\ Sending(f, g, v) /\ SameKind(f, a)
    <2>1. CASE IsTransmitRegEmpty(a) /\ a.nTxTodo = 0
      BY <1>2, <1>3, <1>4, <2>1, AwaitSending, AwaitLemma DEF Kept
    <2>2. CASE ~(IsTransmitRegEmpty(a) /\ a.nTxTodo = 0)
      BY <1>2, <1>3, <1>4, <2>2 DEF SameKind, Quieter
    <2> QED BY <2>1, <2>2
  <1>6. PICK h : h = IF f.bTxWaitTC THEN TakeActive(f) ELSE f
    OBVIOUS
  <1>7. IsDriver(h) /\ SameJob(h, f) /\ Holds(h, v) /\ (~Eonce(f) => h = f)
    <2>1. IsDriver(TakeActive(f))
      BY <1>5, TakeActiveLemma DEF Kept
    <2>2. SameJob(f, f)
      BY DEF SameJob, SameTask, Quieter
    <2> QED BY <1>5, <1>6, <2>1, <2>2, TakeActiveTx DEF Sending
  <1>8. Sending(h, g, v)
    <2>1. Roomy(f) => Roomy(h)
      BY <1>7 DEF Roomy, SameJob, SameTask, Usb, Eonce
    <2>2. CASE f.bTxWaitTC
      <3>1. f.nTxTodo = 0
        BY <1>5, <2>2 DEF Sending
      <3> QED BY <1>5, <1>7, <2>1, <3>1, SameSending DEF SameJob
    <2>3. CASE ~f.bTxWaitTC
      BY <1>5, <1>6, <2>3
    <2> QED BY <2>2, <2>3
  <1>9. SameKind(h, e)
    <2>1. SameKind(h, f)
      BY <1>7 DEF SameKind, SameJob, SameTask
    <2> QED BY <1>3, <1>5, <2>1, SameKindAgain
  <1>10. PICK r : r = ProcessTx(e) /\ r = IF h.bTxWaitTC /\ TransmitComplete(h) THEN Listen(h) ELSE h
    BY <1>1, <1>4, <1>6 DEF ProcessTx
  <1>11. CASE h.bTxWaitTC /\ TransmitComplete(h)
    <2>1. Roomy(h) /\ h.nTxTodo = 0 /\ Holds(h, v)
      BY <1>8, <1>11 DEF Sending
    <2>2. Ready(h)
      BY <1>7, <1>11, <2>1, CompleteTx
    <2>3. /\ ~r.bTxActive /\ Holds(r, v) /\ Unfilled(r, v) /\ Ready(r)
          /\ r.answer = h.answer /\ SameKind(r, h)
      BY <1>7, <1>10, <1>11, <2>1, <2>2, ListenTx
    <2>4. Len(g) + Len(v) = Len(h.answer)
      <3>1. PICK at, j : /\ Coded(h.answer, h.buf, at, h.pTxBuff, j) /\ 0 = j - h.pTxBuff
                         /\ Len(g) + Len(v) = at[h.pTxBuff] + 0
        BY <1>8, <2>1 DEF Sending, Sends
      <3>2. PICK i \in Nat : i = h.pTxBuff /\ i = j
        BY <3>1 DEF Coded
      <3> QED BY <3>1, <3>2 DEF Coded
    <2>5. Listening(r, g, v)
      BY <1>8, <2>3, <2>4 DEF Sending, Listening
    <2>6. ~(Usb(e) /\ Full(e) /\ e.attach)
      <3> SUFFICES ASSUME Usb(e), Full(e), e.attach PROVE FALSE
        OBVIOUS
      <3>1. Usb(a) /\ Full(a) /\ a.attach /\ Usb(f) /\ ~Eonce(f)
        BY <1>3, <1>5 DEF SameKind, Usb, Eonce
      <3>2. h = f /\ h.bTxWaitTC /\ ~h.txActive
        BY <1>7, <1>11, <3>1
           DEF TransmitComplete, IsTransmitterActive, UsbIsTransmitterActive, Usb, Eonce
      <3>3. CASE IsTransmitRegEmpty(a) /\ a.nTxTodo = 0
        BY <1>2, <1>3, <1>4, <3>1, <3>2, <3>3, AwaitSending DEF Full
      <3>4. CASE ~(IsTransmitRegEmpty(a) /\ a.nTxTodo = 0)
        BY <1>4, <3>1, <3>2, <3>4 DEF Full
      <3> QED BY <3>3, <3>4
    <2> QED BY <1>9, <1>10, <2>3, <2>5, <2>6, SameKindAgain
  <1>12. CASE ~(h.bTxWaitTC /\ TransmitComplete(h))
    <2>1. r = h /\ h.bTxActive
      BY <1>8, <1>10, <1>12 DEF Sending
    <2>2. ASSUME (Usb(e) /\ Full(e)) \/ Fresh(e) PROVE Full(h)
      <3>1. Usb(a) /\ Usb(f) /\ h = f
        BY <1>3, <1>5, <1>7, <2>2 DEF SameKind, Usb, Eonce, Fresh
      <3>2. h.bTxWaitTC => h.txActive
        BY <1>12, <3>1 DEF TransmitComplete, IsTransmitterActive, UsbIsTransmitterActive, Usb, Eonce
      <3>3. CASE IsTransmitRegEmpty(a) /\ a.nTxTodo = 0
        <4>1. h.bTxWaitTC /\ h.tx = a.tx /\ (Fresh(a) => ~h.txActive)
          BY <1>2, <1>3, <1>4, <3>1, <3>3, AwaitSending
        <4>2. ~Fresh(a)
          BY <3>2, <4>1
        <4>3. Full(a)
          BY <1>3, <2>2, <4>2
        <4> QED BY <3>2, <4>1, <4>3 DEF Full
      <3>4. CASE ~(IsTransmitRegEmpty(a) /\ a.nTxTodo = 0)
        <4>1. h = a
          BY <1>4, <3>1, <3>4
        <4>2. CASE Fresh(e) /\ e.nTxTodo = 0
          <5>1. a = e /\ IsTransmitRegEmpty(a)
            <6>1. a = e
              BY <1>3, <4>2
            <6>2. Len(<<>>) = 0
              BY EmptySeq
            <6>3. e.txEnabled /\ ~e.txActive /\ Len(e.tx) = 0 /\ e.drv = "usb"
              BY <4>2, <6>2 DEF Fresh, Sending, Usb
            <6> QED BY <6>1, <6>3, DeviceAssumption
                    DEF IsTransmitRegEmpty, UsbIsTransmitRegEmpty, UsbMayTransmit, Usb, Eonce
          <5> QED BY <3>4, <4>2, <5>1
        <4> QED BY <1>3, <2>2, <4>1, <4>2
      <3> QED BY <3>3, <3>4
    <2> QED BY <1>8, <1>9, <1>10, <2>1, <2>2
  <1> QED BY <1>11, <1>12
-----------------------------------------------------------------------------
(* The beginning of a response.                                            *)

\* Where the sequences that make s begin and end.
Joined(s, seqs, at, n) ==
    /\ \A q \in 0 .. n : at[q] \in Nat /\ at[q] <= Len(s)
    /\ at[0] = 0 /\ at[n] = Len(s)
    /\ \A q \in 1 .. n : /\ Len(seqs[q]) \in Nat /\ at[q] = at[q - 1] + Len(seqs[q])
                         /\ \A l \in 1 .. Len(seqs[q]) : s[at[q - 1] + l] = seqs[q][l]

LEMMA PlaceLemma ==
    ASSUME NEW x \in Nat, NEW k \in Nat, NEW i \in Nat, x + k <= i, NEW l \in 1 .. k
    PROVE  x + l \in 1 .. i
  OBVIOUS

LEMMA JoinedLemma ==
    ASSUME NEW S, NEW s \in Seq(S), NEW seqs, NEW at, NEW n \in Nat, Joined(s, seqs, at, n),
           seqs[n + 1] \in Seq(S), NEW m \in Nat, m = Len(s) + Len(seqs[n + 1]), NEW bt,
           \A q \in 0 .. n : bt[q] = at[q], bt[n + 1] = m
    PROVE  Joined(s \o seqs[n + 1], seqs, bt, n + 1)
  <1>1. PICK t \in Seq(S), i \in Nat, j \in Nat : t = seqs[n + 1] /\ i = Len(s) /\ j = Len(t) /\ m = i + j
    <2>1. PICK t \in Seq(S) : t = seqs[n + 1]
      OBVIOUS
    <2>2. PICK i \in Nat, j \in Nat : i = Len(s) /\ j = Len(t)
      OBVIOUS
    <2> QED BY <2>1, <2>2
  <1>2. PICK w \in Seq(S) : w = s \o t
    <2>1. s \o t \in Seq(S)
      OBVIOUS
    <2> QED BY <2>1, Zenon
  <1>3. Len(w) = m /\ (\A l \in 1 .. i : w[l] = s[l]) /\ \A l \in 1 .. j : w[i + l] = t[l]
    <2>1. Len(w) = i + j /\ \A l \in 1 .. i : w[l] = s[l]
      BY <1>1, <1>2
    <2>2. \A l \in 1 .. j : w[i + l] = t[l]
      BY <1>1, <1>2
    <2> QED BY <1>1, <2>1, <2>2
  <1>4. \A q \in 0 .. n : bt[q] \in Nat /\ bt[q] <= i
    BY <1>1 DEF Joined
  <1>5. \A q \in 0 .. n + 1 : bt[q] \in Nat /\ bt[q] <= Len(w)
    <2>1. ASSUME NEW q \in 0 .. n + 1 PROVE bt[q] \in Nat /\ bt[q] <= m
      <3>1. CASE q = n + 1
        BY <3>1
      <3>2. CASE q # n + 1
        <4>1. q \in 0 .. n
          BY <3>2
        <4>2. PICK x \in Nat : x = bt[q] /\ x <= i
          BY <1>4, <4>1
        <4> QED BY <1>1, <4>2
      <3> QED BY <3>1, <3>2
    <2> QED BY <1>3, <2>1
  <1>6. ASSUME NEW q \in 1 .. n + 1
        PROVE  /\ Len(seqs[q]) \in Nat /\ bt[q] = bt[q - 1] + Len(seqs[q])
               /\ \A l \in 1 .. Len(seqs[q]) : w[bt[q - 1] + l] = seqs[q][l]
    <2>1. CASE q = n + 1
      <3>1. bt[q - 1] = i
        <4>1. q - 1 = n /\ n \in 0 .. n
          BY <2>1
        <4> QED BY <1>1, <4>1 DEF Joined
      <3> QED BY <1>1, <1>3, <2>1, <3>1
    <2>2. CASE q # n + 1
      <3>1. q \in 1 .. n /\ q \in 0 .. n /\ q - 1 \in 0 .. n
        BY <2>2
      <3>2. /\ Len(seqs[q]) \in Nat /\ bt[q] = bt[q - 1] + Len(seqs[q])
            /\ \A l \in 1 .. Len(seqs[q]) : s[bt[q - 1] + l] = seqs[q][l]
        BY <3>1 DEF Joined
      <3>3. PICK x \in Nat, y \in Nat : x = bt[q - 1] /\ y = bt[q] /\ y <= i
        BY <1>4, <3>1
      <3>4. ASSUME NEW l \in 1 .. Len(seqs[q]) PROVE x + l \in 1 .. i
        <4>1. PICK k \in Nat : k = Len(seqs[q])
          BY <3>2
        <4>2. l \in 1 .. k /\ y = x + k
          BY <3>2, <3>3, <4>1
        <4>3. x + k <= i
          BY <3>3, <4>2
        <4> QED BY <4>2, <4>3, PlaceLemma
      <3> QED BY <1>3, <3>2, <3>3, <3>4
    <2> QED BY <2>1, <2>2
  <1>7. bt[0] = 0
    <2>1. 0 \in 0 .. n
      OBVIOUS
    <2> QED BY <2>1 DEF Joined
  <1> QED BY <1>1, <1>2, <1>3, <1>5, <1>6, <1>7 DEF Joined

LEMMA FlattenJoined ==
    ASSUME NEW S, NEW seqs, NEW n \in Nat, n # 0, Len(seqs) = n, \A i \in 1 .. n : seqs[i] \in Seq(S)
    PROVE  FlattenSeq(seqs) \in Seq(S) /\ \E at : Joined(FlattenSeq(seqs), seqs, at, n)
  <1>1. PICK f : f = CHOOSE g : g = [i \in 1 .. n |-> IF i = 1 THEN seqs[i] ELSE g[i - 1] \o seqs[i]]
    OBVIOUS
  <1>2. Flattened(f, seqs, n)
    <2>1. PICK g : Flattened(g, seqs, n)
      BY FlattenExists
    <2> QED BY <1>1, <2>1 DEF Flattened
  <1>3. FlattenSeq(seqs) = f[n]
    BY <1>1 DEF FlattenSeq
  <1>4. \A i \in 1 .. n : f[i] = IF i = 1 THEN seqs[i] ELSE f[i - 1] \o seqs[i]
    BY <1>2 DEF Flattened
  <1>5. PICK at : at = [q \in 0 .. n |-> IF q = 0 THEN 0 ELSE Len(f[q])]
    OBVIOUS
  <1> DEFINE Bad == {i \in 1 .. n : ~(f[i] \in Seq(S) /\ Joined(f[i], seqs, at, i))}
  <1>6. Bad \in SUBSET Nat
    OBVIOUS
  <1>7. ASSUME NEW i \in Bad, \A j \in Bad : i <= j PROVE FALSE
    <2>1. CASE i = 1
      <3>1. PICK s \in Seq(S) : s = f[1] /\ s = seqs[1]
        BY <1>4, <1>7, <2>1
      <3>2. PICK m \in Nat : m = Len(s)
        OBVIOUS
      <3>3. at[0] = 0 /\ at[1] = m
        <4>1. 0 \in 0 .. n /\ 1 \in 0 .. n /\ 1 # 0
          BY <1>7, <2>1
        <4> QED BY <1>5, <3>1, <3>2, <4>1
      <3>4. \A q \in 0 .. 1 : at[q] \in Nat /\ at[q] <= m
        <4>1. \A q \in 0 .. 1 : q = 0 \/ q = 1
          OBVIOUS
        <4> QED BY <3>2, <3>3, <4>1
      <3>5. \A q \in 1 .. 1 : q = 1 /\ q - 1 = 0
        OBVIOUS
      <3>6. \A l \in 1 .. m : s[0 + l] = s[l]
        OBVIOUS
      <3>7. Joined(s, seqs, at, 1)
        BY <3>1, <3>2, <3>3, <3>4, <3>5, <3>6 DEF Joined
      <3> QED BY <1>7, <2>1, <3>1, <3>7
    <2>2. CASE i # 1
      <3>1. PICK k \in Nat : k = i - 1 /\ k \in 1 .. n /\ k \notin Bad /\ k + 1 = i /\ i \in 0 .. n /\ i \in 1 .. n
        BY <1>7, <2>2
      <3>2. PICK a \in Seq(S), b \in Seq(S) : a = f[k] /\ b = seqs[i] /\ Joined(a, seqs, at, k)
        BY <1>7, <3>1
      <3>3. PICK x \in Nat, y \in Nat, m \in Nat : x = Len(a) /\ y = Len(b) /\ m = x + y
        <4>1. PICK x \in Nat, y \in Nat : x = Len(a) /\ y = Len(b)
          OBVIOUS
        <4>2. x + y \in Nat
          OBVIOUS
        <4> QED BY <4>1, <4>2
      <3>4. f[i] = a \o b
        BY <1>4, <2>2, <3>1, <3>2
      <3>5. a \o b \in Seq(S) /\ Len(a \o b) = m
        BY <3>3, ConcatLemma
      <3>6. at[i] = m
        <4>1. i # 0
          BY <3>1
        <4> QED BY <1>5, <3>1, <3>4, <3>5, <4>1
      <3>7. Joined(a \o b, seqs, at, i)
        <4>1. seqs[k + 1] = b /\ at[k + 1] = m
          BY <3>1, <3>2, <3>6
        <4>2. Joined(a \o seqs[k + 1], seqs, at, k + 1)
          BY <3>2, <3>3, <4>1, JoinedLemma
        <4> QED BY <3>1, <4>1, <4>2
      <3> QED BY <1>7, <3>4, <3>5, <3>7
    <2> QED BY <2>1, <2>2
  <1> HIDE DEF Bad
  <1>8. Bad = {}
    BY <1>6, <1>7, LeastNat
  <1> QED BY <1>3, <1>8 DEF Bad

\* A frame is in the buffer from cell i on.
Framed(body, n, buf, i) ==
    /\ body \in Seq(Nat) /\ n \in Nat /\ n = Len(body) /\ n # 0 /\ i \in Nat
    /\ (\A q \in 1 .. n : buf[i + q - 1] = Plain(body[q])) /\ buf[i + n] = Check(body)

\* A is u, a start of block, and what the cells of the buffer from i on become.
Follows(A, u, n, buf, i) ==
    /\ A \in Seq(Symbols) /\ Len(u) + 1 <= Len(A)
    /\ (\A l \in 1 .. Len(u) : A[l] = u[l]) /\ A[Len(u) + 1] = Plain(SOB)
    /\ \E at : Coded(A, buf, at, i, i + n + 1) /\ at[i] = Len(u) + 1

LEMMA WireCoded ==
    ASSUME NEW body, NEW n, NEW buf, NEW i, Framed(body, n, buf, i), NEW u \in Seq(Symbols)
    PROVE  Follows(u \o Wire(body), u, n, buf, i)
  <1>0. /\ body \in Seq(Nat) /\ n \in Nat /\ n = Len(body) /\ n # 0 /\ i \in Nat
        /\ (\A q \in 1 .. n : buf[i + q - 1] = Plain(body[q])) /\ buf[i + n] = Check(body)
    BY DEF Framed
  <1> USE <1>0
  <1>1. PICK p : p = [j \in DOMAIN body |-> Plain(body[j])]
    OBVIOUS
  <1>2. p \in Seq(Symbols) /\ Len(p) = n /\ \A j \in 1 .. n : p[j] = Plain(body[j])
    <2>1. DOMAIN body = 1 .. n /\ \A j \in 1 .. n : body[j] \in Nat
      OBVIOUS
    <2>2. \A j \in 1 .. n : Plain(body[j]) \in Symbols
      BY <2>1, SymbolsLemma
    <2> QED BY <1>1, <2>1, <2>2
  <1>3. PICK c \in Symbols : c = Check(body)
    <2>1. body # <<>>
      BY EmptySeq
    <2> QED BY <2>1 DEF Symbols
  <1>4. PICK chars \in Seq(Symbols) : /\ chars = Append(p, c) /\ Len(chars) = n + 1 /\ chars[n + 1] = c
                                      /\ \A j \in 1 .. n : chars[j] = p[j]
    <2>1. PICK s : s = Append(p, c)
      OBVIOUS
    <2>2. s \in Seq(Symbols) /\ Len(s) = n + 1 /\ s[n + 1] = c /\ \A j \in 1 .. n : s[j] = p[j]
      BY <1>2, <2>1, AppendProperties
    <2> QED BY <2>1, <2>2
  <1>5. \A q \in 1 .. n + 1 : buf[i + q - 1] = chars[q] /\ chars[q] \in Symbols
    <2>1. ASSUME NEW q \in 1 .. n + 1 PROVE buf[i + q - 1] = chars[q] /\ chars[q] \in Symbols
      <3>1. CASE q = n + 1
        <4>1. i + q - 1 = i + n
          BY <3>1
        <4> QED BY <1>3, <1>4, <3>1, <4>1
      <3>2. CASE q # n + 1
        <4>1. q \in 1 .. n
          BY <3>2
        <4> QED BY <1>2, <1>4, <4>1, SymbolsLemma
      <3> QED BY <3>1, <3>2
    <2> QED BY <2>1
  <1>6. PICK seqs : seqs = [j \in DOMAIN chars |-> IF chars[j].byte = SOB
                                              THEN <<chars[j], chars[j]>> ELSE <<chars[j]>>]
    OBVIOUS
  <1>7. DOMAIN chars = 1 .. n + 1 /\ Len(seqs) = n + 1
    BY <1>4, <1>6
  <1>8. \A q \in 1 .. n + 1 : /\ seqs[q] \in Seq(Symbols) /\ Len(seqs[q]) = Width(chars[q])
                              /\ \A l \in 1 .. Width(chars[q]) : seqs[q][l] = chars[q]
    <2>1. ASSUME NEW x \in Symbols
          PROVE  /\ <<x>> \in Seq(Symbols) /\ Len(<<x>>) = 1 /\ (\A l \in 1 .. 1 : <<x>>[l] = x)
                 /\ <<x, x>> \in Seq(Symbols) /\ Len(<<x, x>>) = 2 /\ \A l \in 1 .. 2 : <<x, x>>[l] = x
      OBVIOUS
    <2> QED BY <1>5, <1>6, <1>7, <2>1 DEF Width
  <1>9. PICK F \in Seq(Symbols) : F = FlattenSeq(seqs) /\ \E b : Joined(F, seqs, b, n + 1)
    <2>1. PICK N \in Nat : N = n + 1 /\ N # 0
      OBVIOUS
    <2>2. FlattenSeq(seqs) \in Seq(Symbols) /\ \E at : Joined(FlattenSeq(seqs), seqs, at, N)
      BY <1>7, <1>8, <2>1, FlattenJoined
    <2> QED BY <2>1, <2>2
  <1>10. PICK bt : Joined(F, seqs, bt, n + 1)
    BY <1>9
  <1>11. PICK h \in Seq(Symbols) : h = <<Plain(SOB)>> /\ Len(h) = 1 /\ h[1] = Plain(SOB)
    <2>1. PICK x \in Symbols : x = Plain(SOB)
      BY SymbolsLemma
    <2>2. <<x>> \in Seq(Symbols) /\ Len(<<x>>) = 1 /\ <<x>>[1] = x
      OBVIOUS
    <2> QED BY <2>1, <2>2
  <1>12. PICK k \in Nat, m \in Nat : k = Len(u) /\ m = Len(F)
    OBVIOUS
  <1>13. PICK w \in Seq(Symbols) :
            w = h \o F /\ Len(w) = 1 + m /\ w[1] = Plain(SOB) /\ \A l \in 1 .. m : w[1 + l] = F[l]
    <2>1. PICK w : w = h \o F
      OBVIOUS
    <2>2. w \in Seq(Symbols) /\ Len(w) = 1 + m /\ (\A l \in 1 .. 1 : w[l] = h[l]) /\ \A l \in 1 .. m : w[1 + l] = F[l]
      BY <1>11, <1>12, <2>1, ConcatLemma
    <2>3. w[1] = h[1]
      BY <2>2
    <2> QED BY <1>11, <2>1, <2>2, <2>3
  <1>14. PICK A \in Seq(Symbols) : A = u \o w /\ Len(A) = k + (1 + m) /\ (\A l \in 1 .. k : A[l] = u[l])
                                   /\ \A l \in 1 .. 1 + m : A[k + l] = w[l]
    <2>1. PICK A : A = u \o w
      OBVIOUS
    <2>2. PICK x \in Nat : x = 1 + m /\ x = Len(w)
      BY <1>13
    <2>3. u \o w \in Seq(Symbols) /\ Len(u \o w) = k + x /\ (\A l \in 1 .. k : (u \o w)[l] = u[l])
          /\ \A l \in 1 .. x : (u \o w)[k + l] = w[l]
      <3>1. k = Len(u)
        BY <1>12
      <3>2. x = Len(w)
        BY <2>2
      <3> QED BY <3>1, <3>2, ConcatLemma, SMTT(60)
    <2> QED BY <2>1, <2>2, <2>3
  <1>15. Wire(body) = w
    BY <1>1, <1>3, <1>4, <1>6, <1>9, <1>11, <1>13 DEF Wire
  <1>16. PICK at : at = [q \in i .. i + n + 1 |-> k + 1 + bt[q - i]]
    OBVIOUS
  <1>17. ASSUME NEW q \in i .. i + n + 1
         PROVE  /\ q - i \in 0 .. n + 1 /\ bt[q - i] \in Nat /\ at[q] = k + 1 + bt[q - i]
                /\ at[q] \in Nat /\ at[q] <= Len(A)
    <2>1. q - i \in 0 .. n + 1
      OBVIOUS
    <2>2. PICK b \in Nat : b = bt[q - i] /\ b <= m
      BY <1>10, <1>12, <2>1 DEF Joined
    <2>3. at[q] = k + 1 + b
      BY <1>16, <2>2
    <2>4. k + 1 + b \in Nat /\ k + 1 + b <= k + (1 + m)
      <3>1. b <= m
        BY <2>2
      <3> QED BY <3>1
    <2> QED BY <1>14, <2>1, <2>2, <2>3, <2>4
  <1>18. ASSUME NEW q \in i .. (i + n + 1) - 1
         PROVE  /\ buf[q] \in Symbols /\ at[q + 1] = at[q] + Width(buf[q])
                /\ \A l \in at[q] + 1 .. at[q + 1] : A[l] = buf[q]
    <2>1. PICK x \in 1 .. n + 1 : x = q - i + 1 /\ i + x - 1 = q
      <3>1. q - i + 1 \in 1 .. n + 1 /\ i + (q - i + 1) - 1 = q
        OBVIOUS
      <3> QED BY <3>1
    <2>2. q \in i .. i + n + 1 /\ q + 1 \in i .. i + n + 1 /\ q - i = x - 1 /\ (q + 1) - i = x
      BY <2>1
    <2>3. PICK b \in Nat, b2 \in Nat : /\ b = bt[x - 1] /\ b2 = bt[x] /\ b2 <= m
                                       /\ at[q] = k + 1 + b /\ at[q + 1] = k + 1 + b2
      <3>1. x \in 0 .. n + 1
        OBVIOUS
      <3> QED BY <1>10, <1>12, <1>17, <2>2, <3>1 DEF Joined
    <2>4. PICK v \in Nat : v = Width(chars[x]) /\ b2 = b + v /\ \A l \in 1 .. v : F[b + l] = chars[x]
      <3>1. PICK v \in Nat : v = Width(chars[x])
        BY DEF Width
      <3>2. Len(seqs[x]) = v /\ \A l \in 1 .. v : seqs[x][l] = chars[x]
        BY <1>8, <3>1
      <3>3. bt[x] = bt[x - 1] + v /\ \A l \in 1 .. v : F[bt[x - 1] + l] = seqs[x][l]
        BY <1>10, <3>2 DEF Joined
      <3> QED BY <2>3, <3>1, <3>2, <3>3
    <2>5. buf[q] = chars[x] /\ buf[q] \in Symbols
      BY <1>5, <2>1
    <2>6. ASSUME NEW l \in k + 1 + b + 1 .. k + 1 + b2 PROVE A[l] = chars[x]
      <3>1. PICK y \in 1 .. v : y = l - (k + 1 + b)
        <4>1. PICK z \in Nat : z = k + 1 + b
          OBVIOUS
        <4>a. b2 = b + v
          BY <2>4
        <4>2. k + 1 + b2 = z + v
          BY <4>a, <4>1
        <4>3. l \in z + 1 .. z + v
          BY <4>1, <4>2
        <4>4. l - z \in 1 .. v
          BY <4>3
        <4> QED BY <4>1, <4>4
      <3>2. b + y \in 1 .. m
        <4>1. b + v <= m /\ y <= v /\ 1 <= y
          BY <2>3, <2>4
        <4> QED BY <4>1
      <3>3. 1 + (b + y) \in 1 .. 1 + m /\ k + (1 + (b + y)) = l
        BY <3>1, <3>2
      <3>4. A[l] = w[1 + (b + y)] /\ w[1 + (b + y)] = F[b + y]
        BY <1>13, <1>14, <3>2, <3>3
      <3> QED BY <2>4, <3>4
    <2>7. at[q + 1] = at[q] + v
      <3>1. b2 = b + v
        BY <2>4
      <3>2. k + 1 + (b + v) = k + 1 + b + v
        OBVIOUS
      <3> QED BY <2>3, <3>1, <3>2
    <2>8. \A l \in at[q] + 1 .. at[q + 1] : A[l] = buf[q]
      BY <2>3, <2>5, <2>6
    <2> QED BY <2>4, <2>5, <2>7, <2>8
  <1>19. at[i + n + 1] = Len(A) /\ at[i] = k + 1
    <2>1. i \in i .. i + n + 1 /\ i + n + 1 \in i .. i + n + 1 /\ i - i = 0 /\ (i + n + 1) - i = n + 1
      OBVIOUS
    <2>2. bt[0] = 0 /\ bt[n + 1] = m
      BY <1>10, <1>12 DEF Joined
    <2>3. at[i + n + 1] = k + 1 + m /\ at[i] = k + 1 + 0
      BY <1>17, <2>1, <2>2
    <2> QED BY <1>14, <2>3
  <1>20. Coded(A, buf, at, i, i + n + 1)
    <2>1. PICK j \in Nat : j = i + n + 1 /\ i <= j
      <3>1. i + n + 1 \in Nat /\ i <= i + n + 1
        OBVIOUS
      <3> QED BY <3>1
    <2>2. i \in Nat /\ at[j] = Len(A)
      BY <1>19, <2>1
    <2>3. \A q \in i .. j : at[q] \in Nat /\ at[q] <= Len(A)
      BY <1>17, <2>1
    <2>4. \A q \in i .. j - 1 :
             /\ buf[q] \in Symbols /\ at[q + 1] = at[q] + Width(buf[q])
             /\ \A l \in at[q] + 1 .. at[q + 1] : A[l] = buf[q]
      BY <1>18, <2>1
    <2>5. Coded(A, buf, at, i, j)
      BY <2>1, <2>2, <2>3, <2>4, Zenon DEF Coded
    <2> QED BY <2>1, <2>5
  <1>21. A[k + 1] = Plain(SOB)
    <2>1. 1 \in 1 .. 1 + m
      OBVIOUS
    <2> QED BY <1>13, <1>14, <2>1
  <1>22. A = u \o Wire(body) /\ at[i] = Len(u) + 1 /\ Len(u) + 1 <= Len(A)
    BY <1>12, <1>14, <1>15, <1>19
  <1>23. Follows(A, u, n, buf, i)
    BY <1>12, <1>14, <1>20, <1>21, <1>22 DEF Follows
  <1> QED BY <1>22, <1>23

\* The data of a response are in the buffer.
InBuffer(buf, data, n) ==
    /\ DOMAIN buf = 0 .. BufEnd /\ data \in Seq(Nat) /\ n \in Nat /\ n = Len(data) /\ n + 2 <= BufEnd
    /\ \A i \in 1 .. n : buf[i + 1] = Plain(data[i])

\* The status, and the length with it, lie before the data, the checksum behind.
Headed(buf, n, st, start, todo, head, body, cells) ==
    /\ start = (IF VarLen(st) THEN 0 ELSE 1) /\ todo = n + 3 - start
    /\ head = (IF VarLen(st) THEN [buf EXCEPT ![0] = Plain(st), ![1] = Plain(n)]
                             ELSE [buf EXCEPT ![1] = Plain(st)])
    /\ body = [i \in 1 .. todo - 1 |-> head[start + i - 1].byte]
    /\ cells = [head EXCEPT ![start + todo - 1] = Check(body)]

LEMMA HeadLemma ==
    ASSUME NEW buf, NEW data, NEW n, InBuffer(buf, data, n), NEW st \in Nat,
           NEW start, NEW todo, NEW head, NEW body, NEW cells,
           Headed(buf, n, st, start, todo, head, body, cells)
    PROVE  Framed(body, todo - 1, cells, start) /\ WireOfAnswer(st, data) = Wire(body)
  <1>a. BufEnd \in Nat
    BY SerialAssumption DEF BufEnd
  <1>0. /\ DOMAIN buf = 0 .. BufEnd /\ data \in Seq(Nat) /\ n \in Nat /\ n = Len(data) /\ n + 2 <= BufEnd
        /\ \A i \in 1 .. n : buf[i + 1] = Plain(data[i])
        /\ start = (IF VarLen(st) THEN 0 ELSE 1) /\ todo = n + 3 - start
        /\ head = (IF VarLen(st) THEN [buf EXCEPT ![0] = Plain(st), ![1] = Plain(n)]
                                 ELSE [buf EXCEPT ![1] = Plain(st)])
        /\ body = [i \in 1 .. todo - 1 |-> head[start + i - 1].byte]
        /\ cells = [head EXCEPT ![start + todo - 1] = Check(body)]
    BY DEF InBuffer, Headed
  <1> USE <1>0
  <1>1. start \in {0, 1} /\ start + todo = n + 3
    OBVIOUS
  <1>2. PICK w : w = IF VarLen(st) THEN <<st, n>> \o data ELSE <<st>> \o data
    OBVIOUS
  <1>3. w \in Seq(Nat) /\ Len(w) = todo - 1 /\ \A q \in 1 .. todo - 1 : head[start + q - 1] = Plain(w[q])
    <2>1. BufEnd \in Nat
      BY <1>a, Zenon
    <2>2. CASE VarLen(st)
      <3>1. PICK h \in Seq(Nat) : h = <<st, n>> /\ Len(h) = 2 /\ h[1] = st /\ h[2] = n
        <4>1. PICK h : h = <<st, n>>
          OBVIOUS
        <4>2. h \in Seq(Nat) /\ Len(h) = 2 /\ h[1] = st /\ h[2] = n
          BY <4>1
        <4> QED BY <4>1, <4>2
      <3>2. w \in Seq(Nat) /\ Len(w) = 2 + n /\ (\A q \in 1 .. 2 : w[q] = h[q]) /\ \A q \in 1 .. n : w[2 + q] = data[q]
        <4>1. w = h \o data
          BY <1>2, <2>2, <3>1
        <4> QED BY <3>1, <4>1, ConcatLemma, SMTT(60)
      <3>3. head[0] = Plain(st) /\ head[1] = Plain(n) /\ \A k \in 2 .. BufEnd : head[k] = buf[k]
        <4>1. PICK a, b : a = Plain(st) /\ b = Plain(n)
          OBVIOUS
        <4>2. 0 \in 0 .. BufEnd /\ 1 \in 0 .. BufEnd /\ \A k \in 2 .. BufEnd : k \in 0 .. BufEnd /\ k # 0 /\ k # 1
          BY <2>1
        <4>3. head = [buf EXCEPT ![0] = a, ![1] = b]
          BY <2>2, <4>1
        <4>4. head[0] = a /\ head[1] = b /\ \A k \in 2 .. BufEnd : head[k] = buf[k]
          BY <4>2, <4>3
        <4> QED BY <4>1, <4>4
      <3>4. ASSUME NEW q \in 1 .. 2 + n PROVE head[q - 1] = Plain(w[q])
        <4>1. CASE q = 1 \/ q = 2
          <5>1. w[1] = st /\ w[2] = n
            BY <3>1, <3>2
          <5>2. 1 - 1 = 0 /\ 2 - 1 = 1
            OBVIOUS
          <5> QED BY <3>3, <4>1, <5>1, <5>2
        <4>2. CASE q # 1 /\ q # 2
          <5>1. PICK k \in 1 .. n : k = q - 2 /\ 2 + k = q /\ k + 1 = q - 1 /\ k + 1 \in 2 .. BufEnd
            <6>1. q - 2 \in 1 .. n
              BY <4>2
            <6>2. (q - 2) + 1 \in 2 .. BufEnd
              BY <2>1, <6>1
            <6> QED BY <6>1, <6>2
          <5>2. head[k + 1] = buf[k + 1] /\ buf[k + 1] = Plain(data[k]) /\ w[2 + k] = data[k]
            BY <3>2, <3>3, <5>1
          <5> QED BY <5>1, <5>2, Zenon
        <4> QED BY <4>1, <4>2
      <3>5. start = 0 /\ todo - 1 = 2 + n
        BY <2>2
      <3>6. ASSUME NEW q \in 1 .. todo - 1 PROVE head[start + q - 1] = Plain(w[q])
        <4>1. q \in 1 .. 2 + n
          BY <3>5
        <4>2. start + q - 1 = q - 1
          BY <3>5
        <4>3. head[q - 1] = Plain(w[q])
          BY <3>4, <4>1
        <4> QED BY <4>2, <4>3, Zenon
      <3> QED BY <3>2, <3>5, <3>6
    <2>3. CASE ~VarLen(st)
      <3>1. PICK h \in Seq(Nat) : h = <<st>> /\ Len(h) = 1 /\ h[1] = st
        <4>1. PICK h : h = <<st>>
          OBVIOUS
        <4>2. h \in Seq(Nat) /\ Len(h) = 1 /\ h[1] = st
          BY <4>1
        <4> QED BY <4>1, <4>2
      <3>2. w \in Seq(Nat) /\ Len(w) = 1 + n /\ (\A q \in 1 .. 1 : w[q] = h[q]) /\ \A q \in 1 .. n : w[1 + q] = data[q]
        <4>1. w = h \o data
          BY <1>2, <2>3, <3>1
        <4> QED BY <3>1, <4>1, ConcatLemma, SMTT(60)
      <3>3. head[1] = Plain(st) /\ \A k \in 2 .. BufEnd : head[k] = buf[k]
        BY <2>1, <2>3
      <3>4. ASSUME NEW q \in 1 .. 1 + n PROVE head[q] = Plain(w[q])
        <4>1. CASE q = 1
          <5>1. w[1] = st
            BY <3>1, <3>2
          <5> QED BY <3>3, <4>1, <5>1
        <4>2. CASE q # 1
          <5>1. PICK k \in 1 .. n : k = q - 1 /\ 1 + k = q /\ k + 1 = q /\ k + 1 \in 2 .. BufEnd
            <6>1. q - 1 \in 1 .. n
              BY <4>2
            <6>2. (q - 1) + 1 \in 2 .. BufEnd
              BY <2>1, <6>1
            <6> QED BY <6>1, <6>2
          <5>2. head[k + 1] = buf[k + 1] /\ buf[k + 1] = Plain(data[k]) /\ w[1 + k] = data[k]
            BY <3>2, <3>3, <5>1
          <5> QED BY <5>1, <5>2, Zenon
        <4> QED BY <4>1, <4>2
      <3>5. start = 1 /\ todo - 1 = 1 + n
        BY <2>3
      <3>6. ASSUME NEW q \in 1 .. todo - 1 PROVE head[start + q - 1] = Plain(w[q])
        <4>1. q \in 1 .. 1 + n
          BY <3>5
        <4>2. start + q - 1 = q
          BY <3>5
        <4>3. head[q] = Plain(w[q])
          BY <3>4, <4>1
        <4> QED BY <4>2, <4>3, Zenon
      <3> QED BY <3>2, <3>5, <3>6
    <2> QED BY <2>2, <2>3
  <1>4. PICK m \in Nat : m = todo - 1 /\ m # 0 /\ start + m = n + 2
    BY <1>1
  <1>5. body = w
    <2>1. IsSequence(w, m) /\ m = Len(w)
      BY <1>3, <1>4, ElementsLemma
    <2>2. \A q \in 1 .. m : head[start + q - 1].byte = w[q]
      <3>1. \A b : Plain(b).byte = b
        BY DEF Plain
      <3>2. \A q \in 1 .. m : head[start + q - 1] = Plain(w[q])
        BY <1>3, <1>4
      <3> QED BY <3>1, <3>2
    <2>3. w = [q \in 1 .. m |-> w[q]]
      BY <2>1 DEF IsSequence
    <2> QED BY <1>4, <2>2, <2>3
  <1>6. WireOfAnswer(st, data) = Wire(w)
    BY <1>2 DEF WireOfAnswer
  <1>7. start + todo - 1 = n + 2 /\ start + m = n + 2
    BY <1>1, <1>4
  <1>8. cells[n + 2] = Check(body) /\ \A k \in 0 .. BufEnd : k # n + 2 => cells[k] = head[k]
    <2>1. n + 2 \in 0 .. BufEnd /\ DOMAIN head = 0 .. BufEnd
      BY SerialAssumption DEF BufEnd
    <2> QED BY <1>7, <2>1
  <1>9. ASSUME NEW q \in 1 .. m PROVE cells[start + q - 1] = Plain(body[q])
    <2>1. start + q - 1 \in 0 .. BufEnd /\ start + q - 1 # n + 2
      <3>1. start \in Nat /\ start + m = n + 2 /\ q <= m /\ 1 <= q
        BY <1>1, <1>7
      <3>2. BufEnd \in Nat /\ n + 2 <= BufEnd
        BY <1>a
      <3> QED BY <3>1, <3>2
    <2>2. head[start + q - 1] = Plain(w[q])
      BY <1>3, <1>4
    <2> QED BY <1>5, <1>8, <2>1, <2>2
  <1>10. cells[start + m] = Check(body)
    BY <1>7, <1>8
  <1>11. Framed(body, m, cells, start)
    BY <1>1, <1>3, <1>4, <1>5, <1>9, <1>10 DEF Framed
  <1> QED BY <1>4, <1>5, <1>6, <1>11

\* The device gives no more of what it had received when a response was begun.
Muted(e) ==
    /\ Usb(e) => ~e.rxOn
    /\ e.drv = "zephyr" /\ Interrupts(e) => ~e.rxInt
    /\ e.drv = "linflexd" => e.fifo = <<>>
    /\ Eonce(e) => e.rx = <<>>

\* The response begins with u, which is still in the device, and is in the buffer.
Prepared(e, u) ==
    /\ Holds(e, u) /\ Ready(e) /\ e.bTxActive /\ ~e.bTxLastCharSOB /\ ~e.bTxWaitTC
    /\ \E m \in Int : e.nTxTodo = m + 1 /\ Follows(e.answer, u, m, e.buf, e.pTxBuff)

LEMMA StartSending ==
    ASSUME NEW e, IsDriver(e), NEW u, Prepared(e, u)
    PROVE  LET r == StartBlock(e)
           IN  /\ \E v : Sending(r, <<>>, v)
               /\ SameKind(r, e) /\ Muted(r) /\ r.bRxLastCharSOB = e.bRxLastCharSOB
               /\ Usb(e) => Full(r)
  <1>a. PICK at, j :
           /\ Coded(e.answer, e.buf, at, e.pTxBuff, j) /\ e.nTxTodo = j - e.pTxBuff
           /\ at[e.pTxBuff] = Len(u) + 1 /\ e.answer \in Seq(Symbols) /\ Len(u) + 1 <= Len(e.answer)
           /\ (\A l \in 1 .. Len(u) : e.answer[l] = u[l]) /\ e.answer[Len(u) + 1] = Plain(SOB)
    <2>1. PICK m \in Int : e.nTxTodo = m + 1 /\ Follows(e.answer, u, m, e.buf, e.pTxBuff)
      BY DEF Prepared
    <2>2. PICK i, j, at : i = e.pTxBuff /\ j = i + m + 1 /\ Coded(e.answer, e.buf, at, i, j) /\ at[i] = Len(u) + 1
      BY <2>1 DEF Follows
    <2>3. i \in Nat
      BY <2>2 DEF Coded
    <2>4. e.nTxTodo = j - i
      BY <2>1, <2>2, <2>3
    <2> QED BY <2>1, <2>2, <2>4 DEF Follows
  <1>b. Holds(e, u) /\ Ready(e) /\ e.bTxActive /\ ~e.bTxLastCharSOB /\ ~e.bTxWaitTC
    BY DEF Prepared
  <1> USE <1>a, <1>b
  <1>1. PICK a : a = EnableReceive(e, FALSE) /\ IsDriver(a) /\ SameTx(a, e) /\ Quieter(a, e)
    BY SwitchTx, EnableReceiveLemma DEF Kept
  <1>2. (Usb(e) => ~a.rxOn) /\ (Eonce(e) => a.rx = <<>>)
    BY <1>1 DEF EnableReceive, EonceEnableReceive, UsbEnableRx, Usb, Eonce, IsDriver, Drivers
  <1>3. PICK b : b = EnableTransmit(a, TRUE) /\ IsDriver(b)
    BY <1>1, EnableTransmitLemma DEF Kept
  <1>4. SameOut(b, a) /\ Quieter(b, a) /\ b.rxOn = a.rxOn /\ (Usb(a) => b.txEnabled)
    BY <1>1, <1>3, EnableTransmitTx
  <1>5. SameOut(b, e) /\ Quieter(b, e) /\ (Usb(e) => ~b.rxOn /\ b.txEnabled) /\ (Eonce(e) => b.rx = <<>>)
    BY <1>1, <1>2, <1>4 DEF SameTx, SameOut, SameTask, Quieter, Usb, Eonce
  <1>6. Holds(b, u) /\ Ready(b)
    BY <1>5, SameHolds, SameReady
  <1>7. Unfilled(b, u)
    BY <1>3, <1>6, ReadyUnfilled
  <1>8. CanTake(b)
    <2>1. Len(<<>>) = 0
      BY EmptySeq
    <2> QED BY <1>6, <2>1, DeviceAssumption DEF Ready, Roomy, CanTake, TxDepth, Word, Usb, Eonce
  <1>9. TakeTransmitReg(b) = b
    BY <1>3, <1>6, <1>8, TakeTransmitTx
  <1>10. PICK c \in Symbols : c = Plain(SOB)
    BY SymbolsLemma
  <1>11. PICK v : v = Append(u, c)
    OBVIOUS
  <1>12. PICK f : f = PutChar(b, c) /\ IsDriver(f)
    BY <1>3, PutCharLemma DEF Kept
  <1>13. SameJob(f, b) /\ Holds(f, v) /\ Unfilled(f, v) /\ (Usb(b) => f.tx # <<>>)
    BY <1>3, <1>6, <1>7, <1>8, <1>11, <1>12, PutTx
  <1>14. e.drv = "linflexd" => f.fifo = <<>>
    <2>1. b.drv = e.drv
      BY <1>5 DEF SameOut, SameTask
    <2> QED BY <1>3, <1>12, <2>1 DEF PutChar, LinflexdPutChar, IsDriver, Usb, Eonce
  <1>15. PICK h : h = EnableReceiveInterrupt(f, FALSE) /\ IsDriver(h) /\ SameTx(h, f) /\ SameJob(h, f)
    BY <1>12, SwitchTx, InterruptsLemma DEF Kept
  <1>16. f.drv = "zephyr" /\ Interrupts(f) => ~h.rxInt
    BY <1>12, <1>15 DEF EnableReceiveInterrupt, ZephyrEnableReceiveInterrupt, IsDriver, Usb, Eonce
  <1>17. PICK r : r = EnableTransmitInterrupt(h, TRUE) /\ SameTx(r, h) /\ SameJob(r, h) /\ r.rxInt = h.rxInt
    BY <1>15, SwitchTx
  <1>18. r = StartBlock(e)
    BY <1>1, <1>3, <1>9, <1>10, <1>12, <1>15, <1>17 DEF StartBlock
  <1>19. SameTx(r, f) /\ SameJob(r, f) /\ r.rxInt = h.rxInt
    <2>1. SameTask(r, f)
      BY <1>15, <1>17 DEF SameTx, SameOut, SameTask
    <2>2. SameTx(r, f)
      BY <1>15, <1>17, <2>1 DEF SameTx, SameOut
    <2>3. Quieter(r, f)
      BY <1>15, <1>17 DEF SameJob, Quieter
    <2>4. SameJob(r, f)
      BY <1>15, <1>17, <2>1, <2>3 DEF SameJob
    <2> QED BY <1>17, <2>2, <2>4
  <1>20. SameTask(r, e) /\ Quieter(r, e)
    BY <1>5, <1>13, <1>19 DEF SameTx, SameOut, SameJob, SameTask, Quieter
  <1>21. Muted(r)
    BY <1>5, <1>13, <1>14, <1>16, <1>19 DEF Muted, SameTx, SameOut, SameJob, SameTask, Quieter, Usb, Eonce, Interrupts
  <1>22. Holds(r, v) /\ Unfilled(r, v) /\ (Usb(e) => r.txEnabled /\ r.tx # <<>>)
    <2>1. Usb(b) = Usb(e) /\ f.txEnabled = b.txEnabled /\ r.txEnabled = f.txEnabled /\ r.tx = f.tx
      BY <1>5, <1>13, <1>19 DEF SameTx, SameOut, SameJob, SameTask, Usb
    <2> QED BY <1>5, <1>13, <1>19, <2>1, SameHolds DEF SameTx
  <1>23. PICK m \in Nat : m = Len(u) /\ u \in Seq(Symbols)
    BY DEF Holds
  <1>24. v \in Seq(Symbols) /\ Len(v) = m + 1 /\ v[m + 1] = c /\ \A l \in 1 .. m : v[l] = u[l]
    BY <1>11, <1>23, AppendProperties
  <1>25. Shown(<<>>, v, e.answer)
    <2>1. <<>> \in Seq(Symbols) /\ Len(<<>>) = 0
      BY EmptySeq
    <2>2. ASSUME NEW l \in 1 .. m + 1 PROVE e.answer[0 + l] = v[l]
      <3>1. 0 + l = l
        OBVIOUS
      <3>2. e.answer[l] = v[l]
        <4>1. CASE l = m + 1
          BY <1>10, <1>23, <1>24, <4>1
        <4>2. CASE l # m + 1
          <5>1. l \in 1 .. m
            BY <4>2
          <5> QED BY <1>23, <1>24, <5>1
        <4> QED BY <4>1, <4>2
      <3> QED BY <3>1, <3>2
    <2>3. 0 + Len(v) <= Len(e.answer)
      BY <1>23, <1>24
    <2> QED BY <1>24, <2>1, <2>2, <2>3 DEF Shown
  <1>26. Sends(r, Len(<<>>) + Len(v))
    <2>1. Len(<<>>) = 0
      BY EmptySeq
    <2>2. PICK x : x = at[e.pTxBuff] /\ x = m + 1
      BY <1>23
    <2>3. 0 + Len(v) = x + 0
      BY <1>24, <2>2
    <2>4. /\ r.answer = e.answer /\ r.buf = e.buf /\ r.pTxBuff = e.pTxBuff /\ r.nTxTodo = e.nTxTodo
          /\ ~r.bTxLastCharSOB
      BY <1>20 DEF SameTask
    <2> QED BY <2>1, <2>2, <2>3, <2>4 DEF Sends
  <1>27. Sending(r, <<>>, v)
    BY <1>20, <1>22, <1>25, <1>26 DEF Sending, SameTask, Usb
  <1> QED BY <1>18, <1>20, <1>21, <1>22, <1>27 DEF SameTask, SameKind, Full

\* What a routine does that may begin a response.
Begun(r, e) ==
    /\ \E v : Sending(r, <<>>, v)
    /\ SameKind(r, e) /\ Muted(r) /\ r.bRxLastCharSOB = e.bRxLastCharSOB
    /\ r.nRxTodo \in {e.nRxTodo, 0} /\ r.bRxMsgLengthNext = e.bRxMsgLengthNext
    /\ Usb(e) => Full(r)

LEMMA SendSending ==
    ASSUME NEW e, IsDriver(e), NEW g, NEW u, Listening(e, g, u),
           NEW data, NEW length, InBuffer(e.buf, data, length), NEW status \in Nat
    PROVE  Begun(SendResponse(e, length, status), e)
  <1> DEFINE fits  == length <= Size8 - 4
             k     == IF fits THEN length ELSE 0
             st    == IF fits THEN status ELSE RspBuffOvf
             start == IF VarLen(st) THEN 0 ELSE 1
             todo  == k + 3 - start
             head  == IF VarLen(st) THEN [e.buf EXCEPT ![0] = Plain(st), ![1] = Plain(k)]
                                    ELSE [e.buf EXCEPT ![1] = Plain(st)]
             body  == [i \in 1 .. todo - 1 |-> head[start + i - 1].byte]
             sent  == [i \in 1 .. k |-> e.buf[i + 1].byte]
             answer == Unsent(e) \o WireOfAnswer(st, sent)
             cells == [head EXCEPT ![start + todo - 1] = Check(body)]
             ready == [e EXCEPT !.answer = IF e.bTxActive THEN @ ELSE Unsent(e) \o WireOfAnswer(st, sent),
                                !.buf = [head EXCEPT ![start + todo - 1] = Check(body)],
                                !.pTxBuff = start, !.nTxTodo = todo, !.crc = body,
                                !.bTxActive = TRUE, !.bTxWaitTC = FALSE, !.bTxLastCharSOB = FALSE]
  <1>1. SendResponse(e, length, status) = StartBlock(ready)
    BY DEF SendResponse
  <1>2. PICK a, b, p, t, c : a = answer /\ b = cells /\ p = start /\ t = todo /\ c = body
    OBVIOUS
  <1>3. PICK r : r = [e EXCEPT !.answer = a, !.buf = b, !.pTxBuff = p, !.nTxTodo = t, !.crc = c,
                               !.bTxActive = TRUE, !.bTxWaitTC = FALSE, !.bTxLastCharSOB = FALSE]
    OBVIOUS
  <1>4. r = ready
    BY <1>2, <1>3 DEF IsDriver, Listening
  <1>5. PICK n, s \in Nat, w \in Seq(Nat) : n = k /\ s = st /\ w = sent /\ InBuffer(e.buf, w, n)
    <2>1. PICK y \in Nat : y = st
      BY SerialAssumption
    <2>2. PICK m \in Nat, z \in Seq(Nat) : z = data /\ m = length /\ IsSequence(z, m) /\ InBuffer(e.buf, z, m)
      BY ElementsLemma DEF InBuffer
    <2>3. \A x : Plain(x).byte = x
      BY DEF Plain
    <2>4. CASE fits
      <3>1. [i \in 1 .. m |-> e.buf[i + 1].byte] = z
        <4>1. \A i \in 1 .. m : e.buf[i + 1].byte = z[i]
          BY <2>2, <2>3 DEF InBuffer
        <4>2. z = [i \in 1 .. m |-> z[i]]
          BY <2>2 DEF IsSequence
        <4> QED BY <4>1, <4>2
      <3>2. k = m /\ sent = z
        BY <2>2, <2>4, <3>1
      <3> HIDE DEF sent, st, fits, k
      <3> QED BY <2>1, <2>2, <3>2
    <2>5. CASE ~fits
      <3>1. k = 0 /\ sent = <<>>
        BY <2>5
      <3>2. PICK none \in Seq(Nat) : none = <<>> /\ Len(none) = 0
        BY EmptySeq
      <3>3. 0 + 2 <= BufEnd
        BY SerialAssumption DEF BufEnd
      <3>4. DOMAIN e.buf = 0 .. BufEnd
        BY DEF InBuffer
      <3>5. InBuffer(e.buf, none, 0)
        <4>1. \A i \in 1 .. 0 : e.buf[i + 1] = Plain(none[i])
          OBVIOUS
        <4> QED BY <3>2, <3>3, <3>4, <4>1 DEF InBuffer
      <3> HIDE DEF sent, st, fits, k
      <3> QED BY <2>1, <3>1, <3>2, <3>5
    <2> QED BY <2>4, <2>5
  <1>6. PICK hd : hd = head
    OBVIOUS
  <1>7. Headed(e.buf, n, s, p, t, hd, c, b) /\ a = Unsent(e) \o WireOfAnswer(s, w)
    BY <1>2, <1>5, <1>6 DEF Headed
  <1> HIDE DEF fits, k, st, start, todo, head, body, sent, answer, cells, ready
  <1>8. Framed(c, t - 1, b, p) /\ WireOfAnswer(s, w) = Wire(c)
    BY <1>5, <1>7, HeadLemma
  <1>9. u \in Seq(Symbols) /\ Unsent(e) = u
    BY UnsentLemma DEF Listening, Holds
  <1>10. Follows(a, u, t - 1, b, p)
    BY <1>7, <1>8, <1>9, WireCoded
  <1>11. /\ IsDriver(r) /\ r.drv = e.drv /\ r.mode = e.mode /\ r.attach = e.attach
         /\ r.fifo = e.fifo /\ r.rx = e.rx /\ r.bRxLastCharSOB = e.bRxLastCharSOB
         /\ r.nRxTodo = e.nRxTodo /\ r.bRxMsgLengthNext = e.bRxMsgLengthNext
         /\ r.out = e.out /\ r.tx = e.tx /\ r.txActive = e.txActive /\ r.dtf = e.dtf
    BY <1>3 DEF IsDriver
  <1>12. /\ r.answer = a /\ r.buf = b /\ r.pTxBuff = p /\ r.nTxTodo = t /\ r.bTxActive
         /\ ~r.bTxWaitTC /\ ~r.bTxLastCharSOB
    BY <1>3 DEF IsDriver
  <1>13. Holds(r, u) /\ Ready(r)
    BY <1>11 DEF Listening, Holds, HoldsUart, HoldsUsb, HoldsEonce, Ready, Roomy, Uart, Usb, Eonce
  <1>14. Prepared(r, u)
    <2>1. t - 1 \in Int /\ t = (t - 1) + 1
      <3>1. p \in {0, 1} /\ n \in Nat /\ t = n + 3 - p
        BY <1>5, <1>7 DEF Headed, InBuffer
      <3> QED BY <3>1
    <2>2. Follows(r.answer, u, t - 1, r.buf, r.pTxBuff)
      BY <1>10, <1>12
    <2> QED BY <1>12, <1>13, <2>1, <2>2 DEF Prepared
  <1>15. LET x == StartBlock(r)
         IN  /\ \E v : Sending(x, <<>>, v)
             /\ SameKind(x, r) /\ Muted(x) /\ x.bRxLastCharSOB = r.bRxLastCharSOB
             /\ Usb(r) => Full(x)
    BY <1>11, <1>14, StartSending
  <1>16. SameRx(StartBlock(r), r)
    BY <1>11, StartBlockLemma DEF Kept
  <1>17. PICK x : x = StartBlock(r) /\ x = SendResponse(e, length, status)
    BY <1>1, <1>4
  <1>18. (\E v : Sending(x, <<>>, v)) /\ Muted(x) /\ (Usb(e) => Full(x)) /\ x.bRxLastCharSOB = e.bRxLastCharSOB
    BY <1>11, <1>15, <1>17 DEF Usb
  <1>19. SameKind(x, e) /\ x.nRxTodo \in {e.nRxTodo, 0} /\ x.bRxMsgLengthNext = e.bRxMsgLengthNext
    <2>1. SameKind(x, r) /\ SameRx(x, r)
      BY <1>15, <1>16, <1>17
    <2> QED BY <1>11, <2>1 DEF SameKind, SameRx, Quieter
  <1> QED BY <1>17, <1>18, <1>19 DEF Begun

LEMMA AnswerLemma ==
    ASSUME NEW i \in DOMAIN Requests
    PROVE  /\ Requests[i].status \in Nat /\ Requests[i].data \in Seq(Nat)
           /\ Len(Requests[i].data) \in Nat /\ Len(Requests[i].data) + 2 <= BufEnd
  <1>1. PICK R : R = [cmd : Byte, args : Seq(Byte), status : Byte, data : Seq(Byte)]
    OBVIOUS
  <1>2. Requests \in Seq(R)
    BY <1>1, RequestsAssumption
  <1>3. Requests[i] \in R
    BY <1>2
  <1>4. Byte \subseteq Nat
    BY SerialAssumption DEF Byte
  <1>5. Requests[i].status \in Byte /\ Requests[i].data \in Seq(Byte)
    BY <1>1, <1>3
  <1>6. PICK s \in Seq(Nat) : s = Requests[i].data
    BY <1>4, <1>5, SeqSubset
  <1>7. Len(s) \in Nat
    OBVIOUS
  <1> QED BY <1>4, <1>5, <1>6, <1>7, RequestsAssumption

\* r sends what e does.
SameSender(r, e) ==
    /\ IsDriver(r) /\ r.drv = e.drv /\ r.mode = e.mode /\ r.attach = e.attach /\ r.fifo = e.fifo /\ r.rx = e.rx
    /\ r.bTxActive = e.bTxActive /\ r.answer = e.answer
    /\ r.out = e.out /\ r.tx = e.tx /\ r.txActive = e.txActive /\ r.dtf = e.dtf

LEMMA SameListening ==
    ASSUME NEW e, NEW r, NEW g, NEW u, Listening(e, g, u), SameSender(r, e)
    PROVE  Listening(r, g, u) /\ SameKind(r, e)
  BY DEF SameSender, Listening, Holds, HoldsUart, HoldsUsb, HoldsEonce, Unfilled, Ready, Roomy, Uart, Usb, Eonce,
         SameKind, Quieter

LEMMA ErrorSending ==
    ASSUME NEW e, IsDriver(e), NEW g, NEW u, Listening(e, g, u), DOMAIN e.buf = 0 .. BufEnd, NEW code \in Nat
    PROVE  Begun(SendError(e, code), e)
  <1>1. PICK s \in Seq(Nat) : s = <<>> /\ Len(s) = 0
    BY EmptySeq
  <1>2. 0 + 2 <= BufEnd
    BY SerialAssumption DEF BufEnd
  <1>3. \A i \in 1 .. 0 : e.buf[i + 1] = Plain(s[i])
    OBVIOUS
  <1>4. InBuffer(e.buf, s, 0)
    BY <1>1, <1>2, <1>3 DEF InBuffer
  <1> QED BY <1>4, SendSending DEF SendError

LEMMA DecoderSending ==
    ASSUME NEW e, IsDriver(e), NEW g, NEW u, Listening(e, g, u), DOMAIN e.buf = 0 .. BufEnd, NEW cmd, NEW args
    PROVE  Begun(ProtocolDecoder(e, cmd, args), e)
  <1>1. PICK ran : ran = <<cmd>> \o args
    OBVIOUS
  <1>2. PICK noted : noted = [e EXCEPT !.decoded = ran]
    OBVIOUS
  <1>3. /\ SameSender(noted, e) /\ noted.buf = e.buf /\ noted.bRxLastCharSOB = e.bRxLastCharSOB
        /\ noted.nRxTodo = e.nRxTodo /\ noted.bRxMsgLengthNext = e.bRxMsgLengthNext
    BY <1>2 DEF IsDriver, SameSender
  <1>4. ASSUME NEW r, Begun(r, noted) PROVE Begun(r, e)
    BY <1>3, <1>4 DEF Begun, SameSender, SameKind, Quieter, Usb
  <1>5. IsDriver(noted) /\ Listening(noted, g, u)
    BY <1>3, SameListening DEF SameSender
  <1>6. PICK known : known = {i \in DOMAIN Requests : Requests[i].cmd = cmd /\ Requests[i].args = args}
    OBVIOUS
  <1>7. CASE known = {}
    <2>1. ProtocolDecoder(e, cmd, args) = SendError(noted, InvCmd)
      BY <1>1, <1>2, <1>6, <1>7 DEF ProtocolDecoder
    <2>2. InvCmd \in Nat
      BY SerialAssumption
    <2> QED BY <1>3, <1>4, <1>5, <2>1, <2>2, ErrorSending
  <1>8. CASE known # {}
    <2>1. PICK i \in DOMAIN Requests : i = CHOOSE j \in known : TRUE
      BY <1>6, <1>8
    <2>2. PICK s \in Seq(Nat), n \in Nat, st \in Nat :
             s = Requests[i].data /\ n = Len(s) /\ n + 2 <= BufEnd /\ st = Requests[i].status
      BY AnswerLemma
    <2>3. PICK b : b = [k \in 0 .. BufEnd |-> IF k - 1 \in DOMAIN s THEN Plain(s[k - 1]) ELSE e.buf[k]]
      OBVIOUS
    <2>4. PICK h : h = [noted EXCEPT !.buf = b]
      OBVIOUS
    <2>5. ProtocolDecoder(e, cmd, args) = SendResponse(h, n, st)
      BY <1>1, <1>2, <1>6, <1>8, <2>1, <2>2, <2>3, <2>4 DEF ProtocolDecoder
    <2>6. /\ SameSender(h, noted) /\ h.buf = b /\ h.bRxLastCharSOB = noted.bRxLastCharSOB
          /\ h.nRxTodo = noted.nRxTodo /\ h.bRxMsgLengthNext = noted.bRxMsgLengthNext
      BY <1>5, <2>4 DEF IsDriver, SameSender
    <2>7. InBuffer(b, s, n)
      <3>1. DOMAIN b = 0 .. BufEnd
        BY <2>3
      <3>2. ASSUME NEW j \in 1 .. n PROVE b[j + 1] = Plain(s[j])
        <4>1. j + 1 \in 0 .. BufEnd /\ (j + 1) - 1 = j /\ j \in DOMAIN s
          <5>1. BufEnd \in Nat
            BY SerialAssumption DEF BufEnd
          <5> QED BY <2>2, <5>1
        <4>2. b[j + 1] = Plain(s[(j + 1) - 1])
          BY <2>3, <4>1
        <4> QED BY <4>1, <4>2
      <3> QED BY <2>2, <3>1, <3>2 DEF InBuffer
    <2>8. Listening(h, g, u) /\ IsDriver(h)
      BY <1>5, <2>6, SameListening DEF SameSender
    <2>9. Begun(SendResponse(h, n, st), h)
      BY <2>6, <2>7, <2>8, SendSending
    <2>10. Begun(SendResponse(h, n, st), noted)
      BY <2>6, <2>9 DEF Begun, SameSender, SameKind, Quieter, Usb
    <2> QED BY <1>4, <2>5, <2>10
  <1> QED BY <1>7, <1>8

\* Nothing is being received.
Resting(e) == e.nRxTodo = 0 /\ ~e.bRxMsgLengthNext /\ ~e.bRxLastCharSOB

Answering(r, e) ==
    /\ \E v : Sending(r, <<>>, v)
    /\ SameKind(r, e) /\ Muted(r) /\ Resting(r)
    /\ Usb(e) => Full(r)

LEMMA LastByteSending ==
    ASSUME NEW e, IsDriver(e), NEW g, NEW u, Listening(e, g, u), DOMAIN e.buf = 0 .. BufEnd, NEW c,
           ~e.bRxMsgLengthNext, ~e.bRxLastCharSOB
    PROVE  Answering(LastByte(e, c), e)
  <1>1. PICK h : h = [e EXCEPT !.nRxTodo = 0]
    OBVIOUS
  <1>2. /\ SameSender(h, e) /\ h.buf = e.buf /\ h.bRxLastCharSOB = e.bRxLastCharSOB
        /\ h.nRxTodo = 0 /\ h.bRxMsgLengthNext = e.bRxMsgLengthNext /\ h.pRxBuff = e.pRxBuff
    BY <1>1 DEF IsDriver, SameSender
  <1>3. Listening(h, g, u) /\ IsDriver(h)
    BY <1>2, SameListening DEF SameSender
  <1>4. CmdTooLong \in Nat /\ CmdCsErr \in Nat
    BY SerialAssumption
  <1>5. Begun(SendError(h, CmdTooLong), h) /\ Begun(SendError(h, CmdCsErr), h)
    BY <1>2, <1>3, <1>4, ErrorSending
  <1>6. \A cmd, args : Begun(ProtocolDecoder(h, cmd, args), h)
    BY <1>2, <1>3, DecoderSending
  <1>7. Begun(LastByte(e, c), h)
    BY <1>1, <1>5, <1>6 DEF LastByte
  <1> QED BY <1>2, <1>7 DEF Begun, Answering, Resting, SameSender, SameKind, Quieter, Usb

LEMMA RxSending ==
    ASSUME NEW e, IsDriver(e), NEW g, NEW u, Listening(e, g, u), DOMAIN e.buf = 0 .. BufEnd, NEW c
    PROVE  SameSender(Rx(e, c), e) \/ Answering(Rx(e, c), e)
  <1>1. PICK x, y : x = [e EXCEPT !.bRxLastCharSOB = TRUE] /\ y = [e EXCEPT !.bRxLastCharSOB = FALSE]
    OBVIOUS
  <1>2. SameSender(x, e) /\ SameSender(y, e) /\ y.buf = e.buf /\ ~y.bRxLastCharSOB
    BY <1>1 DEF IsDriver, SameSender
  <1>3. SameSender(FrameStart(e, c), e)
    <2>1. PICK b, s : b = [e.buf EXCEPT ![0] = Plain(c.byte)] /\ s = <<c.byte>>
      OBVIOUS
    <2>2. PICK r : r = [e EXCEPT !.buf = b, !.pRxBuff = 1, !.nRxTodo = 0, !.crc = s,
                                 !.bRxMsgLengthNext = TRUE, !.bRxLastCharSOB = FALSE]
      OBVIOUS
    <2>3. r = FrameStart(e, c)
      BY <2>1, <2>2 DEF FrameStart, IsDriver
    <2>4. SameSender(r, e)
      BY <2>2 DEF IsDriver, SameSender
    <2> QED BY <2>3, <2>4
  <1>4. SameSender(InFrame(y, c), y) \/ Answering(InFrame(y, c), y)
    <2>1. IsDriver(y) /\ Listening(y, g, u)
      BY <1>2, SameListening DEF SameSender
    <2>2. CASE y.bRxMsgLengthNext
      BY <2>1, <2>2 DEF InFrame, LengthByte, IsDriver, SameSender
    <2>3. CASE ~y.bRxMsgLengthNext /\ y.nRxTodo = 1
      BY <1>2, <2>1, <2>3, LastByteSending DEF InFrame
    <2>4. CASE ~y.bRxMsgLengthNext /\ y.nRxTodo # 1 /\ y.nRxTodo > 1
      <3>1. SameSender(DataByte(y, c), y)
        BY <2>1 DEF DataByte, IsDriver, SameSender
      <3> QED BY <2>4, <3>1 DEF InFrame
    <2>5. CASE ~y.bRxMsgLengthNext /\ y.nRxTodo # 1 /\ ~(y.nRxTodo > 1)
      BY <2>1, <2>5 DEF InFrame, SameSender
    <2> QED BY <2>2, <2>3, <2>4, <2>5
  <1>5. SameSender(InFrame(y, c), e) \/ Answering(InFrame(y, c), e)
    BY <1>2, <1>4 DEF Answering, SameSender, SameKind, Quieter, Usb
  <1>6. Rx(e, c) \in {x, FrameStart(e, c), InFrame(y, c)}
    BY <1>1 DEF Rx
  <1> QED BY <1>2, <1>3, <1>5, <1>6

\* A character that comes when nothing is being received begins no frame.
LEMMA RestingRx ==
    ASSUME NEW e, IsDriver(e), Resting(e), NEW c
    PROVE  \E sob : Rx(e, c) = [e EXCEPT !.bRxLastCharSOB = sob]
  <1>1. PICK y : y = [e EXCEPT !.bRxLastCharSOB = FALSE]
    OBVIOUS
  <1>2. y.nRxTodo = 0 /\ ~y.bRxMsgLengthNext
    BY <1>1 DEF IsDriver, Resting
  <1>3. InFrame(y, c) = y
    BY <1>2 DEF InFrame
  <1> QED BY <1>1, <1>3 DEF Rx, Resting

-----------------------------------------------------------------------------
(* The receiving loop.                                                     *)

\* k characters can still be read; of a UART with a FIFO, two at most.
Hearing(e, k) ==
    /\ e.drv \in {"lpuart", "usart"} => Len(e.fifo) <= 2
    /\ Eonce(e) => (e.rx = <<>> \/ e.fifo = <<>>) /\ Len(e.fifo) + Len(e.rx) <= k

\* What can still be read begins no frame.
Deaf(e) ==
    /\ Muted(e)
    /\ e.drv \in {"lpuart", "usart"} => e.fifo = <<>> \/ (Len(e.fifo) <= 1 /\ Resting(e))
    /\ e.drv = "zephyr" => e.rx = <<>>
    /\ Eonce(e) => e.fifo = <<>>

InLoop(e, g, k) ==
    \/ (\E u : Listening(e, g, u)) /\ Hearing(e, k)
    \/ (\E u : Sending(e, <<>>, u)) /\ Deaf(e) /\ (Usb(e) => Full(e))

SameBuild(r, e) == r.drv = e.drv /\ r.mode = e.mode /\ r.attach = e.attach

LEMMA LenLemma ==
    ASSUME NEW S, NEW s \in Seq(S)
    PROVE  /\ Len(s) \in Nat /\ (s = <<>> <=> Len(s) = 0)
           /\ s # <<>> => Tail(s) \in Seq(S) /\ Len(Tail(s)) = Len(s) - 1
  BY EmptySeq, HeadTailProperties

\* What a read leaves.
LEMMA ReadHearing ==
    ASSUME NEW e, IsDriver(e), NEW S, e.fifo \in Seq(S), e.rx \in Seq(S), NEW k \in Nat, Hearing(e, k + 1)
    PROVE  LET f == TakeReceiveReg(e)
               h == GetChar(f)
           IN  IF IsReceiveRegFull(f)
               THEN /\ Hearing(h, k)
                    /\ h.drv \in {"lpuart", "usart"} => Len(h.fifo) <= 1
                    /\ h.drv = "linflexd" => h.fifo = <<>>
                    /\ h.drv = "zephyr" => h.rx = <<>>
                    /\ Eonce(h) => h.fifo = <<>>
               ELSE Hearing(f, k)
  <1>1. PICK f : f = TakeReceiveReg(e) /\ IsDriver(f) /\ f.drv = e.drv
    BY TakeReceiveRegLemma DEF Kept, SameRx
  <1>2. PICK h : h = GetChar(f)
    OBVIOUS
  <1>3. PICK a \in Seq(S), b \in Seq(S), m \in Nat, n \in Nat : a = e.fifo /\ b = e.rx /\ m = Len(a) /\ n = Len(b)
    BY LenLemma
  <1>4. CASE e.drv \in {"lpuart", "usart"}
    <2>1. f = e
      BY <1>1, <1>4 DEF TakeReceiveReg, Eonce
    <2>2. m <= 2 /\ Hearing(f, k)
      BY <1>3, <1>4, <2>1 DEF Hearing, Eonce
    <2>3. CASE IsReceiveRegFull(f)
      <3>1. a # <<>> /\ h = [e EXCEPT !.fifo = Tail(a)]
        BY <1>2, <1>3, <1>4, <2>1, <2>3 DEF IsReceiveRegFull, LpuartIsReceiveRegFull, UsartIsReceiveRegFull,
              GetChar, LpuartGetChar, UsartGetChar, Usb, Eonce
      <3>2. h.drv = e.drv /\ h.fifo = Tail(a)
        BY <3>1 DEF IsDriver
      <3>3. Len(Tail(a)) <= 1 /\ Len(Tail(a)) <= 2
        BY <1>3, <2>2, <3>1, LenLemma
      <3>4. Hearing(h, k) /\ Len(h.fifo) <= 1 /\ h.drv \in {"lpuart", "usart"} /\ ~Eonce(h)
        BY <1>4, <3>2, <3>3 DEF Hearing, Eonce
      <3> QED BY <1>1, <1>2, <2>3, <3>4
    <2> QED BY <1>1, <2>2, <2>3
  <1>5. CASE Eonce(e)
    <2>1. (b = <<>> \/ a = <<>>) /\ m + n <= k + 1
      BY <1>3, <1>5 DEF Hearing
    <2>2. PICK x \in Seq(S) : x = (IF b = <<>> THEN a ELSE b) /\ Len(x) <= k + 1
      <3>1. m <= k + 1 /\ n <= k + 1
        BY <2>1
      <3>2. Len(a) <= k + 1 /\ Len(b) <= k + 1
        BY <1>3, <3>1
      <3> QED BY <3>2
    <2>3. f.fifo = <<>> /\ f.rx = x /\ Eonce(f)
      <3>1. f = IF b = <<>> /\ a # <<>> THEN [e EXCEPT !.rx = a, !.fifo = <<>>] ELSE e
        BY <1>1, <1>3, <1>5 DEF TakeReceiveReg, EonceTryReceiveData, Eonce
      <3>2. CASE b = <<>> /\ a # <<>>
        BY <1>5, <2>2, <3>1, <3>2 DEF IsDriver, Eonce
      <3>3. CASE ~(b = <<>> /\ a # <<>>)
        BY <1>3, <1>5, <2>1, <2>2, <3>1, <3>3
      <3> QED BY <3>2, <3>3
    <2>4. CASE IsReceiveRegFull(f)
      <3>1. x # <<>> /\ h = [f EXCEPT !.rx = Tail(x)]
        BY <1>2, <2>3, <2>4 DEF IsReceiveRegFull, EonceIsReceiveRegFull, GetChar, EonceGetChar, Usb, Eonce
      <3>2. Eonce(h) /\ h.fifo = <<>> /\ h.rx = Tail(x)
        BY <1>1, <2>3, <3>1 DEF IsDriver, Eonce
      <3>3. 0 + Len(Tail(x)) <= k
        BY <2>2, <3>1, LenLemma
      <3>4. Len(<<>>) = 0
        BY EmptySeq
      <3> QED BY <1>1, <1>2, <2>4, <3>2, <3>3, <3>4 DEF Hearing, Eonce
    <2>5. CASE ~IsReceiveRegFull(f)
      <3>1. x = <<>>
        BY <2>3, <2>5 DEF IsReceiveRegFull, EonceIsReceiveRegFull, Usb, Eonce
      <3>2. Len(<<>>) = 0
        BY EmptySeq
      <3> QED BY <1>1, <2>3, <2>5, <3>1, <3>2 DEF Hearing, Eonce
    <2> QED BY <2>4, <2>5
  <1>6. CASE e.drv \notin {"lpuart", "usart"} /\ ~Eonce(e)
    <2>1. h.drv = e.drv
      BY <1>1, <1>2, <1>6 DEF GetChar, LinflexdGetChar, ZephyrGetChar, UsbGetChar, IsDriver, Drivers, Usb, Eonce
    <2>2. (e.drv = "linflexd" => h.fifo = <<>>) /\ (e.drv = "zephyr" => h.rx = <<>>)
      BY <1>1, <1>2 DEF GetChar, LinflexdGetChar, ZephyrGetChar, IsDriver, Usb, Eonce
    <2> QED BY <1>1, <1>2, <1>6, <2>1, <2>2 DEF Hearing, Eonce
  <1> QED BY <1>4, <1>5, <1>6

\* Nothing but the last start of block has changed.
LEMMA SobSending ==
    ASSUME NEW e, IsDriver(e), NEW g, NEW u, Sending(e, g, u), NEW sob, NEW r, r = [e EXCEPT !.bRxLastCharSOB = sob]
    PROVE  Sending(r, g, u) /\ SameKind(r, e) /\ r.fifo = e.fifo
  <1>1. /\ r.drv = e.drv /\ r.mode = e.mode /\ r.attach = e.attach /\ r.fifo = e.fifo /\ r.rx = e.rx
        /\ r.bTxActive = e.bTxActive /\ r.bTxWaitTC = e.bTxWaitTC /\ r.bTxLastCharSOB = e.bTxLastCharSOB
        /\ r.nTxTodo = e.nTxTodo /\ r.pTxBuff = e.pTxBuff /\ r.buf = e.buf /\ r.answer = e.answer
        /\ r.out = e.out /\ r.tx = e.tx /\ r.txActive = e.txActive /\ r.dtf = e.dtf /\ r.txEnabled = e.txEnabled
    BY DEF IsDriver
  <1>2. Holds(r, u) /\ (Unfilled(e, u) => Unfilled(r, u)) /\ (Roomy(e) => Roomy(r))
    BY <1>1 DEF Sending, Holds, HoldsUart, HoldsUsb, HoldsEonce, Unfilled, Roomy, Uart, Usb, Eonce
  <1>3. Sends(r, Len(g) + Len(u))
    BY <1>1 DEF Sending, Sends
  <1> QED BY <1>1, <1>2, <1>3 DEF Sending, SameKind, Quieter, Usb

LEMMA ReadDeaf ==
    ASSUME NEW e, IsDriver(e), NEW S, e.fifo \in Seq(S), NEW u, Sending(e, <<>>, u), Deaf(e),
           <<e.drv, e.mode>> \in Supported
    PROVE  LET r == RxIfFull(e)
           IN  (\E v : Sending(r, <<>>, v)) /\ Deaf(r) /\ SameBuild(r, e) /\ (Usb(e) => r = e)
  <1>1. TakeReceiveReg(e) = e
    BY DEF TakeReceiveReg, ZephyrTakeChar, EonceTryReceiveData, Deaf, Muted, Supported, Interrupts, Eonce
  <1>2. PICK h, c : h = GetChar(e) /\ c = ReceivedChar(e)
    OBVIOUS
  <1>3. RxIfFull(e) = IF IsReceiveRegFull(e) THEN Rx(h, c) ELSE e
    BY <1>1, <1>2 DEF RxIfFull, ReadIfFull
  <1>4. CASE IsReceiveRegFull(e)
    <2>1. e.drv \in {"lpuart", "usart"} /\ e.fifo # <<>>
      BY <1>4 DEF IsReceiveRegFull, LpuartIsReceiveRegFull, UsartIsReceiveRegFull, LinflexdIsReceiveRegFull,
            ZephyrIsReceiveRegFull, UsbIsReceiveRegFull, EonceIsReceiveRegFull, Deaf, Muted, IsDriver, Drivers,
            Usb, Eonce
    <2>2. Resting(e) /\ Len(e.fifo) <= 1
      BY <2>1 DEF Deaf
    <2>3. PICK a \in Seq(S), m \in Nat : a = e.fifo /\ m = Len(a) /\ Tail(a) \in Seq(S) /\ Len(Tail(a)) = m - 1
                                       /\ m # 0
      BY <2>1, LenLemma
    <2>4. Tail(a) = <<>>
      <3>1. PICK t \in Seq(S) : t = Tail(a) /\ Len(t) = m - 1
        BY <2>3
      <3>2. m <= 1 /\ m # 0
        BY <2>2, <2>3
      <3>3. m - 1 = 0
        BY <3>2
      <3>4. Len(t) = 0
        BY <3>1, <3>3
      <3> QED BY <3>1, <3>4, LenLemma
    <2>5. h = [e EXCEPT !.fifo = <<>>]
      BY <1>2, <2>1, <2>3, <2>4 DEF GetChar, LpuartGetChar, UsartGetChar, Usb, Eonce
    <2>6. IsDriver(h) /\ SameTx(h, e) /\ Resting(h) /\ SameBuild(h, e) /\ h.fifo = <<>>
      <3>1. /\ IsDriver(h) /\ h.fifo = <<>> /\ h.drv = e.drv /\ h.mode = e.mode /\ h.attach = e.attach
            /\ h.bTxActive = e.bTxActive /\ h.bTxWaitTC = e.bTxWaitTC /\ h.nTxTodo = e.nTxTodo
            /\ h.bTxLastCharSOB = e.bTxLastCharSOB /\ h.bRxLastCharSOB = e.bRxLastCharSOB
            /\ h.pTxBuff = e.pTxBuff /\ h.buf = e.buf /\ h.answer = e.answer
            /\ h.tx = e.tx /\ h.out = e.out /\ h.txActive = e.txActive /\ h.dtf = e.dtf
            /\ h.txEnabled = e.txEnabled /\ h.nRxTodo = e.nRxTodo /\ h.bRxMsgLengthNext = e.bRxMsgLengthNext
        BY <2>5 DEF IsDriver
      <3> QED BY <2>2, <3>1 DEF SameTx, SameOut, SameTask, Resting, SameBuild
    <2>7. Sending(h, <<>>, u)
      BY <2>6, SameTxSending
    <2>8. PICK sob : Rx(h, c) = [h EXCEPT !.bRxLastCharSOB = sob]
      BY <2>6, RestingRx
    <2>9. PICK r : r = Rx(h, c) /\ Sending(r, <<>>, u) /\ SameKind(r, h) /\ r.fifo = <<>>
      <3>1. PICK r : r = [h EXCEPT !.bRxLastCharSOB = sob]
        OBVIOUS
      <3>2. Sending(r, <<>>, u) /\ SameKind(r, h) /\ r.fifo = h.fifo
        BY <2>6, <2>7, <3>1, SobSending, Zenon
      <3> QED BY <2>6, <2>8, <3>1, <3>2, Zenon
    <2>10. SameBuild(r, e)
      BY <2>6, <2>9 DEF SameBuild, SameKind
    <2>11. Deaf(r)
      BY <2>1, <2>9, <2>10 DEF Deaf, Muted, SameBuild, Usb, Eonce
    <2> QED BY <1>3, <1>4, <2>1, <2>9, <2>10, <2>11 DEF Usb
  <1>5. CASE ~IsReceiveRegFull(e)
    BY <1>3, <1>5 DEF SameBuild
  <1> QED BY <1>4, <1>5

LEMMA ReadSending ==
    ASSUME NEW e, NEW n, NEW drv, Reception(e, n, drv), NEW g, NEW k \in Nat, InLoop(e, g, k + 1),
           <<e.drv, e.mode>> \in Supported
    PROVE  LET r == RxIfFull(e)
           IN  InLoop(r, g, k) /\ SameBuild(r, e)
  <1>1. PICK S : IsDriver(e) /\ e.fifo \in Seq(S) /\ e.rx \in Seq(S) /\ DOMAIN e.buf = 0 .. BufEnd
    BY DEF Reception, Inputs
  <1>2. CASE (\E u : Sending(e, <<>>, u)) /\ Deaf(e) /\ (Usb(e) => Full(e))
    <2>1. PICK u : Sending(e, <<>>, u)
      BY <1>2
    <2>2. PICK r : r = RxIfFull(e)
      OBVIOUS
    <2>3. (\E v : Sending(r, <<>>, v)) /\ Deaf(r) /\ SameBuild(r, e) /\ (Usb(e) => r = e)
      BY <1>1, <1>2, <2>1, <2>2, ReadDeaf
    <2> QED BY <1>2, <2>2, <2>3 DEF InLoop, SameBuild, Usb
  <1>3. CASE (\E u : Listening(e, g, u)) /\ Hearing(e, k + 1)
    <2>1. PICK u : Listening(e, g, u)
      BY <1>3
    <2>2. PICK f : f = TakeReceiveReg(e) /\ IsDriver(f) /\ SameTx(f, e)
      BY <1>1, TakeReceiveRegLemma, ReadTx DEF Kept
    <2>3. PICK h, c : h = GetChar(f) /\ c = ReceivedChar(f)
      OBVIOUS
    <2>4. RxIfFull(e) = IF IsReceiveRegFull(f) THEN Rx(h, c) ELSE f
      BY <2>2, <2>3 DEF RxIfFull, ReadIfFull
    <2>5. ASSUME NEW r, SameOut(r, e), IsDriver(r) PROVE Listening(r, g, u) /\ SameBuild(r, e)
      <3>1. Holds(r, u) /\ Unfilled(r, u) /\ Ready(r)
        BY <2>1, <2>5, SameHolds, SameReady DEF Listening
      <3> QED BY <2>1, <2>5, <3>1 DEF Listening, SameOut, SameTask, SameBuild
    <2>6. CASE ~IsReceiveRegFull(f)
      <3>1. Hearing(f, k)
        BY <1>1, <1>3, <2>2, <2>6, ReadHearing
      <3>2. Listening(f, g, u) /\ SameBuild(f, e)
        BY <2>2, <2>5 DEF SameTx
      <3> QED BY <2>4, <2>6, <3>1, <3>2 DEF InLoop
    <2>7. CASE IsReceiveRegFull(f)
      <3>1. /\ Hearing(h, k)
            /\ h.drv \in {"lpuart", "usart"} => Len(h.fifo) <= 1
            /\ h.drv = "linflexd" => h.fifo = <<>>
            /\ h.drv = "zephyr" => h.rx = <<>>
            /\ Eonce(h) => h.fifo = <<>>
        BY <1>1, <1>3, <2>2, <2>3, <2>7, ReadHearing
      <3>2. IsDriver(h) /\ SameTx(h, f)
        <4>1. PICK T : f.fifo \in Seq(T) /\ f.rx \in Seq(T)
          BY <1>1, <2>2, TakeReceiveRegLemma DEF Kept
        <4>2. IsDriver(h)
          BY <2>2, <2>3, <2>7, <4>1, GetCharLemma DEF Kept
        <4> QED BY <2>2, <2>3, <2>7, <4>2, ReadTx
      <3>3. SameOut(h, e) /\ DOMAIN h.buf = 0 .. BufEnd
        BY <1>1, <2>2, <3>2 DEF SameTx, SameOut, SameTask
      <3>4. Listening(h, g, u) /\ SameBuild(h, e)
        BY <2>5, <3>2, <3>3
      <3>5. PICK r : r = Rx(h, c) /\ (SameSender(r, h) \/ Answering(r, h))
        BY <3>2, <3>3, <3>4, RxSending
      <3>6. CASE SameSender(r, h)
        <4>1. Listening(r, g, u) /\ SameKind(r, h)
          BY <3>4, <3>6, SameListening
        <4>2. Hearing(r, k) /\ SameBuild(r, e)
          BY <3>1, <3>4, <3>6 DEF Hearing, SameSender, SameBuild, Eonce
        <4> QED BY <2>4, <2>7, <3>5, <4>1, <4>2 DEF InLoop
      <3>7. CASE Answering(r, h)
        <4>1. SameKind(r, h) /\ Muted(r) /\ Resting(r)
          BY <3>7 DEF Answering
        <4>2. Deaf(r)
          BY <3>1, <4>1 DEF Deaf, SameKind, Quieter, Eonce
        <4>3. SameBuild(r, e) /\ (Usb(r) => Full(r))
          BY <3>4, <3>7, <4>1 DEF Answering, SameKind, SameBuild, Usb
        <4> QED BY <2>4, <2>7, <3>5, <3>7, <4>2, <4>3 DEF InLoop, Answering
      <3> QED BY <3>5, <3>6, <3>7
    <2> QED BY <2>6, <2>7
  <1> QED BY <1>2, <1>3 DEF InLoop

-----------------------------------------------------------------------------
(* FMSTR_ProcessSerial.                                                    *)

LEMMA SameTxListening ==
    ASSUME NEW e, NEW r, NEW g, NEW u, Listening(e, g, u), SameTx(r, e)
    PROVE  Listening(r, g, u) /\ SameBuild(r, e)
  <1>1. Holds(r, u) /\ Unfilled(r, u) /\ Ready(r)
    BY SameHolds, SameReady DEF Listening, SameTx
  <1> QED BY <1>1 DEF Listening, SameTx, SameOut, SameTask, SameBuild

LEMMA LoopSending ==
    ASSUME NEW e, NEW n, NEW drv, Reception(e, n, drv), NEW g, NEW m \in Nat, InLoop(e, g, m),
           <<e.drv, e.mode>> \in Supported, NEW f, Steps(f, "rx", e, m)
    PROVE  InLoop(f[m], g, 0) /\ SameBuild(f[m], e)
  <1>1. \A i \in 0 .. m : f[i] = IF i = 0 THEN e ELSE RxIfFull(f[i - 1])
    BY DEF Steps, LoopStep
  <1> DEFINE Good(i) == Reception(f[i], n, drv) /\ InLoop(f[i], g, m - i) /\ SameBuild(f[i], e)
             Bad == {i \in 0 .. m : ~Good(i)}
  <1>2. Bad \in SUBSET Nat
    OBVIOUS
  <1>3. ASSUME NEW i \in Bad, \A j \in Bad : i <= j PROVE FALSE
    <2>1. CASE i = 0
      <3>1. f[0] = e /\ m - 0 = m
        BY <1>1
      <3>2. Good(0)
        BY <3>1 DEF SameBuild
      <3> QED BY <1>3, <2>1, <3>2
    <2>2. CASE i # 0
      <3>1. i - 1 \in 0 .. m /\ i - 1 \notin Bad
        BY <1>3, <2>2
      <3>a. m - i \in Nat /\ m - (i - 1) = (m - i) + 1
        BY <1>3
      <3>b. PICK k \in Nat : k = m - i /\ m - (i - 1) = k + 1
        BY <3>a
      <3>2. PICK x : x = f[i - 1]
        OBVIOUS
      <3>3. Reception(x, n, drv) /\ InLoop(x, g, k + 1) /\ SameBuild(x, e)
        BY <3>1, <3>2, <3>b
      <3>4. PICK r : r = RxIfFull(x)
        OBVIOUS
      <3>5. Reception(r, n, drv)
        BY <3>3, <3>4, ReadReception
      <3>6. InLoop(r, g, k) /\ SameBuild(r, x)
        BY <3>3, <3>4, ReadSending DEF SameBuild
      <3>7. f[i] = r
        BY <1>1, <1>3, <2>2, <3>2, <3>4
      <3>8. Good(i)
        BY <3>b, <3>3, <3>5, <3>6, <3>7 DEF SameBuild
      <3> QED BY <1>3, <3>8
    <2> QED BY <2>1, <2>2
  <1> HIDE DEF Bad
  <1>4. Bad = {}
    BY <1>2, <1>3, LeastNat
  <1>5. m \in 0 .. m /\ m - m = 0
    OBVIOUS
  <1>6. Good(m)
    BY <1>4, <1>5 DEF Bad
  <1> QED BY <1>5, <1>6

LEMMA QueueStepTx ==
    ASSUME NEW e, NEW n, NEW drv, Reception(e, n, drv)
    PROVE  SameTx(QueueIfFull(e), e)
  <1>1. PICK S : IsDriver(e) /\ e.fifo \in Seq(S) /\ e.rx \in Seq(S)
    BY DEF Reception, Inputs
  <1>2. PICK f : f = TakeReceiveReg(e) /\ IsDriver(f) /\ SameTx(f, e) /\ f.fifo \in Seq(S) /\ f.rx \in Seq(S)
    BY <1>1, TakeReceiveRegLemma, ReadTx DEF Kept
  <1>3. PICK h, c : h = GetChar(f) /\ c = ReceivedChar(f)
    OBVIOUS
  <1>4. CASE IsReceiveRegFull(f)
    <2>1. IsDriver(h) /\ SameTx(h, f)
      BY <1>2, <1>3, <1>4, GetCharLemma, ReadTx DEF Kept
    <2>2. SameTx(QueueChar(h, c), h)
      BY <2>1 DEF QueueChar, IsDriver, SameTx, SameOut, SameTask
    <2>3. QueueIfFull(e) = QueueChar(h, c)
      BY <1>2, <1>3, <1>4 DEF QueueIfFull, ReadIfFull
    <2> QED BY <1>2, <2>1, <2>2, <2>3 DEF SameTx, SameOut, SameTask
  <1>5. CASE ~IsReceiveRegFull(f)
    BY <1>2, <1>5 DEF QueueIfFull, ReadIfFull
  <1> QED BY <1>4, <1>5

LEMMA LoopTx ==
    ASSUME NEW e, NEW n, NEW drv, Reception(e, n, drv), NEW m \in Nat, NEW f, Steps(f, "queue", e, m)
    PROVE  SameTx(f[m], e)
  <1>1. \A i \in 0 .. m : f[i] = IF i = 0 THEN e ELSE QueueIfFull(f[i - 1])
    BY DEF Steps, LoopStep
  <1> DEFINE Good(i) == Reception(f[i], n, drv) /\ SameTx(f[i], e)
             Bad == {i \in 0 .. m : ~Good(i)}
  <1>2. Bad \in SUBSET Nat
    OBVIOUS
  <1>3. ASSUME NEW i \in Bad, \A j \in Bad : i <= j PROVE FALSE
    <2>1. CASE i = 0
      <3>1. f[0] = e
        BY <1>1
      <3>2. Good(0)
        BY <3>1 DEF SameTx, SameOut, SameTask
      <3> QED BY <1>3, <2>1, <3>2
    <2>2. CASE i # 0
      <3>1. i - 1 \in 0 .. m /\ i - 1 \notin Bad
        BY <1>3, <2>2
      <3>2. PICK x : x = f[i - 1] /\ Reception(x, n, drv) /\ SameTx(x, e)
        BY <3>1
      <3>3. f[i] = QueueIfFull(x)
        BY <1>1, <1>3, <2>2, <3>2
      <3>4. Reception(f[i], n, drv) /\ SameTx(f[i], x)
        BY <3>2, <3>3, ReadReception, QueueStepTx
      <3>5. Good(i)
        BY <3>2, <3>4 DEF SameTx, SameOut, SameTask
      <3> QED BY <1>3, <3>5
    <2> QED BY <2>1, <2>2
  <1> HIDE DEF Bad
  <1>4. Bad = {}
    BY <1>2, <1>3, LeastNat
  <1> QED BY <1>4 DEF Bad

\* How much of a response has left when e has become r.
Left(r, e, g) == IF r.bTxActive /\ ~e.bTxActive THEN <<>> ELSE g

LEMMA ProcessSending ==
    ASSUME NEW e, NEW n, NEW drv, Reception(e, n, drv), NEW g, Responding(e, g)
    PROVE  LET r == Process(e)
           IN  /\ Responding(r, Left(r, e, g)) /\ SameBuild(r, e)
               /\ Usb(e) /\ Full(e) /\ e.bTxActive /\ e.attach => r.bTxActive
  <1>1. PICK r : r = Process(e)
    OBVIOUS
  <1>2. PICK u : Sending(e, g, u) \/ Listening(e, g, u)
    BY DEF Responding
  <1>3. PICK S : IsDriver(e) /\ e.fifo \in Seq(S) /\ e.rx \in Seq(S)
    BY DEF Reception, Inputs
  <1>4. <<e.drv, e.mode>> \in Builds /\ <<e.drv, e.mode>> \in Supported
    BY LinkAssumption DEF Responding
  <1>5. PICK m \in Nat : m = Len(e.fifo) + Len(e.rx) /\ Len(e.fifo) + Len(e.rx) <= m
    <2>1. PICK i \in Nat, j \in Nat : i = Len(e.fifo) /\ j = Len(e.rx)
      BY <1>3, LenLemma
    <2>2. i + j \in Nat /\ i + j <= i + j
      OBVIOUS
    <2> QED BY <2>1, <2>2
  <1>6. CASE e.bTxActive
    <2>1. Sending(e, g, u) /\ r = ProcessTx(e)
      BY <1>1, <1>2, <1>6 DEF Listening, Process
    <2>2. /\ \E v : Sending(r, g, v) \/ Listening(r, g, v)
          /\ SameKind(r, e)
          /\ Usb(e) /\ Full(e) => ~r.bTxActive \/ Full(r)
          /\ Usb(e) /\ Full(e) /\ e.attach => r.bTxActive
      BY <1>3, <2>1, ProcessTxSending
    <2>3. Bounded(r)
      <3>1. Len(<<>>) <= 2
        BY EmptySeq
      <3> QED BY <2>2, <3>1 DEF Responding, Bounded, SameKind, Quieter, Eonce
    <2>4. Loaded(r)
      BY <1>6, <2>2 DEF Responding, Loaded, SameKind, Full, Usb
    <2>5. Responding(r, g) /\ SameBuild(r, e)
      BY <1>4, <2>2, <2>3, <2>4 DEF Responding, SameKind, SameBuild
    <2> QED BY <1>1, <1>6, <2>2, <2>5 DEF Left
  <1>7. CASE ~e.bTxActive /\ e.mode = "short"
    <2>1. r = QueueRx(e) /\ Listening(e, g, u)
      BY <1>1, <1>2, <1>7 DEF Process, Sending
    <2>2. PICK f : f = CHOOSE x : x = [i \in 0 .. m |-> IF i = 0 THEN e ELSE QueueIfFull(x[i - 1])]
      OBVIOUS
    <2>3. r = f[m]
      BY <1>5, <2>1, <2>2 DEF QueueRx, Repeat
    <2>4. Steps(f, "queue", e, m)
      <3>1. PICK x : Steps(x, "queue", e, m)
        BY StepsExist
      <3> QED BY <2>2, <3>1 DEF Steps, LoopStep
    <2>5. SameTx(r, e)
      BY <2>3, <2>4, LoopTx
    <2>6. Listening(r, g, u) /\ SameBuild(r, e) /\ ~r.bTxActive
      BY <2>1, <2>5, SameTxListening DEF Listening
    <2>7. Responding(r, g)
      BY <1>4, <1>7, <2>6 DEF Responding, Bounded, Loaded, SameBuild
    <2> QED BY <1>1, <1>7, <2>6, <2>7 DEF Left
  <1>8. CASE ~e.bTxActive /\ e.mode # "short"
    <2>1. r = ProcessRx(e) /\ Listening(e, g, u)
      BY <1>1, <1>2, <1>8 DEF Process, Sending
    <2>2. InLoop(e, g, m)
      BY <1>5, <1>8, <2>1 DEF InLoop, Hearing, Responding, Bounded
    <2>3. PICK f : f = CHOOSE x : x = [i \in 0 .. m |-> IF i = 0 THEN e ELSE RxIfFull(x[i - 1])]
      OBVIOUS
    <2>4. r = f[m]
      BY <1>5, <2>1, <2>3 DEF ProcessRx, Repeat
    <2>5. Steps(f, "rx", e, m)
      <3>1. PICK x : Steps(x, "rx", e, m)
        BY StepsExist
      <3> QED BY <2>3, <3>1 DEF Steps, LoopStep
    <2>6. InLoop(r, g, 0) /\ SameBuild(r, e)
      BY <1>4, <2>2, <2>4, <2>5, LoopSending
    <2>7. Reception(r, n, drv)
      BY <1>1, ProcessReception
    <2>8. PICK T : r.fifo \in Seq(T) /\ r.rx \in Seq(T)
      BY <2>7 DEF Reception, Inputs
    <2>9. PICK i \in Nat, j \in Nat : i = Len(r.fifo) /\ j = Len(r.rx) /\ (j = 0 => r.rx = <<>>)
      BY <2>8, LenLemma
    <2>10. CASE (\E v : Listening(r, g, v)) /\ Hearing(r, 0)
      <3>1. i + j <= 0 => j = 0
        OBVIOUS
      <3>2. Bounded(r)
        BY <2>9, <2>10, <3>1 DEF Hearing, Bounded
      <3>3. ~r.bTxActive
        BY <2>10 DEF Listening
      <3>4. Responding(r, g)
        BY <1>4, <2>6, <2>10, <3>2, <3>3 DEF Responding, Loaded, SameBuild
      <3> QED BY <1>1, <1>8, <2>6, <3>3, <3>4 DEF Left
    <2>11. CASE (\E v : Sending(r, <<>>, v)) /\ Deaf(r) /\ (Usb(r) => Full(r))
      <3>1. i <= 1 => i <= 2
        OBVIOUS
      <3>2. Len(<<>>) <= 2
        BY EmptySeq
      <3>3. Bounded(r)
        BY <2>9, <2>11, <3>1, <3>2 DEF Deaf, Muted, Bounded
      <3>4. r.bTxActive
        BY <2>11 DEF Sending
      <3>5. Responding(r, <<>>)
        BY <1>4, <2>6, <2>11, <3>3 DEF Responding, Loaded, Full, SameBuild
      <3> QED BY <1>1, <1>8, <2>6, <3>4, <3>5 DEF Left
    <2> QED BY <2>6, <2>10, <2>11 DEF InLoop
  <1> QED BY <1>6, <1>7, <1>8

-----------------------------------------------------------------------------
(* Steps that take characters in.                                          *)

\* Nothing but what is received has changed.
LEMMA SameResponding ==
    ASSUME NEW e, NEW g, Responding(e, g), NEW r, SameTx(r, e), Bounded(r)
    PROVE  Responding(r, g)
  <1>1. PICK u : Sending(e, g, u) \/ Listening(e, g, u)
    BY DEF Responding
  <1>2. Sending(r, g, u) \/ Listening(r, g, u)
    BY <1>1, SameTxSending, SameTxListening
  <1>3. Loaded(r)
    BY DEF Responding, Loaded, SameTx, SameOut, SameTask, Usb
  <1> QED BY <1>2, <1>3 DEF Responding, SameTx, SameOut, SameTask

LEMMA ReceivedBounded ==
    ASSUME NEW e, NEW g, Responding(e, g), NEW r, SameTx(r, e), r.fifo = e.fifo, r.rx = e.rx \/ Usb(e)
    PROVE  Bounded(r)
  BY DEF Responding, Bounded, SameTx, SameOut, SameTask, Usb, Eonce

LEMMA DequeueSending ==
    ASSUME NEW n, NEW drv, Reception(d, n, drv), Responding(d, gone), RxDequeue
    PROVE  Responding(d', gone')
  <1>1. PICK q, e : q = RingBuffGet(d.queue) /\ e = [d EXCEPT !.queue = q]
    OBVIOUS
  <1>2. IsDriver(e) /\ SameTx(e, d) /\ e.fifo = d.fifo /\ e.rx = d.rx /\ DOMAIN e.buf = 0 .. BufEnd
    BY <1>1 DEF Reception, IsDriver, SameTx, SameOut, SameTask
  <1>3. Responding(e, gone)
    BY <1>2, SameResponding, ReceivedBounded
  <1>4. PICK r : r = (IF d.bTxActive THEN e ELSE Rx(e, RingBuffHead(d.queue))) /\ d' = r /\ gone' = Left(r, d, gone)
    BY <1>1 DEF RxDequeue, Became, Left
  <1>5. CASE d.bTxActive
    BY <1>3, <1>4, <1>5 DEF Left
  <1>6. CASE ~d.bTxActive
    <2>1. e.mode = "short" /\ ~e.bTxActive
      BY <1>2, <1>6 DEF RxDequeue, SameTx, SameOut, SameTask
    <2>2. PICK u : Listening(e, gone, u)
      BY <1>3, <2>1 DEF Responding, Sending
    <2>3. SameSender(r, e) \/ Answering(r, e)
      BY <1>2, <1>4, <1>6, <2>2, RxSending
    <2>4. r.mode = "short" /\ r.drv = e.drv
      BY <2>1, <2>3 DEF SameSender, Answering, SameKind
    <2>5. Bounded(r) /\ Loaded(r) /\ <<r.drv, r.mode>> \in Builds
      BY <1>3, <2>1, <2>4 DEF Bounded, Loaded, Responding
    <2>6. CASE SameSender(r, e)
      <3>1. Listening(r, gone, u)
        BY <2>2, <2>6, SameListening
      <3>2. ~r.bTxActive
        BY <3>1 DEF Listening
      <3> QED BY <1>4, <2>5, <3>1, <3>2 DEF Left, Responding
    <2>7. CASE Answering(r, e)
      <3>1. PICK v : Sending(r, <<>>, v)
        BY <2>7 DEF Answering
      <3>2. r.bTxActive
        BY <3>1 DEF Sending
      <3> QED BY <1>4, <1>6, <2>5, <3>1, <3>2 DEF Left, Responding
    <2> QED BY <2>3, <2>6, <2>7
  <1> QED BY <1>5, <1>6

\* Of at most two characters, a UART that is read in its loop has all.
LEMMA ArrivesSending ==
    ASSUME NEW n, NEW drv, Reception(d, n, drv), Responding(d, gone), Shallow, NEW c, d.rxOn => Len(d.fifo) < RxDepth
    PROVE  Responding(Arrives(c), gone)
  <1>1. PICK f, r : f = (IF d.rxOn THEN Append(d.fifo, c) ELSE d.fifo) /\ r = [d EXCEPT !.fifo = f]
    OBVIOUS
  <1>2. r = Arrives(c)
    BY <1>1 DEF Arrives
  <1>3. SameTx(r, d) /\ r.fifo = f /\ r.rx = d.rx
    BY <1>1 DEF Reception, IsDriver, SameTx, SameOut, SameTask
  <1>4. PICK S : d.fifo \in Seq(S)
    BY DEF Reception, Inputs
  <1>5. d.mode # "short" /\ d.drv \in {"lpuart", "usart"} => Len(f) <= 2
    <2> SUFFICES ASSUME d.mode # "short", d.drv \in {"lpuart", "usart"} PROVE Len(f) <= 2
      OBVIOUS
    <2>1. FifoSize <= 2 /\ FifoSize \in Nat
      BY LinkAssumption DEF Shallow, Responding
    <2>2. CASE d.rxOn
      <3>1. PICK T : T = S \union {c} /\ c \in T
        OBVIOUS
      <3>2. PICK s \in Seq(T) : s = d.fifo
        BY <1>4, <3>1, SeqSubset
      <3>3. PICK m \in Nat : m = Len(s)
        BY <3>2
      <3>4. m < FifoSize
        BY <2>2, <3>2, <3>3 DEF RxDepth
      <3>5. m + 1 <= 2
        BY <2>1, <3>4
      <3>6. Len(Append(s, c)) = m + 1
        BY <3>1, <3>3, AppendProperties
      <3> QED BY <1>1, <2>2, <3>2, <3>5, <3>6
    <2>3. CASE ~d.rxOn
      BY <1>1, <2>3 DEF Responding, Bounded
    <2> QED BY <2>2, <2>3
  <1>6. Bounded(r)
    BY <1>3, <1>5 DEF Responding, Bounded, SameTx, SameOut, SameTask, Eonce
  <1> QED BY <1>2, <1>3, <1>6, SameResponding

LEMMA PacketSending ==
    ASSUME ~Overlap, NEW n, NEW drv, Reception(d, n, drv), Responding(d, gone), line \in Seq(Chars(n)),
           DeliverPacket
    PROVE  Responding(d', gone')
  <1>1. PICK f : f = SubSeq(line, 1, PacketLength)
    OBVIOUS
  <1>2. f \in Seq(Chars(n))
    <2>1. PICK k \in Nat : k = Len(line)
      OBVIOUS
    <2>2. UsbSize \in Nat
      BY DeviceAssumption
    <2> QED BY <1>1, <2>1, <2>2, MinLemma, DropLemma DEF PacketLength
  <1>3. PICK a : a = UsbReceived(d, f) /\ Reception(a, n, drv)
    BY <1>2, UsbReceivedReception
  <1>4. PICK x : a = [d EXCEPT !.rx = x, !.out = d.out]
    <2>1. ~d.txActive
      BY DEF DeliverPacket, Free
    <2> QED BY <1>3, <2>1 DEF UsbReceived
  <1>5. SameTx(a, d) /\ a.fifo = d.fifo
    BY <1>4 DEF Reception, IsDriver, SameTx, SameOut, SameTask
  <1>6. Usb(d) /\ d.attach
    BY DEF DeliverPacket
  <1>7. Responding(a, gone) /\ Usb(a) /\ a.attach /\ a.bTxActive = d.bTxActive
    BY <1>5, <1>6, SameResponding, ReceivedBounded DEF SameTx, SameOut, SameTask, Usb
  <1>8. PICK b, r : b = Handled(a) /\ r = Handled(b) /\ d' = r /\ gone' = Left(r, a, gone)
    BY <1>1, <1>3, <1>7 DEF DeliverPacket, Became, Left
  <1>9. CASE ~Interrupts(a)
    BY <1>7, <1>8, <1>9 DEF Handled, Left
  <1>10. CASE Interrupts(a)
    <2>1. a.mode = "long"
      <3>1. <<a.drv, a.mode>> \in Supported
        BY <1>7, LinkAssumption DEF Responding
      <3> QED BY <1>7, <1>10, <3>1 DEF Supported, Usb, Interrupts
    <2>2. b = Process(a) /\ Reception(b, n, drv)
      BY <1>3, <1>8, <1>10, ProcessReception DEF Handled
    <2>3. Responding(b, Left(b, a, gone)) /\ SameBuild(b, a)
      BY <1>3, <1>7, <2>2, ProcessSending
    <2>4. Usb(b) /\ b.attach /\ b.mode = "long" /\ r = Process(b)
      BY <1>7, <1>8, <1>10, <2>1, <2>3 DEF SameBuild, Usb, Handled, Interrupts
    <2>5. Responding(r, Left(r, b, Left(b, a, gone)))
      BY <2>2, <2>3, <2>4, ProcessSending
    <2>6. a.bTxActive => b.bTxActive
      BY <1>3, <1>7, <2>1, <2>2, ProcessSending DEF Responding, Loaded, Full
    <2>7. b.bTxActive => r.bTxActive
      BY <2>2, <2>3, <2>4, ProcessSending DEF Responding, Loaded, Full
    <2> QED BY <1>8, <2>5, <2>6, <2>7 DEF Left
  <1> QED BY <1>9, <1>10
-----------------------------------------------------------------------------
(* Characters leave.                                                       *)

\* r is s and t together, of m and n elements.
Join(r, s, t, m, n) ==
    /\ r = s \o t /\ Len(r) = m + n
    /\ (\A i \in 1 .. m : r[i] = s[i]) /\ \A i \in 1 .. n : r[m + i] = t[i]

LEMMA JoinLemma ==
    ASSUME NEW S, NEW s \in Seq(S), NEW t \in Seq(S), NEW m \in Nat, NEW n \in Nat, m = Len(s), n = Len(t)
    PROVE  \E r \in Seq(S) : Join(r, s, t, m, n)
  <1>1. /\ s \o t \in Seq(S) /\ Len(s \o t) = m + n
        /\ (\A i \in 1 .. m : (s \o t)[i] = s[i]) /\ \A i \in 1 .. n : (s \o t)[m + i] = t[i]
    BY ConcatLemma
  <1>2. Join(s \o t, s, t, m, n)
    BY <1>1, Zenon DEF Join
  <1> QED BY <1>1, <1>2

LEMMA ShownShift ==
    ASSUME NEW g, NEW x \in Seq(Symbols), NEW v \in Seq(Symbols), NEW A, Shown(g, x \o v, A)
    PROVE  Shown(g \o x, v, A) /\ Len(g \o x) + Len(v) = Len(g) + Len(x \o v)
  <1>1. g \in Seq(Symbols) /\ A \in Seq(Symbols) /\ x \o v \in Seq(Symbols)
    BY DEF Shown
  <1>2. PICK i \in Nat, j \in Nat, k \in Nat, a \in Nat : i = Len(g) /\ j = Len(x) /\ k = Len(v) /\ a = Len(A)
    BY <1>1, LenLemma
  <1>a. PICK u \in Seq(Symbols), h \in Seq(Symbols) : Join(u, x, v, j, k) /\ Join(h, g, x, i, j)
    BY <1>1, <1>2, JoinLemma
  <1>3. u = x \o v /\ Len(u) = j + k /\ (\A l \in 1 .. j : u[l] = x[l]) /\ \A l \in 1 .. k : u[j + l] = v[l]
    BY <1>a DEF Join
  <1>4. h = g \o x /\ Len(h) = i + j /\ (\A l \in 1 .. i : h[l] = g[l]) /\ \A l \in 1 .. j : h[i + l] = x[l]
    BY <1>a DEF Join
  <1>5. i + (j + k) <= a /\ (\A l \in 1 .. i : A[l] = g[l]) /\ \A l \in 1 .. j + k : A[i + l] = u[l]
    BY <1>2, <1>3 DEF Shown
  <1>6. ASSUME NEW l \in 1 .. i + j PROVE A[l] = h[l]
    <2>1. CASE l \in 1 .. i
      BY <1>4, <1>5, <2>1
    <2>2. CASE l \notin 1 .. i
      <3>1. PICK p \in 1 .. j : l = i + p
        <4>1. l - i \in 1 .. j /\ l = i + (l - i)
          BY <2>2
        <4> QED BY <4>1
      <3>2. p \in 1 .. j + k
        OBVIOUS
      <3> QED BY <1>3, <1>4, <1>5, <3>1, <3>2
    <2> QED BY <2>1, <2>2
  <1>7. ASSUME NEW l \in 1 .. k PROVE A[(i + j) + l] = v[l]
    <2>1. j + l \in 1 .. j + k /\ (i + j) + l = i + (j + l)
      OBVIOUS
    <2> QED BY <1>3, <1>5, <2>1
  <1>8. (i + j) + k <= a /\ (i + j) + k = i + (j + k)
    BY <1>5
  <1> QED BY <1>1, <1>2, <1>3, <1>4, <1>6, <1>7, <1>8 DEF Shown

\* What leaves the device is the beginning of what it held.
LEMMA LeaveSending ==
    ASSUME NEW e, NEW g, NEW x \in Seq(Symbols), NEW v \in Seq(Symbols), Sending(e, g, x \o v), NEW r,
           /\ r.drv = e.drv /\ r.bTxActive = e.bTxActive /\ r.bTxWaitTC = e.bTxWaitTC
           /\ r.bTxLastCharSOB = e.bTxLastCharSOB /\ r.nTxTodo = e.nTxTodo /\ r.pTxBuff = e.pTxBuff
           /\ r.buf = e.buf /\ r.answer = e.answer /\ r.txEnabled = e.txEnabled,
           Holds(r, v), Unfilled(e, x \o v) => Unfilled(r, v), Roomy(e) => Roomy(r)
    PROVE  Sending(r, g \o x, v)
  <1>1. Shown(g \o x, v, r.answer) /\ Len(g \o x) + Len(v) = Len(g) + Len(x \o v)
    BY ShownShift DEF Sending
  <1>2. Sends(r, Len(g \o x) + Len(v))
    BY <1>1 DEF Sending, Sends
  <1> QED BY <1>1, <1>2 DEF Sending, Usb

\* u begins with c, and v is the rest.
Parts(u, c, v) ==
    c = Head(u) /\ v = Tail(u) /\ u = <<c>> \o v /\ Len(u) = Len(v) + 1 /\ Len(v) \in Nat

LEMMA HeadTail ==
    ASSUME NEW S, NEW u \in Seq(S), u # <<>>
    PROVE  \E c \in S, v \in Seq(S) : Parts(u, c, v)
  <1>1. Head(u) \in S /\ Tail(u) \in Seq(S) /\ Len(Tail(u)) = Len(u) - 1 /\ Len(u) \in Nat
    BY HeadTailProperties
  <1>2. PICK c \in S, v \in Seq(S) : c = Head(u) /\ v = Tail(u)
    BY <1>1
  <1>3. PICK m \in Nat : m = Len(u) /\ Len(v) = m - 1 /\ m # 0
    BY <1>1, <1>2, EmptySeq
  <1>4. PICK k \in Nat : k = Len(v) /\ m = k + 1
    <2>1. m - 1 \in Nat /\ m = (m - 1) + 1
      BY <1>3
    <2> QED BY <1>3, <2>1
  <1>5. <<c>> \in Seq(S) /\ Len(<<c>>) = 1 /\ <<c>>[1] = c
    OBVIOUS
  <1>a. PICK w \in Seq(S) : Join(w, <<c>>, v, 1, k)
    BY <1>4, <1>5, JoinLemma
  <1>6. w = <<c>> \o v /\ Len(w) = 1 + k /\ w[1] = c /\ \A i \in 1 .. k : w[1 + i] = v[i]
    BY <1>5, <1>a DEF Join
  <1>7. u[1] = c /\ \A i \in 1 .. k : v[i] = u[i + 1]
    BY <1>2, <1>3, <1>4, HeadTailProperties
  <1>8. ASSUME NEW i \in 1 .. m PROVE u[i] = w[i]
    <2>1. CASE i = 1
      BY <1>6, <1>7, <2>1
    <2>2. CASE i # 1
      <3>1. PICK j \in 1 .. k : i = j + 1 /\ i = 1 + j
        <4>1. i - 1 \in 1 .. k /\ i = (i - 1) + 1
          BY <1>4, <2>2
        <4> QED BY <4>1
      <3> QED BY <1>6, <1>7, <3>1
    <2> QED BY <2>1, <2>2
  <1>9. Len(w) = m
    BY <1>4, <1>6
  <1>10. u = w
    BY <1>3, <1>8, <1>9, SeqEqual
  <1> QED BY <1>2, <1>3, <1>4, <1>6, <1>10 DEF Parts

LEMMA CharSending ==
    ASSUME NEW n, NEW drv, Reception(d, n, drv), Responding(d, gone), ShiftChar
    PROVE  Responding(d', gone')
  <1>1. PICK u : Sending(d, gone, u) \/ Listening(d, gone, u)
    BY DEF Responding
  <1>2. Uart(d) /\ d.out = u /\ u # <<>> /\ u \in Seq(Symbols) /\ d.tx = <<>> /\ ~Usb(d) /\ ~Eonce(d)
        /\ (d.drv = "linflexd" => Len(u) <= 1)
    BY <1>1 DEF ShiftChar, Sending, Listening, Holds, HoldsUart, Uart, Usb, Eonce
  <1>a. PICK c \in Symbols, v \in Seq(Symbols) : Parts(u, c, v)
    <2>1. u \in Seq(Symbols) /\ u # <<>>
      BY <1>2
    <2> QED BY <2>1, HeadTail
  <1>3. c = Head(u) /\ v = Tail(u) /\ u = <<c>> \o v /\ Len(u) = Len(v) + 1 /\ Len(v) \in Nat
    BY <1>a DEF Parts
  <1>4. PICK t, r : t = (d.drv = "linflexd") /\ r = [d EXCEPT !.out = v, !.dtf = t]
    OBVIOUS
  <1>5. d' = r /\ gone' = Append(gone, c)
    BY <1>2, <1>3, <1>4 DEF ShiftChar
  <1>6. /\ r.drv = d.drv /\ r.mode = d.mode /\ r.fifo = d.fifo /\ r.rx = d.rx /\ r.attach = d.attach
        /\ r.bTxActive = d.bTxActive /\ r.bTxWaitTC = d.bTxWaitTC
        /\ r.bTxLastCharSOB = d.bTxLastCharSOB /\ r.nTxTodo = d.nTxTodo /\ r.pTxBuff = d.pTxBuff
        /\ r.buf = d.buf /\ r.answer = d.answer /\ r.txEnabled = d.txEnabled
        /\ r.tx = d.tx /\ r.out = v /\ r.txActive = d.txActive
    BY <1>4 DEF Reception, IsDriver
  <1>7. r.drv = "linflexd" => Len(v) <= 1 /\ v = <<>>
    <2>1. r.drv = "linflexd" => Len(v) + 1 <= 1
      BY <1>2, <1>3, <1>6
    <2>2. r.drv = "linflexd" => Len(v) = 0
      BY <1>3, <2>1
    <2>3. Len(v) = 0 => v = <<>>
      BY LenLemma
    <2>4. 0 <= 1
      OBVIOUS
    <2> QED BY <2>2, <2>3, <2>4
  <1>8. Holds(r, v) /\ Unfilled(r, v)
    BY <1>2, <1>6, <1>7 DEF Holds, HoldsUart, Unfilled, Uart, Usb, Eonce
  <1>9. Roomy(d) => Roomy(r)
    <2>1. Len(u) < 2 => Len(v) < 2
      BY <1>3
    <2> QED BY <1>2, <1>6, <2>1 DEF Roomy, Usb, TxDepth
  <1>10. gone \in Seq(Symbols) /\ Append(gone, c) = gone \o <<c>> /\ <<c>> \in Seq(Symbols)
    <2>1. gone \in Seq(Symbols)
      BY <1>1 DEF Sending, Listening, Shown
    <2> QED BY <2>1, AppendIsConcat
  <1>11. CASE Sending(d, gone, u)
    <2>1. PICK x \in Seq(Symbols) : x = <<c>>
      BY <1>10
    <2>2. Sending(r, gone \o x, v)
      BY <1>3, <1>6, <1>8, <1>9, <1>11, <2>1, LeaveSending
    <2>3. Bounded(r) /\ Loaded(r)
      BY <1>2, <1>6 DEF Responding, Bounded, Loaded, Usb, Eonce
    <2> QED BY <1>5, <1>6, <1>10, <2>1, <2>2, <2>3 DEF Responding
  <1>12. CASE Listening(d, gone, u)
    <2>1. PICK x \in Seq(Symbols) : x = <<c>>
      BY <1>10
    <2>2. Shown(gone \o x, v, d.answer) /\ Len(gone \o x) + Len(v) = Len(gone) + Len(u)
      <3>1. x \o v = u
        BY <1>3, <2>1
      <3>2. Shown(gone, x \o v, d.answer)
        BY <1>12, <3>1 DEF Listening
      <3>3. Shown(gone \o x, v, d.answer) /\ Len(gone \o x) + Len(v) = Len(gone) + Len(x \o v)
        BY <3>2, ShownShift
      <3> QED BY <3>1, <3>3
    <2>3. Ready(r)
      BY <1>2, <1>6, <1>9, <1>12 DEF Listening, Ready, Uart, Usb, Eonce
    <2>4. Listening(r, gone \o x, v)
      BY <1>6, <1>8, <1>12, <2>2, <2>3 DEF Listening
    <2>5. Bounded(r) /\ Loaded(r)
      BY <1>2, <1>6 DEF Responding, Bounded, Loaded, Usb, Eonce
    <2> QED BY <1>5, <1>6, <1>10, <2>1, <2>4, <2>5 DEF Responding
  <1> QED BY <1>1, <1>11, <1>12

\* With the word o the characters x leave of u, and v stay, filled up with l pads.
Leaves(o, t, u, k, x, v, l) ==
    u = x \o v /\ Unpadded(o) = x /\ t = v \o Pads(l) /\ (k = 0 => l = 0)

LEMMA WordLemma ==
    ASSUME NEW o \in Seq(Symbols \union {Pad}), NEW t \in Seq(Symbols \union {Pad}),
           NEW u \in Seq(Symbols), NEW k \in Nat, o \o t = u \o Pads(k)
    PROVE  \E x \in Seq(Symbols), v \in Seq(Symbols), l \in Nat : Leaves(o, t, u, k, x, v, l)
  <1>1. PICK T : T = Symbols \union {Pad} /\ o \in Seq(T) /\ t \in Seq(T)
    OBVIOUS
  <1>8. ASSUME NEW l \in Nat
        PROVE  Pads(l) \in Seq(T) /\ Len(Pads(l)) = l /\ \A i \in 1 .. l : Pads(l)[i] = Pad
    <2>1. Pad \in T
      BY <1>1
    <2> QED BY <2>1 DEF Pads
  <1>2. PICK p \in Seq(T) : p = Pads(k) /\ Len(p) = k /\ \A i \in 1 .. k : p[i] = Pad
    BY <1>8
  <1>3. PICK w \in Seq(T) : w = u
    BY <1>1, SeqSubset
  <1>4. PICK a \in Nat, b \in Nat, m \in Nat : a = Len(o) /\ b = Len(t) /\ m = Len(u)
    BY <1>1, LenLemma
  <1>a. PICK s \in Seq(T), s2 \in Seq(T) : Join(s, o, t, a, b) /\ Join(s2, w, p, m, k)
    <2>1. k = Len(p) /\ m = Len(w)
      BY <1>2, <1>3, <1>4
    <2> QED BY <1>1, <1>4, <2>1, JoinLemma
  <1>b. s2 = s
    BY <1>2, <1>3, <1>a DEF Join
  <1>5. s = o \o t /\ Len(s) = a + b /\ (\A i \in 1 .. a : s[i] = o[i]) /\ \A i \in 1 .. b : s[a + i] = t[i]
    BY <1>a DEF Join
  <1>6. Len(s) = m + k /\ (\A i \in 1 .. m : s[i] = u[i]) /\ \A i \in 1 .. k : s[m + i] = Pad
    BY <1>2, <1>3, <1>a, <1>b DEF Join
  <1>7. a + b = m + k
    BY <1>5, <1>6
  <1>9. CASE a <= m
    <2>1. PICK e \in Nat : m = a + e
      <3>1. m - a \in Nat /\ m = a + (m - a)
        BY <1>9
      <3> QED BY <3>1
    <2>2. PICK x : x = [i \in 1 .. a |-> u[i]]
      OBVIOUS
    <2>3. PICK v : v = [i \in 1 .. e |-> u[a + i]]
      OBVIOUS
    <2>4. \A i \in 1 .. m : u[i] \in Symbols
      BY <1>4, ElementsLemma
    <2>5. (\A i \in 1 .. a : i \in 1 .. m) /\ \A i \in 1 .. e : a + i \in 1 .. m
      BY <2>1
    <2>6. x \in Seq(Symbols) /\ Len(x) = a /\ \A i \in 1 .. a : x[i] = u[i]
      <3>1. \A i \in 1 .. a : u[i] \in Symbols
        BY <2>4, <2>5
      <3> QED BY <2>2, <3>1
    <2>7. v \in Seq(Symbols) /\ Len(v) = e /\ \A i \in 1 .. e : v[i] = u[a + i]
      <3>1. \A i \in 1 .. e : u[a + i] \in Symbols
        BY <2>4, <2>5
      <3> QED BY <2>3, <3>1
    <2>a. PICK y \in Seq(Symbols) : Join(y, x, v, a, e)
      BY <2>6, <2>7, JoinLemma
    <2>8. /\ y = x \o v /\ Len(y) = a + e /\ (\A i \in 1 .. a : y[i] = x[i])
          /\ \A i \in 1 .. e : y[a + i] = v[i]
      BY <2>a DEF Join
    <2>9. ASSUME NEW i \in 1 .. m PROVE u[i] = y[i]
      <3>1. CASE i \in 1 .. a
        BY <2>6, <2>8, <3>1
      <3>2. CASE i \notin 1 .. a
        <4>1. PICK j \in 1 .. e : i = a + j
          <5>1. i - a \in 1 .. e /\ i = a + (i - a)
            BY <2>1, <3>2
          <5> QED BY <5>1
        <4> QED BY <2>7, <2>8, <4>1
      <3> QED BY <3>1, <3>2
    <2>10. u = y
      BY <1>4, <2>1, <2>8, <2>9, SeqEqual
    <2>11. o = x
      <3>1. ASSUME NEW i \in 1 .. a PROVE o[i] = x[i]
        BY <1>5, <1>6, <2>5, <2>6
      <3>2. x \in Seq(T)
        BY <1>1, <2>6, SeqSubset
      <3> QED BY <1>1, <1>4, <2>6, <3>1, <3>2, SeqEqual
    <2>12. Unpadded(o) = x
      <3>1. Pads(0) = <<>> /\ 0 \in Nat
        BY DEF Pads
      <3>a. x \o <<>> = x
        BY <2>6
      <3>2. x \o Pads(0) = x
        BY <3>1, <3>a
      <3> QED BY <2>6, <2>11, <3>1, <3>2, UnpaddedLemma
    <2>13. t = v \o Pads(k)
      <3>1. v \in Seq(T)
        BY <1>1, <2>7, SeqSubset
      <3>a. PICK z \in Seq(T) : Join(z, v, p, e, k)
        BY <1>2, <2>7, <3>1, JoinLemma
      <3>2. z = v \o p /\ Len(z) = e + k /\ (\A i \in 1 .. e : z[i] = v[i]) /\ \A i \in 1 .. k : z[e + i] = p[i]
        BY <3>a DEF Join
      <3>3. b = e + k
        BY <1>7, <2>1
      <3>4. ASSUME NEW i \in 1 .. b PROVE t[i] = z[i]
        <4>1. CASE i \in 1 .. e
          BY <1>5, <1>6, <2>5, <2>7, <3>2, <3>3, <4>1
        <4>2. CASE i \notin 1 .. e
          <5>1. PICK j \in 1 .. k : i = e + j
            <6>1. i - e \in 1 .. k /\ i = e + (i - e)
              BY <3>3, <4>2
            <6> QED BY <6>1
          <5>2. a + i = m + j
            BY <2>1, <5>1
          <5>3. t[i] = s[a + i]
            BY <1>5
          <5>4. s[m + j] = Pad /\ z[i] = p[j] /\ p[j] = Pad
            BY <1>2, <1>6, <3>2, <5>1
          <5> QED BY <5>2, <5>3, <5>4
        <4> QED BY <4>1, <4>2
      <3> QED BY <1>1, <1>2, <1>4, <3>2, <3>3, <3>4, SeqEqual
    <2>14. Leaves(o, t, u, k, x, v, k)
      BY <2>8, <2>10, <2>12, <2>13 DEF Leaves
    <2> QED BY <2>6, <2>7, <2>14
  <1>10. CASE ~(a <= m)
    <2>1. PICK e \in Nat : a = m + e
      <3>1. a - m \in Nat /\ a = m + (a - m)
        BY <1>10
      <3> QED BY <3>1
    <2>2. k = e + b /\ k # 0
      BY <1>7, <1>10, <2>1
    <2>3. PICK q \in Seq(T) : q = Pads(e) /\ Len(q) = e /\ \A i \in 1 .. e : q[i] = Pad
      BY <1>8
    <2>a. PICK z \in Seq(T) : Join(z, w, q, m, e)
      BY <1>3, <1>4, <2>3, JoinLemma
    <2>4. z = u \o q /\ Len(z) = m + e /\ (\A i \in 1 .. m : z[i] = u[i]) /\ \A i \in 1 .. e : z[m + i] = q[i]
      BY <1>3, <2>a DEF Join
    <2>5. o = z
      <3>1. ASSUME NEW i \in 1 .. a PROVE o[i] = z[i]
        <4>1. CASE i \in 1 .. m
          BY <1>5, <1>6, <2>4, <4>1
        <4>2. CASE i \notin 1 .. m
          <5>1. PICK j \in 1 .. e : i = m + j
            <6>1. i - m \in 1 .. e /\ i = m + (i - m)
              BY <2>1, <4>2
            <6> QED BY <6>1
          <5>2. j \in 1 .. k
            BY <2>2
          <5>3. s[m + j] = Pad /\ z[i] = Pad
            BY <1>6, <2>3, <2>4, <5>1, <5>2
          <5> QED BY <1>5, <5>1, <5>3
        <4> QED BY <4>1, <4>2
      <3> QED BY <1>1, <1>4, <2>1, <2>4, <3>1, SeqEqual
    <2>6. Unpadded(o) = u
      BY <2>3, <2>4, <2>5, UnpaddedLemma
    <2>7. PICK y \in Seq(T) : y = Pads(b) /\ Len(y) = b /\ \A i \in 1 .. b : y[i] = Pad
      BY <1>8
    <2>8. t = y
      <3>1. ASSUME NEW i \in 1 .. b PROVE t[i] = y[i]
        <4>1. e + i \in 1 .. k /\ a + i = m + (e + i)
          BY <2>1, <2>2
        <4> QED BY <1>5, <1>6, <2>7, <4>1
      <3> QED BY <1>1, <1>4, <2>7, <3>1, SeqEqual
    <2>9. <<>> \in Seq(Symbols) /\ u \o <<>> = u /\ <<>> \o y = y
      OBVIOUS
    <2>10. Leaves(o, t, u, k, u, <<>>, b)
      BY <2>2, <2>6, <2>7, <2>8, <2>9 DEF Leaves
    <2> QED BY <2>9, <2>10
  <1> QED BY <1>9, <1>10

LEMMA WordSending ==
    ASSUME NEW n, NEW drv, Reception(d, n, drv), Responding(d, gone), ShiftWord
    PROVE  Responding(d', gone')
  <1>1. Eonce(d) /\ d.out # <<>> /\ ~Uart(d) /\ ~Usb(d)
    BY DEF ShiftWord, Eonce, Uart, Usb
  <1>2. PICK u : Sending(d, gone, u)
    BY <1>1 DEF Responding, Listening, Ready
  <1>3. PICK o, t : o = d.out /\ t = d.tx
    OBVIOUS
  <1>4. /\ o \in Seq(Symbols \union {Pad}) /\ t \in Seq(Symbols \union {Pad}) /\ Len(t) <= Word
        /\ u \in Seq(Symbols) /\ (d.nTxTodo # 0 => o \o t = u)
    BY <1>1, <1>2, <1>3 DEF Sending, Holds, HoldsEonce, Unfilled
  <1>5. PICK k \in Nat : o \o t = u \o Pads(k) /\ (o \o t = u => k = 0)
    <2>1. PICK k \in Nat : o \o t = u \o Pads(k)
      BY <1>1, <1>2, <1>3 DEF Sending, Holds, HoldsEonce
    <2>2. Pads(0) = <<>> /\ u \o <<>> = u
      BY <1>4 DEF Pads
    <2>3. u \o Pads(0) = u
      BY <2>2
    <2> QED BY <2>1, <2>3
  <1>a. PICK x \in Seq(Symbols), v \in Seq(Symbols), l \in Nat : Leaves(o, t, u, k, x, v, l)
    BY <1>4, <1>5, WordLemma
  <1>6. u = x \o v /\ Unpadded(o) = x /\ t = v \o Pads(l) /\ (k = 0 => l = 0)
    BY <1>a DEF Leaves
  <1>7. PICK r : r = [d EXCEPT !.out = <<>>]
    OBVIOUS
  <1>8. d' = r /\ gone' = gone \o x
    BY <1>3, <1>6, <1>7 DEF ShiftWord, Hears
  <1>9. /\ r.drv = d.drv /\ r.mode = d.mode /\ r.fifo = d.fifo /\ r.rx = d.rx /\ r.attach = d.attach
        /\ r.bTxActive = d.bTxActive /\ r.bTxWaitTC = d.bTxWaitTC
        /\ r.bTxLastCharSOB = d.bTxLastCharSOB /\ r.nTxTodo = d.nTxTodo /\ r.pTxBuff = d.pTxBuff
        /\ r.buf = d.buf /\ r.answer = d.answer /\ r.txEnabled = d.txEnabled
        /\ r.tx = t /\ r.out = <<>> /\ r.txActive = d.txActive
    BY <1>3, <1>7 DEF Reception, IsDriver
  <1>10. <<>> \o t = t /\ <<>> \in Seq(Symbols \union {Pad})
    BY <1>4
  <1>11. Holds(r, v)
    <2>1. HoldsEonce(r, v)
      BY <1>4, <1>6, <1>9, <1>10 DEF HoldsEonce
    <2> QED BY <1>1, <1>9, <2>1 DEF Holds, Uart, Usb, Eonce
  <1>12. Unfilled(d, u) => Unfilled(r, v)
    <2>1. Unfilled(d, u) => l = 0
      BY <1>1, <1>3, <1>5, <1>6 DEF Unfilled
    <2>2. v \o <<>> = v /\ Pads(0) = <<>>
      BY DEF Pads
    <2>3. v \o Pads(0) = v
      BY <2>2
    <2>4. l = 0 => t = v
      BY <1>6, <2>3
    <2> QED BY <1>9, <1>10, <2>1, <2>4 DEF Unfilled
  <1>13. Roomy(r)
    BY <1>1, <1>9 DEF Roomy, Usb, Eonce
  <1>14. Sending(r, gone \o x, v)
    BY <1>2, <1>6, <1>9, <1>11, <1>12, <1>13, LeaveSending
  <1>15. Bounded(r) /\ Loaded(r)
    BY <1>1, <1>9 DEF Responding, Bounded, Loaded, Usb, Eonce
  <1> QED BY <1>8, <1>9, <1>14, <1>15 DEF Responding

LEMMA TakenSending ==
    ASSUME NEW n, NEW drv, Reception(d, n, drv), Responding(d, gone), ShiftPacket
    PROVE  Responding(d', gone')
  <1>1. Usb(d) /\ d.txActive /\ ~Uart(d) /\ ~Eonce(d)
    BY DEF ShiftPacket, Eonce, Uart, Usb
  <1>2. PICK u : Sending(d, gone, u)
    BY <1>1 DEF Responding, Listening, Ready
  <1>3. d.out = u /\ u \in Seq(Symbols)
    BY <1>1, <1>2 DEF Sending, Holds, HoldsUsb
  <1>4. PICK a, r : a = [d EXCEPT !.out = <<>>] /\ r = UsbSent(a)
    OBVIOUS
  <1>5. d' = Handled(r) /\ gone' = gone \o u
    BY <1>3, <1>4 DEF ShiftPacket, Hears
  <1>6. /\ IsDriver(r) /\ r.drv = d.drv /\ r.mode = d.mode /\ r.fifo = d.fifo /\ r.rx = d.rx /\ r.attach = d.attach
        /\ r.bTxActive = d.bTxActive /\ r.bTxWaitTC = d.bTxWaitTC
        /\ r.bTxLastCharSOB = d.bTxLastCharSOB /\ r.nTxTodo = d.nTxTodo /\ r.pTxBuff = d.pTxBuff
        /\ r.buf = d.buf /\ r.answer = d.answer /\ r.txEnabled = d.txEnabled
        /\ r.tx = <<>> /\ ~r.txActive
    <2>1. IsDriver(a) /\ a.txActive
      BY <1>1, <1>4 DEF Reception, IsDriver
    <2>2. /\ a.drv = d.drv /\ a.mode = d.mode /\ a.fifo = d.fifo /\ a.rx = d.rx /\ a.attach = d.attach
          /\ a.bTxActive = d.bTxActive /\ a.bTxWaitTC = d.bTxWaitTC
          /\ a.bTxLastCharSOB = d.bTxLastCharSOB /\ a.nTxTodo = d.nTxTodo /\ a.pTxBuff = d.pTxBuff
          /\ a.buf = d.buf /\ a.answer = d.answer /\ a.txEnabled = d.txEnabled
      BY <1>4 DEF Reception, IsDriver
    <2>3. r = [a EXCEPT !.tx = <<>>, !.txActive = FALSE]
      BY <1>4, <2>1 DEF UsbSent
    <2>4. /\ IsDriver(r) /\ r.drv = a.drv /\ r.mode = a.mode /\ r.fifo = a.fifo /\ r.rx = a.rx
          /\ r.attach = a.attach
          /\ r.bTxActive = a.bTxActive /\ r.bTxWaitTC = a.bTxWaitTC
          /\ r.bTxLastCharSOB = a.bTxLastCharSOB /\ r.nTxTodo = a.nTxTodo /\ r.pTxBuff = a.pTxBuff
          /\ r.buf = a.buf /\ r.answer = a.answer /\ r.txEnabled = a.txEnabled
          /\ r.tx = <<>> /\ ~r.txActive
      BY <2>1, <2>3 DEF IsDriver
    <2> QED BY <2>2, <2>4
  <1>7. PICK v \in Seq(Symbols) : v = <<>> /\ Len(v) = 0 /\ u \o v = u
    <2>1. <<>> \in Seq(Symbols) /\ Len(<<>>) = 0
      BY EmptySeq
    <2>2. u \o <<>> = u
      BY <1>3
    <2> QED BY <2>1, <2>2
  <1>8. Holds(r, v) /\ Unfilled(r, v) /\ Roomy(r)
    <2>1. 0 <= UsbSize /\ 0 < UsbSize
      BY DeviceAssumption
    <2> QED BY <1>1, <1>6, <1>7, <2>1 DEF Holds, HoldsUsb, Unfilled, Roomy, Uart, Usb, Eonce
  <1>9. Sending(r, gone \o u, v)
    BY <1>2, <1>3, <1>6, <1>7, <1>8, LeaveSending
  <1>10. Fresh(r)
    BY <1>1, <1>6 DEF Fresh, Usb
  <1>11. CASE Interrupts(r)
    <2>1. r.bTxActive
      BY <1>9 DEF Sending
    <2>2. PICK p : p = ProcessTx(r) /\ d' = p
      BY <1>5, <1>11, <2>1 DEF Handled, Process
    <2>3. /\ \E w : Sending(p, gone \o u, w) \/ Listening(p, gone \o u, w)
          /\ SameKind(p, r) /\ (~p.bTxActive \/ Full(p))
      BY <1>6, <1>9, <1>10, <2>2, ProcessTxSending
    <2>4. Bounded(p) /\ Loaded(p)
      BY <1>1, <1>6, <2>3 DEF Bounded, Loaded, SameKind, Full, Usb, Eonce
    <2>5. p.drv = d.drv /\ p.mode = d.mode
      BY <1>6, <2>3 DEF SameKind
    <2> QED BY <1>5, <2>2, <2>3, <2>4, <2>5 DEF Responding
  <1>12. CASE ~Interrupts(r)
    <2>1. d' = r /\ r.mode = "poll"
      BY <1>5, <1>12 DEF Handled, Interrupts
    <2>2. Bounded(r) /\ Loaded(r)
      BY <1>1, <1>6, <2>1 DEF Bounded, Loaded, Usb, Eonce
    <2> QED BY <1>5, <1>6, <1>9, <2>1, <2>2 DEF Responding
  <1> QED BY <1>11, <1>12

-----------------------------------------------------------------------------
(* The host's steps, and the start.                                        *)

LEMMA AttachSending ==
    ASSUME NEW n, NEW drv, Reception(d, n, drv), Responding(d, gone), NEW on, NEW r, r = [d EXCEPT !.attach = on]
    PROVE  Responding(r, gone)
  <1>1. /\ r.drv = d.drv /\ r.mode = d.mode /\ r.fifo = d.fifo /\ r.rx = d.rx
        /\ r.bTxActive = d.bTxActive /\ r.bTxWaitTC = d.bTxWaitTC /\ r.bTxLastCharSOB = d.bTxLastCharSOB
        /\ r.nTxTodo = d.nTxTodo /\ r.pTxBuff = d.pTxBuff /\ r.buf = d.buf /\ r.answer = d.answer
        /\ r.out = d.out /\ r.tx = d.tx /\ r.txActive = d.txActive /\ r.dtf = d.dtf /\ r.txEnabled = d.txEnabled
    BY DEF Reception, IsDriver
  <1>2. \A u : /\ Holds(d, u) => Holds(r, u)
               /\ Unfilled(d, u) => Unfilled(r, u)
    BY <1>1 DEF Holds, HoldsUart, HoldsUsb, HoldsEonce, Unfilled, Uart, Usb, Eonce
  <1>3. (Roomy(d) => Roomy(r)) /\ (Ready(d) => Ready(r))
    BY <1>1 DEF Roomy, Ready, Usb, Eonce
  <1>4. \A p : Sends(d, p) => Sends(r, p)
    BY <1>1 DEF Sends
  <1>5. PICK u : Sending(d, gone, u) \/ Listening(d, gone, u)
    BY DEF Responding
  <1>6. Sending(d, gone, u) => Sending(r, gone, u)
    BY <1>1, <1>2, <1>3, <1>4 DEF Sending, Usb
  <1>7. Listening(d, gone, u) => Listening(r, gone, u)
    BY <1>1, <1>2, <1>3 DEF Listening
  <1>8. Bounded(r) /\ Loaded(r)
    BY <1>1 DEF Responding, Bounded, Loaded, Usb, Eonce
  <1> QED BY <1>1, <1>5, <1>6, <1>7, <1>8 DEF Responding

LEMMA SendKeeps ==
    ASSUME NEW n, NEW drv, Reception(d, n, drv), Responding(d, gone), NEW i, Send(i)
    PROVE  Responding(d', gone')
  <1>1. PICK b, r : b = Eonce(d) /\ r = [d EXCEPT !.jtag = b] /\ d' = r /\ gone' = gone
    BY DEF Send
  <1>2. SameTx(r, d) /\ r.fifo = d.fifo /\ r.rx = d.rx
    BY <1>1 DEF Reception, IsDriver, SameTx, SameOut, SameTask
  <1> QED BY <1>1, <1>2, SameResponding, ReceivedBounded

LEMMA InitResponding == Init => Responding(d, gone)
  <1> SUFFICES ASSUME Init PROVE Responding(d, gone)
    OBVIOUS
  <1>1. PICK build \in Builds : d = SerialInit(build[1], build[2])
    BY DEF Init
  <1>2. PICK drv, mode : drv = build[1] /\ mode = build[2] /\ build = <<drv, mode>> /\ drv \in Drivers
    BY LinkAssumption DEF Supported, Drivers
  <1>3. PICK b, q : b = [i \in 0 .. BufEnd |-> Plain(0)] /\ q = RingBuffCreate(Plain(0))
    OBVIOUS
  <1>4. PICK e : e = [drv |-> drv, mode |-> mode,
            bTxActive |-> FALSE, bTxWaitTC |-> FALSE, bTxLastCharSOB |-> FALSE,
            bRxLastCharSOB |-> FALSE, bRxMsgLengthNext |-> FALSE,
            nTxTodo |-> 0, nRxTodo |-> 0, pTxBuff |-> Null, pRxBuff |-> Null, crc |-> <<>>,
            buf |-> b,
            queue |-> q,
            fifo |-> <<>>, rx |-> <<>>, tx |-> <<>>, out |-> <<>>,
            rxOn |-> TRUE, rxInt |-> FALSE, txInt |-> FALSE, tcInt |-> FALSE,
            txEnabled |-> TRUE, txActive |-> FALSE, attach |-> FALSE,
            dtf |-> FALSE, tdfNeedRead |-> FALSE, riePending |-> FALSE, jtag |-> FALSE,
            decoded |-> <<>>, answer |-> <<>>]
    OBVIOUS
  <1>5. d = Listen(e)
    BY <1>1, <1>2, <1>3, <1>4 DEF SerialInit
  <1>6. /\ IsDriver(e) /\ e.drv = drv /\ e.mode = mode /\ e.fifo = <<>> /\ e.rx = <<>> /\ e.tx = <<>>
        /\ e.out = <<>> /\ ~e.txActive /\ ~e.dtf /\ e.answer = <<>>
    BY <1>2, <1>4 DEF IsDriver
  <1>7. PICK u \in Seq(Symbols) : u = <<>> /\ Len(u) = 0
    BY EmptySeq
  <1>8. 0 <= UsbSize /\ 0 < UsbSize
    BY DeviceAssumption
  <1>9. Holds(e, u)
    <2>1. HoldsEonce(e, u)
      <3>1. <<>> \o <<>> = <<>> /\ Pads(0) = <<>>
        BY DEF Pads
      <3>2. e.out \o e.tx = u \o Pads(0) /\ 0 \in Nat
        BY <1>6, <1>7, <3>1
      <3>3. <<>> \in Seq(Symbols \union {Pad})
        OBVIOUS
      <3>4. Len(e.tx) <= Word
        BY <1>6, <1>7 DEF Word
      <3> QED BY <1>6, <3>2, <3>3, <3>4 DEF HoldsEonce
    <2> QED BY <1>6, <1>7, <1>8, <2>1 DEF Holds, HoldsUart, HoldsUsb
  <1>10. Ready(e)
    BY <1>6, <1>7, <1>8 DEF Ready, Roomy, TxDepth
  <1>11. /\ ~d.bTxActive /\ Holds(d, u) /\ Unfilled(d, u) /\ Ready(d)
         /\ d.answer = e.answer /\ SameKind(d, e)
    BY <1>5, <1>6, <1>9, <1>10, ListenTx
  <1>12. Shown(gone, u, d.answer) /\ Len(gone) + Len(u) = Len(d.answer)
    BY <1>6, <1>7, <1>11 DEF Init, Shown
  <1>13. Listening(d, gone, u)
    BY <1>11, <1>12 DEF Listening
  <1>14. d.drv = drv /\ d.mode = mode /\ d.fifo = <<>> /\ d.rx = <<>>
    BY <1>6, <1>11 DEF SameKind, Quieter
  <1>15. Bounded(d) /\ Loaded(d)
    BY <1>7, <1>11, <1>14 DEF Bounded, Loaded
  <1> QED BY <1>2, <1>13, <1>14, <1>15 DEF Responding

LEMMA StepResponding ==
    ASSUME Shallow, ~Overlap, IInv, Responding(d, gone), [Next]_vars
    PROVE  Responding(d', gone')
  <1>1. Reception(d, request, d.drv) /\ line \in Seq(Chars(request))
    BY DEF IInv
  <1>2. CASE ProcessSerial
    <2>1. d' = Process(d) /\ gone' = Left(d', d, gone)
      BY <1>2 DEF ProcessSerial, Became, Left
    <2> QED BY <1>1, <2>1, ProcessSending
  <1>3. CASE RxDequeue
    BY <1>1, <1>3, DequeueSending
  <1>4. CASE DevicePoll
    <2>1. PICK r : r = EoncePoll(d) /\ d' = r /\ gone' = Left(r, d, gone)
      BY <1>4 DEF DevicePoll, Became, Left
    <2>2. SameTx(r, d) /\ r.fifo = d.fifo /\ r.rx = d.rx
      BY <1>1, <2>1 DEF EoncePoll, EonceEnableReceiveInterrupt, Reception, IsDriver, SameTx, SameOut, SameTask
    <2>3. gone' = gone
      BY <2>1, <2>2 DEF Left, SameTx, SameOut, SameTask
    <2> QED BY <2>1, <2>2, <2>3, SameResponding, ReceivedBounded
  <1>5. CASE DeliverChar
    BY <1>1, <1>5, ArrivesSending DEF DeliverChar
  <1>6. CASE DeliverWord
    <2>1. PICK f, r : f = SubSeq(line, 1, Word) /\ r = [d EXCEPT !.fifo = f] /\ d' = r /\ gone' = gone /\ Eonce(d)
      BY <1>6 DEF DeliverWord
    <2>2. SameTx(r, d) /\ r.rx = d.rx
      BY <1>1, <2>1 DEF Reception, IsDriver, SameTx, SameOut, SameTask
    <2>3. Bounded(r)
      BY <2>1, <2>2 DEF Responding, Bounded, SameTx, SameOut, SameTask, Eonce
    <2> QED BY <2>1, <2>2, <2>3, SameResponding
  <1>7. CASE DeliverPacket
    BY <1>1, <1>7, PacketSending
  <1>8. CASE Garble
    <2>1. gone' = gone /\ (d' = d \/ (Len(d.fifo) < RxDepth /\ \E c : d' = Arrives(c)))
      BY <1>8 DEF Garble
    <2> QED BY <1>1, <2>1, ArrivesSending
  <1>9. CASE ShiftChar
    BY <1>1, <1>9, CharSending
  <1>10. CASE ShiftWord
    BY <1>1, <1>10, WordSending
  <1>11. CASE ShiftPacket
    BY <1>1, <1>11, TakenSending
  <1>12. CASE UsbReset \/ UsbConfigure
    <2>1. gone' = gone /\ \E on : d' = [d EXCEPT !.attach = on]
      BY <1>12 DEF UsbReset, UsbConfigure, UsbBusReset, UsbSetConfiguration
    <2> QED BY <1>1, <2>1, AttachSending
  <1>13. CASE HostSend \/ HostSendEarly \/ HostNext
    <2>1. (\E i : Send(i)) \/ (d' = d /\ gone' = gone)
      BY <1>13 DEF HostSend, HostSendEarly, HostNext
    <2> QED BY <1>1, <2>1, SendKeeps
  <1>14. CASE Finished \/ UNCHANGED vars
    BY <1>14 DEF Finished, vars
  <1> QED BY <1>2, <1>3, <1>4, <1>5, <1>6, <1>7, <1>8, <1>9, <1>10, <1>11, <1>12, <1>13, <1>14
          DEF Next, Deliver, Shift

LEMMA RespondingIntact ==
    ASSUME IsDriver(d), Responding(d, gone)
    PROVE  ResponseIntact
  <1>1. PICK u : Sending(d, gone, u) \/ Listening(d, gone, u)
    BY DEF Responding
  <1>2. Unsent(d) = u /\ u \in Seq(Symbols) /\ Shown(gone, u, d.answer)
    BY <1>1, UnsentLemma DEF Sending, Listening, Holds
  <1>3. PICK g \in Seq(Symbols), a \in Seq(Symbols) : g = gone /\ a = d.answer
    BY <1>2 DEF Shown
  <1>4. PICK i \in Nat, j \in Nat, k \in Nat : i = Len(g) /\ j = Len(u) /\ k = Len(a) /\ i + j <= k
    BY <1>2, <1>3, LenLemma DEF Shown
  <1>5. PICK s \in Seq(Symbols) : Join(s, g, u, i, j)
    BY <1>2, <1>3, <1>4, JoinLemma
  <1>6. s = gone \o Unsent(d) /\ Len(s) = i + j
    BY <1>2, <1>3, <1>5 DEF Join
  <1>7. ASSUME NEW l \in 1 .. i + j PROVE s[l] = a[l]
    <2>1. CASE l \in 1 .. i
      <3>1. s[l] = g[l]
        BY <1>5, <2>1 DEF Join
      <3>2. a[l] = g[l]
        BY <1>2, <1>3, <1>4, <2>1 DEF Shown
      <3> QED BY <3>1, <3>2
    <2>2. CASE l \notin 1 .. i
      <3>1. PICK p \in 1 .. j : l = i + p
        <4>1. l - i \in 1 .. j /\ l = i + (l - i)
          BY <2>2
        <4> QED BY <4>1
      <3>2. s[l] = u[p]
        BY <1>5, <3>1 DEF Join
      <3>3. a[l] = u[p]
        BY <1>2, <1>3, <1>4, <3>1 DEF Shown
      <3> QED BY <3>2, <3>3
    <2> QED BY <2>1, <2>2
  <1>8. IsPrefix(s, a)
    <2>1. SubSeq(a, 1, i + j) = [l \in 1 .. i + j |-> a[l]]
      BY <1>4
    <2>2. s = [l \in 1 .. i + j |-> s[l]]
      BY <1>6, ElementsLemma DEF IsSequence
    <2>3. s = SubSeq(a, 1, i + j)
      BY <1>7, <2>1, <2>2
    <2> QED BY <1>4, <1>6, <2>3 DEF IsPrefix
  <1>9. ASSUME ~d.bTxActive PROVE s = a
    <2>1. i + j = k
      BY <1>1, <1>3, <1>4, <1>9 DEF Sending, Listening
    <2> QED BY <1>4, <1>6, <1>7, <2>1, SeqEqual
  <1> QED BY <1>3, <1>6, <1>8, <1>9 DEF ResponseIntact

\* What leaves a device is the response that was begun, whole, with every
\* driver, build, queue, buffer and fault of the line, if a UART's FIFO that is
\* not read into a queue holds two characters at most, and the host fetches what
\* waits for it on USB before it sends (ResponseIntact).
THEOREM ResponsesAreIntact == ASSUME Shallow, ~Overlap PROVE Spec => []ResponseIntact
  <1>1. Init => IInv /\ Responding(d, gone)
    BY InitIInv, InitResponding
  <1>2. IInv /\ Responding(d, gone) /\ [Next]_vars => (IInv /\ Responding(d, gone))'
    BY StepIInv, StepResponding
  <1>3. IInv /\ Responding(d, gone) => ResponseIntact
    BY RespondingIntact DEF IInv, Reception
  <1> QED BY <1>1, <1>2, <1>3, PTL DEF Spec
=============================================================================

--------------------------- MODULE SerialDevices ---------------------------
(***************************************************************************)
(* The devices below the serial transport (FMSTR_SERIAL_DRV_INTF): two of  *)
(* the UART drivers of the SDK, LPUART with a transmitter and a receiver   *)
(* that are switched on and off, USART with neither; LINFlexD of the S32   *)
(* drivers; the UART of Zephyr; the USB CDC driver with the application    *)
(* that owns the USB stack; and EOnCE, which exchanges words of four       *)
(* characters over JTAG.                                                   *)
(*                                                                         *)
(* Every routine is an operator from the state of the transport, a record, *)
(* to the next.  Fields of the device: drv, the driver; mode, what calls   *)
(* it; fifo, what the hardware has received; rx, what the driver has read  *)
(* of it in advance; tx, what the driver has not handed over yet; out,     *)
(* what the hardware has to send; rxOn; the interrupts rxInt, txInt and    *)
(* tcInt.  Some drivers have flags of their own, with the source's names.  *)
(***************************************************************************)
EXTENDS Integers, SequencesExt

CONSTANTS
    UsbSize,   \* FMSTR_USB_TX_BUFFER_SIZE, also the size of a USB packet
    UsbQueue   \* how many characters fit into the receive queue of the USB driver

ASSUME DeviceAssumption == {UsbSize, UsbQueue} \subseteq Nat \ {0}

Word == 4      \* characters in a word of EOnCE
TxDepth == 2   \* a UART holds a character it sends and one more

\* What fills a word up, and what a host confirms a word with.  It belongs to
\* no frame, whatever its bits.
Pad == [byte |-> -1, of |-> <<>>]

Padded(s) == s \o [i \in 1 .. (-Len(s)) % Word |-> Pad]

\* Words are filled up at their end only.
Unpadded(s) == SubSeq(s, 1, Min({n \in 0 .. Len(s) : \A i \in n + 1 .. Len(s) : s[i] = Pad}))

Interrupts(d) == d.mode # "poll"
-----------------------------------------------------------------------------
(* LPUART.  A switched off transmitter sends no more, a switched off       *)
(* receiver takes nothing in; what it has taken can still be read.  A      *)
(* character put while the register is full takes the place of the one in  *)
(* it.                                                                     *)

LpuartEnableTransmit(d, enable) == IF enable THEN d ELSE [d EXCEPT !.out = <<>>]
LpuartEnableReceive(d, enable) == [d EXCEPT !.rxOn = enable]
LpuartEnableTransmitInterrupt(d, enable) == [d EXCEPT !.txInt = enable]
LpuartEnableTransmitCompleteInterrupt(d, enable) == [d EXCEPT !.tcInt = enable]
LpuartEnableReceiveInterrupt(d, enable) == [d EXCEPT !.rxInt = enable]
LpuartIsTransmitRegEmpty(d) == Len(d.out) < TxDepth
LpuartIsReceiveRegFull(d) == d.fifo # <<>>
LpuartIsTransmitterActive(d) == d.out # <<>>
LpuartPutChar(d, c) ==
    [d EXCEPT !.out = IF LpuartIsTransmitRegEmpty(d) THEN Append(@, c) ELSE [@ EXCEPT ![TxDepth] = c]]
LpuartGetChar(d) == [d EXCEPT !.fifo = Tail(@)]
-----------------------------------------------------------------------------
(* USART.  One interrupt tells of room in the FIFO and of an idle line.    *)

UsartEnableTransmit(d, enable) == d
UsartEnableReceive(d, enable) == d
UsartEnableTransmitInterrupt(d, enable) == [d EXCEPT !.txInt = enable]
UsartEnableTransmitCompleteInterrupt(d, enable) == UsartEnableTransmitInterrupt(d, enable)
UsartEnableReceiveInterrupt(d, enable) == [d EXCEPT !.rxInt = enable]
UsartIsTransmitRegEmpty(d) == Len(d.out) < TxDepth
UsartIsReceiveRegFull(d) == d.fifo # <<>>
UsartIsTransmitterActive(d) == d.out # <<>>
UsartPutChar(d, c) == IF UsartIsTransmitRegEmpty(d) THEN [d EXCEPT !.out = Append(@, c)] ELSE d
UsartGetChar(d) == [d EXCEPT !.fifo = Tail(@)]
-----------------------------------------------------------------------------
(* LINFlexD.  It holds one character each way.  DTF tells that one has     *)
(* left; it is both the register that is empty and the transmitter that is *)
(* idle, and its interrupt is both interrupts.  DTF and DRF, a character   *)
(* is received, share a register and are cleared by writing a one: the     *)
(* driver's |= that clears the one clears the other with it.               *)

LinflexdEnableTransmit(d, enable) == IF enable THEN d ELSE [d EXCEPT !.out = <<>>]
LinflexdEnableReceive(d, enable) == [d EXCEPT !.rxOn = enable]
LinflexdEnableTransmitInterrupt(d, enable) == [d EXCEPT !.txInt = enable]
LinflexdEnableTransmitCompleteInterrupt(d, enable) == [d EXCEPT !.txInt = enable]
LinflexdEnableReceiveInterrupt(d, enable) == [d EXCEPT !.rxInt = enable]
LinflexdIsTransmitRegEmpty(d) == d.dtf
LinflexdIsReceiveRegFull(d) == d.fifo # <<>>
LinflexdIsTransmitterActive(d) == ~d.dtf
LinflexdPutChar(d, c) == [d EXCEPT !.out = <<c>>, !.dtf = FALSE, !.fifo = <<>>]
LinflexdGetChar(d) == [d EXCEPT !.fifo = <<>>, !.dtf = FALSE]
-----------------------------------------------------------------------------
(* The UART of Zephyr.  It never tells that it still sends, so that the    *)
(* receiver, which is always on, is listened to before the FIFO is empty.  *)
(* Zephyr tells of room and of data only while their interrupt is on.      *)

ZephyrEnableTransmit(d, enable) == d
ZephyrEnableReceive(d, enable) == d
ZephyrEnableTransmitInterrupt(d, enable) == [d EXCEPT !.txInt = enable]
ZephyrEnableTransmitCompleteInterrupt(d, enable) == d
ZephyrEnableReceiveInterrupt(d, enable) == [d EXCEPT !.rxInt = enable]
ZephyrIsTransmitRegEmpty(d) == d.txInt /\ Len(d.out) < TxDepth

\* One character is read in advance: rxChar, and rxCharValid.
ZephyrTakeChar(d) ==
    IF d.rx = <<>> /\ d.rxInt /\ d.fifo # <<>>
    THEN [d EXCEPT !.rx = <<Head(d.fifo)>>, !.fifo = Tail(@)]
    ELSE d

ZephyrIsReceiveRegFull(d) == d.rx # <<>>
ZephyrIsTransmitterActive(d) == FALSE
ZephyrPutChar(d, c) == IF Len(d.out) < TxDepth THEN [d EXCEPT !.out = Append(@, c)] ELSE d
ZephyrGetChar(d) == [d EXCEPT !.rx = <<>>]
-----------------------------------------------------------------------------
(* USB.  The buffer is handed to the USB stack when it has just become     *)
(* full and when it is flushed; it is in use, txActive, until the stack    *)
(* tells that the host has taken it.                                       *)

UsbEnableTx(d, enable) == [d EXCEPT !.txEnabled = enable]
UsbEnableRx(d, enable) == [d EXCEPT !.rxOn = enable]

\* fmstr_txFunc, of the application: it refuses while no host is attached.
UsbTxFunction(d) == [d EXCEPT !.out = IF d.attach THEN d.tx ELSE @, !.txActive = d.attach]

\* Mutant of UsbFlush: only a full buffer is sent.
UsbFlushFull(d) == IF Len(d.tx) < UsbSize THEN d ELSE UsbTxFunction(d)

UsbFlush(d) == IF d.tx = <<>> THEN d ELSE UsbTxFunction(d)

UsbMayTransmit(d) == d.txEnabled /\ ~d.txActive
UsbTakeTransmitReg(d) == IF UsbMayTransmit(d) /\ Len(d.tx) = UsbSize THEN UsbFlush(d) ELSE d
UsbIsTransmitRegEmpty(d) == UsbMayTransmit(d) /\ Len(d.tx) < UsbSize
UsbIsReceiveRegFull(d) == d.rxOn /\ d.rx # <<>>
UsbIsTransmitterActive(d) == d.txActive

UsbPutChar(d, c) ==
    LET e == [d EXCEPT !.tx = Append(@, c)]
    IN  CASE Len(d.tx) >= UsbSize -> d
          [] Len(d.tx) < UsbSize /\ Len(e.tx) = UsbSize -> UsbFlush(e)
          [] OTHER -> e

UsbGetChar(d) == [d EXCEPT !.rx = IF @ = <<>> THEN @ ELSE Tail(@)]

\* FMSTR_SerialUsbProcessEvent, without the calls of FMSTR_ProcessSerial.
UsbSent(d) == IF d.txActive THEN [d EXCEPT !.tx = <<>>, !.txActive = FALSE] ELSE d

\* The application receives into the buffer that it sends from: a packet that
\* comes while one waits to be fetched takes the place of its characters.
Overwritten(out, data) == [i \in DOMAIN out |-> IF i <= Len(data) THEN data[i] ELSE out[i]]

UsbReceived(d, data) ==
    [d EXCEPT !.rx = SubSeq(@ \o data, 1, Min({Len(@ \o data), UsbQueue})),
              !.out = IF d.txActive THEN Overwritten(@, data) ELSE @]

\* The host resets the device, and chooses its configuration.
UsbBusReset(d) == [d EXCEPT !.attach = FALSE]
UsbSetConfiguration(d) == [d EXCEPT !.attach = TRUE]
-----------------------------------------------------------------------------
(* EOnCE.  A word leaves when the word before it has left.  On old parts,  *)
(* "eonceTdf", the device tells too early that it has; there the host      *)
(* confirms every word with one of its own.                                *)

Confirms(d) == d.drv = "eonceTdf"

\* _FMSTR_56F800E_EOnCE_ReadTDF: it may take the confirmation, and then it
\* tells whether the transmitter is active.
EonceReadTDF(d) ==
    IF d.tdfNeedRead /\ d.fifo # <<>> THEN [d EXCEPT !.fifo = <<>>, !.tdfNeedRead = FALSE] ELSE d
EonceTDF(d) == d.out # <<>> \/ d.tdfNeedRead

EonceTryTransmitData(d) ==
    LET e == EonceReadTDF(d)
    IN  IF EonceTDF(e) THEN e
        ELSE [e EXCEPT !.out = d.tx, !.tx = <<>>, !.tdfNeedRead = Confirms(d)]

EonceEnableTransmit(d, enable) == IF enable THEN d ELSE [d EXCEPT !.tx = <<>>, !.tdfNeedRead = FALSE]
EonceEnableReceive(d, enable) == IF enable THEN d ELSE [d EXCEPT !.rx = <<>>]
EonceEnableTransmitInterrupt(d, enable) == [d EXCEPT !.txInt = enable]
EonceEnableTransmitCompleteInterrupt(d, enable) == EonceEnableTransmitInterrupt(d, enable)

\* The interrupt cannot be enabled before the host has accessed the device;
\* the driver's Poll tries again.
EonceEnableReceiveInterrupt(d, enable) ==
    [d EXCEPT !.rxInt = enable /\ d.jtag, !.riePending = enable /\ ~d.jtag]

EoncePoll(d) ==
    IF Interrupts(d) /\ d.riePending THEN EonceEnableReceiveInterrupt(d, TRUE) ELSE d

EonceTakeTransmitReg(d) == IF Len(d.tx) < Word THEN d ELSE EonceTryTransmitData(d)
EonceIsTransmitRegEmpty(d) == Len(d.tx) < Word

EonceTryReceiveData(d) ==
    IF d.rx = <<>> /\ d.fifo # <<>> THEN [d EXCEPT !.rx = d.fifo, !.fifo = <<>>] ELSE d

EonceIsReceiveRegFull(d) == d.rx # <<>>

EonceTakeActive(d) ==
    LET e == IF Len(d.tx) = Word THEN EonceTryTransmitData(d) ELSE d
    IN  IF e.tx = <<>> THEN EonceReadTDF(e) ELSE e

EonceIsTransmitterActive(d) == d.tx # <<>> \/ EonceTDF(d)

EoncePutChar(d, c) ==
    LET e == [d EXCEPT !.tx = Append(@, c)]
    IN  IF Len(e.tx) = Word THEN EonceTryTransmitData(e) ELSE e

EonceGetChar(d) == [d EXCEPT !.rx = Tail(@)]

EonceFlush(d) ==
    IF d.tx = <<>> THEN d ELSE EonceTryTransmitData([d EXCEPT !.tx = Padded(@)])
-----------------------------------------------------------------------------
(* The interface.                                                          *)

Uart(d) == d.drv \in {"lpuart", "usart", "linflexd", "zephyr"}
Eonce(d) == d.drv \in {"eonce", "eonceTdf"}
Usb(d) == d.drv = "usb"

EnableTransmit(d, enable) ==
    CASE d.drv = "lpuart" -> LpuartEnableTransmit(d, enable)
      [] d.drv = "usart"  -> UsartEnableTransmit(d, enable)
      [] d.drv = "linflexd" -> LinflexdEnableTransmit(d, enable)
      [] d.drv = "zephyr" -> ZephyrEnableTransmit(d, enable)
      [] Usb(d)           -> UsbEnableTx(d, enable)
      [] Eonce(d)         -> EonceEnableTransmit(d, enable)

EnableReceive(d, enable) ==
    CASE d.drv = "lpuart" -> LpuartEnableReceive(d, enable)
      [] d.drv = "usart"  -> UsartEnableReceive(d, enable)
      [] d.drv = "linflexd" -> LinflexdEnableReceive(d, enable)
      [] d.drv = "zephyr" -> ZephyrEnableReceive(d, enable)
      [] Usb(d)           -> UsbEnableRx(d, enable)
      [] Eonce(d)         -> EonceEnableReceive(d, enable)

\* The three interrupts, in a driver built to use them.
EnableTransmitInterrupt(d, enable) ==
    CASE ~Interrupts(d) \/ Usb(d) -> d
      [] Interrupts(d) /\ d.drv = "lpuart" -> LpuartEnableTransmitInterrupt(d, enable)
      [] Interrupts(d) /\ d.drv = "usart"  -> UsartEnableTransmitInterrupt(d, enable)
      [] Interrupts(d) /\ d.drv = "linflexd" -> LinflexdEnableTransmitInterrupt(d, enable)
      [] Interrupts(d) /\ d.drv = "zephyr" -> ZephyrEnableTransmitInterrupt(d, enable)
      [] Interrupts(d) /\ Eonce(d)         -> EonceEnableTransmitInterrupt(d, enable)

EnableTransmitCompleteInterrupt(d, enable) ==
    CASE ~Interrupts(d) \/ Usb(d) -> d
      [] Interrupts(d) /\ d.drv = "lpuart" -> LpuartEnableTransmitCompleteInterrupt(d, enable)
      [] Interrupts(d) /\ d.drv = "usart"  -> UsartEnableTransmitCompleteInterrupt(d, enable)
      [] Interrupts(d) /\ d.drv = "linflexd" -> LinflexdEnableTransmitCompleteInterrupt(d, enable)
      [] Interrupts(d) /\ d.drv = "zephyr" -> ZephyrEnableTransmitCompleteInterrupt(d, enable)
      [] Interrupts(d) /\ Eonce(d)         -> EonceEnableTransmitCompleteInterrupt(d, enable)

EnableReceiveInterrupt(d, enable) ==
    CASE ~Interrupts(d) \/ Usb(d) -> d
      [] Interrupts(d) /\ d.drv = "lpuart" -> LpuartEnableReceiveInterrupt(d, enable)
      [] Interrupts(d) /\ d.drv = "usart"  -> UsartEnableReceiveInterrupt(d, enable)
      [] Interrupts(d) /\ d.drv = "linflexd" -> LinflexdEnableReceiveInterrupt(d, enable)
      [] Interrupts(d) /\ d.drv = "zephyr" -> ZephyrEnableReceiveInterrupt(d, enable)
      [] Interrupts(d) /\ Eonce(d)         -> EonceEnableReceiveInterrupt(d, enable)

\* Asking a device may change it: Take... is what the question does to it, Is...
\* the answer then.
TakeTransmitReg(d) ==
    CASE Usb(d)   -> UsbTakeTransmitReg(d)
      [] Eonce(d) -> EonceTakeTransmitReg(d)
      [] Uart(d)  -> d

IsTransmitRegEmpty(d) ==
    CASE d.drv = "lpuart" -> LpuartIsTransmitRegEmpty(d)
      [] d.drv = "usart"  -> UsartIsTransmitRegEmpty(d)
      [] d.drv = "linflexd" -> LinflexdIsTransmitRegEmpty(d)
      [] d.drv = "zephyr" -> ZephyrIsTransmitRegEmpty(d)
      [] Usb(d)           -> UsbIsTransmitRegEmpty(d)
      [] Eonce(d)         -> EonceIsTransmitRegEmpty(d)

TakeReceiveReg(d) ==
    CASE d.drv = "zephyr" -> ZephyrTakeChar(d)
      [] Eonce(d) -> EonceTryReceiveData(d)
      [] OTHER -> d

IsReceiveRegFull(d) ==
    CASE d.drv = "lpuart" -> LpuartIsReceiveRegFull(d)
      [] d.drv = "usart"  -> UsartIsReceiveRegFull(d)
      [] d.drv = "linflexd" -> LinflexdIsReceiveRegFull(d)
      [] d.drv = "zephyr" -> ZephyrIsReceiveRegFull(d)
      [] Usb(d)           -> UsbIsReceiveRegFull(d)
      [] Eonce(d)         -> EonceIsReceiveRegFull(d)

TakeActive(d) == IF Eonce(d) THEN EonceTakeActive(d) ELSE d

IsTransmitterActive(d) ==
    CASE d.drv = "lpuart" -> LpuartIsTransmitterActive(d)
      [] d.drv = "usart"  -> UsartIsTransmitterActive(d)
      [] d.drv = "linflexd" -> LinflexdIsTransmitterActive(d)
      [] d.drv = "zephyr" -> ZephyrIsTransmitterActive(d)
      [] Usb(d)           -> UsbIsTransmitterActive(d)
      [] Eonce(d)         -> EonceIsTransmitterActive(d)

PutChar(d, c) ==
    CASE d.drv = "lpuart" -> LpuartPutChar(d, c)
      [] d.drv = "usart"  -> UsartPutChar(d, c)
      [] d.drv = "linflexd" -> LinflexdPutChar(d, c)
      [] d.drv = "zephyr" -> ZephyrPutChar(d, c)
      [] Usb(d)           -> UsbPutChar(d, c)
      [] Eonce(d)         -> EoncePutChar(d, c)

\* The character a full device gives, and the device without it.
ReceivedChar(d) == IF d.drv \in {"lpuart", "usart", "linflexd"} THEN Head(d.fifo) ELSE Head(d.rx)

GetChar(d) ==
    CASE d.drv = "lpuart" -> LpuartGetChar(d)
      [] d.drv = "usart"  -> UsartGetChar(d)
      [] d.drv = "linflexd" -> LinflexdGetChar(d)
      [] d.drv = "zephyr" -> ZephyrGetChar(d)
      [] Usb(d)           -> UsbGetChar(d)
      [] Eonce(d)         -> EonceGetChar(d)

Flush(d) ==
    CASE Usb(d)   -> UsbFlush(d)
      [] Eonce(d) -> EonceFlush(d)
      [] Uart(d)  -> d

\* The hardware's reasons for an interrupt; the USB driver has events instead.
Interrupted(d) ==
    /\ Interrupts(d) /\ ~Usb(d)
    /\ \/ d.rxInt /\ d.fifo # <<>>
       \/ d.txInt /\ (CASE Eonce(d) -> d.out = <<>>
                         [] d.drv = "linflexd" -> d.dtf
                         [] OTHER -> Len(d.out) < TxDepth)
       \/ d.tcInt /\ d.out = <<>>

\* What the device has in its hands and what has not left it.
Unsent(d) == Unpadded(IF Usb(d) THEN (IF d.txActive THEN d.out ELSE d.tx) ELSE d.out \o d.tx)

\* How many characters a device takes before it is full.
Room(d) ==
    CASE Uart(d)  -> TxDepth
      [] Usb(d)   -> UsbSize
      [] Eonce(d) -> 2 * Word
=============================================================================

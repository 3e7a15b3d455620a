------------------------------- MODULE Serial -------------------------------
(***************************************************************************)
(* The serial transport (freemaster_serial.c): the receiver and            *)
(* transmitter of characters, which share one buffer and drive a device.   *)
(* A frame is a start-of-block character, SOB, a body in which every SOB   *)
(* is doubled, and a checksum.  Each routine is an operator from the state *)
(* of the transport, a record with the source's names, to the next.        *)
(*                                                                         *)
(* A character is a byte and, when it is a checksum, what it was computed  *)
(* from: a checksum matches only the bytes it covers.  The value of its    *)
(* byte decides whether it has to be doubled, nothing else.                *)
(*                                                                         *)
(* Two fields of the record are history: decoded is the command that was   *)
(* handed to the decoder last, answer what was to leave the device when a  *)
(* response was begun, the frame that it was meant to become at its end.   *)
(***************************************************************************)
EXTENDS RingQueue, SerialDevices

CONSTANTS
    Size8,        \* the range of FMSTR_SIZE8, 256 in the code
    CommSize,     \* FMSTR_COMM_BUFFER_SIZE
    Requests,     \* the commands the decoder knows, with their answers
    SOB, OK, VarOK, CmdCsErr, CmdTooLong, RspBuffOvf, InvCmd  \* bytes

ASSUME SerialAssumption ==
    /\ Size8 \in Nat /\ CommSize \in 2 .. Size8 - 2
    /\ {SOB, OK, VarOK, CmdCsErr, CmdTooLong, RspBuffOvf, InvCmd} \subseteq 0 .. Size8 - 1
    /\ SOB \notin {OK, VarOK, CmdCsErr, CmdTooLong, RspBuffOvf, InvCmd}

Byte == 0 .. Size8 - 1

BufEnd == CommSize + 6  \* the last byte of fmstr_pCommBuffer

\* An answer fits into the buffer, behind its status and its length.
ASSUME RequestsAssumption ==
    /\ Requests \in Seq([cmd : Byte, args : Seq(Byte), status : Byte, data : Seq(Byte)])
    /\ \A i \in DOMAIN Requests : Requests[i].cmd # SOB /\ Len(Requests[i].args) < Size8 - 1
    /\ \A i \in DOMAIN Requests : Len(Requests[i].data) + 2 <= BufEnd

Null == -1              \* the NULL of pRxBuff

\* FMSTR_STSF_VARLEN: a length byte follows this status.
VarLen(status) == status = VarOK

Plain(b) == [byte |-> b, of |-> <<>>]

\* FMSTR_Crc8AddByte over a body, reduced to a sum.
Check(body) == [byte |-> FoldLeft(LAMBDA x, y : x + y, 0, body) % Size8, of |-> body]

\* A frame as characters on the line.
Wire(body) ==
    LET chars == Append([i \in DOMAIN body |-> Plain(body[i])], Check(body))
    IN  <<Plain(SOB)>> \o
        FlattenSeq([i \in DOMAIN chars |-> IF chars[i].byte = SOB THEN <<chars[i], chars[i]>>
                                                                  ELSE <<chars[i]>>])

WireOfCommand(r) == Wire(<<r.cmd, Len(r.args)>> \o r.args)

WireOfAnswer(status, data) ==
    Wire(IF VarLen(status) THEN <<status, Len(data)>> \o data ELSE <<status>> \o data)
-----------------------------------------------------------------------------
(* Transmitting.                                                           *)

\* The device as it is for receiving: transmitter off, receiver on.
Idle(d) ==
    LET e == EnableTransmit([d EXCEPT !.nRxTodo = 0, !.bTxActive = FALSE, !.bTxWaitTC = FALSE], FALSE)
    IN  EnableTransmitCompleteInterrupt(EnableTransmitInterrupt(EnableReceive(e, TRUE), FALSE), FALSE)

Listen(d) == EnableReceiveInterrupt(Idle(d), TRUE)

\* The device is turned from receiving to transmitting, and the frame begun.
StartBlock(d) ==
    LET e == TakeTransmitReg(EnableTransmit(EnableReceive(d, FALSE), TRUE))
        f == PutChar(e, Plain(SOB))
    IN  EnableTransmitInterrupt(EnableReceiveInterrupt(f, FALSE), TRUE)

\* The status, and the length if the status says so, go before the data that
\* are already at &fmstr_pCommBuffer[2]; the checksum goes behind them.
SendResponse(d, length, status) ==
    LET fits  == length <= Size8 - 4
        n     == IF fits THEN length ELSE 0
        st    == IF fits THEN status ELSE RspBuffOvf
        start == IF VarLen(st) THEN 0 ELSE 1
        todo  == n + 3 - start
        head  == IF VarLen(st) THEN [d.buf EXCEPT ![0] = Plain(st), ![1] = Plain(n)]
                               ELSE [d.buf EXCEPT ![1] = Plain(st)]
        body  == [i \in 1 .. todo - 1 |-> head[start + i - 1].byte]
        data  == [i \in 1 .. n |-> d.buf[i + 1].byte]
        ready == [d EXCEPT !.answer = IF d.bTxActive THEN @
                                      ELSE Unsent(d) \o WireOfAnswer(st, data),
                           !.buf = [head EXCEPT ![start + todo - 1] = Check(body)],
                           !.pTxBuff = start, !.nTxTodo = todo, !.crc = body,
                           !.bTxActive = TRUE, !.bTxWaitTC = FALSE, !.bTxLastCharSOB = FALSE]
    IN  StartBlock(ready)

SendError(d, code) == SendResponse(d, 0, code)

\* _FMSTR_Tx, for a device that can take a character, and PutChar.
Tx(d) ==
    LET c    == d.buf[d.pTxBuff]
        twin == c.byte = SOB /\ ~d.bTxLastCharSOB  \* the first SOB of two
        next == IF twin THEN d ELSE [d EXCEPT !.nTxTodo = @ - 1, !.pTxBuff = @ + 1]
    IN  PutChar([next EXCEPT !.bTxLastCharSOB = IF c.byte = SOB THEN twin ELSE @], c)
-----------------------------------------------------------------------------
(* Receiving.                                                              *)

\* What FMSTR_ProtocolDecoder makes of a command: its answer, with the data
\* written into the buffer behind the space for status and length.
ProtocolDecoder(d, cmd, args) ==
    LET known == {i \in DOMAIN Requests : Requests[i].cmd = cmd /\ Requests[i].args = args}
        noted == [d EXCEPT !.decoded = <<cmd>> \o args]
    IN  IF known = {} THEN SendError(noted, InvCmd)
        ELSE LET r == Requests[CHOOSE i \in known : TRUE]
                 written == [k \in 0 .. BufEnd |-> IF k - 1 \in DOMAIN r.data
                                                   THEN Plain(r.data[k - 1]) ELSE d.buf[k]]
             IN  SendResponse([noted EXCEPT !.buf = written], Len(r.data), r.status)

\* The character after a SOB that is not doubled is a command.
FrameStart(d, c) ==
    [d EXCEPT !.buf[0] = Plain(c.byte), !.pRxBuff = 1, !.nRxTodo = 0, !.crc = <<c.byte>>,
              !.bRxMsgLengthNext = TRUE, !.bRxLastCharSOB = FALSE]

LengthByte(d, c) ==
    [d EXCEPT !.nRxTodo = (c.byte + 1) % Size8, !.crc = Append(@, c.byte),
              !.buf[d.pRxBuff] = Plain(c.byte), !.pRxBuff = @ + 1, !.bRxMsgLengthNext = FALSE]

HasSpace(p) == p < CommSize

\* A frame that is too long is received to its end, without storing it.
DataByte(d, c) ==
    LET counted == [d EXCEPT !.nRxTodo = @ - 1, !.crc = Append(@, c.byte)]
    IN  CASE d.pRxBuff = Null -> counted
          [] d.pRxBuff # Null /\ ~HasSpace(d.pRxBuff) -> [counted EXCEPT !.pRxBuff = Null]
          [] OTHER -> [counted EXCEPT !.buf[d.pRxBuff] = Plain(c.byte), !.pRxBuff = @ + 1]

\* Mutant of Matches: the checksum is not looked at.
MatchesAlways(d, c) == TRUE

Matches(d, c) == c.of = d.crc

LastByte(d, c) ==
    LET e == [d EXCEPT !.nRxTodo = 0]
    IN  CASE d.pRxBuff = Null -> SendError(e, CmdTooLong)
          [] d.pRxBuff # Null /\ ~Matches(d, c) -> SendError(e, CmdCsErr)
          [] OTHER -> ProtocolDecoder(e, d.buf[0].byte,
                                      [i \in 1 .. d.buf[1].byte |-> d.buf[i + 1].byte])

\* A character that is not the first of two SOBs, outside the start of a frame.
InFrame(d, c) ==
    CASE d.bRxMsgLengthNext -> LengthByte(d, c)
      [] ~d.bRxMsgLengthNext /\ d.nRxTodo = 1 -> LastByte(d, c)
      [] ~d.bRxMsgLengthNext /\ d.nRxTodo > 1 -> DataByte(d, c)
      [] OTHER -> d

Rx(d, c) ==
    CASE c.byte = SOB /\ ~d.bRxLastCharSOB -> [d EXCEPT !.bRxLastCharSOB = TRUE]
      [] c.byte # SOB /\ d.bRxLastCharSOB -> FrameStart(d, c)
      [] OTHER -> InFrame([d EXCEPT !.bRxLastCharSOB = FALSE], c)
-----------------------------------------------------------------------------
(* The routine the application's loop or the device's interrupt runs.      *)

\* A loop that ends after n steps at the latest.
Repeat(Step(_), n, d) ==
    LET after[i \in 0 .. n] == IF i = 0 THEN d ELSE Step(after[i - 1])
    IN  after[n]

TxIfEmpty(d) ==
    LET e == TakeTransmitReg(d)
    IN  IF IsTransmitRegEmpty(e) /\ e.nTxTodo > 0 THEN Tx(e) ELSE e

TxWhileEmpty(d) == Repeat(TxIfEmpty, Room(d), d)

\* Mutant of TransmitComplete: an empty register is taken for the end.
RegisterEmpty(d) == IsTransmitRegEmpty(d)

TransmitComplete(d) == ~IsTransmitterActive(d)

\* From the last character on the device tells of the end of the transmission.
AwaitComplete(d) ==
    LET e == [Flush(d) EXCEPT !.bTxWaitTC = TRUE]
        f == IF Interrupts(e) THEN TakeActive(e) ELSE e
    IN  IF Interrupts(f) /\ IsTransmitterActive(f)
        THEN EnableTransmitCompleteInterrupt(EnableTransmitInterrupt(f, FALSE), TRUE)
        ELSE f

ProcessTx(d) ==
    LET e     == TxWhileEmpty(d)
        atEnd == IsTransmitRegEmpty(e) /\ e.nTxTodo = 0
        f     == IF atEnd THEN AwaitComplete(e) ELSE e
        g     == IF f.bTxWaitTC THEN TakeActive(f) ELSE f
    IN  IF g.bTxWaitTC /\ TransmitComplete(g) THEN Listen(g) ELSE g

\* The receiving loop reads the device until it is empty.
ReadIfFull(Handle(_, _), d) ==
    LET e == TakeReceiveReg(d)
    IN  IF IsReceiveRegFull(e) THEN Handle(GetChar(e), ReceivedChar(e)) ELSE e

RxIfFull(d) == ReadIfFull(Rx, d)
ProcessRx(d) == Repeat(RxIfFull, Len(d.fifo) + Len(d.rx), d)

QueueChar(d, c) == [d EXCEPT !.queue = RingBuffPut(@, c)]
QueueIfFull(d) == ReadIfFull(QueueChar, d)
QueueRx(d) == Repeat(QueueIfFull, Len(d.fifo) + Len(d.rx), d)

\* FMSTR_ProcessSerial
Process(d) ==
    CASE d.bTxActive -> ProcessTx(d)
      [] ~d.bTxActive /\ d.mode = "short" -> QueueRx(d)
      [] ~d.bTxActive /\ d.mode # "short" -> ProcessRx(d)

\* The driver after FMSTR_Init; the buffer holds what it holds, say zeros.
SerialInit(drv, mode) ==
    Listen([drv |-> drv, mode |-> mode,
            bTxActive |-> FALSE, bTxWaitTC |-> FALSE, bTxLastCharSOB |-> FALSE,
            bRxLastCharSOB |-> FALSE, bRxMsgLengthNext |-> FALSE,
            nTxTodo |-> 0, nRxTodo |-> 0, pTxBuff |-> Null, pRxBuff |-> Null, crc |-> <<>>,
            buf |-> [i \in 0 .. BufEnd |-> Plain(0)],
            queue |-> RingBuffCreate(Plain(0)),
            fifo |-> <<>>, rx |-> <<>>, tx |-> <<>>, out |-> <<>>,
            rxOn |-> TRUE, rxInt |-> FALSE, txInt |-> FALSE, tcInt |-> FALSE,
            txEnabled |-> TRUE, txActive |-> FALSE, attach |-> FALSE,
            dtf |-> FALSE, tdfNeedRead |-> FALSE, riePending |-> FALSE, jtag |-> FALSE,
            decoded |-> <<>>, answer |-> <<>>])
=============================================================================

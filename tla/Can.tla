-------------------------------- MODULE Can --------------------------------
(***************************************************************************)
(* The CAN transport (freemaster_can.c) over a device with message buffers *)
(* (mcuxsdk/can/freemaster_flexcan.c), one with a queue for what it        *)
(* receives (dreg/S12Z/freemaster_s12z_mscan.c), or the drivers of Zephyr  *)
(* (zephyr/freemaster_zephyr_can.c).  A message, a command or a response,  *)
(* is cut into CAN frames; each has a control part, with the flags of the  *)
(* first and the last frame, a toggle bit and a length, and some of the    *)
(* message's bytes.  A response is put together in the buffer that held    *)
(* the command.                                                            *)
(*                                                                         *)
(* A byte of a message is a tuple: the byte, or, for a checksum, -1 and    *)
(* the bytes it covers.  A checksum matches only the bytes it covers.      *)
(*                                                                         *)
(* The state is a record d with the source's names.  Its fields decoded,   *)
(* the command handed to the decoder last, answer, the message that the    *)
(* last response was meant to be, sent, the frames of it handed to the     *)
(* device, and aborted, whether it was given up, are history.              *)
(***************************************************************************)
EXTENDS Integers, Sequences, SequencesExt

CONSTANTS
    Size8,      \* the range of FMSTR_SIZE8, 256 in the code
    CommSize,   \* FMSTR_COMM_BUFFER_SIZE
    ClassicLen, \* the longest classic frame, 8 in the code
    FdLengths,  \* longer frames of CAN FD
    FdMin,      \* FD frames are used from this length, 12 in the code
    Requests    \* the commands the decoder knows, with their answers

ASSUME CanAssumption ==
    /\ Size8 \in Nat /\ CommSize \in 3 .. Size8 - 2
    /\ ClassicLen \in Nat /\ ClassicLen > 1
    /\ FdMin \in Nat /\ FdMin > ClassicLen
    /\ FdLengths \subseteq ClassicLen + 1 .. Size8 /\ \A n \in FdLengths : n >= FdMin

Plain(b) == <<b>>
Crc8(bytes) == <<-1, bytes>>

\* The bytes of a message: statuses with FMSTR_STSF_VARLEN say their length.
VarLenStatuses == {"VAROK"}
VarLen(status) == status \in VarLenStatuses

\* Statuses and commands as bytes.
Codes == <<"OK", "VAROK", "RSPBUFFOVF", "CANTGLERR", "CANMSGERR", "CMDCSERR", "INVCMD",
           "PING", "READ", "WRITE">>
Code(name) == Plain(100 + CHOOSE i \in DOMAIN Codes : Codes[i] = name)

WithCrc(bytes) == Append(bytes, Crc8(bytes))

\* Every command has an answer that the buffer can hold.
ASSUME RequestsAssumption ==
    /\ Requests \in Seq([cmd : ToSet(Codes), args : Seq(Nat), status : ToSet(Codes), data : Seq(Nat)])
    /\ \A i \in DOMAIN Requests : Len(Requests[i].data) <= CommSize

Bytes(data) == [i \in DOMAIN data |-> Plain(data[i])]

CommandMessage(r) == WithCrc(<<Code(r.cmd), Plain(Len(r.args))>> \o Bytes(r.args))

AnswerMessage(status, data) ==
    WithCrc((IF VarLen(status) THEN <<Code(status), Plain(Len(data))>> ELSE <<Code(status)>>) \o data)

MaxOf(S) == CHOOSE n \in S : \A m \in S : m <= n

\* _FMSTR_GetMaxCANFrameLen: the longest frame, control byte included.
GetMaxCANFrameLen(fd, n) ==
    LET fitting == {m \in FdLengths : m <= n}
    IN  IF fd /\ n >= FdMin /\ fitting # {} THEN MaxOf(fitting) ELSE ClassicLen
-----------------------------------------------------------------------------
(* The devices.  FlexCAN has a message buffer to receive and one to        *)
(* transmit, each with a flag and an interrupt.  MSCAN keeps a received    *)
(* frame until its flag is cleared, and says when the transmit buffer is   *)
(* free.  Zephyr calls back for a received and for a sent frame, and a     *)
(* sent frame makes a work item go on sending.  A frame that was read      *)
(* stays in rxmsg until it is acknowledged.                                *)

Devices == {"flexcan", "mscan", "zephyr"}
NoFrame == <<>>

\* The receive buffer is set up anew, empty; MSCAN always receives.
EnableRx(d) == IF d.device = "mscan" THEN d ELSE [d EXCEPT !.rxmb = NoFrame]

\* A polled driver looks at the flag, and clears it; what the buffer holds is
\* read when the frame read before is acknowledged.
FlexGetRxFrameLen(d) ==
    LET flagged == d.mode # "poll" \/ d.rxFlag
        seen    == IF d.mode = "poll" THEN [d EXCEPT !.rxFlag = FALSE] ELSE d
    IN  IF flagged /\ d.rxmsg = NoFrame THEN [seen EXCEPT !.rxmsg = d.rxmb] ELSE seen

\* MSCAN's frame is looked at in place; it has the identifier of commands.
MscanGetRxFrameLen(d) == [d EXCEPT !.rxmsg = IF d.rxFlag THEN d.rxmb ELSE NoFrame]

GetRxFrameLen(d) == IF d.device = "mscan" THEN MscanGetRxFrameLen(d) ELSE FlexGetRxFrameLen(d)

HasRxFrame(d) ==
    IF d.device = "mscan" THEN d.rxFlag
    ELSE (d.mode # "poll" \/ d.rxFlag) /\ (d.rxmsg # NoFrame \/ d.rxmb # NoFrame)

MscanAckRxFrame(d) == [d EXCEPT !.rxmsg = NoFrame, !.rxmb = NoFrame, !.rxFlag = FALSE]

AckRxFrame(d) == IF d.device = "mscan" THEN MscanAckRxFrame(d) ELSE [d EXCEPT !.rxmsg = NoFrame]

\* MSCAN has no free buffer while it transmits.
MscanPrepareTxFrame(d) == ~d.txBusy

CanPrepareTxFrame(d) ==
    IF d.device = "mscan" THEN MscanPrepareTxFrame(d) ELSE ~d.txBusy \/ (d.mode = "poll" /\ d.txFlag)

PrepareTxFrame(d) ==
    IF d.device = "flexcan" /\ d.mode = "poll" THEN [d EXCEPT !.txFlag = FALSE, !.txBusy = FALSE] ELSE d

SendTxFrame(d, f) == [d EXCEPT !.txBusy = TRUE, !.txmb = Append(@, f), !.sent = Append(@, f)]
-----------------------------------------------------------------------------
(* Transmitting.                                                           *)

Listen(d) ==
    EnableRx([d EXCEPT !.bTxActive = FALSE, !.txInt = FALSE, !.bRxFrameReady = FALSE,
                       !.bRxFirst = TRUE, !.bRxActive = TRUE, !.rxInt = TRUE])

\* Mutant of TxFrame: the toggle bit of a second response goes on from the first.
TxFrameToggled(d, len) ==
    [m2s |-> FALSE, spc |-> FALSE, fst |-> d.bTxFirst, lst |-> len = d.nTxTodo, tgl |-> ~d.txTgl,
     len |-> IF len < ClassicLen THEN len ELSE 0,
     data |-> [i \in 1 .. len |-> d.buf[d.pTxBuff + i - 1]]]

\* The control byte and the data of the next frame.  A length that only FD frames
\* have is left to the device.
TxFrame(d, len) ==
    [m2s |-> FALSE, spc |-> FALSE, fst |-> d.bTxFirst, lst |-> len = d.nTxTodo,
     tgl |-> ~d.bTxFirst /\ ~d.txTgl,
     len |-> IF len < ClassicLen THEN len ELSE 0,
     data |-> [i \in 1 .. len |-> d.buf[d.pTxBuff + i - 1]]]

HasTxData(d) == d.bTxActive /\ d.nTxTodo # 0 /\ d.nTxTodo <= CommSize + 4

\* _FMSTR_TxCan for a response with bytes left: after its last frame is in the
\* device's buffer the transport listens.
TxCan(d) ==
    LET maxLen == GetMaxCANFrameLen(d.fd, d.nTxTodo + 1) - 1
        len    == IF d.nTxTodo > maxLen THEN maxLen ELSE d.nTxTodo
        f      == TxFrame(d, len)
        sent   == SendTxFrame([d EXCEPT !.bTxFirst = FALSE, !.txTgl = f.tgl,
                                        !.nTxTodo = @ - len, !.pTxBuff = @ + len], f)
    IN  IF sent.nTxTodo = 0 THEN Listen(sent) ELSE sent

\* The part of FMSTR_ProcessCanTx behind its two checks.
TxCanOrStop(d) == IF HasTxData(d) THEN TxCan(d) ELSE [d EXCEPT !.txInt = FALSE]

ProcessCanTx(d) ==
    IF d.bTxActive /\ CanPrepareTxFrame(d) THEN TxCanOrStop(PrepareTxFrame(d)) ELSE d

\* The status, and the length if the status says so, go before the data that are
\* already at &fmstr_pCommBuffer[2], and the checksum behind them.
PrepareResponse(d, length, status) ==
    LET fits  == length <= Size8 - 4
        n     == IF fits THEN length ELSE 0
        st    == IF fits THEN status ELSE "RSPBUFFOVF"
        start == IF VarLen(st) THEN 0 ELSE 1
        todo  == n + 3 - start
        head  == IF VarLen(st) THEN [d.buf EXCEPT ![0] = Code(st), ![1] = Plain(n)]
                               ELSE [d.buf EXCEPT ![1] = Code(st)]
        body  == [i \in 1 .. todo - 1 |-> head[start + i - 1]]
    IN  [d EXCEPT !.answer = AnswerMessage(st, [i \in 1 .. n |-> d.buf[i + 1]]), !.sent = <<>>, !.aborted = FALSE,
                  !.buf = [head EXCEPT ![start + todo - 1] = Crc8(body)],
                  !.pTxBuff = start, !.nTxTodo = todo,
                  !.bTxActive = TRUE, !.bTxFirst = TRUE, !.txInt = TRUE]

\* _FMSTR_SendResponse.  An attempt to send follows, and is the last thing that
\* FMSTR_Poll or the interrupt does for a command: d.pc says how far it is.
SendResponse(d, length, status) == [PrepareResponse(d, length, status) EXCEPT !.pc = "check"]
SendError(d, code) == SendResponse(d, 0, code)

\* FMSTR_AbortCanTx.
AbortCanTx(d) == IF d.bTxActive THEN Listen([d EXCEPT !.nTxTodo = 0, !.aborted = TRUE]) ELSE d

SendNow(d) == IF d.pc = "check" THEN ProcessCanTx([d EXCEPT !.pc = "idle"]) ELSE d
-----------------------------------------------------------------------------
(* Receiving.                                                              *)

FrameDone(d) == AckRxFrame([d EXCEPT !.bRxActive = FALSE, !.bRxFrameReady = TRUE])

\* Mutant of FirstFrame: what was received before stays counted.
FirstFrameCounted(d, f) == [d EXCEPT !.bRxFirst = FALSE, !.bRxTgl1 = TRUE, !.bRxSpecial = f.spc]

FirstFrame(d, f) ==
    [d EXCEPT !.bRxFirst = FALSE, !.bRxTgl1 = TRUE, !.bRxSpecial = f.spc,
              !.nRxCtr = 0, !.nRxErr = "none", !.crc = <<>>, !.crcOK = FALSE]

\* The bytes of a frame; the last byte of the last frame is the checksum.
TakeBytes(d, f, n) ==
    LET stored == [d EXCEPT !.buf = [k \in DOMAIN d.buf |->
                                        IF k - d.nRxCtr \in 0 .. n - 1 THEN f.data[k - d.nRxCtr + 1] ELSE @[k]],
                            !.nRxCtr = @ + n]
        summed == d.crc \o SubSeq(f.data, 1, IF f.lst THEN n - 1 ELSE n)
    IN  IF f.lst THEN FrameDone([stored EXCEPT !.crc = summed, !.crcOK = f.data[n] = Crc8(summed)])
                 ELSE AckRxFrame([stored EXCEPT !.crc = summed])

\* A length of zero means all that the device has received; nRxCtr bytes are
\* already there, and one more than the buffer's size fits.
TakeFrame(d, f) ==
    LET n == IF f.len = 0 THEN Len(f.data) ELSE f.len
    IN  IF n = 0 \/ n > Len(f.data) \/ d.nRxCtr + n > CommSize + 1
        THEN FrameDone([d EXCEPT !.nRxErr = "CANMSGERR"])
        ELSE TakeBytes(d, f, n)

CanReceive(d) == d.bRxActive /\ ~d.bRxFrameReady

\* _FMSTR_RxCan for a frame the transport is ready for.
RxCan(d) ==
    LET f     == d.rxmsg[1]
        first == d.bRxFirst \/ f.fst
    IN  CASE ~f.m2s                              -> AckRxFrame(d)
          [] f.m2s /\ first /\ (~f.fst \/ f.tgl) -> AckRxFrame(d)
          [] f.m2s /\ first /\ f.fst /\ ~f.tgl   -> TakeFrame(FirstFrame(d, f), f)
          [] f.m2s /\ ~first /\ f.tgl # d.bRxTgl1 -> FrameDone([d EXCEPT !.nRxErr = "CANTGLERR"])
          [] OTHER                               -> TakeFrame([d EXCEPT !.bRxTgl1 = ~@], f)

\* What FMSTR_ProtocolDecoder makes of a command.
ProtocolDecoder(d, cmd, args) ==
    LET known == {i \in DOMAIN Requests : /\ Code(Requests[i].cmd) = cmd
                                          /\ Bytes(Requests[i].args) = args}
        noted == [d EXCEPT !.decoded = <<cmd>> \o args]
    IN  IF known = {} THEN SendError(noted, "INVCMD")
        ELSE LET r == Requests[CHOOSE i \in known : TRUE]
                 written == [k \in DOMAIN d.buf |-> IF k - 1 \in DOMAIN r.data
                                                    THEN Plain(r.data[k - 1]) ELSE d.buf[k]]
             IN  SendResponse([noted EXCEPT !.buf = written], Len(r.data), r.status)

\* Mutant of ChecksOut: neither checksum nor length are looked at.
ChecksOutAlways(d) == TRUE

\* The checksum matches and the length says how much was received.
ChecksOut(d) == d.crcOK /\ d.buf[1][1] < Size8 - 3 /\ d.nRxCtr = (d.buf[1][1] + 3) % Size8

RxDone(d) ==
    LET e == [d EXCEPT !.bRxFrameReady = FALSE]
    IN  CASE e.nRxErr # "none" -> SendError(e, e.nRxErr)
          [] e.nRxErr = "none" /\ ~ChecksOut(e) -> SendError([e EXCEPT !.nRxErr = "CMDCSERR"], "CMDCSERR")
          [] e.nRxErr = "none" /\ ChecksOut(e) /\ e.bRxSpecial ->
                SendError(e, IF e.buf[0] = Code("PING") THEN "OK" ELSE "INVCMD")
          [] OTHER -> ProtocolDecoder(e, e.buf[0], [i \in 1 .. e.buf[1][1] |-> e.buf[i + 1]])

\* In the interrupt the receive interrupt goes off when the frame has to wait.
ProcessCanRx(d) ==
    LET e == GetRxFrameLen(d)
        f == IF CanReceive(e) THEN [RxCan(e) EXCEPT !.rxInt = TRUE] ELSE [e EXCEPT !.rxInt = FALSE]
    IN  IF ~HasRxFrame(d) THEN e
        ELSE IF d.mode = "long" /\ f.bRxFrameReady THEN SendNow(RxDone(f)) ELSE f

\* A frame reaches the device: it takes the place of one that FlexCAN has not
\* yet read, and is lost if MSCAN holds one; Zephyr's callback handles it at once.
Received(d, f) ==
    CASE d.device = "flexcan" -> [d EXCEPT !.rxmb = <<f>>, !.rxFlag = TRUE]
      [] d.device = "mscan"   -> IF d.rxFlag THEN d ELSE [d EXCEPT !.rxmb = <<f>>, !.rxFlag = TRUE]
      [] d.device = "zephyr"  -> ProcessCanRx([d EXCEPT !.rxmsg = <<f>>])

\* FMSTR_CanIsr of FlexCAN: a received frame and a sent one are handled.
FlexCanIsr(d) ==
    LET received == IF d.rxFlag THEN ProcessCanRx(d) ELSE d
    IN  IF d.txFlag THEN ProcessCanTx([received EXCEPT !.txBusy = FALSE]) ELSE received

\* FMSTR_CanIsr of MSCAN: a received frame is handled, and a free buffer is used.
MscanIsr(d) ==
    LET received == IF d.rxFlag THEN ProcessCanRx(d) ELSE d
    IN  IF received.txBusy THEN received ELSE ProcessCanTx(received)

CanIsr(d) == IF d.device = "mscan" THEN MscanIsr(d) ELSE FlexCanIsr(d)

\* The device raises its interrupt as long as a flag is set.
Interrupted(d) ==
    /\ d.mode # "poll"
    /\ \/ d.rxInt /\ d.rxFlag
       \/ d.txInt /\ (IF d.device = "mscan" THEN ~d.txBusy ELSE d.txFlag)

\* _FMSTR_CanZephyrTxCallback: when the work item cannot be submitted, because
\* it has not run since it last was, the response is given up.
TxCallback(d) ==
    LET sent == [d EXCEPT !.txBusy = FALSE]
    IN  IF d.work = "idle" THEN [sent EXCEPT !.work = "submitted"] ELSE AbortCanTx(sent)

\* A frame leaves the device.
Transmitted(d) ==
    LET e == [d EXCEPT !.txmb = Tail(@)]
    IN  CASE d.device = "flexcan" -> [e EXCEPT !.txFlag = TRUE]
          [] d.device = "mscan"   -> [e EXCEPT !.txBusy = FALSE]
          [] d.device = "zephyr"  -> TxCallback(e)

TxHandler(d) == ProcessCanTx([d EXCEPT !.work = "idle"])

\* After FMSTR_Init.
CanInit(device, mode, fd) ==
    Listen([device |-> device, mode |-> mode, fd |-> fd, work |-> "idle", bTxActive |-> FALSE, bTxFirst |-> FALSE, bRxActive |-> FALSE,
            bRxFirst |-> FALSE, bRxTgl1 |-> FALSE, bRxFrameReady |-> FALSE, bRxSpecial |-> FALSE,
            nTxTodo |-> 0, pTxBuff |-> 0, txTgl |-> FALSE, nRxCtr |-> 0, nRxErr |-> "none",
            crc |-> <<>>, crcOK |-> FALSE, pc |-> "idle",
            buf |-> [i \in 0 .. CommSize + 3 |-> Plain(0)],
            rxmb |-> NoFrame, rxmsg |-> NoFrame, rxFlag |-> FALSE, rxInt |-> FALSE,
            txmb |-> <<>>, txBusy |-> FALSE, txFlag |-> FALSE, txInt |-> FALSE,
            decoded |-> <<>>, answer |-> <<>>, sent |-> <<>>, aborted |-> FALSE])
=============================================================================

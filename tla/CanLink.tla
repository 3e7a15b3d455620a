------------------------------ MODULE CanLink ------------------------------
(***************************************************************************)
(* The CAN transport, a host and the bus between them.  FMSTR_Poll does    *)
(* all of it (FMSTR_POLL_DRIVEN), or the interrupt (FMSTR_LONG_INTR), or   *)
(* the interrupt moves frames and FMSTR_Poll decodes commands              *)
(* (FMSTR_SHORT_INTR), and then the interrupt comes between any two steps  *)
(* of FMSTR_Poll.  The device may receive the frames it sends itself, as   *)
(* the identifiers of commands and responses are the same by default.      *)
(*                                                                         *)
(* A frame may be lost at the target, because the one before it was not    *)
(* yet read, or at the host.  The host repeats a command when nothing      *)
(* moves any more and, for want of patience, sometimes earlier.            *)
(***************************************************************************)
EXTENDS Can

CONSTANTS
    Builds,     \* the devices, and how the driver may be built for each: pairs of
                \* a device and one of "poll", "long", "short"
    EarlyBuilds, \* with which of them the host may repeat a command too early
    FdCaps,     \* whether CAN FD may be used: a subset of BOOLEAN
    EchoCaps,   \* whether the device may receive its own frames
    Preempted,  \* whether the bus may outrun the interrupt's handler and the work item
    MaxFaults   \* bound: frames lost and commands repeated too early

ASSUME LinkAssumption ==
    /\ Builds \subseteq Devices \X {"poll", "long", "short"} \ {<<"zephyr", "poll">>}
    /\ EarlyBuilds \subseteq Builds
    /\ FdCaps \subseteq BOOLEAN /\ EchoCaps \subseteq BOOLEAN
    /\ Preempted \in BOOLEAN /\ MaxFaults \in Nat

VARIABLES
    d,        \* the driver and its device
    isr,      \* the flags the interrupt's handler has found, when it runs
    echo,     \* whether the device receives its own frames
    line,     \* the frames on their way to the target
    request,  \* which request the host is at
    heard,    \* the frames of a response the host has put together
    faults

vars == <<d, isr, echo, line, request, heard, faults>>

NotRunning == [rx |-> FALSE, tx |-> FALSE]

Init ==
    /\ \E b \in Builds, fd \in FdCaps :
          /\ fd => b[1] \in {"flexcan", "zephyr"}
          /\ d = CanInit(b[1], b[2], fd)
    /\ isr = NotRunning
    /\ echo \in EchoCaps /\ (echo => d.device \in {"flexcan", "zephyr"})
    /\ line = <<>>
    /\ request = 1 /\ heard = <<>> /\ faults = 0
-----------------------------------------------------------------------------
(* The driver.                                                             *)

Drive(e) ==
    /\ d' = e
    /\ UNCHANGED <<echo, line, request, heard, faults>>

\* FMSTR_Poll of a driver without interrupts.
PollDriven ==
    /\ d.mode = "poll"
    /\ \E e \in {ProcessCanTx(ProcessCanRx(d))} :
          Drive(IF e.bRxFrameReady THEN SendNow(RxDone(e)) ELSE e)
    /\ UNCHANGED isr

\* FMSTR_Poll of a driver with short interrupts, in steps: the command, and the
\* attempt to send the first frame.
Runs == d.mode = "short" /\ isr = NotRunning

PollRxDone ==
    /\ Runs /\ d.pc = "idle" /\ d.bRxFrameReady
    /\ \E e \in {RxDone(d)} : Drive(e)
    /\ UNCHANGED isr

PollPrepareTx ==
    /\ Runs /\ d.pc = "check"
    /\ Drive([d EXCEPT !.pc = IF d.bTxActive /\ CanPrepareTxFrame(d) THEN "send" ELSE "idle"])
    /\ UNCHANGED isr

PollTxCan ==
    /\ Runs /\ d.pc = "send"
    /\ \E e \in {TxCanOrStop([d EXCEPT !.pc = "idle"])} : Drive(e)
    /\ UNCHANGED isr

\* FMSTR_CanIsr: the flags are read and the frames are handled.  Of FlexCAN the
\* flags that were read are then cleared.
IsrHandle ==
    /\ Interrupted(d) /\ isr = NotRunning
    /\ \E e \in {CanIsr(d)} : Drive(e)
    /\ isr' = IF d.device = "flexcan" THEN [rx |-> d.rxFlag, tx |-> d.txFlag] ELSE NotRunning

IsrClear ==
    /\ isr # NotRunning
    /\ Drive([d EXCEPT !.rxFlag = @ /\ ~isr.rx, !.txFlag = @ /\ ~isr.tx])
    /\ isr' = NotRunning

\* Zephyr's work item, in a thread.
Work ==
    /\ d.work = "submitted"
    /\ \E e \in {TxHandler(d)} : Drive(e)
    /\ UNCHANGED isr
-----------------------------------------------------------------------------
(* The bus.                                                                *)

BusFree == Preempted \/ (isr = NotRunning /\ d.work = "idle")

\* How many frames are lost when one comes before the one in the device was read.
Overwritten == IF d.rxFlag \/ (d.device = "zephyr" /\ ~CanReceive(d)) THEN 1 ELSE 0

Deliver ==
    /\ line # <<>> /\ BusFree
    /\ faults + Overwritten <= MaxFaults /\ faults' = faults + Overwritten
    /\ \E e \in {Received(d, Head(line))} : d' = e
    /\ line' = Tail(line)
    /\ UNCHANGED <<isr, echo, request, heard>>

Lose ==
    /\ line # <<>> /\ faults < MaxFaults
    /\ line' = Tail(line) /\ faults' = faults + 1
    /\ UNCHANGED <<d, isr, echo, request, heard>>

\* A response that is given up counts like a lost frame.
GivenUp == d.work = "submitted" /\ d.bTxActive

\* A frame of a response is sent, and the host may hear it.
Transmit ==
    /\ d.txmb # <<>> /\ BusFree
    /\ \E e \in {Transmitted(d)} : d' = IF echo THEN Received(e, Head(d.txmb)) ELSE e
    /\ \E hears \in BOOLEAN :
          LET f    == Head(d.txmb)
              lost == IF ~hears \/ GivenUp THEN 1 ELSE 0
          IN  /\ heard' = CASE ~hears -> heard
                            [] hears /\ f.fst -> <<f>>
                            [] hears /\ ~f.fst -> Append(heard, f)
              /\ faults + lost <= MaxFaults /\ faults' = faults + lost
    /\ UNCHANGED <<isr, echo, line, request>>
-----------------------------------------------------------------------------
(* The host.                                                               *)

\* A message cut into pieces of at most n bytes.
Pieces(message, n) ==
    LET count == (Len(message) + n - 1) \div n
    IN  [i \in 1 .. count |-> SubSeq(message, n * (i - 1) + 1, IF i = count THEN Len(message) ELSE n * i)]

CommandFrames(r) ==
    LET pieces == Pieces(CommandMessage(r), ClassicLen - 1)
    IN  [i \in DOMAIN pieces |-> [m2s |-> TRUE, spc |-> r.cmd = "PING", fst |-> i = 1,
                                  lst |-> i = Len(pieces), tgl |-> i % 2 = 0,
                                  len |-> Len(pieces[i]), data |-> pieces[i]]]

Command == [i \in DOMAIN Requests |-> CommandFrames(Requests[i])]

Expected ==
    [i \in DOMAIN Requests |->
        LET r == Requests[i]
        IN  CASE Len(r.args) + 3 > CommSize + 1 -> AnswerMessage("CANMSGERR", <<>>)
              [] Len(r.args) + 3 <= CommSize + 1 /\ Len(r.data) > Size8 - 4 ->
                    AnswerMessage("RSPBUFFOVF", <<>>)
              [] OTHER -> AnswerMessage(r.status, Bytes(r.data))]

Todo == request \in DOMAIN Requests

\* The frames are a whole response.
IsWhole(frames) ==
    /\ frames # <<>> /\ frames[1].fst /\ frames[Len(frames)].lst
    /\ \A i \in DOMAIN frames : frames[i].tgl = (i % 2 = 0)

Message(frames) == FlattenSeq([i \in DOMAIN frames |-> frames[i].data])

Answered == Todo /\ IsWhole(heard) /\ Message(heard) = Expected[request]

Quiet == line = <<>> /\ d.txmb = <<>> /\ isr = NotRunning /\ d.pc = "idle"
         /\ ~d.bTxActive /\ ~d.bRxFrameReady /\ ~d.rxFlag /\ d.work = "idle"

Send(r) == line' = Command[r] /\ heard' = <<>> /\ UNCHANGED <<d, isr, echo>>

HostSend == Todo /\ ~Answered /\ Quiet /\ Send(request) /\ UNCHANGED <<request, faults>>

HostSendEarly ==
    /\ Todo /\ ~Answered /\ line = <<>> /\ faults < MaxFaults
    /\ <<d.device, d.mode>> \in EarlyBuilds
    /\ Send(request) /\ faults' = faults + 1 /\ UNCHANGED request

HostNext ==
    /\ Answered /\ line = <<>>
    /\ request' = request + 1
    /\ IF request + 1 \in DOMAIN Requests
       THEN Send(request + 1)
       ELSE heard' = <<>> /\ UNCHANGED <<d, isr, echo, line>>
    /\ UNCHANGED faults

Finished == ~Todo /\ Quiet /\ UNCHANGED vars
-----------------------------------------------------------------------------
Poll == PollDriven \/ PollRxDone \/ PollPrepareTx \/ PollTxCan
Isr == IsrHandle \/ IsrClear

Next ==
    \/ Poll \/ Isr \/ Work
    \/ Deliver \/ Lose \/ Transmit
    \/ HostSend \/ HostSendEarly \/ HostNext
    \/ Finished

Spec == Init /\ [][Next]_vars

\* FMSTR_Poll is called again and again, the device raises its interrupts and
\* sends what it is given, the bus delivers what is not lost, and the host does
\* not give up.
FairSpec ==
    /\ Spec /\ WF_vars(Poll) /\ WF_vars(Isr) /\ WF_vars(Work)
    /\ WF_vars(Deliver) /\ WF_vars(Transmit) /\ WF_vars(HostSend) /\ WF_vars(HostNext)

\* The same with ENABLED written out for the actions of the driver, for TLC's
\* sake: whether they can take place and change anything.
PollWorks ==
    \/ d.mode = "poll" /\ (d.rxFlag \/ d.bRxFrameReady \/ (d.bTxActive /\ CanPrepareTxFrame(d)))
    \/ Runs /\ (d.bRxFrameReady \/ d.pc # "idle")

IsrWorks == isr # NotRunning \/ Interrupted(d)

DeliverWorks == line # <<>> /\ BusFree /\ faults + Overwritten <= MaxFaults
TransmitWorks == d.txmb # <<>> /\ BusFree /\ (GivenUp => faults < MaxFaults)

FairSpecForTLC ==
    /\ Spec
    /\ []<>~PollWorks \/ []<><<Poll>>_vars
    /\ []<>~IsrWorks \/ []<><<Isr>>_vars
    /\ []<>(d.work = "idle") \/ []<><<Work>>_vars
    /\ []<>~DeliverWorks \/ []<><<Deliver>>_vars
    /\ []<>~TransmitWorks \/ []<><<Transmit>>_vars
    /\ WF_vars(HostSend) /\ WF_vars(HostNext)
-----------------------------------------------------------------------------
(* Properties.                                                             *)

\* A command is executed only if the host has sent it, byte for byte, whatever
\* frames of it or of those before it are missing: two that are lost in a row
\* leave the toggle bit as it is expected, and only the length and the checksum
\* tell (_FMSTR_RxCan, _FMSTR_RxDone).
DecodedAsSent ==
    d.decoded # <<>> =>
        \E i \in DOMAIN Requests : /\ i <= request
                                   /\ d.decoded = <<Code(Requests[i].cmd)>> \o Bytes(Requests[i].args)

\* What is sent is the response that was begun: its frames in order, the toggle
\* bit alternating, the first and the last marked as such, none sent twice by
\* FMSTR_Poll and the interrupt, and none changed by frames that arrive
\* meanwhile, although a command is received into the same buffer.
ResponseIntact ==
    LET sent == d.sent
    IN  /\ Len(d.txmb) <= 1
        /\ \A i \in DOMAIN sent : /\ sent[i].fst = (i = 1) /\ sent[i].tgl = (i % 2 = 0)
                                  /\ sent[i].lst = (Len(Message(SubSeq(sent, 1, i))) = Len(d.answer))
        /\ IsPrefix(Message(sent), d.answer)
        /\ ~d.bTxActive /\ ~d.aborted => Message(sent) = d.answer

\* Whatever is lost, overwritten in the device or sent twice, the receiver and
\* the transmitter are never stuck: in the end every command is answered.
EveryRequestAnswered == <>(request = Len(Requests) + 1)
=============================================================================

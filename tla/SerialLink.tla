----------------------------- MODULE SerialLink -----------------------------
(***************************************************************************)
(* The serial transport, a host and the line between them.  The driver is  *)
(* polled, handles everything in the device's interrupt, or queues         *)
(* received characters in the interrupt and decodes them in FMSTR_Poll     *)
(* (FMSTR_POLL_DRIVEN, FMSTR_LONG_INTR, FMSTR_SHORT_INTR).  The interrupt  *)
(* does not come in the middle of FMSTR_Poll's handling of a character.    *)
(*                                                                         *)
(* A UART's line may lose or change characters, to and from the target;    *)
(* USB and JTAG lose nothing, but the host may reset its USB device, except *)
(* while a packet waits for it.                                             *)
(*                                                                         *)
(* The host sends one request after the other.  It repeats one when        *)
(* nothing moves any more and it has not heard the answer, and with a      *)
(* driver of EarlyBuilds sometimes earlier than that, because its timeout  *)
(* is too short.                                                           *)
(***************************************************************************)
EXTENDS Serial

CONSTANTS
    Builds,      \* the devices, each with how its driver may be built
    FifoSize,    \* how many received characters a UART with a FIFO holds
    Overlap,     \* whether a USB packet may come while the host has one to fetch
    EarlyBuilds, \* with which of them the host may repeat a request too early
    MaxFaults    \* bound: characters lost or changed, requests repeated too early, resets

\* FMSTR_SHORT_INTR is refused for USB, FMSTR_POLL_DRIVEN for Zephyr, and
\* interrupts for EOnCE with the workaround for old parts.
Supported ==
    ({"lpuart", "usart", "linflexd", "eonce"} \X {"poll", "long", "short"}) \union
    ({"zephyr"} \X {"long", "short"}) \union ({"usb"} \X {"poll", "long"}) \union
    {<<"eonceTdf", "poll">>}

ASSUME LinkAssumption ==
    /\ Builds \subseteq Supported /\ FifoSize \in Nat \ {0}
    /\ Overlap \in BOOLEAN
    /\ EarlyBuilds \subseteq Builds /\ MaxFaults \in Nat

VARIABLES
    d,         \* the driver and its device
    gone,      \* how much of d.answer has left the device
    line,      \* the characters on their way to the target
    request,   \* which request the host is at
    heard,     \* what the host has heard since it sent the request
    faults     \* how many of these have happened

vars == <<d, gone, line, request, heard, faults>>

Init ==
    /\ \E build \in Builds : d = SerialInit(build[1], build[2])
    /\ gone = <<>>
    /\ line = <<>> /\ request = 1 /\ heard = <<>>
    /\ faults = 0

Lossy == Uart(d)
-----------------------------------------------------------------------------
(* The driver.                                                             *)

Became(e) ==
    /\ d' = e
    /\ gone' = IF e.bTxActive /\ ~d.bTxActive THEN <<>> ELSE gone

\* How many characters the queue has no space for.
Dropped == LET all == Len(RingContents(d.queue)) + Len(d.fifo)
           IN  IF d.mode # "short" \/ d.bTxActive \/ all < RingSize THEN 0
               ELSE all - (RingSize - 1)

\* FMSTR_ProcessSerial, called by FMSTR_Poll or for an interrupt.
Called ==
    /\ d.mode = "poll" \/ Interrupted(d)
    /\ faults + Dropped <= MaxFaults

ProcessSerial ==
    /\ Called
    /\ \E e \in {Process(d)} : Became(e)
    /\ faults' = faults + Dropped
    /\ UNCHANGED <<line, request, heard>>

\* A character of the queue in FMSTR_Poll; while a response is on its way
\* it is thrown away.
RxDequeue ==
    /\ d.mode = "short" /\ RingBuffHasData(d.queue)
    /\ LET e == [d EXCEPT !.queue = RingBuffGet(@)]
       IN  Became(IF d.bTxActive THEN e ELSE Rx(e, RingBuffHead(d.queue)))
    /\ UNCHANGED <<line, request, heard, faults>>

\* The device's own Poll, called by FMSTR_Poll: an interrupt that could not be
\* enabled is tried again.
DevicePoll ==
    /\ Eonce(d) /\ d.riePending /\ d.jtag
    /\ Became(EoncePoll(d))
    /\ UNCHANGED <<line, request, heard, faults>>
-----------------------------------------------------------------------------
(* The line.  A receiver that is off takes no part in what passes it; a    *)
(* device that is full loses the character.                                *)

\* How many received characters a UART holds.
RxDepth == IF d.drv = "linflexd" THEN 1 ELSE FifoSize

Arrives(c) == [d EXCEPT !.fifo = IF d.rxOn THEN Append(@, c) ELSE @]

DeliverChar ==
    /\ Uart(d) /\ line # <<>>
    /\ d.rxOn => Len(d.fifo) < RxDepth
    /\ d' = Arrives(Head(line)) /\ line' = Tail(line)
    /\ UNCHANGED gone

\* The host waits until the word before has been read.
DeliverWord ==
    /\ Eonce(d) /\ line # <<>> /\ d.jtag /\ d.fifo = <<>>
    /\ d' = [d EXCEPT !.fifo = SubSeq(line, 1, Word)]
    /\ line' = SubSeq(line, Word + 1, Len(line))
    /\ UNCHANGED gone

\* An event of USB is followed by ProcessSerial if the driver is not polled,
\* the event of received data even by two.
Handled(e) == IF Interrupts(e) THEN Process(e) ELSE e

PacketLength == Min({UsbSize, Len(line)})

\* The application takes the bus to be half-duplex: the host fetches an answer
\* before it sends again.
Free == Overlap \/ ~d.txActive

DeliverPacket ==
    /\ Usb(d) /\ d.attach /\ line # <<>> /\ Free
    /\ \E e \in {Handled(Handled(UsbReceived(d, SubSeq(line, 1, PacketLength))))} : Became(e)
    /\ line' = SubSeq(line, PacketLength + 1, Len(line))

Deliver ==
    /\ DeliverChar \/ DeliverWord \/ DeliverPacket
    /\ UNCHANGED <<request, heard, faults>>

\* USB_DeviceCallback of the application.  What the host had to send is gone.
UsbReset ==
    /\ Usb(d) /\ d.attach /\ ~d.txActive /\ faults < MaxFaults
    /\ d' = UsbBusReset(d) /\ line' = <<>> /\ faults' = faults + 1
    /\ UNCHANGED <<gone, request, heard>>

UsbConfigure ==
    /\ Usb(d) /\ ~d.attach
    /\ d' = UsbSetConfiguration(d)
    /\ UNCHANGED <<gone, line, request, heard, faults>>

Garble ==
    /\ Lossy /\ line # <<>> /\ faults < MaxFaults
    /\ \/ d' = d
       \/ /\ Len(d.fifo) < RxDepth
          /\ \E b \in Byte \ {Head(line).byte} : d' = Arrives(Plain(b))
    /\ line' = Tail(line) /\ faults' = faults + 1
    /\ UNCHANGED <<gone, request, heard>>

\* A character leaves the UART, and the host may hear it.
ShiftChar ==
    /\ Uart(d) /\ d.out # <<>>
    /\ d' = [d EXCEPT !.out = Tail(@), !.dtf = d.drv = "linflexd"]
    /\ gone' = Append(gone, Head(d.out))
    /\ \/ heard' = Append(heard, Head(d.out)) /\ UNCHANGED faults
       \/ faults < MaxFaults /\ faults' = faults + 1 /\ UNCHANGED heard
    /\ UNCHANGED line

Hears(s) == gone' = gone \o s /\ heard' = heard \o s

\* With an old part the host confirms the word.
ShiftWord ==
    /\ Eonce(d) /\ d.out # <<>>
    /\ d' = [d EXCEPT !.out = <<>>]
    /\ Hears(Unpadded(d.out))
    /\ line' = IF Confirms(d) THEN line \o Padded(<<Pad>>) ELSE line
    /\ UNCHANGED faults

\* The host takes a packet, and the empty one that the application sends
\* behind a full one so that the host does not wait for more.
ShiftPacket ==
    /\ Usb(d) /\ d.txActive
    /\ d' = Handled(UsbSent([d EXCEPT !.out = <<>>]))
    /\ Hears(d.out)
    /\ UNCHANGED <<line, faults>>

Shift == (ShiftChar \/ ShiftWord \/ ShiftPacket) /\ UNCHANGED request
-----------------------------------------------------------------------------
(* The host.                                                               *)

Todo == request \in DOMAIN Requests
Reachable == Usb(d) => d.attach

\* What the host sends, and the answer it waits for.
Command == [i \in DOMAIN Requests |-> WireOfCommand(Requests[i])]

Expected ==
    [i \in DOMAIN Requests |->
        LET r == Requests[i]
        IN  CASE Len(r.args) + 2 > CommSize -> WireOfAnswer(CmdTooLong, <<>>)
              [] Len(r.args) + 2 <= CommSize /\ Len(r.data) > Size8 - 4 ->
                     WireOfAnswer(RspBuffOvf, <<>>)
              [] OTHER -> WireOfAnswer(r.status, r.data)]

Answered == Todo /\ IsSuffix(Expected[request], heard)

\* Nothing is on its way and nothing is being handled; a USB driver may still
\* have a queue, which without polls it looks at when the next packet comes.
Quiet ==
    /\ line = <<>> /\ d.fifo = <<>> /\ d.out = <<>>
    /\ Interrupts(d) \/ d.rx = <<>>
    /\ ~d.bTxActive /\ ~RingBuffHasData(d.queue)

\* The host's access to JTAG is what lets its interrupt be enabled.
Send(r) ==
    /\ line' = IF Eonce(d) THEN Padded(Command[r]) ELSE Command[r]
    /\ d' = [d EXCEPT !.jtag = Eonce(d)]
    /\ heard' = <<>> /\ UNCHANGED gone

\* The first request is sent, or one that nobody has answered.
HostSend ==
    /\ Todo /\ Reachable /\ ~Answered /\ Quiet
    /\ Send(request) /\ UNCHANGED <<request, faults>>

HostSendEarly ==
    /\ Todo /\ Reachable /\ ~Answered /\ line = <<>> /\ <<d.drv, d.mode>> \in EarlyBuilds
    /\ faults < MaxFaults
    /\ faults' = faults + 1
    /\ Send(request) /\ UNCHANGED request

\* An answer lets the host go on at once.
HostNext ==
    /\ Answered /\ Reachable /\ line = <<>>
    /\ request' = request + 1
    /\ IF request + 1 \in DOMAIN Requests
       THEN Send(request + 1)
       ELSE heard' = <<>> /\ UNCHANGED <<d, gone, line>>
    /\ UNCHANGED faults

Finished == ~Todo /\ Quiet /\ UNCHANGED vars
-----------------------------------------------------------------------------
Next ==
    \/ ProcessSerial \/ RxDequeue \/ DevicePoll
    \/ Deliver \/ Garble \/ Shift
    \/ UsbReset \/ UsbConfigure
    \/ HostSend \/ HostSendEarly \/ HostNext
    \/ Finished

Spec == Init /\ [][Next]_vars

\* FMSTR_Poll is called again and again and the device raises its interrupts;
\* the line delivers what is not lost; the host does not give up.
FairSpec ==
    /\ Spec
    /\ WF_vars(ProcessSerial) /\ WF_vars(RxDequeue) /\ WF_vars(DevicePoll)
    /\ WF_vars(Deliver) /\ WF_vars(Shift) /\ WF_vars(UsbConfigure)
    /\ WF_vars(HostSend) /\ WF_vars(HostNext)

\* The same with ENABLED written out for the actions that run the driver, for
\* TLC's sake: whether they can take place and change anything.
ProcessWorks == Called /\ Process(d) # d
DequeueWorks == d.mode = "short" /\ RingBuffHasData(d.queue)
DevicePollWorks == Eonce(d) /\ d.riePending /\ d.jtag
DeliverWorks ==
    /\ line # <<>> /\ Reachable
    /\ Uart(d) /\ d.rxOn => Len(d.fifo) < RxDepth
    /\ Eonce(d) => d.jtag /\ d.fifo = <<>>
    /\ Usb(d) => Free
ShiftWorks == IF Usb(d) THEN d.txActive ELSE d.out # <<>>

FairSpecForTLC ==
    /\ Spec
    /\ []<>~ProcessWorks \/ []<><<ProcessSerial>>_vars
    /\ []<>~DequeueWorks \/ []<><<RxDequeue>>_vars
    /\ []<>~DevicePollWorks \/ []<><<DevicePoll>>_vars
    /\ []<>~DeliverWorks \/ []<><<Deliver>>_vars
    /\ []<>~ShiftWorks \/ []<><<Shift>>_vars
    /\ WF_vars(UsbConfigure) /\ WF_vars(HostSend) /\ WF_vars(HostNext)
-----------------------------------------------------------------------------
\* A command is executed only if it is, byte for byte, one that the host has
\* sent, whatever the line has done to the start, the length, the doubled
\* characters or the end of its frame or of those before it (_FMSTR_Rx).
DecodedAsSent ==
    d.decoded # <<>> =>
        \E i \in DOMAIN Requests : i <= request /\ d.decoded = <<Requests[i].cmd>> \o Requests[i].args

\* What leaves the device is the response that was begun, with its checksum
\* and its doubled characters, and the transmitter is not switched off before
\* the last of it has left, or is in the hands of a device that cannot tell
\* (FMSTR_ProcessSerial, _FMSTR_SerialSendResponse, the Flush of the drivers).
ResponseIntact ==
    /\ IsPrefix(gone \o Unsent(d), d.answer)
    /\ ~d.bTxActive => gone \o Unsent(d) = d.answer

\* The receiver finds back into step after lost and changed characters, and
\* in the end every request is answered, the one that is too long and the
\* one whose answer is too long with an error.
EveryRequestAnswered == <>(request = Len(Requests) + 1)
=============================================================================

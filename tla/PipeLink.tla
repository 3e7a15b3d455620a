----------------------------- MODULE PipeLink -----------------------------
(***************************************************************************)
(* One open pipe: the application that reads and writes it, the driver's   *)
(* PIPE command handler (FMSTR_PipeFrame), and a host at the far end of a  *)
(* link that loses frames.  The handler runs in FMSTR_Poll, so no API call *)
(* of the application interrupts it (FMSTR_POLL_DRIVEN and                 *)
(* FMSTR_SHORT_INTR); PipeIsr models the mode where it is an interrupt.    *)
(*                                                                         *)
(* Requests alternate between even and odd (bit 7 of the port byte).  A    *)
(* request of the parity the target expects carries data and, in skip, how *)
(* many bytes of the last response the host has stored; any other request  *)
(* is a repetition, whose data and skip are ignored.  Every response       *)
(* carries nLast, how many bytes of the round's request were accepted, and *)
(* a copy of the oldest transmit bytes, which stay buffered until a later  *)
(* skip releases them.                                                     *)
(*                                                                         *)
(* The bytes of each direction are numbered as they are written, so that a *)
(* lost, repeated or reordered byte is visible as a gap or a step back.    *)
(***************************************************************************)
EXTENDS PipeBuffer

CONSTANTS
    RxSize, TxSize,   \* the buffer sizes given to FMSTR_PipeOpen
    MaxSend,          \* bytes a response can carry: COMM_BUFFER_SIZE - 3, at most 252
    MaxData,          \* bound: bytes the host puts into a request
    EagerHost,        \* whether the host puts data into every request when it has any
    Lens,             \* bound: lengths the application asks to read and write
    Granularities,    \* bound: the granularities it uses
    CallbackLens,     \* bound: lengths the pipe callback reads and writes, {0} for no callback
    MaxUp, MaxDown,   \* bound: bytes written into the pipe by the target, by the host
    MaxInFlight       \* bound: frames on the link, each way

ASSUME PipeAssumption ==
    /\ RxSize \in Nat \ {0} /\ TxSize \in Nat \ {0}
    /\ MaxSend \in Nat /\ MaxData \in Nat /\ EagerHost \in BOOLEAN
    /\ Lens \subseteq Nat /\ Granularities \subseteq Nat /\ CallbackLens \subseteq Nat
    /\ MaxUp \in Nat /\ MaxDown \in Nat /\ MaxInFlight \in Nat

VARIABLES
    \* the target: FMSTR_PIPE
    rx, tx,      \* the circular buffers
    bExpectOdd,  \* parity of the round that is expected next
    nLast,       \* nLastBytesReceived
    txWritten,   \* history: how many bytes the application has written
    appGot,      \* history: the bytes it has read
    \* the link
    req, rsp,    \* frames on their way, in order
    \* the host
    hostOdd,     \* parity of the round it is in
    hostSkip,    \* how many bytes it stored from the response to the round before
    hostWritten, \* how many bytes its user has written
    hostAcked,   \* how many of those it has let go of
    hostGot      \* history: the bytes it has stored

targetVars == <<rx, tx, bExpectOdd, nLast, txWritten, appGot>>
hostVars   == <<hostOdd, hostSkip, hostWritten, hostAcked, hostGot>>
vars       == <<targetVars, req, rsp, hostVars>>

\* The n bytes of a stream that follow its first k.
Numbered(k, n) == [i \in 1 .. n |-> k + i]

\* Whether the bytes of s are the next ones after the first k of a stream.
Follows(s, k) == \A i \in DOMAIN s : s[i] = k + i

Init ==
    /\ rx = EmptyBuff(RxSize) /\ tx = EmptyBuff(TxSize)
    /\ bExpectOdd = FALSE /\ nLast = 0
    /\ txWritten = 0 /\ appGot = <<>>
    /\ req = <<>> /\ rsp = <<>>
    /\ hostOdd = FALSE /\ hostSkip = 0
    /\ hostWritten = 0 /\ hostAcked = 0 /\ hostGot = <<>>
-----------------------------------------------------------------------------
(* The application, between two calls of FMSTR_Poll.                       *)

PipeRead(len, granularity) ==
    LET n == Whole(len, BytesReady(rx), granularity)
    IN  /\ n > 0
        /\ appGot' = appGot \o Taken(rx, n)
        /\ rx' = Rest(rx, n)
        /\ UNCHANGED <<tx, bExpectOdd, nLast, txWritten, req, rsp, hostVars>>

PipeWrite(len, granularity) ==
    LET n == Whole(len, BytesFree(tx), granularity)
    IN  /\ n > 0 /\ txWritten + n <= MaxUp
        /\ tx' = Put(tx, Numbered(txWritten, n))
        /\ txWritten' = txWritten + n
        /\ UNCHANGED <<rx, bExpectOdd, nLast, appGot, req, rsp, hostVars>>

\* A string goes in whole or not at all.
PipePuts(strLen) ==
    /\ strLen <= BytesFree(tx)
    /\ PipeWrite(strLen, 0)
-----------------------------------------------------------------------------
(* The PIPE command.                                                       *)

\* Mutant: a repeated request is taken for a new one.
AlwaysMatching(odd) == TRUE

\* Whether a request is of the round the target expects.
Matching(odd) == odd = bExpectOdd

\* A request r arrives and is answered in the same FMSTR_Poll, the callback
\* reading and writing in between.
PipeFrame ==
    /\ req # <<>> /\ Len(rsp) < MaxInFlight
    /\ \E rlen, wlen \in CallbackLens :
        LET r        == Head(req)
            matching == Matching(r.odd)
            tx1      == IF matching THEN DiscardBytes(tx, r.skip) ELSE tx
            accepted == Min2(Len(r.data), BytesFree(rx))
            rx1      == IF matching THEN Put(rx, SubSeq(r.data, 1, accepted)) ELSE rx
            nread    == Whole(rlen, BytesReady(rx1), 0)
            nwrite   == Whole(wlen, BytesFree(tx1), 0)
            tx2      == Put(tx1, Numbered(txWritten, nwrite))
            nsend    == Min2(BytesReady(tx2), MaxSend)
        IN  /\ txWritten + nwrite <= MaxUp
            /\ bExpectOdd' = IF matching THEN ~bExpectOdd ELSE bExpectOdd
            /\ nLast' = IF matching THEN accepted ELSE nLast
            /\ rx' = Rest(rx1, nread)
            /\ appGot' = appGot \o Taken(rx1, nread)
            /\ tx' = tx2
            /\ txWritten' = txWritten + nwrite
            /\ req' = Tail(req)
            /\ rsp' = Append(rsp, [odd |-> r.odd, nLast |-> nLast', data |-> Peek(tx2, nsend)])
            /\ UNCHANGED hostVars
-----------------------------------------------------------------------------
(* The link loses frames; it neither reorders nor invents them.            *)

LoseRequest  == req # <<>> /\ req' = Tail(req) /\ UNCHANGED <<targetVars, rsp, hostVars>>
LoseResponse == rsp # <<>> /\ rsp' = Tail(rsp) /\ UNCHANGED <<targetVars, req, hostVars>>
-----------------------------------------------------------------------------
(* The host, as the comments of FMSTR_PipeFrame describe it.               *)

HostWrite ==
    /\ hostWritten < MaxDown
    /\ hostWritten' = hostWritten + 1
    /\ UNCHANGED <<targetVars, req, rsp, hostOdd, hostSkip, hostAcked, hostGot>>

\* Send the request of the current round, or repeat it after a timeout; a
\* repetition may carry more or less of the unacknowledged data.
HostSend ==
    /\ Len(req) < MaxInFlight
    /\ \E n \in 0 .. Min2(hostWritten - hostAcked, MaxData) :
         /\ EagerHost /\ n = 0 => hostWritten = hostAcked
         /\ req' = Append(req, [odd |-> hostOdd, skip |-> hostSkip,
                                data |-> Numbered(hostAcked, n)])
    /\ UNCHANGED <<targetVars, rsp, hostVars>>

\* The response of the current round completes it, any other is ignored.
HostReceive ==
    /\ rsp # <<>>
    /\ rsp' = Tail(rsp)
    /\ LET r == Head(rsp)
       IN  IF r.odd = hostOdd
           THEN /\ hostAcked' = hostAcked + r.nLast
                /\ hostGot' = hostGot \o r.data
                /\ hostSkip' = Len(r.data)
                /\ hostOdd' = ~hostOdd
           ELSE UNCHANGED <<hostAcked, hostGot, hostSkip, hostOdd>>
    /\ UNCHANGED <<targetVars, req, hostWritten>>
-----------------------------------------------------------------------------
Next ==
    \/ \E len \in Lens, g \in Granularities : PipeRead(len, g) \/ PipeWrite(len, g)
    \/ \E len \in Lens : PipePuts(len)
    \/ PipeFrame
    \/ LoseRequest \/ LoseResponse
    \/ HostWrite \/ HostSend \/ HostReceive

Spec == Init /\ [][Next]_vars

\* FMSTR_Poll is called again and again, the application reads what arrives,
\* the host repeats its request until it is answered, and the link does not
\* lose every frame for ever.
Fairness ==
    /\ WF_vars(\E len \in Lens : PipeRead(len, 0))
    /\ SF_vars(PipeFrame)
    /\ WF_vars(HostSend) /\ SF_vars(HostReceive)

FairSpec == Spec /\ Fairness
-----------------------------------------------------------------------------
TypeOK ==
    /\ rx \in [buff : [0 .. RxSize - 1 -> Nat], size : {RxSize},
               wp : 0 .. RxSize - 1, rp : 0 .. RxSize - 1, bIsFull : BOOLEAN]
    /\ tx \in [buff : [0 .. TxSize - 1 -> Nat], size : {TxSize},
               wp : 0 .. TxSize - 1, rp : 0 .. TxSize - 1, bIsFull : BOOLEAN]
    /\ bExpectOdd \in BOOLEAN /\ nLast \in Nat
    /\ txWritten \in Nat /\ appGot \in Seq(Nat)
    /\ req \in Seq([odd : BOOLEAN, skip : Nat, data : Seq(Nat)])
    /\ rsp \in Seq([odd : BOOLEAN, nLast : Nat, data : Seq(Nat)])
    /\ hostOdd \in BOOLEAN /\ hostSkip \in Nat
    /\ hostWritten \in Nat /\ hostAcked \in Nat
    /\ hostGot \in Seq(Nat)

\* Bytes the target has accepted from the host, and bytes it has let go of
\* because the host has them.
Accepted  == Len(appGot) + BytesReady(rx)
Discarded == txWritten - BytesReady(tx)

\* The guarantee of doc/user_guide/20_features.md: what either reader has
\* been given is the beginning of what the other side wrote, in order, with
\* nothing missing and nothing twice, however often frames were lost,
\* repeated or answered late.
DeliveredInOrder ==
    /\ Follows(appGot, 0) /\ Follows(hostGot, 0)
    /\ Len(appGot) <= hostWritten /\ Len(hostGot) <= txWritten

\* Neither side lets go of a byte before the other has it: the host's
\* acknowledged bytes have all been accepted, and the target discards only
\* what the host has stored.  At any time they disagree by at most the round
\* that is under way.
NoByteDropped ==
    /\ hostAcked <= Accepted /\ Accepted <= hostAcked + nLast
    /\ Discarded <= Len(hostGot) /\ Len(hostGot) <= Discarded + hostSkip

\* Both directions implement the stream they promise.
Down == INSTANCE PipeStream WITH written <- hostWritten, got <- appGot
Up   == INSTANCE PipeStream WITH written <- txWritten, got <- hostGot

ImplementsStreams == Down!Spec /\ Up!Spec

\* Every byte written into a pipe comes out at the other end: as the number of
\* bytes is bounded, again and again there is none left that has not.
EventuallyDelivered == []<>(Len(appGot) = hostWritten /\ Len(hostGot) = txWritten)
=============================================================================

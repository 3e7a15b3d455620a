----------------------------- MODULE PipePorts -----------------------------
(***************************************************************************)
(* The table of pipes (pcm_pipes): the application opens and closes pipes  *)
(* on ports, prints into them and reads from them, while a host exchanges  *)
(* PIPE frames with every port, finds pipes with GETPIPE, and repeats a    *)
(* frame whose response got lost.  A slot with port 0 is free; opening     *)
(* clears all of the slot, closing no more than its port.  The host is not *)
(* told of either: it keeps the parity and the bytes of its round.         *)
(*                                                                         *)
(* A frame is answered before the application goes on (FMSTR_POLL_DRIVEN   *)
(* or FMSTR_SHORT_INTR), and no pipe has a callback; PipeLink has one, and *)
(* frames that overtake each other's answers.                              *)
(***************************************************************************)
EXTENDS PipePrint, FiniteSets

CONSTANTS
    Slots,       \* FMSTR_USE_PIPES: 0 .. n - 1
    Ports,       \* bound: ports the application opens
    PrintPorts,  \* bound: those it prints on
    RxSize, TxSize,
    MaxSend,     \* bytes a response can carry
    OneCalls,    \* bound: [format, type, arg] of the calls for one argument
    ListCalls,   \* bound: [format, args] of FMSTR_PipePrintf
    Strings,     \* bound: strings given to FMSTR_PipePuts
    MaxData,     \* bound: bytes the host puts into a frame
    MaxCalls,    \* bound: calls that open a pipe or print
    MaxFrames    \* bound: PIPE frames

\* Which argument of the list an item of a format takes.
ArgOf(format, i) == Cardinality({j \in 1 .. i : format[j].k # "char"})

\* Port 0 means a free slot.
ASSUME PortsAssumption ==
    /\ Slots \subseteq Nat /\ Ports \subseteq Nat \ {0} /\ PrintPorts \subseteq Ports
    /\ RxSize \in Nat \ {0} /\ TxSize \in Nat \ {0}
    /\ MaxSend \in Nat /\ MaxData \in Nat /\ MaxCalls \in Nat /\ MaxFrames \in Nat

\* Each argument is one its conversion can print, in the range of its type, and
\* there are enough of them.
ASSUME CallsAssumption ==
    /\ Strings \subseteq Seq(STRING)
    /\ \A c \in OneCalls :
          /\ Len(c.format) \in Nat /\ DOMAIN c.format = 1 .. Len(c.format)
          /\ \A i \in 1 .. Len(c.format) :
                IF c.format[i].k = "char" THEN c.format[i].c \in STRING
                ELSE OneToA(c.type, c.arg, ParseFormat(c.format[i])).text \in Seq(STRING)
    /\ \A c \in ListCalls :
          /\ Len(c.format) \in Nat /\ DOMAIN c.format = 1 .. Len(c.format)
          /\ \A i \in 1 .. Len(c.format) :
                LET arg == c.args[ArgOf(c.format, i)]
                    ctx == ParseFormat(c.format[i])
                IN  IF c.format[i].k = "char" THEN c.format[i].c \in STRING
                    ELSE IF ctx.isstring THEN arg \in Seq(STRING)
                    ELSE PrintfAny(arg, ctx).text \in Seq(STRING)

\* No call writes behind printfBuff: no number has more digits than it holds,
\* and no sign is shown before zeros of no width.  The code checks neither.
ASSUME CallsFitAssumption ==
    /\ \A c \in OneCalls : \A i \in 1 .. Len(c.format) :
          c.format[i].k # "char" => ~OneToA(c.type, c.arg, ParseFormat(c.format[i])).overrun
    /\ \A c \in ListCalls : \A i \in 1 .. Len(c.format) :
          LET ctx == ParseFormat(c.format[i])
          IN  c.format[i].k # "char" /\ ~ctx.isstring =>
                  ~PrintfAny(c.args[ArgOf(c.format, i)], ctx).overrun

VARIABLES
    pipes,   \* the slots: port, buffers, bExpectOdd, nLast, print; history: opened
    opens,   \* history: how many pipes were opened
    prints,  \* history: how many calls printed
    frames,  \* history: how many frames were answered
    host,    \* of each port: parity of the host's round, how much of the last
             \* response it stored; history: how much of the round the pipe took
    step     \* history: what the last call did

vars == <<pipes, opens, prints, frames, host, step>>

Quiet == [kind |-> "none"]

FreeSlot ==
    [port |-> 0, rx |-> EmptyBuff(RxSize), tx |-> EmptyBuff(TxSize), bExpectOdd |-> FALSE,
     nLast |-> 0, print |-> <<>>, opened |-> 0]

Init ==
    /\ pipes = [s \in Slots |-> FreeSlot]
    /\ opens = 0 /\ prints = 0 /\ frames = 0
    /\ host = [p \in Ports |-> [odd |-> FALSE, skip |-> 0, took |-> 0]]
    /\ step = Quiet

\* The first slot with a port, as _FMSTR_FindPipe and FMSTR_FindPipeIndex look for it.
FindPipe(port) ==
    LET found == {s \in Slots : pipes[s].port = port}
    IN  IF found = {} THEN {} ELSE {CHOOSE s \in found : \A t \in found : s <= t}
-----------------------------------------------------------------------------
(* The application.                                                        *)

\* Mutant: the first slot that is free is taken, without looking further.
SlotToOpenFirst(port) ==
    IF FindPipe(0) # {} THEN FindPipe(0) ELSE FindPipe(port)

\* The slot of a pipe on the same port, otherwise the first free one.
SlotToOpen(port) ==
    IF FindPipe(port) # {} THEN FindPipe(port) ELSE FindPipe(0)

\* Mutant: what the slot held before is not cleared.
PipeOpenDirty(port) ==
    /\ opens + prints < MaxCalls
    /\ \E s \in SlotToOpen(port) :
         pipes' = [pipes EXCEPT ![s] = [@ EXCEPT !.port = port, !.opened = opens + 1]]
    /\ opens' = opens + 1
    /\ host' = [host EXCEPT ![port].took = 0]
    /\ step' = Quiet
    /\ UNCHANGED <<prints, frames>>

PipeOpen(port) ==
    /\ opens + prints < MaxCalls
    /\ \E s \in SlotToOpen(port) :
         pipes' = [pipes EXCEPT ![s] = [FreeSlot EXCEPT !.port = port, !.opened = opens + 1]]
    /\ opens' = opens + 1
    /\ host' = [host EXCEPT ![port].took = 0]
    /\ step' = Quiet
    /\ UNCHANGED <<prints, frames>>

PipeClose(s) ==
    /\ pipes[s].port # 0
    /\ pipes' = [pipes EXCEPT ![s].port = 0]
    /\ step' = Quiet
    /\ UNCHANGED <<opens, prints, frames, host>>

\* A call that prints text ends in state st.
Printed(s, text, st) ==
    /\ opens + prints < MaxCalls
    /\ prints' = prints + 1
    /\ pipes' = [pipes EXCEPT ![s] = st.p]
    /\ step' = [kind |-> "print", slot |-> s, text |-> text, put |-> st.put, ok |-> st.ok]
    /\ UNCHANGED <<opens, frames, host>>

PipePuts(s) ==
    \E text \in Strings :
        LET st == Puts(Called(pipes[s]), text)
        IN  /\ st.ok /\ opens + prints < MaxCalls
            /\ prints' = prints + 1
            /\ pipes' = [pipes EXCEPT ![s] = st.p]
            /\ step' = Quiet
            /\ UNCHANGED <<opens, frames, host>>

\* The text a conversion stands for, by what printf promises: the shortest
\* digits, a sign if there is one to show, and spaces before it or zeros (the
\* digits of a negative number's complement go on for ever) behind it.
TextOf(f, bytes, arg) ==
    LET radix    == ParseFormat(f).radix
        signed   == f.letter \in {"d", "i"}
        value    == IF arg >= 0 THEN arg ELSE IF signed THEN -arg ELSE arg % 256^bytes
        count    == CHOOSE k \in 1 .. 32 : value < radix^k /\ (k = 1 \/ value >= radix^(k - 1))
        natural  == [i \in 1 .. count |-> XDigit((value \div radix^(count - i)) % radix, f.letter = "X")]
        sign     == IF ~signed THEN <<>> ELSE IF arg < 0 THEN <<"-">> ELSE IF f.plus THEN <<"+">> ELSE <<>>
        pad      == f.width - count - Len(sign)
        extended == XDigit(IF arg < 0 /\ ~signed /\ radix # 10 THEN radix - 1 ELSE 0, f.letter = "X")
    IN  IF f.zero THEN sign \o Times(extended, pad) \o natural ELSE Times(" ", pad) \o sign \o natural

ItemText(f, bytes, arg) ==
    IF f.k = "char" THEN <<f.c>>
    ELSE IF f.letter = "s" THEN arg
    ELSE IF f.letter = "c" THEN Append(Times(" ", f.width - 1), IF arg = Wide THEN "." ELSE arg)
    ELSE TextOf(f, bytes, arg)

\* What r is for a conversion that keeps that promise, or fails because there is
\* no room for the sign behind the digits, and leaves nothing in printfBuff.
Converts(r, f, bytes, arg) ==
    LET text == ItemText(f, bytes, arg)
    IN  /\ text \in Seq(STRING) /\ ~r.overrun
        /\ r.text = IF r.ok THEN text ELSE <<>>
        /\ r.ok <=> Len(text) <= PrintfSize

BytesOfType(type) == CASE type \in {"U8", "S8"} -> 1 [] type \in {"U16", "S16"} -> 2 [] OTHER -> 4

\* Every single conversion of the calls keeps it.
Converted ==
    /\ \A c \in OneCalls : \A i \in 1 .. Len(c.format) :
           LET f == c.format[i]
           IN  f.k # "char" =>
                   Converts(OneToA(c.type, c.arg, ParseFormat(f)), f, BytesOfType(c.type), c.arg)
    /\ \A c \in ListCalls : \A i \in 1 .. Len(c.format) :
           LET f   == c.format[i]
               arg == c.args[ArgOf(c.format, i)]
               ctx == ParseFormat(f)
           IN  f.k # "char" /\ ~ctx.isstring => Converts(PrintfAny(arg, ctx), f, ctx.dtsize, arg)

PrintfOneArg(s) ==
    \E c \in OneCalls :
        Printed(s, FlattenSeq([i \in DOMAIN c.format |->
                                  ItemText(c.format[i], BytesOfType(c.type), c.arg)]),
                PrintfOne(pipes[s], c.format, c.type, c.arg))

Printf(s) ==
    \E c \in ListCalls :
        Printed(s, FlattenSeq([i \in DOMAIN c.format |->
                       IF c.format[i].k = "char" THEN <<c.format[i].c>>
                       ELSE ItemText(c.format[i], ParseFormat(c.format[i]).dtsize,
                                     c.args[ArgOf(c.format, i)])]),
                PrintfV(pipes[s], c.format, c.args))

PipeRead(s) ==
    /\ pipes[s].port # 0 /\ BytesReady(pipes[s].rx) > 0
    /\ pipes' = [pipes EXCEPT ![s].rx = Rest(@, BytesReady(@))]
    /\ step' = Quiet
    /\ UNCHANGED <<opens, prints, frames, host>>

Printing(s) == pipes[s].port \in PrintPorts /\ (PipePuts(s) \/ PrintfOneArg(s) \/ Printf(s))
-----------------------------------------------------------------------------
(* The commands PIPE and GETPIPE, and the host that sends them.            *)

\* What the handler makes of a frame of n bytes for the pipe in slot s.
Served(p, h, port, n) ==
    LET matching == h.odd = p.bExpectOdd
        accepted == Min2(n, BytesFree(p.rx))
    IN  IF ~matching THEN p
        ELSE [p EXCEPT !.bExpectOdd = ~@,
                       !.tx = DiscardBytes(@, h.skip),
                       !.rx = Put(@, [i \in 1 .. accepted |-> port]),
                       !.nLast = accepted]

\* The host sends the frame of its round on a port, with n bytes of data, and
\* perhaps the response is lost.
PipeFrame(port, n) ==
    /\ frames < MaxFrames
    /\ frames' = frames + 1
    /\ \E s \in FindPipe(port), lost \in BOOLEAN :
         LET h    == host[port]
             p    == Served(pipes[s], h, port, n)
             took == IF h.odd = pipes[s].bExpectOdd THEN p.nLast ELSE h.took
         IN  /\ pipes' = [pipes EXCEPT ![s] = p]
             /\ IF lost
                THEN /\ host' = [host EXCEPT ![port].took = took]
                     /\ step' = Quiet
                ELSE /\ host' = [host EXCEPT ![port] =
                                    [odd |-> ~h.odd, took |-> 0,
                                     skip |-> Min2(BytesReady(p.tx), MaxSend)]]
                     /\ step' = [kind |-> "round", acked |-> p.nLast, took |-> took]
    /\ UNCHANGED <<opens, prints>>

\* A frame for a port no pipe is open on is refused.
PipeError(port) ==
    /\ FindPipe(port) = {}
    /\ step' = Quiet
    /\ UNCHANGED <<pipes, opens, prints, frames, host>>

\* GETPIPE of a port: the port and whether the pipe is open, or an error.
GetPipe(port) ==
    /\ step' = IF FindPipe(port) = {} THEN Quiet
               ELSE [kind |-> "info",
                     ports |-> {[port |-> pipes[s].port, open |-> pipes[s].port # 0] :
                                s \in FindPipe(port)}]
    /\ UNCHANGED <<pipes, opens, prints, frames, host>>

Next ==
    \/ \E port \in Ports : \/ PipeOpen(port) \/ PipeError(port) \/ GetPipe(port)
                           \/ \E n \in 0 .. MaxData : PipeFrame(port, n)
    \/ \E s \in Slots : PipeClose(s) \/ Printing(s) \/ PipeRead(s)

Spec == Init /\ [][Next]_vars
-----------------------------------------------------------------------------
(* Correctness.                                                            *)

\* However pipes are opened and closed, no two of them are open on one port:
\* FMSTR_PipeOpen looks for the port in every slot before it takes a free
\* one, so a frame, which is for the first slot with its port, cannot miss
\* the pipe the application writes to.
OnePipePerPort ==
    \A s, t \in Slots : pipes[s].port = pipes[t].port /\ pipes[s].port # 0 => s = t

\* What is buffered in an open pipe belongs to it: nothing that was written
\* before it was opened last, into a pipe of another port or into a former
\* one of this port, is left to be sent or read.
BuffersAreOwn ==
    \A s \in Slots :
        LET p   == pipes[s]
            out == Peek(p.tx, BytesReady(p.tx))
            in  == Peek(p.rx, BytesReady(p.rx))
        IN  p.port # 0 => /\ \A i \in DOMAIN out : out[i] = p.opened
                          /\ \A i \in DOMAIN in : in[i] = p.port

\* The count that completes a round of the host, by which it lets go of its
\* data, is what the pipe that is open now took of that round, though the
\* pipe was opened anew, and with it the parity, while the round went on.
AckIsOfThisOpening == step.kind = "round" => step.acked = step.took

\* What a call of printf puts into the pipe and leaves in printfBuff for a
\* later call is, behind what the calls before it left there, the beginning
\* of its text; and if it returns true all of its text is in the pipe.  The
\* buffer may fill up at any character, in the middle of a number too.
TextPrinted ==
    [][step'.kind = "print" =>
        LET p   == pipes[step'.slot]
            out == step'.put \o pipes'[step'.slot].print
        IN  /\ IsPrefix(out, p.print \o step'.text)
            /\ Len(out) >= Len(p.print)
            /\ step'.ok => step'.put = p.print \o step'.text]_vars
=============================================================================

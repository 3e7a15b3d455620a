------------------------------- MODULE Pdbdm -------------------------------
(***************************************************************************)
(* The packet-driven BDM transport (freemaster_pdbdm.c): a debugger writes *)
(* requests into a buffer in the target's memory and reads the responses   *)
(* from it, while the target runs.  The buffer holds a header (the state,  *)
(* and the length and command or status), the body, and a checksum behind  *)
(* the body.  The debugger writes these three in any order, so the target  *)
(* may see any mixture of them.                                            *)
(*                                                                         *)
(* FMSTR_Poll runs in a timer interrupt, as the file advises.  Interrupts  *)
(* of higher priority change variables between any two accesses of a copy; *)
(* the main loop, which adds entries to the dynamic table of variables,    *)
(* runs between the calls of FMSTR_Poll.                                   *)
(***************************************************************************)
EXTENDS Decoder

CONSTANTS
    Requests,   \* what the debugger may ask
    Handlings,  \* what the handler of a resource may return
    Variables,  \* the aligned variables of the application, [addr, size]
    Initial,    \* the memory at first
    Buffer,     \* the buffer for the dynamic table, [addr, size]
    NewEntries  \* the entries the application adds

Widths == {1, 2, 4, 8}

\* FMSTR_STS_OK and the error codes.  The codes of the commands are others, so
\* a request and a response never have the same.
Statuses == {"OK", "INVCMD", "RSPBUFFOVF", "INVBUFF", "INVSIZE", "NOTINIT", "EACCESS", "URESERR", "INSTERR"}

ASSUME RequestsAssumption == \A q \in Requests :
    /\ q.cmd \notin Statuses \cup {"none"}
    /\ q.cmd \in {"READMEM", "WRITEMEM"} => q.addr \in Nat /\ q.size \in Nat
    /\ q.cmd = "READMEM_BA" => q.index \in Int /\ q.size \in Nat
    /\ q.cmd = "GETCONFIG" => q.index \in Int /\ q.index <= Len(Params)
    /\ q.cmd = "WRITEMEM" => q.masked \in BOOLEAN /\ q.mask \subseteq 1 .. q.size
    /\ q.cmd = "SETSCOPE" => q.ops \in Seq(Operations)

\* Variables no operation cuts: aligned, and no wider than the widest.
ASSUME VariablesAssumption ==
    /\ \A v \in Variables : v.addr \in Nat /\ v.size \in Widths /\ v.size <= MaxSize /\ v.addr % v.size = 0
    /\ \A v, w \in Variables : v = w \/ v.addr + v.size <= w.addr \/ w.addr + w.size <= v.addr

\* No byte is the debugger's at first.
ASSUME InitialAssumption ==
    /\ Initial = [c \in DOMAIN Initial |-> Initial[c]]
    /\ \A c \in DOMAIN Initial : Initial[c] # "host"
    /\ \A v \in Variables : \A c \in v.addr .. v.addr + v.size - 1 :
          c \in DOMAIN Initial /\ Initial[c] = Initial[v.addr]

ASSUME TableAssumption == NewEntries \subseteq Entries /\ Buffer \in [addr : Nat, size : Nat]

VARIABLES
    box,      \* the shared buffer
    job,      \* what FMSTR_Poll is doing
    memory,   \* the bytes of the application
    table,    \* the dynamic table
    scopes,
    adding,   \* the entry FMSTR_TsaAddVar has written and not yet counted
    request,  \* what the debugger asks
    left,     \* the parts of it that are not yet written
    decoded   \* how often it was decoded

target == <<job, memory, table, scopes, adding>>
debugger == <<request, left>>
vars == <<box, target, debugger, decoded>>

\* pcktSize and cmdStatus, of a request or of a response.
Header(frame) == <<frame.cmd, frame.len>>
None == [cmd |-> "none", len |-> 0]
Idle == [pc |-> "idle", request |-> None, work |-> Job("OK", <<>>), copied |-> 0, data |-> <<>>, old |-> <<>>]

\* FMSTR_Init and _FMSTR_PdBdmInit.
Init ==
    /\ box = [state |-> "IDLE", header |-> Header(None), body |-> None, checksum |-> None]
    /\ job = Idle
    /\ memory = Initial
    /\ table = InitTsa
    /\ scopes = InitScope
    /\ adding = {}
    /\ request = None
    /\ left = {}
    /\ decoded = 0
-----------------------------------------------------------------------------
(* The transport.                                                          *)

\* Mutant: the header is not looked at.
BodyIsValid == box.checksum = box.body

\* The checksum covers the header and the body.
FrameIsValid == box.checksum = box.body /\ box.header = Header(box.body)

\* The checksum is destroyed, so that the frame is not decoded again.
Decode ==
    /\ box' = [box EXCEPT !.state = "DECODING_FRAME", !.checksum = None]
    /\ \E h \in Handlings : \E work \in {ProtocolDecoder(box.body, table, scopes, h)} :
        job' = [Idle EXCEPT !.pc = "copying", !.request = box.body, !.work = work, !.data = work.data]
    /\ scopes' = DecodedScopes(box.body, table, scopes)
    /\ decoded' = decoded + 1
    /\ UNCHANGED <<memory, table, adding, debugger>>

HasFrame == job.pc = "idle" /\ box.state = "RECEIVED_FRAME"

\* Mutant: a frame that is not valid is given up.
PollGivesUp ==
    /\ HasFrame
    /\ IF FrameIsValid THEN Decode
       ELSE box' = [box EXCEPT !.state = "IDLE"] /\ UNCHANGED <<target, debugger, decoded>>

\* _FMSTR_PdBdmPoll.  A frame that is not valid is left alone: the debugger may
\* still be writing it.
Poll == HasFrame /\ FrameIsValid /\ Decode

\* One operation of a copy.
IsCopying == job.pc = "copying" /\ job.copied < Len(job.work.accesses)
Current == job.work.accesses[job.copied + 1]
Offset == Current.addr - job.work.accesses[1].addr
Bytes(addrs) == {i \in 1 .. Current.width : Offset + i \in addrs}

CopyIn ==
    /\ IsCopying /\ job.work.dir = "read"
    /\ job' = [job EXCEPT !.copied = @ + 1, !.data = @ \o CopySrcAligned(memory, Current)]
    /\ UNCHANGED <<box, memory, table, scopes, adding, debugger, decoded>>

\* With a mask the operand is read first.
ReadOld ==
    /\ IsCopying /\ job.work.dir = "write" /\ job.request.masked /\ job.old = <<>>
    /\ job' = [job EXCEPT !.old = CopySrcAligned(memory, Current)]
    /\ UNCHANGED <<box, memory, table, scopes, adding, debugger, decoded>>

CopyOut ==
    /\ IsCopying /\ job.work.dir = "write"
    /\ job.request.masked => job.old # <<>>
    /\ LET new == [i \in 1 .. Current.width |-> "host"]
       IN  memory' = CopyDstAligned(memory, Current,
                        IF job.request.masked THEN CopyMaskedDstAligned(job.old, Bytes(job.work.mask), new)
                                              ELSE new)
    /\ job' = [job EXCEPT !.copied = @ + 1, !.old = <<>>]
    /\ UNCHANGED <<box, table, scopes, adding, debugger, decoded>>

\* _FMSTR_PdBdmSendResponse: the checksum, the length and the status, and then
\* the state that says so.
SendResponse ==
    /\ job.pc = "copying" /\ ~IsCopying
    /\ \E body \in {[cmd |-> job.work.status, len |-> Len(job.data), data |-> job.data]} :
        box' = [box EXCEPT !.header = Header(body), !.body = body, !.checksum = body]
    /\ job' = [job EXCEPT !.pc = "ready"]
    /\ UNCHANGED <<memory, table, scopes, adding, debugger, decoded>>

FrameToSend ==
    /\ job.pc = "ready"
    /\ box' = [box EXCEPT !.state = "FRAME_TO_SEND"]
    /\ job' = Idle
    /\ UNCHANGED <<memory, table, scopes, adding, debugger, decoded>>
-----------------------------------------------------------------------------
(* The application.                                                        *)

\* An interrupt gives a variable its other value with one operation.
AppWrite(v) ==
    /\ v \in Variables
    /\ memory' = [c \in DOMAIN memory |->
                    IF c \notin v.addr .. v.addr + v.size - 1 THEN memory[c]
                    ELSE IF memory[v.addr] = "old" THEN "new" ELSE "old"]
    /\ UNCHANGED <<box, job, table, scopes, adding, debugger, decoded>>

\* The dynamic table is set up, and cleared.
SetUpTable(addr) ==
    /\ job.pc = "idle" /\ adding = {}
    /\ \E t \in {SetUpTsaBuff(table, addr, Buffer.size)} : t # table /\ table' = t
    /\ UNCHANGED <<box, job, memory, scopes, adding, debugger, decoded>>

\* FMSTR_TsaAddVar, which needs a table; the interrupt may come in between.
AddVar(e) ==
    /\ job.pc = "idle" /\ adding = {} /\ table.buffAddr # NULL
    /\ TsaAddVarAccepts(table) /\ ~HasEntry(table, e)
    /\ table' = WriteEntry(table, e)
    /\ adding' = {e}
    /\ UNCHANGED <<box, job, memory, scopes, debugger, decoded>>

AddVarCounted ==
    /\ job.pc = "idle" /\ adding # {}
    /\ table' = CountEntry(table)
    /\ adding' = {}
    /\ UNCHANGED <<box, job, memory, scopes, debugger, decoded>>
-----------------------------------------------------------------------------
(* The debugger.                                                           *)

Answered == request = None \/ (left = {} /\ box.state = "FRAME_TO_SEND")

Ask(q) ==
    /\ Answered
    /\ request' = q
    /\ left' = {"header", "body", "checksum"}
    /\ decoded' = 0
    /\ UNCHANGED <<box, target>>

\* The state, the length and the command share a word.
WritePart(part) ==
    /\ part \in left
    /\ box' = CASE part = "header" -> [box EXCEPT !.state = "RECEIVED_FRAME", !.header = Header(request)]
                [] part = "body" -> [box EXCEPT !.body = request]
                [] part = "checksum" -> [box EXCEPT !.checksum = request]
    /\ left' = left \ {part}
    /\ UNCHANGED <<target, request, decoded>>
-----------------------------------------------------------------------------
Driver == Poll \/ CopyIn \/ ReadOld \/ CopyOut \/ SendResponse \/ FrameToSend

Application ==
    \/ \E v \in Variables : AppWrite(v)
    \/ \E addr \in {NULL, Buffer.addr} : SetUpTable(addr)
    \/ \E e \in NewEntries : AddVar(e)
    \/ AddVarCounted

Debugger == (\E q \in Requests : Ask(q)) \/ (\E part \in left : WritePart(part))

Next == Driver \/ Application \/ Debugger

Spec == Init /\ [][Next]_vars

\* FMSTR_Poll is called again and again, and the debugger goes on writing.
FairSpec == Spec /\ WF_vars(Driver) /\ WF_vars(\E part \in left : WritePart(part))
-----------------------------------------------------------------------------
(* Properties.                                                             *)

CellsOf(block) == block.addr .. block.addr + block.size - 1

\* A request to write has a variable in its block or not, never a part of it.
WholeVariables ==
    \A q \in Requests : q.cmd = "WRITEMEM" =>
        \A v \in Variables :
            \/ CellsOf(v) \cap CellsOf(q) = {}
            \/ /\ CellsOf(v) \subseteq CellsOf(q)
               /\ q.masked => \A c, d \in CellsOf(v) : c - q.addr + 1 \in q.mask <=> d - q.addr + 1 \in q.mask

\* The end of no block of a request wraps, as the check of a block takes for
\* granted: it adds the size to the address and compares the sums only.
RequestsDoNotWrap ==
    \A q \in Requests :
        /\ q.cmd \in {"READMEM", "WRITEMEM"} => q.addr + q.size < AddrSpace
        /\ q.cmd = "READMEM_BA" => BasedAddress(q.index) + q.size < AddrSpace
        /\ q.cmd = "SETSCOPE" => \A i \in DOMAIN q.ops :
              q.ops[i].code = "CFGVAR" => q.ops[i].addr + q.ops[i].size < AddrSpace

\* No scope is given a variable in the buffer of the dynamic table.  The variables
\* of a scope are checked when it is configured and not again when it is read, and
\* the buffer is described only until the application takes it back.
ScopesOffTable ==
    \A q \in Requests : q.cmd = "SETSCOPE" =>
        \A i \in DOMAIN q.ops : q.ops[i].code = "CFGVAR" => CellsOf(q.ops[i]) \cap CellsOf(Buffer) = {}

\* The guide promises size-aligned operations for reading and writing
\* (20_features.md:46 and :52), so that a variable that its application
\* changes in an interrupt is never seen half changed: neither does a response
\* mix two of its values, nor does the application itself find a mixture while
\* the debugger writes, if it cuts none in two (WholeVariables).
NoTornVariable ==
    \A v \in Variables :
        /\ \A c, d \in CellsOf(v) : memory[c] = memory[d]
        /\ job.request.cmd = "READMEM" /\ job.work.status = "OK"
              /\ CellsOf(v) \subseteq CellsOf(job.request) /\ job.copied = Len(job.work.accesses) =>
              \A c, d \in CellsOf(v) : job.data[c - job.request.addr + 1] = job.data[d - job.request.addr + 1]

EverListed == EntriesOf(table) \cup ToSet(Listed(table))

\* What an entry of a table describes, and what it lets a debugger write.
Described ==
    (UNION {CellsOf(e) \cup CellsOf(AsBlock(e.name)) \cup CellsOf(AsBlock(e.type)) : e \in EverListed})
        \cup (UNION {CellsOf([addr |-> t.addr, size |-> TableSize(t)]) : t \in ToSet(Tables(table))})
        \cup CellsOf(RecBuffer)
Writable == UNION {CellsOf(e) : e \in {f \in EverListed : f.flags = "RW_VAR"}}

\* TSA safety (20_features.md:83): while entries come and go, no access of a
\* request or of a scope touches a byte that no entry describes, and the
\* debugger's bytes are found only where an entry lets it write, if no block
\* wraps (RequestsDoNotWrap) and no scope reaches into a table that may go
\* (ScopesOffTable).
GuardedMemory ==
    /\ \A i \in 1 .. job.copied :
          LET a == job.work.accesses[i] IN job.work.dir = "read" => Cells(a) \subseteq Described
    /\ \A c \in DOMAIN memory : memory[c] = "host" => c \in Writable

\* The buffer is written by two parties without a lock: a request is decoded
\* once, as the debugger wrote it and never a mixture with its predecessor, and
\* what the debugger takes for the response is the whole response to it.
ExecutedAsSent ==
    /\ job.pc # "idle" => job.request = request /\ left = {} /\ decoded = 1
    /\ request # None /\ left = {} /\ box.state = "FRAME_TO_SEND" =>
          /\ decoded = 1 /\ job.pc = "idle"
          /\ FrameIsValid /\ box.body # request

\* Whatever the order in which the parts of a request are written, it is answered
\* in the end: the driver waits for the checksum (freemaster_pdbdm.c:143).
EveryRequestAnswered == []<>Answered

\* The search for a user resource goes over "all table entries", as the comment
\* in FMSTR_FindUresInTsa says (freemaster_tsa.c:527): the handler of every
\* resource that is listed is called.
ResourceIsFound ==
    job.pc # "idle" /\ job.request.cmd = "URESRWI"
        /\ (\E e \in EntriesOf(table) : e.addr = job.request.id) => job.work.call # NoCall
=============================================================================

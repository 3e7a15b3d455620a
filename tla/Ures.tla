-------------------------------- MODULE Ures --------------------------------
(***************************************************************************)
(* User resources (freemaster_ures.c): files and memories of the           *)
(* application that a host reads, writes and controls through a handler    *)
(* named in an entry of a TSA table.                                       *)
(*                                                                         *)
(* A request q has an operation, the id of the resource, an offset and a   *)
(* maximum or a control code, and data.  Its header, the operation and the *)
(* id, takes q.header bytes, a control code q.code more.  What the         *)
(* handler, part of the application, returns is the record h.              *)
(***************************************************************************)
EXTENDS Tsa

CONSTANT CommSize  \* FMSTR_COMM_BUFFER_SIZE

NoCall == [op |-> "none"]
Control(status, data, call) == [status |-> status, data |-> data, call |-> call]
Refused == Control("URESERR", <<>>, NoCall)

\* The answer after calling the handler of an entry, if it has one.
Handled(e, call, h, data) ==
    IF e.addr = NULL THEN Refused
    ELSE IF h.ok THEN Control("OK", data, call) ELSE Control("URESERR", <<>>, call)

\* At most a buffer is asked for.
UresControlRead(e, q, h) ==
    LET max == IF q.max > CommSize THEN CommSize ELSE q.max
    IN  Handled(e, [op |-> "READ", offset |-> q.offset, max |-> max], h, h.out)

UresControlWrite(e, q, h) ==
    Handled(e, [op |-> "WRITE", offset |-> q.offset, data |-> q.data], h, <<h.consumed>>)

\* The data is moved to the beginning of the buffer.  How much of it there is is
\* counted from the length of the message without its header, less the header
\* once more.
UresControlIoctl(e, q, h) ==
    LET hdrSize == q.header + q.code
        msgSize == q.code + Len(q.data)
        sizeIn  == IF msgSize > hdrSize THEN msgSize - hdrSize ELSE 0
    IN  Handled(e, [op |-> "IOCTL", code |-> q.offset, data |-> SubSeq(q.data, 1, sizeIn)], h, h.out)

\* URESRWI.  Two bytes at least are needed behind the header.
UresControl(t, q, h) ==
    LET found == FindUresInTsa(t, q.id)
    IN  IF found = <<>> \/ q.short THEN Refused
        ELSE CASE q.op = "READ"  -> UresControlRead(Head(found), q, h)
               [] q.op = "WRITE" -> UresControlWrite(Head(found), q, h)
               [] q.op = "IOCTL" -> UresControlIoctl(Head(found), q, h)
               [] OTHER -> Refused
=============================================================================

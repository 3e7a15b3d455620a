----------------------------- MODULE NetTable -----------------------------
(***************************************************************************)
(* The session table of the network transport (freemaster_net.c): which    *)
(* client address each entry serves, how recently it was used, and what it *)
(* has received of a frame that is not complete yet.  An entry is the      *)
(* transport identification of its client's protocol session.              *)
(*                                                                         *)
(* A record d holds this table, the protocol layer's p, and in closed the  *)
(* addresses whose connection the network driver has been told to close    *)
(* since the last FMSTR_Poll.  Of the bytes received only the address they *)
(* came from is kept.                                                      *)
(***************************************************************************)
EXTENDS Sessions

CONSTANTS
    Clients,    \* the addresses clients send from
    ZeroAddress, \* the address an entry is initialised to
    AgeMax      \* largest value of fmstr_nSessionAgeCount: 0xffffffff

ASSUME NetAssumption == ZeroAddress \notin Clients /\ AgeMax \in Nat \ {0}

InitNet ==
    [net |-> [i \in SessionIndex |-> [lastUsed |-> 0, address |-> ZeroAddress, rx |-> {}]],
     ageCount |-> 0, p |-> InitProtocol, closed |-> {}]

Unused(d, i) == d.net[i].lastUsed = 0

\* Mutant: what was received of an unfinished frame stays in the entry.
CloseKeepBytes(d, i) ==
    IF Unused(d, i) THEN d
    ELSE [d EXCEPT !.closed = @ \union {d.net[i].address},
                   !.p = FreeSession(d.p, i), !.net[i].lastUsed = 0]

\* Mutant: the entry stays in use.
CloseKeepEntry(d, i) ==
    IF Unused(d, i) THEN d
    ELSE [d EXCEPT !.closed = @ \union {d.net[i].address}, !.p = FreeSession(d.p, i), !.net[i].rx = {}]

\* Mutant: the protocol layer is not told.
CloseKeepSession(d, i) ==
    IF Unused(d, i) THEN d
    ELSE [d EXCEPT !.closed = @ \union {d.net[i].address}, !.net[i] = [@ EXCEPT !.lastUsed = 0, !.rx = {}]]

\* _FMSTR_NetCloseSession; the entry keeps its address.
NetCloseSession(d, i) ==
    LET freed == IF Unused(d, i) THEN d
                 ELSE [d EXCEPT !.closed = @ \union {d.net[i].address}, !.p = FreeSession(d.p, i)]
    IN  [freed EXCEPT !.net[i] = [@ EXCEPT !.lastUsed = 0, !.rx = {}]]

\* The entry with the smallest lastUsed, the first of several.
Oldest(d) == First({i \in SessionIndex : \A j \in SessionIndex : d.net[i].lastUsed <= d.net[j].lastUsed})

\* Mutant: the first entry is given up, whoever used it last.
FirstEntry(d) == 1

\* The entry to give up when none is free.
Victim(d) == Oldest(d)

\* _FMSTR_FindNetSession: an entry of that address, used or not, or else one
\* that is free or the oldest.
FindNetSession(d, address) ==
    LET same == {i \in SessionIndex : d.net[i].address = address}
        free == {i \in SessionIndex : Unused(d, i)}
    IN  IF same # {} THEN First(same)
        ELSE IF free # {} THEN First(free) ELSE Victim(d)

\* The tables after finding it.  Its second parameter is whether to make an
\* entry for an address that has none.
Found(d, address, create) ==
    LET i    == FindNetSession(d, address)
        age  == IF d.ageCount >= AgeMax THEN 0 ELSE d.ageCount
        aged == [d EXCEPT !.ageCount = age + 1, !.net[i].lastUsed = age + 1]
    IN  IF d.net[i].address = address THEN aged
        ELSE IF create
        THEN LET freed == NetCloseSession(d, i)
             IN  [freed EXCEPT !.ageCount = age + 1,
                      !.net[i] = [@ EXCEPT !.lastUsed = age + 1, !.address = address]]
        ELSE [d EXCEPT !.ageCount = age]
-----------------------------------------------------------------------------
(* _FMSTR_NetProcess, by what the network driver's Recv returns.  Each     *)
(* operator gives the tables afterwards.                                   *)

\* A client disconnects, or receiving fails.
Disconnected(d, address) ==
    NetCloseSession(Found(d, address, FALSE), FindNetSession(d, address))

\* A client's bytes leave its frame incomplete.
Incomplete(d, address) ==
    LET i == FindNetSession(d, address)
    IN  [Found(d, address, TRUE) EXCEPT !.net[i].rx = @ \union {address}]

\* They make too long a frame, or one with wrong lengths or checksum.
Broken(d, address) ==
    NetCloseSession(Found(d, address, TRUE), FindNetSession(d, address))

\* _FMSTR_NetSendDiscovery: the protocol a board is said to speak.
SendDiscovery(caps) == IF "UDP" \in caps THEN "UDP" ELSE IF "TCP" \in caps THEN "TCP" ELSE "none"

\* What a complete frame makes of the protocol layer; PING and DISCOVERY are
\* answered by the transport itself.
Command(p, i, c) == IF c.cmd \in {"ping", "discovery"} THEN Answer(p, "OK") ELSE Decode(p, i, c)

\* The command is answered, and how says what becomes of the response: sent
\* "whole", in "parts" or not at all ("error").  The length check of the
\* sending loop takes the last of several parts for an error.
Complete(d, address, c, how) ==
    LET i     == FindNetSession(d, address)
        found == [Found(d, address, TRUE) EXCEPT !.net[i].rx = {}]
        a     == Command(found.p, i, c)
        done  == [found EXCEPT !.p = a.p]
    IN  [d |-> IF how = "whole" \/ a.status = "none" THEN done ELSE NetCloseSession(done, i),
         status |-> a.status]
=============================================================================

------------------------------ MODULE Decoder ------------------------------
(***************************************************************************)
(* The decoder of the protocol (freemaster_protocol.c) for the requests    *)
(* that read and write memory, and those about the tables, the scopes, the *)
(* resources and the configuration.  What a request does is a job: a       *)
(* status, the data answered at once, and the accesses by which it then    *)
(* copies memory.  Access rights and feature locks, which a target with    *)
(* one session and no passwords does not have, are in module Sessions.     *)
(***************************************************************************)
EXTENDS Scope, Ures

CONSTANTS
    BaseAddress,  \* FMSTR_PLATFORM_BASE_ADDRESS, NULL for a platform without
    StringLen     \* FMSTR_StrLen: the length of the string at an address

ASSUME DecoderAssumption == BaseAddress \in Nat /\ StringLen \in [0 .. AddrSpace - 1 -> Nat]

Job(status, data) ==
    [status |-> status, data |-> data, dir |-> "none", accesses |-> <<>>, mask |-> {}, call |-> NoCall]

Reading(accesses) == [Job("OK", <<>>) EXCEPT !.dir = "read", !.accesses = accesses]

\* The bytes whose number is in the mask are written.
Writing(accesses, mask) ==
    [Job("OK", <<>>) EXCEPT !.dir = "write", !.accesses = accesses, !.mask = mask]

\* Error statuses of fixed length are sent without data.
Error(status) == Job(status, <<>>)

Params == <<"MTU", "VS", "NM", "DS", "BD", "F1", "BA", "RC", "SC", "PV", "PC">>

\* The name is given instead of the index when that is 0.  An index behind the
\* names is not looked for before it is used: Params[ix] is then what the code
\* makes of it, a string from anywhere.
ParamIndex(q) ==
    IF q.index # 0 THEN q.index
    ELSE LET named == {i \in DOMAIN Params : Params[i] = q.name}
         IN  IF named = {} THEN 0 ELSE CHOOSE i \in named : TRUE

GetBoardConfig(q) ==
    LET ix == ParamIndex(q)
    IN  IF ix <= 0 \/ (Params[ix] = "BA" /\ BaseAddress = NULL)
        THEN Error("EACCESS") ELSE Job("OK", <<Params[ix]>>)

ReadBlock(t, addr, size) ==
    CASE ~CheckTsaSpace(t, addr, size, FALSE) -> Error("EACCESS")
      [] CheckTsaSpace(t, addr, size, FALSE) /\ size > CommSize -> Error("RSPBUFFOVF")
      [] OTHER -> Reading(MemCpyFrom(addr, size))

ReadMem(t, q) == ReadBlock(t, q.addr, q.size)

BasedAddress(index) == (BaseAddress + index) % AddrSpace
ReadMemBaseAddress(t, q) == ReadBlock(t, BasedAddress(q.index), q.size)

WriteMem(t, q) ==
    IF ~CheckTsaSpace(t, q.addr, q.size, TRUE) THEN Error("EACCESS")
    ELSE IF q.masked THEN Writing(MemCpyToMasked(q.addr, q.size), q.mask)
    ELSE Writing(MemCpyTo(q.addr, q.size), 1 .. q.size)

GetStringLen(q) == Job("OK", <<StringLen[q.addr]>>)

ReadScope(scope) ==
    LET status == ReadScopeStatus(scope, CommSize)
        copies == [i \in 1 .. scope.varCnt |-> MemCpyFrom(scope.var[i - 1].addr, scope.var[i - 1].size)]
    IN  IF status = "OK" THEN Reading(FlattenSeq(copies)) ELSE Error(status)

\* FMSTR_ProtocolDecoder, without what changes the scopes.
ProtocolDecoder(q, t, scopes, h) ==
    CASE q.cmd = "GETCONFIG"  -> GetBoardConfig(q)
      [] q.cmd = "READMEM"    -> ReadMem(t, q)
      [] q.cmd = "READMEM_BA" /\ BaseAddress # NULL -> ReadMemBaseAddress(t, q)
      [] q.cmd = "WRITEMEM"   -> WriteMem(t, q)
      [] q.cmd = "GETTSAINFO" -> Job("OK", GetTsaInfo(t, q.index))
      [] q.cmd = "GETSTRLEN"  -> GetStringLen(q)
      [] q.cmd = "URESRWI"    -> LET c == UresControl(t, q, h)
                                 IN  [Job(c.status, c.data) EXCEPT !.call = c.call]
      [] q.cmd \in {"SETSCOPE", "READSCOPE"} /\ q.scope \notin DOMAIN scopes -> Error("INSTERR")
      [] q.cmd = "SETSCOPE"  /\ q.scope \in DOMAIN scopes ->
            Error(SetScope(scopes[q.scope], t, q.ops).status)
      [] q.cmd = "READSCOPE" /\ q.scope \in DOMAIN scopes -> ReadScope(scopes[q.scope])
      [] OTHER -> Error("INVCMD")

\* The scopes afterwards.
DecodedScopes(q, t, scopes) ==
    IF q.cmd = "SETSCOPE" /\ q.scope \in DOMAIN scopes
    THEN [scopes EXCEPT ![q.scope] = SetScope(@, t, q.ops).scope] ELSE scopes
=============================================================================

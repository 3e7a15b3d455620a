------------------------------ MODULE MCPdbdm ------------------------------
(***************************************************************************)
(* A small target: a structure at 2 with a halfword, a word and a halfword,*)
(* a read-only halfword at 12, a byte at 14 that nobody describes, a word  *)
(* at 16 the application adds at run time; strings from 20, a table of     *)
(* constants at 24, memory for the dynamic table from 37, the recorder at  *)
(* 48.  A resource has its handler at 60.                                  *)
(***************************************************************************)
EXTENDS Pdbdm

String(addr, len) == [addr |-> addr, len |-> len]
Type(noMem) == [addr |-> 22, len |-> 2, noMem |-> noMem]
Entry(name, type, flags, addr, size) ==
    [name |-> name, type |-> type, flags |-> flags, addr |-> addr, size |-> size]

Resource == Entry(String(20, 1), Type(TRUE), "RW_VAR", 60, 0)

MCStaticTables ==
    <<[addr |-> 24,
       entries |-> <<Resource,
                     Entry(String(20, 2), Type(FALSE), "RW_VAR", 2, 8),
                     Entry(String(21, 1), Type(FALSE), "RO_VAR", 12, 2)>>]>>

\* The resource comes second.
MCLaterResource ==
    <<[addr |-> 24, entries |-> <<Entry(String(20, 2), Type(FALSE), "RW_VAR", 2, 8), Resource>>]>>

MCVariables == {[addr |-> 4, size |-> 4]}
MCNewEntries == {Entry(String(21, 1), Type(FALSE), "RW_VAR", 16, 4)}
MCBuffer == [addr |-> 37, size |-> 7]
MCRecBuffer == [addr |-> 48, size |-> 4]

MCInitial ==
    [c \in 1 .. 51 |-> IF c \in 2 .. 9 \/ c \in 12 .. 13 THEN "old"
                       ELSE IF c \in 20 .. 51 THEN "const" ELSE "hidden"]

MCHandlings == {[ok |-> TRUE, out |-> <<1, 2>>, consumed |-> 1], [ok |-> FALSE, out |-> <<>>, consumed |-> 0]}

MCStringLen == [c \in 0 .. AddrSpace - 1 |-> IF c \in 20 .. 21 THEN 22 - c ELSE 0]

Read(addr, size) == [cmd |-> "READMEM", len |-> 2, addr |-> addr, size |-> size]
Write(addr, size) ==
    [cmd |-> "WRITEMEM", len |-> 3 + size, addr |-> addr, size |-> size, masked |-> FALSE, mask |-> {}]
Masked(addr, size, mask) ==
    [cmd |-> "WRITEMEM", len |-> 3 + 2 * size, addr |-> addr, size |-> size, masked |-> TRUE, mask |-> mask]

CfgMem_(n) == [code |-> "CFGMEM", fits |-> TRUE, varCnt |-> n]
CfgVar_(index, addr, size) ==
    [code |-> "CFGVAR", fits |-> TRUE, exact |-> TRUE, index |-> index, addr |-> addr, size |-> size]
SetScope_(ops) == [cmd |-> "SETSCOPE", len |-> 1 + 4 * Len(ops), scope |-> 0, ops |-> ops]

MCRequests ==
    {Read(3, 7), Read(2, 8), Read(13, 2), Read(16, 4), Read(24, 9),
     Write(3, 7), Write(12, 2), Write(16, 4), Masked(2, 8, {2, 7, 8}),
     SetScope_(<<CfgMem_(2), CfgVar_(0, 4, 4), CfgVar_(1, 14, 1)>>),
     SetScope_(<<CfgMem_(1), CfgVar_(0, 16, 4), CfgVar_(2, 8, 2)>>),
     [cmd |-> "READSCOPE", len |-> 1, scope |-> 0],
     [cmd |-> "GETCONFIG", len |-> 4, index |-> 0, name |-> "SC"], [cmd |-> "GETSTRLEN", len |-> 1, addr |-> 20],
     [cmd |-> "GETTSAINFO", len |-> 1, index |-> 1],
     [cmd |-> "READMEM_BA", len |-> 2, index |-> 1, size |-> 2],
     [cmd |-> "URESRWI", len |-> 4, op |-> "READ", id |-> 60, offset |-> 0, max |-> 9, short |-> FALSE]}

\* The requests cut no variable in two, do not wrap and keep off the table.
ASSUME MCAssumption == WholeVariables /\ RequestsDoNotWrap /\ ScopesOffTable
=============================================================================

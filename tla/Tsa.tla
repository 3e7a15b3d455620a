-------------------------------- MODULE Tsa --------------------------------
(***************************************************************************)
(* The tables of the target-side addressing (freemaster_tsa.c): constant   *)
(* tables and one the application fills at run time, which describe the    *)
(* variables a host may see.  With FMSTR_USE_TSA_SAFETY they also decide   *)
(* which memory it may read and write.                                     *)
(*                                                                         *)
(* An entry has the addresses of two strings, its name and its type, an    *)
(* address and a size, and flags; a string is an address and a length.     *)
(* The dynamic table is a record t: the buffer the application has given   *)
(* and the entries written to it, of which the first count are valid.      *)
(***************************************************************************)
EXTENDS MemCopy

CONSTANTS
    StaticTables,  \* FMSTR_TSA_TABLE_LIST: a sequence of [addr, entries]
    EntrySize,     \* sizeof(FMSTR_TSA_ENTRY)
    PointerSize,   \* sizeof(FMSTR_ADDR)
    AddrSpace,     \* addresses are 0 .. AddrSpace - 1
    RecBuffer      \* the buffer of the recorder, [addr, size]

\* FMSTR_TSA_ENTRY.
Entries == [name : [addr : Nat, len : Nat], type : [addr : Nat, len : Nat, noMem : BOOLEAN],
            flags : {"NON_VAR", "RO_VAR", "RO_FLASH", "RW_VAR"}, addr : Nat, size : Nat]

ASSUME TsaAssumption ==
    /\ {EntrySize, PointerSize, AddrSpace} \subseteq Nat \ {0}
    /\ StaticTables \in Seq([addr : Nat, entries : Seq(Entries)])
    /\ RecBuffer \in [addr : Nat, size : Nat]

NULL == 0

\* FMSTR_InitTsa.
InitTsa == [buffAddr |-> NULL, buffSize |-> 0, entry |-> <<>>, count |-> 0]

CheckNoWrapAddr(addr, size) == addr <= (addr + size) % AddrSpace

\* FMSTR_SetUpTsaBuff: the buffer can be cleared, and set when it is cleared.
\* The entries counted before stay counted.
SetUpTsaBuff(t, addr, size) ==
    LET alignment == GetAlignmentCorrection(addr, PointerSize)
    IN  IF /\ addr = NULL \/ t.buffAddr = NULL
           /\ size > alignment /\ size - alignment >= EntrySize
           /\ CheckNoWrapAddr(addr, alignment + size)
        THEN [t EXCEPT !.buffAddr = addr + alignment, !.buffSize = size - alignment]
        ELSE t

Capacity(t) == t.buffSize \div EntrySize

Listed(t) == SubSeq(t.entry, 1, t.count)

\* An entry with the same name, type, address, size and flags.
HasEntry(t, e) == \E i \in 1 .. t.count : t.entry[i] = e

TsaAddVarAccepts(t) == t.count < Capacity(t)

\* FMSTR_TsaAddVar for an entry that fits and is new: it is written behind the
\* last valid one and then counted.
WriteEntry(t, e) == [t EXCEPT !.entry = Append(Listed(t), e)]
CountEntry(t) == [t EXCEPT !.count = @ + 1]
-----------------------------------------------------------------------------
\* FMSTR_TsaGetTable for every index: the constant tables, then the dynamic one
\* when it has a buffer.
Tables(t) ==
    StaticTables \o
    (IF t.buffAddr = NULL THEN <<>> ELSE <<[addr |-> t.buffAddr, entries |-> Listed(t)]>>)

TableSize(table) == Len(table.entries) * EntrySize

\* GETTSAINFO: the size and address of a table, zeros for an index without one.
GetTsaInfo(t, index) ==
    IF index < Len(Tables(t)) THEN <<TableSize(Tables(t)[index + 1]), Tables(t)[index + 1].addr>>
                              ELSE <<0, NULL>>

\* The end of a block has the width of an address.
EndOf(addr, size) == (addr + size) % AddrSpace

\* Mutant: a block that begins in the safe one is safe.
CheckMemSpaceStart(addr, size, safe) == safe.addr <= addr /\ addr < EndOf(safe.addr, safe.size)

\* A block lies inside a known one.  Nobody asks CheckNoWrapAddr first: a block
\* whose end wraps ends before every known one.
CheckMemSpace(addr, size, safe) ==
    safe.addr <= addr /\ EndOf(addr, size) <= EndOf(safe.addr, safe.size)

IsMemoryMapped(e) == ~e.type.noMem /\ e.flags # "NON_VAR"

IsInRecBuffer(addr, size) == CheckMemSpace(addr, size, RecBuffer)

AsBlock(string) == [addr |-> string.addr, size |-> string.len]

EntriesOf(t) == UNION {ToSet(Tables(t)[i].entries) : i \in DOMAIN Tables(t)}

\* FMSTR_CheckTsaSpace: variables first; for reading the recorder's buffer, the
\* tables and the strings of their entries as well.
CheckTsaSpace(t, addr, size, write) ==
    \/ \E e \in EntriesOf(t) : /\ IsMemoryMapped(e)
                               /\ write => e.flags = "RW_VAR"
                               /\ CheckMemSpace(addr, size, e)
    \/ /\ ~write
       /\ \/ IsInRecBuffer(addr, size)
          \/ \E i \in DOMAIN Tables(t) :
                CheckMemSpace(addr, size, [addr |-> Tables(t)[i].addr, size |-> TableSize(Tables(t)[i])])
          \/ \E e \in EntriesOf(t) : \/ CheckMemSpace(addr, size, AsBlock(e.name))
                                     \/ CheckMemSpace(addr, size, AsBlock(e.type))

\* FMSTR_FindUresInTsa: the entry of a user resource, which is named by its
\* handler.  The loop over a table's entries counts them but does not advance,
\* and compares the first one every time.
FindUresInTsa(t, id) ==
    LET first == {i \in DOMAIN Tables(t) : /\ Tables(t)[i].entries # <<>>
                                           /\ Head(Tables(t)[i].entries).addr = id}
    IN  IF first = {} THEN <<>>
        ELSE <<Head(Tables(t)[CHOOSE i \in first : \A j \in first : i <= j].entries)>>
=============================================================================

------------------------------- MODULE Digest -------------------------------
(***************************************************************************)
(* Digests of passwords, one after the other in the one static context of  *)
(* the protocol layer (fmstr_sha1Ctx): each of data that comes in pieces.  *)
(***************************************************************************)
EXTENDS Sha1

CONSTANTS
    Pieces,  \* what the data are put together of
    MaxData  \* bound: bytes of data

Octets == 0 .. 255

ASSUME DigestAssumption == Pieces \subseteq Seq(Octets)

VARIABLES
    hashed,  \* the data given to the digest
    context  \* its context

\* A static variable is zero before its first use.
DigestInit ==
    /\ hashed = <<>>
    /\ context = Sha1Init([i \in 1 .. BlockSize |-> 0])

\* FMSTR_Sha1Update with the next piece of the data.
Update(piece) ==
    /\ Len(hashed) + Len(piece) <= MaxData
    /\ hashed' = hashed \o piece
    /\ context' = Sha1Update(context, piece)

\* FMSTR_Sha1Final, and FMSTR_Sha1Init for the next digest.
Final ==
    /\ hashed' = <<>>
    /\ context' = Sha1Init(Sha1Final(context).data)

DigestNext == Final \/ \E piece \in Pieces : Update(piece)
DigestSpec == DigestInit /\ [][DigestNext]_<<hashed, context>>
-----------------------------------------------------------------------------
\* The message SHA-1 is defined on: the end mark, zeros and the length, so that
\* all of it is a number of blocks.
Zeros(n) == CHOOSE z \in 0 .. BlockSize - 1 : (n + 1 + z + LengthSize) % BlockSize = 0
Whole(m) == Append(m, 128) \o [i \in 1 .. Zeros(Len(m)) |-> 0] \o BigEndian(8 * Len(m), LengthSize)
Reference(m) ==
    [k \in 1 .. Len(Whole(m)) \div BlockSize |-> SubSeq(Whole(m), (k - 1) * BlockSize + 1, k * BlockSize)]

\* The digest is that of the whole data, into whatever pieces they were cut and
\* whatever the digest before left in the context.
DigestOfWhole == Sha1Final(context).blocks = Reference(hashed)
=============================================================================

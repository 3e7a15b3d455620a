---------------------------- MODULE PipeStream ----------------------------
(***************************************************************************)
(* What a pipe promises its users, one direction of it: the reader gets    *)
(* the bytes the writer wrote, each once and in order.  The bytes of a     *)
(* stream are numbered 1, 2, 3 ... as they are written.                    *)
(***************************************************************************)
EXTENDS Naturals, Sequences

VARIABLES
    written,  \* how many bytes the writer has put into the pipe
    got       \* the bytes the reader has taken out of it

vars == <<written, got>>

Init == written = 0 /\ got = <<>>

\* The writer puts more bytes in.
Write == written' \in Nat /\ written' > written /\ got' = got

\* The reader takes the next n bytes out.
Read == /\ written' = written
        /\ \E n \in 1 .. written - Len(got) : got' = got \o [i \in 1 .. n |-> Len(got) + i]

Next == Write \/ Read

Spec == Init /\ [][Next]_vars
=============================================================================

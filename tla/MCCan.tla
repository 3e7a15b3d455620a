------------------------------- MODULE MCCan -------------------------------
(***************************************************************************)
(* Requests for the CAN transport: of one frame, of four, the special one  *)
(* of this transport, one that does not fit into the buffer and one whose  *)
(* answer is too long for the transport.                                   *)
(***************************************************************************)
EXTENDS CanLink

Request(cmd, args, status, data) ==
    [cmd |-> cmd, args |-> args, status |-> status, data |-> data]

MCRequests ==
    <<Request("PING", <<>>, "OK", <<>>),
      Request("WRITE", <<1, 2, 3, 4, 5, 6>>, "VAROK", <<7, 8, 9, 7, 8, 9>>),
      Request("WRITE", <<1, 2, 3, 4, 5, 6, 7, 8, 9>>, "OK", <<>>),
      Request("READ", <<>>, "OK", <<1, 2, 3, 4, 5, 6, 7, 8, 9>>)>>

\* With MSCAN and short interrupts FMSTR_Poll and the interrupt may send the
\* same frame: see the README.
MCBuilds ==
    Devices \X {"poll", "long", "short"} \ {<<"zephyr", "poll">>, <<"mscan", "short">>}
MCEarly == MCBuilds \ {<<"zephyr", "short">>}
=============================================================================

------------------------------ MODULE MCSerial ------------------------------
(***************************************************************************)
(* Requests for the serial transport: a short one, one whose checksum is a *)
(* SOB, one whose length and argument and one byte of whose answer are, one *)
(* that does not fit into the buffer and one whose answer is too long.      *)
(***************************************************************************)
EXTENDS SerialLink

Request(cmd, args, status, data) ==
    [cmd |-> cmd, args |-> args, status |-> status, data |-> data]

MCRequests ==
    <<Request(1, <<0>>, 0, <<>>),
      Request(3, <<0, 2>>, 4, <<2, 1>>),
      Request(1, <<0, 0, 0, 0, 0>>, 0, <<>>),
      Request(3, <<>>, 4, <<1, 1, 1, 1, 1>>)>>

MCBuilds ==
    {<<"lpuart", "poll">>, <<"lpuart", "long">>, <<"lpuart", "short">>, <<"usart", "long">>,
     <<"linflexd", "poll">>, <<"linflexd", "long">>,
     <<"zephyr", "long">>, <<"zephyr", "short">>, <<"usb", "poll">>, <<"usb", "long">>,
     <<"eonce", "poll">>, <<"eonce", "long">>, <<"eonceTdf", "poll">>}

MCEarlyBuilds == {<<"lpuart", "short">>, <<"usart", "long">>, <<"zephyr", "short">>, <<"usb", "long">>}
=============================================================================

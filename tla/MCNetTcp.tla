----------------------------- MODULE MCNetTcp -----------------------------
(***************************************************************************)
(* NetTcp for TLC: which targets are built.  The clients lock a scope.     *)
(***************************************************************************)
EXTENDS NetTcp

MCCounts   == [scope |-> 1, rec |-> 0, appcmd |-> 0, pipe |-> 0]
MCPorts    == <<>>
MCFeatures == {[type |-> "scope", instance |-> 0]}

MCBuilds       == [drv : {"lwip", "zephyr"}, discovery : BOOLEAN]

\* One client sends twice, the others once.
MCMaxSent == [a \in Clients |-> IF a = CHOOSE b \in Clients : TRUE THEN 2 ELSE 1]
=============================================================================

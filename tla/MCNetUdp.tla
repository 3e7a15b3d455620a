----------------------------- MODULE MCNetUdp -----------------------------
(***************************************************************************)
(* NetUdp for TLC.  Clients are interchangeable.  They use a recorder, a   *)
(* pipe, and a pipe that is not open.                                      *)
(***************************************************************************)
EXTENDS NetUdp, TLC

MCCounts == [scope |-> 0, rec |-> 1, appcmd |-> 1, pipe |-> 1]
MCPorts  == [i \in {0} |-> 5]

Feature(type, instance) == [type |-> type, instance |-> instance]
MCFeatures == {Feature("rec", 0), Feature("pipe", 5), Feature("pipe", 6)}

ClientSymmetry == Permutations(Clients)
=============================================================================

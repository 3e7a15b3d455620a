----------------------------- MODULE MCAppCmd -----------------------------
(* AppCmd for TLC.                                                         *)
EXTENDS AppCmd
=============================================================================

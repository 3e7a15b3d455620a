---------------------------- MODULE MCPipeLink ----------------------------
(* PipeLink for TLC.                                                       *)
EXTENDS PipeLink
=============================================================================

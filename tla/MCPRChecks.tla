----------------------------- MODULE MCPRChecks -----------------------------
(* A small instance of PRChecks for TLC.                                   *)
EXTENDS PRChecks
=============================================================================

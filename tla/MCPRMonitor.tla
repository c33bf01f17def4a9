---------------------------- MODULE MCPRMonitor ----------------------------
(* A small instance of PRMonitor for TLC.                                  *)
EXTENDS PRMonitor, TLC
=============================================================================

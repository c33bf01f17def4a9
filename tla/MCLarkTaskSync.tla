--------------------------- MODULE MCLarkTaskSync ---------------------------
(* Model values for TLC. *)
EXTENDS LarkTaskSync, TLC
=============================================================================

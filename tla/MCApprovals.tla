----------------------------- MODULE MCApprovals -----------------------------
(* Model values for TLC. *)
EXTENDS Approvals, TLC
=============================================================================

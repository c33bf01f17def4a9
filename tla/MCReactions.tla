---------------------------- MODULE MCReactions ----------------------------
(* Instances of Reactions for TLC. *)
EXTENDS Reactions
=============================================================================

---------------------------- MODULE MCTaskRefresh ----------------------------
(* A small instance of TaskRefresh for TLC.                                *)
EXTENDS TaskRefresh, TLC

\* Tasks are only compared, so permuting them changes nothing.
Symmetry == Permutations(Tasks)
=============================================================================

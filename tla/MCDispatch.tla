----------------------------- MODULE MCDispatch -----------------------------
(* Small instances of Dispatch for TLC.                                    *)
EXTENDS Dispatch, TLC

\* Workers and reviews are only compared, so permuting them changes nothing.
Symmetry == Permutations(Workers) \cup Permutations(Reviews)
=============================================================================

------------------------- MODULE MCReviewLifecycle -------------------------
(* A small instance of ReviewLifecycle for TLC.                            *)
EXTENDS ReviewLifecycle, TLC

\* Workers are only compared, so permuting them changes nothing.
Symmetry == Permutations(Workers)
=============================================================================

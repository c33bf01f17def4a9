--------------------------- MODULE MCInlinePosting ---------------------------
(* Small instances of InlinePosting for TLC.                                *)
EXTENDS InlinePosting, TLC

\* Posters are only compared.
Symmetry == Permutations(Posters)
=============================================================================

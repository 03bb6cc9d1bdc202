------------------------- MODULE MCSaveTransaction -------------------------
(* SaveTransaction on two views of one path, or one view of two paths.     *)
EXTENDS SaveTransaction, TLC

\* Views, paths and contents are interchangeable.
MCSymmetry == Permutations(View) \cup Permutations(Path) \cup Permutations(Content)
=============================================================================

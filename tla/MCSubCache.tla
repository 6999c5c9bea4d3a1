----------------------------- MODULE MCSubCache -----------------------------
(* SubCache on small sets, for TLC.                                        *)
EXTENDS SubCache, TLC

\* Keys are alike, and so are writers.
Symmetry == Permutations(Key) \cup Permutations(Writer)

=============================================================================

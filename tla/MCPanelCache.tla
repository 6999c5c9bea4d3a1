---------------------------- MODULE MCPanelCache ----------------------------
(* PanelCache on small sets, for TLC.                                      *)
EXTENDS PanelCache, TLC

\* Calls are alike, and so are short UUIDs.
Symmetry == Permutations(Caller) \cup Permutations(Key)

=============================================================================

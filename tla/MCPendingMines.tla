--------------------------- MODULE MCPendingMines ---------------------------
(* Instances of PendingMines for TLC.                                      *)
EXTENDS PendingMines, TLC

Symmetry == Permutations(Small) \cup Permutations(Targets \ Small)

=============================================================================

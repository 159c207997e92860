----------------------------- MODULE MCCallGate -----------------------------
(* Instances of CallGate for TLC.                                          *)
EXTENDS CallGate, TLC

Symmetry == Permutations(Calls) \cup Permutations(Holders)

=============================================================================

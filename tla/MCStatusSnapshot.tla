-------------------------- MODULE MCStatusSnapshot --------------------------
(* StatusSnapshot for TLC.  No symmetry: its runs check liveness too.      *)
EXTENDS StatusSnapshot

=============================================================================

---------------------------- MODULE MCHookIngest ----------------------------
(* HookIngest for TLC.  No symmetry: its run checks liveness too.          *)
EXTENDS HookIngest

=============================================================================

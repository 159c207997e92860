---------------------------- MODULE MCSilentSave ----------------------------
(* SilentSave for TLC.  No symmetry: its runs check liveness too.          *)
EXTENDS SilentSave

=============================================================================

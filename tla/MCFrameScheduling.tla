-------------------------- MODULE MCFrameScheduling --------------------------
(* Small instances of FrameScheduling. *)
EXTENDS FrameScheduling

CONSTANTS v1, v2
=============================================================================

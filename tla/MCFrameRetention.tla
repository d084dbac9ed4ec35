-------------------------- MODULE MCFrameRetention --------------------------
(* TLC's instance of FrameRetention; the bounds are in the .cfg files.     *)
EXTENDS FrameRetention
=============================================================================

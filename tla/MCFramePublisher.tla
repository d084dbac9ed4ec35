-------------------------- MODULE MCFramePublisher --------------------------
(* TLC's instance of FramePublisher; the bounds are in the .cfg files.     *)
EXTENDS FramePublisher
=============================================================================

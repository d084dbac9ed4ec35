-------------------------- MODULE MCStreamPipeline --------------------------
(* TLC's instance of StreamPipeline; the bounds are in the .cfg files.     *)
EXTENDS StreamPipeline
=============================================================================

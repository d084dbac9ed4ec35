------------------------- MODULE MCInferenceStream -------------------------
(* TLC's instance of InferenceStream; the bounds are in the .cfg files.    *)
EXTENDS InferenceStream
=============================================================================

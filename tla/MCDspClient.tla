---------------------------- MODULE MCDspClient ----------------------------
(* TLC's instance of DspClient; the bounds are in the .cfg files.          *)
EXTENDS DspClient

Symmetry == Permutations(Threads)
=============================================================================

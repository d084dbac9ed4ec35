--------------------------- MODULE MCAccelRouter ---------------------------
(* TLC's instance of AccelRouter; the bounds are in the .cfg files.  The   *)
(* threads are interchangeable, and only invariants are checked.           *)
EXTENDS AccelRouter, TLC

Symmetry == Permutations(Threads)
=============================================================================

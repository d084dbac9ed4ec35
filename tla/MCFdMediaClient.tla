-------------------------- MODULE MCFdMediaClient --------------------------
(* TLC's instance of FdMediaClient; the bounds are in the .cfg files.      *)
EXTENDS FdMediaClient
=============================================================================

------------------------------ MODULE Clamping ------------------------------
(***************************************************************************)
(* std::min and std::max, with which postprocess.cpp and draw.cpp clamp    *)
(* boxes and windows to a frame.                                           *)
(***************************************************************************)
EXTENDS Integers

min(a, b) == IF b < a THEN b ELSE a
max(a, b) == IF a < b THEN b ELSE a
=============================================================================

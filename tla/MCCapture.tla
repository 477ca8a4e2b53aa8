------------------------------ MODULE MCCapture ------------------------------
(* Two callers over a ring of four frames that is overwritten while they copy  *)
(* it.                                                                         *)
EXTENDS Capture, TLC

Symmetry == Permutations(Workers)
=============================================================================

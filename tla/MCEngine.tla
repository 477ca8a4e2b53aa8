------------------------------- MODULE MCEngine -------------------------------
(* The audio thread, with blocks of two or three frames and delays of none, a  *)
(* block, and a frame more or less.                                            *)
EXTENDS Engine
=============================================================================

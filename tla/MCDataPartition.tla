---------------------------- MODULE MCDataPartition ----------------------------
(* A few saves, power cuts and errors for TLC.                             *)
EXTENDS DataPartition

CONSTANTS c1, c2

TwoConfigs == {c1, c2}
=============================================================================

----------------------------- MODULE MCSavedConfig -----------------------------
(* Two values of every setting, two HTTP workers for TLC; with the new count *)
(* of inputs the one with the gain is not there.                             *)
EXTENDS SavedConfig, TLC

CONSTANTS w1, w2, old, new

TwoWorkers == {w1, w2}
TwoValues == {old, new}
TheNewCount == {new}
AnyWorker == Permutations(TwoWorkers)

Puts(kinds) == [kind : kinds, value : TwoValues]
Saves == [kind : {"save", "reset", "net"}, value : {old}]

EveryPut == Puts(Settings) \cup Saves
===============================================================================

----------------------------- MODULE MCMixerLink -----------------------------
(* Two channels and a machine with two streams, for TLC.                   *)
EXTENDS MixerLink

CONSTANTS quiet, loud

Levels == {quiet, loud}
Main == [ip |-> "laptop", stream |-> "main"]
Ding == [ip |-> "laptop", stream |-> "notif"]
Streams == {Main, Ding}

\* The machine's "notif", or whatever it has; and the second channel.
Notif == [want |-> Any, stream |-> "notif"]
Second == [want |-> 1, stream |-> NoName]
EveryMixer == {Notif, Second}
=============================================================================

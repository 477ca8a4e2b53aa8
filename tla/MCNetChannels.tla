---------------------------- MODULE MCNetChannels ----------------------------
(* A network of two channels, and two sockets that are used again and again. *)
EXTENDS NetChannels

CONSTANTS s1, s2

TwoSlots == {s1, s2}

Sender(ip, mac, stream, instance, count, want) ==
  [want |-> want, count |-> count, ip |-> ip, mac |-> mac, stream |-> stream,
   instance |-> instance, socket |-> TRUE]

Any == Total

\* A stereo output, the same output opened again and pinned to channel 1, its
\* machine's other output from a sender without instances, and the Bluetooth
\* input, which gives no MAC either and has no socket.
Mixed ==
  {Sender("laptop", "m1", "main", 1, 2, Any), Sender("laptop", "m1", "main", 2, 1, 1),
   Sender("laptop", "m1", "notif", 0, 1, Any),
   [want |-> Any, count |-> 1, ip |-> "bt", mac |-> NoOne, stream |-> NoOne, instance |-> 0,
    socket |-> FALSE]}

FirstChannel == {0}
=============================================================================

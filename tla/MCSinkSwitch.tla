----------------------------- MODULE MCSinkSwitch -----------------------------
(* Two HTTP workers, the scan and the Bluetooth thread for TLC.              *)
EXTENDS SinkSwitch

CONSTANTS w1, w2, scan, bus

TwoWorkers == {w1, w2}
TheScan == {scan}
TheBus == {bus}

AllKinds == {"hdmi", "late", "speaker"}
Late == {"late"}
Speaker == {"speaker"}

Body(l, r, e) == [layout |-> l, rate |-> r, enabled |-> e, retarget |-> FALSE]
OnOff == BOOLEAN \cup {Keep}

\* Every body of a PUT of an HDMI sink; for one the scan binds, fewer; the
\* Bluetooth sink has one layout, but its speaker may change.
Bodies ==
  [hdmi |-> {Body(l, r, e) : l \in Layouts \cup {Keep}, r \in {48000, 96000, Keep}, e \in OnOff},
   late |-> {Body(l, Keep, e) : l \in {"surround", Keep}, e \in OnOff}
            \cup {Body(Keep, 48000, Keep)},
   speaker |-> {Body(Keep, r, e) : r \in {44100, 48000, Keep}, e \in OnOff}
               \cup {[Body(Keep, Keep, e) EXCEPT !.retarget = TRUE] : e \in OnOff}]
===============================================================================

------------------------------- MODULE MCInputs -------------------------------
(* Two phones, two requests at a time; and a device that is read a frame at a  *)
(* time.  In each mix one of the two inputs is busy, with the requests there   *)
(* are.                                                                        *)
EXTENDS DeviceInput

Busy ==
  {[puts |-> 3, streams |-> 1, faults |-> 0, device |-> 0],
   [puts |-> 1, streams |-> 3, faults |-> 1, device |-> 0],
   [puts |-> 1, streams |-> 0, faults |-> 0, device |-> 1],
   [puts |-> 0, streams |-> 0, faults |-> 0, device |-> 3]}
=============================================================================

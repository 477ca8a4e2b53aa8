------------------------------ MODULE MCBtManager ------------------------------
(* The manager with one device; every behaviour of up to MaxEvents events.   *)
EXTENDS BtManager
================================================================================

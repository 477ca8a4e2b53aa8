------------------------------ MODULE MCNetStream ------------------------------
(* Two channels, a timeline of six blocks that is lapped once, two          *)
(* streams after each other, and a delay that the console changes.          *)
EXTENDS NetStream
=============================================================================

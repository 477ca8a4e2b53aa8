------------------------------- MODULE RingFeed -------------------------------
(***************************************************************************)
(* What the engine promises whoever reads the capture ring: frames are     *)
(* only ever appended, and as long as the generation stays the same they   *)
(* are the card's, one after the other, all under one delay.  Wherever     *)
(* time was lost or the axis has moved, the generation has moved on        *)
(* first.  This is what a client compares a snapshot's generation for      *)
(* (src/app/src/audio_engine.h, capture.h).  Engine implements it, and     *)
(* Capture is built on it.                                                 *)
(***************************************************************************)
EXTENDS Integers, Sequences

CONSTANTS
  Instants,   \* the card's time, in frames
  Shifts,     \* how far the capture may be held back
  Lengths     \* of a block

VARIABLES
  ring,       \* ring index (from 1) -> [live, delay, gen]: when, held back by, made under
  gen         \* generation_

feed == <<ring, gen>>

FeedInit == ring = <<>> /\ gen = 0

\* A block of len frames captured from instant t on, in the ring with delay d.
Block(t, d, len) == [i \in 1 .. len |-> [live |-> t + i - 1, delay |-> d, gen |-> gen]]

\* The frame follows the ring's last one, or comes under a generation of its own.
Follows(t, d) ==
  ring # <<>> =>
    LET last == ring[Len(ring)]
    IN /\ t > last.live
       /\ last.gen = gen => t = last.live + 1 /\ d = last.delay

Feed ==
  /\ Len(ring') - Len(ring) \in Lengths /\ UNCHANGED gen
  /\ \E t \in Instants, d \in Shifts :
       Follows(t, d) /\ ring' = ring \o Block(t, d, Len(ring') - Len(ring))

\* An xrun, a recovered stream, another delay.
Mark == gen' = gen + 1 /\ UNCHANGED ring

FeedSpec == FeedInit /\ [][Feed \/ Mark]_feed

=============================================================================

---------------------------- MODULE MCRingBuffer ----------------------------
(* Small rings for TLC.  Twice the block is the margin main.cpp gives the  *)
(* capture ring; the ring is the smallest one that leaves room to read.    *)
EXTENDS RingBuffer

CONSTANT r1

OneReader == {r1}
Late == {0, 3}
=============================================================================

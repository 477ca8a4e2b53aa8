------------------------------ MODULE RingBuffer ------------------------------
(***************************************************************************)
(* The single-writer, many-reader ring every capture column lives in       *)
(* (src/app/src/ring_buffer.h).  The audio thread copies a block of frames *)
(* into the slots after the counter and only then moves the counter; a     *)
(* reader checks the counter, copies, and checks the counter again.        *)
(* Nothing is locked, so a reader may be stopped anywhere while the writer *)
(* goes round.                                                             *)
(*                                                                         *)
(* A frame is abstracted to the absolute index it was written for, so a    *)
(* copy is right when the frame read for index i is i.  The copies are     *)
(* memcpy: frame by frame, in any order, interleaved with everything else. *)
(***************************************************************************)
EXTENDS Integers, FiniteSets

CONSTANTS
  Frames,     \* frames_: the length of the ring
  Safety,     \* safety_: how near the tail a read may still start
  Block,      \* the most frames one write_at() carries (the engine's period)
  Readers,    \* the threads that read
  MaxCounter, \* bound: the counter stops here
  FirstAt     \* where the first write may land (0, or later: a ring wired in late)

ASSUME RingAssumption ==
  /\ Frames \in Nat \ {0}
  /\ Block \in 1..Frames
  /\ Safety \in 0..Frames
  /\ MaxCounter \in Nat
  /\ FirstAt \subseteq Nat

\* The margin covers the block being written: main.cpp gives the capture ring
\* two periods, sink_out.cpp a sink's ring an eighth of its length.
ASSUME SafetyAssumption == Safety >= Block

VARIABLES
  n,      \* n_: the published counter, one past the newest frame
  base,   \* where the block being copied starts; n when none is
  head,   \* one past that block; n when none is
  left,   \* the frames of that block not copied yet
  buf,    \* buf_: for each slot the frame it holds
  first,  \* the first frame ever written; frames before it are zeros
  rd      \* each reader's call: where it is, its arguments, what it copied

ringVars == <<n, base, head, left, buf, first, rd>>

Zero == -1    \* what a new ring holds
Slot(i) == i % Frames

\* What index i of the axis holds: the frame written for it, or zeros where
\* the ring had not been wired in.
Written(i) == IF i < first THEN Zero ELSE i

Nothing == [i \in {} |-> 0]
Idle == [pc |-> "idle", start |-> 0, len |-> 0, out |-> Nothing, n2 |-> 0]
Asking(start, len) == [pc |-> "copy", start |-> start, len |-> len, out |-> Nothing, n2 |-> 0]

RingInit ==
  /\ n = 0 /\ base = 0 /\ head = 0 /\ left = {} /\ first = 0
  /\ buf = [s \in 0 .. Frames - 1 |-> Zero]
  /\ rd = [r \in Readers |-> Idle]

----------------------------------------------------------------------------
(* The writer: write_at(at, block, len).                                   *)

\* write() goes on at the counter; only the first write may skip ahead.
WriteBegin(at, len) ==
  /\ head = n
  /\ at = n \/ (n = 0 /\ at \in FirstAt)
  /\ at + len <= MaxCounter
  /\ first' = IF n = 0 THEN at ELSE first
  /\ base' = at
  /\ head' = at + len
  /\ left' = at .. at + len - 1
  /\ UNCHANGED <<n, buf, rd>>

\* Mutant: the second half of a block that wraps lands one slot late.
WriteFrameLate(i) ==
  /\ i \in left
  /\ buf' = [buf EXCEPT ![IF Slot(i) < Slot(base) THEN Slot(i + 1) ELSE Slot(i)] = i]
  /\ left' = left \ {i}
  /\ UNCHANGED <<n, base, head, first, rd>>

\* One frame of the memcpy.
WriteFrame(i) ==
  /\ i \in left
  /\ buf' = [buf EXCEPT ![Slot(i)] = i]
  /\ left' = left \ {i}
  /\ UNCHANGED <<n, base, head, first, rd>>

\* Mutant: the counter is stored before the copy has ended.
WriteEndEarly ==
  /\ head # n
  /\ n' = head /\ base' = head
  /\ UNCHANGED <<head, left, buf, first, rd>>

\* n_.store(n + frames, release): the block is published.
WriteEnd ==
  /\ left = {} /\ head # n
  /\ n' = head /\ base' = head
  /\ UNCHANGED <<head, left, buf, first, rd>>

----------------------------------------------------------------------------
(* A reader: read_channel() or read_interleaved().                         *)

\* Mutant: the margin forgotten.
InAskedNoMargin(start, len) == start + len <= n /\ n - start <= Frames

\* The range is wholly published, and not too near the tail.
InAsked(start, len) == start + len <= n /\ n - start <= Frames - Safety

ReadBegin(r, start, len) ==
  /\ rd[r].pc = "idle"
  /\ len \in 1..Frames
  /\ InAsked(start, len)
  /\ rd' = [rd EXCEPT ![r] = Asking(start, len)]
  /\ UNCHANGED <<n, base, head, left, buf, first>>

Asked(c) == c.start .. c.start + c.len - 1

\* What a call has copied once it also has frame i.
Plus(out, i) == [j \in DOMAIN out \cup {i} |-> IF j = i THEN buf[Slot(i)] ELSE out[j]]

ReadFrame(r, i) ==
  /\ rd[r].pc = "copy"
  /\ i \in Asked(rd[r]) \ DOMAIN rd[r].out
  /\ rd' = [rd EXCEPT ![r].out = Plus(@, i)]
  /\ UNCHANGED <<n, base, head, left, buf, first>>

\* Mutant: the second look is forgotten.
StillThereUnchecked(start, n2) == n2 >= start

\* n2 - start <= frames_: whether the copy is returned as valid.
StillThere(start, n2) == n2 - start <= Frames

\* The call after its second look at the counter.
Ended(c) == [pc |-> IF StillThere(c.start, n) THEN "ok" ELSE "failed",
             start |-> c.start, len |-> c.len, out |-> c.out, n2 |-> n]

ReadEnd(r) ==
  /\ rd[r].pc = "copy"
  /\ DOMAIN rd[r].out = Asked(rd[r])
  /\ rd' = [rd EXCEPT ![r] = Ended(@)]
  /\ UNCHANGED <<n, base, head, left, buf, first>>

\* The caller is done with the buffer.
Return(r) ==
  /\ rd[r].pc \in {"ok", "failed"}
  /\ rd' = [rd EXCEPT ![r] = Idle]
  /\ UNCHANGED <<n, base, head, left, buf, first>>

RingNext ==
  \/ \E at \in {n} \cup FirstAt, len \in 1..Block : WriteBegin(at, len)
  \/ \E i \in left : WriteFrame(i)
  \/ WriteEnd
  \/ \E r \in Readers :
       \/ \E start \in 0..MaxCounter, len \in 1..Frames : ReadBegin(r, start, len)
       \/ \E i \in Asked(rd[r]) : ReadFrame(r, i)
       \/ ReadEnd(r)
       \/ Return(r)

RingSpec == RingInit /\ [][RingNext]_ringVars

----------------------------------------------------------------------------
(* Properties.                                                             *)

\* Types, and that a write in progress fits behind the counter.
RingTypeOK ==
  /\ n \in Nat /\ base \in Nat /\ head \in Nat /\ first \in Nat
  /\ left \subseteq base .. head - 1
  /\ buf \in [0 .. Frames - 1 -> Int]
  /\ rd \in [Readers -> [pc : {"idle", "copy", "ok", "failed"}, start : Nat, len : Nat,
                         out : {rd[r].out : r \in Readers}, n2 : Nat]]
  /\ \A r \in Readers : DOMAIN rd[r].out \subseteq Asked(rd[r])

\* A frame of a returned copy that is not what was written for its index.
Torn(c, i) == c.out[i] # Written(i)

\* What the copies really promise: a read returned as valid may hold wrong
\* frames only where the one block the writer had in flight at the second
\* look at the counter lands, so only at its oldest end, and never for a
\* block that was published by then (the re-read of n_ in ring_buffer.h).
OnlyTheBlockInFlightTears ==
  \A r \in Readers : rd[r].pc = "ok" =>
    \A i \in Asked(rd[r]) :
       Torn(rd[r], i) => i + Frames \in rd[r].n2 .. rd[r].n2 + Block - 1

\* So a read that ended with a whole block of margin is exact, however long
\* the reader was stopped in the middle of it.
ExactWithABlockOfMargin ==
  \A r \in Readers :
    (rd[r].pc = "ok" /\ rd[r].n2 - rd[r].start + Block <= Frames)
      => \A i \in Asked(rd[r]) : ~Torn(rd[r], i)

\* What ring_buffer.h says: no read returns a mix of old and new samples
\* while believing them valid.  The code does not keep it: see the README.
ReadsAreUntorn ==
  \A r \in Readers : rd[r].pc = "ok" => \A i \in Asked(rd[r]) : ~Torn(rd[r], i)

\* What the pre-check grants is really there: while a frame may be asked for,
\* the block being written does not reach its slot, so a reader that is not
\* held up is never handed another frame for it.
AskableFramesAreThere ==
  \A i \in 0 .. n - 1 : InAsked(i, 1) => buf[Slot(i)] = Written(i)

----------------------------------------------------------------------------
(* The inductive invariant behind them.                                    *)

\* The counter and the block in flight.
WriterShape ==
  /\ base <= head /\ head <= base + Block
  /\ n # 0 => base = n
  /\ head = n => base = n
  /\ first <= base
  /\ head = 0 => first = 0 /\ \A s \in 0 .. Frames - 1 : buf[s] = Zero

\* A frame of the block in flight is in its slot once it is copied; an older
\* one stays until the frame one turn later is.
SlotsHold ==
  /\ \A i \in (base .. head - 1) \ left : buf[Slot(i)] = i
  /\ \A i \in 0 .. base - 1 :
       (i + Frames >= base /\ (i + Frames >= head \/ i + Frames \in left))
         => buf[Slot(i)] = Written(i)

\* A frame a running read copied wrong is one the block in flight reaches.
CopiesHold ==
  \A r \in Readers : rd[r].pc # "idle" =>
    /\ rd[r].len >= 1 /\ rd[r].start + rd[r].len <= n
    /\ rd[r].pc = "copy" =>
         \A i \in DOMAIN rd[r].out : Torn(rd[r], i) => i + Frames < head
    /\ rd[r].pc = "ok" => DOMAIN rd[r].out = Asked(rd[r])

\* While the writer copies into a slot nothing else in the ring is disturbed,
\* and what a reader got wrong it got from a slot the writer had come round to
\* (write_at() and the two reads of ring_buffer.h together).
RingInv == RingTypeOK /\ WriterShape /\ SlotsHold /\ CopiesHold /\ OnlyTheBlockInFlightTears
=============================================================================

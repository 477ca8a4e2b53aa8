-------------------------------- MODULE Engine --------------------------------
(***************************************************************************)
(* The audio thread (src/app/src/audio_engine.cpp, audio_backend.cpp) and  *)
(* what it makes of a block (engine_core.cpp).  It opens the card again    *)
(* and again until it streams; each block it captures goes to the ring,    *)
(* with the card's inputs held back so that one index of the ring is one   *)
(* instant on every column, and is played at its own index, undelayed.     *)
(*                                                                         *)
(* A frame is known by the instant the card captured it.  The network and  *)
(* device columns are known by the index their frames were placed at,      *)
(* which is NetStream's.  Levels, routing and the wave forms are left out. *)
(***************************************************************************)
EXTENDS Integers, Sequences

CONSTANTS
  Periods,      \* what the driver may make of the period asked for
  Delays,       \* values of net.delay_frames
  DeviceDelay,  \* kDeviceInputDelayMs, in frames
  LineLen,      \* the delay line, a power of two
  Silent,       \* a frame of zeroes
  MaxFrames,    \* bound: frames in the ring before the last block
  MaxXruns,     \* bound: failed reads and writes
  MaxOpens,     \* bound: openings of the card
  MaxChanges,   \* bound: changes of the delay asked for
  MaxPings      \* bound: pings

EngineAssumption ==
  /\ Periods # {} /\ Periods \subseteq Nat \ {0} /\ Delays \subseteq Nat /\ 0 \in Delays
  /\ DeviceDelay \in Nat \ {0} /\ LineLen \in Nat /\ \E k \in 0 .. 20 : LineLen = 2 ^ k
  /\ \A p \in Periods, d \in Delays \cup {DeviceDelay} : d + p <= LineLen
  /\ {MaxFrames, MaxXruns, MaxOpens, MaxChanges, MaxPings} \subseteq Nat

ASSUME EngineAssumption

VARIABLES
  running,   \* running_
  pc,        \* where the audio thread is
  pcms,      \* the PCMs that are open: "capture" and "playback"
  period,    \* opt_.period
  instant,   \* the card's next frame
  wide,      \* cap_ch_ is what was asked for
  block,     \* the instants of the block in hand
  asked,     \* ctl_.net.delay_frames, and whether a device input's timeline is set
  line,      \* cap_delay_, its position, cap_delay_frames_, and since which index that holds
  told,      \* ctl_.capture_delay
  ring,      \* ring index (from 1) -> what the frame is, and under which delay it was made
  gen,       \* generation_
  pings,     \* ctl_.ping_log
  sink,      \* a sink's handoff ring: its counter, or Unwired
  spent      \* what the bounds have left

card == <<pcms, period, instant, wide, block>>
axis == <<line, told, gen>>
out == <<ring, pings, sink>>
vars == <<running, pc, card, asked, axis, out, spent>>

Unwired == -1
Unplaced == -1
NoDelay == [frames |-> 0, pos |-> 0, held |-> [i \in 0 .. LineLen - 1 |-> Silent], since |-> 0]

\* ring_.counter().
N == Len(ring)

Init ==
  /\ running = TRUE /\ pc = "open" /\ pcms = {} /\ wide = TRUE /\ instant = 0 /\ block = <<>>
  /\ period \in Periods /\ asked = [net |-> 0, device |-> FALSE]
  /\ line = NoDelay /\ told = 0 /\ ring = <<>> /\ gen = 0 /\ pings = <<>> /\ sink = Unwired
  /\ spent = [xruns |-> MaxXruns, opens |-> MaxOpens, changes |-> MaxChanges, pings |-> MaxPings]

Spends(what) == spent[what] > 0 /\ spent' = [spent EXCEPT ![what] = @ - 1]

----------------------------------------------------------------------------
(* run_card(): open, start, stream, close, and the wait in between.        *)

\* close_alsa(), and wait_before_retry().
GiveUp == pcms' = {} /\ pc' = "wait"

\* open_alsa(), a call of the driver at a time.
OpenCapture ==
  /\ pc = "open" /\ running /\ Spends("opens")
  /\ \/ pcms' = {"capture"} /\ pc' = "openPlayback"
     \/ pcms' = {} /\ pc' = "wait"
  /\ wide' = TRUE
  /\ UNCHANGED <<running, period, instant, block, asked, axis, out>>

OpenPlayback ==
  /\ pc = "openPlayback"
  /\ \/ pcms' = {"capture", "playback"} /\ pc' = "capture"
     \/ GiveUp
  /\ UNCHANGED <<running, period, instant, wide, block, asked, axis, out, spent>>

\* configure(): the driver may settle on another period, and refuse all the same.  What
\* it refuses wide it is asked again, with the six channels there always are.
ConfigureCapture ==
  /\ pc = "capture" /\ period' \in Periods
  /\ \/ pc' = "configurePlayback" /\ UNCHANGED pcms
     \/ wide /\ pcms' = {"playback"} /\ pc' = "narrow"
     \/ ~wide /\ GiveUp
  /\ UNCHANGED <<running, instant, wide, block, asked, axis, out, spent>>

OpenNarrow ==
  /\ pc = "narrow"
  /\ \/ pcms' = {"capture", "playback"} /\ wide' = FALSE /\ pc' = "capture"
     \/ GiveUp /\ UNCHANGED wide
  /\ UNCHANGED <<running, period, instant, block, asked, axis, out, spent>>

ConfigurePlayback ==
  /\ pc = "configurePlayback" /\ period' \in Periods
  /\ \/ pc' = "link" /\ UNCHANGED pcms
     \/ GiveUp
  /\ UNCHANGED <<running, instant, wide, block, asked, axis, out, spent>>

\* The last step; size_buffers() follows, for what the driver agreed to.
Link ==
  /\ pc = "link"
  /\ \/ pc' = "start" /\ line' = [NoDelay EXCEPT !.since = N] /\ UNCHANGED pcms
     \/ GiveUp /\ UNCHANGED line
  /\ UNCHANGED <<running, period, instant, wide, block, asked, told, gen, out, spent>>

\* prefill_and_start().
Start ==
  /\ pc = "start"
  /\ \/ pc' = "read" /\ UNCHANGED pcms
     \/ GiveUp
  /\ UNCHANGED <<running, period, instant, wide, block, asked, axis, out, spent>>

\* readi() of a whole period.
Read ==
  /\ pc = "read" /\ running /\ N < MaxFrames
  /\ block' = [i \in 1 .. period |-> instant + i - 1] /\ instant' = instant + period
  /\ pc' = "sync"
  /\ UNCHANGED <<running, pcms, period, wide, asked, axis, out, spent>>

\* An xrun, at the read or at the write: the card loses time.
Xrun ==
  /\ (pc = "read" /\ running) \/ pc = "write"
  /\ Spends("xruns")
  /\ instant' = instant + 1 /\ pc' = "recover" /\ block' = <<>>
  /\ UNCHANGED <<running, pcms, period, wide, asked, axis, out>>

\* Mutant: the restart of the stream is not marked.
RecoverUnmarked ==
  /\ pc = "recover"
  /\ pc' \in {"read", "close"}
  /\ UNCHANGED <<running, card, asked, axis, out, spent>>

\* recover(): the stream is started again, or ends.
Recover ==
  /\ pc = "recover"
  /\ gen' = gen + 1 /\ pc' \in {"read", "close"}
  /\ UNCHANGED <<running, card, asked, line, told, out, spent>>

\* run_stream() returns when the daemon stops.
StreamEnds ==
  /\ pc = "read" /\ ~running /\ pc' = "close"
  /\ UNCHANGED <<running, card, asked, axis, out, spent>>

\* While the card is away its time goes on.
Close ==
  /\ pc = "close"
  /\ pcms' = {} /\ instant' = instant + 1 /\ pc' = IF running THEN "wait" ELSE "open"
  /\ UNCHANGED <<running, period, wide, block, asked, axis, out, spent>>

\* wait_before_retry().
Waited ==
  /\ pc = "wait" /\ pc' = "open"
  /\ UNCHANGED <<running, card, asked, axis, out, spent>>

Ends ==
  /\ pc = "open" /\ ~running /\ pc' = "off"
  /\ UNCHANGED <<running, card, asked, axis, out, spent>>

\* stop(), up to the join.
Stop ==
  /\ running /\ running' = FALSE
  /\ UNCHANGED <<pc, card, asked, axis, out, spent>>

----------------------------------------------------------------------------
(* process_block().                                                        *)

AtMost(a, b) == IF a < b THEN a ELSE b
AtLeast(a, b) == IF a > b THEN a ELSE b

Wanted ==
  AtMost(IF asked.device THEN AtLeast(asked.net, DeviceDelay) ELSE asked.net, LineLen - 1)

\* Mutant: the delay changes under what the line holds.
SyncKept ==
  /\ pc = "sync"
  /\ IF Wanted = line.frames THEN UNCHANGED axis
     ELSE /\ line' = [line EXCEPT !.frames = Wanted, !.since = N]
          /\ gen' = gen + 1 /\ told' = Wanted
  /\ pc' = "ring"
  /\ UNCHANGED <<running, card, asked, out, spent>>

\* sync_capture_delay(): a new delay starts from silence, and is a discontinuity.
Sync ==
  /\ pc = "sync"
  /\ IF Wanted = line.frames THEN UNCHANGED axis
     ELSE /\ line' = [NoDelay EXCEPT !.frames = Wanted, !.since = N]
          /\ gen' = gen + 1 /\ told' = Wanted
  /\ pc' = "ring"
  /\ UNCHANGED <<running, card, asked, out, spent>>

Slot(i) == (line.pos + i) % LineLen

\* apply_capture_delay(): the whole block is read out before any of it goes in.
Held(i) == line.held[Slot(i - 1 - line.frames + LineLen)]

Pushed ==
  [line EXCEPT !.pos = Slot(Len(block)),
               !.held = [k \in 0 .. LineLen - 1 |->
                  IF \E i \in 1 .. Len(block) : Slot(i - 1) = k
                    THEN block[CHOOSE i \in 1 .. Len(block) : Slot(i - 1) = k] ELSE line.held[k]]]

\* Where the block's other columns were placed.
Placed(i) == IF N < line.frames THEN Unplaced ELSE N + i - line.frames

\* ring_.write(): delayed, or with no delay the live block itself.
WriteRing ==
  /\ pc = "ring"
  /\ ring' = ring \o [i \in 1 .. Len(block) |->
       [live |-> block[i], local |-> IF line.frames = 0 THEN block[i] ELSE Held(i),
        placed |-> Placed(i), delay |-> line.frames, period |-> Len(block),
        since |-> line.since, gen |-> gen]]
  /\ line' = IF line.frames = 0 THEN line ELSE Pushed
  /\ pc' = "render"
  /\ UNCHANGED <<running, card, asked, told, gen, pings, sink, spent>>

\* Mutants: a ping is logged where it is played; a sink's ring counts for itself.
LoggedAt(i) == i
SinkAppends == IF sink = Unwired THEN Unwired ELSE sink + Len(block)

\* render_ping(): a ping that starts at index i is logged where the ring will show it.
ShownAt(i) == i + line.frames

\* feed_sink(): at the block's own index, on or off.
SinkFed == IF sink = Unwired THEN Unwired ELSE N

Render ==
  /\ pc = "render"
  /\ \/ Spends("pings")
        /\ \E i \in N - Len(block) + 1 .. N :
             pings' = Append(pings, [at |-> ShownAt(i), played |-> i])
     \/ UNCHANGED <<pings, spent>>
  /\ sink' = SinkFed
  /\ pc' = "write"
  /\ UNCHANGED <<running, card, asked, axis, ring>>

\* writei() of the whole block.
Write ==
  /\ pc = "write" /\ pc' = "read" /\ block' = <<>>
  /\ UNCHANGED <<running, pcms, period, instant, wide, asked, axis, out, spent>>

----------------------------------------------------------------------------
(* What other threads change.                                              *)

\* PUT /api/net and the others that store delay_frames; a device input found.
Ask ==
  /\ Spends("changes")
  /\ \/ \E d \in Delays \ {asked.net} : asked' = [asked EXCEPT !.net = d]
     \/ ~asked.device /\ asked' = [asked EXCEPT !.device = TRUE]
  /\ UNCHANGED <<running, pc, card, axis, out>>

\* set_sink_ring(): while the engine runs, once.
Wire ==
  /\ sink = Unwired /\ sink' = 0
  /\ UNCHANGED <<running, pc, card, asked, axis, ring, pings, spent>>

Next ==
  OpenCapture \/ OpenPlayback \/ ConfigureCapture \/ OpenNarrow \/ ConfigurePlayback \/ Link
  \/ Start \/ Read \/ Xrun \/ Recover \/ StreamEnds \/ Close \/ Waited \/ Ends
  \/ Sync \/ WriteRing \/ Render \/ Write \/ Stop \/ Ask \/ Wire

Spec == Init /\ [][Next]_vars

----------------------------------------------------------------------------
(* What must hold.                                                         *)

Indices == 1 .. N

\* The types, and which PCMs are open where: a failure leaves none behind.
TypeOK ==
  /\ pcms = (CASE pc \in {"open", "wait", "off"} -> {}
               [] pc = "openPlayback" -> {"capture"}
               [] pc = "narrow" -> {"playback"}
               [] OTHER -> {"capture", "playback"})
  /\ period \in Periods /\ told \in 0 .. LineLen - 1 /\ line.frames \in 0 .. LineLen - 1
  /\ line.pos \in 0 .. LineLen - 1 /\ gen \in Nat /\ sink \in Nat \cup {Unwired}

\* No delay, or one that a block fits in: see the README for a shorter one.
Whole(e) == e.delay = 0 \/ e.delay >= e.period

\* One index of the ring is one instant: what the card's columns hold there is
\* what the card captured at the index the other columns were placed at, or
\* silence while the line fills after the delay was changed, and nothing older.
\* The block that reaches past the delay for the first time in the ring's life
\* is placed nowhere: process_block() leaves its other columns silent.
OneAxis ==
  \A i \in Indices :
    LET e == ring[i]
    IN Whole(e) => IF e.delay = 0 \/ i - e.delay > e.since
                     THEN /\ e.local = ring[i - e.delay].live
                          /\ \/ e.placed = i - e.delay
                             \/ e.placed = Unplaced /\ i - e.delay < e.period
                     ELSE e.local = Silent

\* What the readers of the ring rely on: however the card fails, is reopened or
\* the delay is changed, time is only lost, and the axis only moves, between
\* frames made under different generations.
Promise == INSTANCE RingFeed WITH
  ring <- [i \in Indices |-> [live |-> ring[i].live, delay |-> ring[i].delay, gen |-> ring[i].gen]],
  Instants <- 0 .. MaxFrames + MaxXruns + MaxOpens,
  Shifts <- 0 .. LineLen - 1,
  Lengths <- Periods

ImplementsRingFeed == Promise!FeedSpec

\* A ping's entry in the log names the index at which the ring shows what was
\* captured as it was played, unless the axis has moved in between.
PingsMarkTheirArrival ==
  \A k \in DOMAIN pings :
    LET p == pings[k]
    IN p.at \in Indices /\ ring[p.at].since < p.played /\ Whole(ring[p.at])
         => ring[p.at].local = ring[p.played].live

\* A sink's handoff ring is wired in while blocks are rendered, and has the
\* capture ring's index from the first one on.
SinksAreOnTheAxis == pc \in {"write", "read"} /\ sink \notin {Unwired, 0} => sink = N

\* What else is written beside the ring has the ring's indices: pings, sinks.
AxisInv == TypeOK /\ PingsMarkTheirArrival /\ SinksAreOnTheAxis
=============================================================================

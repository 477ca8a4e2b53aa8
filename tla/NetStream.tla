------------------------------- MODULE NetStream -------------------------------
(***************************************************************************)
(* One sender's audio on its way to the audio thread                       *)
(* (src/app/src/net_audio.cpp): the session's thread reads its messages,   *)
(* the Feed aims the converted frames at positions of the card's counter,  *)
(* and the timelines of the run's channels keep them until the audio       *)
(* thread plays them: live at n, and into the ring at n - delay.           *)
(*                                                                         *)
(* The unit of time and of audio is one block.  A frame is what fills one  *)
(* block of one channel, and is known by the position it was aimed at and  *)
(* by its stream.  Who holds the run is NetChannels; here it is one        *)
(* session after another.                                                  *)
(***************************************************************************)
EXTENDS Integers, FiniteSetsExt

CONSTANTS
  Width,       \* the channels of the run
  Size,        \* frames_ of a NetTimeline
  Guard,       \* guard_frames(): how far ahead of the reader a packet must land
  MaxLead,     \* how far ahead is still plausible
  Delays,      \* what ctl.net.delay_frames may be set to
  Resync,      \* resync_frames()
  Stall,       \* blocks that may begin between a session's look and its write
  MaxStreams,  \* bound: sessions in one behaviour
  MaxSets,     \* bound: changes of the delay
  MaxN         \* bound: the blocks played

StreamAssumption ==
  /\ {Width, Size, MaxN} \subseteq Nat \ {0} /\ {Guard, MaxLead, Resync, Stall} \subseteq Nat
  /\ {MaxStreams, MaxSets} \subseteq Nat
  /\ Delays \subseteq Nat /\ \E d \in Delays : \A e \in Delays : d >= e   \* kNetDelayMaxMs
  /\ \A d \in Delays : MaxLead + d < Size   \* as kNetTimelineMs is chosen
  /\ Stall < Guard   \* a write is over before the reader is where it may begin

ASSUME StreamAssumption

VARIABLES
  n,         \* reader_n_: the block the audio thread is at
  delay,     \* cap_delay_frames_, the delay in force there
  want,      \* ctl.net.delay_frames
  buf,       \* each timeline's frames, by slot
  claimed,   \* the channels that are claimed
  who,       \* which stream this session is: sessions so far
  pc,        \* where its thread is
  session,   \* what its messages have set
  feed,      \* its Feed
  write,     \* the write in flight
  sets,      \* changes of the delay so far
  live,      \* by channel and age, what was played live 0, 1, .. blocks ago
  ring,      \* what the ring was given for the last block
  due,       \* positions to come that frames were accepted for, and not wiped
  skipped    \* positions no read has cleared since the delay shrank

sender == <<who, pc, session, feed, write>>
output == <<live, ring, skipped>>
vars == <<n, delay, want, sets, buf, claimed, sender, output, due>>

Channels == 1 .. Width
Slots == 0 .. Size - 1
Ages == 0 .. Max(Delays)
Silence == [at |-> -1, who |-> 0]
Frame(p) == [at |-> p, who |-> who]
Empty == [i \in Slots |-> Silence]

NewSession == [encoding |-> "pcm", decoder |-> FALSE, expects |-> FALSE]
\* next is out_next_, 0 until the stream is anchored; avg and primed are the LeadFilter.
NewFeed == [configured |-> FALSE, next |-> 0, avg |-> 0, primed |-> FALSE]
NoWrite == [at |-> 0, frames |-> 0, reader |-> 0, to |-> 0, age |-> 0]

Init ==
  /\ n = 1 /\ want \in Delays /\ delay = want
  /\ buf = [c \in Channels |-> Empty] /\ sets = 0
  /\ claimed = {} /\ who = 0 /\ pc = "closed"
  /\ session = NewSession /\ feed = NewFeed /\ write = NoWrite
  /\ live = [c \in Channels |-> [a \in Ages |-> Silence]]
  /\ ring = [c \in Channels |-> Silence]
  /\ due = [c \in Channels |-> {}] /\ skipped = {}

----------------------------------------------------------------------------
(* NetTimeline.                                                            *)

\* Mutant: a packet need only be ahead of the reader.
VerdictNoGuard(at, frames, reader) ==
  IF frames = 0 \/ frames > Size THEN "range"
  ELSE IF at < reader THEN "late"
  ELSE IF at > reader + MaxLead THEN "range" ELSE "ok"

Verdict(at, frames, reader) ==
  IF frames = 0 \/ frames > Size THEN "range"
  ELSE IF at < reader + Guard THEN "late"
  ELSE IF at > reader + MaxLead THEN "range" ELSE "ok"

Place(b, at, frames) ==
  [i \in Slots |-> IF \E p \in at .. at + frames - 1 : p % Size = i
                     THEN Frame(CHOOSE p \in at .. at + frames - 1 : p % Size = i)
                     ELSE b[i]]

\* Mutant: the reader takes nothing away.
ClearNothing(b, p) == b

Clear(b, p) == [b EXCEPT ![p % Size] = Silence]

\* Mutant: only write_end_ is put back.
WipedEndOnly(b) == b

\* NetTimeline::reset().
Wiped(b) == Empty

----------------------------------------------------------------------------
(* The session: serve() and its messages.  Any message may be bad, and any *)
(* answer may fail to be sent: the session ends.                           *)

Connect ==
  /\ pc = "closed" /\ who < MaxStreams
  /\ pc' = "greeting" /\ who' = who + 1
  /\ session' = NewSession /\ feed' = NewFeed /\ write' = NoWrite
  /\ UNCHANGED <<n, delay, want, sets, buf, claimed, output, due>>

\* The run is granted; every channel's timeline starts empty.
Hello ==
  /\ pc = "greeting"
  /\ pc' = "ready" /\ claimed' = Channels
  /\ buf' = [c \in Channels |-> Wiped(buf[c])] /\ due' = [c \in Channels |-> {}]
  /\ UNCHANGED <<n, delay, want, sets, who, session, feed, write, output>>

Reject ==
  /\ pc = "greeting" /\ pc' = "closed"
  /\ UNCHANGED <<n, delay, want, sets, buf, claimed, who, session, feed, write, output, due>>

\* Feed::configure() and restart().
Restarted == [NewFeed EXCEPT !.configured = TRUE]

Format(enc) ==
  /\ pc = "ready"
  /\ session' = [encoding |-> enc, decoder |-> session.decoder /\ enc = "vorbis",
                 expects |-> FALSE]
  /\ feed' = Restarted
  /\ UNCHANGED <<n, delay, want, sets, buf, claimed, who, pc, write, output, due>>

\* A sender's codec headers, whatever encoding it has declared.
CodecInit ==
  /\ pc = "ready"
  /\ session' = [session EXCEPT !.decoder = TRUE, !.expects = FALSE]
  /\ feed' = Restarted
  /\ UNCHANGED <<n, delay, want, sets, buf, claimed, who, pc, write, output, due>>

\* What reader_pos may be: the time anchor's estimate, or the block's start.
Positions == {n, n + 1}

Distance(a, b) == IF a < b THEN b - a ELSE a - b
Adrift == feed.next # 0 /\ feed.primed /\ Distance(feed.avg, want) > Resync

\* LeadFilter::update(), the average of what it had and what it is given.
Filtered(primed, avg, lead) == IF primed THEN (avg + lead) \div 2 ELSE lead

\* Blocks the converter may return for one: the trim makes it more when the lead
\* is short and fewer when it is long; while it primes, none.
Converted(avg, primes) ==
  {1} \cup (IF avg < want THEN {2} ELSE {}) \cup (IF avg > want \/ primes THEN {0} ELSE {})

\* AUDIO: what cannot be decoded is skipped, before the position is looked at.
Undecodable == session.encoding = "vorbis" /\ ~session.decoder

Skip ==
  /\ pc = "ready" /\ Undecodable
  /\ UNCHANGED vars

\* Where the next frame goes.
Anchor(jumped, reader) ==
  IF feed.next = 0 \/ jumped \/ Adrift THEN reader + want ELSE feed.next

\* Feed::push(), to where distribute() is called.
Audio(jumped, reader, out) ==
  LET fresh == feed.next = 0 \/ jumped \/ Adrift
      at == Anchor(jumped, reader)
      avg == Filtered(feed.primed /\ ~fresh, feed.avg, at - reader)
  IN /\ pc = "ready" /\ ~Undecodable
     /\ jumped => session.expects
     /\ session' = [session EXCEPT !.expects = TRUE]
     /\ IF ~feed.configured
          THEN UNCHANGED <<pc, feed, write>>
          ELSE /\ out \in Converted(avg, fresh)
               /\ feed' = [feed EXCEPT !.next = at + out, !.avg = avg, !.primed = TRUE]
               /\ IF out = 0
                    THEN UNCHANGED <<pc, write>>
                    ELSE /\ pc' = "push"
                         /\ write' = [at |-> at, frames |-> out, reader |-> n, to |-> 1,
                                      age |-> 0]
     /\ UNCHANGED <<n, delay, want, sets, buf, claimed, who, output, due>>

\* One channel of distribute(); after the last, STATUS may be sent.
Distribute ==
  /\ pc = "push"
  /\ LET c == write.to
         w == write
         v == Verdict(w.at, w.frames, w.reader)
     IN /\ IF v = "ok"
             THEN /\ buf' = [buf EXCEPT ![c] = Place(@, w.at, w.frames)]
                  /\ due' = [due EXCEPT ![c] = @ \cup (w.at .. w.at + w.frames - 1)]
             ELSE UNCHANGED <<buf, due>>
        /\ IF c < Width
             THEN write' = [write EXCEPT !.to = c + 1] /\ UNCHANGED pc
             ELSE /\ write' = NoWrite /\ pc' = "ready"
  /\ UNCHANGED <<n, delay, want, sets, claimed, who, session, feed, output>>

\* BYE, a bad message, a second HELLO, or the connection is gone.
Hangup ==
  /\ pc = "ready"
  /\ pc' = "leaving" /\ write' = [NoWrite EXCEPT !.to = 1]
  /\ UNCHANGED <<n, delay, want, sets, buf, claimed, who, session, feed, output, due>>

\* release_channels(): each channel is emptied, then let go.
Release ==
  /\ pc = "leaving"
  /\ LET c == write.to IN
       /\ buf' = [buf EXCEPT ![c] = Wiped(@)] /\ due' = [due EXCEPT ![c] = {}]
       /\ claimed' = claimed \ {c}
       /\ IF c < Width
            THEN write' = [write EXCEPT !.to = c + 1] /\ UNCHANGED pc
            ELSE write' = NoWrite /\ pc' = "closed"
  /\ UNCHANGED <<n, delay, want, sets, who, session, feed, output>>

----------------------------------------------------------------------------
(* The console, and the audio thread's block: sync_capture_delay() and     *)
(* read_block().                                                           *)

SetDelay(d) ==
  /\ d # want /\ want' = d /\ sets < MaxSets /\ sets' = sets + 1
  /\ UNCHANGED <<n, delay, buf, claimed, sender, output, due>>

Read(c, p) == buf[c][p % Size]
Played(c, p) == IF c \in claimed THEN Read(c, p) ELSE Silence

Block ==
  LET now == n + 1
      back == now - want
  IN /\ n < MaxN
     /\ pc = "push" => write.age < Stall
     /\ n' = now /\ delay' = want
     /\ live' = [c \in Channels |->
                   [a \in Ages |-> IF a = 0 THEN Played(c, now) ELSE live[c][a - 1]]]
     /\ ring' = [c \in Channels |-> IF back < 0 THEN Silence ELSE Played(c, back)]
     /\ buf' = [c \in Channels |->
                  IF c \in claimed /\ back >= 0 THEN Clear(buf[c], back) ELSE buf[c]]
     /\ skipped' = {p \in skipped : p % Size # (n - delay) % Size}
                     \cup {p \in now - delay .. back - 1 : p >= 0}
     /\ write' = IF pc = "push" THEN [write EXCEPT !.age = @ + 1] ELSE write
     /\ due' = [c \in Channels |-> {p \in due[c] : p >= now}]
     /\ UNCHANGED <<want, sets, claimed, who, pc, session, feed>>

Next ==
  \/ Connect \/ Hello \/ Reject
  \/ \E enc \in {"pcm", "vorbis"} : Format(enc)
  \/ CodecInit \/ Skip
  \/ \E jumped \in BOOLEAN, reader \in Positions, out \in 0 .. 2 : Audio(jumped, reader, out)
  \/ Distribute \/ Hangup \/ Release
  \/ \E d \in Delays : SetDelay(d)
  \/ Block

Spec == Init /\ [][Next]_vars

----------------------------------------------------------------------------
(* Properties.                                                             *)

\* The types of the variables.
Frames == [at : -1 .. MaxN + Size, who : 0 .. MaxStreams]
TypeOK ==
  /\ n \in 1 .. MaxN /\ delay \in Delays /\ want \in Delays
  /\ buf \in [Channels -> [Slots -> Frames]] /\ sets \in 0 .. MaxSets
  /\ claimed \subseteq Channels /\ who \in 0 .. MaxStreams
  /\ pc \in {"closed", "greeting", "ready", "push", "leaving"}
  /\ session \in [encoding : {"pcm", "vorbis"}, decoder : BOOLEAN, expects : BOOLEAN]
  /\ feed \in [configured : BOOLEAN, next : Nat, avg : Int, primed : BOOLEAN]
  /\ write \in [at : Nat, frames : 0 .. 2, reader : Nat, to : 0 .. Width, age : 0 .. Stall]
  /\ live \in [Channels -> [Ages -> Frames]] /\ ring \in [Channels -> Frames]
  /\ due \in [Channels -> SUBSET Nat] /\ skipped \subseteq Nat

\* "A late packet is dropped and counted rather than silently shifting everything
\* after it" (net_proto.h), and what was not written is silence (read()): what is
\* heard at n was aimed at n.  The code does not keep it: see the next one.
HeardAsAimed == \A c \in Channels : live[c][0].at \in {-1, n}

\* As the code is, but for the frames a shrinking delay leaves in the timeline: no
\* read clears them, and a lap later they are played again.
OnlySkippedFramesReturn == \A c \in Channels : live[c][0].at \in {-1, n} \cup skipped

\* A frame whose write was accepted is played when its position comes, whatever the
\* audio thread did between the session's look at its position and the write.
AcceptedIsHeard == \A c \in Channels : n \in due[c] => live[c][0].at = n

\* read_block(): the ring carries at n what was played live a delay earlier, or
\* silence; never what nobody heard, or what was heard at another time.
RingIsTheDelayedLive ==
  \A c \in Channels : ring[c] # Silence => ring[c] = live[c][delay]

\* "A sender's left and right cannot come apart" (net_proto.h): the channels of a
\* stream play the same position of it, though they are written one by one.
ChannelsStayTogether ==
  \A c, d \in Channels :
    /\ live[c][0] # Silence /\ live[d][0] # Silence => live[c][0] = live[d][0]
    /\ pc \in {"ready", "push"} /\ live[c][0].who = who => live[d][0] = live[c][0]

\* release_channels() and hello(): a session's timelines hold nothing of the last one.
NothingOfTheLastStream ==
  pc \in {"ready", "push"} =>
    \A c \in Channels, i \in Slots : buf[c][i].who \in {0, who}

\* All of a stream that a state shows: its types, that nothing is heard at another
\* position but what a shrinking delay skipped, that the ring is the live side delayed,
\* and that a session begins on silence.
StreamInv == TypeOK /\ OnlySkippedFramesReturn /\ RingIsTheDelayedLive /\ NothingOfTheLastStream
=============================================================================

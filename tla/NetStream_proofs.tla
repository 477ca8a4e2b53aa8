--------------------------- MODULE NetStream_proofs ---------------------------
(***************************************************************************)
(* What holds of a stream's way to the audio thread, for every number of   *)
(* channels, every timeline, guard, lead and set of delays.  StreamInv     *)
(* speaks of what is heard; StreamIInv says which frames the timelines     *)
(* hold meanwhile, slot by slot, also while a write is under way that the  *)
(* audio thread does not wait for.                                         *)
(***************************************************************************)
EXTENDS NetStream, TLAPS

----------------------------------------------------------------------------
(* The inductive invariant.                                                *)

\* Where the session's thread is, and which channels it has.
WriteShape ==
  /\ pc \in {"closed", "greeting"} => claimed = {}
  /\ pc = "greeting" => who > 0
  /\ pc \in {"ready", "push"} => claimed = Channels /\ who > 0
  /\ pc = "leaving" => write.to \in Channels /\ claimed = write.to .. Width
  /\ pc = "push" =>
       /\ write.to \in Channels /\ write.frames \in 1 .. 2
       /\ write.reader + write.age = n

\* The frames of a write that its verdict lets in.
Accepted == pc = "push" /\ Verdict(write.at, write.frames, write.reader) = "ok"
Aimed == write.at .. write.at + write.frames - 1

\* Positions a frame may have been aimed at that are yet to be played.
ToCome == n + 1 .. n + MaxLead + 1

\* What a slot may hold: a frame of this stream, for that slot, that is to be played,
\* or may still be wanted for the ring, or was skipped; and nothing old where the ring
\* was served last.
SlotHolds(c, i) ==
  LET e == buf[c][i] IN
  e # Silence =>
    /\ c \in claimed /\ e.who = who /\ e.at \in Nat /\ e.at % Size = i
    /\ e.at <= n + MaxLead + 1
    /\ e.at > n - delay \/ e.at \in skipped
    /\ e.at <= n => i # (n - delay) % Size

\* What was played live is what its slot still holds, or it was taken away.
LiveFollows(c, a) ==
  a + 1 \in Ages /\ a <= n => buf[c][(n - a) % Size] \in {live[c][a], Silence}

\* What was accepted for a channel is in its timeline until it is heard.
DueFollows(c) ==
  \A p \in due[c] :
    /\ c \in claimed /\ p \in n .. n + MaxLead + 1
    /\ p > n => buf[c][p % Size].at = p
    /\ p = n => live[c][0].at = n

\* The channels differ only where a write is under way, and there only in who had it.
SlotsAgree(c, d, i) ==
  buf[c][i] = buf[d][i] \/ (Accepted /\ \E p \in Aimed : p % Size = i)

WrittenSoFar(c) ==
  Accepted /\ c < write.to => \A p \in Aimed : buf[c][p % Size] = Frame(p)

\* Nobody has heard a stream that has yet to begin.
LiveIsOlder ==
  /\ \A c \in Channels : live[c][0].who <= who
  /\ pc = "greeting" => \A c \in Channels : live[c][0].who < who

StreamIInv ==
  /\ TypeOK /\ WriteShape /\ LiveIsOlder /\ skipped \subseteq 0 .. n - 1
  /\ \A c \in Channels :
       /\ \A i \in Slots : SlotHolds(c, i)
       /\ \A a \in Ages : LiveFollows(c, a)
       /\ DueFollows(c) /\ WrittenSoFar(c)
  /\ \A c, d \in claimed : \A i \in Slots : SlotsAgree(c, d, i)
  /\ OnlySkippedFramesReturn /\ RingIsTheDelayedLive /\ ChannelsStayTogether

----------------------------------------------------------------------------
(* Slots, and the frames of a write.                                       *)

\* A multiple is never in the gap between two multiples.
LEMMA MultiplesAreApart ==
  ASSUME NEW m \in Nat \ {0}, NEW p \in Int, NEW q \in Int, NEW d \in 1 .. m - 1
  PROVE  p * m # q * m + d
<1> SUFFICES ASSUME p * m = q * m + d PROVE FALSE
  OBVIOUS
<1>1. (p - q) * m = d
  BY SMT
<1>2. p - q <= 0 \/ p - q >= 1
  BY SMT
<1>3. CASE p - q <= 0
  <2>1. (p - q) * m <= 0
    BY <1>3, SMT
  <2> QED BY <1>1, <2>1
<1>4. CASE p - q >= 1
  <2>1. (p - q) * m >= m
    BY <1>4, SMT
  <2> QED BY <1>1, <2>1
<1> QED BY <1>2, <1>3, <1>4

\* What % computes: the remainder of a division.
LEMMA ModDivides ==
  ASSUME NEW k \in Int, NEW m \in Nat \ {0}
  PROVE  /\ k % m \in 0 .. m - 1
         /\ \E q \in Int : k = q * m + (k % m)
<1>1. k = (k \div m) * m + (k % m) /\ k \div m \in Int /\ k % m \in 0 .. m - 1
  OBVIOUS
<1> QED BY <1>1

\* Two positions less than a timeline apart have slots of their own.
LEMMA ModNear ==
  ASSUME NEW i \in Int, NEW j \in Int, NEW m \in Nat \ {0}, i < j, j - i < m
  PROVE  i % m # j % m
<1> SUFFICES ASSUME i % m = j % m PROVE FALSE
  OBVIOUS
<1>1. PICK p \in Int : i = p * m + (i % m)
  BY ModDivides
<1>2. PICK q \in Int : j = q * m + (j % m)
  BY ModDivides
<1> DEFINE P == p * m
           Q == q * m
           r == i % m
<1>3. P \in Int /\ Q \in Int /\ r \in 0 .. m - 1
  BY ModDivides
<1>4. i = P + r /\ j = Q + r
  BY <1>1, <1>2
<1>5. ~(j - i \in 1 .. m - 1) \/ Q # P + (j - i)
  BY MultiplesAreApart
<1> HIDE DEF P, Q, r
<1> QED BY <1>3, <1>4, <1>5

\* The longest delay there is.
LEMMA LongestDelay ==
  ASSUME StreamAssumption
  PROVE  /\ Max(Delays) \in Delays /\ Max(Delays) \in Nat /\ MaxLead + Max(Delays) < Size
         /\ \A d \in Delays : d \in Ages /\ d <= Max(Delays)
<1>1. Max(Delays) \in Delays /\ \A d \in Delays : Max(Delays) >= d
  BY DEF StreamAssumption, Max
<1>2. Max(Delays) \in Nat /\ MaxLead + Max(Delays) < Size /\ Delays \subseteq Nat
  BY <1>1 DEF StreamAssumption
<1> QED BY <1>1, <1>2 DEF Ages

LEMMA FrameIsNotSilence ==
  ASSUME NEW p \in Nat
  PROVE  Frame(p) # Silence /\ Frame(p).at = p /\ Frame(p).who = who
BY DEF Frame, Silence

LEMMA SlotOf ==
  ASSUME StreamAssumption, NEW p \in Int
  PROVE  p % Size \in Slots
BY ModDivides DEF StreamAssumption, Slots

\* The numbers of every state.
LEMMA Numbers ==
  ASSUME StreamAssumption, TypeOK
  PROVE  /\ n \in Nat /\ n >= 1 /\ delay \in Nat /\ want \in Nat /\ delay \in Ages /\ want \in Ages
         /\ MaxLead \in Nat /\ Size \in Nat \ {0} /\ MaxLead + delay < Size /\ MaxLead + want < Size
         /\ Guard \in Nat /\ Stall \in Nat /\ Stall < Guard /\ MaxN \in Nat /\ Width \in Nat \ {0}
<1>1. n \in 1 .. MaxN /\ delay \in Delays /\ want \in Delays
  BY DEF TypeOK
<1>2. delay \in Nat /\ want \in Nat /\ delay \in Ages /\ want \in Ages
      /\ MaxLead + delay < Size /\ MaxLead + want < Size
  BY <1>1, LongestDelay DEF StreamAssumption
<1> QED BY <1>1, <1>2 DEF StreamAssumption

\* A write that its verdict lets in is over before its first position is played: this is
\* what the guard is for.
LEMMA AcceptedIsToCome ==
  ASSUME StreamAssumption, TypeOK, WriteShape, Accepted
  PROVE  /\ Aimed \subseteq ToCome
         /\ write.at \in Nat /\ write.frames \in 1 .. 2 /\ write.frames <= Size
<1>1. write.at \in Nat /\ write.frames \in 1 .. 2 /\ write.reader \in Nat /\ write.age \in 0 .. Stall
      /\ write.reader + write.age = n
  BY DEF TypeOK, WriteShape, Accepted
<1>2. write.frames <= Size /\ write.at >= write.reader + Guard /\ write.at <= write.reader + MaxLead
  BY <1>1, Numbers DEF Accepted, Verdict
<1>3. ASSUME NEW p \in Aimed PROVE p \in ToCome
  <2>1. PICK a \in Nat, f \in 1 .. 2, r \in Nat, g \in 0 .. Stall :
          a = write.at /\ f = write.frames /\ r = write.reader /\ g = write.age
    BY <1>1
  <2>2. p \in a .. a + f - 1 /\ a >= r + Guard /\ a <= r + MaxLead /\ r + g = n
    BY <1>1, <1>2, <2>1 DEF Aimed
  <2>3. p >= n + 1 /\ p <= n + MaxLead + 1 /\ p \in Int
    BY <2>2, Numbers
  <2> QED BY <2>3, Numbers DEF ToCome
<1> QED BY <1>1, <1>2, <1>3

\* Positions that are yet to be played have slots of their own, none of which is the one
\* a delay of d leads back to.
LEMMA ToComeIsApart ==
  ASSUME StreamAssumption, TypeOK, NEW p \in ToCome
  PROVE  /\ p \in Nat /\ p > n
         /\ \A q \in ToCome : q % Size = p % Size => q = p
         /\ \A d \in Nat : MaxLead + d + 1 < Size => p % Size # (n - d) % Size
<1>1. p \in Nat /\ p > n /\ p <= n + MaxLead + 1
  BY Numbers DEF ToCome
<1>2. MaxLead < Size
  BY Numbers
<1>3. ASSUME NEW q \in ToCome, q % Size = p % Size PROVE q = p
  <2>1. q \in Int /\ q > n /\ q <= n + MaxLead + 1
    BY Numbers DEF ToCome
  <2>2. CASE p < q
    <3>1. q - p < Size
      BY <1>1, <1>2, <2>1, Numbers
    <3> QED BY <1>1, <1>3, <2>1, <2>2, <3>1, ModNear, Numbers
  <2>3. CASE q < p
    <3>1. p - q < Size
      BY <1>1, <1>2, <2>1, Numbers
    <3> QED BY <1>1, <1>3, <2>1, <2>3, <3>1, ModNear, Numbers
  <2> QED BY <1>1, <2>1, <2>2, <2>3
<1>4. ASSUME NEW d \in Nat, MaxLead + d + 1 < Size PROVE p % Size # (n - d) % Size
  <2>1. n - d \in Int /\ n - d < p /\ p - (n - d) < Size
    BY <1>1, <1>4, Numbers
  <2> QED BY <1>1, <2>1, ModNear, Numbers
<1> QED BY <1>1, <1>3, <1>4

----------------------------------------------------------------------------
(* Steps that leave the timelines and the output alone.                    *)

\* Outside a write the channels' timelines are the same.
LEMMA AgreeAtRest ==
  ASSUME StreamIInv, ~Accepted, NEW c \in claimed, NEW d \in claimed, NEW i \in Slots
  PROVE  buf[c][i] = buf[d][i]
BY DEF StreamIInv, SlotsAgree

LEMMA SessionSteps ==
  ASSUME StreamAssumption, StreamIInv, TypeOK', WriteShape',
         UNCHANGED <<n, delay, buf, claimed, who, output, due>>,
         \/ UNCHANGED <<pc, write>>
         \/ pc \in {"ready", "greeting"} /\ pc' \in {"closed", "leaving"}
         \/ pc = "ready" /\ pc' = "push" /\ write'.to = 1
  PROVE  StreamIInv'
<1>1. UNCHANGED <<n, delay, buf, claimed, who, live, ring, skipped, due>>
  BY DEF output
<1>2. LiveIsOlder' /\ skipped' \subseteq 0 .. n' - 1
  BY <1>1 DEF StreamIInv, LiveIsOlder
<1>3. ASSUME NEW c \in Channels
      PROVE  (\A i \in Slots : SlotHolds(c, i)') /\ (\A a \in Ages : LiveFollows(c, a)')
             /\ DueFollows(c)'
  BY <1>1 DEF StreamIInv, SlotHolds, LiveFollows, DueFollows
<1>4. (Accepted => UNCHANGED <<pc, write>>) /\ (UNCHANGED <<pc, write>> => Accepted' = Accepted)
  BY DEF Accepted
<1>5. ASSUME NEW c \in Channels PROVE WrittenSoFar(c)'
  <2>1. CASE UNCHANGED <<pc, write>>
    BY <1>1, <2>1 DEF StreamIInv, WrittenSoFar, Accepted, Aimed, Frame
  <2>2. CASE pc' # "push" \/ write'.to = 1
    BY <2>2 DEF WrittenSoFar, Accepted, Channels
  <2> QED BY <2>1, <2>2
<1>6. ASSUME NEW c \in claimed', NEW d \in claimed', NEW i \in Slots PROVE SlotsAgree(c, d, i)'
  <2>1. CASE UNCHANGED <<pc, write>>
    BY <1>1, <2>1 DEF StreamIInv, SlotsAgree, Accepted, Aimed
  <2>2. CASE ~Accepted
    BY <1>1, <2>2, AgreeAtRest DEF SlotsAgree
  <2> QED BY <1>4, <2>1, <2>2
<1>7. OnlySkippedFramesReturn' /\ RingIsTheDelayedLive'
  BY <1>1 DEF StreamIInv, OnlySkippedFramesReturn, RingIsTheDelayedLive
<1>8. ChannelsStayTogether'
  BY <1>1 DEF StreamIInv, ChannelsStayTogether
<1> QED BY <1>2, <1>3, <1>5, <1>6, <1>7, <1>8 DEF StreamIInv

\* What the types say of an address in a write, a session and a feed.
Sessions == [encoding : {"pcm", "vorbis"}, decoder : BOOLEAN, expects : BOOLEAN]
Feeds == [configured : BOOLEAN, next : Nat, avg : Int, primed : BOOLEAN]
Writes == [at : Nat, frames : 0 .. 2, reader : Nat, to : 0 .. Width, age : 0 .. Stall]

LEMMA Fresh ==
  ASSUME StreamAssumption
  PROVE  /\ NewSession \in Sessions /\ NewFeed \in Feeds /\ Restarted \in Feeds /\ NoWrite \in Writes
         /\ Silence \in Frames
<1>1. NewSession \in Sessions
  BY DEF NewSession, Sessions
<1>2. NewFeed \in Feeds
  BY DEF NewFeed, Feeds
<1>3. Restarted \in Feeds
  BY <1>2 DEF Restarted, Feeds
<1>4. NoWrite \in Writes
  BY DEF StreamAssumption, NoWrite, Writes
<1>5. Silence \in Frames
  BY DEF StreamAssumption, Silence, Frames
<1> QED BY <1>1, <1>2, <1>3, <1>4, <1>5

LEMMA RejectStep ==
  ASSUME StreamAssumption, StreamIInv, Reject
  PROVE  StreamIInv'
<1>1. UNCHANGED <<n, delay, want, sets, buf, claimed, who, session, feed, write, output, due>>
      /\ pc = "greeting" /\ pc' = "closed"
  BY DEF Reject
<1>2. TypeOK' /\ WriteShape'
  BY <1>1 DEF StreamIInv, TypeOK, WriteShape, output
<1> QED BY <1>1, <1>2, SessionSteps

LEMMA FormatSteps ==
  ASSUME StreamAssumption, StreamIInv, CodecInit \/ \E enc \in {"pcm", "vorbis"} : Format(enc)
  PROVE  StreamIInv'
<1>1. UNCHANGED <<n, delay, want, sets, buf, claimed, who, pc, write, output, due>>
  BY DEF Format, CodecInit
<1>2. session \in Sessions
  BY DEF StreamIInv, TypeOK, Sessions
<1>3. session' \in Sessions
  <2>1. CASE CodecInit
    BY <1>2, <2>1 DEF CodecInit, Sessions
  <2>2. ASSUME NEW enc \in {"pcm", "vorbis"}, Format(enc) PROVE session' \in Sessions
    BY <1>2, <2>2 DEF Format, Sessions
  <2> QED BY <2>1, <2>2
<1>4. feed' \in Feeds
  BY Fresh DEF Format, CodecInit
<1>5. TypeOK' /\ WriteShape'
  BY <1>1, <1>3, <1>4 DEF StreamIInv, TypeOK, WriteShape, output, Sessions, Feeds
<1> QED BY <1>1, <1>5, SessionSteps

LEMMA SetDelayStep ==
  ASSUME StreamAssumption, StreamIInv, NEW d \in Delays, SetDelay(d)
  PROVE  StreamIInv'
<1>1. UNCHANGED <<n, delay, buf, claimed, who, pc, session, feed, write, output, due>>
      /\ want' \in Delays /\ sets' = sets + 1 /\ sets < MaxSets
  BY DEF SetDelay, sender
<1>2. sets' \in 0 .. MaxSets
  BY <1>1 DEF StreamIInv, TypeOK, StreamAssumption
<1>3. TypeOK' /\ WriteShape'
  BY <1>1, <1>2 DEF StreamIInv, TypeOK, WriteShape, output
<1> QED BY <1>1, <1>3, SessionSteps

LEMMA HangupStep ==
  ASSUME StreamAssumption, StreamIInv, Hangup
  PROVE  StreamIInv'
<1>1. UNCHANGED <<n, delay, want, sets, buf, claimed, who, session, feed, output, due>>
      /\ pc = "ready" /\ pc' = "leaving" /\ write' = [NoWrite EXCEPT !.to = 1]
  BY DEF Hangup
<1>2. write' \in Writes /\ write'.to = 1
  BY <1>1, Fresh DEF StreamAssumption, Writes
<1>3. TypeOK'
  BY <1>1, <1>2 DEF StreamIInv, TypeOK, output, Writes
<1>4. WriteShape'
  BY <1>1, <1>2 DEF StreamIInv, WriteShape, Channels, StreamAssumption
<1> QED BY <1>1, <1>3, <1>4, SessionSteps

LEMMA AudioStep ==
  ASSUME StreamAssumption, StreamIInv, NEW jumped \in BOOLEAN, NEW reader \in Positions,
         NEW out \in 0 .. 2, Audio(jumped, reader, out)
  PROVE  StreamIInv'
<1>1. UNCHANGED <<n, delay, want, sets, buf, claimed, who, output, due>> /\ pc = "ready"
      /\ session' = [session EXCEPT !.expects = TRUE]
  BY DEF Audio
<1>2. session \in Sessions /\ feed \in Feeds /\ n \in Nat /\ want \in Nat /\ TypeOK
  BY Numbers DEF StreamIInv, TypeOK, Sessions, Feeds
<1>3. session' \in Sessions
  BY <1>1, <1>2 DEF Sessions
<1>4. CASE UNCHANGED <<pc, feed, write>>
  <2>1. TypeOK' /\ WriteShape'
    BY <1>1, <1>3, <1>4 DEF StreamIInv, TypeOK, WriteShape, output, Sessions
  <2> QED BY <1>1, <1>4, <2>1, SessionSteps
<1>5. CASE ~UNCHANGED <<pc, feed, write>>
  <2> DEFINE fresh == feed.next = 0 \/ jumped \/ Adrift
             at == Anchor(jumped, reader)
             avg == Filtered(feed.primed /\ ~fresh, feed.avg, at - reader)
  <2>1. reader \in Nat /\ feed.next \in Nat /\ feed.avg \in Int
    BY <1>2 DEF Positions, Feeds
  <2>2. at \in Nat
    BY <1>2, <2>1 DEF Anchor
  <2>3. avg \in Int
    <3>1. at - reader \in Int
      BY <2>1, <2>2
    <3> HIDE DEF at
    <3> QED BY <2>1, <3>1 DEF Filtered
  <2>4. /\ feed' = [feed EXCEPT !.next = at + out, !.avg = avg, !.primed = TRUE]
        /\ IF out = 0 THEN UNCHANGED <<pc, write>>
           ELSE /\ pc' = "push"
                /\ write' = [at |-> at, frames |-> out, reader |-> n, to |-> 1, age |-> 0]
    BY <1>5 DEF Audio
  <2> HIDE DEF at, avg
  <2>5. feed' \in Feeds
    <3>1. at + out \in Nat
      BY <2>2
    <3> DEFINE x == at + out
    <3>2. x \in Nat /\ feed' = [feed EXCEPT !.next = x, !.avg = avg, !.primed = TRUE]
      BY <2>4, <3>1
    <3> HIDE DEF x
    <3> QED BY <1>2, <2>3, <3>2 DEF Feeds
  <2>6. CASE out = 0
    <3>1. TypeOK' /\ WriteShape' /\ UNCHANGED <<pc, write>>
      BY <1>1, <1>3, <2>4, <2>5, <2>6 DEF StreamIInv, TypeOK, WriteShape, output, Sessions, Feeds
    <3> QED BY <1>1, <3>1, SessionSteps
  <2>7. CASE out # 0
    <3>1. pc' = "push" /\ write' = [at |-> at, frames |-> out, reader |-> n, to |-> 1, age |-> 0]
      BY <2>4, <2>7
    <3>2. write' \in Writes /\ write'.to = 1 /\ write'.frames \in 1 .. 2
          /\ write'.reader + write'.age = n
      BY <1>2, <2>2, <2>7, <3>1 DEF Writes, StreamAssumption
    <3>3. TypeOK'
      BY <1>1, <1>3, <2>5, <3>1, <3>2 DEF StreamIInv, TypeOK, output, Sessions, Feeds, Writes
    <3>4. WriteShape'
      BY <1>1, <3>1, <3>2 DEF StreamIInv, WriteShape, Channels, StreamAssumption
    <3> QED BY <1>1, <3>1, <3>2, <3>3, <3>4, SessionSteps
  <2> QED BY <2>6, <2>7
<1> QED BY <1>4, <1>5

----------------------------------------------------------------------------
(* Taking and giving back the run.                                         *)

\* A channel that is not claimed has a silent timeline and is owed nothing.
LEMMA UnclaimedIsSilent ==
  ASSUME StreamIInv, NEW c \in Channels, c \notin claimed
  PROVE  (\A i \in Slots : buf[c][i] = Silence) /\ due[c] = {}
<1>1. \A i \in Slots : buf[c][i] = Silence
  BY DEF StreamIInv, SlotHolds
<1>2. \A p \in due[c] : FALSE
  BY DEF StreamIInv, DueFollows
<1> QED BY <1>1, <1>2

LEMMA EmptyIsSilent ==
  ASSUME StreamAssumption
  PROVE  Empty \in [Slots -> Frames] /\ \A i \in Slots : Empty[i] = Silence
BY Fresh DEF Empty

\* A new session is another stream: its run is still to be claimed.
LEMMA ConnectStep ==
  ASSUME StreamAssumption, StreamIInv, Connect
  PROVE  StreamIInv'
<1>1. UNCHANGED <<n, delay, want, sets, buf, claimed, output, due>> /\ pc = "closed" /\ who < MaxStreams
      /\ pc' = "greeting" /\ who' = who + 1
      /\ session' = NewSession /\ feed' = NewFeed /\ write' = NoWrite
  BY DEF Connect
<1>2. claimed = {} /\ who \in Nat /\ who' \in 0 .. MaxStreams /\ who' > who /\ who' > 0
  BY <1>1 DEF StreamIInv, WriteShape, TypeOK, StreamAssumption
<1>3. TypeOK'
  BY <1>1, <1>2, Fresh DEF StreamIInv, TypeOK, output, Sessions, Feeds, Writes
<1>4. WriteShape'
  BY <1>1, <1>2 DEF WriteShape
<1>5. UNCHANGED <<live, ring, skipped>>
  BY <1>1 DEF output
<1>6. LiveIsOlder'
  <2>1. ASSUME NEW c \in Channels PROVE live[c][0].who < who' /\ live[c][0].who <= who'
    <3>1. live[c][0] \in Frames
      BY LongestDelay DEF StreamIInv, TypeOK, Ages
    <3>2. live[c][0].who \in Int /\ live[c][0].who <= who
      BY <3>1 DEF Frames, StreamIInv, LiveIsOlder
    <3> QED BY <1>1, <1>2, <3>2
  <2> QED BY <1>5, <2>1 DEF LiveIsOlder
<1>7. ASSUME NEW c \in Channels
      PROVE  (\A i \in Slots : SlotHolds(c, i)') /\ (\A a \in Ages : LiveFollows(c, a)')
             /\ DueFollows(c)' /\ WrittenSoFar(c)'
  <2>1. (\A i \in Slots : buf[c][i] = Silence) /\ due[c] = {}
    BY <1>2, UnclaimedIsSilent
  <2>2. \A a \in Ages : LiveFollows(c, a)'
    BY <1>1, <1>5 DEF StreamIInv, LiveFollows
  <2> QED BY <1>1, <2>1, <2>2 DEF SlotHolds, DueFollows, WrittenSoFar, Accepted
<1>8. OnlySkippedFramesReturn' /\ RingIsTheDelayedLive' /\ skipped' \subseteq 0 .. n' - 1
  BY <1>1, <1>5 DEF StreamIInv, OnlySkippedFramesReturn, RingIsTheDelayedLive
<1>9. ChannelsStayTogether'
  BY <1>1, <1>5 DEF StreamIInv, ChannelsStayTogether
<1> QED BY <1>1, <1>2, <1>3, <1>4, <1>6, <1>7, <1>8, <1>9 DEF StreamIInv

\* The run is granted, and every timeline begins empty.
LEMMA HelloStep ==
  ASSUME StreamAssumption, StreamIInv, Hello
  PROVE  StreamIInv'
<1>1. UNCHANGED <<n, delay, want, sets, who, session, feed, write, output>> /\ pc = "greeting"
      /\ pc' = "ready" /\ claimed' = Channels /\ due' = [c \in Channels |-> {}]
      /\ buf' = [c \in Channels |-> Empty]
  BY DEF Hello, Wiped
<1>2. UNCHANGED <<live, ring, skipped>>
  BY <1>1 DEF output
<1>3. TypeOK' /\ WriteShape'
  <2>1. buf' \in [Channels -> [Slots -> Frames]]
    BY <1>1, EmptyIsSilent
  <2>2. due' \in [Channels -> SUBSET Nat]
    BY <1>1
  <2>3. TypeOK'
    BY <1>1, <1>2, <2>1, <2>2 DEF StreamIInv, TypeOK
  <2> QED BY <1>1, <2>3 DEF StreamIInv, WriteShape
<1>4. LiveIsOlder'
  BY <1>1, <1>2 DEF StreamIInv, LiveIsOlder
<1>5. \A c \in Channels, i \in Slots : buf'[c][i] = Silence
  BY <1>1, EmptyIsSilent
<1>6. ASSUME NEW c \in Channels
      PROVE  (\A i \in Slots : SlotHolds(c, i)') /\ (\A a \in Ages : LiveFollows(c, a)')
             /\ DueFollows(c)' /\ WrittenSoFar(c)'
  <2>1. \A i \in Slots : SlotHolds(c, i)'
    BY <1>5 DEF SlotHolds
  <2>2. \A a \in Ages : LiveFollows(c, a)'
    <3>1. SUFFICES ASSUME NEW a \in Ages, a <= n PROVE buf'[c][(n - a) % Size] = Silence
      BY <1>1 DEF LiveFollows
    <3>2. n - a \in Int
      BY Numbers, LongestDelay DEF Ages, StreamIInv
    <3> QED BY <1>5, <3>2, SlotOf
  <2> QED BY <1>1, <2>1, <2>2 DEF DueFollows, WrittenSoFar, Accepted
<1>7. ASSUME NEW c \in claimed', NEW d \in claimed', NEW i \in Slots PROVE SlotsAgree(c, d, i)'
  BY <1>1, <1>5 DEF SlotsAgree
<1>8. OnlySkippedFramesReturn' /\ RingIsTheDelayedLive' /\ skipped' \subseteq 0 .. n' - 1
  BY <1>1, <1>2 DEF StreamIInv, OnlySkippedFramesReturn, RingIsTheDelayedLive
<1>9. ChannelsStayTogether'
  <2>1. ASSUME NEW c \in Channels PROVE live'[c][0].who # who'
    <3>1. live[c][0] \in Frames
      BY LongestDelay DEF StreamIInv, TypeOK, Ages
    <3>2. live[c][0].who \in Int /\ live[c][0].who < who /\ who \in Int
      BY <1>1, <3>1 DEF Frames, StreamIInv, LiveIsOlder, TypeOK
    <3> QED BY <1>1, <1>2, <3>2
  <2> QED BY <1>2, <2>1 DEF StreamIInv, ChannelsStayTogether
<1> QED BY <1>3, <1>4, <1>6, <1>7, <1>8, <1>9 DEF StreamIInv

\* One channel is emptied and let go; the others are as they were.
LEMMA ReleaseStep ==
  ASSUME StreamAssumption, StreamIInv, Release
  PROVE  StreamIInv'
<1>1. pc = "leaving" /\ write.to \in Channels /\ claimed = write.to .. Width
  BY DEF Release, StreamIInv, WriteShape
<1>2. PICK c \in Channels : c = write.to
  BY <1>1
<1>3. UNCHANGED <<n, delay, want, sets, who, session, feed, output>>
      /\ buf' = [buf EXCEPT ![c] = Empty] /\ due' = [due EXCEPT ![c] = {}]
      /\ claimed' = claimed \ {c}
      /\ IF c < Width THEN write' = [write EXCEPT !.to = c + 1] /\ pc' = pc
         ELSE write' = NoWrite /\ pc' = "closed"
  BY <1>2 DEF Release, Wiped
<1>4. UNCHANGED <<live, ring, skipped>>
  BY <1>3 DEF output
<1>5. buf \in [Channels -> [Slots -> Frames]] /\ due \in [Channels -> SUBSET Nat] /\ write \in Writes
  BY DEF StreamIInv, TypeOK, Writes
<1>6. TypeOK'
  <2>1. buf' \in [Channels -> [Slots -> Frames]]
    BY <1>3, <1>5, EmptyIsSilent
  <2>2. due' \in [Channels -> SUBSET Nat] /\ claimed' \subseteq Channels
    BY <1>3, <1>5 DEF StreamIInv, TypeOK
  <2>3. write' \in Writes
    <3>1. CASE c < Width
      <4>1. c + 1 \in 0 .. Width
        BY <3>1 DEF Channels, StreamAssumption
      <4> QED BY <1>3, <1>5, <3>1, <4>1 DEF Writes
    <3> QED BY <1>3, <3>1, Fresh
  <2>4. pc' \in {"leaving", "closed"}
    BY <1>1, <1>3
  <2> QED BY <1>3, <1>4, <2>1, <2>2, <2>3, <2>4 DEF StreamIInv, TypeOK, Writes
<1>7. WriteShape'
  <2>1. c \in 1 .. Width /\ Width \in Nat /\ claimed' = (c .. Width) \ {c}
    BY <1>1, <1>2, <1>3 DEF Channels, StreamAssumption
  <2>2. CASE c < Width
    <3>1. write'.to = c + 1 /\ pc' = "leaving" /\ c + 1 \in Channels
      BY <1>1, <1>3, <1>5, <2>1, <2>2 DEF Writes, Channels
    <3>2. (c .. Width) \ {c} = c + 1 .. Width
      BY <2>1
    <3> QED BY <2>1, <3>1, <3>2 DEF WriteShape
  <2>3. CASE ~(c < Width)
    <3>1. pc' = "closed" /\ (c .. Width) \ {c} = {}
      BY <1>3, <2>1, <2>3
    <3> QED BY <2>1, <3>1 DEF WriteShape
  <2> QED BY <2>2, <2>3
<1>8. LiveIsOlder' /\ skipped' \subseteq 0 .. n' - 1 /\ OnlySkippedFramesReturn' /\ RingIsTheDelayedLive'
  BY <1>1, <1>3, <1>4 DEF StreamIInv, LiveIsOlder, OnlySkippedFramesReturn, RingIsTheDelayedLive
<1>9. ChannelsStayTogether'
  BY <1>1, <1>3, <1>4 DEF StreamIInv, ChannelsStayTogether
<1>10. ~Accepted /\ ~Accepted'
  BY <1>1, <1>3 DEF Accepted
<1>11. ASSUME NEW x \in Channels
       PROVE  (\A i \in Slots : SlotHolds(x, i)') /\ (\A a \in Ages : LiveFollows(x, a)')
              /\ DueFollows(x)' /\ WrittenSoFar(x)'
  <2>1. CASE x = c
    <3>1. (\A i \in Slots : buf'[x][i] = Silence) /\ due'[x] = {}
      BY <1>3, <1>5, <2>1, EmptyIsSilent
    <3>2. \A a \in Ages : LiveFollows(x, a)'
      <4>1. SUFFICES ASSUME NEW a \in Ages, a <= n PROVE buf'[x][(n - a) % Size] = Silence
        BY <1>3 DEF LiveFollows
      <4>2. n - a \in Int
        BY Numbers, LongestDelay DEF Ages, StreamIInv
      <4> QED BY <3>1, <4>2, SlotOf
    <3> QED BY <1>10, <3>1, <3>2 DEF SlotHolds, DueFollows, WrittenSoFar
  <2>2. CASE x # c
    <3>1. buf'[x] = buf[x] /\ due'[x] = due[x] /\ (x \in claimed => x \in claimed')
      BY <1>3, <1>5, <2>2
    <3>2. \A i \in Slots : SlotHolds(x, i)'
      BY <1>3, <1>4, <3>1 DEF StreamIInv, SlotHolds
    <3>3. \A a \in Ages : LiveFollows(x, a)'
      BY <1>3, <1>4, <3>1 DEF StreamIInv, LiveFollows
    <3>4. DueFollows(x)'
      BY <1>3, <1>4, <3>1 DEF StreamIInv, DueFollows
    <3> QED BY <1>10, <3>2, <3>3, <3>4 DEF WrittenSoFar
  <2> QED BY <2>1, <2>2
<1>12. ASSUME NEW x \in claimed', NEW y \in claimed', NEW i \in Slots PROVE SlotsAgree(x, y, i)'
  <2>1. x \in claimed /\ y \in claimed /\ buf'[x] = buf[x] /\ buf'[y] = buf[y]
    BY <1>3, <1>5 DEF StreamIInv, TypeOK
  <2> QED BY <1>10, <2>1, AgreeAtRest DEF SlotsAgree
<1> QED BY <1>6, <1>7, <1>8, <1>9, <1>11, <1>12 DEF StreamIInv

----------------------------------------------------------------------------
(* A write, channel by channel.                                            *)

\* What Place leaves in each slot.
LEMMA PlaceHolds ==
  ASSUME StreamAssumption, TypeOK, WriteShape, Accepted, NEW b \in [Slots -> Frames]
  PROVE  LET placed == Place(b, write.at, write.frames) IN
         /\ placed \in [Slots -> Frames]
         /\ \A p \in Aimed : placed[p % Size] = Frame(p)
         /\ \A i \in Slots : (\A p \in Aimed : p % Size # i) => placed[i] = b[i]
<1> DEFINE placed == Place(b, write.at, write.frames)
           hit(i) == CHOOSE p \in Aimed : p % Size = i
<1>1. placed = [i \in Slots |-> IF \E p \in Aimed : p % Size = i THEN Frame(hit(i)) ELSE b[i]]
  BY DEF Place, Aimed
<1> HIDE DEF placed
<1>2. ASSUME NEW p \in Aimed PROVE hit(p % Size) = p /\ p % Size \in Slots /\ Frame(p) \in Frames
  <2>1. p \in ToCome
    BY AcceptedIsToCome
  <2>2. hit(p % Size) \in Aimed /\ hit(p % Size) % Size = p % Size
    OBVIOUS
  <2>3. hit(p % Size) = p
    BY <2>1, <2>2, AcceptedIsToCome, ToComeIsApart
  <2>4. p \in Nat /\ p <= MaxN + Size
    <3>1. n \in 1 .. MaxN
      BY DEF TypeOK
    <3>2. p \in Nat /\ p <= n + MaxLead + 1 /\ MaxLead + 1 <= Size
      BY <2>1, Numbers DEF ToCome
    <3> QED BY <3>1, <3>2, Numbers
  <2>5. Frame(p) \in Frames
    BY <2>4 DEF Frame, Frames, TypeOK
  <2> QED BY <2>3, <2>4, <2>5, SlotOf
<1> HIDE DEF hit
<1>3. \A p \in Aimed : placed[p % Size] = Frame(p)
  BY <1>1, <1>2
<1>4. \A i \in Slots : (\A p \in Aimed : p % Size # i) => placed[i] = b[i]
  BY <1>1
<1>5. placed \in [Slots -> Frames]
  <2>1. ASSUME NEW i \in Slots PROVE placed[i] \in Frames
    BY <1>2, <1>3, <1>4
  <2>2. placed = [i \in Slots |-> placed[i]]
    BY <1>1
  <2> QED BY <2>1, <2>2
<1> QED BY <1>3, <1>4, <1>5 DEF placed

\* Where a Distribute goes on.
LEMMA DistributeGoesOn ==
  ASSUME StreamAssumption, StreamIInv, Distribute
  PROVE  /\ UNCHANGED <<n, delay, want, sets, claimed, who, session, feed, live, ring, skipped>>
         /\ pc = "push" /\ write.to \in Channels /\ claimed = Channels /\ who > 0
         /\ IF write.to < Width
              THEN write' = [write EXCEPT !.to = write.to + 1] /\ pc' = "push"
              ELSE write' = NoWrite /\ pc' = "ready"
         /\ IF Accepted
              THEN /\ buf' = [buf EXCEPT ![write.to] = Place(@, write.at, write.frames)]
                   /\ due' = [due EXCEPT ![write.to] = @ \cup Aimed]
              ELSE UNCHANGED <<buf, due>>
BY DEF Distribute, StreamIInv, WriteShape, output, Accepted, Aimed

LEMMA DistributeTypes ==
  ASSUME StreamAssumption, StreamIInv, Distribute
  PROVE  TypeOK' /\ WriteShape' /\ (pc' = "push" => Accepted' = Accepted /\ Aimed' = Aimed)
<1>1. buf \in [Channels -> [Slots -> Frames]] /\ due \in [Channels -> SUBSET Nat] /\ write \in Writes
      /\ TypeOK /\ WriteShape
  BY DEF StreamIInv, TypeOK, Writes
<1>2. write' \in Writes /\ pc' \in {"push", "ready"}
  <2>1. CASE write.to < Width
    <3>1. write.to + 1 \in 0 .. Width
      BY <2>1, DistributeGoesOn DEF Channels, StreamAssumption
    <3> QED BY <1>1, <2>1, <3>1, DistributeGoesOn DEF Writes
  <2> QED BY <2>1, Fresh, DistributeGoesOn
<1>3. buf' \in [Channels -> [Slots -> Frames]]
  <2>1. CASE Accepted
    <3>1. Place(buf[write.to], write.at, write.frames) \in [Slots -> Frames]
      BY <1>1, <2>1, PlaceHolds, DistributeGoesOn
    <3> QED BY <1>1, <2>1, <3>1, DistributeGoesOn
  <2> QED BY <1>1, <2>1, DistributeGoesOn
<1>4. due' \in [Channels -> SUBSET Nat]
  <2>1. CASE Accepted
    <3>1. Aimed \subseteq Nat
      BY <1>1, <2>1, AcceptedIsToCome, ToComeIsApart
    <3> QED BY <1>1, <2>1, <3>1, DistributeGoesOn
  <2> QED BY <1>1, <2>1, DistributeGoesOn
<1>5. TypeOK'
  BY <1>1, <1>2, <1>3, <1>4, DistributeGoesOn DEF TypeOK, Writes
<1>6. WriteShape' /\ (pc' = "push" => Accepted' = Accepted /\ Aimed' = Aimed)
  <2>1. CASE write.to < Width
    <3>1. write.to + 1 \in Channels
      BY <2>1, DistributeGoesOn DEF Channels, StreamAssumption
    <3>2. write'.to = write.to + 1 /\ write'.frames = write.frames /\ pc' = "push"
          /\ write'.reader = write.reader /\ write'.age = write.age /\ write'.at = write.at
      BY <1>1, <2>1, DistributeGoesOn DEF Writes
    <3>3. WriteShape'
      BY <1>1, <3>1, <3>2, DistributeGoesOn DEF WriteShape
    <3>4. Accepted' = Accepted /\ Aimed' = Aimed
      BY <3>2, DistributeGoesOn DEF Accepted, Aimed
    <3> QED BY <3>3, <3>4
  <2>2. CASE ~(write.to < Width)
    BY <2>2, DistributeGoesOn DEF WriteShape
  <2> QED BY <2>1, <2>2
<1> QED BY <1>5, <1>6

\* What a slot holds after the write to its channel: what it held, or its own frame.
LEMMA DistributeHolds ==
  ASSUME StreamAssumption, StreamIInv, Distribute, NEW c \in Channels
  PROVE  /\ \A i \in Slots :
              buf'[c][i] = buf[c][i] \/ (Accepted /\ \E p \in Aimed : p % Size = i /\ buf'[c][i] = Frame(p))
         /\ Accepted /\ c = write.to => \A p \in Aimed : buf'[c][p % Size] = Frame(p)
         /\ c # write.to => buf'[c] = buf[c]
         /\ \A i \in Slots : (\A p \in Aimed : p % Size # i) => buf'[c][i] = buf[c][i]
         /\ ~Accepted => buf'[c] = buf[c]
<1>1. buf \in [Channels -> [Slots -> Frames]] /\ TypeOK /\ WriteShape
  BY DEF StreamIInv, TypeOK
<1>2. CASE Accepted /\ c = write.to
  <2>1. buf'[c] = Place(buf[c], write.at, write.frames) /\ buf[c] \in [Slots -> Frames]
    BY <1>1, <1>2, DistributeGoesOn
  <2> DEFINE b == buf'[c]
  <2>2. /\ \A p \in Aimed : b[p % Size] = Frame(p)
        /\ \A i \in Slots : (\A p \in Aimed : p % Size # i) => b[i] = buf[c][i]
    BY <1>1, <1>2, <2>1, PlaceHolds
  <2> QED BY <1>2, <2>2
<1>3. CASE ~Accepted \/ c # write.to
  <2>1. buf'[c] = buf[c]
    BY <1>1, <1>3, DistributeGoesOn
  <2> QED BY <1>3, <2>1
<1> QED BY <1>2, <1>3

LEMMA DistributeStep ==
  ASSUME StreamAssumption, StreamIInv, Distribute
  PROVE  StreamIInv'
<1>1. UNCHANGED <<n, delay, claimed, who, live, ring, skipped>> /\ claimed = Channels /\ pc = "push"
      /\ pc' \in {"push", "ready"} /\ TypeOK /\ WriteShape
  BY DistributeGoesOn DEF StreamIInv
<1>2. TypeOK' /\ WriteShape' /\ (pc' = "push" => Accepted' = Accepted /\ Aimed' = Aimed)
  BY DistributeTypes
<1>3. LiveIsOlder' /\ skipped' \subseteq 0 .. n' - 1 /\ OnlySkippedFramesReturn' /\ RingIsTheDelayedLive'
  BY <1>1 DEF StreamIInv, LiveIsOlder, OnlySkippedFramesReturn, RingIsTheDelayedLive
<1>4. ChannelsStayTogether'
  BY <1>1 DEF StreamIInv, ChannelsStayTogether
<1>5. ASSUME Accepted, NEW p \in Aimed
      PROVE  /\ p \in ToCome /\ p \in Nat /\ p > n /\ p <= n + MaxLead + 1 /\ p % Size \in Slots
             /\ Frame(p).at = p /\ Frame(p).who = who /\ Frame(p) # Silence
  <2>1. p \in ToCome
    BY <1>1, <1>5, AcceptedIsToCome
  <2>2. p \in Nat /\ p > n /\ p <= n + MaxLead + 1
    BY <1>1, <2>1, ToComeIsApart, Numbers DEF ToCome
  <2> QED BY <2>1, <2>2, SlotOf, FrameIsNotSilence
<1>6. ASSUME NEW c \in Channels, NEW i \in Slots PROVE SlotHolds(c, i)'
  <2>1. CASE buf'[c][i] = buf[c][i]
    BY <1>1, <2>1 DEF StreamIInv, SlotHolds
  <2>2. ASSUME Accepted, NEW p \in Aimed, p % Size = i, buf'[c][i] = Frame(p) PROVE SlotHolds(c, i)'
    <3>1. p \in Nat /\ p > n /\ p <= n + MaxLead + 1 /\ Frame(p).at = p /\ Frame(p).who = who
      BY <1>5, <2>2
    <3>2. p > n - delay /\ ~(p <= n)
      BY <1>1, <3>1, Numbers
    <3> QED BY <1>1, <2>2, <3>1, <3>2 DEF SlotHolds
  <2> QED BY <2>1, <2>2, DistributeHolds
<1>7. ASSUME NEW c \in Channels, NEW a \in Ages PROVE LiveFollows(c, a)'
  <2>1. SUFFICES ASSUME a + 1 \in Ages, a <= n
                 PROVE  buf'[c][(n - a) % Size] \in {live[c][a], Silence}
    BY <1>1 DEF LiveFollows
  <2>2. a \in Nat /\ n - a \in Int /\ MaxLead + a + 1 < Size
    BY <1>1, <2>1, Numbers, LongestDelay DEF Ages
  <2>3. Accepted => \A p \in Aimed : p % Size # (n - a) % Size
    BY <1>1, <1>5, <2>2, ToComeIsApart
  <2>4. buf'[c][(n - a) % Size] = buf[c][(n - a) % Size]
    BY <2>2, <2>3, SlotOf, DistributeHolds
  <2> QED BY <2>1, <2>4 DEF StreamIInv, LiveFollows
<1>8. ASSUME NEW c \in Channels PROVE DueFollows(c)'
  <2>1. ASSUME NEW p \in due[c]
        PROVE  p \in n .. n + MaxLead + 1 /\ (p > n => buf'[c][p % Size].at = p)
               /\ (p = n => live[c][0].at = n)
    <3>1. p \in n .. n + MaxLead + 1 /\ (p > n => buf[c][p % Size].at = p) /\ (p = n => live[c][0].at = n)
      BY DEF StreamIInv, DueFollows
    <3>2. ASSUME p > n PROVE buf'[c][p % Size].at = p
      <4>1. p \in ToCome /\ p \in Int
        BY <1>1, <3>1, <3>2, Numbers DEF ToCome
      <4>2. ASSUME Accepted, NEW q \in Aimed, q % Size = p % Size PROVE q = p
        BY <1>1, <1>5, <4>1, <4>2, ToComeIsApart
      <4>3. p % Size \in Slots
        BY <4>1, SlotOf
      <4>4. CASE buf'[c][p % Size] = buf[c][p % Size]
        BY <3>1, <3>2, <4>4
      <4>5. ASSUME Accepted, NEW q \in Aimed, q % Size = p % Size, buf'[c][p % Size] = Frame(q)
            PROVE  buf'[c][p % Size].at = p
        BY <1>5, <4>2, <4>5
      <4> QED BY <4>3, <4>4, <4>5, DistributeHolds
    <3> QED BY <3>1, <3>2
  <2>2. ASSUME NEW p \in due'[c], p \notin due[c]
        PROVE  p \in n .. n + MaxLead + 1 /\ p > n /\ buf'[c][p % Size].at = p
    <3>1. Accepted /\ c = write.to /\ p \in Aimed
      BY <2>2, DistributeGoesOn DEF StreamIInv, TypeOK
    <3>2. buf'[c][p % Size] = Frame(p)
      BY <3>1, DistributeHolds
    <3>3. p \in Nat /\ p > n /\ p <= n + MaxLead + 1 /\ Frame(p).at = p
      BY <1>5, <3>1
    <3> QED BY <1>1, <3>2, <3>3, Numbers
  <2>3. ASSUME NEW p \in due'[c]
        PROVE  p \in n .. n + MaxLead + 1 /\ (p > n => buf'[c][p % Size].at = p)
               /\ (p = n => live[c][0].at = n)
    <3>1. CASE p \in due[c]
      BY <2>1, <3>1
    <3>2. CASE p \notin due[c]
      <4>1. p > n /\ n \in Nat /\ p # n
        BY <1>1, <2>2, <3>2, Numbers
      <4> QED BY <2>2, <3>2, <4>1
    <3> QED BY <3>1, <3>2
  <2> QED BY <1>1, <2>3 DEF DueFollows
<1>9. ASSUME NEW c \in Channels PROVE WrittenSoFar(c)'
  <2>1. SUFFICES ASSUME pc' = "push", Accepted, c < write'.to, NEW p \in Aimed
                 PROVE  buf'[c][p % Size] = Frame(p)
    BY <1>1, <1>2 DEF WrittenSoFar, Accepted, Frame
  <2>2. write'.to = write.to + 1 /\ write.to \in Int /\ c \in Int
    BY <1>1, <2>1, DistributeGoesOn DEF TypeOK, Channels
  <2>3. CASE c = write.to
    BY <2>1, <2>3, DistributeHolds
  <2>4. CASE c < write.to
    <3>1. c # write.to
      BY <2>2, <2>4
    <3> QED BY <2>1, <2>4, <3>1, DistributeHolds DEF StreamIInv, WrittenSoFar
  <2> QED BY <2>1, <2>2, <2>3, <2>4
<1>10. ASSUME NEW c \in claimed', NEW d \in claimed', NEW i \in Slots PROVE SlotsAgree(c, d, i)'
  <2>1. c \in Channels /\ d \in Channels
    BY <1>1
  <2>2. CASE ~(Accepted /\ \E p \in Aimed : p % Size = i)
    <3>1. buf[c][i] = buf[d][i]
      BY <1>1, <2>2 DEF StreamIInv, SlotsAgree
    <3>2. buf'[c][i] = buf[c][i] /\ buf'[d][i] = buf[d][i]
      BY <2>1, <2>2, DistributeHolds
    <3> QED BY <3>1, <3>2 DEF SlotsAgree
  <2>3. CASE Accepted /\ \E p \in Aimed : p % Size = i
    <3>1. CASE pc' = "push"
      BY <1>2, <2>3, <3>1 DEF SlotsAgree
    <3>2. CASE pc' = "ready"
      <4>1. PICK p \in Aimed : p % Size = i
        BY <2>3
      <4>2. ASSUME NEW x \in Channels PROVE buf'[x][i] = Frame(p)
        <5>1. ~(write.to < Width) /\ x \in Int /\ x <= Width /\ write.to \in 1 .. Width /\ Width \in Int
          BY <3>2, DistributeGoesOn DEF Channels, StreamAssumption
        <5>2. CASE x = write.to
          BY <2>3, <4>1, <5>2, DistributeHolds
        <5>3. CASE x < write.to
          <6>1. x # write.to
            BY <5>1, <5>3
          <6> QED BY <2>3, <4>1, <5>3, <6>1, DistributeHolds DEF StreamIInv, WrittenSoFar
        <5> QED BY <5>1, <5>2, <5>3
      <4> QED BY <2>1, <4>2 DEF SlotsAgree
    <3> QED BY <1>1, <3>1, <3>2
  <2> QED BY <2>2, <2>3
<1> QED BY <1>2, <1>3, <1>4, <1>6, <1>7, <1>8, <1>9, <1>10 DEF StreamIInv

----------------------------------------------------------------------------
(* A block of the audio thread.                                            *)

Now == n + 1
Back == Now - want

\* What a block does to each slot, and what it plays.
LEMMA BlockDoes ==
  ASSUME StreamAssumption, StreamIInv, Block
  PROVE  /\ n' = Now /\ delay' = want /\ n < MaxN
         /\ UNCHANGED <<want, sets, claimed, who, pc, session, feed>>
         /\ \A c \in Channels, a \in Ages :
              live'[c][a] = IF a = 0 THEN Played(c, Now) ELSE live[c][a - 1]
         /\ \A c \in Channels : ring'[c] = IF Back < 0 THEN Silence ELSE Played(c, Back)
         /\ \A c \in Channels, i \in Slots :
              buf'[c][i] = IF c \in claimed /\ Back >= 0 /\ i = Back % Size THEN Silence ELSE buf[c][i]
         /\ skipped' = {p \in skipped : p % Size # (n - delay) % Size}
                         \cup {p \in Now - delay .. Back - 1 : p >= 0}
         /\ write' = IF pc = "push" THEN [write EXCEPT !.age = @ + 1] ELSE write
         /\ pc = "push" => write.age < Stall
         /\ \A c \in Channels : due'[c] = {p \in due[c] : p >= Now}
<1>1. buf \in [Channels -> [Slots -> Frames]]
  BY DEF StreamIInv, TypeOK
<1>2. ASSUME NEW c \in Channels, NEW i \in Slots
      PROVE  buf'[c][i] = IF c \in claimed /\ Back >= 0 /\ i = Back % Size THEN Silence ELSE buf[c][i]
  <2>1. buf'[c] = IF c \in claimed /\ Back >= 0 THEN Clear(buf[c], Back) ELSE buf[c]
    BY DEF Block, Back, Now
  <2>2. buf[c] \in [Slots -> Frames]
    BY <1>1
  <2> DEFINE k == Back % Size
  <2>3. Clear(buf[c], Back) = [buf[c] EXCEPT ![k] = Silence]
    BY DEF Clear
  <2> HIDE DEF k
  <2>4. Clear(buf[c], Back)[i] = IF i = k THEN Silence ELSE buf[c][i]
    BY <2>2, <2>3
  <2> QED BY <2>1, <2>4 DEF k
<1> QED BY <1>2 DEF Block, Back, Now

LEMMA BlockNumbers ==
  ASSUME StreamAssumption, StreamIInv
  PROVE  /\ n \in Nat /\ n >= 1 /\ Now \in Nat /\ Now = n + 1 /\ Back \in Int /\ Back = Now - want
         /\ want \in Nat /\ delay \in Nat /\ MaxLead \in Nat /\ Size \in Nat \ {0}
         /\ MaxLead + delay < Size /\ MaxLead + want < Size
         /\ Now % Size \in Slots /\ Back % Size \in Slots /\ (n - delay) % Size \in Slots
<1>1. TypeOK
  BY DEF StreamIInv
<1>2. n \in Nat /\ Now \in Nat /\ Now = n + 1 /\ Back \in Int /\ Back = Now - want /\ n - delay \in Int
  BY <1>1, Numbers DEF Now, Back
<1> QED BY <1>1, <1>2, Numbers, SlotOf

\* The write goes on, or there is none; what it may still put in lies ahead.
LEMMA BlockWrite ==
  ASSUME StreamAssumption, StreamIInv, Block
  PROVE  /\ TypeOK' /\ WriteShape' /\ Accepted' = Accepted /\ Aimed' = Aimed /\ write'.to = write.to
         /\ Accepted => \A p \in Aimed : p \in Nat /\ p > Now /\ p <= Now + MaxLead
<1>1. write \in Writes /\ buf \in [Channels -> [Slots -> Frames]] /\ claimed \subseteq Channels
      /\ live \in [Channels -> [Ages -> Frames]] /\ TypeOK /\ WriteShape
  BY DEF StreamIInv, TypeOK, Writes
<1>2. write' \in Writes /\ write'.to = write.to /\ write'.at = write.at /\ write'.frames = write.frames
      /\ write'.reader = write.reader /\ (pc = "push" => write'.age = write.age + 1)
  <2>1. CASE pc = "push"
    <3>1. write.age + 1 \in 0 .. Stall
      BY <1>1, <2>1, BlockDoes, Numbers DEF Writes
    <3> QED BY <1>1, <2>1, <3>1, BlockDoes DEF Writes
  <2>2. CASE pc # "push"
    BY <1>1, <2>2, BlockDoes
  <2> QED BY <2>1, <2>2
<1>3. ASSUME NEW c \in Channels, NEW p \in Int PROVE Played(c, p) \in Frames
  BY <1>1, Fresh, SlotOf DEF Played, Read
<1>4. buf' \in [Channels -> [Slots -> Frames]]
  <2>1. \A c \in Channels : Clear(buf[c], Back) \in [Slots -> Frames]
    BY <1>1, Fresh DEF Clear
  <2> QED BY <1>1, <2>1 DEF Block, Back, Now
<1>5. live' \in [Channels -> [Ages -> Frames]] /\ ring' \in [Channels -> Frames]
  <2>1. \A a \in Ages : a # 0 => a - 1 \in Ages
    BY LongestDelay DEF Ages
  <2>2. \A c \in Channels, a \in Ages : (IF a = 0 THEN Played(c, Now) ELSE live[c][a - 1]) \in Frames
    BY <1>1, <1>3, <2>1, BlockNumbers
  <2>3. \A c \in Channels : (IF Back < 0 THEN Silence ELSE Played(c, Back)) \in Frames
    BY <1>3, BlockNumbers, Fresh
  <2> QED BY <2>2, <2>3 DEF Block, Back, Now
<1>6. due' \in [Channels -> SUBSET Nat] /\ skipped' \subseteq Nat
  <2>1. due \in [Channels -> SUBSET Nat] /\ skipped \subseteq Nat
    BY <1>1 DEF TypeOK
  <2>2. due' \in [Channels -> SUBSET Nat]
    BY <2>1 DEF Block
  <2>3. Now - delay \in Int /\ Back - 1 \in Int
    BY BlockNumbers
  <2>4. \A p \in Now - delay .. Back - 1 : p >= 0 => p \in Nat
    BY <2>3
  <2> QED BY <2>1, <2>2, <2>4, BlockDoes
<1>7. n' \in 1 .. MaxN /\ delay' \in Delays
  BY <1>1, BlockDoes, BlockNumbers, Numbers DEF TypeOK
<1>8. TypeOK'
  BY <1>1, <1>2, <1>4, <1>5, <1>6, <1>7, BlockDoes DEF TypeOK, Writes
<1>9. WriteShape'
  <2>1. pc = "push" => write'.reader + write'.age = n'
    <3>1. SUFFICES ASSUME pc = "push" PROVE write'.reader + write'.age = n'
      OBVIOUS
    <3>2. write.reader + write.age = n /\ write.reader \in Nat /\ write.age \in Nat
      BY <1>1, <3>1, Numbers DEF WriteShape, Writes
    <3> QED BY <1>2, <3>1, <3>2, BlockDoes, BlockNumbers
  <2> QED BY <1>1, <1>2, <2>1, BlockDoes DEF WriteShape
<1>10. Accepted' = Accepted /\ Aimed' = Aimed
  BY <1>2, BlockDoes DEF Accepted, Aimed
<1>11. ASSUME Accepted, NEW p \in Aimed PROVE p \in Nat /\ p > Now /\ p <= Now + MaxLead
  <2>1. Accepted' /\ p \in Aimed'
    BY <1>10, <1>11
  <2>2. p \in ToCome
    BY <1>1, <1>11, AcceptedIsToCome
  <2>3. p \in Nat /\ p <= Now + MaxLead
    BY <2>2, BlockNumbers DEF ToCome
  <2>4. p > Now
    <3>1. PICK a \in Nat, f \in 1 .. 2, r \in Nat, g \in Nat :
            a = write.at /\ f = write.frames /\ r = write.reader /\ g = write.age
      BY <1>1, <1>11 DEF Writes, WriteShape, Accepted, StreamAssumption
    <3>2. a >= r + Guard /\ g < Stall /\ r + g = n /\ p >= a
      <4>1. a >= r + Guard
        BY <1>11, <3>1, Numbers, <1>1 DEF Accepted, Verdict
      <4>2. g < Stall /\ r + g = n
        BY <1>1, <1>11, <3>1, BlockDoes DEF Accepted, WriteShape
      <4>3. p >= a
        BY <3>1 DEF Aimed
      <4> QED BY <4>1, <4>2, <4>3
    <3> QED BY <1>1, <2>3, <3>1, <3>2, Numbers, BlockNumbers
  <2> QED BY <2>3, <2>4
<1> QED BY <1>2, <1>8, <1>9, <1>10, <1>11

\* A position a block plays, or serves the ring from, has the slot to itself among the
\* ones that are less than a timeline away.
LEMMA BlockApart ==
  ASSUME StreamAssumption, StreamIInv, NEW p \in Int
  PROVE  /\ p > Now /\ p <= Now + MaxLead => p % Size # Now % Size /\ p % Size # Back % Size
         /\ p < Now /\ p > n - delay => p % Size # Now % Size
         /\ p > Back /\ p <= Now => p % Size # Back % Size
<1>1. CASE p > Now /\ p <= Now + MaxLead
  <2>1. p - Now < Size /\ p - Back < Size /\ Back < p
    BY <1>1, BlockNumbers
  <2> QED BY <1>1, <2>1, ModNear, BlockNumbers
<1>2. CASE p < Now /\ p > n - delay
  <2>1. Now - p < Size
    BY <1>2, BlockNumbers
  <2> QED BY <1>2, <2>1, ModNear, BlockNumbers
<1>3. CASE p > Back /\ p <= Now
  <2>1. p - Back < Size
    BY <1>3, BlockNumbers
  <2> QED BY <1>3, <2>1, ModNear, BlockNumbers
<1> QED BY <1>1, <1>2, <1>3, BlockNumbers

\* What a slot holds after a block it held before.
LEMMA BlockSlots ==
  ASSUME StreamAssumption, StreamIInv, Block, NEW c \in Channels, NEW i \in Slots
  PROVE  SlotHolds(c, i)'
<1> DEFINE e == buf[c][i]
<1>1. SUFFICES ASSUME buf'[c][i] # Silence
      PROVE  /\ c \in claimed' /\ buf'[c][i].who = who' /\ buf'[c][i].at \in Nat
             /\ buf'[c][i].at % Size = i
             /\ buf'[c][i].at <= n' + MaxLead + 1
             /\ buf'[c][i].at > n' - delay' \/ buf'[c][i].at \in skipped'
             /\ buf'[c][i].at <= n' => i # (n' - delay') % Size
  BY DEF SlotHolds
<1>2. buf'[c][i] = e /\ e # Silence /\ ~(c \in claimed /\ Back >= 0 /\ i = Back % Size)
  BY <1>1, BlockDoes
<1>3. /\ c \in claimed /\ e.who = who /\ e.at \in Nat /\ e.at % Size = i
      /\ e.at <= n + MaxLead + 1
      /\ e.at > n - delay \/ e.at \in skipped
      /\ e.at <= n => i # (n - delay) % Size
  BY <1>2 DEF StreamIInv, SlotHolds
<1>4. PICK p \in Nat : p = e.at
  BY <1>3
<1>5. n' = Now /\ delay' = want /\ n' - delay' = Back
  BY BlockDoes, BlockNumbers
<1>6. p <= Now + MaxLead + 1
  BY <1>3, <1>4, BlockNumbers
<1>7. p > Back \/ p \in skipped'
  <2>1. CASE p \in skipped
    <3>1. p <= n
      BY <2>1, BlockNumbers DEF StreamIInv
    <3>2. p % Size # (n - delay) % Size
      BY <1>3, <1>4, <3>1
    <3> QED BY <2>1, <3>2, BlockDoes
  <2>2. CASE p > n - delay
    <3>1. CASE p = Back
      BY <1>2, <1>3, <1>4, <3>1
    <3>2. CASE p < Back
      <4>1. p \in Now - delay .. Back - 1
        BY <2>2, <3>2, BlockNumbers
      <4> QED BY <4>1, BlockDoes
    <3> QED BY <3>1, <3>2, BlockNumbers
  <2> QED BY <1>3, <1>4, <2>1, <2>2
<1>8. ASSUME p <= Now PROVE i # Back % Size
  <2>1. CASE Back >= 0
    BY <1>2, <1>3, <2>1
  <2>2. CASE ~(Back >= 0)
    <3>1. p > Back
      BY <2>2, BlockNumbers
    <3> QED BY <1>3, <1>4, <1>8, <3>1, BlockApart
  <2> QED BY <2>1, <2>2
<1> QED BY <1>2, <1>3, <1>4, <1>5, <1>6, <1>7, <1>8, BlockDoes

\* A block leaves in a slot what was there, or silence.
LEMMA BlockKeeps ==
  ASSUME StreamAssumption, StreamIInv, Block, NEW c \in Channels, NEW i \in Slots
  PROVE  buf'[c][i] \in {buf[c][i], Silence}
BY BlockDoes

LEMMA BlockLive ==
  ASSUME StreamAssumption, StreamIInv, Block, NEW c \in Channels, NEW a \in Ages
  PROVE  LiveFollows(c, a)'
<1>1. SUFFICES ASSUME a + 1 \in Ages, a <= Now
               PROVE  buf'[c][(Now - a) % Size] \in {live'[c][a], Silence}
  BY BlockDoes DEF LiveFollows
<1>2. a \in Nat /\ Now - a \in Int
  BY BlockNumbers, LongestDelay DEF Ages
<1> DEFINE i == (Now - a) % Size
<1>3. i \in Slots
  BY <1>2, SlotOf
<1>4. CASE c \notin claimed
  BY <1>3, <1>4, UnclaimedIsSilent, BlockKeeps
<1>5. CASE a = 0 /\ c \in claimed
  <2>1. live'[c][a] = buf[c][i]
    <3>1. Now - 0 = Now
      BY BlockNumbers
    <3> QED BY <1>5, <3>1, BlockDoes DEF Played, Read
  <2> QED BY <1>3, <2>1, BlockKeeps
<1>6. CASE a # 0
  <2>1. a - 1 \in Ages /\ (a - 1) + 1 \in Ages /\ a - 1 <= n /\ n - (a - 1) = Now - a
    BY <1>1, <1>2, <1>6, BlockNumbers, LongestDelay DEF Ages
  <2>2. PICK b \in Ages : b = a - 1
    BY <2>1
  <2>3. LiveFollows(c, b)
    BY DEF StreamIInv
  <2>4. buf[c][i] \in {live[c][b], Silence}
    BY <2>1, <2>2, <2>3 DEF LiveFollows
  <2>5. live'[c][a] = live[c][b]
    BY <1>6, <2>2, BlockDoes
  <2> QED BY <1>3, <2>4, <2>5, BlockKeeps
<1> QED BY <1>4, <1>5, <1>6

LEMMA BlockDue ==
  ASSUME StreamAssumption, StreamIInv, Block, NEW c \in Channels
  PROVE  DueFollows(c)'
<1>1. SUFFICES ASSUME NEW p \in due[c], p >= Now
               PROVE  /\ c \in claimed /\ p \in Now .. Now + MaxLead + 1
                      /\ p > Now => buf'[c][p % Size].at = p
                      /\ p = Now => live'[c][0].at = Now
  BY BlockDoes DEF DueFollows
<1>2. c \in claimed /\ p \in n .. n + MaxLead + 1 /\ (p > n => buf[c][p % Size].at = p)
  BY DEF StreamIInv, DueFollows
<1>3. p \in Nat /\ p > n /\ p <= Now + MaxLead /\ p \in Now .. Now + MaxLead + 1
  BY <1>1, <1>2, BlockNumbers
<1>4. ASSUME p > Now PROVE buf'[c][p % Size].at = p
  <2>1. p % Size # Back % Size /\ p % Size \in Slots
    BY <1>3, <1>4, BlockApart, SlotOf
  <2> QED BY <1>2, <1>3, <2>1, BlockDoes
<1>5. ASSUME p = Now PROVE live'[c][0].at = Now
  <2>1. 0 \in Ages /\ live'[c][0] = Played(c, Now)
    BY LongestDelay, BlockDoes DEF Ages
  <2> QED BY <1>2, <1>3, <1>5, <2>1 DEF Played, Read
<1> QED BY <1>2, <1>3, <1>4, <1>5

\* What a block plays is for this block, or was skipped; and the same on all channels.
LEMMA BlockPlays ==
  ASSUME StreamAssumption, StreamIInv, Block, NEW c \in Channels
  PROVE  /\ live'[c][0] = Played(c, Now)
         /\ live'[c][0] # Silence => c \in claimed /\ live'[c][0].who = who
         /\ live'[c][0].at \in {-1, Now} \cup skipped'
         /\ \A d \in claimed : c \in claimed => live'[c][0] = live'[d][0]
<1>1. 0 \in Ages /\ \A d \in Channels : live'[d][0] = Played(d, Now)
  BY LongestDelay, BlockDoes DEF Ages
<1> DEFINE i == Now % Size
           e == buf[c][i]
<1>2. live'[c][0] = IF c \in claimed THEN e ELSE Silence
  BY <1>1 DEF Played, Read
<1>3. e # Silence => c \in claimed /\ e.who = who
  BY BlockNumbers DEF StreamIInv, SlotHolds
<1>4. Silence.at = -1
  BY DEF Silence
<1>5. ASSUME e # Silence PROVE e.at = Now \/ e.at \in skipped'
  <2>1. /\ e.at \in Nat /\ e.at % Size = i /\ e.at <= n + MaxLead + 1
        /\ e.at > n - delay \/ e.at \in skipped
        /\ e.at <= n => i # (n - delay) % Size
    BY <1>5, BlockNumbers DEF StreamIInv, SlotHolds
  <2>2. PICK p \in Nat : p = e.at
    BY <2>1
  <2>3. ~(p > Now)
    BY <2>1, <2>2, BlockApart, BlockNumbers
  <2>4. ASSUME p < Now PROVE p \in skipped'
    <3>1. p \in skipped /\ p <= n
      BY <2>1, <2>2, <2>4, BlockApart, BlockNumbers
    <3> QED BY <2>1, <2>2, <3>1, BlockDoes
  <2> QED BY <2>2, <2>3, <2>4, BlockNumbers
<1>6. ASSUME NEW d \in claimed, c \in claimed PROVE live'[c][0] = live'[d][0]
  <2>1. d \in Channels
    BY DEF StreamIInv, TypeOK
  <2>2. SlotsAgree(c, d, i)
    BY <1>6, BlockNumbers DEF StreamIInv
  <2>3. Accepted => \A p \in Aimed : p % Size # i
    <3>1. Accepted => \A p \in Aimed : p \in Nat /\ p > Now /\ p <= Now + MaxLead
      BY BlockWrite
    <3> QED BY <3>1, BlockApart
  <2>4. buf[c][i] = buf[d][i]
    BY <2>2, <2>3 DEF SlotsAgree
  <2> QED BY <1>1, <1>6, <2>1, <2>4 DEF Played, Read
<1> QED BY <1>1, <1>2, <1>3, <1>4, <1>5, <1>6

\* The ring gets what was played live a delay ago.
LEMMA BlockRing ==
  ASSUME StreamAssumption, StreamIInv, Block
  PROVE  RingIsTheDelayedLive'
<1>1. SUFFICES ASSUME NEW c \in Channels, ring'[c] # Silence PROVE ring'[c] = live'[c][want]
  BY BlockDoes DEF RingIsTheDelayedLive
<1>2. Back >= 0 /\ c \in claimed /\ ring'[c] = buf[c][Back % Size] /\ buf[c][Back % Size] # Silence
  BY <1>1, BlockDoes, BlockNumbers DEF Played, Read
<1>3. want \in Ages /\ 0 \in Ages
  BY Numbers, LongestDelay DEF StreamIInv, Ages
<1>4. CASE want = 0
  <2>1. Back = Now
    BY <1>4, BlockNumbers
  <2> QED BY <1>2, <1>3, <1>4, <2>1, BlockDoes DEF Played, Read
<1>5. CASE want # 0
  <2>1. want - 1 \in Ages /\ (want - 1) + 1 \in Ages /\ want - 1 <= n /\ n - (want - 1) = Back
    BY <1>2, <1>3, <1>5, BlockNumbers, LongestDelay DEF Ages
  <2>2. PICK b \in Ages : b = want - 1
    BY <2>1
  <2>3. LiveFollows(c, b)
    BY DEF StreamIInv
  <2>4. buf[c][Back % Size] \in {live[c][b], Silence}
    BY <2>1, <2>2, <2>3 DEF LiveFollows
  <2>5. live'[c][want] = live[c][b]
    BY <1>3, <1>5, <2>2, BlockDoes
  <2> QED BY <1>2, <2>4, <2>5
<1> QED BY <1>4, <1>5

LEMMA BlockStep ==
  ASSUME StreamAssumption, StreamIInv, Block
  PROVE  StreamIInv'
<1>1. n' = Now /\ delay' = want /\ UNCHANGED <<claimed, who, pc>> /\ claimed \subseteq Channels
      /\ TypeOK /\ WriteShape /\ LiveIsOlder
  BY BlockDoes DEF StreamIInv, TypeOK
<1>2. TypeOK' /\ WriteShape' /\ Accepted' = Accepted /\ Aimed' = Aimed /\ write'.to = write.to
  BY BlockWrite
<1>3. skipped' \subseteq 0 .. n' - 1
  <2>1. ASSUME NEW p \in skipped' PROVE p \in 0 .. Now - 1
    <3>1. CASE p \in skipped
      BY <3>1, BlockNumbers DEF StreamIInv
    <3>2. CASE p \in Now - delay .. Back - 1 /\ p >= 0
      BY <3>2, BlockNumbers
    <3> QED BY <3>1, <3>2, BlockDoes
  <2> QED BY <1>1, <2>1
<1>4. LiveIsOlder'
  <2>1. ASSUME NEW c \in Channels
        PROVE  live'[c][0].who <= who /\ (pc = "greeting" => live'[c][0].who < who)
    <3>1. CASE live'[c][0] = Silence
      <4>1. live'[c][0].who = 0 /\ who \in Nat
        BY <1>1, <3>1 DEF Silence, TypeOK
      <4> QED BY <1>1, <4>1 DEF WriteShape
    <3>2. CASE live'[c][0] # Silence
      <4>1. c \in claimed /\ live'[c][0].who = who /\ who \in Nat
        BY <1>1, <3>2, BlockPlays DEF TypeOK
      <4> QED BY <1>1, <4>1 DEF WriteShape
    <3> QED BY <3>1, <3>2
  <2> QED BY <1>1, <2>1 DEF LiveIsOlder
<1>5. ASSUME NEW c \in Channels PROVE WrittenSoFar(c)'
  <2>1. SUFFICES ASSUME Accepted, c < write.to, NEW p \in Aimed PROVE buf'[c][p % Size] = Frame(p)
    BY <1>1, <1>2 DEF WrittenSoFar, Frame
  <2>2. buf[c][p % Size] = Frame(p)
    BY <2>1 DEF StreamIInv, WrittenSoFar
  <2>3. p \in Nat /\ p > Now /\ p <= Now + MaxLead
    BY <2>1, BlockWrite
  <2>4. p % Size # Back % Size /\ p % Size \in Slots
    BY <2>3, BlockApart, SlotOf
  <2> QED BY <2>2, <2>4, BlockDoes
<1>6. ASSUME NEW c \in claimed', NEW d \in claimed', NEW i \in Slots PROVE SlotsAgree(c, d, i)'
  <2>1. c \in claimed /\ d \in claimed /\ c \in Channels /\ d \in Channels
    BY <1>1
  <2>2. SlotsAgree(c, d, i)
    BY <2>1 DEF StreamIInv
  <2>3. buf[c][i] = buf[d][i] => buf'[c][i] = buf'[d][i]
    BY <2>1, BlockDoes
  <2> QED BY <1>2, <2>2, <2>3 DEF SlotsAgree
<1>7. OnlySkippedFramesReturn'
  BY <1>1, BlockPlays DEF OnlySkippedFramesReturn
<1>8. ChannelsStayTogether'
  <2>1. ASSUME NEW c \in Channels, NEW d \in Channels, live'[c][0] # Silence, live'[d][0] # Silence
        PROVE  live'[c][0] = live'[d][0]
    BY <2>1, BlockPlays
  <2>2. ASSUME NEW c \in Channels, NEW d \in Channels, pc \in {"ready", "push"}
        PROVE  live'[d][0] = live'[c][0]
    BY <1>1, <2>2, BlockPlays DEF WriteShape
  <2> QED BY <1>1, <2>1, <2>2 DEF ChannelsStayTogether
<1> QED BY <1>2, <1>3, <1>4, <1>5, <1>6, <1>7, <1>8, BlockSlots, BlockLive, BlockDue, BlockRing
        DEF StreamIInv


----------------------------------------------------------------------------
(* The theorems.                                                           *)

LEMMA InitHolds ==
  ASSUME StreamAssumption, Init
  PROVE  StreamIInv
<1>1. n = 1 /\ want \in Delays /\ delay = want /\ buf = [c \in Channels |-> Empty] /\ sets = 0
      /\ claimed = {} /\ who = 0 /\ pc = "closed"
      /\ session = NewSession /\ feed = NewFeed /\ write = NoWrite
      /\ live = [c \in Channels |-> [a \in Ages |-> Silence]]
      /\ ring = [c \in Channels |-> Silence]
      /\ due = [c \in Channels |-> {}] /\ skipped = {}
  BY DEF Init
<1>2. TypeOK
  <2>1. n \in 1 .. MaxN /\ sets \in 0 .. MaxSets /\ who \in 0 .. MaxStreams
    BY <1>1 DEF StreamAssumption
  <2>2. buf \in [Channels -> [Slots -> Frames]]
    <3>1. Empty \in [Slots -> Frames]
      BY Fresh DEF Empty
    <3> QED BY <1>1, <3>1
  <2>3. live \in [Channels -> [Ages -> Frames]] /\ ring \in [Channels -> Frames]
    BY <1>1, Fresh
  <2>4. due \in [Channels -> SUBSET Nat] /\ skipped \subseteq Nat
    BY <1>1
  <2>5. session \in Sessions /\ feed \in Feeds /\ write \in Writes
    BY <1>1, Fresh
  <2> QED BY <1>1, <2>1, <2>2, <2>3, <2>4, <2>5 DEF TypeOK, Sessions, Feeds, Writes
<1>3. ASSUME NEW c \in Channels, NEW i \in Slots PROVE buf[c][i] = Silence
  BY <1>1, <1>3, EmptyIsSilent
<1>4. ASSUME NEW c \in Channels, NEW a \in Ages PROVE live[c][a] = Silence
  BY <1>1, <1>4
<1>5. 0 \in Ages /\ Silence.at = -1 /\ Silence.who = 0
  BY LongestDelay DEF Ages, Silence
<1>6. WriteShape
  BY <1>1 DEF WriteShape
<1>7. LiveIsOlder
  BY <1>1, <1>4, <1>5 DEF LiveIsOlder
<1>8. ASSUME NEW c \in Channels
      PROVE  /\ \A i \in Slots : SlotHolds(c, i)
             /\ \A a \in Ages : LiveFollows(c, a)
             /\ DueFollows(c) /\ WrittenSoFar(c)
  <2>1. \A i \in Slots : SlotHolds(c, i)
    BY <1>3, <1>8 DEF SlotHolds
  <2>2. \A a \in Ages : LiveFollows(c, a)
    <3>1. ASSUME NEW a \in Ages PROVE buf[c][(n - a) % Size] = Silence
      <4>1. n - a \in Int
        BY <1>1, LongestDelay DEF Ages
      <4> QED BY <1>3, <1>8, <4>1, SlotOf
    <3> QED BY <3>1 DEF LiveFollows
  <2>3. DueFollows(c)
    BY <1>1, <1>8 DEF DueFollows
  <2>4. WrittenSoFar(c)
    BY <1>1 DEF WrittenSoFar, Accepted
  <2> QED BY <2>1, <2>2, <2>3, <2>4
<1>9. OnlySkippedFramesReturn /\ RingIsTheDelayedLive
  BY <1>1, <1>4, <1>5 DEF OnlySkippedFramesReturn, RingIsTheDelayedLive
<1>10. ChannelsStayTogether
  BY <1>1, <1>4, <1>5 DEF ChannelsStayTogether
<1> QED BY <1>1, <1>2, <1>6, <1>7, <1>8, <1>9, <1>10 DEF StreamIInv

LEMMA IdleSteps ==
  ASSUME StreamAssumption, StreamIInv, UNCHANGED vars
  PROVE  StreamIInv'
<1>1. UNCHANGED <<n, delay, want, sets, buf, claimed, who, pc, session, feed, write, output, due>>
  BY DEF vars, sender
<1>2. TypeOK' /\ WriteShape'
  BY <1>1 DEF StreamIInv, TypeOK, WriteShape, output
<1> QED BY <1>1, <1>2, SessionSteps

LEMMA NextSteps ==
  ASSUME StreamAssumption, StreamIInv, [Next]_vars
  PROVE  StreamIInv'
<1>1. CASE Connect \/ Hello \/ Reject
  BY <1>1, ConnectStep, HelloStep, RejectStep
<1>2. CASE CodecInit \/ \E enc \in {"pcm", "vorbis"} : Format(enc)
  BY <1>2, FormatSteps
<1>3. CASE \E jumped \in BOOLEAN, reader \in Positions, out \in 0 .. 2 : Audio(jumped, reader, out)
  BY <1>3, AudioStep
<1>4. CASE Distribute \/ Hangup \/ Release
  BY <1>4, DistributeStep, HangupStep, ReleaseStep
<1>5. CASE \E d \in Delays : SetDelay(d)
  BY <1>5, SetDelayStep
<1>6. CASE Block
  BY <1>6, BlockStep
<1>7. CASE Skip \/ UNCHANGED vars
  <2>1. UNCHANGED vars
    BY <1>7 DEF Skip
  <2> QED BY <2>1, IdleSteps
<1> QED BY <1>1, <1>2, <1>3, <1>4, <1>5, <1>6, <1>7 DEF Next

\* Every slot of every timeline holds a frame of the stream that has the run, for that
\* slot, that is yet to be heard, may still be wanted for the ring or was skipped; and a
\* write the audio thread does not wait for never reaches where it is reading.
THEOREM StreamAlways == Spec => []StreamIInv
<1>1. Init => StreamIInv
  BY InitHolds, StreamAssumption
<1>2. StreamIInv /\ [Next]_vars => StreamIInv'
  BY NextSteps, StreamAssumption
<1> QED BY <1>1, <1>2, PTL DEF Spec

\* A stream is heard at the positions it was aimed at, but for what a shrinking delay
\* skipped (NetTimeline::read()); the ring carries what was played live a delay earlier
\* (NetInput::read_block()); and a session's timelines hold nothing of the one before it
\* (NetInput::release_channels()).
THEOREM StreamIsConsistent == Spec => []StreamInv
<1>1. StreamIInv => NothingOfTheLastStream
  <2> SUFFICES ASSUME StreamIInv, NEW c \in Channels, NEW i \in Slots
               PROVE  buf[c][i].who \in {0, who}
    BY DEF NothingOfTheLastStream
  <2>1. SlotHolds(c, i)
    BY DEF StreamIInv
  <2>2. Silence.who = 0
    BY DEF Silence
  <2> QED BY <2>1, <2>2 DEF SlotHolds
<1>2. StreamIInv => StreamInv
  BY <1>1 DEF StreamIInv, StreamInv
<1> QED BY <1>2, StreamAlways, PTL

\* What NetTimeline::write() said yes to is heard when its position comes, however many
\* blocks the audio thread began between the session's look at its position and the write.
THEOREM AcceptedFramesAreHeard == Spec => []AcceptedIsHeard
<1>1. StreamIInv => AcceptedIsHeard
  <2> SUFFICES ASSUME StreamIInv, NEW c \in Channels, n \in due[c] PROVE live[c][0].at = n
    BY DEF AcceptedIsHeard
  <2>1. DueFollows(c)
    BY DEF StreamIInv
  <2> QED BY <2>1 DEF DueFollows
<1> QED BY <1>1, StreamAlways, PTL

\* The channels of a stream play the same position of it, though Feed::distribute() writes
\* them one by one and release_channels() lets them go one by one.
THEOREM ChannelsAreAlwaysTogether == Spec => []ChannelsStayTogether
<1>1. StreamIInv => ChannelsStayTogether
  BY DEF StreamIInv
<1> QED BY <1>1, StreamAlways, PTL
=============================================================================

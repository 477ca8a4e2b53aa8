----------------------------- MODULE Engine_proofs -----------------------------
(***************************************************************************)
(* What the audio thread puts in the capture ring, for every period the    *)
(* driver may settle on, every delay, every length of the delay line and   *)
(* every bound: one index of the ring is one instant on every column,      *)
(* pings and the sinks' rings are on that axis, and the ring is fed as     *)
(* RingFeed promises.                                                      *)
(*                                                                         *)
(* The inductive invariant adds to the properties what holds between them: *)
(* which slot of the delay line holds which frame, where a ping logged     *)
(* under the present delay will be, which generation the ring's last frame *)
(* has while the card is away, and how much time was lost so far.          *)
(***************************************************************************)
EXTENDS Engine, SequenceTheorems, TLAPS

Instant == Nat

Entry ==
  [live : Instant, local : Instant \cup {Silent}, placed : Int, delay : 0 .. LineLen - 1,
   period : Nat \ {0}, since : Nat, gen : Nat]

Line ==
  [frames : 0 .. LineLen - 1, pos : 0 .. LineLen - 1, since : Nat,
   held : [0 .. LineLen - 1 -> Instant \cup {Silent}]]

\* Where the block in hand is not in the ring yet, where it is, and where there is a
\* stream at all.
InHand == {"sync", "ring"}
InRing == {"render", "write"}
Streaming == InHand \cup InRing \cup {"read"}
Opening == {"openPlayback", "capture", "narrow", "configurePlayback", "link", "start", "wait"}
Places == Streaming \cup Opening \cup {"open", "recover", "close", "off"}

\* The block in hand is a period, up to the card's next frame.
BlockFollows ==
  /\ pc \in InHand \cup {"render"} => block = [i \in 1 .. period |-> instant - period + i - 1]
  /\ pc \in InHand => period <= instant
  /\ pc = "render" =>
       /\ period <= N /\ line.since <= N - period
       /\ \A i \in N - period + 1 .. N : ring[i].delay = line.frames

Types ==
  /\ TypeOK /\ running \in BOOLEAN /\ pc \in Places /\ wide \in BOOLEAN /\ instant \in Instant
  /\ asked \in [net : Delays, device : BOOLEAN] /\ line \in Line /\ ring \in Seq(Entry)
  /\ pings \in Seq([at : Nat, played : Nat \ {0}])
  /\ spent \in [xruns : 0 .. MaxXruns, opens : 0 .. MaxOpens, changes : Nat, pings : Nat]

\* What the delay line holds: the last LineLen frames put in the ring since it was
\* emptied, each in its slot, and silence in the slots none of them came to.
LineFollows ==
  /\ line.since <= N
  /\ \A i \in Indices : ring[i].since < i
  /\ line.frames > 0 =>
       /\ line.pos = (N - line.since) % LineLen
       /\ \A j \in line.since + 1 .. N :
            N - j < LineLen => line.held[(j - line.since - 1) % LineLen] = ring[j].live
       /\ \A k \in 0 .. LineLen - 1 : N - line.since <= k => line.held[k] = Silent

\* A ping logged under the delay in force, or found again in a frame of its time, was
\* logged one such delay after it was played.
PingsFollow ==
  \A k \in DOMAIN pings :
    LET p == pings[k]
    IN /\ p.played <= N /\ p.played <= p.at
       /\ line.since < p.played => line.frames = p.at - p.played
       /\ \A i \in p.played .. N :
            ring[i].since < p.played => ring[i].delay = p.at - p.played

SinksFollow == pc # "render" /\ sink \notin {Unwired, 0} => sink = N

\* The next frame of the card that the ring is to have.
Upcoming == IF pc \in InHand THEN instant - period ELSE instant

\* The ring's last frame is of an earlier generation.
Marked == N > 0 => ring[N].gen < gen

GenFollows ==
  /\ N > 0 => ring[N].gen <= gen /\ ring[N].live < Upcoming
  /\ pc \in Opening => Marked
  /\ pc \in {"open", "close"} /\ running => Marked
  /\ pc \in Streaming =>
       \/ Marked
       \/ Upcoming = ring[N].live + 1 /\ line.frames = ring[N].delay

\* Time is lost by the frame at each xrun and at each closing of the card.
Lost ==
  (MaxXruns - spent.xruns) + (MaxOpens - spent.opens)
    - (IF pc \in {"open", "wait", "off"} THEN 0 ELSE 1)

TimeFollows ==
  /\ Upcoming - N \in 0 .. Lost
  /\ pc \in InHand => N < MaxFrames

EngineIInv ==
  Types /\ BlockFollows /\ LineFollows /\ OneAxis /\ PingsFollow /\ SinksFollow /\ GenFollows /\ TimeFollows

----------------------------------------------------------------------------
(* The constants, and the arithmetic of a line that turns over.            *)

LEMMA ConstantsFit ==
  /\ LineLen \in Nat /\ LineLen >= 2 /\ Delays \subseteq Nat /\ 0 \in Delays /\ DeviceDelay \in Nat
  /\ Periods \subseteq Nat \ {0} /\ \A p \in Periods : p <= LineLen
  /\ MaxFrames \in Nat /\ MaxXruns \in Nat /\ MaxOpens \in Nat /\ MaxChanges \in Nat /\ MaxPings \in Nat
<1>1. /\ Periods # {} /\ Periods \subseteq Nat \ {0} /\ Delays \subseteq Nat /\ 0 \in Delays
      /\ DeviceDelay \in Nat \ {0} /\ LineLen \in Nat
      /\ \A p \in Periods, d \in Delays \cup {DeviceDelay} : d + p <= LineLen
      /\ {MaxFrames, MaxXruns, MaxOpens, MaxChanges, MaxPings} \subseteq Nat
  BY EngineAssumption DEF EngineAssumption
<1>2. \A p \in Periods : 0 + p <= LineLen /\ DeviceDelay + p <= LineLen
  BY <1>1
<1>3. PICK p \in Periods : TRUE
  BY <1>1
<1>4. LineLen >= 2
  BY <1>1, <1>2, <1>3
<1>5. MaxFrames \in Nat /\ MaxXruns \in Nat /\ MaxOpens \in Nat /\ MaxChanges \in Nat /\ MaxPings \in Nat
  BY <1>1
<1>6. \A q \in Periods : q <= LineLen
  BY <1>1, <1>2
<1> QED BY <1>1, <1>4, <1>5, <1>6

\* Two multiples of a number do not differ by less than it.
LEMMA MultiplesAreApart ==
  ASSUME NEW m \in Nat \ {0}, NEW p \in Int, NEW q \in Int, NEW d \in 1 .. m - 1
  PROVE  p * m # q * m + d
<1> SUFFICES ASSUME p * m = q * m + d PROVE FALSE
  OBVIOUS
<1>1. (p - q) * m = d
  BY SMT
<1>2. p - q <= 0 \/ p - q >= 1
  BY SMT
<1>3. CASE p - q <= 0
  <2>1. (p - q) * m <= 0
    BY <1>3, SMT
  <2> QED BY <1>1, <2>1
<1>4. CASE p - q >= 1
  <2>1. (p - q) * m >= m
    BY <1>4, SMT
  <2> QED BY <1>1, <2>1
<1> QED BY <1>2, <1>3, <1>4

\* What % computes: the remainder of a division.
LEMMA ModDivides ==
  ASSUME NEW n \in Nat, NEW m \in Nat \ {0}
  PROVE  /\ n % m \in 0 .. m - 1
         /\ \E q \in Int : n = q * m + (n % m)
<1>1. n = (n \div m) * m + (n % m) /\ n \div m \in Int /\ n % m \in 0 .. m - 1
  OBVIOUS
<1> QED BY <1>1

\* There is only one such remainder.
LEMMA ModIsUnique ==
  ASSUME NEW n \in Nat, NEW m \in Nat \ {0}, NEW q \in Int, NEW r \in 0 .. m - 1, n = q * m + r
  PROVE  n % m = r
<1>1. PICK p \in Int : n = p * m + (n % m)
  BY ModDivides
<1> DEFINE s == n % m
           P == p * m
           Q == q * m
<1>2. s \in 0 .. m - 1 /\ P \in Int /\ Q \in Int /\ P + s = Q + r
  BY <1>1, ModDivides
<1>3. P # Q + (r - s) \/ ~(r - s \in 1 .. m - 1)
  BY MultiplesAreApart
<1>4. Q # P + (s - r) \/ ~(s - r \in 1 .. m - 1)
  BY MultiplesAreApart
<1> HIDE DEF s, P, Q
<1>5. s = r
  BY <1>2, <1>3, <1>4
<1> QED BY <1>5 DEF s

LEMMA ModSmall ==
  ASSUME NEW m \in Nat \ {0}, NEW n \in 0 .. m - 1
  PROVE  n % m = n
<1>1. n = 0 * m + n
  OBVIOUS
<1> QED BY <1>1, ModIsUnique

\* A remainder may be taken before a sum as well as after it.
LEMMA ModSum ==
  ASSUME NEW a \in Nat, NEW b \in Nat, NEW m \in Nat \ {0}
  PROVE  ((a % m) + b) % m = (a + b) % m
<1>1. PICK q \in Int : a = q * m + (a % m)
  BY ModDivides
<1> DEFINE r == a % m
<1>2. r \in 0 .. m - 1
  BY ModDivides
<1> HIDE DEF r
<1>3. r + b \in Nat
  BY <1>2
<1>4. PICK p \in Int : r + b = p * m + ((r + b) % m)
  BY <1>3, ModDivides
<1> DEFINE t == (r + b) % m
<1>5. t \in 0 .. m - 1
  BY <1>3, ModDivides
<1> HIDE DEF t
<1>6. a = q * m + r /\ r + b = p * m + t
  BY <1>1, <1>4 DEF r, t
<1>7. a + b = (q + p) * m + t
  BY <1>2, <1>5, <1>6
<1>8. PICK k \in Int, n \in Nat : k = q + p /\ n = a + b
  OBVIOUS
<1>9. n = k * m + t
  BY <1>7, <1>8
<1>10. n % m = t
  BY <1>5, <1>9, ModIsUnique
<1> QED BY <1>8, <1>10 DEF r, t

\* One turn leads back to the same remainder.
LEMMA ModTurn ==
  ASSUME NEW n \in Nat, NEW m \in Nat \ {0}
  PROVE  (n + m) % m = n % m
<1>1. PICK q \in Int : n = q * m + (n % m)
  BY ModDivides
<1> DEFINE r == n % m
<1>2. r \in 0 .. m - 1
  BY ModDivides
<1>3. n = q * m + r
  BY <1>1
<1> HIDE DEF r
<1>4. n + m = (q + 1) * m + r
  BY <1>2, <1>3
<1>5. PICK k \in Int, t \in Nat : k = q + 1 /\ t = n + m
  OBVIOUS
<1>6. t = k * m + r
  BY <1>4, <1>5
<1>7. t % m = r
  BY <1>2, <1>6, ModIsUnique
<1> QED BY <1>5, <1>7 DEF r

\* Numbers nearer to each other than the divisor have remainders of their own.
LEMMA ModNear ==
  ASSUME NEW i \in Nat, NEW j \in Nat, NEW m \in Nat \ {0}, i < j, j - i < m
  PROVE  i % m # j % m
<1> SUFFICES ASSUME i % m = j % m PROVE FALSE
  OBVIOUS
<1>1. PICK p \in Int : i = p * m + (i % m)
  BY ModDivides
<1>2. PICK q \in Int : j = q * m + (j % m)
  BY ModDivides
<1> DEFINE P == p * m
           Q == q * m
           r == i % m
<1>3. P \in Int /\ Q \in Int /\ r \in 0 .. m - 1
  BY ModDivides
<1>4. i = P + r /\ j = Q + r
  BY <1>1, <1>2
<1>5. ~(j - i \in 1 .. m - 1) \/ Q # P + (j - i)
  BY MultiplesAreApart
<1> HIDE DEF P, Q, r
<1> QED BY <1>3, <1>4, <1>5

\* What is put behind a sequence.
LEMMA Concatenation ==
  ASSUME NEW S, NEW s \in Seq(S), NEW n \in Nat, NEW f \in [1 .. n -> S]
  PROVE  /\ s \o f \in Seq(S) /\ Len(s \o f) = Len(s) + n
         /\ \A i \in 1 .. Len(s) : (s \o f)[i] = s[i]
         /\ \A i \in 1 .. n : (s \o f)[Len(s) + i] = f[i]
<1>1. f \in Seq(S) /\ Len(f) = n
  OBVIOUS
<1> QED BY <1>1

----------------------------------------------------------------------------
(* The block in hand, and the ring it goes to.                             *)

LEMMA PeriodFits ==
  ASSUME Types
  PROVE  period \in Nat \ {0} /\ period <= LineLen
BY ConstantsFit DEF Types, TypeOK

LEMMA BlockIsAPeriod ==
  ASSUME Types, BlockFollows, pc \in InHand \cup {"render"}
  PROVE  /\ Len(block) = period
         /\ \A i \in 1 .. period : block[i] = instant - period + i - 1
         /\ pc \in InHand => \A i \in 1 .. period : block[i] \in Instant
<1> period \in Nat \ {0} /\ instant \in Nat
  BY PeriodFits DEF Types, Instant
<1>1. block = [i \in 1 .. period |-> instant - period + i - 1]
  BY DEF BlockFollows
<1>2. pc \in InHand => period <= instant
  BY DEF BlockFollows
<1> QED BY <1>1, <1>2 DEF Instant

LEMMA SlotIsInLine ==
  ASSUME Types, NEW i \in Nat
  PROVE  Slot(i) \in 0 .. LineLen - 1
<1>1. line.pos \in Nat /\ LineLen \in Nat \ {0}
  BY ConstantsFit DEF Types, Line
<1>2. PICK n \in Nat : n = line.pos + i
  BY <1>1
<1>3. n % LineLen \in 0 .. LineLen - 1
  BY <1>1, ModDivides
<1> QED BY <1>2, <1>3 DEF Slot

\* The i-th frame of the block, as WriteRing puts it in the ring.
Made(i) ==
  [live |-> block[i], local |-> IF line.frames = 0 THEN block[i] ELSE Held(i),
   placed |-> Placed(i), delay |-> line.frames, period |-> Len(block),
   since |-> line.since, gen |-> gen]

LEMMA MadeIsAnEntry ==
  ASSUME Types, BlockFollows, pc = "ring", NEW i \in 1 .. period
  PROVE  Made(i) \in Entry
<1>1. block[i] \in Instant /\ Len(block) = period /\ period \in Nat \ {0} /\ period <= LineLen
  BY BlockIsAPeriod, PeriodFits DEF InHand
<1>2. line.frames \in 0 .. LineLen - 1 /\ line.since \in Nat /\ gen \in Nat /\ N \in Nat
  BY DEF Types, TypeOK, Line, N
<1>3. Held(i) \in Instant \cup {Silent}
  <2>1. i - 1 - line.frames + LineLen \in Nat
    BY <1>1, <1>2, ConstantsFit
  <2>2. Slot(i - 1 - line.frames + LineLen) \in 0 .. LineLen - 1
    BY <2>1, SlotIsInLine
  <2> QED BY <2>2 DEF Held, Types, Line
<1>4. Placed(i) \in Int
  BY <1>1, <1>2 DEF Placed, Unplaced
<1> QED BY <1>1, <1>2, <1>3, <1>4 DEF Made, Entry

LEMMA RingGrows ==
  ASSUME Types, BlockFollows, WriteRing
  PROVE  /\ pc = "ring" /\ ring' \in Seq(Entry) /\ N' = N + period
         /\ \A i \in Indices : ring'[i] = ring[i]
         /\ \A i \in 1 .. period : ring'[N + i] = Made(i)
<1> DEFINE f == [i \in 1 .. period |-> Made(i)]
<1>1. pc = "ring" /\ Len(block) = period /\ period \in Nat
  BY BlockIsAPeriod, PeriodFits DEF InHand, WriteRing
<1>2. ring' = ring \o f
  BY <1>1 DEF WriteRing, Made
<1>3. f \in [1 .. period -> Entry]
  BY <1>1, MadeIsAnEntry
<1>4. ring \in Seq(Entry)
  BY DEF Types
<1> HIDE DEF f
<1>5. /\ ring \o f \in Seq(Entry) /\ Len(ring \o f) = Len(ring) + period
      /\ \A i \in 1 .. Len(ring) : (ring \o f)[i] = ring[i]
      /\ \A i \in 1 .. period : (ring \o f)[Len(ring) + i] = f[i]
  BY <1>1, <1>3, <1>4, Concatenation
<1>6. \A i \in 1 .. period : f[i] = Made(i)
  BY DEF f
<1> QED BY <1>1, <1>2, <1>5, <1>6 DEF N, Indices

----------------------------------------------------------------------------
(* The types, and which PCMs are open.                                     *)

\* The steps of the card's opening and closing that leave the line alone, and what they
\* have in common.
CardStep ==
  \/ OpenCapture \/ OpenPlayback \/ ConfigureCapture \/ OpenNarrow \/ ConfigurePlayback
  \/ Start \/ Read \/ Xrun \/ StreamEnds \/ Close \/ Waited \/ Ends \/ Write \/ Stop

LEMMA CardStepsKeepTheRing ==
  ASSUME CardStep
  PROVE  UNCHANGED <<asked, axis, out>>
<1>1. ASSUME OpenCapture PROVE UNCHANGED <<asked, axis, out>>
  BY <1>1 DEF OpenCapture
<1>2. ASSUME OpenPlayback \/ ConfigureCapture \/ OpenNarrow \/ ConfigurePlayback PROVE UNCHANGED <<asked, axis, out>>
  BY <1>2 DEF OpenPlayback, ConfigureCapture, OpenNarrow, ConfigurePlayback
<1>3. ASSUME Start \/ Read \/ Xrun \/ StreamEnds PROVE UNCHANGED <<asked, axis, out>>
  BY <1>3 DEF Start, Read, Xrun, StreamEnds
<1>4. ASSUME Close \/ Waited \/ Ends \/ Write \/ Stop PROVE UNCHANGED <<asked, axis, out>>
  BY <1>4 DEF Close, Waited, Ends, Write, Stop
<1> QED BY <1>1, <1>2, <1>3, <1>4 DEF CardStep

LEMMA WantedFits ==
  ASSUME Types
  PROVE  Wanted \in 0 .. LineLen - 1
<1>0. asked.net \in Delays
  BY DEF Types
<1>a. Delays \subseteq Nat
  BY ConstantsFit
<1>b. DeviceDelay \in Nat /\ LineLen \in Nat /\ LineLen >= 2
  BY ConstantsFit
<1>c. asked.net \in Nat
  BY <1>0, <1>a
<1>1. asked.net \in Nat /\ DeviceDelay \in Nat /\ LineLen - 1 \in Nat
  BY <1>b, <1>c
<1>2. AtLeast(asked.net, DeviceDelay) \in Nat
  BY <1>1 DEF AtLeast
<1> QED BY <1>1, <1>2 DEF Wanted, AtMost

LEMMA NoDelayIsALine ==
  ASSUME NEW n \in Nat, NEW f \in 0 .. LineLen - 1
  PROVE  /\ NoDelay \in Line /\ NoDelay.frames = 0 /\ NoDelay.pos = 0
         /\ \A k \in 0 .. LineLen - 1 : NoDelay.held[k] = Silent
         /\ [NoDelay EXCEPT !.since = n] \in Line
         /\ [NoDelay EXCEPT !.frames = f, !.since = n] \in Line
<1> DEFINE Empty == [i \in 0 .. LineLen - 1 |-> Silent]
<1>1. Empty \in [0 .. LineLen - 1 -> Instant \cup {Silent}] /\ 0 \in 0 .. LineLen - 1
  BY ConstantsFit
<1>2. NoDelay \in Line /\ NoDelay.frames = 0 /\ NoDelay.pos = 0 /\ NoDelay.held = Empty
  BY <1>1 DEF NoDelay, Line
<1>3. \A k \in 0 .. LineLen - 1 : NoDelay.held[k] = Silent
  BY <1>2
<1>4. /\ [NoDelay EXCEPT !.since = n] \in Line
      /\ [NoDelay EXCEPT !.frames = f, !.since = n] \in Line
  BY <1>2 DEF Line
<1> QED BY <1>2, <1>3, <1>4

\* The line begins again, with nothing in it, at the ring's present end.
Emptied(f) ==
  /\ line' \in Line /\ line'.frames = f /\ line'.pos = 0 /\ line'.since = N
  /\ \A k \in 0 .. LineLen - 1 : line'.held[k] = Silent

LEMMA LinkEmptiesTheLine ==
  ASSUME Types, Link
  PROVE  line' = line \/ Emptied(0)
<1> N \in Nat
  BY DEF Types, N
<1>1. CASE UNCHANGED line
  BY <1>1
<1>2. CASE line' = [NoDelay EXCEPT !.since = N]
  <2>1. 0 \in 0 .. LineLen - 1
    BY ConstantsFit
  <2>2. /\ NoDelay.frames = 0 /\ NoDelay.pos = 0 /\ line' \in Line
        /\ \A k \in 0 .. LineLen - 1 : NoDelay.held[k] = Silent
    BY <1>2, <2>1, NoDelayIsALine
  <2>3. line'.frames = NoDelay.frames /\ line'.pos = NoDelay.pos /\ line'.held = NoDelay.held
    BY <1>2, <2>2 DEF NoDelay
  <2>4. line'.since = N
    BY <1>2 DEF NoDelay
  <2> QED BY <2>2, <2>3, <2>4 DEF Emptied
<1> QED BY <1>1, <1>2 DEF Link

LEMMA SyncEmptiesTheLine ==
  ASSUME Types, Sync
  PROVE  \/ UNCHANGED axis /\ line.frames = Wanted
         \/ Emptied(Wanted) /\ gen' = gen + 1 /\ told' = Wanted
<1> N \in Nat
  BY DEF Types, N
<1>1. CASE Wanted = line.frames
  BY <1>1 DEF Sync
<1>2. CASE Wanted # line.frames
  <2>1. line' = [NoDelay EXCEPT !.frames = Wanted, !.since = N] /\ gen' = gen + 1 /\ told' = Wanted
    BY <1>2 DEF Sync
  <2>2. /\ NoDelay.frames = 0 /\ NoDelay.pos = 0 /\ line' \in Line
        /\ \A k \in 0 .. LineLen - 1 : NoDelay.held[k] = Silent
    BY <2>1, WantedFits, NoDelayIsALine
  <2> HIDE DEF Wanted
  <2>3. line'.pos = NoDelay.pos /\ line'.held = NoDelay.held
    BY <2>1, <2>2 DEF NoDelay
  <2>4. line'.since = N /\ line'.frames = Wanted
    BY <2>1 DEF NoDelay
  <2> QED BY <2>1, <2>2, <2>3, <2>4 DEF Emptied
<1> QED BY <1>1, <1>2

LEMMA PushedIsALine ==
  ASSUME Types, BlockFollows, pc = "ring"
  PROVE  /\ Pushed \in Line /\ Pushed.frames = line.frames /\ Pushed.since = line.since
         /\ Pushed.pos = Slot(period)
         /\ \A k \in 0 .. LineLen - 1 :
              \/ /\ \A i \in 1 .. period : Slot(i - 1) # k
                 /\ Pushed.held[k] = line.held[k]
              \/ \E i \in 1 .. period : Slot(i - 1) = k /\ Pushed.held[k] = block[i]
<1>1. Len(block) = period /\ period \in Nat /\ \A i \in 1 .. period : block[i] \in Instant
  BY BlockIsAPeriod, PeriodFits DEF InHand
<1> DEFINE held == [k \in 0 .. LineLen - 1 |->
             IF \E i \in 1 .. Len(block) : Slot(i - 1) = k
               THEN block[CHOOSE i \in 1 .. Len(block) : Slot(i - 1) = k] ELSE line.held[k]]
           pos == Slot(Len(block))
<1>2. pos = Slot(period) /\ pos \in 0 .. LineLen - 1
  BY <1>1, SlotIsInLine
<1>3. ASSUME NEW k \in 0 .. LineLen - 1
      PROVE  \/ /\ \A i \in 1 .. period : Slot(i - 1) # k
                /\ held[k] = line.held[k]
             \/ \E i \in 1 .. period : Slot(i - 1) = k /\ held[k] = block[i]
  BY <1>1
<1>4. \A k \in 0 .. LineLen - 1 : line.held[k] \in Instant \cup {Silent}
  BY DEF Types, Line
<1>5. held \in [0 .. LineLen - 1 -> Instant \cup {Silent}]
  <2>1. \A k \in 0 .. LineLen - 1 : held[k] \in Instant \cup {Silent}
    BY <1>1, <1>3, <1>4
  <2> QED BY <2>1
<1>6. Pushed = [line EXCEPT !.pos = pos, !.held = held]
  BY DEF Pushed
<1> HIDE DEF held, pos
<1>7. line \in Line
  BY DEF Types
<1>8. /\ Pushed \in Line /\ Pushed.frames = line.frames /\ Pushed.since = line.since
      /\ Pushed.pos = pos /\ Pushed.held = held
  BY <1>2, <1>5, <1>6, <1>7 DEF Line
<1> QED BY <1>2, <1>3, <1>8

LEMMA Starts ==
  ASSUME Init
  PROVE  EngineIInv
<1> USE ConstantsFit
<1> N = 0
  BY DEF Init, N
<1>1. Types
  <2>1. line \in Line /\ line.frames = 0 /\ line.pos = 0 /\ line.since = 0
    <3>0. 0 \in Nat /\ 0 \in 0 .. LineLen - 1
      OBVIOUS
    <3>1. NoDelay \in Line
      BY <3>0, NoDelayIsALine
    <3> QED BY <3>1 DEF Init, NoDelay
  <2>2. TypeOK
    BY <2>1 DEF Init, TypeOK, Unwired
  <2>3. /\ running \in BOOLEAN /\ pc \in Places /\ wide \in BOOLEAN /\ instant \in Instant
        /\ asked \in [net : Delays, device : BOOLEAN] /\ ring \in Seq(Entry)
        /\ pings \in Seq([at : Nat, played : Nat \ {0}])
    BY DEF Init, Places, Instant
  <2>4. spent \in [xruns : 0 .. MaxXruns, opens : 0 .. MaxOpens, changes : Nat, pings : Nat]
    BY DEF Init
  <2> QED BY <2>1, <2>2, <2>3, <2>4 DEF Types
<1>2. BlockFollows
  BY DEF Init, BlockFollows, InHand
<1>3. LineFollows
  BY DEF Init, LineFollows, NoDelay, Indices
<1>4. OneAxis /\ SinksFollow
  BY DEF Init, OneAxis, Indices, SinksFollow
<1>5. PingsFollow
  BY DEF Init, PingsFollow
<1>6. GenFollows
  BY DEF Init, GenFollows, Marked, Streaming, Opening, InHand, InRing
<1>7. TimeFollows
  BY DEF Init, TimeFollows, Upcoming, InHand, Lost
<1> QED BY <1>1, <1>2, <1>3, <1>4, <1>5, <1>6, <1>7 DEF EngineIInv

LEMMA SpentFits ==
  ASSUME Types, NEW w \in {"xruns", "opens", "changes", "pings"}, Spends(w)
  PROVE  /\ spent' \in [xruns : 0 .. MaxXruns, opens : 0 .. MaxOpens, changes : Nat, pings : Nat]
         /\ spent'.xruns = IF w = "xruns" THEN spent.xruns - 1 ELSE spent.xruns
         /\ spent'.opens = IF w = "opens" THEN spent.opens - 1 ELSE spent.opens
<1>1. spent \in [xruns : 0 .. MaxXruns, opens : 0 .. MaxOpens, changes : Nat, pings : Nat]
  BY DEF Types
<1>2. spent[w] > 0 /\ spent' = [spent EXCEPT ![w] = @ - 1]
  BY DEF Spends
<1>3. CASE w = "xruns"
  BY <1>1, <1>2, <1>3, ConstantsFit
<1>4. CASE w = "opens"
  BY <1>1, <1>2, <1>4, ConstantsFit
<1>5. CASE w = "changes"
  BY <1>1, <1>2, <1>5
<1>6. CASE w = "pings"
  BY <1>1, <1>2, <1>6
<1> QED BY <1>3, <1>4, <1>5, <1>6

\* The card's own part of the types.
CardTypes ==
  /\ pcms = (CASE pc \in {"open", "wait", "off"} -> {}
               [] pc = "openPlayback" -> {"capture"}
               [] pc = "narrow" -> {"playback"}
               [] OTHER -> {"capture", "playback"})
  /\ period \in Periods /\ running \in BOOLEAN /\ pc \in Places /\ wide \in BOOLEAN
  /\ instant \in Instant

LEMMA CardTypesStep ==
  ASSUME Types, [Next]_vars
  PROVE  CardTypes'
<1> CardTypes
  BY DEF Types, TypeOK, CardTypes
<1> period \in Nat /\ 1 \in Nat
  BY PeriodFits
<1> USE DEF CardTypes, Places, Streaming, Opening, InHand, InRing, Instant
<1>1. CASE OpenCapture
  BY <1>1 DEF OpenCapture
<1>2. CASE OpenPlayback
  BY <1>2 DEF OpenPlayback, GiveUp
<1>3. CASE ConfigureCapture
  BY <1>3 DEF ConfigureCapture, GiveUp
<1>4. CASE OpenNarrow
  BY <1>4 DEF OpenNarrow, GiveUp
<1>5. CASE ConfigurePlayback
  BY <1>5 DEF ConfigurePlayback, GiveUp
<1>6. CASE Link
  BY <1>6 DEF Link, GiveUp
<1>7. CASE Start
  BY <1>7 DEF Start, GiveUp
<1>8. CASE Read
  BY <1>8 DEF Read
<1>9. CASE Xrun
  BY <1>9 DEF Xrun
<1>10. CASE Recover
  BY <1>10 DEF Recover, card
<1>11. CASE StreamEnds \/ Waited \/ Ends
  BY <1>11 DEF StreamEnds, Waited, Ends, card
<1>12. CASE Close
  BY <1>12 DEF Close
<1>13. CASE Sync
  BY <1>13 DEF Sync, card
<1>14. CASE WriteRing
  BY <1>14 DEF WriteRing, card
<1>15. CASE Render
  BY <1>15 DEF Render, card
<1>16. CASE Write
  BY <1>16 DEF Write
<1>17. CASE Stop \/ Ask \/ Wire
  BY <1>17 DEF Stop, Ask, Wire, card
<1>18. CASE UNCHANGED vars
  BY <1>18 DEF vars, card
<1> QED BY <1>1, <1>2, <1>3, <1>4, <1>5, <1>6, <1>7, <1>8, <1>9, <1>10, <1>11, <1>12, <1>13,
           <1>14, <1>15, <1>16, <1>17, <1>18 DEF Next

\* What a step is, as far as the ring, the line and what is asked for are concerned.
LEMMA StepsOfTheAxis ==
  ASSUME [Next]_vars
  PROVE  \/ UNCHANGED <<asked, axis, out>> /\ (CardStep \/ UNCHANGED vars)
         \/ Link /\ UNCHANGED <<asked, told, gen, out>>
         \/ Recover /\ UNCHANGED <<asked, line, told, out>> /\ gen' = gen + 1
         \/ Sync /\ UNCHANGED <<asked, out>>
         \/ WriteRing /\ UNCHANGED <<asked, told, gen, pings, sink>>
         \/ Render /\ UNCHANGED <<asked, axis, ring>>
         \/ Ask /\ UNCHANGED <<axis, out>>
         \/ Wire /\ UNCHANGED <<asked, axis, ring, pings>>
<1>1. CASE CardStep
  BY <1>1, CardStepsKeepTheRing
<1>2. CASE UNCHANGED vars
  BY <1>2 DEF vars
<1>3. CASE Link
  BY <1>3 DEF Link
<1>4. CASE Recover
  BY <1>4 DEF Recover
<1>5. CASE Sync
  BY <1>5 DEF Sync
<1>6. CASE WriteRing
  BY <1>6 DEF WriteRing
<1>7. CASE Render
  BY <1>7 DEF Render
<1>8. CASE Ask
  BY <1>8 DEF Ask
<1>9. CASE Wire
  BY <1>9 DEF Wire
<1> QED BY <1>1, <1>2, <1>3, <1>4, <1>5, <1>6, <1>7, <1>8, <1>9 DEF Next, CardStep

LEMMA SpentStep ==
  ASSUME Types, [Next]_vars
  PROVE  spent' \in [xruns : 0 .. MaxXruns, opens : 0 .. MaxOpens, changes : Nat, pings : Nat]
<1>1. CASE UNCHANGED spent
  BY <1>1 DEF Types
<1>2. CASE Spends("xruns") \/ Spends("opens") \/ Spends("changes") \/ Spends("pings")
  BY <1>2, SpentFits
<1>3. ASSUME OpenCapture \/ Xrun \/ Ask \/ Render
      PROVE  UNCHANGED spent \/ Spends("xruns") \/ Spends("opens") \/ Spends("changes") \/ Spends("pings")
  BY <1>3 DEF OpenCapture, Xrun, Ask, Render
<1>4. ASSUME OpenPlayback \/ ConfigureCapture \/ OpenNarrow \/ ConfigurePlayback \/ Link \/ Start \/ Read
      PROVE  UNCHANGED spent
  BY <1>4 DEF OpenPlayback, ConfigureCapture, OpenNarrow, ConfigurePlayback, Link, Start, Read
<1>5. ASSUME Recover \/ StreamEnds \/ Close \/ Waited \/ Ends \/ Sync \/ WriteRing \/ Write \/ Stop \/ Wire
      PROVE  UNCHANGED spent
  BY <1>5 DEF Recover, StreamEnds, Close, Waited, Ends, Sync, WriteRing, Write, Stop, Wire
<1>6. ASSUME UNCHANGED vars PROVE UNCHANGED spent
  BY <1>6 DEF vars
<1> QED BY <1>1, <1>2, <1>3, <1>4, <1>5, <1>6 DEF Next

\* A ping is logged at the present delay from where it is played, in the block in hand.
PingLogged ==
  \E i \in N - period + 1 .. N :
    pings' = Append(pings, [at |-> i + line.frames, played |-> i])

LEMMA RenderLogs ==
  ASSUME Types, BlockFollows, Render
  PROVE  /\ pc = "render" /\ pc' = "write" /\ sink' = (IF sink = Unwired THEN Unwired ELSE N)
         /\ PingLogged \/ UNCHANGED pings
         /\ period \in Nat \ {0} /\ period <= N
<1>1. pc = "render" /\ Len(block) = period
  BY BlockIsAPeriod DEF Render
<1>2. period \in Nat \ {0} /\ period <= N
  BY <1>1, PeriodFits DEF BlockFollows
<1>3. PingLogged \/ UNCHANGED pings
  BY <1>1 DEF Render, ShownAt, PingLogged
<1> QED BY <1>1, <1>2, <1>3 DEF Render, SinkFed

LEMMA TypesStep ==
  ASSUME Types, BlockFollows, [Next]_vars
  PROVE  Types'
<1>1. CardTypes' /\ spent' \in [xruns : 0 .. MaxXruns, opens : 0 .. MaxOpens, changes : Nat, pings : Nat]
  BY CardTypesStep, SpentStep
<1> DEFINE Ping == [at : Nat, played : Nat \ {0}]
           Asked == [net : Delays, device : BOOLEAN]
           AxisTypes == line \in Line /\ told \in 0 .. LineLen - 1 /\ gen \in Nat
           OutTypes == ring \in Seq(Entry) /\ pings \in Seq(Ping) /\ sink \in Nat \cup {Unwired}
<1>2. AxisTypes /\ OutTypes /\ asked \in Asked
  BY DEF Types, TypeOK
<1>3. N \in Nat /\ line.frames \in Nat
  BY <1>2 DEF N, Line
<1>4. AxisTypes' /\ OutTypes' /\ (asked \in Asked)'
  <2>1. CASE UNCHANGED <<asked, axis, out>>
    BY <1>2, <2>1 DEF axis, out
  <2>2. CASE Link /\ UNCHANGED <<asked, told, gen, out>>
    BY <1>2, <2>2, LinkEmptiesTheLine DEF out, Emptied
  <2>3. CASE Recover /\ UNCHANGED <<asked, line, told, out>> /\ gen' = gen + 1
    BY <1>2, <2>3 DEF out
  <2>4. CASE Sync /\ UNCHANGED <<asked, out>>
    <3>1. OutTypes' /\ (asked \in Asked)'
      BY <1>2, <2>4 DEF out
    <3>2. CASE UNCHANGED axis
      BY <1>2, <3>1, <3>2 DEF axis
    <3>3. CASE Emptied(Wanted) /\ gen' = gen + 1 /\ told' = Wanted
      BY <1>2, <3>1, <3>3, WantedFits DEF Emptied
    <3> QED BY <2>4, <3>2, <3>3, SyncEmptiesTheLine
  <2>5. CASE WriteRing /\ UNCHANGED <<asked, told, gen, pings, sink>>
    <3>1. ring' \in Seq(Entry) /\ pc = "ring"
      BY <2>5, RingGrows
    <3>2. line' \in Line
      BY <1>2, <2>5, <3>1, PushedIsALine DEF WriteRing
    <3> QED BY <1>2, <2>5, <3>1, <3>2
  <2>6. CASE Render /\ UNCHANGED <<asked, axis, ring>>
    <3>1. sink' \in Nat \cup {Unwired} /\ period \in Nat \ {0} /\ period <= N
      BY <1>2, <1>3, <2>6, RenderLogs
    <3>2. pings' \in Seq(Ping)
      <4>1. CASE UNCHANGED pings
        BY <1>2, <4>1
      <4>2. CASE PingLogged
        <5>1. PICK i \in N - period + 1 .. N : pings' = Append(pings, [at |-> i + line.frames, played |-> i])
          BY <4>2 DEF PingLogged
        <5>2. [at |-> i + line.frames, played |-> i] \in Ping
          BY <1>3, <3>1, <5>1
        <5> QED BY <1>2, <5>1, <5>2
      <4> QED BY <2>6, <4>1, <4>2, RenderLogs
    <3> QED BY <1>2, <2>6, <3>1, <3>2 DEF axis
  <2>7. CASE Ask /\ UNCHANGED <<axis, out>>
    <3>1. asked' \in Asked
      BY <1>2, <2>7 DEF Ask
    <3> QED BY <1>2, <2>7, <3>1 DEF axis, out
  <2>8. CASE Wire /\ UNCHANGED <<asked, axis, ring, pings>>
    BY <1>2, <2>8 DEF Wire, axis
  <2> QED BY <2>1, <2>2, <2>3, <2>4, <2>5, <2>6, <2>7, <2>8, StepsOfTheAxis
<1>5. TypeOK'
  <2>1. (line.frames \in 0 .. LineLen - 1 /\ line.pos \in 0 .. LineLen - 1)'
    BY <1>4 DEF Line
  <2> QED BY <1>1, <1>4, <2>1 DEF TypeOK, CardTypes
<1> QED BY <1>1, <1>4, <1>5 DEF Types, CardTypes

----------------------------------------------------------------------------
(* The block, and what the line holds.                                     *)

\* The steps that neither take a block nor have one in hand.
LEMMA StepsWithoutABlock ==
  ASSUME \/ OpenCapture \/ OpenPlayback \/ ConfigureCapture \/ OpenNarrow \/ ConfigurePlayback
         \/ Link \/ Start \/ Xrun \/ Recover \/ StreamEnds \/ Close \/ Waited \/ Ends \/ Render \/ Write
  PROVE  pc' \notin InHand \cup {"render"}
<1> USE DEF InHand
<1>1. ASSUME OpenCapture \/ OpenPlayback \/ ConfigureCapture \/ OpenNarrow
      PROVE pc' \notin InHand \cup {"render"}
  BY <1>1 DEF OpenCapture, OpenPlayback, ConfigureCapture, OpenNarrow, GiveUp
<1>2. ASSUME ConfigurePlayback \/ Link \/ Start \/ Xrun \/ Recover
      PROVE pc' \notin InHand \cup {"render"}
  BY <1>2 DEF ConfigurePlayback, Link, Start, Xrun, Recover, GiveUp
<1>3. ASSUME StreamEnds \/ Close \/ Waited \/ Ends \/ Render \/ Write
      PROVE pc' \notin InHand \cup {"render"}
  BY <1>3 DEF StreamEnds, Close, Waited, Ends, Render, Write
<1> QED BY <1>1, <1>2, <1>3

LEMMA BlockStep ==
  ASSUME Types, BlockFollows, LineFollows, [Next]_vars
  PROVE  BlockFollows'
<1> period \in Nat \ {0} /\ instant \in Nat /\ N \in Nat
  BY PeriodFits DEF Types, Instant, N
<1>1. CASE pc' \notin InHand \cup {"render"}
  BY <1>1 DEF BlockFollows
<1>2. CASE Read
  <2>1. /\ pc' = "sync" /\ block' = [i \in 1 .. period |-> instant + i - 1]
        /\ instant' = instant + period /\ period' = period
    BY <1>2 DEF Read
  <2>2. block' = [i \in 1 .. period' |-> instant' - period' + i - 1]
    BY <2>1
  <2> QED BY <2>1, <2>2 DEF BlockFollows
<1>3. CASE Sync
  BY <1>3 DEF Sync, card, BlockFollows, InHand
<1>4. CASE WriteRing
  <2>1. pc = "ring" /\ pc' = "render" /\ UNCHANGED card
    BY <1>4 DEF WriteRing
  <2>2. block' = [i \in 1 .. period' |-> instant' - period' + i - 1]
    BY <2>1 DEF BlockFollows, card, InHand
  <2>3. N' = N + period /\ \A i \in 1 .. period : ring'[N + i] = Made(i)
    BY <1>4, RingGrows
  <2>4. line'.since = line.since /\ line'.frames = line.frames
    BY <1>4, <2>1, PushedIsALine DEF WriteRing
  <2>a. \A i \in 1 .. period : Made(i).delay = line.frames
    BY DEF Made
  <2>5. \A i \in 1 .. period : ring'[N + i].delay = line.frames
    BY <2>3, <2>a
  <2>6. \A i \in N + 1 .. N + period : ring'[i].delay = line.frames
    <3> SUFFICES ASSUME NEW i \in N + 1 .. N + period PROVE ring'[i].delay = line.frames
      OBVIOUS
    <3>1. i - N \in 1 .. period /\ N + (i - N) = i
      OBVIOUS
    <3> QED BY <2>5, <3>1
  <2>7. period' = period /\ line.since <= N /\ line.since \in Nat
    BY <2>1 DEF card, LineFollows, Types, Line
  <2> QED BY <2>1, <2>2, <2>3, <2>4, <2>6, <2>7 DEF BlockFollows, InHand
<1>5. CASE UNCHANGED vars
  BY <1>5 DEF vars, card, axis, out, BlockFollows, N
<1>6. CASE Stop \/ Ask
  BY <1>6 DEF Stop, Ask, card, axis, out, BlockFollows, N
<1>7. CASE Wire
  BY <1>7 DEF Wire, card, axis, BlockFollows, N
<1> QED BY <1>1, <1>2, <1>3, <1>4, <1>5, <1>6, <1>7, StepsWithoutABlock DEF Next

\* The frame before the whole delay, or the silence that the line began with.
LEMMA WhatIsHeld ==
  ASSUME Types, LineFollows, line.frames > 0, NEW i \in 1 .. LineLen,
         N + i - line.frames <= N
  PROVE  Held(i) = IF N + i - line.frames > line.since THEN ring[N + i - line.frames].live ELSE Silent
<1> DEFINE s == line.since
           f == line.frames
           n == N - s
<1>1. s \in Nat /\ N \in Nat /\ s <= N /\ f \in 1 .. LineLen - 1 /\ N + i - f <= N
  BY DEF Types, Line, LineFollows, N
<1> HIDE DEF s, f
<1>2. LineLen \in Nat \ {0} /\ n \in Nat /\ i - 1 - f + LineLen \in Nat
  BY <1>1, ConstantsFit
<1>3. line.pos = n % LineLen
  BY <1>1 DEF LineFollows, s, f
<1>4. Held(i) = line.held[(n + (i - 1 - f + LineLen)) % LineLen]
  <2>1. Held(i) = line.held[((n % LineLen) + (i - 1 - f + LineLen)) % LineLen]
    BY <1>3 DEF Held, Slot, f
  <2> QED BY <1>2, <2>1, ModSum
<1>5. CASE N + i - f > s
  <2> DEFINE j == N + i - f
  <2>1. j \in s + 1 .. N /\ N - j < LineLen /\ j - s - 1 \in Nat
    BY <1>1, <1>2, <1>5
  <2>2. line.held[(j - s - 1) % LineLen] = ring[j].live
    BY <1>1, <2>1 DEF LineFollows, s, f
  <2>3. n + (i - 1 - f + LineLen) = (j - s - 1) + LineLen
    BY <1>1, <1>2
  <2>4. ((j - s - 1) + LineLen) % LineLen = (j - s - 1) % LineLen
    BY <1>2, <2>1, ModTurn
  <2>5. Held(i) = ring[j].live
    BY <1>4, <2>2, <2>3, <2>4
  <2> QED BY <1>5, <2>5 DEF s, f
<1>6. CASE ~(N + i - f > s)
  <2>1. PICK k \in Nat : k = n + (i - 1 - f + LineLen)
    BY <1>2
  <2>2. k \in 0 .. LineLen - 1 /\ N - s <= k
    BY <1>1, <1>2, <1>6, <2>1
  <2>3. k % LineLen = k
    BY <1>2, <2>2, ModSmall
  <2>4. line.held[k] = Silent
    BY <1>1, <2>2 DEF LineFollows, s, f
  <2>5. Held(i) = Silent
    BY <1>4, <2>1, <2>3, <2>4
  <2> QED BY <1>6, <2>5 DEF s, f
<1> QED BY <1>5, <1>6

\* A block goes into the slots behind the last frame's.
LEMMA PushFollows ==
  ASSUME Types, BlockFollows, LineFollows, WriteRing, line.frames > 0
  PROVE  /\ line'.pos = (N' - line.since) % LineLen
         /\ \A j \in line.since + 1 .. N' :
              N' - j < LineLen => line'.held[(j - line.since - 1) % LineLen] = ring'[j].live
         /\ \A k \in 0 .. LineLen - 1 : N' - line.since <= k => line'.held[k] = Silent
<1> DEFINE s == line.since
           n == N - s
           L == LineLen
           held == line.held
           pushed == line'.held
<1>1. s \in Nat /\ N \in Nat /\ n \in Nat /\ L \in Nat \ {0} /\ period \in 1 .. L
  <2>1. L \in Nat \ {0} /\ period \in 1 .. L
    BY PeriodFits, ConstantsFit DEF Types
  <2>2. s \in Nat /\ N \in Nat /\ s <= N
    BY DEF Types, Line, LineFollows, N
  <2> QED BY <2>1, <2>2
<1>2. line.pos = n % L
  BY <1>1 DEF LineFollows
<1>3. ASSUME NEW i \in Nat PROVE Slot(i) = (n + i) % L
  <2>1. Slot(i) = ((n % L) + i) % L
    BY <1>2 DEF Slot
  <2> QED BY <1>1, <2>1, ModSum
<1>4. pc = "ring" /\ N' = N + period /\ \A i \in Indices : ring'[i] = ring[i]
  BY RingGrows
<1>5. \A i \in 1 .. period : ring'[N + i].live = block[i]
  <2>1. \A i \in 1 .. period : Made(i).live = block[i]
    BY DEF Made
  <2> QED BY <2>1, RingGrows
<1>6. line' = Pushed
  BY DEF WriteRing
<1>7. /\ line'.pos = Slot(period)
      /\ \A k \in 0 .. L - 1 :
           \/ /\ \A i \in 1 .. period : Slot(i - 1) # k
              /\ pushed[k] = held[k]
           \/ \E i \in 1 .. period : Slot(i - 1) = k /\ pushed[k] = block[i]
  BY <1>4, <1>6, PushedIsALine
<1>8. /\ \A j \in s + 1 .. N : N - j < L => held[(j - s - 1) % L] = ring[j].live
      /\ \A k \in 0 .. L - 1 : n <= k => held[k] = Silent
  BY <1>1 DEF LineFollows
<1> HIDE DEF s, n, L, held, pushed
<1>n. n = N - s
  BY DEF n
<1>9. line'.pos = (N' - s) % L
  BY <1>1, <1>3, <1>4, <1>7, <1>n
<1>10. ASSUME NEW j \in s + 1 .. N + period, N + period - j < L
       PROVE  pushed[(j - s - 1) % L] = ring'[j].live
  <2> PICK k \in Nat : k = j - s - 1
    BY <1>1
  <2> DEFINE slot == k % L
  <2>1. slot \in 0 .. L - 1
    BY <1>1, ModDivides
  <2>2. ASSUME NEW i \in 1 .. period, Slot(i - 1) = slot
        PROVE  n + (i - 1) = k
    <3>0. PICK m \in Nat : m = n + (i - 1)
      BY <1>1
    <3>1. m % L = k % L
      <4>1. PICK o \in Nat : o = i - 1
        OBVIOUS
      <4> QED BY <1>3, <2>2, <3>0, <4>1
    <3>2. m - k < L /\ k - m < L
      BY <1>1, <1>10, <1>n, <3>0
    <3>3. ~(m < k) /\ ~(k < m)
      BY <1>1, <3>1, <3>2, ModNear
    <3> QED BY <3>0, <3>3
  <2>3. CASE j <= N
    <3>1. \A i \in 1 .. period : Slot(i - 1) # slot
      BY <1>1, <1>n, <2>2, <2>3
    <3>2. pushed[slot] = held[slot]
      BY <1>7, <2>1, <3>1
    <3>3. held[slot] = ring[j].live
      BY <1>1, <1>8, <1>10, <2>3
    <3>4. ring'[j] = ring[j]
      BY <1>1, <1>4, <2>3 DEF Indices
    <3> QED BY <3>2, <3>3, <3>4
  <2>4. CASE j > N
    <3>1. PICK i \in 1 .. period : i = j - N
      BY <1>1, <2>4
    <3>2. Slot(i - 1) = slot
      BY <1>1, <1>3, <1>n, <3>1
    <3>3. PICK o \in 1 .. period : Slot(o - 1) = slot /\ pushed[slot] = block[o]
      BY <1>7, <2>1, <3>2
    <3>4. o = i
      BY <1>1, <2>2, <3>2, <3>3
    <3>5. ring'[N + i].live = block[i] /\ N + i = j
      BY <1>1, <1>5, <3>1
    <3> QED BY <3>3, <3>4, <3>5
  <2> QED BY <1>1, <2>3, <2>4
<1>11. ASSUME NEW k \in 0 .. L - 1, N + period - s <= k
       PROVE  pushed[k] = Silent
  <2>1. \A i \in 1 .. period : Slot(i - 1) # k
    <3> SUFFICES ASSUME NEW i \in 1 .. period PROVE Slot(i - 1) # k
      OBVIOUS
    <3>1. PICK m \in Nat : m = n + (i - 1)
      BY <1>1
    <3>2. m < k /\ m \in 0 .. L - 1
      BY <1>1, <1>11, <1>n, <3>1
    <3>3. PICK o \in Nat : o = i - 1
      OBVIOUS
    <3>4. Slot(o) = m % L
      BY <1>3, <3>1, <3>3
    <3>5. m % L = m
      BY <1>1, <3>2, ModSmall
    <3> QED BY <3>2, <3>3, <3>4, <3>5
  <2>2. pushed[k] = held[k]
    BY <1>7, <2>1
  <2> QED BY <1>1, <1>8, <1>11, <1>n, <2>2
<1>12. /\ line'.pos = (N' - s) % L
       /\ \A j \in s + 1 .. N' : N' - j < L => pushed[(j - s - 1) % L] = ring'[j].live
       /\ \A k \in 0 .. L - 1 : N' - s <= k => pushed[k] = Silent
  <2>1. PICK e \in Nat : e = N + period
    BY <1>1
  <2>2. \A j \in s + 1 .. e : e - j < L => pushed[(j - s - 1) % L] = ring'[j].live
    BY <1>1, <1>10, <2>1
  <2>3. \A k \in 0 .. L - 1 : e - s <= k => pushed[k] = Silent
    BY <1>1, <1>11, <2>1
  <2> QED BY <1>4, <1>9, <2>1, <2>2, <2>3
<1> QED BY <1>12 DEF s, L, pushed

LEMMA LineStep ==
  ASSUME Types, BlockFollows, LineFollows, [Next]_vars
  PROVE  LineFollows'
<1>1. line.since <= N /\ line.since \in Nat /\ N \in Nat /\ LineLen \in Nat \ {0}
  BY ConstantsFit DEF Types, Line, LineFollows, N
<1>2. ASSUME UNCHANGED <<line, ring>> PROVE LineFollows'
  BY <1>2 DEF LineFollows, Indices, N
<1>3. ASSUME NEW f \in Nat, Emptied(f), UNCHANGED ring PROVE LineFollows'
  <2>1. N' = N /\ N - N = 0 /\ 0 % LineLen = 0
    BY <1>1, <1>3, ModSmall DEF N
  <2>2. line'.since = N /\ line'.pos = 0 /\ \A k \in 0 .. LineLen - 1 : line'.held[k] = Silent
    BY <1>3 DEF Emptied
  <2>3. \A i \in Indices' : ring'[i].since < i
    BY <1>3 DEF LineFollows, Indices, N
  <2> QED BY <1>1, <2>1, <2>2, <2>3 DEF LineFollows
<1>4. CASE WriteRing
  <2>1. /\ N' = N + period /\ period \in Nat \ {0} /\ pc = "ring"
        /\ \A i \in Indices : ring'[i] = ring[i]
        /\ \A i \in 1 .. period : ring'[N + i] = Made(i)
    BY <1>4, RingGrows, PeriodFits
  <2>2. line'.since = line.since /\ line'.frames = line.frames
    BY <1>4, <2>1, PushedIsALine DEF WriteRing
  <2>3. \A i \in Indices' : ring'[i].since < i
    <3> SUFFICES ASSUME NEW i \in 1 .. N + period PROVE ring'[i].since < i
      BY <2>1 DEF Indices
    <3>1. CASE i <= N
      BY <1>1, <2>1, <3>1 DEF LineFollows, Indices
    <3>2. CASE i > N
      <4>1. i - N \in 1 .. period /\ N + (i - N) = i
        BY <1>1, <2>1, <3>2
      <4>2. ring'[i] = Made(i - N)
        BY <2>1, <4>1
      <4>3. Made(i - N).since = line.since
        BY DEF Made
      <4> QED BY <1>1, <3>2, <4>2, <4>3
    <3> QED BY <1>1, <2>1, <3>1, <3>2
  <2>4. CASE line.frames > 0
    BY <1>1, <1>4, <2>1, <2>2, <2>3, <2>4, PushFollows DEF LineFollows
  <2>5. CASE ~(line.frames > 0)
    BY <1>1, <2>1, <2>2, <2>3, <2>5 DEF LineFollows
  <2> QED BY <2>4, <2>5
<1>5. CASE UNCHANGED <<axis, out>>
  BY <1>2, <1>5 DEF axis, out
<1>6. CASE Link /\ UNCHANGED <<asked, told, gen, out>>
  BY <1>2, <1>3, <1>6, LinkEmptiesTheLine DEF out
<1>7. CASE Recover /\ UNCHANGED <<asked, line, told, out>>
  BY <1>2, <1>7 DEF out
<1>8. CASE Sync /\ UNCHANGED <<asked, out>>
  <2>1. Wanted \in Nat
    BY <1>1, WantedFits
  <2> QED BY <1>2, <1>3, <1>8, <2>1, SyncEmptiesTheLine DEF axis, out
<1>9. CASE UNCHANGED <<axis, ring>>
  BY <1>2, <1>9 DEF axis
<1> QED BY <1>4, <1>5, <1>6, <1>7, <1>8, <1>9, StepsOfTheAxis

----------------------------------------------------------------------------
(* One axis, and what is on it.                                            *)

LEMMA WhatIsMade ==
  ASSUME NEW i
  PROVE  /\ Made(i).live = block[i] /\ Made(i).placed = Placed(i) /\ Made(i).delay = line.frames
         /\ Made(i).period = Len(block) /\ Made(i).since = line.since /\ Made(i).gen = gen
         /\ Made(i).local = (IF line.frames = 0 THEN block[i] ELSE Held(i))
BY DEF Made

\* What OneAxis says of one index.
OnAxis(i) ==
  LET e == ring[i]
  IN Whole(e) => IF e.delay = 0 \/ i - e.delay > e.since
                   THEN /\ e.local = ring[i - e.delay].live
                        /\ \/ e.placed = i - e.delay
                           \/ e.placed = Unplaced /\ i - e.delay < e.period
                   ELSE e.local = Silent

LEMMA AxisStep ==
  ASSUME Types, BlockFollows, LineFollows, OneAxis, [Next]_vars
  PROVE  OneAxis'
<1>1. \A i \in Indices : OnAxis(i)
  BY DEF OneAxis, OnAxis
<1>2. CASE UNCHANGED ring
  BY <1>2 DEF OneAxis, Indices, N, Whole
<1>3. CASE WriteRing
  <2>1. /\ N' = N + period /\ period \in Nat \ {0} /\ period <= LineLen /\ pc = "ring"
        /\ \A i \in Indices : ring'[i] = ring[i]
        /\ \A i \in 1 .. period : ring'[N + i] = Made(i)
    BY <1>3, RingGrows, PeriodFits
  <2>2. N \in Nat /\ LineLen \in Nat /\ line.frames \in Nat /\ line.since \in Nat
    BY ConstantsFit DEF N, Types, Line
  <2>3. ASSUME NEW i \in Indices PROVE OnAxis(i)'
    <3>1. OnAxis(i) /\ ring'[i] = ring[i]
      BY <1>1, <2>1, <2>3
    <3>2. ring[i].delay \in Nat /\ ring[i].since \in Nat
      <4>1. ring[i] \in Entry
        BY <2>3 DEF Types, Indices, N
      <4> QED BY <4>1, <2>2 DEF Entry
    <3>3. CASE ring[i].delay = 0 \/ i - ring[i].delay > ring[i].since
      <4>1. i - ring[i].delay \in Indices
        BY <2>2, <2>3, <3>2, <3>3 DEF Indices
      <4>2. ring'[i - ring[i].delay] = ring[i - ring[i].delay]
        BY <2>1, <4>1
      <4> QED BY <3>1, <3>3, <4>2 DEF OnAxis, Whole
    <3>4. CASE ~(ring[i].delay = 0 \/ i - ring[i].delay > ring[i].since)
      BY <3>1, <3>4 DEF OnAxis, Whole
    <3> QED BY <3>3, <3>4
  <2>4. ASSUME NEW i \in Nat, NEW k \in 1 .. period, i = N + k PROVE OnAxis(i)'
    <3> DEFINE e == Made(k)
               f == line.frames
               s == line.since
    <3>1. ring'[i] = e /\ Len(block) = period
      BY <2>1, <2>4, BlockIsAPeriod DEF InHand
    <3>2. /\ e.live = block[k] /\ e.delay = f /\ e.period = period /\ e.since = s
          /\ e.placed = (IF N < f THEN Unplaced ELSE N + k - f)
          /\ e.local = (IF f = 0 THEN block[k] ELSE Held(k))
      BY <3>1, WhatIsMade DEF Placed
    <3>3. CASE f = 0
      <4>1. i - f = i /\ N + k - f = i /\ ~(N < f)
        BY <2>2, <2>4, <3>3
      <4>2. e.local = ring'[i - f].live /\ e.placed = i - f
        BY <3>1, <3>2, <3>3, <4>1
      <4> HIDE DEF e, f
      <4> QED BY <3>1, <3>2, <3>3, <4>2 DEF OnAxis
    <3>4. CASE f > 0 /\ f >= period
      <4>1. N + k - f <= N /\ i - f = N + k - f /\ k \in 1 .. LineLen
        BY <2>1, <2>2, <2>4, <3>4
      <4>2. Held(k) = IF i - f > s THEN ring[i - f].live ELSE Silent
        BY <3>4, <4>1, WhatIsHeld
      <4>3. e.local = Held(k)
        BY <3>2, <3>4
      <4>4. i - f > s => i - f \in Indices
        BY <2>2, <4>1 DEF Indices
      <4>5. i - f > s => e.local = ring'[i - f].live
        BY <2>1, <4>2, <4>3, <4>4
      <4>6. ~(i - f > s) => e.local = Silent
        BY <4>2, <4>3
      <4>7. \/ e.placed = i - f
            \/ e.placed = Unplaced /\ i - f < period
        BY <2>1, <2>2, <2>4, <3>2, <4>1
      <4>8. f # 0
        BY <3>4
      <4> HIDE DEF e, f, s
      <4> QED BY <3>1, <3>2, <4>5, <4>6, <4>7, <4>8 DEF OnAxis
    <3>5. CASE f > 0 /\ ~(f >= period)
      <4>1. ~Whole(e)
        BY <2>2, <3>2, <3>5 DEF Whole
      <4> HIDE DEF e, f
      <4> QED BY <3>1, <4>1 DEF OnAxis, Whole
    <3> QED BY <2>2, <3>3, <3>4, <3>5
  <2>5. ASSUME NEW i \in 1 .. N + period PROVE OnAxis(i)'
    <3>1. i \in Indices \/ (i - N \in 1 .. period /\ N + (i - N) = i)
      BY <2>1, <2>2, <2>5 DEF Indices
    <3>2. CASE i \in Indices
      BY <2>3, <3>2
    <3>3. CASE i - N \in 1 .. period /\ N + (i - N) = i
      <4>1. PICK k \in 1 .. period : k = i - N
        BY <3>3
      <4>2. i \in Nat /\ i = N + k
        BY <2>2, <3>3, <4>1
      <4> QED BY <2>4, <4>2
    <3> QED BY <3>1, <3>2, <3>3
  <2> QED BY <2>1, <2>5 DEF OneAxis, OnAxis, Indices
<1> QED BY <1>2, <1>3, StepsOfTheAxis DEF out

\* What PingsFollow says of one ping.
Logged(p) ==
  /\ p.played <= N /\ p.played <= p.at
  /\ line.since < p.played => line.frames = p.at - p.played
  /\ \A i \in p.played .. N : ring[i].since < p.played => ring[i].delay = p.at - p.played

LEMMA LoggedStep ==
  ASSUME Types, BlockFollows, LineFollows, [Next]_vars,
         NEW p, p.at \in Nat, p.played \in Nat \ {0}, Logged(p)
  PROVE  Logged(p)'
<1>1. N \in Nat /\ line.since \in Nat /\ line.frames \in Nat
  BY DEF Types, Line, N
<1>2. ASSUME UNCHANGED <<line, ring>> PROVE Logged(p)'
  BY <1>2 DEF Logged, N
<1>3. ASSUME NEW f, Emptied(f), UNCHANGED ring PROVE Logged(p)'
  <2>1. line'.since = N /\ N' = N
    BY <1>3 DEF Emptied, N
  <2>2. ~(line'.since < p.played)
    BY <1>1, <2>1 DEF Logged
  <2> QED BY <1>3, <2>1, <2>2 DEF Logged
<1>4. CASE WriteRing
  <2>1. /\ N' = N + period /\ period \in Nat \ {0} /\ pc = "ring"
        /\ \A i \in Indices : ring'[i] = ring[i]
        /\ \A i \in 1 .. period : ring'[N + i] = Made(i)
    BY <1>4, RingGrows, PeriodFits
  <2>2. line'.since = line.since /\ line'.frames = line.frames
    BY <1>4, <2>1, PushedIsALine DEF WriteRing
  <2>3. ASSUME NEW i \in p.played .. N + period, ring'[i].since < p.played
        PROVE  ring'[i].delay = p.at - p.played
    <3>1. CASE i <= N
      <4>1. i \in Indices /\ i \in p.played .. N
        BY <1>1, <2>1, <3>1 DEF Indices
      <4> QED BY <2>1, <2>3, <4>1 DEF Logged
    <3>2. CASE i > N
      <4>1. PICK k \in 1 .. period : k = i - N /\ N + k = i
        BY <1>1, <2>1, <3>2
      <4>2. ring'[i] = Made(k)
        BY <2>1, <4>1
      <4>3. ring'[i].since = line.since /\ ring'[i].delay = line.frames
        BY <4>2, WhatIsMade
      <4> QED BY <2>3, <4>3 DEF Logged
    <3> QED BY <1>1, <2>1, <3>1, <3>2
  <2>4. p.played <= N + period
    BY <1>1, <2>1 DEF Logged
  <2> QED BY <2>1, <2>2, <2>3, <2>4 DEF Logged
<1>5. CASE UNCHANGED <<axis, out>>
  BY <1>2, <1>5 DEF axis, out
<1>6. CASE Link /\ UNCHANGED <<asked, told, gen, out>>
  BY <1>2, <1>3, <1>6, LinkEmptiesTheLine DEF out
<1>7. CASE Recover /\ UNCHANGED <<asked, line, told, out>>
  BY <1>2, <1>7 DEF out
<1>8. CASE Sync /\ UNCHANGED <<asked, out>>
  BY <1>2, <1>3, <1>8, SyncEmptiesTheLine DEF axis, out
<1>9. CASE UNCHANGED <<axis, ring>>
  BY <1>2, <1>9 DEF axis
<1> QED BY <1>4, <1>5, <1>6, <1>7, <1>8, <1>9, StepsOfTheAxis

LEMMA PingsStep ==
  ASSUME Types, BlockFollows, LineFollows, PingsFollow, [Next]_vars
  PROVE  PingsFollow'
<1> DEFINE Ping == [at : Nat, played : Nat \ {0}]
<1>1. pings \in Seq(Ping) /\ pings' \in Seq(Ping)
  BY TypesStep DEF Types
<1>2. ASSUME NEW p \in Ping, NEW k \in DOMAIN pings, p = pings[k] PROVE Logged(p)'
  <2>1. Logged(p)
    BY <1>2 DEF PingsFollow, Logged
  <2>2. p.at \in Nat /\ p.played \in Nat \ {0}
    OBVIOUS
  <2> QED BY <2>1, <2>2, LoggedStep
<1>3. ASSUME NEW p \in Ping, PingLogged, Render, UNCHANGED <<axis, ring>>,
             NEW i \in N - period + 1 .. N, p = [at |-> i + line.frames, played |-> i]
      PROVE  Logged(p)'
  <2>1. N' = N /\ ring' = ring /\ line' = line /\ pc = "render"
    BY <1>3, RenderLogs DEF axis, N
  <2>2. /\ period <= N /\ line.since <= N - period
        /\ \A j \in N - period + 1 .. N : ring[j].delay = line.frames
    BY <2>1 DEF BlockFollows
  <2>3. N \in Nat /\ period \in Nat /\ line.frames \in Nat /\ line.since \in Nat
    BY PeriodFits DEF Types, Line, N
  <2>4. p.played = i /\ p.at = i + line.frames /\ p.at - p.played = line.frames
    BY <1>3, <2>3
  <2> QED BY <2>1, <2>2, <2>3, <2>4 DEF Logged
<1>4. ASSUME NEW k \in DOMAIN pings', NEW p \in Ping, p = pings'[k] PROVE Logged(p)'
  <2>1. CASE UNCHANGED pings
    BY <1>2, <1>4, <2>1
  <2>2. CASE PingLogged /\ Render /\ UNCHANGED <<axis, ring>>
    <3>1. PICK i \in N - period + 1 .. N : pings' = Append(pings, [at |-> i + line.frames, played |-> i])
      BY <2>2 DEF PingLogged
    <3> DEFINE q == [at |-> i + line.frames, played |-> i]
    <3>2. CASE k \in DOMAIN pings
      <4>1. pings'[k] = pings[k]
        BY <1>1, <3>1, <3>2
      <4> QED BY <1>2, <1>4, <3>2, <4>1
    <3>3. CASE k \notin DOMAIN pings
      <4>1. p = q
        <5> HIDE DEF q
        <5>1. pings' = Append(pings, q)
          BY <3>1 DEF q
        <5> QED BY <1>1, <1>4, <3>3, <5>1
      <4> QED BY <1>3, <2>2, <4>1
    <3> QED BY <3>2, <3>3
  <2> QED BY <2>1, <2>2, StepsOfTheAxis, RenderLogs DEF out
<1>5. \A k \in DOMAIN pings' : pings'[k] \in Ping
  <2> HIDE DEF Ping
  <2> QED BY <1>1
<1> QED BY <1>4, <1>5 DEF PingsFollow, Logged

LEMMA OnlyRenderLeavesRender ==
  ASSUME CardStep \/ Link \/ Recover \/ Sync \/ WriteRing, pc = "render"
  PROVE  pc' = "render"
<1>1. ASSUME OpenCapture \/ OpenPlayback \/ ConfigureCapture \/ OpenNarrow \/ ConfigurePlayback PROVE FALSE
  BY <1>1 DEF OpenCapture, OpenPlayback, ConfigureCapture, OpenNarrow, ConfigurePlayback
<1>2. ASSUME Link \/ Start \/ Read \/ Xrun \/ Recover PROVE FALSE
  BY <1>2 DEF Link, Start, Read, Xrun, Recover
<1>3. ASSUME StreamEnds \/ Close \/ Waited \/ Ends \/ Write \/ Sync \/ WriteRing PROVE FALSE
  BY <1>3 DEF StreamEnds, Close, Waited, Ends, Write, Sync, WriteRing
<1>4. ASSUME Stop PROVE pc' = pc
  BY <1>4 DEF Stop
<1> QED BY <1>1, <1>2, <1>3, <1>4 DEF CardStep

LEMMA SinksStep ==
  ASSUME Types, BlockFollows, SinksFollow, [Next]_vars
  PROVE  SinksFollow'
<1>1. CASE WriteRing
  BY <1>1 DEF WriteRing, SinksFollow
<1>2. CASE Render /\ UNCHANGED <<asked, axis, ring>>
  BY <1>2, RenderLogs DEF SinksFollow, N
<1>3. CASE Wire /\ UNCHANGED <<asked, axis, ring, pings>>
  BY <1>3 DEF Wire, SinksFollow
<1>4. ASSUME UNCHANGED out, pc' = "render" \/ pc # "render" PROVE SinksFollow'
  BY <1>4 DEF SinksFollow, out, N
<1>5. CASE UNCHANGED vars
  BY <1>4, <1>5 DEF vars, out
<1>6. CASE Ask
  BY <1>4, <1>6 DEF Ask
<1>7. CASE UNCHANGED out /\ (CardStep \/ Link \/ Recover \/ Sync)
  BY <1>4, <1>7, OnlyRenderLeavesRender
<1> QED BY <1>1, <1>2, <1>3, <1>5, <1>6, <1>7, StepsOfTheAxis

----------------------------------------------------------------------------
(* Generations, and time.                                                  *)

\* Where the card is, and what of its time the ring is to have next, after each step
\* of the card alone.
LEMMA CardMovesOn ==
  ASSUME Types, CardStep
  PROVE  \/ /\ Upcoming' = Upcoming /\ period' = period /\ running' = running
            /\ pc = "read" /\ pc' = "sync" /\ N < MaxFrames /\ UNCHANGED spent
         \/ /\ Upcoming' = Upcoming /\ UNCHANGED <<pc, spent>> /\ running' = FALSE
         \/ /\ Upcoming' = Upcoming /\ UNCHANGED <<running, spent>>
            /\ \/ pc \in Opening \ {"start", "wait"} /\ pc' \in Opening
               \/ pc = "wait" /\ pc' = "open"
               \/ pc = "start" /\ pc' \in {"read", "wait"}
               \/ pc = "write" /\ pc' = "read"
               \/ pc = "read" /\ pc' = "close" /\ ~running
               \/ pc = "open" /\ pc' = "off"
         \/ /\ Upcoming' = Upcoming /\ Spends("opens") /\ UNCHANGED running
            /\ pc = "open" /\ running /\ pc' \in Opening
         \/ /\ Upcoming' = Upcoming + 1 /\ Spends("xruns") /\ UNCHANGED running
            /\ pc \in {"read", "write"} /\ pc' = "recover"
         \/ /\ Upcoming' = Upcoming + 1 /\ UNCHANGED <<running, spent>>
            /\ pc = "close" /\ pc' = (IF running THEN "wait" ELSE "open")
<1> period \in Nat /\ instant \in Nat
  BY PeriodFits DEF Types, Instant
<1> USE DEF Upcoming, InHand, Opening
<1>1. CASE OpenCapture
  BY <1>1 DEF OpenCapture
<1>2. CASE OpenPlayback \/ ConfigureCapture
  BY <1>2 DEF OpenPlayback, ConfigureCapture, GiveUp
<1>3. CASE OpenNarrow \/ ConfigurePlayback
  BY <1>3 DEF OpenNarrow, ConfigurePlayback, GiveUp
<1>4. CASE Start
  BY <1>4 DEF Start, GiveUp
<1>5. CASE Read
  BY <1>5 DEF Read
<1>6. CASE Xrun
  BY <1>6 DEF Xrun
<1>7. CASE StreamEnds
  BY <1>7 DEF StreamEnds, card
<1>8. CASE Close
  BY <1>8 DEF Close
<1>9. CASE Waited
  BY <1>9 DEF Waited, card
<1>10. CASE Ends
  BY <1>10 DEF Ends, card
<1>11. CASE Write
  BY <1>11 DEF Write
<1>12. CASE Stop
  BY <1>12 DEF Stop, card
<1> QED BY <1>1, <1>2, <1>3, <1>4, <1>5, <1>6, <1>7, <1>8, <1>9, <1>10, <1>11, <1>12 DEF CardStep

\* The other steps, in the same terms.
LEMMA BlockMovesOn ==
  ASSUME Types
  PROVE  /\ Link => /\ Upcoming' = Upcoming /\ UNCHANGED <<running, spent>>
                    /\ pc = "link" /\ pc' \in {"start", "wait"}
         /\ Recover => /\ Upcoming' = Upcoming /\ UNCHANGED <<running, spent>>
                       /\ pc = "recover" /\ pc' \in {"read", "close"}
         /\ Sync => /\ Upcoming' = Upcoming /\ UNCHANGED <<running, spent>>
                    /\ pc = "sync" /\ pc' = "ring"
         /\ WriteRing => /\ Upcoming' = Upcoming + period /\ UNCHANGED <<running, spent>>
                         /\ pc = "ring" /\ pc' = "render"
         /\ Render => /\ Upcoming' = Upcoming /\ UNCHANGED running /\ (Spends("pings") \/ UNCHANGED spent)
                      /\ pc = "render" /\ pc' = "write"
         /\ Ask \/ Wire \/ UNCHANGED vars =>
              /\ Upcoming' = Upcoming /\ UNCHANGED <<running, pc>> /\ (Spends("changes") \/ UNCHANGED spent)
<1> period \in Nat /\ instant \in Nat
  BY PeriodFits DEF Types, Instant
<1> USE DEF Upcoming, InHand
<1>1. ASSUME Link
      PROVE  Upcoming' = Upcoming /\ UNCHANGED <<running, spent>> /\ pc = "link" /\ pc' \in {"start", "wait"}
  BY <1>1 DEF Link, GiveUp
<1>2. ASSUME Recover
      PROVE  Upcoming' = Upcoming /\ UNCHANGED <<running, spent>> /\ pc = "recover" /\ pc' \in {"read", "close"}
  BY <1>2 DEF Recover, card
<1>3. ASSUME Sync
      PROVE  Upcoming' = Upcoming /\ UNCHANGED <<running, spent>> /\ pc = "sync" /\ pc' = "ring"
  BY <1>3 DEF Sync, card
<1>4. ASSUME WriteRing
      PROVE  Upcoming' = Upcoming + period /\ UNCHANGED <<running, spent>> /\ pc = "ring" /\ pc' = "render"
  BY <1>4 DEF WriteRing, card
<1>5. ASSUME Render
      PROVE  Upcoming' = Upcoming /\ UNCHANGED running /\ (Spends("pings") \/ UNCHANGED spent) /\ pc = "render" /\ pc' = "write"
  BY <1>5 DEF Render, card
<1>6. ASSUME Ask \/ Wire \/ UNCHANGED vars
      PROVE  Upcoming' = Upcoming /\ UNCHANGED <<running, pc>> /\ (Spends("changes") \/ UNCHANGED spent)
  BY <1>6 DEF Ask, Wire, vars, card
<1> QED BY <1>1, <1>2, <1>3, <1>4, <1>5, <1>6

\* The frames a block adds to the ring: the card's next ones, in order.
LEMMA BlockIsUpcoming ==
  ASSUME Types, BlockFollows, WriteRing
  PROVE  /\ N' = N + period /\ period \in Nat \ {0}
         /\ \A i \in 1 .. period : /\ ring'[N + i].live = Upcoming + i - 1
                                  /\ ring'[N + i].delay = line.frames /\ ring'[N + i].gen = gen
<1>1. pc = "ring" /\ period \in Nat \ {0} /\ instant \in Nat
  BY PeriodFits DEF WriteRing, Types, Instant
<1>2. \A i \in 1 .. period : block[i] = instant - period + i - 1
  BY <1>1, BlockIsAPeriod DEF InHand
<1>3. Upcoming = instant - period
  BY <1>1 DEF Upcoming, InHand
<1>4. N' = N + period /\ \A i \in 1 .. period : ring'[N + i] = Made(i)
  BY RingGrows
<1>5. ASSUME NEW i \in 1 .. period
      PROVE  ring'[N + i].live = Upcoming + i - 1 /\ ring'[N + i].delay = line.frames /\ ring'[N + i].gen = gen
  <2>1. ring'[N + i] = Made(i) /\ block[i] = Upcoming + i - 1
    BY <1>1, <1>2, <1>3, <1>4
  <2> QED BY <2>1, WhatIsMade
<1> QED BY <1>1, <1>4, <1>5

LEMMA GenStep ==
  ASSUME Types, BlockFollows, GenFollows, [Next]_vars
  PROVE  GenFollows'
<1>1. N \in Nat /\ gen \in Nat /\ Upcoming \in Int /\ (N > 0 => ring[N].gen \in Nat /\ ring[N].live \in Nat)
  <2>1. N \in Nat /\ gen \in Nat /\ Upcoming \in Int
    BY PeriodFits DEF Types, TypeOK, Instant, Upcoming, N
  <2>2. N > 0 => ring[N] \in Entry
    BY <2>1 DEF Types, N
  <2> QED BY <2>1, <2>2 DEF Entry, Instant
<1>2. ASSUME UNCHANGED <<ring, line, gen>> PROVE N' = N /\ Marked' = Marked /\ line'.frames = line.frames
  BY <1>2 DEF N, Marked
<1>3. CASE CardStep /\ UNCHANGED <<axis, out>>
  <2>1. N' = N /\ Marked' = Marked /\ line'.frames = line.frames /\ ring' = ring /\ gen' = gen
    BY <1>2, <1>3 DEF axis, out
  <2>2. CardStep
    BY <1>3
  <2> USE DEF GenFollows, Opening, Streaming, InHand, InRing
  <2>3. CASE /\ Upcoming' = Upcoming /\ period' = period /\ running' = running
             /\ pc = "read" /\ pc' = "sync" /\ N < MaxFrames /\ UNCHANGED spent
    BY <2>1, <2>3
  <2>4. CASE Upcoming' = Upcoming /\ UNCHANGED <<pc, spent>> /\ running' = FALSE
    BY <2>1, <2>4
  <2>5. CASE /\ Upcoming' = Upcoming /\ UNCHANGED <<running, spent>>
             /\ \/ pc \in Opening \ {"start", "wait"} /\ pc' \in Opening
                \/ pc = "wait" /\ pc' = "open"
                \/ pc = "start" /\ pc' \in {"read", "wait"}
                \/ pc = "write" /\ pc' = "read"
                \/ pc = "read" /\ pc' = "close" /\ ~running
                \/ pc = "open" /\ pc' = "off"
    BY <2>1, <2>5
  <2>6. CASE /\ Upcoming' = Upcoming /\ UNCHANGED running
             /\ pc = "open" /\ running /\ pc' \in Opening
    BY <2>1, <2>6
  <2>7. CASE /\ Upcoming' = Upcoming + 1 /\ UNCHANGED running
             /\ pc \in {"read", "write"} /\ pc' = "recover"
    BY <1>1, <2>1, <2>7
  <2>8. CASE /\ Upcoming' = Upcoming + 1 /\ UNCHANGED running
             /\ pc = "close" /\ pc' = (IF running THEN "wait" ELSE "open")
    BY <1>1, <2>1, <2>8
  <2> QED
    <3> HIDE DEF GenFollows, Opening, Streaming, InHand, InRing
    <3> QED BY <2>2, <2>3, <2>4, <2>5, <2>6, <2>7, <2>8, CardMovesOn
<1>4. CASE Link /\ UNCHANGED <<asked, told, gen, out>>
  <2>1. N' = N /\ Marked' = Marked /\ ring' = ring /\ gen' = gen
    BY <1>4 DEF out, N, Marked
  <2>2. Upcoming' = Upcoming /\ pc = "link" /\ pc' \in {"start", "wait"}
    BY <1>4, BlockMovesOn
  <2> QED BY <2>1, <2>2 DEF GenFollows, Opening, Streaming, InHand, InRing
<1>5. CASE Recover /\ UNCHANGED <<asked, line, told, out>> /\ gen' = gen + 1
  <2>1. N' = N /\ ring' = ring /\ gen' = gen + 1
    BY <1>5 DEF out, N
  <2>2. Marked'
    BY <1>1, <2>1 DEF Marked, GenFollows
  <2>3. N > 0 => ring[N].gen <= gen + 1
    BY <1>1 DEF GenFollows
  <2> QED BY <1>5, <2>1, <2>2, <2>3, BlockMovesOn DEF GenFollows
<1>6. CASE Sync /\ UNCHANGED <<asked, out>>
  <2>1. N' = N /\ ring' = ring /\ Upcoming' = Upcoming /\ pc = "sync" /\ pc' = "ring"
    BY <1>6, BlockMovesOn DEF out, N
  <2>2. CASE UNCHANGED axis
    BY <2>1, <2>2 DEF axis, GenFollows, Marked, Opening, Streaming, InHand
  <2>3. CASE gen' = gen + 1
    <3>1. Marked'
      BY <1>1, <2>1, <2>3 DEF Marked, GenFollows
    <3>2. N > 0 => ring[N].gen <= gen + 1
      BY <1>1 DEF GenFollows
    <3> QED BY <2>1, <2>3, <3>1, <3>2 DEF GenFollows
  <2> QED BY <1>6, <2>2, <2>3, SyncEmptiesTheLine
<1>7. CASE WriteRing /\ UNCHANGED <<asked, told, gen, pings, sink>>
  <2>1. /\ N' = N + period /\ period \in Nat \ {0}
        /\ ring'[N + period].live = Upcoming + period - 1
        /\ ring'[N + period].delay = line.frames /\ ring'[N + period].gen = gen
    BY <1>7, BlockIsUpcoming
  <2>2. Upcoming' = Upcoming + period /\ pc = "ring" /\ pc' = "render"
    BY <1>7, BlockMovesOn
  <2>3. line'.frames = line.frames
    BY <1>7, <2>2, PushedIsALine DEF WriteRing
  <2>4. ring'[N'].gen = gen' /\ ring'[N'].live + 1 = Upcoming' /\ ring'[N'].delay = line'.frames
    BY <1>1, <1>7, <2>1, <2>2, <2>3
  <2>5. ring'[N'].live \in Int /\ gen' \in Nat
    BY <1>1, <1>7, <2>1
  <2>6. (N > 0 => ring[N].gen <= gen /\ ring[N].live < Upcoming)'
    BY <2>4, <2>5
  <2> QED BY <2>2, <2>4, <2>5, <2>6 DEF GenFollows, Opening, Streaming, InHand, InRing
<1>8. CASE (Render \/ Ask \/ Wire \/ UNCHANGED vars) /\ UNCHANGED <<axis, ring>>
  <2>1. N' = N /\ Marked' = Marked /\ line' = line /\ ring' = ring /\ gen' = gen
    BY <1>8 DEF axis, N, Marked
  <2>2. Upcoming' = Upcoming /\ running' = running /\ pc' \in {pc, "write"} /\ (pc' # pc => pc = "render")
    BY <1>8, BlockMovesOn
  <2> QED BY <2>1, <2>2 DEF GenFollows, Opening, Streaming, InHand, InRing
<1> QED BY <1>3, <1>4, <1>5, <1>6, <1>7, <1>8, StepsOfTheAxis DEF axis, out

LEMMA TimeStep ==
  ASSUME Types, BlockFollows, TimeFollows, [Next]_vars
  PROVE  TimeFollows'
<1>1. N \in Nat /\ Upcoming \in Int /\ period \in Nat /\ Upcoming - N \in 0 .. Lost
  BY PeriodFits DEF Types, Instant, Upcoming, N, TimeFollows
<1>2. /\ spent \in [xruns : 0 .. MaxXruns, opens : 0 .. MaxOpens, changes : Nat, pings : Nat]
      /\ MaxXruns \in Nat /\ MaxOpens \in Nat
  BY ConstantsFit DEF Types
<1> DEFINE gone == (MaxXruns - spent.xruns) + (MaxOpens - spent.opens)
<1>3. gone \in Nat
  BY <1>2
<1>4. Lost = gone - (IF pc \in {"open", "wait", "off"} THEN 0 ELSE 1)
  BY <1>2 DEF Lost
<1>5. Lost' = gone' - (IF pc' \in {"open", "wait", "off"} THEN 0 ELSE 1)
  <2>1. spent' \in [xruns : 0 .. MaxXruns, opens : 0 .. MaxOpens, changes : Nat, pings : Nat]
    BY SpentStep
  <2> QED BY <1>2, <2>1 DEF Lost
<1>6. /\ UNCHANGED spent => gone' = gone
      /\ Spends("opens") \/ Spends("xruns") => gone' = gone + 1
      /\ Spends("changes") \/ Spends("pings") => gone' = gone
  BY <1>2, SpentFits
<1> HIDE DEF gone
<1>7. CASE CardStep /\ UNCHANGED <<axis, out>>
  <2>1. N' = N
    BY <1>7 DEF out, N
  <2>2. CardStep
    BY <1>7
  <2> USE <1>1, <1>3, <1>4, <1>5, <1>6, <2>1 DEF TimeFollows, Opening, InHand
  <2>3. CASE /\ Upcoming' = Upcoming
             /\ pc = "read" /\ pc' = "sync" /\ N < MaxFrames /\ UNCHANGED spent
    BY <2>3
  <2>4. CASE Upcoming' = Upcoming /\ UNCHANGED <<pc, spent>>
    BY <2>4
  <2>5. CASE /\ Upcoming' = Upcoming /\ UNCHANGED spent
             /\ \/ pc \in Opening \ {"start", "wait"} /\ pc' \in Opening
                \/ pc = "wait" /\ pc' = "open"
                \/ pc = "start" /\ pc' \in {"read", "wait"}
                \/ pc = "write" /\ pc' = "read"
                \/ pc = "read" /\ pc' = "close" /\ ~running
                \/ pc = "open" /\ pc' = "off"
    BY <2>5
  <2>6. CASE Upcoming' = Upcoming /\ Spends("opens") /\ pc = "open" /\ pc' \in Opening
    BY <2>6
  <2>7. CASE /\ Upcoming' = Upcoming + 1 /\ Spends("xruns")
             /\ pc \in {"read", "write"} /\ pc' = "recover"
    BY <2>7
  <2>8. CASE /\ Upcoming' = Upcoming + 1 /\ UNCHANGED spent
             /\ pc = "close" /\ pc' = (IF running THEN "wait" ELSE "open")
    BY <2>8
  <2> QED
    <3> HIDE DEF TimeFollows, Opening, InHand
    <3> QED BY <2>2, <2>3, <2>4, <2>5, <2>6, <2>7, <2>8, CardMovesOn
<1>8. CASE WriteRing
  <2>1. N' = N + period /\ Upcoming' = Upcoming + period /\ UNCHANGED spent /\ pc = "ring" /\ pc' = "render"
    BY <1>8, BlockIsUpcoming, BlockMovesOn
  <2> QED BY <1>1, <1>3, <1>4, <1>5, <1>6, <2>1 DEF TimeFollows, InHand
<1>9. CASE (Link \/ Recover \/ Sync \/ Render \/ Ask \/ Wire \/ UNCHANGED vars) /\ UNCHANGED ring
  <2>1. N' = N
    BY <1>9 DEF N
  <2> USE <1>1, <1>3, <1>4, <1>5, <1>6, <2>1 DEF TimeFollows, InHand
  <2>2. CASE /\ Upcoming' = Upcoming /\ UNCHANGED spent
             /\ \/ pc = "link" /\ pc' \in {"start", "wait"}
                \/ pc = "recover" /\ pc' \in {"read", "close"}
                \/ pc = "sync" /\ pc' = "ring"
    BY <2>2
  <2>3. CASE /\ Upcoming' = Upcoming /\ (Spends("pings") \/ Spends("changes") \/ UNCHANGED spent)
             /\ pc' = pc \/ (pc = "render" /\ pc' = "write")
    BY <2>3
  <2> QED
    <3> HIDE DEF TimeFollows, InHand
    <3> QED BY <1>9, <2>2, <2>3, BlockMovesOn
<1> QED BY <1>7, <1>8, <1>9, StepsOfTheAxis DEF axis, out

----------------------------------------------------------------------------
(* The theorems.                                                           *)

LEMMA Stays ==
  ASSUME EngineIInv, [Next]_vars
  PROVE  EngineIInv'
<1>1. Types /\ BlockFollows /\ LineFollows /\ OneAxis /\ PingsFollow /\ SinksFollow /\ GenFollows /\ TimeFollows
  BY DEF EngineIInv
<1>2. Types' /\ BlockFollows' /\ LineFollows'
  BY <1>1, TypesStep, BlockStep, LineStep
<1>3. OneAxis' /\ PingsFollow' /\ SinksFollow'
  BY <1>1, AxisStep, PingsStep, SinksStep
<1>4. GenFollows' /\ TimeFollows'
  BY <1>1, GenStep, TimeStep
<1> QED BY <1>2, <1>3, <1>4 DEF EngineIInv

\* The inductive invariant: what the delay line holds, what was logged, and what the
\* ring's last frame says of the generation and of the time that was lost.
THEOREM EngineAlways == Spec => []EngineIInv
<1>1. Init => EngineIInv
  BY Starts
<1>2. EngineIInv /\ [Next]_vars => EngineIInv'
  BY Stays
<1> QED BY <1>1, <1>2, PTL DEF Spec

\* One index of the ring is one instant: what the card's columns hold is what the card
\* captured at the index the other columns were placed at, or silence, however often
\* the delay is changed and the card opened again with another period.
THEOREM OneIndexIsOneInstant == Spec => []OneAxis
<1>1. EngineIInv => OneAxis
  BY DEF EngineIInv
<1> QED BY <1>1, EngineAlways, PTL

LEMMA PingsAreMarked ==
  ASSUME Types, OneAxis, PingsFollow
  PROVE  PingsMarkTheirArrival
<1> SUFFICES ASSUME NEW k \in DOMAIN pings, NEW p, p = pings[k],
                    p.at \in Indices, ring[p.at].since < p.played, Whole(ring[p.at])
             PROVE  ring[p.at].local = ring[p.played].live
  BY DEF PingsMarkTheirArrival
<1>1. p \in [at : Nat, played : Nat \ {0}]
  <2> DEFINE Ping == [at : Nat, played : Nat \ {0}]
  <2>1. pings \in Seq(Ping)
    BY DEF Types
  <2> HIDE DEF Ping
  <2>2. p \in Ping
    BY <2>1
  <2> QED BY <2>2 DEF Ping
<1>2. p.at \in Nat /\ p.played \in Nat \ {0} /\ N \in Nat
  BY <1>1 DEF Types, N
<1>3. p.played <= p.at /\ p.at <= N
  BY DEF PingsFollow, Indices
<1>4. ring[p.at].delay = p.at - p.played
  BY <1>2, <1>3 DEF PingsFollow
<1>5. p.at - ring[p.at].delay = p.played
  BY <1>2, <1>4
<1> QED BY <1>5 DEF OneAxis

\* Pings and the sinks' rings are on the ring's axis, and every PCM is let go.
THEOREM WhatIsBesideIsOnTheAxis == Spec => []AxisInv
<1>1. EngineIInv => AxisInv
  <2>1. ASSUME EngineIInv PROVE PingsMarkTheirArrival
    BY <2>1, PingsAreMarked DEF EngineIInv
  <2>2. ASSUME EngineIInv PROVE TypeOK /\ SinksAreOnTheAxis
    BY <2>2 DEF EngineIInv, Types, SinksFollow, SinksAreOnTheAxis
  <2> QED BY <2>1, <2>2 DEF AxisInv
<1> QED BY <1>1, EngineAlways, PTL

----------------------------------------------------------------------------
(* The ring is fed as RingFeed promises.                                   *)

\* The ring as a reader sees it: what Promise is told of it.
View == [i \in Indices |-> [live |-> ring[i].live, delay |-> ring[i].delay, gen |-> ring[i].gen]]
ViewEntry == [live : Nat, delay : 0 .. LineLen - 1, gen : Nat]

\* What a reader sees of one frame.
Seen(e) == [live |-> e.live, delay |-> e.delay, gen |-> e.gen]

LEMMA SequenceSeen ==
  ASSUME NEW r \in Seq(Entry), NEW v, v = [i \in 1 .. Len(r) |-> Seen(r[i])]
  PROVE  /\ v \in Seq(ViewEntry) /\ Len(v) = Len(r) /\ Len(r) \in Nat
         /\ \A i \in 1 .. Len(r) : v[i] = Seen(r[i])
         /\ Len(r) = 0 <=> v = <<>>
<1>1. Len(r) \in Nat /\ \A i \in 1 .. Len(r) : r[i] \in Entry
  OBVIOUS
<1>2. \A i \in 1 .. Len(r) : Seen(r[i]) \in ViewEntry
  BY <1>1 DEF Entry, ViewEntry, Instant, Seen
<1>3. v \in [1 .. Len(r) -> ViewEntry]
  BY <1>2
<1>4. v \in Seq(ViewEntry) /\ Len(v) = Len(r)
  BY <1>1, <1>3
<1>5. v = <<>> => Len(r) = 0
  BY <1>4, EmptySeq
<1>6. Len(r) = 0 => v = <<>>
  BY <1>4, EmptySeq
<1> QED BY <1>1, <1>4, <1>5, <1>6

LEMMA ViewIsASequence ==
  /\ Types => /\ View \in Seq(ViewEntry) /\ Len(View) = N /\ N \in Nat
              /\ \A i \in 1 .. N : View[i] = Seen(ring[i])
              /\ N = 0 <=> View = <<>>
  /\ Types' => /\ View' \in Seq(ViewEntry) /\ Len(View') = N'
               /\ \A i \in 1 .. N' : View'[i] = Seen(ring'[i])
<1>1. ASSUME Types
      PROVE  /\ View \in Seq(ViewEntry) /\ Len(View) = N /\ N \in Nat
             /\ \A i \in 1 .. N : View[i] = Seen(ring[i])
             /\ N = 0 <=> View = <<>>
  <2>1. ring \in Seq(Entry)
    BY <1>1 DEF Types
  <2>2. View = [i \in 1 .. Len(ring) |-> Seen(ring[i])]
    BY DEF View, Seen, Indices, N
  <2> HIDE DEF View
  <2> QED BY <2>1, <2>2, SequenceSeen DEF N
<1>2. ASSUME Types'
      PROVE  /\ View' \in Seq(ViewEntry) /\ Len(View') = N'
             /\ \A i \in 1 .. N' : View'[i] = Seen(ring'[i])
  <2>1. ring' \in Seq(Entry)
    BY <1>2 DEF Types
  <2>2. View' = [i \in 1 .. Len(ring') |-> Seen(ring'[i])]
    BY DEF View, Seen, Indices, N
  <2> QED BY <2>1, <2>2, SequenceSeen DEF N
<1> QED BY <1>1, <1>2

LEMMA StartsFed ==
  ASSUME Init
  PROVE  Promise!FeedInit
<1>1. Types /\ N = 0 /\ gen = 0
  BY Starts DEF EngineIInv, Init, N
<1>2. View = <<>>
  BY <1>1, ViewIsASequence
<1> QED BY <1>1, <1>2 DEF Promise!FeedInit, View

\* A block in the ring is a block fed: the card's next frames, under one delay.
LEMMA WriteRingFeeds ==
  ASSUME EngineIInv, WriteRing, Types'
  PROVE  Promise!Feed
<1> DEFINE t == Upcoming
           d == line.frames
           B == [i \in 1 .. period |-> [live |-> t + i - 1, delay |-> d, gen |-> gen]]
<1>1. Types /\ BlockFollows /\ GenFollows /\ TimeFollows /\ pc = "ring"
  BY DEF EngineIInv, WriteRing
<1>2. /\ N' = N + period /\ period \in Nat \ {0} /\ period \in Periods
      /\ \A i \in 1 .. period : /\ ring'[N + i].live = t + i - 1
                               /\ ring'[N + i].delay = d /\ ring'[N + i].gen = gen
      /\ \A i \in Indices : ring'[i] = ring[i]
  BY <1>1, BlockIsUpcoming, RingGrows DEF Types, TypeOK
<1>3. View \in Seq(ViewEntry) /\ Len(View) = N /\ N \in Nat /\ (N = 0 <=> View = <<>>)
  BY <1>1, ViewIsASequence
<1>4. View' \in Seq(ViewEntry) /\ Len(View') = N'
  BY ViewIsASequence
<1>5. t \in 0 .. MaxFrames + MaxXruns + MaxOpens
  <2>1. N \in Nat /\ t \in Int /\ t - N \in 0 .. Lost /\ N < MaxFrames
    BY <1>1, <1>3, PeriodFits DEF TimeFollows, InHand, Types, Instant, Upcoming
  <2>2. /\ spent \in [xruns : 0 .. MaxXruns, opens : 0 .. MaxOpens, changes : Nat, pings : Nat]
        /\ MaxXruns \in Nat /\ MaxOpens \in Nat /\ MaxFrames \in Nat
    BY <1>1, ConstantsFit DEF Types
  <2>3. Lost <= MaxXruns + MaxOpens /\ Lost \in Int
    BY <1>1, <2>2 DEF Lost
  <2> HIDE DEF t
  <2> QED BY <2>1, <2>2, <2>3
<1>6. d \in 0 .. LineLen - 1 /\ gen \in Nat
  BY <1>1 DEF Types, TypeOK
<1>7. Promise!Follows(t, d)
  <2>1. N > 0 => /\ t > ring[N].live
                 /\ ring[N].gen = gen => t = ring[N].live + 1 /\ d = ring[N].delay
    <3>1. N > 0 => ring[N] \in Entry
      BY <1>1, <1>3 DEF Types, N
    <3>2. t \in Nat
      BY <1>5, ConstantsFit
    <3> QED BY <1>1, <1>3, <1>6, <3>1, <3>2 DEF GenFollows, Marked, Streaming, InHand, Entry, Instant
  <2>2. N > 0 => View[N] = [live |-> ring[N].live, delay |-> ring[N].delay, gen |-> ring[N].gen]
    BY <1>1, <1>3, ViewIsASequence DEF Seen
  <2>3. View # <<>> => LET last == View[Len(View)]
                       IN /\ t > last.live
                          /\ last.gen = gen => t = last.live + 1 /\ d = last.delay
    <3> HIDE DEF t, d
    <3> QED BY <1>3, <2>1, <2>2
  <2> QED BY <2>3 DEF Promise!Follows, View
<1>8. View' = View \o B
  <2>1. B \in [1 .. period -> ViewEntry]
    <3>1. \A i \in 1 .. period : [live |-> t + i - 1, delay |-> d, gen |-> gen] \in ViewEntry
      <4>1. t \in Nat
        BY <1>5, ConstantsFit
      <4> HIDE DEF t, d
      <4> QED BY <1>2, <1>6, <4>1 DEF ViewEntry
    <3> QED BY <3>1
  <2>2. \A i \in 1 .. period : B[i] = [live |-> t + i - 1, delay |-> d, gen |-> gen]
    OBVIOUS
  <2>3. \A i \in 1 .. N + period :
          View'[i] = [live |-> ring'[i].live, delay |-> ring'[i].delay, gen |-> ring'[i].gen]
    BY <1>2, ViewIsASequence DEF Seen
  <2>4. \A i \in 1 .. N : View[i] = [live |-> ring[i].live, delay |-> ring[i].delay, gen |-> ring[i].gen]
    BY <1>1, ViewIsASequence DEF Seen
  <2>5. period \in Nat /\ View \in Seq(ViewEntry)
    BY <1>2, <1>3
  <2> DEFINE C == View \o B
  <2>6. /\ C \in Seq(ViewEntry) /\ Len(C) = N + period
        /\ \A i \in 1 .. N : C[i] = View[i]
        /\ \A i \in 1 .. period : C[N + i] = B[i]
    <3> HIDE DEF B
    <3>1. /\ View \o B \in Seq(ViewEntry) /\ Len(View \o B) = Len(View) + period
          /\ \A i \in 1 .. Len(View) : (View \o B)[i] = View[i]
          /\ \A i \in 1 .. period : (View \o B)[Len(View) + i] = B[i]
      BY <2>1, <2>5, Concatenation
    <3> QED BY <1>3, <3>1
  <2> HIDE DEF B, C, t, d
  <2>7. ASSUME NEW i \in 1 .. N + period PROVE View'[i] = C[i]
    <3>1. CASE i <= N
      BY <1>2, <1>3, <2>3, <2>4, <2>6, <3>1 DEF Indices
    <3>2. CASE i > N
      <4>1. PICK k \in 1 .. period : N + k = i
        <5>1. i - N \in 1 .. period /\ N + (i - N) = i
          BY <1>2, <1>3, <3>2
        <5> QED BY <5>1
      <4>2. C[i] = [live |-> t + k - 1, delay |-> d, gen |-> gen]
        BY <2>2, <2>6, <4>1
      <4>3. ring'[i].live = t + k - 1 /\ ring'[i].delay = d /\ ring'[i].gen = gen
        BY <1>2, <4>1
      <4> QED BY <2>3, <4>2, <4>3
    <3> QED BY <1>2, <1>3, <3>1, <3>2
  <2>8. View' = C
    <3>1. Len(View') = N + period
      BY <1>2, <1>4
    <3> QED BY <1>4, <2>6, <2>7, <3>1, SeqEqual
  <2> QED BY <2>8 DEF C
<1>9. Len(View') - Len(View) = period
  BY <1>2, <1>3, <1>4
<1>10. gen' = gen
  BY DEF WriteRing
<1>11. Promise!Block(t, d, period) = B
  BY DEF Promise!Block
<1> HIDE DEF t, d, B
<1>12. View' = View \o Promise!Block(t, d, Len(View') - Len(View))
  BY <1>8, <1>9, <1>11
<1> QED BY <1>2, <1>5, <1>6, <1>7, <1>9, <1>10, <1>12 DEF Promise!Feed, View

\* Every step of the audio thread feeds a block, marks a new generation, or is none the
\* readers of the ring see.
LEMMA StepsFeed ==
  ASSUME EngineIInv, [Next]_vars
  PROVE  [Promise!Feed \/ Promise!Mark]_(Promise!feed)
<1>1. CASE WriteRing
  <2>1. Types'
    BY Stays DEF EngineIInv
  <2> QED BY <1>1, <2>1, WriteRingFeeds
<1>2. ASSUME UNCHANGED ring, gen' = gen + 1 PROVE Promise!Mark
  BY <1>2 DEF Promise!Mark, Indices, N
<1>3. ASSUME UNCHANGED <<ring, gen>> PROVE UNCHANGED Promise!feed
  BY <1>3 DEF Promise!feed, Indices, N
<1>4. CASE Sync /\ UNCHANGED <<asked, out>>
  BY <1>2, <1>3, <1>4, SyncEmptiesTheLine DEF axis, out, EngineIInv
<1> QED BY <1>1, <1>2, <1>3, <1>4, StepsOfTheAxis DEF axis, out

\* However the card fails, is opened again or the delay is changed, the ring is fed as
\* its readers are promised: within a generation the frames are the card's, one after
\* the other, under one delay, and time is only lost between generations.
THEOREM EngineImplementsRingFeed == Spec => ImplementsRingFeed
<1>1. Init => Promise!FeedInit
  BY StartsFed
<1>2. EngineIInv /\ [Next]_vars => [Promise!Feed \/ Promise!Mark]_(Promise!feed)
  BY StepsFeed
<1> QED BY <1>1, <1>2, EngineAlways, PTL DEF Spec, ImplementsRingFeed, Promise!FeedSpec
==============================================================================

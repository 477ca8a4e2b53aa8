---------------------------- MODULE Capture_proofs ----------------------------
(***************************************************************************)
(* What holds of the frozen copy for any number of callers, any ring and   *)
(* any length.  CaptureInv speaks of the store when nobody is at it;       *)
(* CaptureIInv adds where each caller is in its call and what it has       *)
(* copied so far, which is the ring's as long as the audio thread has not  *)
(* come round to where the copy begins.                                    *)
(***************************************************************************)
EXTENDS Capture, TLAPS

----------------------------------------------------------------------------
(* The inductive invariant.                                                *)

Ops == {"none", "freeze", "resume", "config", "window", "xcorr", "genie"}
Freezing == {"freeze", "aim", "check", "copy"}
Correlating == {"xcorr", "read", "correlate"}
Places == Freezing \cup Correlating \cup {"idle", "begin", "live", "answer", "next"}
Jobs == [op : Ops, at : Places, start : Nat, len : Nat, tries : Nat, left : Nat,
         buf : Seq(Int), found : BOOLEAN, late : BOOLEAN]
Statuses == [frozen : BOOLEAN, start : Nat, len : Nat, late : BOOLEAN]

Types ==
  /\ head \in 0 .. MaxHead /\ storing \in BOOLEAN /\ (storing => head + Period <= MaxHead)
  /\ snap \in Seq(Int) /\ refused \in BOOLEAN /\ status \in Statuses
  /\ analyze \in Shortest .. Longest /\ pending = analyze
  /\ lock \in Workers \cup {NoWorker} /\ fft \in Workers \cup {NoWorker}
  /\ scratch \in Seq(Int) /\ job \in [Workers -> Jobs]

\* The snapshot's length, and what of it is frozen.
SnapFits ==
  /\ Len(snap) \in {0} \cup Shortest .. Longest
  /\ status.len <= Len(snap) /\ (status.frozen <=> status.len > 0)

\* Which steps each call has.
StepsOf(op) ==
  IF op = "none" THEN {"idle"}
  ELSE IF op \in {"resume", "config"} THEN {"begin"}
  ELSE IF op = "freeze" THEN Freezing
  ELSE IF op = "window" THEN {"begin", "live", "answer"}
  ELSE IF op = "xcorr" THEN Correlating \cup {"answer"}
  ELSE Freezing \cup Correlating \cup {"begin", "next", "answer"}

\* Where a caller is, and what it holds there.
Where(w) ==
  /\ job[w].at \in StepsOf(job[w].op)
  /\ lock = w <=> job[w].at \in {"aim", "check", "copy", "live"}
  /\ fft = w <=> job[w].at \in {"read", "correlate"}
  /\ job[w].found => job[w].op = "genie" /\ job[w].at \notin Freezing

\* What was read of the ring is what was asked for, unless the audio thread is at it.
Overtaken(start) == Lapped(start) \/ Late(start)
Exactly(s, start, len) == s = [k \in 1 .. len |-> start + k - 1]

\* What a caller has taken out of the ring or the snapshot so far.
Taken(w) ==
  LET j == job[w] IN
  /\ j.at = "begin" => j.buf = <<>>
  /\ j.at \in {"check", "copy"} => j.len <= Len(snap)
  /\ j.at \in {"check", "copy", "live"} => j.start \in Nat /\ j.start + j.len <= head
  /\ j.at \in {"copy", "live"} =>
       /\ j.len > 0 /\ Len(j.buf) <= j.len
       /\ Overtaken(j.start) \/ \A k \in 1 .. Len(j.buf) : j.buf[k] = j.start + k - 1
  /\ j.at = "copy" => \A k \in 1 .. Len(j.buf) : snap[k] = j.buf[k]
  /\ j.at = "live" => ~status.frozen
  /\ j.at = "correlate" /\ ~j.late => Exactly(scratch, j.start, j.len)
  /\ j.at = "answer" /\ ~j.late => Exactly(j.buf, j.start, j.len)

\* The length that was asked for, also while a freeze is being made.
LengthFollows ==
  (~status.frozen \/ lock # NoWorker) /\ ~refused => Len(snap) = analyze

CaptureIInv ==
  /\ Types /\ SnapFits /\ LengthFollows /\ SnapshotHoldsTheRing
  /\ \A w \in Workers : Where(w) /\ Taken(w)

----------------------------------------------------------------------------
(* What a load from the ring finds.                                        *)

\* A multiple is never in the gap between two multiples.
LEMMA MultiplesAreApart ==
  ASSUME NEW m \in Nat \ {0}, NEW p \in Int, NEW q \in Int, NEW d \in 1 .. m - 1
  PROVE  p * m # q * m + d
<1> SUFFICES ASSUME p * m = q * m + d PROVE FALSE
  OBVIOUS
<1>1. (p - q) * m = d
  BY SMT
<1>2. p - q <= 0 \/ p - q >= 1
  BY SMT
<1>3. CASE p - q <= 0
  <2>1. (p - q) * m <= 0
    BY <1>3, SMT
  <2> QED BY <1>1, <2>1
<1>4. CASE p - q >= 1
  <2>1. (p - q) * m >= m
    BY <1>4, SMT
  <2> QED BY <1>1, <2>1
<1> QED BY <1>2, <1>3, <1>4

\* What % computes: the remainder of a division.
LEMMA ModDivides ==
  ASSUME NEW n \in Nat, NEW m \in Nat \ {0}
  PROVE  /\ n % m \in 0 .. m - 1
         /\ \E q \in Int : n = q * m + (n % m)
<1>1. n = (n \div m) * m + (n % m) /\ n \div m \in Int /\ n % m \in 0 .. m - 1
  OBVIOUS
<1> QED BY <1>1

\* Two positions less than a ring apart have slots of their own.
LEMMA ModNear ==
  ASSUME NEW i \in Nat, NEW j \in Nat, NEW m \in Nat \ {0}, i < j, j - i < m
  PROVE  i % m # j % m
<1> SUFFICES ASSUME i % m = j % m PROVE FALSE
  OBVIOUS
<1>1. PICK p \in Int : i = p * m + (i % m)
  BY ModDivides
<1>2. PICK q \in Int : j = q * m + (j % m)
  BY ModDivides
<1> DEFINE P == p * m
           Q == q * m
           r == i % m
<1>3. P \in Int /\ Q \in Int /\ r \in 0 .. m - 1
  BY ModDivides
<1>4. i = P + r /\ j = Q + r
  BY <1>1, <1>2
<1>5. ~(j - i \in 1 .. m - 1) \/ Q # P + (j - i)
  BY MultiplesAreApart
<1> HIDE DEF P, Q, r
<1> QED BY <1>3, <1>4, <1>5

\* A frame that is in the ring, and that the block being stored does not land on, is
\* the only thing its slot can hold.
LEMMA SlotHoldsTheFrame ==
  ASSUME CaptureAssumption, Types, NEW i \in Nat, i < head, head - i <= RingFrames,
         ~(storing /\ head + Period - i > RingFrames)
  PROVE  InSlot(i) = {i}
<1> DEFINE same(j) == j % RingFrames = i % RingFrames
           old == {j \in 0 .. head - 1 : same(j) /\ j + RingFrames >= head}
           new == {j \in head .. head + Period - 1 : storing /\ same(j)}
<1>1. head \in Nat /\ RingFrames \in Nat \ {0} /\ Period \in Nat \ {0} /\ MaxHead \in Nat
  BY DEF CaptureAssumption, Types
<1>2. ASSUME NEW j \in old PROVE j = i
  <2>1. j \in Nat /\ same(j) /\ j < head /\ j + RingFrames >= head
    BY <1>1
  <2>2. j - i < RingFrames /\ (i - j < RingFrames \/ i = j)
    BY <1>1, <2>1
  <2>3. CASE i < j
    BY <1>1, <2>1, <2>2, <2>3, ModNear
  <2>4. CASE j < i
    BY <1>1, <2>1, <2>2, <2>4, ModNear
  <2> QED BY <2>1, <2>3, <2>4
<1>3. i \in old
  BY <1>1
<1>4. ASSUME NEW j \in new PROVE FALSE
  <2>1. j \in Nat /\ same(j) /\ i < j /\ storing /\ j <= head + Period - 1
    BY <1>1
  <2>2. j - i < RingFrames
    BY <1>1, <2>1
  <2> QED BY <1>1, <2>1, <2>2, ModNear
<1>5. old = {i} /\ new = {}
  BY <1>2, <1>3, <1>4
<1> HIDE DEF old, new
<1>6. InSlot(i) = (IF old = {} THEN {Zero} ELSE old) \cup new
  BY DEF InSlot, old, new
<1> QED BY <1>5, <1>6

LEMMA SlotsHoldIntegers ==
  ASSUME CaptureAssumption, Types, NEW i \in Int
  PROVE  InSlot(i) \subseteq Int
BY DEF CaptureAssumption, Types, InSlot, Zero

\* A load for a copy from start on: the frame itself, or the copy is overtaken.
LEMMA LoadsAreExact ==
  ASSUME CaptureAssumption, Types, NEW start \in Nat, NEW i \in Nat, start <= i, i < head,
         NEW f \in InSlot(i)
  PROVE  f = i \/ Overtaken(start)
<1>1. head \in Nat /\ RingFrames \in Nat \ {0} /\ Period \in Nat \ {0}
  BY DEF CaptureAssumption, Types
<1> SUFFICES ASSUME ~Overtaken(start) PROVE f = i
  OBVIOUS
<1>2. head - start <= RingFrames /\ ~(storing /\ head + Period - start > RingFrames)
  BY <1>1 DEF Overtaken, Lapped, Late
<1>3. head - i <= RingFrames /\ ~(storing /\ head + Period - i > RingFrames)
  BY <1>1, <1>2
<1> QED BY <1>3, SlotHoldsTheFrame

----------------------------------------------------------------------------
(* Who a step leaves alone.                                                *)

\* A lock that the one who takes a step may have taken or given back.
Passed(l, m, w) == l = m \/ (l = w /\ m = NoWorker) \/ (l = NoWorker /\ m = w)

\* A caller who takes no step is where he was, with what he had: the others change the
\* snapshot and the working buffers only under the locks that he would hold.
LEMMA OthersStay ==
  ASSUME CaptureAssumption, CaptureIInv, NEW w \in Workers,
         \A v \in Workers : v # w => job'[v] = job[v],
         UNCHANGED writer, Passed(lock, lock', w), Passed(fft, fft', w),
         (snap' = snap /\ status' = status) \/ lock \in {w, NoWorker},
         scratch' = scratch \/ fft \in {w, NoWorker}
  PROVE  \A v \in Workers : v # w => Where(v)' /\ Taken(v)'
<1> SUFFICES ASSUME NEW v \in Workers, v # w PROVE Where(v)' /\ Taken(v)'
  OBVIOUS
<1>1. job'[v] = job[v] /\ Where(v) /\ Taken(v)
  BY DEF CaptureIInv
<1>2. v # NoWorker
  BY DEF CaptureAssumption
<1>3. (lock = v <=> lock' = v) /\ (fft = v <=> fft' = v)
  BY <1>2 DEF Passed
<1>4. Where(v)'
  BY <1>1, <1>3 DEF Where
<1>5. job[v].at \in {"check", "copy", "live"} => snap' = snap /\ status' = status
  BY <1>1, <1>2 DEF Where
<1>6. job[v].at = "correlate" => scratch' = scratch
  BY <1>1, <1>2 DEF Where
<1>7. Taken(v)'
  BY <1>1, <1>5, <1>6 DEF Taken, Overtaken, Lapped, Late, Exactly, writer
<1> QED BY <1>4, <1>7

\* A step within a call that touches neither the snapshot nor who holds m_.
LEMMA StepsAlone ==
  ASSUME CaptureAssumption, CaptureIInv, NEW w \in Workers, NEW j \in Jobs,
         job' = [job EXCEPT ![w] = j], UNCHANGED <<writer, store, lock>>,
         Passed(fft, fft', w), scratch' \in Seq(Int), scratch' = scratch \/ fft \in {w, NoWorker},
         Where(w)', Taken(w)'
  PROVE  CaptureIInv'
<1>1. job' \in [Workers -> Jobs] /\ \A v \in Workers : v # w => job'[v] = job[v]
  BY DEF CaptureIInv, Types
<1>2. Types'
  BY <1>1 DEF CaptureIInv, Types, writer, store, Passed
<1>3. SnapFits' /\ LengthFollows' /\ SnapshotHoldsTheRing'
  BY DEF CaptureIInv, SnapFits, LengthFollows, SnapshotHoldsTheRing, store
<1>4. \A v \in Workers : v # w => Where(v)' /\ Taken(v)'
  BY <1>1, OthersStay DEF Passed, writer, store
<1> QED BY <1>1, <1>2, <1>3, <1>4 DEF CaptureIInv

\* A step that changes the copy, or who may: what has to be shown of it.
LEMMA StepsUnderLock ==
  ASSUME CaptureAssumption, CaptureIInv, NEW w \in Workers, NEW j \in Jobs,
         job' = [job EXCEPT ![w] = j], UNCHANGED <<writer, fft, scratch>>,
         Passed(lock, lock', w), lock \in {w, NoWorker},
         snap' \in Seq(Int), refused' \in BOOLEAN, status' \in Statuses,
         analyze' \in Shortest .. Longest, pending' = analyze',
         SnapFits', LengthFollows', SnapshotHoldsTheRing', Where(w)', Taken(w)'
  PROVE  CaptureIInv'
<1>1. job' \in [Workers -> Jobs] /\ \A v \in Workers : v # w => job'[v] = job[v]
  BY DEF CaptureIInv, Types
<1>2. Types'
  BY <1>1 DEF CaptureIInv, Types, writer, Passed
<1>3. \A v \in Workers : v # w => Where(v)' /\ Taken(v)'
  BY <1>1, OthersStay DEF Passed, writer
<1> QED BY <1>2, <1>3 DEF CaptureIInv

----------------------------------------------------------------------------
(* The audio thread.                                                       *)

LEMMA InitHolds ==
  ASSUME CaptureAssumption, Init
  PROVE  CaptureIInv
<1>1. Idle \in Jobs /\ Released \in Statuses
  BY DEF Idle, Jobs, Released, Statuses, Ops, Places
<1>2. \A n \in Sizes : Clamped(n) \in Shortest .. Longest
  BY DEF CaptureAssumption, Clamped, AtMost
<1>3. analyze \in Shortest .. Longest /\ analyze \in Nat \ {0}
  BY <1>2 DEF CaptureAssumption, Init
<1>4. Zeros(analyze) \in Seq(Int) /\ Len(Zeros(analyze)) = analyze
  BY <1>3 DEF Zeros, Zero
<1>5. snap \in Seq(Int) /\ job \in [Workers -> Jobs]
  <2>1. <<>> \in Seq(Int)
    OBVIOUS
  <2> QED BY <1>1, <1>4, <2>1 DEF Init
<1>8. Types
  <2>1. head \in 0 .. MaxHead /\ storing \in BOOLEAN /\ ~storing
    <3>1. storing \in BOOLEAN /\ ~storing /\ head = 0
      BY DEF Init
    <3>2. MaxHead \in Nat
      BY DEF CaptureAssumption
    <3> QED BY <3>1, <3>2
  <2>2. <<>> \in Seq(Int)
    OBVIOUS
  <2>3. refused \in BOOLEAN /\ status \in Statuses /\ pending = analyze
        /\ lock = NoWorker /\ fft = NoWorker /\ scratch = <<>>
    BY <1>1 DEF Init
  <2> QED BY <1>3, <1>5, <2>1, <2>2, <2>3 DEF Types
<1>6. SnapFits /\ LengthFollows /\ SnapshotHoldsTheRing
  BY <1>3, <1>4 DEF Init, SnapFits, LengthFollows, SnapshotHoldsTheRing, Released
<1>7. ASSUME NEW w \in Workers PROVE Where(w) /\ Taken(w)
  BY DEF CaptureAssumption, Init, Where, Taken, Idle, StepsOf
<1> QED BY <1>8, <1>6, <1>7 DEF CaptureIInv

\* A block begins to be stored, or is there: a copy it comes to is overtaken.
LEMMA WriterSteps ==
  ASSUME CaptureAssumption, CaptureIInv, Store \/ Publish
  PROVE  CaptureIInv'
<1>1. head \in Nat /\ head' \in Nat /\ head <= head' /\ Period \in Nat /\ RingFrames \in Nat
  BY DEF CaptureAssumption, CaptureIInv, Types, Store, Publish
<1>2. UNCHANGED <<store, locks, scratch, job>>
  BY DEF Store, Publish
<1>3. ASSUME NEW start \in Nat, Overtaken(start) PROVE Overtaken(start)'
  <2>1. head - start > RingFrames \/ (storing /\ head + Period - start > RingFrames)
    BY <1>3 DEF Overtaken, Lapped, Late
  <2>2. ASSUME Store PROVE head' - start > RingFrames \/ (storing' /\ head' + Period - start > RingFrames)
    <3>1. head' = head /\ storing'
      BY <2>2 DEF Store
    <3> QED BY <1>1, <2>1, <3>1
  <2>3. ASSUME Publish PROVE head' - start > RingFrames
    <3>1. head' = head + Period
      BY <2>3 DEF Publish
    <3> QED BY <1>1, <2>1, <3>1
  <2>4. head' - start > RingFrames \/ (storing' /\ head' + Period - start > RingFrames)
    BY <2>2, <2>3
  <2> QED BY <2>4 DEF Overtaken, Lapped, Late
<1>4. Types'
  <2>1. head' \in 0 .. MaxHead /\ storing' \in BOOLEAN /\ (storing' => head' + Period <= MaxHead)
    <3>1. head \in 0 .. MaxHead /\ storing \in BOOLEAN /\ (storing => head + Period <= MaxHead)
          /\ MaxHead \in Nat
      BY DEF CaptureAssumption, CaptureIInv, Types
    <3>2. CASE Store
      <4>1. head' = head /\ storing' \in BOOLEAN /\ head + Period <= MaxHead
        BY <3>2 DEF Store
      <4> QED BY <3>1, <4>1
    <3>3. CASE Publish
      <4>1. head' = head + Period /\ storing /\ storing' \in BOOLEAN /\ ~storing'
        BY <3>3 DEF Publish
      <4> QED BY <1>1, <3>1, <4>1
    <3> QED BY <3>2, <3>3
  <2> QED BY <1>2, <2>1 DEF CaptureIInv, Types, store, locks
<1>5. SnapFits' /\ LengthFollows' /\ SnapshotHoldsTheRing'
  BY <1>2 DEF CaptureIInv, SnapFits, LengthFollows, SnapshotHoldsTheRing, store, locks
<1>6. ASSUME NEW w \in Workers PROVE Where(w)' /\ Taken(w)'
  <2>1. Where(w) /\ Taken(w) /\ job[w] \in Jobs
    BY DEF CaptureIInv, Types
  <2>2. job[w].start \in Int /\ job[w].len \in Nat
    BY <2>1 DEF Jobs
  <2>3. Where(w)'
    BY <1>2, <2>1 DEF Where, locks
  <2>4. Taken(w)'
    <3>1. UNCHANGED <<job, snap, status, scratch>>
      BY <1>2 DEF store
    <3>2. job[w].start \in Nat /\ Overtaken(job[w].start) => Overtaken(job[w].start)'
      BY <1>3, <3>1
    <3>3. job[w].start \in Nat /\ job[w].start + job[w].len <= head
          => job[w].start + job[w].len <= head'
      BY <1>1, <2>2
    <3> QED BY <2>1, <3>1, <3>2, <3>3 DEF Taken, Exactly
  <2> QED BY <2>3, <2>4
<1> QED BY <1>4, <1>5, <1>6 DEF CaptureIInv

----------------------------------------------------------------------------
(* The calls.                                                              *)

\* The same for a step that takes no lock at all.
LEMMA LocalSteps ==
  ASSUME CaptureAssumption, CaptureIInv, NEW w \in Workers, NEW j \in Jobs,
         job' = [job EXCEPT ![w] = j], UNCHANGED <<writer, store, locks, scratch>>,
         Where(w)', Taken(w)'
  PROVE  CaptureIInv'
<1>1. UNCHANGED lock /\ UNCHANGED fft /\ scratch \in Seq(Int)
  BY DEF locks, CaptureIInv, Types
<1> QED BY <1>1, StepsAlone DEF Passed

LEMMA IdleIsAJob ==
  /\ Idle \in Jobs
  /\ Idle.op = "none" /\ Idle.at = "idle" /\ ~Idle.found /\ Idle.buf = <<>> /\ ~Idle.late
  /\ Released \in Statuses /\ ~Released.frozen /\ Released.len = 0
BY DEF Idle, Jobs, Ops, Places, Released, Statuses

LEMMA CallStep ==
  ASSUME CaptureAssumption, CaptureIInv, NEW w \in Workers, Call(w)
  PROVE  CaptureIInv'
<1>1. UNCHANGED <<writer, store, locks, scratch>> /\ job[w] = Idle /\ Where(w)
      /\ job \in [Workers -> Jobs]
  BY DEF Call, CaptureIInv, Types
<1>2. PICK o \in {"freeze", "resume", "genie", "config", "window", "xcorr"}, s \in Nat, n \in Nat :
        Asks(w, o, s, n)
  <2>1. 0 \in Nat /\ Sizes \subseteq Nat /\ 0 .. MaxHead - 1 \subseteq Nat
    BY DEF CaptureAssumption
  <2> QED BY <2>1 DEF Call
<1> DEFINE a == IF o \in {"freeze", "xcorr"} THEN o ELSE "begin"
           j == [Idle EXCEPT !.op = o, !.start = s, !.len = n, !.at = a]
<1>3. a \in {"freeze", "xcorr", "begin"} /\ (a = "freeze" => o = "freeze")
  OBVIOUS
<1>4. a \in Places /\ o \in Ops /\ a \in StepsOf(o)
  BY DEF Places, Ops, StepsOf, Freezing, Correlating
<1> HIDE DEF a
<1>5. j \in Jobs /\ j.op = o /\ j.at = a /\ ~j.found /\ j.buf = <<>>
  BY <1>4, IdleIsAJob DEF Jobs
<1>6. job' = [job EXCEPT ![w] = j]
  BY <1>2 DEF Asks, a
<1> HIDE DEF j
<1>7. job'[w] = j
  BY <1>1, <1>6
<1>8. Where(w)'
  BY <1>1, <1>3, <1>4, <1>5, <1>7, IdleIsAJob DEF Where, Freezing, locks
<1>9. Taken(w)'
  BY <1>3, <1>5, <1>7 DEF Taken
<1> QED BY <1>1, <1>5, <1>6, <1>8, <1>9, LocalSteps

\* The end of a call: nothing is held.
LEMMA IdleIsFree ==
  ASSUME NEW w \in Workers, job'[w] = Idle, lock' # w, fft' # w
  PROVE  Where(w)' /\ Taken(w)' /\ Idle \in Jobs
BY DEF Where, Taken, Idle, StepsOf, Jobs, Ops, Places

\* Answering, and the genie's next ping.
LEMMA BackIsFree ==
  ASSUME CaptureIInv, NEW w \in Workers, Back(w), lock' # w, fft' # w,
         job[w].op = "genie" => job[w].at \notin Freezing
  PROVE  \E j \in Jobs : job' = [job EXCEPT ![w] = j] /\ Where(w)' /\ Taken(w)'
<1>1. job[w] \in Jobs /\ job \in [Workers -> Jobs] /\ Where(w)
  BY DEF CaptureIInv, Types
<1>2. CASE job[w].op = "genie"
  <2> DEFINE j == [Idle EXCEPT !.op = "genie", !.at = "next", !.left = job[w].left,
                               !.found = job[w].found]
  <2>1. job' = [job EXCEPT ![w] = j] /\ job'[w] = j
    BY <1>1, <1>2 DEF Back
  <2>2. j \in Jobs /\ j.op = "genie" /\ j.at = "next" /\ (j.found => job[w].found)
    BY <1>1, IdleIsAJob DEF Jobs, Ops, Places
  <2> HIDE DEF j
  <2>3. Where(w)'
    BY <2>1, <2>2 DEF Where, StepsOf, Freezing
  <2>4. Taken(w)'
    BY <2>1, <2>2 DEF Taken
  <2> QED BY <2>1, <2>2, <2>3, <2>4
<1>3. CASE job[w].op # "genie"
  <2>1. job' = [job EXCEPT ![w] = Idle] /\ job'[w] = Idle
    BY <1>1, <1>3 DEF Back
  <2> QED BY <2>1, IdleIsFree
<1> QED BY <1>2, <1>3

LEMMA AnswerStep ==
  ASSUME CaptureAssumption, CaptureIInv, NEW w \in Workers, Answer(w)
  PROVE  CaptureIInv'
<1>1. Where(w) /\ job[w].at = "answer" /\ Back(w) /\ UNCHANGED <<writer, store, locks, scratch>>
  BY DEF CaptureIInv, Answer
<1>2. lock' # w /\ fft' # w /\ job[w].at \notin Freezing
  BY <1>1 DEF Where, locks, Freezing
<1>3. PICK j \in Jobs : job' = [job EXCEPT ![w] = j] /\ Where(w)' /\ Taken(w)'
  BY <1>1, <1>2, BackIsFree
<1> QED BY <1>1, <1>3, LocalSteps

LEMMA GenieLooksStep ==
  ASSUME CaptureAssumption, CaptureIInv, NEW w \in Workers, GenieLooks(w)
  PROVE  CaptureIInv'
<1> DEFINE a == IF status.frozen THEN "next" ELSE "freeze"
           j == [job[w] EXCEPT !.at = a, !.found = status.frozen, !.left = Pings]
<1>1. UNCHANGED <<writer, store, locks, scratch>> /\ job \in [Workers -> Jobs] /\ Where(w)
      /\ job[w].op = "genie" /\ job[w].at = "begin" /\ status.frozen \in BOOLEAN
  BY DEF GenieLooks, CaptureIInv, Types, Statuses
<1>2. a \in Places /\ a \in StepsOf("genie") /\ (status.frozen => a = "next")
      /\ a \in {"next", "freeze"}
  BY DEF Places, StepsOf, Freezing
<1>3. job' = [job EXCEPT ![w] = j]
  BY <1>1 DEF GenieLooks
<1> HIDE DEF a
<1>4. j \in Jobs /\ j.op = "genie" /\ j.at = a /\ (j.found <=> status.frozen)
  BY <1>1, <1>2 DEF CaptureAssumption, Jobs
<1> HIDE DEF j
<1>5. job'[w] = j
  BY <1>1, <1>3
<1>6. Where(w)'
  BY <1>1, <1>2, <1>4, <1>5 DEF Where, Freezing, locks
<1>7. Taken(w)'
  BY <1>2, <1>4, <1>5 DEF Taken
<1> QED BY <1>1, <1>3, <1>4, <1>6, <1>7, LocalSteps

LEMMA GenieMeasuresStep ==
  ASSUME CaptureAssumption, CaptureIInv, NEW w \in Workers, GenieMeasures(w)
  PROVE  CaptureIInv'
<1>1. UNCHANGED <<writer, store, locks, scratch>> /\ job \in [Workers -> Jobs] /\ Where(w)
      /\ job[w].op = "genie" /\ job[w].at = "next" /\ job[w].left - 1 \in Nat
  <2>1. /\ UNCHANGED <<writer, store, locks, scratch>> /\ job[w].op = "genie"
        /\ job[w].at = "next" /\ job[w].left > 0
    BY DEF GenieMeasures
  <2>2. job \in [Workers -> Jobs] /\ Where(w)
    BY DEF CaptureIInv, Types
  <2>3. job[w].left \in Nat
    BY <2>2 DEF Jobs
  <2> QED BY <2>1, <2>2, <2>3
<1>2. PICK s \in 0 .. MaxHead - 1, n \in Sizes :
        job' = [job EXCEPT ![w].at = "xcorr", ![w].start = s, ![w].len = n, ![w].left = @ - 1]
  BY DEF GenieMeasures
<1> DEFINE j == [job[w] EXCEPT !.at = "xcorr", !.start = s, !.len = n, !.left = @ - 1]
<1>3. job' = [job EXCEPT ![w] = j]
  BY <1>1, <1>2
<1>4. s \in Nat /\ n \in Nat
  BY DEF CaptureAssumption
<1>5. j \in Jobs /\ j.op = "genie" /\ j.at = "xcorr" /\ (j.found => job[w].found)
  BY <1>1, <1>4 DEF Jobs, Places, Correlating
<1> HIDE DEF j
<1>6. job'[w] = j
  BY <1>1, <1>3
<1>7. Where(w)'
  BY <1>1, <1>5, <1>6 DEF Where, StepsOf, Freezing, Correlating, locks
<1>8. Taken(w)'
  BY <1>5, <1>6 DEF Taken
<1> QED BY <1>1, <1>3, <1>5, <1>7, <1>8, LocalSteps

\* What a step that only changes where its caller is leaves of the call.
LEMMA GoesOn ==
  ASSUME NEW w \in Workers, NEW a \in Places, job \in [Workers -> Jobs], Goes(w, a)
  PROVE  \E j \in Jobs : /\ job' = [job EXCEPT ![w] = j] /\ job'[w] = j
                         /\ j = [job[w] EXCEPT !.at = a]
<1> DEFINE j == [job[w] EXCEPT !.at = a]
<1>1. job' = [job EXCEPT ![w] = j]
  BY DEF Goes
<1>2. j \in Jobs
  BY DEF Jobs
<1> QED BY <1>1, <1>2

LEMMA XcorrTakeStep ==
  ASSUME CaptureAssumption, CaptureIInv, NEW w \in Workers, XcorrTake(w)
  PROVE  CaptureIInv'
<1>1. UNCHANGED <<writer, store, lock, scratch>> /\ job \in [Workers -> Jobs] /\ Where(w)
      /\ job[w].at = "xcorr" /\ fft = NoWorker /\ fft' = w /\ Goes(w, "read")
      /\ scratch \in Seq(Int) /\ job[w] \in Jobs
  BY DEF XcorrTake, CaptureIInv, Types
<1>2. "read" \in Places
  BY DEF Places, Correlating
<1>3. PICK j \in Jobs : job' = [job EXCEPT ![w] = j] /\ job'[w] = j /\ j = [job[w] EXCEPT !.at = "read"]
  BY <1>1, <1>2, GoesOn
<1>4. j.op = job[w].op /\ j.at = "read" /\ j.found = job[w].found
  BY <1>1, <1>3 DEF Jobs
<1>5. Where(w)'
  BY <1>1, <1>3, <1>4 DEF Where, StepsOf, Freezing, Correlating
<1>6. Taken(w)'
  BY <1>3, <1>4 DEF Taken
<1> QED BY <1>1, <1>3, <1>5, <1>6, StepsAlone DEF Passed

\* What is taken out of the snapshot is what it is said to hold there.
LEMMA SnapshotIsExact ==
  ASSUME CaptureIInv, lock = NoWorker, NEW start \in Int, NEW len \in Nat, InSnapshot(start, len)
  PROVE  FromSnapshot(start, len) \in Seq(Int)
         /\ (~status.late => Exactly(FromSnapshot(start, len), start, len))
<1>1. snap \in Seq(Int) /\ status \in Statuses /\ status.len <= Len(snap)
      /\ status.start \in Int /\ status.len \in Nat
  BY DEF CaptureIInv, Types, SnapFits, Statuses
<1>2. status.frozen /\ start >= status.start /\ start + len <= status.start + status.len
  BY DEF InSnapshot
<1>3. ASSUME NEW k \in 1 .. len
      PROVE  /\ snap[start - status.start + k] \in Int
             /\ ~status.late => snap[start - status.start + k] = start + k - 1
  <2> DEFINE i == start - status.start + k
  <2>1. i \in 1 .. status.len /\ i \in 1 .. Len(snap) /\ status.start + i - 1 = start + k - 1
    <3>1. PICK a \in Int, l \in Nat, m \in Nat : a = status.start /\ l = status.len /\ m = Len(snap)
      BY <1>1
    <3>2. start >= a /\ start + len <= a + l /\ l <= m
      BY <1>1, <1>2, <3>1
    <3>3. start - a + k \in 1 .. l /\ start - a + k \in 1 .. m
      BY <3>2
    <3>4. a + (start - a + k) - 1 = start + k - 1
      OBVIOUS
    <3> QED BY <3>1, <3>3, <3>4
  <2>2. snap[i] \in Int
    BY <1>1, <2>1
  <2>3. ~status.late => snap[i] = status.start + i - 1
    BY <1>2, <2>1 DEF CaptureIInv, SnapshotHoldsTheRing
  <2> QED BY <2>1, <2>2, <2>3
<1> QED BY <1>3 DEF FromSnapshot, Exactly

LEMMA XcorrReadStep ==
  ASSUME CaptureAssumption, CaptureIInv, NEW w \in Workers, XcorrRead(w)
  PROVE  CaptureIInv'
<1>1. UNCHANGED <<writer, store, lock>> /\ job \in [Workers -> Jobs] /\ job[w] \in Jobs /\ Where(w)
      /\ job[w].at = "read" /\ lock = NoWorker /\ fft = w /\ lock' # w /\ scratch \in Seq(Int)
  BY DEF XcorrRead, CaptureIInv, CaptureAssumption, Types, Where
<1>2. job[w].start \in Int /\ job[w].len \in Nat /\ status.late \in BOOLEAN
  BY <1>1 DEF Jobs, CaptureIInv, Types, Statuses
<1> DEFINE S == InSnapshot(job[w].start, job[w].len)
<1>3. CASE S
  <2> DEFINE j == [job[w] EXCEPT !.at = "correlate", !.late = status.late]
  <2>1. scratch' = FromSnapshot(job[w].start, job[w].len) /\ job' = [job EXCEPT ![w] = j] /\ fft' = fft
    BY <1>1, <1>3 DEF XcorrRead
  <2>2. j \in Jobs /\ j.op = job[w].op /\ j.at = "correlate" /\ j.found = job[w].found
        /\ j.start = job[w].start /\ j.len = job[w].len /\ (j.late <=> status.late)
    BY <1>1, <1>2 DEF Jobs, Places, Correlating
  <2> HIDE DEF j
  <2>3. job'[w] = j
    BY <1>1, <2>1
  <2>4. scratch' \in Seq(Int) /\ (~status.late => Exactly(scratch', j.start, j.len))
    BY <1>1, <1>2, <1>3, <2>1, <2>2, SnapshotIsExact
  <2>5. Where(w)'
    BY <1>1, <2>1, <2>2, <2>3 DEF Where, StepsOf, Freezing, Correlating
  <2>6. Taken(w)'
    BY <2>2, <2>3, <2>4 DEF Taken, Exactly
  <2> QED BY <1>1, <2>1, <2>2, <2>4, <2>5, <2>6, StepsAlone DEF Passed
<1>4. CASE ~S
  <2>1. Back(w) /\ fft' = NoWorker /\ scratch' = scratch
    BY <1>1, <1>4 DEF XcorrRead
  <2>2. fft' # w /\ job[w].at \notin Freezing
    BY <1>1, <2>1 DEF CaptureAssumption, Freezing
  <2>3. PICK j \in Jobs : job' = [job EXCEPT ![w] = j] /\ Where(w)' /\ Taken(w)'
    BY <1>1, <2>1, <2>2, BackIsFree
  <2> QED BY <1>1, <2>1, <2>3, StepsAlone DEF Passed
<1> QED BY <1>3, <1>4

LEMMA CorrelateStep ==
  ASSUME CaptureAssumption, CaptureIInv, NEW w \in Workers, Correlate(w)
  PROVE  CaptureIInv'
<1> DEFINE j == [job[w] EXCEPT !.at = "answer", !.buf = scratch]
<1>1. UNCHANGED <<writer, store, lock, scratch>> /\ job \in [Workers -> Jobs] /\ job[w] \in Jobs
      /\ Where(w) /\ Taken(w) /\ job[w].at = "correlate" /\ fft = w /\ fft' = NoWorker
      /\ scratch \in Seq(Int) /\ fft' # w
  BY DEF Correlate, CaptureIInv, CaptureAssumption, Types, Where
<1>2. job' = [job EXCEPT ![w] = j]
  BY <1>1 DEF Correlate
<1>3. j \in Jobs /\ j.op = job[w].op /\ j.at = "answer" /\ j.found = job[w].found /\ j.buf = scratch
      /\ j.start = job[w].start /\ j.len = job[w].len /\ j.late = job[w].late
  BY <1>1 DEF Jobs, Places
<1> HIDE DEF j
<1>4. job'[w] = j
  BY <1>1, <1>2
<1>5. Where(w)'
  BY <1>1, <1>3, <1>4 DEF Where, StepsOf, Freezing, Correlating
<1>6. Taken(w)'
  BY <1>1, <1>3, <1>4 DEF Taken, Exactly
<1> QED BY <1>1, <1>2, <1>3, <1>5, <1>6, StepsAlone DEF Passed

----------------------------------------------------------------------------
(* Reading the ring.                                                       *)

\* One frame more of a copy.
LEMMA OneMore ==
  ASSUME CaptureAssumption, Types, NEW s \in Nat, NEW n \in Nat, s + n <= head,
         NEW b \in Seq(Int), Len(b) < n, NEW f \in InSlot(s + Len(b)),
         Overtaken(s) \/ \A k \in 1 .. Len(b) : b[k] = s + k - 1
  PROVE  /\ f \in Int /\ Append(b, f) \in Seq(Int) /\ Len(Append(b, f)) = Len(b) + 1
         /\ Append(b, f)[Len(b) + 1] = f /\ \A k \in 1 .. Len(b) : Append(b, f)[k] = b[k]
         /\ Overtaken(s) \/ \A k \in 1 .. Len(b) + 1 : Append(b, f)[k] = s + k - 1
<1>1. PICK m \in Nat : m = Len(b)
  OBVIOUS
<1>2. s + m \in Nat /\ s + m \in Int /\ s <= s + m /\ s + m < head /\ f \in InSlot(s + m)
  BY <1>1 DEF Types, CaptureAssumption
<1>3. f \in Int
  BY <1>2, SlotsHoldIntegers
<1>4. Append(b, f) \in Seq(Int) /\ Len(Append(b, f)) = Len(b) + 1
      /\ Append(b, f)[Len(b) + 1] = f /\ \A k \in 1 .. Len(b) : Append(b, f)[k] = b[k]
  BY <1>3
<1>5. f = s + m \/ Overtaken(s)
  BY <1>2, LoadsAreExact
<1>6. ASSUME ~Overtaken(s), NEW k \in 1 .. Len(b) + 1 PROVE Append(b, f)[k] = s + k - 1
  <2>1. CASE k \in 1 .. Len(b)
    BY <1>4, <1>6, <2>1
  <2>2. CASE k = m + 1
    <3>1. s + k - 1 = s + m
      BY <2>2
    <3> QED BY <1>1, <1>4, <1>5, <1>6, <2>2, <3>1
  <2> QED BY <1>1, <2>1, <2>2
<1> QED BY <1>3, <1>4, <1>6

\* A copy that is whole and was not overtaken.
LEMMA WholeCopy ==
  ASSUME NEW s \in Int, NEW n \in Nat, NEW b \in Seq(Int), Len(b) = n,
         \A k \in 1 .. Len(b) : b[k] = s + k - 1
  PROVE  Exactly(b, s, n)
BY DEF Exactly

LEMMA WindowLiveStep ==
  ASSUME CaptureAssumption, CaptureIInv, NEW w \in Workers, WindowLive(w)
  PROVE  CaptureIInv'
<1>1. UNCHANGED <<writer, store, locks, scratch>> /\ job \in [Workers -> Jobs] /\ job[w] \in Jobs
      /\ Where(w) /\ Taken(w) /\ job[w].at = "live"
  BY DEF WindowLive, CaptureIInv, Types
<1>2. PICK f \in InSlot(job[w].start + (Len(job[w].buf) + 1) - 1) :
        job' = [job EXCEPT ![w].buf = Append(@, f)]
  BY DEF WindowLive
<1>3. PICK b \in Seq(Int), s \in Nat, n \in Nat :
        b = job[w].buf /\ s = job[w].start /\ n = job[w].len
  BY <1>1 DEF Taken, Jobs
<1>4. Len(b) < n
  BY <1>3 DEF WindowLive
<1>5. f \in InSlot(s + Len(b))
  <2>1. s + (Len(b) + 1) - 1 = s + Len(b)
    OBVIOUS
  <2> QED BY <1>2, <1>3, <2>1
<1>6. /\ f \in Int /\ Append(b, f) \in Seq(Int) /\ Len(Append(b, f)) = Len(b) + 1
      /\ Overtaken(s) \/ \A k \in 1 .. Len(b) + 1 : Append(b, f)[k] = s + k - 1
  <2>1. s + n <= head /\ (Overtaken(s) \/ \A k \in 1 .. Len(b) : b[k] = s + k - 1)
    BY <1>1, <1>3 DEF Taken
  <2>2. Types
    BY DEF CaptureIInv
  <2> QED BY <1>4, <1>5, <2>1, <2>2, OneMore
<1> DEFINE c == Append(b, f)
           j == [job[w] EXCEPT !.buf = c]
<1>7. job' = [job EXCEPT ![w] = j]
  BY <1>1, <1>2, <1>3
<1> HIDE DEF c
<1>8. j \in Jobs /\ j.op = job[w].op /\ j.at = "live" /\ j.found = job[w].found /\ j.buf = c
      /\ j.start = s /\ j.len = n
  BY <1>1, <1>3, <1>6 DEF Jobs, c
<1> HIDE DEF j
<1>9. job'[w] = j
  BY <1>1, <1>7
<1>10. Where(w)'
  BY <1>1, <1>8, <1>9 DEF Where, locks
<1>11. Taken(w)'
  <2>1. Overtaken(s)' = Overtaken(s) /\ UNCHANGED <<head, status>>
    BY <1>1 DEF Overtaken, Lapped, Late, writer, store
  <2>2. s + n <= head /\ n > 0 /\ ~status.frozen
    BY <1>1, <1>3 DEF Taken
  <2>3. Len(c) <= n /\ (Overtaken(s)' \/ \A k \in 1 .. Len(c) : c[k] = s + k - 1)
    BY <1>4, <1>6, <2>1 DEF c
  <2> QED BY <1>8, <1>9, <2>1, <2>2, <2>3 DEF Taken
<1> QED BY <1>1, <1>7, <1>8, <1>10, <1>11, LocalSteps

LEMMA WindowStep ==
  ASSUME CaptureAssumption, CaptureIInv, NEW w \in Workers, Window(w)
  PROVE  CaptureIInv'
<1>1. UNCHANGED <<writer, store, fft, scratch>> /\ job \in [Workers -> Jobs] /\ job[w] \in Jobs
      /\ Where(w) /\ Taken(w) /\ job[w].op = "window" /\ job[w].at = "begin" /\ lock = NoWorker
      /\ fft # w /\ w # NoWorker
  BY DEF Window, CaptureIInv, CaptureAssumption, Types, Where
<1>2. PICK s \in Nat, n \in Nat : s = job[w].start /\ n = job[w].len
  BY <1>1 DEF Jobs
<1>3. CASE InSnapshot(s, n) /\ job' = [job EXCEPT ![w].at = "answer", ![w].buf = FromSnapshot(s, n),
                                                 ![w].late = status.late] /\ UNCHANGED lock
  <2> DEFINE b == FromSnapshot(s, n)
             j == [job[w] EXCEPT !.at = "answer", !.buf = b, !.late = status.late]
  <2>1. b \in Seq(Int) /\ (~status.late => Exactly(b, s, n)) /\ status.late \in BOOLEAN
    BY <1>1, <1>3, SnapshotIsExact DEF CaptureIInv, Types, Statuses
  <2>2. job' = [job EXCEPT ![w] = j]
    BY <1>1, <1>3
  <2> HIDE DEF b
  <2>3. j \in Jobs /\ j.op = "window" /\ j.at = "answer" /\ j.found = job[w].found /\ j.buf = b
        /\ j.start = s /\ j.len = n /\ (j.late <=> status.late)
    BY <1>1, <1>2, <2>1 DEF Jobs, Places
  <2> HIDE DEF j
  <2>4. job'[w] = j
    BY <1>1, <2>2
  <2>5. Where(w)'
    BY <1>1, <1>3, <2>3, <2>4 DEF Where, StepsOf, Freezing
  <2>6. Taken(w)'
    BY <2>1, <2>3, <2>4 DEF Taken, Exactly
  <2> QED BY <1>1, <1>3, <2>2, <2>3, <2>5, <2>6, LocalSteps DEF locks
<1>4. CASE ~status.frozen /\ Readable(s, n) /\ lock' = w /\ Goes(w, "live")
  <2>1. "live" \in Places
    BY DEF Places
  <2>2. PICK j \in Jobs : job' = [job EXCEPT ![w] = j] /\ job'[w] = j /\ j = [job[w] EXCEPT !.at = "live"]
    BY <1>1, <1>4, <2>1, GoesOn
  <2>3. j.op = "window" /\ j.at = "live" /\ j.found = job[w].found /\ j.start = s /\ j.len = n
        /\ j.buf = <<>>
    BY <1>1, <1>2, <2>2 DEF Jobs, Taken
  <2>4. Where(w)'
    BY <1>1, <1>4, <2>2, <2>3 DEF Where, StepsOf, Freezing
  <2>5. n > 0 /\ s + n <= head' /\ ~status'.frozen
    BY <1>1, <1>4 DEF Readable, writer, store
  <2>6. Taken(w)'
    <3>1. Len(j.buf) <= n /\ 1 .. Len(j.buf) = {}
      BY <2>3
    <3>2. j = job'[w] /\ s = j.start /\ n = j.len /\ j.at = "live"
      BY <2>2, <2>3
    <3> QED BY <2>5, <3>1, <3>2 DEF Taken
  <2>7. SnapFits' /\ LengthFollows' /\ SnapshotHoldsTheRing'
    BY <1>1, <1>4 DEF CaptureIInv, SnapFits, LengthFollows, SnapshotHoldsTheRing, store
  <2> QED BY <1>1, <1>4, <2>2, <2>4, <2>6, <2>7, StepsUnderLock DEF Passed, store, CaptureIInv, Types
<1>5. CASE job' = [job EXCEPT ![w] = Idle] /\ UNCHANGED lock
  <2>1. job'[w] = Idle /\ lock' # w /\ fft' # w
    BY <1>1, <1>5
  <2> QED BY <1>1, <1>5, <2>1, IdleIsFree, LocalSteps DEF locks
<1>6. \/ /\ InSnapshot(s, n)
         /\ job' = [job EXCEPT ![w].at = "answer", ![w].buf = FromSnapshot(s, n), ![w].late = status.late]
         /\ UNCHANGED lock
      \/ ~status.frozen /\ Readable(s, n) /\ lock' = w /\ Goes(w, "live")
      \/ job' = [job EXCEPT ![w] = Idle] /\ UNCHANGED lock
  BY <1>2 DEF Window
<1> QED BY <1>3, <1>4, <1>5, <1>6

LEMMA WindowEndsStep ==
  ASSUME CaptureAssumption, CaptureIInv, NEW w \in Workers, WindowEnds(w)
  PROVE  CaptureIInv'
<1>1. UNCHANGED <<writer, store, fft, scratch>> /\ job \in [Workers -> Jobs] /\ job[w] \in Jobs
      /\ Where(w) /\ Taken(w) /\ job[w].at = "live" /\ lock = w /\ lock' = NoWorker
      /\ fft # w /\ w # NoWorker
  BY DEF WindowEnds, CaptureIInv, CaptureAssumption, Types, Where
<1>2. SnapFits' /\ LengthFollows' /\ SnapshotHoldsTheRing'
  BY <1>1 DEF CaptureIInv, SnapFits, LengthFollows, SnapshotHoldsTheRing, store, Taken, CaptureAssumption
<1>3. PICK s \in Nat, n \in Nat, b \in Seq(Int) :
        s = job[w].start /\ n = job[w].len /\ b = job[w].buf
  BY <1>1 DEF Jobs
<1>4. CASE Lapped(s)
  <2>1. job' = [job EXCEPT ![w] = Idle] /\ job'[w] = Idle /\ lock' # w /\ fft' # w
    BY <1>1, <1>3, <1>4 DEF WindowEnds
  <2>2. Where(w)' /\ Taken(w)' /\ Idle \in Jobs
    BY <2>1, IdleIsFree
  <2> QED BY <1>1, <1>2, <2>1, <2>2, StepsUnderLock DEF Passed, store, CaptureIInv, Types
<1>5. CASE ~Lapped(s)
  <2> DEFINE l == Late(s)
             j == [job[w] EXCEPT !.at = "answer", !.late = l]
  <2>1. job' = [job EXCEPT ![w] = j] /\ l \in BOOLEAN
    BY <1>1, <1>3, <1>5 DEF WindowEnds, Late
  <2>2. ~l => Exactly(b, s, n)
    <3>1. ASSUME ~l PROVE ~Overtaken(s)
      BY <1>5, <3>1 DEF Overtaken
    <3>2. Len(b) = n
      BY <1>3 DEF WindowEnds
    <3>3. Overtaken(s) \/ \A k \in 1 .. Len(b) : b[k] = s + k - 1
      BY <1>1, <1>3 DEF Taken
    <3> QED BY <3>1, <3>2, <3>3, WholeCopy
  <2> HIDE DEF l
  <2>3. j \in Jobs /\ j.op = job[w].op /\ j.at = "answer" /\ j.found = job[w].found /\ j.buf = b
        /\ j.start = s /\ j.len = n /\ j.late = l
    BY <1>1, <1>3, <2>1 DEF Jobs, Places
  <2> HIDE DEF j
  <2>4. job'[w] = j
    BY <1>1, <2>1
  <2>5. Where(w)'
    BY <1>1, <2>3, <2>4 DEF Where, StepsOf, Freezing, Correlating
  <2>6. Taken(w)'
    BY <2>2, <2>3, <2>4 DEF Taken, Exactly
  <2> QED BY <1>1, <1>2, <2>1, <2>3, <2>5, <2>6, StepsUnderLock DEF Passed, store, CaptureIInv, Types
<1> QED BY <1>4, <1>5

----------------------------------------------------------------------------
(* Freezing.                                                               *)

\* Where the one is who holds m_ for a freeze.
LEMMA FreezerHolds ==
  ASSUME CaptureAssumption, CaptureIInv, NEW w \in Workers, job[w].at \in {"aim", "check", "copy"}
  PROVE  /\ lock = w /\ fft # w /\ w # NoWorker /\ job[w].op \in {"freeze", "genie"}
         /\ ~job[w].found /\ job[w] \in Jobs /\ job \in [Workers -> Jobs] /\ Where(w) /\ Taken(w)
<1>1. Where(w) /\ Taken(w) /\ job[w] \in Jobs /\ job \in [Workers -> Jobs]
  BY DEF CaptureIInv, Types
<1>2. lock = w /\ fft # w /\ w # NoWorker /\ job[w].op \in {"freeze", "genie"}
  BY <1>1 DEF CaptureAssumption, Where, StepsOf, Ops, Jobs, Correlating
<1>3. ~job[w].found
  BY <1>1 DEF Where, Freezing
<1> QED BY <1>1, <1>2, <1>3

\* The end of freeze(), one way or the other.
LEMMA FreezeIsDone ==
  ASSUME CaptureIInv, NEW w \in Workers, NEW b \in BOOLEAN, Done(w, b), lock' # w, fft' # w,
         job[w].op \in {"freeze", "genie"}
  PROVE  \E j \in Jobs : job' = [job EXCEPT ![w] = j] /\ Where(w)' /\ Taken(w)'
<1>1. job[w] \in Jobs /\ job \in [Workers -> Jobs]
  BY DEF CaptureIInv, Types
<1>2. CASE job[w].op = "genie" /\ b
  <2> DEFINE j == [Idle EXCEPT !.op = "genie", !.at = "next", !.left = job[w].left]
  <2>1. job' = [job EXCEPT ![w] = j] /\ job'[w] = j
    BY <1>1, <1>2 DEF Done
  <2>2. j \in Jobs /\ j.op = "genie" /\ j.at = "next" /\ ~j.found
    BY <1>1, IdleIsAJob DEF Jobs, Ops, Places
  <2> HIDE DEF j
  <2>3. Where(w)'
    BY <2>1, <2>2 DEF Where, StepsOf, Freezing
  <2>4. Taken(w)'
    BY <2>1, <2>2 DEF Taken
  <2> QED BY <2>1, <2>2, <2>3, <2>4
<1>3. CASE ~(job[w].op = "genie" /\ b)
  <2>1. job' = [job EXCEPT ![w] = Idle] /\ job'[w] = Idle
    BY <1>1, <1>3 DEF Done
  <2> QED BY <2>1, IdleIsFree
<1> QED BY <1>2, <1>3

LEMMA FreezeFailsStep ==
  ASSUME CaptureAssumption, CaptureIInv, NEW w \in Workers, FreezeFails(w),
         job[w].at \in {"aim", "check", "copy"}
  PROVE  CaptureIInv'
<1>1. UNCHANGED <<writer, snap, analyze, pending, refused, fft, scratch>> /\ lock = w
      /\ lock' = NoWorker /\ status' = Released /\ Done(w, FALSE) /\ fft # w /\ w # NoWorker
      /\ job[w].op \in {"freeze", "genie"}
  BY FreezerHolds DEF FreezeFails
<1>2. PICK j \in Jobs : job' = [job EXCEPT ![w] = j] /\ Where(w)' /\ Taken(w)'
  BY <1>1, FreezeIsDone
<1>3. SnapFits' /\ LengthFollows' /\ SnapshotHoldsTheRing'
  BY <1>1 DEF CaptureIInv, SnapFits, LengthFollows, SnapshotHoldsTheRing, Released
<1> QED BY <1>1, <1>2, <1>3, IdleIsAJob, StepsUnderLock DEF Passed, CaptureIInv, Types

LEMMA FrozenStep ==
  ASSUME CaptureAssumption, CaptureIInv, NEW w \in Workers, Frozen(w), job[w].at = "copy",
         Len(job[w].buf) = job[w].len, ~Lapped(job[w].start)
  PROVE  CaptureIInv'
<1>1. UNCHANGED <<writer, snap, analyze, pending, refused, fft, scratch>> /\ lock = w
      /\ lock' = NoWorker /\ Done(w, TRUE) /\ fft # w /\ w # NoWorker
      /\ job[w].op \in {"freeze", "genie"} /\ Taken(w) /\ job[w] \in Jobs
  BY FreezerHolds DEF Frozen
<1>2. PICK j \in Jobs : job' = [job EXCEPT ![w] = j] /\ Where(w)' /\ Taken(w)'
  BY <1>1, FreezeIsDone
<1>3. PICK s \in Nat, n \in Nat, b \in Seq(Int), l \in BOOLEAN :
        s = job[w].start /\ n = job[w].len /\ b = job[w].buf /\ l = Late(s)
  BY <1>1 DEF Jobs, Late
<1>4. status' = [frozen |-> TRUE, start |-> s, len |-> n, late |-> l]
  BY <1>3 DEF Frozen
<1>5. status' \in Statuses
  BY <1>4 DEF Statuses
<1>6. n > 0 /\ n <= Len(snap) /\ Len(b) = n /\ \A k \in 1 .. n : snap[k] = b[k]
  BY <1>1, <1>3 DEF Taken
<1>7. ASSUME ~l, NEW k \in 1 .. n PROVE snap[k] = s + k - 1
  <2>1. ~Overtaken(s)
    BY <1>3, <1>7 DEF Overtaken
  <2>2. \A i \in 1 .. Len(b) : b[i] = s + i - 1
    BY <1>1, <1>3, <2>1 DEF Taken
  <2> QED BY <1>6, <2>2
<1>8. SnapFits' /\ LengthFollows'
  BY <1>1, <1>4, <1>6 DEF CaptureIInv, SnapFits, LengthFollows
<1>9. SnapshotHoldsTheRing'
  BY <1>1, <1>4, <1>7 DEF SnapshotHoldsTheRing
<1> QED BY <1>1, <1>2, <1>5, <1>8, <1>9, StepsUnderLock DEF Passed, CaptureIInv, Types

LEMMA FreezeLappedStep ==
  ASSUME CaptureAssumption, CaptureIInv, NEW w \in Workers, FreezeLapped(w),
         job[w].at \in {"check", "copy"}
  PROVE  CaptureIInv'
<1>1. CASE FreezeFails(w)
  BY <1>1, FreezeFailsStep
<1>2. CASE /\ job' = [job EXCEPT ![w].at = "aim", ![w].tries = 1]
           /\ UNCHANGED <<writer, store, locks, scratch>>
  <2> DEFINE j == [job[w] EXCEPT !.at = "aim", !.tries = 1]
  <2>1. job \in [Workers -> Jobs] /\ job[w] \in Jobs /\ Where(w)
        /\ job[w].op \in {"freeze", "genie"} /\ ~job[w].found
    BY FreezerHolds
  <2>2. job' = [job EXCEPT ![w] = j]
    BY <1>2, <2>1
  <2>3. j \in Jobs /\ j.op = job[w].op /\ j.at = "aim" /\ ~j.found
    BY <2>1 DEF Jobs, Places, Freezing
  <2> HIDE DEF j
  <2>4. job'[w] = j
    BY <2>1, <2>2
  <2>5. Where(w)'
    BY <1>2, <2>1, <2>3, <2>4 DEF Where, StepsOf, Freezing, locks
  <2>6. Taken(w)'
    BY <2>3, <2>4 DEF Taken
  <2> QED BY <1>2, <2>2, <2>3, <2>5, <2>6, LocalSteps
<1> QED BY <1>1, <1>2 DEF FreezeLapped

LEMMA FreezeAimStep ==
  ASSUME CaptureAssumption, CaptureIInv, NEW w \in Workers, FreezeAim(w)
  PROVE  CaptureIInv'
<1>1. job[w].at = "aim"
  BY DEF FreezeAim
<1>2. job \in [Workers -> Jobs] /\ job[w] \in Jobs /\ Where(w)
      /\ job[w].op \in {"freeze", "genie"} /\ ~job[w].found
  BY <1>1, FreezerHolds
<1>3. CASE FreezeFails(w)
  BY <1>1, <1>3, FreezeFailsStep
<1>4. CASE ~FreezeFails(w)
  <2>1. head > 0 /\ Want > 0 /\ UNCHANGED <<writer, store, locks, scratch>>
    BY <1>4 DEF FreezeAim
  <2>2. head \in Nat /\ Want \in Int /\ Want <= Len(snap) /\ Len(snap) \in Nat
    BY DEF Want, AtMost, CaptureIInv, Types, CaptureAssumption
  <2> DEFINE s == IF head > Want THEN head - Want ELSE 0
             n == head - s
             j == [job[w] EXCEPT !.at = "check", !.start = s, !.len = n]
  <2>3. s \in Nat /\ n \in Nat /\ s + n = head /\ n <= Len(snap)
    BY <2>1, <2>2
  <2>4. job' = [job EXCEPT ![w] = j]
    BY <1>2, <1>4 DEF FreezeAim
  <2> HIDE DEF s, n
  <2>5. j \in Jobs /\ j.op = job[w].op /\ j.at = "check" /\ ~j.found /\ j.start = s /\ j.len = n
    BY <1>2, <2>3 DEF Jobs, Places, Freezing
  <2> HIDE DEF j
  <2>6. job'[w] = j
    BY <1>2, <2>4
  <2>7. Where(w)'
    BY <1>1, <1>2, <2>1, <2>5, <2>6 DEF Where, StepsOf, Freezing, locks
  <2>8. Taken(w)'
    BY <2>1, <2>2, <2>3, <2>5, <2>6 DEF Taken, writer, store
  <2> QED BY <2>1, <2>4, <2>5, <2>7, <2>8, LocalSteps
<1> QED BY <1>3, <1>4

LEMMA FreezeCheckStep ==
  ASSUME CaptureAssumption, CaptureIInv, NEW w \in Workers, FreezeCheck(w)
  PROVE  CaptureIInv'
<1>1. job[w].at = "check"
  BY DEF FreezeCheck
<1>2. job \in [Workers -> Jobs] /\ job[w] \in Jobs /\ Where(w) /\ Taken(w)
      /\ job[w].op \in {"freeze", "genie"} /\ ~job[w].found
  BY <1>1, FreezerHolds
<1>3. CASE FreezeLapped(w)
  BY <1>1, <1>3, FreezeLappedStep
<1>4. CASE ~FreezeLapped(w)
  <2> DEFINE j == [job[w] EXCEPT !.at = "copy", !.buf = <<>>]
  <2>1. Readable(job[w].start, job[w].len) /\ UNCHANGED <<writer, store, locks, scratch>>
        /\ job' = [job EXCEPT ![w] = j]
    BY <1>2, <1>4 DEF FreezeCheck
  <2>2. PICK s \in Nat, n \in Nat : s = job[w].start /\ n = job[w].len
    BY <1>2 DEF Jobs
  <2>3. j \in Jobs /\ j.op = job[w].op /\ j.at = "copy" /\ ~j.found /\ j.start = s /\ j.len = n
        /\ j.buf = <<>>
    <3>0. <<>> \in Seq(Int)
      OBVIOUS
    <3>1. PICK e \in Seq(Int) : e = <<>>
      BY <3>0
    <3>2. j = [job[w] EXCEPT !.at = "copy", !.buf = e]
      BY <3>1
    <3> HIDE DEF j
    <3>3. j \in Jobs /\ j.op = job[w].op /\ j.at = "copy" /\ ~j.found /\ j.start = s /\ j.len = n
          /\ j.buf = e
      BY <1>2, <2>2, <3>2 DEF Jobs, Places, Freezing
    <3> QED BY <3>1, <3>3
  <2> HIDE DEF j
  <2>4. job'[w] = j
    BY <1>2, <2>1
  <2>5. Where(w)'
    BY <1>1, <1>2, <2>1, <2>3, <2>4 DEF Where, StepsOf, Freezing, locks
  <2>6. n > 0 /\ s + n <= head' /\ n <= Len(snap')
    BY <1>1, <1>2, <2>1, <2>2 DEF Taken, Readable, writer, store
  <2>7. Taken(w)'
    <3>1. Len(j.buf) <= n /\ 1 .. Len(j.buf) = {}
      BY <2>3
    <3> QED BY <2>3, <2>4, <2>6, <3>1 DEF Taken
  <2> QED BY <2>1, <2>3, <2>5, <2>7, LocalSteps
<1> QED BY <1>3, <1>4

LEMMA FreezeCopyStep ==
  ASSUME CaptureAssumption, CaptureIInv, NEW w \in Workers, FreezeCopy(w)
  PROVE  CaptureIInv'
<1>1. job[w].at = "copy"
  BY DEF FreezeCopy
<1>2. job \in [Workers -> Jobs] /\ job[w] \in Jobs /\ Where(w) /\ Taken(w) /\ lock = w
      /\ w # NoWorker /\ UNCHANGED <<writer, analyze, pending, status, refused, locks, scratch>>
      /\ snap \in Seq(Int)
  BY <1>1, FreezerHolds DEF FreezeCopy, CaptureIInv, Types
<1>3. PICK b \in Seq(Int), s \in Nat, n \in Nat :
        b = job[w].buf /\ s = job[w].start /\ n = job[w].len
  BY <1>2 DEF Jobs
<1>4. Len(b) < n
  BY <1>3 DEF FreezeCopy
<1>5. PICK f \in InSlot(s + Len(b)) :
        /\ snap' = [snap EXCEPT ![Len(b) + 1] = f]
        /\ job' = [job EXCEPT ![w].buf = Append(@, f)]
  <2>1. s + (Len(b) + 1) - 1 = s + Len(b)
    OBVIOUS
  <2> QED BY <1>3, <2>1 DEF FreezeCopy
<1>6. s + n <= head /\ n <= Len(snap) /\ n > 0
      /\ (Overtaken(s) \/ \A k \in 1 .. Len(b) : b[k] = s + k - 1)
      /\ \A k \in 1 .. Len(b) : snap[k] = b[k]
  BY <1>1, <1>2, <1>3 DEF Taken
<1> DEFINE c == Append(b, f)
           j == [job[w] EXCEPT !.buf = c]
<1>7. /\ f \in Int /\ c \in Seq(Int) /\ Len(c) = Len(b) + 1
      /\ c[Len(b) + 1] = f /\ \A k \in 1 .. Len(b) : c[k] = b[k]
      /\ Overtaken(s) \/ \A k \in 1 .. Len(b) + 1 : c[k] = s + k - 1
  BY <1>4, <1>5, <1>6, OneMore DEF CaptureIInv
<1>8. job' = [job EXCEPT ![w] = j]
  BY <1>2, <1>3, <1>5
<1> HIDE DEF c
<1>9. j \in Jobs /\ j.op = job[w].op /\ j.at = "copy" /\ j.found = job[w].found /\ j.buf = c
      /\ j.start = s /\ j.len = n
  BY <1>1, <1>2, <1>3, <1>7 DEF Jobs
<1> HIDE DEF j
<1>10. job'[w] = j
  BY <1>2, <1>8
<1>11. snap' \in Seq(Int) /\ Len(snap') = Len(snap)
       /\ \A k \in 1 .. Len(c) : snap'[k] = c[k]
  <2>1. Len(b) + 1 \in 1 .. Len(snap) /\ Len(b) \in Nat
    BY <1>4, <1>6
  <2>2. snap' \in Seq(Int) /\ Len(snap') = Len(snap)
    BY <1>2, <1>5, <1>7, <2>1
  <2>3. ASSUME NEW k \in 1 .. Len(c) PROVE snap'[k] = c[k]
    <3>1. CASE k = Len(b) + 1
      BY <1>2, <1>5, <1>7, <2>1, <3>1
    <3>2. CASE k \in 1 .. Len(b)
      <4>1. snap'[k] = snap[k]
        BY <1>2, <1>5, <2>1, <3>2
      <4> QED BY <1>6, <1>7, <3>2, <4>1
    <3> QED BY <1>7, <2>1, <3>1, <3>2
  <2> QED BY <2>2, <2>3
<1>12. Where(w)'
  BY <1>1, <1>2, <1>9, <1>10 DEF Where, locks
<1>13. Taken(w)'
  <2>1. Overtaken(s)' = Overtaken(s) /\ UNCHANGED head
    BY <1>2 DEF Overtaken, Lapped, Late, writer
  <2>2. Len(c) <= n /\ (Overtaken(s)' \/ \A k \in 1 .. Len(c) : c[k] = s + k - 1)
    BY <1>4, <1>7, <2>1
  <2> QED BY <1>6, <1>9, <1>10, <1>11, <2>1, <2>2 DEF Taken
<1>14. SnapFits' /\ LengthFollows' /\ SnapshotHoldsTheRing'
  BY <1>2, <1>11 DEF CaptureIInv, SnapFits, LengthFollows, SnapshotHoldsTheRing, locks
<1> QED BY <1>2, <1>8, <1>9, <1>11, <1>12, <1>13, <1>14, StepsUnderLock DEF Passed, locks, CaptureIInv, Types

LEMMA FreezeEndsStep ==
  ASSUME CaptureAssumption, CaptureIInv, NEW w \in Workers, FreezeEnds(w)
  PROVE  CaptureIInv'
BY FreezeLappedStep, FrozenStep DEF FreezeEnds

----------------------------------------------------------------------------
(* The length.                                                             *)

LEMMA ClampedIsALength ==
  ASSUME CaptureAssumption, NEW n \in Int
  PROVE  Clamped(n) \in Shortest .. Longest /\ Clamped(n) \in Nat \ {0}
BY DEF CaptureAssumption, Clamped, AtMost

LEMMA ZerosAreSamples ==
  ASSUME NEW n \in Nat
  PROVE  Zeros(n) \in Seq(Int) /\ Len(Zeros(n)) = n
BY DEF Zeros, Zero

\* A resize has the length it was asked for, or could not be had and left all as it was.
LEMMA ResizeFits ==
  ASSUME CaptureAssumption, CaptureIInv, NEW n \in Shortest .. Longest, Resize(n)
  PROVE  /\ snap' \in Seq(Int) /\ refused' \in BOOLEAN /\ status' \in Statuses /\ SnapFits'
         /\ ~refused' => Len(snap') = n
         /\ (snap' = snap /\ status' = status) \/ ~status'.frozen
<1>1. snap \in Seq(Int) /\ status \in Statuses /\ SnapFits /\ n \in Nat
  BY DEF CaptureAssumption, CaptureIInv, Types
<1>2. refused' \in BOOLEAN /\ (refused' \/ ~refused')
  BY DEF Resize
<1>3. CASE snap' = snap /\ status' = status
  <2>1. SnapFits'
    BY <1>1, <1>3 DEF SnapFits
  <2>2. ~refused' => Len(snap') = n
    BY <1>1, <1>3, ZerosAreSamples DEF Resize
  <2> QED BY <1>1, <1>2, <1>3, <2>1, <2>2
<1>4. CASE snap' = Zeros(n) /\ status' = Released
  <2>1. snap' \in Seq(Int) /\ Len(snap') = n /\ n >= 0
    BY <1>1, <1>4, ZerosAreSamples
  <2>2. status' \in Statuses /\ ~status'.frozen /\ status'.len = 0
    BY <1>4, IdleIsAJob
  <2>3. SnapFits'
    BY <1>1, <2>1, <2>2 DEF SnapFits
  <2> QED BY <1>2, <2>1, <2>2, <2>3
<1> QED BY <1>3, <1>4 DEF Resize

LEMMA LetGoFits ==
  ASSUME CaptureAssumption, CaptureIInv, LetGo
  PROVE  /\ snap' \in Seq(Int) /\ refused' \in BOOLEAN /\ status' \in Statuses /\ SnapFits'
         /\ UNCHANGED <<analyze, pending>> /\ LengthFollows' /\ SnapshotHoldsTheRing'
<1>1. snap \in Seq(Int) /\ SnapFits /\ pending \in Shortest .. Longest /\ pending = analyze
      /\ pending \in Nat /\ refused \in BOOLEAN
  BY DEF CaptureAssumption, CaptureIInv, Types
<1>2. status' = Released /\ UNCHANGED <<analyze, pending>>
  BY DEF LetGo
<1>3. ~status'.frozen /\ status'.len = 0 /\ status' \in Statuses
  BY <1>2, IdleIsAJob
<1>4. SnapshotHoldsTheRing'
  BY <1>3 DEF SnapshotHoldsTheRing
<1>5. CASE snap' = Zeros(pending) /\ refused' = FALSE
  <2>1. snap' \in Seq(Int) /\ Len(snap') = pending /\ pending >= 0
    BY <1>1, <1>5, ZerosAreSamples
  <2>3. refused' \in BOOLEAN
    BY <1>5
  <2>2. SnapFits' /\ LengthFollows'
    BY <1>1, <1>2, <1>3, <2>1 DEF SnapFits, LengthFollows
  <2> QED BY <1>2, <1>3, <1>4, <2>1, <2>2, <2>3
<1>6. CASE snap' = snap /\ (refused' = TRUE \/ (pending = Len(snap) /\ refused' = refused))
  <2>1. refused' \in BOOLEAN /\ (~refused' => Len(snap') = pending)
    BY <1>1, <1>6
  <2>2. SnapFits'
    BY <1>1, <1>3, <1>6 DEF SnapFits
  <2>3. LengthFollows'
    BY <1>1, <1>2, <2>1 DEF LengthFollows
  <2> QED BY <1>1, <1>2, <1>3, <1>4, <1>6, <2>1, <2>2, <2>3
<1> QED BY <1>5, <1>6 DEF LetGo

\* No two changes of the snapshot at once: one who is not at it finds m_ free.
LEMMA RequestIsFree ==
  ASSUME CaptureAssumption, CaptureIInv, NEW w \in Workers, job[w].at \in {"begin", "next"}
  PROVE  /\ lock # w /\ fft # w /\ w # NoWorker
         /\ job[w] \in Jobs /\ job \in [Workers -> Jobs] /\ Where(w)
BY DEF CaptureAssumption, CaptureIInv, Types, Where

LEMMA ResumeStep ==
  ASSUME CaptureAssumption, CaptureIInv, NEW w \in Workers, Resume(w)
  PROVE  CaptureIInv'
<1>1. job[w].at = "begin"
  BY DEF Resume, CaptureIInv, Where, StepsOf
<1>2. UNCHANGED <<writer, locks, scratch>> /\ lock = NoWorker /\ LetGo
      /\ job' = [job EXCEPT ![w] = Idle]
  BY DEF Resume
<1>3. job'[w] = Idle /\ lock' # w /\ fft' # w
  BY <1>1, <1>2, RequestIsFree DEF locks
<1>4. Where(w)' /\ Taken(w)' /\ Idle \in Jobs
  BY <1>3, IdleIsFree
<1> QED BY <1>2, <1>4, LetGoFits, StepsUnderLock DEF Passed, locks, CaptureIInv, Types

LEMMA GenieEndsStep ==
  ASSUME CaptureAssumption, CaptureIInv, NEW w \in Workers, GenieEnds(w)
  PROVE  CaptureIInv'
<1>1. UNCHANGED <<writer, locks, scratch>> /\ job' = [job EXCEPT ![w] = Idle] /\ job[w].at = "next"
  BY DEF GenieEnds
<1>2. job'[w] = Idle /\ lock' # w /\ fft' # w
  BY <1>1, RequestIsFree DEF locks
<1>3. Where(w)' /\ Taken(w)' /\ Idle \in Jobs
  BY <1>2, IdleIsFree
<1>4. CASE UNCHANGED store
  BY <1>1, <1>3, <1>4, LocalSteps
<1>5. CASE lock = NoWorker /\ LetGo
  BY <1>1, <1>3, <1>5, LetGoFits, StepsUnderLock DEF Passed, locks, CaptureIInv, Types
<1> QED BY <1>4, <1>5 DEF GenieEnds

LEMMA ConfigStep ==
  ASSUME CaptureAssumption, CaptureIInv, NEW w \in Workers, Config(w)
  PROVE  CaptureIInv'
<1>1. job[w].at = "begin"
  BY DEF Config, CaptureIInv, Where, StepsOf
<1>2. UNCHANGED <<writer, locks, scratch>> /\ lock = NoWorker /\ job' = [job EXCEPT ![w] = Idle]
  BY DEF Config
<1>3. job'[w] = Idle /\ lock' # w /\ fft' # w
  BY <1>1, <1>2, RequestIsFree DEF locks
<1>4. Where(w)' /\ Taken(w)' /\ Idle \in Jobs
  BY <1>3, IdleIsFree
<1> DEFINE n == Clamped(job[w].len)
<1>5. n \in Shortest .. Longest
  <2>1. job[w].len \in Nat
    BY <1>1, RequestIsFree DEF Jobs
  <2> QED BY <2>1, ClampedIsALength
<1> HIDE DEF n
<1>6. CASE status.frozen /\ analyze' = n /\ pending' = analyze' /\ UNCHANGED <<snap, status, refused>>
  <2>1. SnapFits' /\ LengthFollows' /\ SnapshotHoldsTheRing'
    BY <1>2, <1>6 DEF CaptureIInv, SnapFits, LengthFollows, SnapshotHoldsTheRing, locks
  <2> QED BY <1>2, <1>4, <1>5, <1>6, <2>1, StepsUnderLock DEF Passed, locks, CaptureIInv, Types
<1>7. CASE ~status.frozen /\ Resize(n) /\ ~refused' /\ analyze' = n /\ pending' = analyze'
  <2>1. /\ snap' \in Seq(Int) /\ refused' \in BOOLEAN /\ status' \in Statuses /\ SnapFits'
        /\ Len(snap') = n /\ ~status'.frozen
    BY <1>5, <1>7, ResizeFits
  <2>2. LengthFollows' /\ SnapshotHoldsTheRing'
    BY <1>7, <2>1 DEF LengthFollows, SnapshotHoldsTheRing
  <2> QED BY <1>2, <1>4, <1>5, <1>7, <2>1, <2>2, StepsUnderLock DEF Passed, locks
<1>8. CASE UNCHANGED store
  BY <1>2, <1>4, <1>8, LocalSteps
<1> QED BY <1>6, <1>7, <1>8 DEF Config, n

LEMMA FreezeTakeStep ==
  ASSUME CaptureAssumption, CaptureIInv, NEW w \in Workers, FreezeTake(w)
  PROVE  CaptureIInv'
<1> DEFINE j == [job[w] EXCEPT !.at = "aim", !.tries = 2]
<1>1. job \in [Workers -> Jobs] /\ job[w] \in Jobs /\ Where(w) /\ job[w].at = "freeze"
      /\ lock = NoWorker /\ lock' = w /\ w # NoWorker /\ fft # w
      /\ UNCHANGED <<writer, analyze, pending, fft, scratch>>
  BY DEF FreezeTake, CaptureAssumption, CaptureIInv, Types, Where
<1>2. job' = [job EXCEPT ![w] = j]
  BY <1>1 DEF FreezeTake
<1>3. j \in Jobs /\ j.op = job[w].op /\ j.at = "aim" /\ j.found = job[w].found
  BY <1>1 DEF Jobs, Places, Freezing
<1> HIDE DEF j
<1>4. job'[w] = j
  BY <1>1, <1>2
<1>5. Where(w)'
  BY <1>1, <1>3, <1>4 DEF Where, StepsOf, Freezing, Correlating
<1>6. Taken(w)'
  BY <1>3, <1>4 DEF Taken
<1>7. SnapshotHoldsTheRing'
  BY <1>1 DEF SnapshotHoldsTheRing
<1>8. analyze' \in Shortest .. Longest /\ pending' = analyze' /\ pending \in Shortest .. Longest
      /\ analyze' = pending
  BY <1>1 DEF CaptureIInv, Types
<1>9. CASE pending = Len(snap) /\ UNCHANGED <<snap, status, refused>>
  <2>1. SnapFits' /\ LengthFollows'
    BY <1>8, <1>9 DEF CaptureIInv, SnapFits, LengthFollows
  <2> QED BY <1>1, <1>2, <1>3, <1>5, <1>6, <1>7, <1>8, <1>9, <2>1, StepsUnderLock
             DEF Passed, CaptureIInv, Types
<1>10. CASE Resize(pending)
  <2>1. /\ snap' \in Seq(Int) /\ refused' \in BOOLEAN /\ status' \in Statuses /\ SnapFits'
        /\ ~refused' => Len(snap') = pending
    BY <1>8, <1>10, ResizeFits
  <2>2. LengthFollows'
    BY <1>8, <2>1 DEF LengthFollows
  <2> QED BY <1>1, <1>2, <1>3, <1>5, <1>6, <1>7, <1>8, <2>1, <2>2, StepsUnderLock DEF Passed
<1> QED BY <1>9, <1>10 DEF FreezeTake

----------------------------------------------------------------------------
(* What always holds.                                                      *)

LEMMA NextSteps ==
  ASSUME CaptureAssumption, CaptureIInv, Next
  PROVE  CaptureIInv'
<1>1. CASE Store \/ Publish
  BY <1>1, WriterSteps
<1>2. CASE \E w \in Workers : Call(w) \/ Config(w) \/ Resume(w)
  BY <1>2, CallStep, ConfigStep, ResumeStep
<1>3. CASE \E w \in Workers :
             FreezeTake(w) \/ FreezeAim(w) \/ FreezeCheck(w) \/ FreezeCopy(w) \/ FreezeEnds(w)
  BY <1>3, FreezeTakeStep, FreezeAimStep, FreezeCheckStep, FreezeCopyStep, FreezeEndsStep
<1>4. CASE \E w \in Workers : Window(w) \/ WindowLive(w) \/ WindowEnds(w)
  BY <1>4, WindowStep, WindowLiveStep, WindowEndsStep
<1>5. CASE \E w \in Workers : XcorrTake(w) \/ XcorrRead(w) \/ Correlate(w) \/ Answer(w)
  BY <1>5, XcorrTakeStep, XcorrReadStep, CorrelateStep, AnswerStep
<1>6. CASE \E w \in Workers : GenieLooks(w) \/ GenieMeasures(w) \/ GenieEnds(w)
  BY <1>6, GenieLooksStep, GenieMeasuresStep, GenieEndsStep
<1> QED BY <1>1, <1>2, <1>3, <1>4, <1>5, <1>6 DEF Next

LEMMA IdleSteps ==
  ASSUME CaptureIInv, UNCHANGED vars
  PROVE  CaptureIInv'
<1>1. UNCHANGED <<writer, store, locks, scratch, job>>
  BY DEF vars
<1>2. Types' /\ SnapFits' /\ LengthFollows' /\ SnapshotHoldsTheRing'
  BY <1>1 DEF CaptureIInv, Types, SnapFits, LengthFollows, SnapshotHoldsTheRing, writer, store, locks
<1>3. ASSUME NEW w \in Workers PROVE Where(w)' /\ Taken(w)'
  BY <1>1 DEF CaptureIInv, Where, Taken, Overtaken, Lapped, Late, Exactly, writer, store, locks
<1> QED BY <1>2, <1>3 DEF CaptureIInv

\* Where each caller is, what it has copied and what the store is left with are an
\* invariant of freeze, resume, resize, window, xcorr and the genie's pings, for any
\* number of callers: capture.cpp's two mutexes are enough.
THEOREM CaptureAlways == Spec => []CaptureIInv
<1>1. Init => CaptureIInv
  BY CaptureAssumption, InitHolds
<1>2. CaptureIInv /\ [Next]_vars => CaptureIInv'
  BY CaptureAssumption, NextSteps, IdleSteps
<1> QED BY <1>1, <1>2, PTL DEF Spec

\* The snapshot is as long as was last asked for and holds the frames of the ring it is
\* said to hold, unless the audio thread was storing a block over its start.
THEOREM CaptureIsConsistent == Spec => []CaptureInv
<1>1. ASSUME CaptureIInv PROVE CaptureInv
  <2>1. TypeOK
    <3>1. Types /\ SnapFits /\ \A w \in Workers : Where(w)
      BY <1>1 DEF CaptureIInv
    <3>2. \A w \in Workers : lock = w <=> job[w].at \in {"aim", "check", "copy", "live"}
      BY <3>1 DEF Where
    <3>3. {analyze, pending} \subseteq Shortest .. Longest /\ {lock, fft} \subseteq Workers \cup {NoWorker}
      BY <3>1 DEF Types
    <3>4. head \in 0 .. MaxHead /\ storing \in BOOLEAN /\ refused \in BOOLEAN
      BY <3>1 DEF Types
    <3>5. status.frozen = (status.len > 0)
      BY <3>1 DEF Types, SnapFits, Statuses
    <3>6. Len(snap) \in {0} \cup Shortest .. Longest /\ status.len <= Len(snap)
      BY <3>1 DEF SnapFits
    <3> QED BY <3>2, <3>3, <3>4, <3>5, <3>6 DEF TypeOK
  <2>2. SnapshotHoldsTheRing /\ LengthIsAsAsked
    BY <1>1 DEF CaptureIInv, LengthFollows, LengthIsAsAsked
  <2> QED BY <2>1, <2>2 DEF CaptureInv
<1> QED BY <1>1, CaptureAlways, PTL

\* What a client gets for a window or a correlation is what it asked for, whatever the
\* others freeze, release, resize or correlate between its locks.
THEOREM AnswersAreAlwaysExact == Spec => []AnswersAreExact
<1>1. ASSUME CaptureIInv PROVE AnswersAreExact
  BY <1>1 DEF CaptureIInv, Taken, Exactly, AnswersAreExact
<1> QED BY <1>1, CaptureAlways, PTL

----------------------------------------------------------------------------
(* Who ends a measurement.                                                 *)

\* A worker takes a step of a call that may end a freeze, and did not find it there.
Ends(w) == job[w] # job'[w] /\ job[w].op \in {"freeze", "resume", "genie"} /\ ~job[w].found

\* A call that is at a freeze of its own goes on or ends.
LEMMA FreezersEnd ==
  ASSUME CaptureAssumption, CaptureIInv, NEW w \in Workers, job[w].at \in Freezing,
         job'[w].at # job[w].at
  PROVE  Ends(w)
<1>1. Where(w) /\ job[w] \in Jobs
  BY DEF CaptureIInv, Types
<1>2. job[w].op \in {"freeze", "genie"} /\ ~job[w].found
  BY <1>1 DEF Where, StepsOf, Freezing, Correlating, Jobs, Ops
<1> QED BY <1>2 DEF Ends

LEMMA OnlyRequestsEndFreezes ==
  ASSUME CaptureAssumption, CaptureIInv, Next, status.frozen, status' # status
  PROVE  \E w \in Workers : Ends(w)
<1>1. job \in [Workers -> Jobs]
  BY DEF CaptureIInv, Types
<1>2. ASSUME NEW w \in Workers, Resume(w) PROVE Ends(w)
  <2>1. Where(w) /\ job[w].op = "resume" /\ job'[w] = Idle
    BY <1>1, <1>2 DEF Resume, CaptureIInv
  <2> QED BY <2>1, IdleIsAJob DEF Where, Ends
<1>3. ASSUME NEW w \in Workers, GenieEnds(w) PROVE Ends(w)
  <2>1. job[w].op = "genie" /\ job'[w] = Idle /\ ~job[w].found
    BY <1>1, <1>3 DEF GenieEnds, store
  <2> QED BY <2>1, IdleIsAJob DEF Ends
<1>4. ASSUME NEW w \in Workers, FreezeTake(w) PROVE Ends(w)
  <2>1. job[w].at = "freeze" /\ job'[w].at = "aim"
    BY <1>1, <1>4 DEF FreezeTake, Jobs
  <2> QED BY <2>1, FreezersEnd DEF Freezing
<1>5. ASSUME NEW w \in Workers, NEW b \in BOOLEAN, Done(w, b), job[w].at \in Freezing PROVE Ends(w)
  <2>1. job'[w].at \in {"idle", "next"}
    BY <1>1, <1>5, IdleIsAJob DEF Done, Jobs
  <2> QED BY <1>5, <2>1, FreezersEnd DEF Freezing
<1>6. ASSUME NEW w \in Workers, job[w].at \in Freezing, FreezeFails(w) \/ Frozen(w) PROVE Ends(w)
  BY <1>5, <1>6 DEF FreezeFails, Frozen
<1>7. ASSUME NEW w \in Workers, FreezeAim(w) \/ FreezeCheck(w) \/ FreezeEnds(w) PROVE Ends(w)
  BY <1>6, <1>7 DEF FreezeAim, FreezeCheck, FreezeEnds, FreezeLapped, Freezing, store
<1>8. ASSUME Store \/ Publish \/ \E w \in Workers :
               \/ Call(w) \/ Config(w) \/ FreezeCopy(w) \/ Window(w) \/ WindowLive(w) \/ WindowEnds(w)
               \/ XcorrTake(w) \/ XcorrRead(w) \/ Correlate(w) \/ Answer(w)
               \/ GenieLooks(w) \/ GenieMeasures(w)
      PROVE  FALSE
  BY <1>8 DEF Store, Publish, Call, Config, FreezeCopy, Window, WindowLive, WindowEnds, XcorrTake,
              XcorrRead, Correlate, Answer, GenieLooks, GenieMeasures, store
<1> QED BY <1>2, <1>3, <1>4, <1>7, <1>8 DEF Next

\* A measurement in progress ends by a freeze or a release that somebody asked for: never
\* by a change of the length, and not by the genie that found it there.
THEOREM FreezesEndByRequest == Spec => FreezesAreEndedByRequest
<1>1. CaptureIInv /\ [Next]_vars =>
        [status.frozen /\ status' # status =>
           \E w \in Workers : job[w] # job'[w] /\ job[w].op \in {"freeze", "resume", "genie"}
                              /\ ~job[w].found]_vars
  BY CaptureAssumption, OnlyRequestsEndFreezes DEF Ends, vars
<1> QED BY <1>1, CaptureAlways, PTL DEF Spec, FreezesAreEndedByRequest

=============================================================================

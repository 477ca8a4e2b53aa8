------------------------------- MODULE Capture -------------------------------
(***************************************************************************)
(* The frozen copy of the capture ring (src/app/src/capture.cpp) and the   *)
(* calls that make, measure and release it (webserver.cpp).  A freeze      *)
(* copies the ring while the audio thread goes on writing it; another      *)
(* caller may resize, replace or release the copy between any two locks.   *)
(*                                                                         *)
(* A frame is its absolute index.  Every column of it is copied together,  *)
(* so columns are left out, and so is what a correlation computes; whether *)
(* the memory for a resize can be had is open at each one.                 *)
(***************************************************************************)
EXTENDS Integers, Sequences, FiniteSets

CONSTANTS
  Workers,     \* the web server's threads
  NoWorker,
  RingFrames,  \* frames_
  Safety,      \* safety_
  Period,      \* the audio thread's block
  Longest,     \* max_frames_
  Shortest,    \* kCaptureMinFrames
  Sizes,       \* lengths a client asks for
  Pings,       \* bound: entries of the ping log
  MaxHead,     \* bound: frames written
  MaxCalls     \* bound: calls taken

CaptureAssumption ==
  /\ NoWorker \notin Workers
  /\ {RingFrames, Period, Shortest, Longest} \subseteq Nat \ {0}
  /\ {Safety, Pings, MaxHead, MaxCalls} \subseteq Nat /\ Sizes \subseteq Nat
  /\ Shortest <= Longest /\ Longest <= RingFrames - Safety /\ Period <= Safety

ASSUME CaptureAssumption

VARIABLES
  head,      \* n_
  storing,   \* whether the next block is being stored
  snap,      \* snap_
  analyze,   \* analyze_frames_
  pending,   \* pending_frames_
  status,    \* status_
  lock,      \* who holds m_
  fft,       \* who holds fft_m_
  scratch,   \* fa_, fb_
  job,       \* worker -> the call it serves
  calls,
  refused    \* ghost: the last resize could not be had

writer == <<head, storing>>
store == <<snap, analyze, pending, status, refused>>
locks == <<lock, fft>>
vars == <<writer, store, locks, scratch, job, calls>>

Zero == -1
Zeros(n) == [k \in 1 .. n |-> Zero]
\* A ghost, late: the copy was checked while a block was being stored over its start.
Released == [frozen |-> FALSE, start |-> 0, len |-> 0, late |-> FALSE]
Idle == [op |-> "none", at |-> "idle", start |-> 0, len |-> 0, tries |-> 0, left |-> 0, buf |-> <<>>,
         found |-> FALSE, late |-> FALSE]

AtMost(a, b) == IF a < b THEN a ELSE b
Clamped(n) == IF n < Shortest THEN Shortest ELSE AtMost(n, Longest)

Init ==
  /\ head = 0 /\ storing = FALSE
  /\ analyze \in {Clamped(n) : n \in Sizes} /\ pending = analyze
  /\ refused \in BOOLEAN /\ snap = IF refused THEN <<>> ELSE Zeros(analyze)
  /\ status = Released /\ lock = NoWorker /\ fft = NoWorker /\ scratch = <<>>
  /\ job = [w \in Workers |-> Idle] /\ calls = 0

----------------------------------------------------------------------------
(* The audio thread, writing the ring: RingBuffer.                         *)

Store ==
  /\ ~storing /\ head + Period <= MaxHead /\ storing' = TRUE
  /\ UNCHANGED <<head, store, locks, scratch, job, calls>>

Publish ==
  /\ storing /\ storing' = FALSE /\ head' = head + Period
  /\ UNCHANGED <<store, locks, scratch, job, calls>>

\* What a load from the slot of frame i may find.
InSlot(i) ==
  LET same(j) == j % RingFrames = i % RingFrames
      old == {j \in 0 .. head - 1 : same(j) /\ j + RingFrames >= head}
      new == {j \in head .. head + Period - 1 : storing /\ same(j)}
  IN (IF old = {} THEN {Zero} ELSE old) \cup new

Readable(start, len) == len \in 1 .. head /\ start + len <= head /\ head - start <= RingFrames - Safety
Lapped(start) == head - start > RingFrames
Late(start) == storing /\ head + Period - start > RingFrames

----------------------------------------------------------------------------
(* Resizing.                                                               *)

\* resize_snapshot(): in place of the old buffer only once the new one is there.
Resize(n) ==
  IF Len(snap) = n THEN refused' = FALSE /\ UNCHANGED <<snap, status>>
  ELSE \/ snap' = Zeros(n) /\ status' = Released /\ refused' = FALSE
       \/ refused' = TRUE /\ UNCHANGED <<snap, status>>

\* Mutant: a resize while frozen is not deferred.
ConfigAtOnce(w) ==
  /\ job[w].op = "config" /\ lock = NoWorker
  /\ Resize(Clamped(job[w].len))
  /\ IF refused' THEN UNCHANGED <<analyze, pending>>
     ELSE analyze' = Clamped(job[w].len) /\ pending' = analyze'
  /\ job' = [job EXCEPT ![w] = Idle]
  /\ UNCHANGED <<writer, locks, scratch, calls>>

\* set_analyze_frames(): refused, or deferred while frozen, or done.
Config(w) ==
  /\ job[w].op = "config" /\ lock = NoWorker
  /\ IF status.frozen
       THEN /\ analyze' = Clamped(job[w].len) /\ pending' = analyze'
            /\ UNCHANGED <<snap, status, refused>>
       ELSE \/ Resize(Clamped(job[w].len)) /\ ~refused'
               /\ analyze' = Clamped(job[w].len) /\ pending' = analyze'
            \/ Clamped(job[w].len) # Len(snap) /\ UNCHANGED store
  /\ job' = [job EXCEPT ![w] = Idle]
  /\ UNCHANGED <<writer, locks, scratch, calls>>

\* Mutant: the deferred resize is left to the next freeze.
LetGoOnly == status' = Released /\ UNCHANGED <<snap, analyze, pending, refused>>

\* The body of resume(): the deferred resize is made now.
LetGo ==
  /\ IF pending = Len(snap) THEN status' = Released /\ UNCHANGED <<snap, refused>>
     ELSE \/ snap' = Zeros(pending) /\ status' = Released /\ refused' = FALSE
          \/ status' = Released /\ refused' = TRUE /\ UNCHANGED snap
  /\ UNCHANGED <<analyze, pending>>

Resume(w) ==
  /\ job[w].op = "resume" /\ lock = NoWorker
  /\ LetGo
  /\ job' = [job EXCEPT ![w] = Idle]
  /\ UNCHANGED <<writer, locks, scratch, calls>>

----------------------------------------------------------------------------
(* freeze(), for POST /api/capture/freeze and for GET /api/genie/sync.     *)

Goes(w, at) == job' = [job EXCEPT ![w].at = at]

\* What follows a freeze: the genie measures on it, or answers that it failed.
Done(w, frozen) ==
  job' = [job EXCEPT ![w] = IF job[w].op = "genie" /\ frozen
                              THEN [Idle EXCEPT !.op = "genie", !.at = "next", !.left = job[w].left]
                              ELSE Idle]

FreezeTake(w) ==
  /\ job[w].at = "freeze" /\ lock = NoWorker
  /\ lock' = w
  /\ IF pending = Len(snap) THEN UNCHANGED <<snap, status, refused>> ELSE Resize(pending)
  /\ job' = [job EXCEPT ![w].at = "aim", ![w].tries = 2]
  /\ UNCHANGED <<writer, analyze, pending, fft, scratch, calls>>

Want == AtMost(AtMost(analyze, Longest), Len(snap))

FreezeFails(w) ==
  /\ status' = Released /\ lock' = NoWorker /\ Done(w, FALSE)
  /\ UNCHANGED <<writer, snap, analyze, pending, refused, fft, scratch, calls>>

FreezeAim(w) ==
  /\ job[w].at = "aim"
  /\ \/ (head = 0 \/ Want = 0) /\ FreezeFails(w)
     \/ /\ head > 0 /\ Want > 0
        /\ LET start == IF head > Want THEN head - Want ELSE 0
           IN job' = [job EXCEPT ![w].at = "check", ![w].start = start, ![w].len = head - start]
        /\ UNCHANGED <<writer, store, locks, scratch, calls>>

\* The ring refused the copy, before it or after it: once more, or give up.
FreezeLapped(w) ==
  \/ job[w].tries = 1 /\ FreezeFails(w)
  \/ /\ job[w].tries = 2
     /\ job' = [job EXCEPT ![w].at = "aim", ![w].tries = 1]
     /\ UNCHANGED <<writer, store, locks, scratch, calls>>

FreezeCheck(w) ==
  /\ job[w].at = "check"
  /\ \/ ~Readable(job[w].start, job[w].len) /\ FreezeLapped(w)
     \/ /\ Readable(job[w].start, job[w].len)
        /\ job' = [job EXCEPT ![w].at = "copy", ![w].buf = <<>>]
        /\ UNCHANGED <<writer, store, locks, scratch, calls>>

\* A frame of the copy, straight into the snapshot's buffer.
FreezeCopy(w) ==
  LET k == Len(job[w].buf) + 1
  IN /\ job[w].at = "copy" /\ k <= job[w].len
     /\ \E f \in InSlot(job[w].start + k - 1) :
          /\ snap' = [snap EXCEPT ![k] = f]
          /\ job' = [job EXCEPT ![w].buf = Append(@, f)]
     /\ UNCHANGED <<writer, analyze, pending, status, refused, locks, scratch, calls>>

Frozen(w) ==
  /\ status' = [frozen |-> TRUE, start |-> job[w].start, len |-> job[w].len,
                late |-> Late(job[w].start)]
  /\ lock' = NoWorker /\ Done(w, TRUE)
  /\ UNCHANGED <<writer, snap, analyze, pending, refused, fft, scratch, calls>>

\* Mutant: what was copied is not looked at again.
FreezeKeeps(w) == job[w].at = "copy" /\ Len(job[w].buf) = job[w].len /\ Frozen(w)

FreezeEnds(w) ==
  /\ job[w].at = "copy" /\ Len(job[w].buf) = job[w].len
  /\ IF Lapped(job[w].start) THEN FreezeLapped(w) ELSE Frozen(w)

----------------------------------------------------------------------------
(* Reading: the scope's windows, and correlations.                         *)

\* snapshot_read(): only inside what was frozen.
InSnapshot(start, len) ==
  status.frozen /\ start >= status.start /\ start + len <= status.start + status.len

FromSnapshot(start, len) == [k \in 1 .. len |-> snap[start - status.start + k]]

Window(w) ==
  /\ job[w].op = "window" /\ job[w].at = "begin" /\ lock = NoWorker
  /\ LET s == job[w].start
         n == job[w].len
     IN \/ /\ InSnapshot(s, n)
           /\ job' = [job EXCEPT ![w].at = "answer", ![w].buf = FromSnapshot(s, n),
                                 ![w].late = status.late]
           /\ UNCHANGED lock
        \/ ~status.frozen /\ Readable(s, n) /\ lock' = w /\ Goes(w, "live")
        \/ /\ IF status.frozen THEN ~InSnapshot(s, n) ELSE ~Readable(s, n)
           /\ job' = [job EXCEPT ![w] = Idle] /\ UNCHANGED lock
  /\ UNCHANGED <<writer, store, fft, scratch, calls>>

\* read_channel(), with m_ held.
WindowLive(w) ==
  LET k == Len(job[w].buf) + 1
  IN /\ job[w].at = "live" /\ k <= job[w].len
     /\ \E f \in InSlot(job[w].start + k - 1) : job' = [job EXCEPT ![w].buf = Append(@, f)]
     /\ UNCHANGED <<writer, store, locks, scratch, calls>>

WindowEnds(w) ==
  /\ job[w].at = "live" /\ Len(job[w].buf) = job[w].len
  /\ lock' = NoWorker
  /\ IF Lapped(job[w].start) THEN job' = [job EXCEPT ![w] = Idle]
     ELSE job' = [job EXCEPT ![w].at = "answer", ![w].late = Late(job[w].start)]
  /\ UNCHANGED <<writer, store, fft, scratch, calls>>

\* Mutant: correlations share the buffers with no lock of their own.
XcorrTakeUnlocked(w) ==
  /\ job[w].at = "xcorr"
  /\ fft' = w /\ Goes(w, "read")
  /\ UNCHANGED <<writer, store, lock, scratch, calls>>

\* xcorr(): the working buffers first, then the snapshot.
XcorrTake(w) ==
  /\ job[w].at = "xcorr" /\ fft = NoWorker
  /\ fft' = w /\ Goes(w, "read")
  /\ UNCHANGED <<writer, store, lock, scratch, calls>>

\* Where a correlation's caller goes on: the genie measures the next ping.
Back(w) ==
  job' = [job EXCEPT ![w] =
            IF @.op = "genie" THEN [Idle EXCEPT !.op = "genie", !.at = "next", !.left = job[w].left,
                                                !.found = job[w].found]
            ELSE Idle]

XcorrRead(w) ==
  /\ job[w].at = "read" /\ lock = NoWorker
  /\ \/ /\ InSnapshot(job[w].start, job[w].len)
        /\ scratch' = FromSnapshot(job[w].start, job[w].len)
        /\ job' = [job EXCEPT ![w].at = "correlate", ![w].late = status.late]
        /\ UNCHANGED fft
     \/ /\ ~InSnapshot(job[w].start, job[w].len)
        /\ Back(w) /\ fft' = NoWorker /\ UNCHANGED scratch
  /\ UNCHANGED <<writer, store, lock, calls>>

Correlate(w) ==
  /\ job[w].at = "correlate"
  /\ job' = [job EXCEPT ![w].at = "answer", ![w].buf = scratch]
  /\ fft' = NoWorker
  /\ UNCHANGED <<writer, store, lock, scratch, calls>>

Answer(w) ==
  /\ job[w].at = "answer" /\ Back(w)
  /\ UNCHANGED <<writer, store, locks, scratch, calls>>

----------------------------------------------------------------------------
(* GET /api/genie/sync: "Keep an existing freeze; otherwise freeze for     *)
(* this call only."                                                        *)

GenieLooks(w) ==
  /\ job[w].op = "genie" /\ job[w].at = "begin" /\ lock = NoWorker
  /\ job' = [job EXCEPT ![w].at = IF status.frozen THEN "next" ELSE "freeze",
                        ![w].found = status.frozen, ![w].left = Pings]
  /\ UNCHANGED <<writer, store, locks, scratch, calls>>

\* A window of its own for each ping it was told of.
GenieMeasures(w) ==
  /\ job[w].op = "genie" /\ job[w].at = "next" /\ job[w].left > 0
  /\ \E s \in 0 .. MaxHead - 1, n \in Sizes :
       job' = [job EXCEPT ![w].at = "xcorr", ![w].start = s, ![w].len = n, ![w].left = @ - 1]
  /\ UNCHANGED <<writer, store, locks, scratch, calls>>

\* Mutant: it releases whatever is frozen.
GenieReleases(w) ==
  /\ job[w].op = "genie" /\ job[w].at = "next" /\ lock = NoWorker
  /\ LetGo
  /\ job' = [job EXCEPT ![w] = Idle]
  /\ UNCHANGED <<writer, locks, scratch, calls>>

GenieEnds(w) ==
  /\ job[w].op = "genie" /\ job[w].at = "next"
  /\ IF job[w].found THEN UNCHANGED store ELSE lock = NoWorker /\ LetGo
  /\ job' = [job EXCEPT ![w] = Idle]
  /\ UNCHANGED <<writer, locks, scratch, calls>>

----------------------------------------------------------------------------
\* A request and where its handler begins.
Asks(w, o, start, len) ==
  job' = [job EXCEPT ![w] = [Idle EXCEPT !.op = o, !.start = start, !.len = len,
                                         !.at = IF o \in {"freeze", "xcorr"} THEN o ELSE "begin"]]

Call(w) ==
  /\ job[w] = Idle /\ calls < MaxCalls /\ calls' = calls + 1
  /\ \/ \E o \in {"freeze", "resume", "genie"} : Asks(w, o, 0, 0)
     \/ \E n \in Sizes : Asks(w, "config", 0, n)
     \/ \E o \in {"window", "xcorr"}, s \in 0 .. MaxHead - 1, n \in Sizes : Asks(w, o, s, n)
  /\ UNCHANGED <<writer, store, locks, scratch>>

Next ==
  \/ Store \/ Publish
  \/ \E w \in Workers :
       \/ Call(w) \/ Config(w) \/ Resume(w)
       \/ FreezeTake(w) \/ FreezeAim(w) \/ FreezeCheck(w) \/ FreezeCopy(w) \/ FreezeEnds(w)
       \/ Window(w) \/ WindowLive(w) \/ WindowEnds(w)
       \/ XcorrTake(w) \/ XcorrRead(w) \/ Correlate(w) \/ Answer(w)
       \/ GenieLooks(w) \/ GenieMeasures(w) \/ GenieEnds(w)

Spec == Init /\ [][Next]_vars

----------------------------------------------------------------------------
(* What must hold.                                                         *)

\* The types of the store, the ring and the callers.
TypeOK ==
  /\ head \in 0 .. MaxHead /\ storing \in BOOLEAN /\ refused \in BOOLEAN
  /\ {analyze, pending} \subseteq Shortest .. Longest
  /\ Len(snap) \in {0} \cup Shortest .. Longest
  /\ status.len <= Len(snap) /\ status.frozen = (status.len > 0)
  /\ {lock, fft} \subseteq Workers \cup {NoWorker}
  /\ \A w \in Workers :
       lock = w <=> job[w].at \in {"aim", "check", "copy", "live"}

\* What is frozen is the frames it is said to be, each of them, although the
\* audio thread went on writing the ring while they were copied.
SnapshotHoldsTheRing ==
  status.frozen /\ ~status.late /\ lock = NoWorker =>
    \A k \in 1 .. status.len : snap[k] = status.start + k - 1

\* A window or a correlation is answered from the frames that were asked for,
\* whatever the other callers freeze, release, resize or correlate meanwhile.
AnswersAreExact ==
  \A w \in Workers :
    job[w].at = "answer" /\ ~job[w].late =>
      job[w].buf = [k \in 1 .. job[w].len |-> job[w].start + k - 1]

\* A change of the length that had to wait for a measurement is made once the
\* measurement is over: with nothing frozen, the buffer is as long as was asked
\* for, unless the memory could not be had.
LengthIsAsAsked == ~status.frozen /\ lock = NoWorker /\ ~refused => Len(snap) = analyze

\* A measurement in progress is ended by a freeze or a release, never by a
\* change of the length, and not by the genie that found it there.
FreezesAreEndedByRequest ==
  [][status.frozen /\ status' # status =>
       \E w \in Workers : job[w] # job'[w] /\ job[w].op \in {"freeze", "resume", "genie"}
                          /\ ~job[w].found]_vars

\* The buffer is as long as it was asked for and holds what it is said to.
CaptureInv == TypeOK /\ SnapshotHoldsTheRing /\ LengthIsAsAsked
=============================================================================

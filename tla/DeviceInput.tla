----------------------------- MODULE DeviceInput -----------------------------
(***************************************************************************)
(* A capture device other than the engine's card (device_input.cpp): the   *)
(* thread that opens it again and again and puts what it captures on its   *)
(* timelines, at the instants it was captured at.  The audio thread reads  *)
(* them the capture delay behind, which it has made room for from the      *)
(* first block it takes with the input bound (engine_core.cpp); the delay  *)
(* of the network and Bluetooth inputs is BtInput's.                       *)
(*                                                                         *)
(* Instants are counted from the last frame read, so nothing here grows    *)
(* with time.  The two clocks are taken as one: the trim, and starting     *)
(* over when it cannot keep up, are left out.                              *)
(***************************************************************************)
EXTENDS BtInput

CONSTANTS
  Period,      \* frames a read takes
  Buffer,      \* the driver's buffer
  DeviceDelay, \* kDeviceInputDelayMs, in frames
  Guard,       \* frames a write keeps ahead of the audio thread
  StallWaits,  \* waits in kReadStallMs
  MaxBehind    \* bound: frames captured without the thread looking

DeviceInputAssumption ==
  /\ Period \in Nat \ {0} /\ Buffer \in Nat /\ Buffer >= Period /\ {Guard, MaxBehind} \subseteq Nat
  /\ StallWaits \in Nat \ {0} /\ DeviceDelay \in Nat /\ DeviceDelay >= Period + Guard

ASSUME DeviceInputAssumption

VARIABLES
  up,     \* running_
  engine, \* the time anchor has been published
  told,   \* ctl_.capture_delay
  device, \* plugged, what its PCM is at, the frames its driver holds
  reader, \* the thread: pc, waited, anchored, capturing_, and where out_next is
  behind, \* frames of time since the last frame read was captured
  late    \* late_ went up, for audio this far behind

devVars == <<up, engine, told, device, reader, behind, late>>
inputVars == <<btVars, devVars>>

\* ahead: out_next less the instant after the last frame read; age: behind, when the
\* engine's position was taken.
Closed == [pc |-> "open", waited |-> 0, anchored |-> FALSE, capturing |-> FALSE,
           ahead |-> 0, age |-> 0]
Absent == [plugged |-> FALSE, pcm |-> "closed", held |-> 0]
InTime == -1

\* In a mix without one no device was ever found.
DevInit ==
  /\ up = TRUE /\ engine = FALSE /\ told = 0 /\ behind = 0 /\ late = InTime
  /\ IF left.device = 0
       THEN device = Absent /\ reader = [Closed EXCEPT !.pc = "none"]
       ELSE device = [Absent EXCEPT !.plugged = TRUE] /\ reader = Closed

Found == reader.pc # "none"
Reads(pc) == reader.pc = pc
Moves(pc) == reader' = [reader EXCEPT !.pc = pc]

\* open_pcm(): asked for, refused, or gone.
DevOpen ==
  /\ Reads("open")
  /\ \/ ~up /\ Moves("ended") /\ UNCHANGED <<device, behind, left>>
     \/ /\ up /\ device.plugged
        /\ device' = [device EXCEPT !.pcm = "running", !.held = 0] /\ behind' = 0
        /\ Moves("wait") /\ UNCHANGED left
     \/ up /\ (IF device.plugged THEN Spends("device") ELSE UNCHANGED left)
        /\ Moves("retry") /\ UNCHANGED <<device, behind>>
  /\ UNCHANGED <<up, engine, told, late>>

Drops == device' = [device EXCEPT !.pcm = "closed", !.held = 0]

\* Mutant: a stream that failed is not opened again.
DevCloseForGood ==
  /\ Reads("close") /\ Drops
  /\ reader' = [Closed EXCEPT !.pc = "ended"]
  /\ UNCHANGED <<up, engine, told, behind, late, left>>

\* close_pcm(), then a wait before the next try.
DevClose ==
  /\ Reads("close") /\ Drops
  /\ reader' = [Closed EXCEPT !.pc = IF up THEN "retry" ELSE "open"]
  /\ UNCHANGED <<up, engine, told, behind, late, left>>

DevRetry ==
  /\ Reads("retry") /\ Moves("open")
  /\ UNCHANGED <<up, engine, told, device, behind, late, left>>

\* The wait runs out: after enough of them the device is as good as gone.
DevStalls ==
  /\ Reads("wait") /\ up /\ device.pcm = "stuck"
  /\ reader' = IF reader.waited + 1 >= StallWaits THEN [reader EXCEPT !.pc = "close"]
               ELSE [reader EXCEPT !.waited = @ + 1]
  /\ UNCHANGED <<up, engine, told, device, behind, late, left>>

\* ENODEV, or the daemon ends.
DevLeaves ==
  /\ Reads("wait") /\ (~up \/ device.pcm = "gone") /\ Moves("close")
  /\ UNCHANGED <<up, engine, told, device, behind, late, left>>

\* What is read next was captured from now on.
Restarts ==
  /\ device' = [device EXCEPT !.pcm = "running", !.held = 0] /\ behind' = 0

\* Mutant: the placement goes on as if no frame had been lost.
DevXrunGoesOn ==
  /\ Reads("wait") /\ up /\ device.pcm = "xrun"
  /\ \/ reader' = [reader EXCEPT !.ahead = @ - behind] /\ Restarts /\ UNCHANGED left
     \/ Spends("device") /\ Moves("close") /\ UNCHANGED <<device, behind>>
  /\ UNCHANGED <<up, engine, told, late>>

\* An overrun: frames were lost, and the placement starts over from the next read.
DevXrun ==
  /\ Reads("wait") /\ up /\ device.pcm = "xrun"
  /\ \/ /\ reader' = [reader EXCEPT !.anchored = FALSE, !.capturing = FALSE, !.ahead = 0]
        /\ Restarts /\ UNCHANGED left
     \/ Spends("device") /\ UNCHANGED <<device, behind>>
        /\ reader' = [reader EXCEPT !.pc = "close", !.anchored = FALSE, !.capturing = FALSE]
  /\ UNCHANGED <<up, engine, told, late>>

DevRead ==
  /\ Reads("wait") /\ up /\ device.pcm = "running" /\ device.held >= Period
  /\ device' = [device EXCEPT !.held = @ - Period] /\ behind' = behind - Period
  /\ reader' = [reader EXCEPT !.pc = "place", !.waited = 0]
  /\ UNCHANGED <<up, engine, told, late, left>>

\* snd_pcm_delay(), which fails once the PCM has.
Queued == IF device.pcm = "running" THEN device.held ELSE 0

\* Where the frames go: the engine's position now, less what came in since; once
\* placed, after the ones before.
DevPlace ==
  /\ Reads("place")
  /\ reader' = IF ~engine THEN [reader EXCEPT !.pc = "wait", !.anchored = FALSE, !.capturing = FALSE,
                                              !.ahead = 0]
               ELSE IF reader.anchored THEN [reader EXCEPT !.pc = "write", !.age = behind]
               ELSE [reader EXCEPT !.pc = "write", !.age = behind, !.anchored = TRUE,
                                   !.capturing = TRUE, !.ahead = behind - Queued]
  /\ UNCHANGED <<up, engine, told, device, behind, late, left>>

\* By the first of the frames read.
Refused == Period + reader.age - reader.ahead + Guard > told

\* Mutant: the write does not wait for the engine to have made room.
DevWriteAtOnce ==
  /\ Reads("write") /\ reader' = [reader EXCEPT !.pc = "wait", !.age = 0]
  /\ late' = IF Refused THEN reader.age ELSE InTime
  /\ UNCHANGED <<up, engine, told, device, behind, left>>

\* NetTimeline::write(), once the engine has held the axis back for this input.
DevWrite ==
  /\ Reads("write") /\ reader' = [reader EXCEPT !.pc = "wait", !.age = 0]
  /\ late' = IF told # 0 /\ Refused THEN reader.age ELSE InTime
  /\ UNCHANGED <<up, engine, told, device, behind, left>>

DevThread ==
  DevOpen \/ DevClose \/ DevRetry \/ DevStalls \/ DevLeaves \/ DevXrun \/ DevRead \/ DevPlace
  \/ DevWrite

\* A frame's time passes: the device captures one, until its buffer is full.
DevTick ==
  /\ device.pcm # "closed" /\ behind < MaxBehind /\ behind' = behind + 1
  /\ device' = IF device.pcm # "running" THEN device
               ELSE IF device.held < Buffer THEN [device EXCEPT !.held = @ + 1]
               ELSE [device EXCEPT !.pcm = "xrun"]
  /\ UNCHANGED <<up, engine, told, reader, late, left>>

\* Mutant: the delay of the other inputs, whatever this one needs.
BlockNet ==
  /\ Found /\ engine' = TRUE /\ told' = net.delay
  /\ UNCHANGED <<up, device, reader, behind, late, left>>

\* A block of the audio thread with the input bound: sync_capture_delay().
Block ==
  /\ Found /\ engine' = TRUE /\ told' = IF net.delay > DeviceDelay THEN net.delay ELSE DeviceDelay
  /\ UNCHANGED <<up, device, reader, behind, late, left>>

\* The device is pulled, put back or stops delivering; the daemon stops.  The anchor
\* may be there before this input's first block.
DevWorld ==
  /\ Found
  /\ \/ Spends("device") /\ up' = up /\ engine' = engine
        /\ \/ device.plugged
              /\ device' = [device EXCEPT !.plugged = FALSE,
                                          !.pcm = IF @ = "closed" THEN @ ELSE "gone"]
           \/ device.pcm = "running" /\ device' = [device EXCEPT !.pcm = "stuck"]
     \/ ~device.plugged /\ device' = [device EXCEPT !.plugged = TRUE]
        /\ UNCHANGED <<up, engine, left>>
     \/ ~engine /\ engine' = TRUE /\ UNCHANGED <<up, device, left>>
     \/ Spends("device") /\ up' = FALSE /\ UNCHANGED <<engine, device>>
  /\ UNCHANGED <<told, reader, behind, late>>

DevNext == DevThread \/ DevTick \/ Block \/ DevWorld

Calls == (\E k \in Clerks : Call(k)) /\ UNCHANGED devVars
Served(k) == Serve(k) /\ UNCHANGED devVars
Recorded == ThreadStep /\ UNCHANGED devVars
Happens == World /\ UNCHANGED devVars
Captured == DevThread /\ UNCHANGED <<request, world, input>>
ReadInTime == DevRead /\ UNCHANGED <<request, world, input>>
Ticks == DevTick /\ UNCHANGED <<request, world, input>>
Around == (Block \/ DevWorld) /\ UNCHANGED <<request, world, input>>

InputsInit == BtInit /\ DevInit

InputsNext ==
  Calls \/ (\E k \in Clerks : Served(k)) \/ Recorded \/ Happens \/ Captured \/ Ticks \/ Around

\* The threads run, and the device captures; a real-time thread is not held up
\* past the buffer every single time.  Nothing else need happen.
InputFairness ==
  /\ WF_inputVars(Recorded) /\ \A k \in Clerks : WF_inputVars(Served(k))
  /\ WF_inputVars(Captured) /\ WF_inputVars(Ticks) /\ SF_inputVars(ReadInTime)

InputsSpec == InputsInit /\ [][InputsNext]_inputVars /\ InputFairness

----------------------------------------------------------------------------
(* What must hold.                                                         *)

\* The types; and it is said to capture only when it does.
InputTypeOK ==
  /\ BtTypeOK
  /\ device.held \in 0 .. Buffer /\ behind \in 0 .. MaxBehind /\ late \in {InTime} \cup Nat
  /\ device.pcm = "running" => behind = device.held
  /\ reader.capturing => reader.anchored /\ device.pcm # "closed"

\* However often the device overruns, stalls, is pulled or starts before the
\* engine, what is written goes where the axis has the instant it was captured
\* at; only audio read just before an overrun may not, and it ends there.
DeviceFramesKeepTheirInstant ==
  Reads("write") /\ device.pcm = "running" => reader.ahead = 0

\* Audio is refused as late only if this thread was late with it, whatever delay
\* the other inputs ask for and however soon the device is open.
OnlyTheLateAreLate == [][late' # late /\ late' # InTime => late' > DeviceDelay - Guard - Period]_inputVars

\* A device that is there, or is there again, comes to be captured.
ComesBack == <>[](up /\ device.plugged /\ engine) => []<>reader.capturing

\* What the input thread holds, and what it is given to place audio in, through every
\* failure and every request (BtInput's three).
InputInv == InputTypeOK /\ RoomInFront /\ DelayIsAsImplied /\ FailuresLetGo

\* Neither a request, nor a phone, nor a device that is back waits for ever.
InputsGoOn == FollowsTheLatest /\ PutsAreAnswered /\ ComesBack
=============================================================================

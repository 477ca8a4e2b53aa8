------------------------------- MODULE BtInput -------------------------------
(***************************************************************************)
(* The Bluetooth input (src/app/src/bt_input.cpp): the thread that records *)
(* the phone that streams to the device, onto two network channels.  With  *)
(* it, the alignment delay, which is on while the network input or this    *)
(* one is (control.h), and the requests that change either (webserver.cpp, *)
(* PUT /api/bluetooth/input and PUT /api/net).                             *)
(*                                                                         *)
(* The frames and what the Feed makes of them are NetStream's; which       *)
(* channels are free is NetChannels'.  Here there is one run of them, that *)
(* another sender may hold.                                                *)
(***************************************************************************)
EXTENDS Integers, SequencesExt

CONSTANTS
  Phones,
  NoPhone,
  Clerks,      \* the web server's threads
  NoClerk,
  Delays,      \* delay_ms, in frames
  MinDelay,    \* kBtMinDelayFrames
  CheckEvery,  \* passes of the loop in kSourceCheckNs
  Mixes        \* bounds: what else happens, [puts, streams, faults, device]

BtInputAssumption ==
  /\ NoPhone \notin Phones /\ NoClerk \notin Clerks /\ Delays \subseteq Nat \ {0} /\ Delays # {}
  /\ MinDelay \in Nat /\ CheckEvery \in Nat \ {0}
  /\ \A m \in Mixes : {m.puts, m.streams, m.faults, m.device} \subseteq Nat

ASSUME BtInputAssumption

VARIABLES
  net,      \* ctl_.net: enabled, bt_input, delay_ms, delay_frames; two ghosts: the delay_ms that
            \* the delay was last derived from, and whether a rejected body left another since
  holder,   \* who holds delay_m_
  put,      \* clerk -> the request it serves
  bus,      \* BtManager's status_.running
  streams,  \* the phones with a capture PCM, the latest last
  channels, \* who has the run: "free", "bt" or "other"
  running,  \* running_
  thread,   \* pc, phone, whether its PCM is open and has not failed, passes since the last look
  shown,    \* st_: state, address, input
  left      \* what the bounds have left

request == <<net, holder, put>>
world == <<bus, streams, channels>>
input == <<running, thread, shown>>
btVars == <<request, world, input, left>>

NoPut == [op |-> "none", at |-> "idle", on |-> FALSE, ms |-> 0]
NoThread == [pc |-> "none", phone |-> NoPhone, pcm |-> FALSE, ok |-> TRUE, passes |-> 0]
Cleared == [state |-> "waiting", phone |-> NoPhone, input |-> FALSE]
NothingShown == [state |-> "off", phone |-> NoPhone, input |-> FALSE]

BtInit ==
  /\ \E d \in Delays, on \in BOOLEAN :
       net = [enabled |-> on, bt |-> FALSE, ms |-> d, delay |-> IF on THEN d ELSE 0,
              from |-> d, rejected |-> FALSE]
  /\ holder = NoClerk /\ put = [k \in Clerks |-> NoPut]
  /\ bus = TRUE /\ streams = <<>> /\ channels = "free"
  /\ running = FALSE /\ thread = NoThread /\ shown = NothingShown
  /\ left \in Mixes

Spends(what) == left[what] > 0 /\ left' = [left EXCEPT ![what] = @ - 1]

\* net_delay_frames().
Implied(n) == IF n.enabled \/ n.bt THEN n.ms ELSE 0

----------------------------------------------------------------------------
(* The requests, both with delay_m_ for all that goes together.  "enabled" *)
(* may be no Boolean in the body of one of the network's: "garbled".       *)

Puts ==
  [op : {"net"}, at : {"store"}, on : BOOLEAN, ms : Delays]
    \cup [op : {"garbled"}, at : {"store"}, on : {FALSE}, ms : Delays]
    \cup [op : {"bt"}, at : {"look"}, on : BOOLEAN, ms : {0}]

Call(k) ==
  /\ put[k] = NoPut /\ Spends("puts")
  /\ \E p \in Puts : put' = [put EXCEPT ![k] = p]
  /\ UNCHANGED <<net, holder, world, input>>

Goes(k, at) == put' = [put EXCEPT ![k].at = at]

\* delay_ms is stored before the lock is taken.
PutNetStores(k) ==
  /\ put[k].at = "store"
  /\ net' = [net EXCEPT !.ms = put[k].ms] /\ Goes(k, "lock")
  /\ UNCHANGED <<holder, world, input, left>>

\* "on && !status().running": refused.
PutBtLooks(k) ==
  /\ put[k].at = "look"
  /\ IF put[k].on /\ ~bus THEN put' = [put EXCEPT ![k] = NoPut] ELSE Goes(k, "lock")
  /\ UNCHANGED <<net, holder, world, input, left>>

\* The body that turns out to be wrong is answered 400, and the lock is free again.
PutLocks(k) ==
  /\ put[k].at = "lock" /\ holder = NoClerk
  /\ \/ /\ put[k].op = "garbled" /\ put' = [put EXCEPT ![k] = NoPut]
        /\ net' = [net EXCEPT !.rejected = TRUE] /\ UNCHANGED holder
     \/ /\ put[k].op = "bt" /\ ~put[k].on /\ Goes(k, "stop")
        /\ holder' = k /\ UNCHANGED net
     \/ /\ put[k].op = "bt" /\ put[k].on /\ Goes(k, "delay")
        /\ holder' = k /\ net' = [net EXCEPT !.bt = TRUE]
     \/ /\ put[k].op = "net" /\ Goes(k, "delay")
        /\ holder' = k /\ net' = [net EXCEPT !.enabled = put[k].on]
  /\ UNCHANGED <<world, input, left>>

Derived(delay) == net' = [net EXCEPT !.delay = delay, !.from = net.ms, !.rejected = FALSE]

\* Mutant: the network input alone decides.
PutDelaysAlone(k) ==
  /\ put[k].at = "delay"
  /\ Derived(IF put[k].op = "net" /\ ~net.enabled THEN 0 ELSE Implied(net))
  /\ Goes(k, IF put[k].op = "bt" /\ put[k].on THEN "start" ELSE "reply")
  /\ UNCHANGED <<holder, world, input, left>>

PutDelays(k) ==
  /\ put[k].at = "delay"
  /\ Derived(Implied(net))
  /\ Goes(k, IF put[k].op = "bt" /\ put[k].on THEN "start" ELSE "reply")
  /\ UNCHANGED <<holder, world, input, left>>

\* start(): idempotent.
PutStarts(k) ==
  /\ put[k].at = "start"
  /\ IF running THEN UNCHANGED input
     ELSE /\ running' = TRUE /\ thread' = [NoThread EXCEPT !.pc = "look"]
          /\ shown' = [shown EXCEPT !.state = "waiting"]
  /\ Goes(k, "reply")
  /\ UNCHANGED <<net, holder, world, left>>

\* Mutant: the delay goes before the thread does.
PutStopsOffFirst(k) ==
  /\ put[k].at = "stop"
  /\ net' = [net EXCEPT !.bt = FALSE, !.delay = IF net.enabled THEN net.ms ELSE 0]
  /\ running' = FALSE /\ Goes(k, "join")
  /\ UNCHANGED <<holder, world, thread, shown, left>>

\* stop(), up to the join.
PutStops(k) ==
  /\ put[k].at = "stop"
  /\ running' = FALSE /\ Goes(k, "join")
  /\ UNCHANGED <<net, holder, world, thread, shown, left>>

\* stop() from the join on; only then is the switch off.
PutJoins(k) ==
  /\ put[k].at = "join" /\ thread.pc \in {"none", "ended"}
  /\ thread' = NoThread /\ shown' = NothingShown
  /\ net' = [net EXCEPT !.bt = FALSE] /\ Goes(k, "delay")
  /\ UNCHANGED <<holder, world, running, left>>

PutReplies(k) ==
  /\ put[k].at = "reply"
  /\ holder' = NoClerk /\ put' = [put EXCEPT ![k] = NoPut]
  /\ UNCHANGED <<net, world, input, left>>

----------------------------------------------------------------------------
(* The thread.                                                             *)

\* BtManager::capture_source(): the phone that began to stream last.
Source == IF bus /\ streams # <<>> THEN streams[Len(streams)] ELSE NoPhone

At(pc) == thread.pc = pc
Then(pc) == thread' = [thread EXCEPT !.pc = pc]
Keeps == UNCHANGED <<request, bus, streams, running>>

BtLook ==
  /\ At("look")
  /\ \/ ~running /\ Then("ended") /\ UNCHANGED shown
     \/ running /\ Source = NoPhone /\ Then("sleep") /\ shown' = Cleared
     \/ /\ running /\ Source # NoPhone
        /\ thread' = [NoThread EXCEPT !.pc = "open", !.phone = Source]
        /\ shown' = [shown EXCEPT !.phone = Source]
  /\ Keeps /\ UNCHANGED <<channels, left>>

BtSlept ==
  /\ At("sleep") /\ thread' = [NoThread EXCEPT !.pc = "look"]
  /\ Keeps /\ UNCHANGED <<channels, shown, left>>

\* fail(): what was opened is closed, and the reason shown.
Fails == thread' = [NoThread EXCEPT !.pc = "sleep"] /\ shown' = [shown EXCEPT !.state = "error"]

\* Opening the PCM, and what is asked of it.
BtOpen ==
  /\ At("open")
  /\ \/ thread' = [thread EXCEPT !.pc = "claim", !.pcm = TRUE] /\ UNCHANGED <<shown, left>>
     \/ Spends("faults") /\ Fails
  /\ Keeps /\ UNCHANGED channels

\* Every run taken by other senders is a failure like the others.
BtClaim ==
  /\ At("claim")
  /\ IF channels = "free"
       THEN channels' = "bt" /\ Then("configure") /\ UNCHANGED shown
       ELSE Fails /\ UNCHANGED channels
  /\ Keeps /\ UNCHANGED left

\* Mutant: the channels stay claimed when the converter or the start fails.
BtReadyKeepsChannels ==
  /\ At("configure")
  /\ \/ Then("loop") /\ shown' = [state |-> "waiting", phone |-> thread.phone, input |-> TRUE]
        /\ UNCHANGED left
     \/ Spends("faults") /\ Fails
  /\ Keeps /\ UNCHANGED channels

\* feed.configure() and the start of the PCM, either of which may fail.
BtReady ==
  /\ At("configure")
  /\ \/ Then("loop") /\ shown' = [state |-> "waiting", phone |-> thread.phone, input |-> TRUE]
        /\ UNCHANGED <<channels, left>>
     \/ Spends("faults") /\ Fails /\ channels' = "free"
  /\ Keeps

\* Mutants: a stream is read until it breaks; the loop does not look at running_.
BtLoopToTheEnd ==
  /\ At("loop")
  /\ Then(IF ~running THEN "close" ELSE "wait")
  /\ Keeps /\ UNCHANGED <<channels, shown, left>>

BtLoopOnAndOn ==
  /\ At("loop")
  /\ IF thread.passes < CheckEvery THEN thread' = [thread EXCEPT !.pc = "wait", !.passes = @ + 1]
     ELSE thread' = [thread EXCEPT !.pc = IF Source = thread.phone THEN "wait" ELSE "close", !.passes = 0]
  /\ Keeps /\ UNCHANGED <<channels, shown, left>>

\* A pass: now and then, whether this is still the phone to follow.
BtLoop ==
  /\ At("loop")
  /\ IF ~running THEN Then("close")
     ELSE IF thread.passes < CheckEvery
       THEN thread' = [thread EXCEPT !.pc = "wait", !.passes = @ + 1]
     ELSE thread' = [thread EXCEPT !.pc = IF Source = thread.phone THEN "wait" ELSE "close",
                                   !.passes = 0]
  /\ Keeps /\ UNCHANGED <<channels, shown, left>>

\* snd_pcm_wait() and snd_pcm_readi(): nothing yet, an overrun, a failure, audio.
BtWait ==
  /\ At("wait")
  /\ \/ Then("loop") /\ shown' \in {shown, [shown EXCEPT !.state = IF @ = "streaming" THEN "waiting"
                                                                   ELSE @]} /\ UNCHANGED left
     \/ Spends("faults") /\ thread' \in {[thread EXCEPT !.pc = "loop"],
                                         [thread EXCEPT !.pc = "close", !.ok = FALSE]}
        /\ UNCHANGED shown
     \/ \E i \in DOMAIN streams : streams[i] = thread.phone /\ Then("place")
        /\ UNCHANGED <<shown, left>>
  /\ Keeps /\ UNCHANGED channels

\* Below what a write must keep ahead of playout, nothing it sends could land.
BtPlace ==
  /\ At("place") /\ Then("loop")
  /\ shown' = [shown EXCEPT !.state = IF net.delay < MinDelay THEN "error" ELSE "streaming"]
  /\ Keeps /\ UNCHANGED <<channels, left>>

BtClose ==
  /\ At("close")
  /\ thread' = [thread EXCEPT !.pc = "release", !.pcm = FALSE]
  /\ Keeps /\ UNCHANGED <<channels, shown, left>>

BtRelease ==
  /\ At("release") /\ channels' = "free" /\ Then("left")
  /\ Keeps /\ UNCHANGED <<shown, left>>

\* A PCM that failed under a phone that is still there is tried again after a pause.
BtLeaves ==
  /\ At("left")
  /\ IF ~thread.ok /\ running /\ Source = thread.phone
       THEN /\ thread' = [NoThread EXCEPT !.pc = "sleep"]
            /\ shown' = [shown EXCEPT !.state = "error", !.input = FALSE]
       ELSE /\ thread' = [NoThread EXCEPT !.pc = "look"]
            /\ shown' = [shown EXCEPT !.state = "waiting", !.input = FALSE]
  /\ Keeps /\ UNCHANGED <<channels, left>>

ThreadStep ==
  BtLook \/ BtSlept \/ BtOpen \/ BtClaim \/ BtReady \/ BtLoop \/ BtWait \/ BtPlace
  \/ BtClose \/ BtRelease \/ BtLeaves

----------------------------------------------------------------------------
(* The phones, the bus and the other senders.                              *)

World ==
  /\ Spends("streams")
  /\ \/ /\ \/ \E p \in Phones \ Range(streams) : streams' = Append(streams, p)
           \/ \E i \in DOMAIN streams :
                streams' \in {RemoveAt(streams, i), Append(RemoveAt(streams, i), streams[i])}
        /\ UNCHANGED <<bus, channels>>
     \/ bus' = ~bus /\ streams' = <<>> /\ UNCHANGED channels
     \/ /\ channels' \in (CASE channels = "free" -> {"other"} [] channels = "other" -> {"free"}
                            [] OTHER -> {})
        /\ UNCHANGED <<bus, streams>>
  /\ UNCHANGED <<request, input>>

Serve(k) ==
  PutNetStores(k) \/ PutBtLooks(k) \/ PutLocks(k) \/ PutDelays(k) \/ PutStarts(k) \/ PutStops(k)
  \/ PutJoins(k) \/ PutReplies(k)

BtNext == (\E k \in Clerks : Call(k) \/ Serve(k)) \/ ThreadStep \/ World

\* The thread and the web server's threads run; nothing else need happen.
BtFairness == WF_btVars(ThreadStep) /\ \A k \in Clerks : WF_btVars(Serve(k))

BtSpec == BtInit /\ [][BtNext]_btVars /\ BtFairness

----------------------------------------------------------------------------
(* What must hold.                                                         *)

Recording == {"loop", "wait", "place"}

\* The types, part of DeviceInput's.
BtTypeOK ==
  /\ net.delay \in Delays \cup {0} /\ {net.ms, net.from} \subseteq Delays /\ net.rejected \in BOOLEAN
  /\ running => thread.pc \notin {"none", "ended"}
  /\ shown.state \in {"off", "waiting", "streaming", "error"}
  /\ shown.phone \in Phones \cup {NoPhone} /\ channels \in {"free", "bt", "other"}

\* Whatever turns on, off or fails, in whatever order: while there is a thread to
\* place audio, there is room in front of playout to place it in.
RoomInFront == thread.pc # "none" => net.delay > 0

\* Once the requests are answered, the delay is the one that the switches imply and the
\* delay_ms it was derived from, which is the last one stored unless that came with a
\* body rejected half way and no request went all the way since.
DelayIsAsImplied ==
  (\A k \in Clerks : put[k] = NoPut) =>
     /\ net.delay = Implied([net EXCEPT !.ms = net.from])
     /\ ~net.rejected => net.ms = net.from

\* What a comment says of it (webserver.cpp:1256), and the code does not keep: a
\* rejected body changes nothing, so the delay_ms shown is the one in force.
RejectedChangesNothing == (\A k \in Clerks : put[k] = NoPut) => net.ms = net.from

\* Whichever step fails, the PCM and the channels are let go before the thread
\* waits, looks again or ends.
FailuresLetGo ==
  /\ channels = "bt" <=> thread.pc \in {"configure", "close", "release"} \cup Recording
  /\ thread.pcm => thread.pc \in {"claim", "configure", "close"} \cup Recording

\* With the input on and the channels free, it comes to record the phone that
\* began to stream last, whichever it was on before.
FollowsTheLatest ==
  \A p \in Phones :
    <>[](running /\ Source = p /\ channels # "other")
      => <>[](thread.phone = p /\ thread.pc \in Recording)

\* Turning the input off is answered: a stream that goes on, or does nothing at
\* all, does not keep the thread.
PutsAreAnswered == \A k \in Clerks : put[k] # NoPut ~> put[k] = NoPut

=============================================================================

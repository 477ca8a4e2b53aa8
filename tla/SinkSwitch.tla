------------------------------ MODULE SinkSwitch ------------------------------
(***************************************************************************)
(* One sink's switch: who may start, stop and reopen its thread.  The HTTP  *)
(* workers' PUT /api/sinks/{id} and PUT /api/bluetooth/output              *)
(* (webserver.cpp), the device scan's second probe (devices.cpp), the       *)
(* buttons of a speaker on the Bluetooth thread (bt_player.cpp, main.cpp),  *)
(* and SinkOutput's own thread (sink_out.cpp).                              *)
(*                                                                         *)
(* The PUTs hold sink_put_m_ (put); every call of SinkOutput holds life_m_  *)
(* (life), also while it joins the thread.                                  *)
(***************************************************************************)
EXTENDS Integers

CONSTANTS
  Workers,     \* HTTP worker threads
  Scanners,    \* the device scan's thread
  Players,     \* the Bluetooth thread
  Kinds,       \* which sinks: "hdmi", "late" for one that would not open at its
               \* first probe, "speaker" for the Bluetooth sink
  Requests,    \* bodies of a PUT, for each kind
  SavedLayout, SavedRate,  \* what the saved config has for the sink
  Keep,        \* a field the body leaves out
  Nobody

Actors == Workers \cup Scanners \cup Players
Layouts == {"stereo", "surround"}
Rates == {44100, 48000, 96000}

\* surround_rate_ok()
SurroundRateOk(l, r) == r <= 48000 \/ l # "surround"

ASSUME SwitchAssumption ==
  /\ Nobody \notin Actors /\ Keep \notin Layouts /\ Keep \notin Rates /\ Keep \notin BOOLEAN
  /\ Kinds \subseteq {"hdmi", "late", "speaker"}
  /\ \A k \in Kinds : \A r \in Requests[k] :
                         r.layout \in Layouts \cup {Keep} /\ r.rate \in Rates \cup {Keep}
                         /\ r.enabled \in BOOLEAN \cup {Keep} /\ r.retarget \in BOOLEAN
  /\ SavedLayout \in Layouts /\ SavedRate \in Rates /\ SurroundRateOk(SavedLayout, SavedRate)
  /\ Workers \cap Scanners = {} /\ (Workers \cup Scanners) \cap Players = {}

VARIABLES
  kind,              \* which sink this is
  enabled, layout,   \* SinkControl: what the audio thread renders
  rate,              \* sample_rate_
  probed,            \* the device has said what it takes
  running,           \* running_
  thread,            \* "none", "opening", "configuring" (between its two reads), "open"
  opened,            \* what the thread opened the device with, or is opening
  life, put,         \* life_m_ and sink_put_m_: who holds them
  actor              \* where each actor is

vars == <<kind, enabled, layout, rate, probed, running, thread, opened, life, put, actor>>
sink == <<kind, enabled, layout, rate, probed>>
stream == <<running, thread, opened>>

\* An actor's own variables: its request, the layout and the rate it has
\* decided on, layout_was, and the call it is in: which, and where it returns.
Resting == [pc |-> "idle", req |-> [layout |-> Keep, rate |-> Keep, enabled |-> Keep, retarget |-> FALSE],
            layout |-> SavedLayout, rate |-> SavedRate, was |-> SavedLayout,
            call |-> "start", restart |-> FALSE, to |-> "idle"]

Init ==
  /\ kind \in Kinds
  /\ enabled = FALSE /\ layout = SavedLayout /\ rate = SavedRate
  /\ probed = (kind # "late")
  /\ running = FALSE /\ thread = "none" /\ opened = [layout |-> SavedLayout, rate |-> SavedRate]
  /\ life = Nobody /\ put = Nobody
  /\ actor = [a \in Actors |-> Resting]

At(a, pc) == actor[a].pc = pc
\* What a handler keeps in its locals goes when it returns.
Goto(a, pc) == actor' = [actor EXCEPT ![a] = IF pc = "idle" THEN Resting ELSE [@ EXCEPT !.pc = pc]]
Call(a, what, r, to) ==
  actor' = [actor EXCEPT ![a] = [@ EXCEPT !.pc = "lock", !.call = what, !.rate = r, !.to = to]]

----------------------------------------------------------------------------
(* SinkOutput: start(), stop(), bind() and set_sample_rate() ("rate"),      *)
(* restart(), each under life_m_.                                           *)

Starts == running' = TRUE /\ thread' = "opening" /\ UNCHANGED opened

StartCall(a) ==
  /\ At(a, "lock") /\ life = Nobody /\ actor[a].call = "start"
  /\ IF running THEN UNCHANGED stream ELSE Starts
  /\ Goto(a, actor[a].to)
  /\ UNCHANGED <<sink, life, put>>

\* was_running is read, and the thread is told to stop.
StopCall(a) ==
  /\ At(a, "lock") /\ life = Nobody /\ actor[a].call # "start"
  /\ actor[a].call = "restart" => running
  /\ life' = a /\ running' = FALSE
  /\ actor' = [actor EXCEPT ![a].pc = "join",
                            ![a].restart = running /\ actor[a].call # "stop"]
  /\ UNCHANGED <<sink, thread, opened, put>>

RestartOfNone(a) ==
  /\ At(a, "lock") /\ life = Nobody /\ actor[a].call = "restart" /\ ~running
  /\ Goto(a, actor[a].to)
  /\ UNCHANGED <<sink, stream, life, put>>

\* Mutant: the rate is stored once the thread runs again.
JoinedEarly(a) ==
  /\ At(a, "join") /\ life' = Nobody
  /\ IF actor[a].restart THEN Starts ELSE UNCHANGED stream
  /\ rate' = IF actor[a].call = "rate" THEN actor[a].rate ELSE rate
  /\ Goto(a, actor[a].to)
  /\ UNCHANGED <<kind, enabled, layout, probed, put>>

\* The thread has ended: thread_.join() returns.
Joined(a) ==
  /\ At(a, "join") /\ thread = "none"
  /\ life' = Nobody
  /\ IF actor[a].restart THEN Starts ELSE UNCHANGED stream
  /\ rate' = IF actor[a].call = "rate" THEN actor[a].rate ELSE rate
  /\ Goto(a, actor[a].to)
  /\ UNCHANGED <<kind, enabled, layout, probed, put>>

----------------------------------------------------------------------------
(* SinkOutput::run(): open, stream, and open again when the stream fails.   *)

Others == <<sink, running, life, put, actor>>

Open ==
  /\ thread = "opening" /\ running
  /\ thread' = "configuring" /\ opened' = [opened EXCEPT !.rate = rate]
  /\ UNCHANGED Others

\* The layout is read after the rate, and a rate that does not carry it gives way.
Configure ==
  /\ thread = "configuring"
  /\ \/ thread' = "open"
     \/ thread' = "opening"  \* the device would not open
  /\ opened' = [layout |-> layout,
                rate |-> IF SurroundRateOk(layout, opened.rate) THEN opened.rate ELSE 48000]
  /\ UNCHANGED Others

StreamFails == thread = "open" /\ thread' = "opening" /\ UNCHANGED <<Others, opened>>

\* Mutant: the thread looks at running_ only between streams.
EndsBetweenStreams ==
  /\ thread = "opening" /\ ~running
  /\ thread' = "none"
  /\ UNCHANGED <<Others, opened>>

Ends ==
  /\ thread \in {"opening", "open"} /\ ~running
  /\ thread' = "none"
  /\ UNCHANGED <<Others, opened>>

----------------------------------------------------------------------------
(* PUT /api/sinks/{id} and PUT /api/bluetooth/output.                       *)

\* Mutant: the handlers take no lock.
ReceiveUnlocked(w, r) ==
  /\ At(w, "idle")
  /\ actor' = [actor EXCEPT ![w] = [Resting EXCEPT !.pc = "check", !.req = r]]
  /\ UNCHANGED <<sink, stream, life, put>>

Receive(w, r) ==
  /\ At(w, "idle") /\ put = Nobody
  /\ put' = w
  /\ actor' = [actor EXCEPT ![w] = [Resting EXCEPT !.pc = "check", !.req = r]]
  /\ UNCHANGED <<sink, stream, life>>

\* Devices::retarget(), for the Bluetooth sink: the rate it has.
Retarget(w) ==
  /\ At(w, "check") /\ actor[w].req.retarget
  /\ Call(w, "rate", rate, "switch")
  /\ UNCHANGED <<sink, stream, life, put>>

\* Mutant: only a new rate or layout of the same request is checked.
CheckBodyOnly(w) ==
  LET r == actor[w].req
      l == IF r.layout = Keep THEN layout ELSE r.layout
      f == IF r.rate = Keep THEN rate ELSE r.rate IN
    /\ At(w, "check") /\ ~r.retarget
    /\ actor' = [actor EXCEPT ![w] = [@ EXCEPT !.layout = l, !.rate = f, !.was = layout,
                   !.pc = IF Keep \in {r.layout, r.rate} \/ SurroundRateOk(l, f)
                          THEN "store" ELSE "release"]]
    /\ UNCHANGED <<sink, stream, life, put>>

\* Everything is checked before anything is applied.
Check(w) ==
  LET r == actor[w].req
      l == IF r.layout = Keep THEN layout ELSE r.layout
      f == IF r.rate = Keep THEN rate ELSE r.rate IN
    /\ At(w, "check") /\ ~r.retarget
    /\ actor' = [actor EXCEPT ![w] = [@ EXCEPT !.layout = l, !.rate = f, !.was = layout,
                                        !.pc = IF SurroundRateOk(l, f) THEN "store" ELSE "release"]]
    /\ UNCHANGED <<sink, stream, life, put>>

StoreLayout(w) ==
  /\ At(w, "store")
  /\ layout' = actor[w].layout
  /\ Goto(w, "apply")
  /\ UNCHANGED <<kind, enabled, rate, probed, stream, life, put>>

\* Mutant: a new layout waits for the next start.
ApplyRateOnly(w) ==
  /\ At(w, "apply")
  /\ IF actor[w].rate # rate THEN Call(w, "rate", actor[w].rate, "switch") ELSE Goto(w, "switch")
  /\ UNCHANGED <<sink, stream, life, put>>

Apply(w) ==
  /\ At(w, "apply")
  /\ CASE actor[w].rate # rate -> Call(w, "rate", actor[w].rate, "switch")
       [] actor[w].rate = rate /\ actor[w].layout # actor[w].was -> Call(w, "restart", rate, "switch")
       [] OTHER -> Goto(w, "switch")
  /\ UNCHANGED <<sink, stream, life, put>>

\* Rendering starts before the thread and stops after it.
TurnOn(a, to) == enabled' = TRUE /\ Call(a, "start", rate, to)
TurnOff(a, to) == Call(a, "stop", rate, to) /\ UNCHANGED enabled

\* Mutant: rendering stops first.
SwitchDisableFirst(w) ==
  /\ At(w, "switch")
  /\ CASE actor[w].req.enabled = Keep -> Goto(w, "release") /\ UNCHANGED enabled
       [] actor[w].req.enabled = TRUE -> TurnOn(w, "release")
       [] actor[w].req.enabled = FALSE -> enabled' = FALSE /\ Call(w, "stop", rate, "release")
  /\ UNCHANGED <<kind, layout, rate, probed, stream, life, put>>

Switch(w) ==
  /\ At(w, "switch")
  /\ CASE actor[w].req.enabled = Keep -> Goto(w, "release") /\ UNCHANGED enabled
       [] actor[w].req.enabled = TRUE -> TurnOn(w, "release")
       [] actor[w].req.enabled = FALSE -> TurnOff(w, "disable")
  /\ UNCHANGED <<kind, layout, rate, probed, stream, life, put>>

Disable(a) ==
  /\ At(a, "disable")
  /\ enabled' = FALSE
  /\ Goto(a, IF a \in Players THEN "idle" ELSE "release")
  /\ UNCHANGED <<kind, layout, rate, probed, stream, life, put>>

Release(w) ==
  /\ At(w, "release")
  /\ put' = Nobody
  /\ Goto(w, "idle")
  /\ UNCHANGED <<sink, stream, life>>

----------------------------------------------------------------------------
(* Devices::scan(): a sink that would not open at its first probe.          *)

ScanFinds(s) ==
  /\ At(s, "idle") /\ ~probed /\ ~running
  /\ Goto(s, "found")
  /\ UNCHANGED <<sink, stream, life, put>>

\* Nothing plays on it: only then is it bound to what the second probe said.
ScanLooksAgain(s) ==
  /\ At(s, "found")
  /\ IF running THEN Goto(s, "idle") /\ UNCHANGED probed
     ELSE Goto(s, "rebind") /\ probed' = TRUE
  /\ UNCHANGED <<kind, enabled, layout, rate, stream, life, put>>

ScanBinds(s) ==
  /\ At(s, "rebind")
  /\ layout' = SavedLayout
  /\ Call(s, "rate", SavedRate, "idle")
  /\ UNCHANGED <<kind, enabled, rate, probed, stream, life, put>>

----------------------------------------------------------------------------
(* BtTesterPlayer::command(): the buttons, with no lock of the web's.       *)

Play(p) ==
  /\ kind = "speaker" /\ At(p, "idle") /\ ~enabled
  /\ TurnOn(p, "idle")
  /\ UNCHANGED <<kind, layout, rate, probed, stream, life, put>>

Stop(p) ==
  /\ kind = "speaker" /\ At(p, "idle") /\ enabled
  /\ TurnOff(p, "disable")
  /\ UNCHANGED <<kind, layout, rate, probed, stream, life, put>>

----------------------------------------------------------------------------
PutStep(w) ==
  Retarget(w) \/ Check(w) \/ StoreLayout(w) \/ Apply(w) \/ Switch(w) \/ Disable(w) \/ Release(w)
ScanStep(s) == ScanLooksAgain(s) \/ ScanBinds(s)
CallStep(a) == StartCall(a) \/ StopCall(a) \/ RestartOfNone(a) \/ Joined(a)
ThreadStep == Open \/ Configure \/ Ends

Next ==
  \/ \E w \in Workers : PutStep(w) \/ \E r \in Requests[kind] : Receive(w, r)
  \/ \E s \in Scanners : ScanStep(s) \/ ScanFinds(s)
  \/ \E p \in Players : Play(p) \/ Stop(p) \/ Disable(p)
  \/ \E a \in Actors : CallStep(a)
  \/ ThreadStep \/ StreamFails

Spec == Init /\ [][Next]_vars

\* Threads that can run do; no request has to come.
FairSpec ==
  /\ Spec /\ WF_vars(ThreadStep)
  /\ \A w \in Workers : WF_vars(PutStep(w))
  /\ \A s \in Scanners : WF_vars(ScanStep(s))
  /\ \A a \in Actors : WF_vars(CallStep(a))

----------------------------------------------------------------------------
(* Properties.                                                              *)

\* Types.
TypeOK ==
  /\ kind \in Kinds /\ {enabled, probed, running} \subseteq BOOLEAN
  /\ layout \in Layouts /\ rate \in Rates
  /\ thread \in {"none", "opening", "configuring", "open"}
  /\ opened \in [layout : Layouts, rate : Rates]
  /\ life \in Actors \cup {Nobody} /\ put \in Workers \cup {Nobody}
  /\ DOMAIN actor = Actors
  /\ \A a \in Actors :
       actor[a].pc \in {"idle", "lock", "join"}
         \cup IF a \in Workers THEN {"check", "store", "apply", "switch", "disable", "release"}
              ELSE IF a \in Scanners THEN {"found", "rebind"} ELSE {"disable"}

\* Nobody is in the middle of changing the sink.
Quiet == \A a \in Actors : At(a, "idle")

\* The comment on sink_put_m_ (webserver.h): the thread and `enabled` never
\* disagree once whoever changed them is done.  Not so for the speaker's sink.
SwitchAgrees == Quiet => (running <=> enabled) /\ (thread # "none" <=> enabled)

\* So it is where only PUTs and the scan change the switch, which is every sink
\* but the one whose speaker has buttons.
PutsAgree == kind # "speaker" => SwitchAgrees

\* The audio thread renders for as long as the sink's thread plays: the handlers
\* start it before the thread and stop it after.
RenderedWhilePlayed == kind # "speaker" /\ thread # "none" => enabled

\* A thread that was told to stop has ended before another one starts, whoever
\* asks: start_locked() would otherwise assign over a thread not yet joined, and
\* that ends the program.
OneThreadAtATime == [][thread # "none" /\ ~running => ~running']_vars

\* One reopen picks up everything of a request: what a settled sink plays is
\* what its layout and rate say (a sink the scan binds meanwhile excepted).
PlaysWhatItSays ==
  kind # "late" /\ Quiet /\ thread = "open" => opened = [layout |-> layout, rate |-> rate]

\* docs/api.md: 5.1 and 7.1 need a sample_rate of 48000 or less.  Not so for a
\* sink that a scan binds.
SurroundIsCarried == Quiet => SurroundRateOk(layout, rate)

\* So it is for a sink no scan binds, whatever PUTs come at once.
PutsCarrySurround == kind # "late" => SurroundIsCarried

\* Every PUT is answered, whatever the scan and the sink's thread do meanwhile
\* (buttons pressed for ever could keep the lock from it).
PutsFinish == \A w \in Workers : kind # "speaker" /\ ~At(w, "idle") ~> At(w, "idle")

\* Once nobody is changing a sink, and while it plays, its thread, its switch, its
\* format and the engine's rendering go together.
SwitchInv ==
  /\ TypeOK /\ PutsAgree /\ RenderedWhilePlayed
  /\ PlaysWhatItSays /\ PutsCarrySurround
=============================================================================

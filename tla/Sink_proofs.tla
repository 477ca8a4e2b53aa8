----------------------------- MODULE Sink_proofs -----------------------------
(***************************************************************************)
(* What holds of a sink's two halves: its switch, for any number of HTTP   *)
(* workers, scans and Bluetooth threads, and the ring its thread reads,    *)
(* for every length, margin, block and number of readers.                  *)
(*                                                                         *)
(* SwitchInv speaks of the sink at rest; SwitchIInv adds where everybody   *)
(* is meanwhile: who holds life_m_ and sink_put_m_, whether the thread     *)
(* runs or will again, and which reopen is still to come.  The ring's own  *)
(* invariant, RingInv, is RingBuffer's.                                    *)
(***************************************************************************)
EXTENDS SinkSwitch, RingBuffer, TLAPS

----------------------------------------------------------------------------
(* The inductive invariant.                                                *)

Places == {"idle", "lock", "join", "check", "store", "apply", "switch", "disable",
           "release", "found", "rebind"}
Calls == {"start", "stop", "rate", "restart"}
Reqs == {Resting.req} \cup UNION {Requests[k] : k \in Kinds}
Locals == [pc : Places, req : Reqs, layout : Layouts, rate : Rates, was : Layouts,
           call : Calls, restart : BOOLEAN, to : Places]

\* Types, with the ones of each actor's own variables.
Types ==
  /\ kind \in Kinds /\ enabled \in BOOLEAN /\ probed \in BOOLEAN /\ running \in BOOLEAN
  /\ layout \in Layouts /\ rate \in Rates
  /\ thread \in {"none", "opening", "configuring", "open"}
  /\ opened \in [layout : Layouts, rate : Rates]
  /\ life \in Actors \cup {Nobody} /\ put \in Workers \cup {Nobody}
  /\ actor \in [Actors -> Locals]

\* Which calls of SinkOutput a handler makes, and where it goes on after each.
CallsOf(a) ==
  \/ a \in Workers /\ actor[a].call \in {"rate", "restart"} /\ actor[a].to = "switch"
  \/ a \in Workers /\ actor[a].call = "start" /\ actor[a].to = "release"
  \/ a \in Workers /\ actor[a].call = "stop" /\ actor[a].to = "disable"
  \/ a \in Scanners /\ actor[a].call = "rate" /\ actor[a].to = "idle"
  \/ a \in Players /\ actor[a].call = "start" /\ actor[a].to = "idle"
  \/ a \in Players /\ actor[a].call = "stop" /\ actor[a].to = "disable"

\* Where each thread of the program can be.
WhereEachIs ==
  \A a \in Actors :
    /\ actor[a].pc \in {"idle", "lock", "join"}
         \cup IF a \in Workers THEN {"check", "store", "apply", "switch", "disable", "release"}
              ELSE IF a \in Scanners THEN {"found", "rebind"} ELSE {"disable"}
    /\ actor[a].pc \in {"lock", "join"} => CallsOf(a)
    /\ actor[a].pc = "join" => actor[a].call # "start"
    /\ actor[a].pc = "join" /\ actor[a].restart => actor[a].call # "stop"
    /\ a \in Scanners /\ kind # "late" => actor[a].pc = "idle"
    /\ a \in Players /\ kind # "speaker" => actor[a].pc = "idle"

\* Who holds which lock.
WhoHolds ==
  /\ \A a \in Actors : At(a, "join") <=> life = a
  /\ \A w \in Workers : At(w, "idle") <=> put # w

\* The thread is there while it runs, and until the one who stopped it joined it.
ThreadIsJoined ==
  /\ running => thread # "none" /\ life = Nobody
  /\ thread # "none" /\ ~running => life # Nobody

\* The thread runs, or the one who stops it will start it again.
WillRun == running \/ \E a \in Actors : At(a, "join") /\ actor[a].restart

\* A worker is between the two halves of the switch.
Switching(w) ==
  \/ At(w, "lock") /\ actor[w].call = "start"
  \/ At(w, "join") /\ actor[w].call = "stop"
  \/ At(w, "disable")

\* The switch and the thread, for a sink whose speaker has no buttons.
SwitchFollows ==
  /\ WillRun \/ thread # "none" => enabled
  /\ \A w \in Workers : At(w, "lock") /\ actor[w].call = "start" => enabled
  /\ \A w \in Workers : At(w, "disable") => ~WillRun /\ thread = "none"
  /\ (\A w \in Workers : ~Switching(w)) => (WillRun <=> enabled)

\* A call that will reopen the device has yet to come to its end.
Reopening(w) ==
  \/ At(w, "apply") /\ (actor[w].rate # rate \/ actor[w].layout # actor[w].was)
  \/ actor[w].pc \in {"lock", "join"} /\ actor[w].call \in {"rate", "restart"}

\* The rate that a worker has checked and not stored yet.
NewRate(w) ==
  \/ At(w, "apply")
  \/ actor[w].pc \in {"lock", "join"} /\ actor[w].call = "rate"

\* The format, for a sink that no scan binds.
FormatFollows ==
  /\ \A w \in Workers : At(w, "store") =>
        actor[w].was = layout /\ SurroundRateOk(actor[w].layout, actor[w].rate)
  /\ \A w \in Workers : At(w, "apply") => actor[w].layout = layout
  /\ \A w \in Workers : NewRate(w) => SurroundRateOk(layout, actor[w].rate)
  /\ (\A w \in Workers : ~NewRate(w)) => SurroundRateOk(layout, rate)
  /\ thread = "configuring" => opened.rate = rate
  /\ thread = "open" /\ (\A w \in Workers : ~Reopening(w)) => opened = [layout |-> layout, rate |-> rate]

SwitchIInv ==
  /\ Types /\ WhereEachIs /\ WhoHolds /\ ThreadIsJoined
  /\ kind # "late" => probed
  /\ kind # "speaker" => SwitchFollows
  /\ kind # "late" => FormatFollows
----------------------------------------------------------------------------
(* What every step's proof uses.                                           *)

\* The threads of the program are different ones, and Nobody is none of them.
LEMMA WhoIsWho ==
  /\ Nobody \notin Actors /\ Workers \subseteq Actors /\ Scanners \subseteq Actors
  /\ Players \subseteq Actors
  /\ \A a \in Actors : /\ a \in Workers => a \notin Scanners /\ a \notin Players
                       /\ a \in Scanners => a \notin Players
                       /\ a \notin Workers /\ a \notin Scanners => a \in Players
BY SwitchAssumption DEF SwitchAssumption, Actors

\* A handler between two requests has its variables at their start.
LEMMA RestingIsLocal ==
  Resting \in Locals /\ Resting.pc = "idle"
BY SwitchAssumption DEF SwitchAssumption, Resting, Locals, Places, Calls, Reqs

\* An actor that goes on inside its handler keeps what it has; one that returns
\* is at rest; nobody else moves.
LEMMA GotoSteps ==
  ASSUME Types, NEW a \in Actors, NEW pc \in Places, Goto(a, pc)
  PROVE /\ actor' \in [Actors -> Locals]
        /\ \A b \in Actors : b # a => actor'[b] = actor[b]
        /\ actor'[a].pc = pc
        /\ pc # "idle" => /\ actor'[a].req = actor[a].req /\ actor'[a].layout = actor[a].layout
                          /\ actor'[a].rate = actor[a].rate /\ actor'[a].was = actor[a].was
                          /\ actor'[a].call = actor[a].call /\ actor'[a].restart = actor[a].restart
                          /\ actor'[a].to = actor[a].to
<1>1. actor \in [Actors -> Locals] /\ actor[a] \in Locals
  BY DEF Types
<1>2. CASE pc = "idle"
  BY <1>1, <1>2, RestingIsLocal DEF Goto
<1>3. CASE pc # "idle"
  BY <1>1, <1>3 DEF Goto, Locals
<1> QED BY <1>2, <1>3

\* An actor that calls the sink waits for life_m_ next.
LEMMA CallSteps ==
  ASSUME Types, NEW a \in Actors, NEW what \in Calls, NEW r \in Rates, NEW to \in Places,
         Call(a, what, r, to)
  PROVE /\ actor' \in [Actors -> Locals]
        /\ \A b \in Actors : b # a => actor'[b] = actor[b]
        /\ actor'[a].pc = "lock" /\ actor'[a].call = what /\ actor'[a].rate = r
        /\ actor'[a].to = to /\ actor'[a].req = actor[a].req
        /\ actor'[a].layout = actor[a].layout /\ actor'[a].was = actor[a].was
<1>1. actor \in [Actors -> Locals] /\ actor[a] \in Locals
  BY DEF Types
<1> DEFINE l == [actor[a] EXCEPT !.pc = "lock", !.call = what, !.rate = r, !.to = to]
<1>2. "lock" \in Places
  BY DEF Places
<1>3. /\ l \in Locals /\ l.pc = "lock" /\ l.call = what /\ l.rate = r /\ l.to = to
      /\ l.req = actor[a].req /\ l.layout = actor[a].layout /\ l.was = actor[a].was
  BY <1>1, <1>2 DEF Locals
<1>4. actor' = [actor EXCEPT ![a] = l]
  BY DEF Call
<1> HIDE DEF l
<1> QED BY <1>1, <1>3, <1>4

\* The types of one actor's variables.
LEMMA ActorTypes ==
  ASSUME Types, NEW a \in Actors
  PROVE /\ actor[a] \in Locals /\ actor[a].pc \in Places /\ actor[a].req \in Reqs
        /\ actor[a].layout \in Layouts /\ actor[a].rate \in Rates /\ actor[a].was \in Layouts
        /\ actor[a].call \in Calls /\ actor[a].restart \in BOOLEAN /\ actor[a].to \in Places
BY DEF Types, Locals

----------------------------------------------------------------------------
(* The calls of SinkOutput.                                                *)

\* start(): the thread starts unless it runs.
LEMMA StartCallKeeps ==
  ASSUME SwitchIInv, NEW a \in Actors, StartCall(a)
  PROVE SwitchIInv'
<1> DEFINE to == actor[a].to
<1>1. /\ Types /\ WhereEachIs /\ WhoHolds /\ ThreadIsJoined
      /\ At(a, "lock") /\ life = Nobody /\ actor[a].call = "start" /\ CallsOf(a)
      /\ running \in BOOLEAN
  BY DEF SwitchIInv, StartCall, WhereEachIs, At, Types
<1>2. to \in {"release", "idle"} /\ (a \in Workers => to = "release") /\ to \in Places
  BY <1>1, WhoIsWho DEF CallsOf, Places
<1>3. Goto(a, to)
  BY DEF StartCall
<1>4. /\ actor' \in [Actors -> Locals] /\ actor'[a].pc = to
      /\ \A b \in Actors : b # a => actor'[b] = actor[b]
  BY <1>1, <1>2, <1>3, GotoSteps
<1>5. running' /\ thread' # "none" /\ UNCHANGED <<sink, opened, life, put>>
  BY <1>1 DEF StartCall, Starts, stream, ThreadIsJoined
<1>6. Types'
  BY <1>1, <1>4 DEF StartCall, Starts, stream, sink, Types
<1>7. WhereEachIs' /\ WhoHolds' /\ ThreadIsJoined'
  BY <1>1, <1>2, <1>4, <1>5, WhoIsWho DEF WhereEachIs, WhoHolds, ThreadIsJoined, CallsOf, At, sink
<1>8. kind' # "speaker" => SwitchFollows'
  <2> SUFFICES ASSUME kind # "speaker" PROVE SwitchFollows'
    BY <1>5 DEF sink
  <2>1. a \in Workers /\ enabled' /\ enabled
    BY <1>1, <1>5, WhoIsWho DEF SwitchIInv, SwitchFollows, WhereEachIs, CallsOf, At, sink
  <2>2. \A w \in Workers : w # a => actor'[w].pc = "idle"
    BY <1>1, <1>4, <2>1, WhoIsWho DEF WhoHolds, At
  <2> QED
    BY <1>2, <1>4, <1>5, <2>1, <2>2 DEF SwitchFollows, Switching, WillRun, At
<1>9. kind' # "late" => FormatFollows'
  BY <1>1, <1>2, <1>4, <1>5, WhoIsWho
  DEF SwitchIInv, FormatFollows, Reopening, NewRate, At, sink, StartCall, Starts, stream
<1> QED BY <1>5, <1>6, <1>7, <1>8, <1>9 DEF SwitchIInv, sink

\* stop(), bind(), set_sample_rate() and restart() up to the join: running_ goes,
\* and was_running says whether it comes back.
LEMMA StopCallKeeps ==
  ASSUME SwitchIInv, NEW a \in Actors, StopCall(a)
  PROVE SwitchIInv'
<1> DEFINE l == [actor[a] EXCEPT !.pc = "join", !.restart = running /\ actor[a].call # "stop"]
<1>1. /\ Types /\ WhereEachIs /\ WhoHolds /\ ThreadIsJoined
      /\ At(a, "lock") /\ life = Nobody /\ actor[a].call # "start" /\ CallsOf(a)
      /\ actor \in [Actors -> Locals] /\ actor[a] \in Locals
  BY DEF SwitchIInv, StopCall, WhereEachIs, At, Types
<1>2. (running /\ actor[a].call # "stop") \in BOOLEAN /\ "join" \in Places
  BY DEF Places
<1>3. /\ l \in Locals /\ l.pc = "join" /\ l.restart = (running /\ actor[a].call # "stop")
      /\ l.req = actor[a].req /\ l.layout = actor[a].layout /\ l.rate = actor[a].rate
      /\ l.was = actor[a].was /\ l.call = actor[a].call /\ l.to = actor[a].to
  BY <1>1, <1>2 DEF Locals
<1>4. actor' = [actor EXCEPT ![a] = l]
  BY <1>1 DEF StopCall, Locals
<1> HIDE DEF l
<1>5. /\ actor' \in [Actors -> Locals] /\ actor'[a] = l
      /\ \A b \in Actors : b # a => actor'[b] = actor[b]
  BY <1>1, <1>3, <1>4
<1>6. /\ life' = a /\ running' = FALSE /\ UNCHANGED <<sink, thread, opened, put>>
      /\ actor[a].call = "restart" => running
  BY DEF StopCall
<1>7. Types'
  BY <1>1, <1>5, <1>6 DEF sink, Types
<1>8. WhereEachIs' /\ WhoHolds' /\ ThreadIsJoined'
  <2>1. CallsOf(a)' /\ (l.restart => l.call # "stop")
    BY <1>1, <1>3, <1>5 DEF CallsOf
  <2>2. WhereEachIs'
    BY <1>1, <1>3, <1>5, <1>6, <2>1 DEF WhereEachIs, CallsOf, At, sink
  <2>3. WhoHolds' /\ ThreadIsJoined'
    BY <1>1, <1>3, <1>5, <1>6, WhoIsWho DEF WhoHolds, ThreadIsJoined, At, sink
  <2> QED BY <2>2, <2>3
<1>9. kind' # "speaker" => SwitchFollows'
  <2> SUFFICES ASSUME kind # "speaker" PROVE SwitchFollows'
    BY <1>6 DEF sink
  <2>1. SwitchFollows /\ a \notin Players
    BY <1>1 DEF SwitchIInv, WhereEachIs, At
  <2>2. \A b \in Actors : actor[b].pc # "join"
    BY <1>1, WhoIsWho DEF WhoHolds, At
  <2>3. (WillRun <=> running) /\ (WillRun' <=> l.restart)
    BY <1>1, <1>3, <1>5, <1>6, <2>2 DEF WillRun, At
  <2>4. actor[a].call = "stop" => a \in Workers
    BY <1>1, <2>1 DEF CallsOf
  <2>5. \A w \in Workers : Switching(w) => Switching(w)'
    BY <1>1, <1>3, <1>5, <2>2, WhoIsWho DEF Switching, At
  <2>6. a \in Workers /\ actor[a].call = "stop" => Switching(a)'
    BY <1>1, <1>3, <1>5 DEF Switching, At
  <2> QED
    BY <1>1, <1>3, <1>5, <1>6, <2>1, <2>3, <2>4, <2>5, <2>6, WhoIsWho
    DEF SwitchFollows, At, sink
<1>10. kind' # "late" => FormatFollows'
  BY <1>1, <1>3, <1>5, <1>6, WhoIsWho
  DEF SwitchIInv, FormatFollows, Reopening, NewRate, At, sink
<1> QED BY <1>6, <1>7, <1>8, <1>9, <1>10 DEF SwitchIInv, sink

\* restart() of a thread that does not run does nothing.
LEMMA RestartOfNoneKeeps ==
  ASSUME SwitchIInv, NEW a \in Actors, RestartOfNone(a)
  PROVE SwitchIInv'
<1>1. /\ Types /\ WhereEachIs /\ WhoHolds /\ ThreadIsJoined
      /\ At(a, "lock") /\ life = Nobody /\ actor[a].call = "restart" /\ CallsOf(a)
      /\ ~running /\ thread = "none"
  BY DEF SwitchIInv, RestartOfNone, WhereEachIs, At, ThreadIsJoined
<1>2. a \in Workers /\ actor[a].to = "switch" /\ "switch" \in Places /\ Goto(a, "switch")
  BY <1>1, WhoIsWho DEF CallsOf, Places, RestartOfNone
<1>3. /\ actor' \in [Actors -> Locals] /\ actor'[a].pc = "switch"
      /\ \A b \in Actors : b # a => actor'[b] = actor[b]
  BY <1>1, <1>2, GotoSteps
<1>4. UNCHANGED <<sink, stream, life, put>>
  BY DEF RestartOfNone
<1>5. Types'
  BY <1>1, <1>3, <1>4 DEF sink, stream, Types
<1>6. WhereEachIs' /\ WhoHolds' /\ ThreadIsJoined'
  BY <1>1, <1>2, <1>3, <1>4, WhoIsWho
  DEF WhereEachIs, WhoHolds, ThreadIsJoined, CallsOf, At, sink, stream
<1>7. kind' # "speaker" => SwitchFollows'
  BY <1>1, <1>2, <1>3, <1>4, WhoIsWho
  DEF SwitchIInv, SwitchFollows, Switching, WillRun, WhoHolds, At, sink, stream
<1>8. kind' # "late" => FormatFollows'
  BY <1>1, <1>2, <1>3, <1>4, WhoIsWho
  DEF SwitchIInv, FormatFollows, Reopening, NewRate, WhoHolds, At, sink, stream
<1> QED BY <1>4, <1>5, <1>6, <1>7, <1>8 DEF SwitchIInv, sink

\* The join returns: the rate is stored, and the thread starts again if it ran.
LEMMA JoinedKeeps ==
  ASSUME SwitchIInv, NEW a \in Actors, Joined(a)
  PROVE SwitchIInv'
<1> DEFINE to == actor[a].to
<1>1. /\ Types /\ WhereEachIs /\ WhoHolds /\ ThreadIsJoined
      /\ At(a, "join") /\ thread = "none" /\ life = a /\ ~running /\ CallsOf(a)
      /\ actor[a].call # "start" /\ (actor[a].restart => actor[a].call # "stop")
      /\ actor[a].rate \in Rates /\ actor[a].restart \in BOOLEAN
  BY WhoIsWho, ActorTypes DEF SwitchIInv, Joined, WhereEachIs, WhoHolds, ThreadIsJoined, At
<1>2. /\ a \in Workers => to = IF actor[a].call = "stop" THEN "disable" ELSE "switch"
      /\ a \in Workers => actor[a].call \in {"stop", "rate", "restart"}
      /\ a \in Scanners => to = "idle" /\ kind = "late"
      /\ a \in Players => to = "disable" /\ kind = "speaker" /\ actor[a].call = "stop"
      /\ to \in Places /\ Goto(a, to)
  BY <1>1, WhoIsWho DEF CallsOf, Places, Joined, WhereEachIs, At
<1>3. /\ actor' \in [Actors -> Locals] /\ actor'[a].pc = to
      /\ \A b \in Actors : b # a => actor'[b] = actor[b]
  BY <1>1, <1>2, GotoSteps
<1>4. /\ life' = Nobody /\ UNCHANGED <<kind, enabled, layout, probed, put, opened>>
      /\ running' = actor[a].restart
      /\ thread' = IF actor[a].restart THEN "opening" ELSE "none"
      /\ rate' = IF actor[a].call = "rate" THEN actor[a].rate ELSE rate
  <2>1. life' = Nobody /\ UNCHANGED <<kind, enabled, layout, probed, put>>
        /\ rate' = IF actor[a].call = "rate" THEN actor[a].rate ELSE rate
    BY DEF Joined
  <2>2. CASE actor[a].restart
    BY <2>1, <2>2 DEF Joined, Starts
  <2>3. CASE ~actor[a].restart
    <3>1. running = FALSE /\ actor[a].restart = FALSE
      BY <1>1, <2>3 DEF Types
    <3> QED BY <1>1, <2>1, <2>3, <3>1 DEF Joined, stream
  <2> QED BY <2>2, <2>3
<1>5. Types'
  BY <1>1, <1>3, <1>4 DEF Types
<1>6. WhereEachIs' /\ WhoHolds' /\ ThreadIsJoined'
  <2>1. WhereEachIs'
    BY <1>1, <1>2, <1>3, <1>4, WhoIsWho DEF WhereEachIs, CallsOf, At
  <2>2. WhoHolds' /\ ThreadIsJoined'
    BY <1>1, <1>2, <1>3, <1>4, WhoIsWho DEF WhoHolds, ThreadIsJoined, At
  <2> QED BY <2>1, <2>2
<1>7. kind' # "speaker" => SwitchFollows'
  <2> SUFFICES ASSUME kind # "speaker" PROVE SwitchFollows'
    BY <1>4
  <2>1. SwitchFollows /\ a \notin Players
    BY <1>1, <1>2 DEF SwitchIInv
  <2>2. \A b \in Actors : b # a => actor[b].pc # "join" /\ actor'[b].pc # "join"
    BY <1>1, <1>3, WhoIsWho DEF WhoHolds, At
  <2>3. (WillRun <=> actor[a].restart) /\ (WillRun' <=> actor[a].restart)
    <3>1. WillRun <=> actor[a].restart
      BY <1>1, <2>2 DEF WillRun, At
    <3>2. actor'[a].pc # "join"
      BY <1>2, <1>3, WhoIsWho
    <3>3. \A b \in Actors : ~At(b, "join")'
      BY <2>2, <3>2 DEF At
    <3>4. WillRun' <=> actor[a].restart
      BY <1>4, <3>3 DEF WillRun
    <3> QED BY <3>1, <3>4
  <2>4. \A w \in Workers : Switching(w) => Switching(w)'
    BY <1>1, <1>2, <1>3, <2>2, WhoIsWho DEF Switching, At
  <2>5. \A w \in Workers : At(w, "disable")' => ~actor[a].restart
    BY <1>1, <1>2, <1>3, <2>1, <2>3, WhoIsWho DEF SwitchFollows, At
  <2>6. \A w \in Workers : At(w, "lock")' /\ actor'[w].call = "start" => enabled
    BY <1>1, <1>2, <1>3, <2>1, WhoIsWho DEF SwitchFollows, At
  <2> QED BY <1>1, <1>4, <2>1, <2>3, <2>4, <2>5, <2>6 DEF SwitchFollows
<1>8. kind' # "late" => FormatFollows'
  <2> SUFFICES ASSUME kind # "late" PROVE FormatFollows'
    BY <1>4
  <2>1. FormatFollows /\ a \notin Scanners
    BY <1>1, <1>2 DEF SwitchIInv
  <2>2. a \in Workers => \A w \in Workers : w # a => actor[w].pc = "idle" /\ actor'[w].pc = "idle"
    BY <1>1, <1>3, WhoIsWho DEF WhoHolds, At
  <2>3. CASE a \in Workers
    BY <1>1, <1>2, <1>3, <1>4, <2>1, <2>2, <2>3, WhoIsWho
    DEF FormatFollows, Reopening, NewRate, At
  <2>4. CASE a \in Players
    BY <1>1, <1>2, <1>3, <1>4, <2>1, <2>4, WhoIsWho
    DEF FormatFollows, Reopening, NewRate, At
  <2> QED BY <2>1, <2>3, <2>4, WhoIsWho
<1> QED BY <1>4, <1>5, <1>6, <1>7, <1>8 DEF SwitchIInv

----------------------------------------------------------------------------
(* The sink's thread.                                                      *)

\* Opening, configuring and ending change the thread alone.
LEMMA ThreadKeeps ==
  ASSUME SwitchIInv, ThreadStep \/ StreamFails
  PROVE SwitchIInv'
<1>1. /\ Types /\ WhereEachIs /\ WhoHolds /\ ThreadIsJoined
      /\ UNCHANGED <<kind, enabled, layout, rate, probed, running, life, put, actor>>
  BY DEF SwitchIInv, ThreadStep, StreamFails, Open, Configure, Ends, Others, sink
<1>2. Types'
  <2>1. /\ opened.rate \in Rates /\ opened.layout \in Layouts /\ 48000 \in Rates
        /\ opened \in [layout : Layouts, rate : Rates] /\ layout \in Layouts /\ rate \in Rates
    BY <1>1 DEF Types, Rates
  <2>2. opened' \in [layout : Layouts, rate : Rates]
    BY <2>1 DEF ThreadStep, StreamFails, Open, Configure, Ends
  <2>3. thread' \in {"none", "opening", "configuring", "open"}
    BY DEF ThreadStep, StreamFails, Open, Configure, Ends
  <2> QED BY <1>1, <2>2, <2>3 DEF Types
<1>3. WhereEachIs' /\ WhoHolds'
  BY <1>1 DEF WhereEachIs, WhoHolds, CallsOf, At
<1>4. thread # "none" /\ (running => thread' # "none")
  BY DEF ThreadStep, StreamFails, Open, Configure, Ends
<1>5. ThreadIsJoined'
  BY <1>1, <1>4 DEF ThreadIsJoined
<1>6. kind' # "speaker" => SwitchFollows'
  BY <1>1, <1>4 DEF SwitchIInv, SwitchFollows, Switching, WillRun, At
<1>7. kind' # "late" => FormatFollows'
  <2> SUFFICES ASSUME kind # "late" PROVE FormatFollows'
    BY <1>1
  <2>1. FormatFollows
    BY DEF SwitchIInv
  <2>2. thread' = "configuring" => opened'.rate = rate
    BY <1>1, <2>1 DEF FormatFollows, ThreadStep, StreamFails, Open, Configure, Ends, Types
  <2>3. ASSUME thread' = "open", \A w \in Workers : ~Reopening(w)
        PROVE opened' = [layout |-> layout, rate |-> rate]
    <3>1. CASE thread = "open"
      BY <2>1, <2>3, <3>1 DEF FormatFollows, ThreadStep, StreamFails, Open, Configure, Ends
    <3>2. CASE Configure
      <4>1. \A w \in Workers : NewRate(w) => actor[w].rate = rate
        BY <2>3 DEF NewRate, Reopening
      <4>2. SurroundRateOk(layout, rate)
        BY <2>1, <4>1 DEF FormatFollows
      <4> QED BY <2>1, <3>2, <4>2 DEF FormatFollows, Configure
    <3> QED BY <2>3, <3>1, <3>2 DEF ThreadStep, StreamFails, Open, Ends
  <2> QED
    BY <1>1, <2>1, <2>2, <2>3 DEF FormatFollows, Reopening, NewRate, At
<1> QED BY <1>1, <1>2, <1>3, <1>5, <1>6, <1>7 DEF SwitchIInv

----------------------------------------------------------------------------
(* The PUTs.                                                               *)

\* A PUT takes sink_put_m_, which only a resting worker does not hold.
LEMMA ReceiveKeeps ==
  ASSUME SwitchIInv, NEW w \in Workers, NEW r \in Requests[kind], Receive(w, r)
  PROVE SwitchIInv'
<1> DEFINE l == [Resting EXCEPT !.pc = "check", !.req = r]
<1>1. /\ Types /\ WhereEachIs /\ WhoHolds /\ ThreadIsJoined /\ w \in Actors
      /\ At(w, "idle") /\ put = Nobody /\ put' = w
      /\ UNCHANGED <<sink, stream, life>>
  BY WhoIsWho DEF SwitchIInv, Receive
<1>2. r \in Reqs /\ "check" \in Places
  BY <1>1 DEF Reqs, Types, Places
<1>3. l \in Locals /\ l.pc = "check"
  BY <1>2, RestingIsLocal DEF Locals
<1>4. actor' = [actor EXCEPT ![w] = l]
  BY DEF Receive
<1> HIDE DEF l
<1>5. /\ actor' \in [Actors -> Locals] /\ actor'[w].pc = "check"
      /\ \A b \in Actors : b # w => actor'[b] = actor[b]
  BY <1>1, <1>3, <1>4 DEF Types
<1>6. Types'
  BY <1>1, <1>5 DEF sink, stream, Types
<1>7. WhereEachIs' /\ WhoHolds' /\ ThreadIsJoined'
  BY <1>1, <1>5, WhoIsWho DEF WhereEachIs, WhoHolds, ThreadIsJoined, CallsOf, At, sink, stream
<1>8. kind' # "speaker" => SwitchFollows'
  BY <1>1, <1>5, WhoIsWho DEF SwitchIInv, SwitchFollows, Switching, WillRun, At, sink, stream
<1>9. kind' # "late" => FormatFollows'
  BY <1>1, <1>5, WhoIsWho DEF SwitchIInv, FormatFollows, Reopening, NewRate, At, sink, stream
<1> QED BY <1>1, <1>6, <1>7, <1>8, <1>9 DEF SwitchIInv, sink

\* While a worker holds sink_put_m_ no other one is inside a PUT.
LEMMA OnlyOnePuts ==
  ASSUME WhoHolds, NEW w \in Workers, ~At(w, "idle")
  PROVE put = w /\ \A v \in Workers : v # w => actor[v].pc = "idle"
BY DEF WhoHolds, At

\* retarget() sets the rate the sink has.
LEMMA RetargetKeeps ==
  ASSUME SwitchIInv, NEW w \in Workers, Retarget(w)
  PROVE SwitchIInv'
<1>1. /\ Types /\ WhereEachIs /\ WhoHolds /\ ThreadIsJoined /\ w \in Actors
      /\ At(w, "check") /\ UNCHANGED <<sink, stream, life, put>>
      /\ \A v \in Workers : v # w => actor[v].pc = "idle"
  BY WhoIsWho, OnlyOnePuts DEF SwitchIInv, Retarget, At
<1>2. "rate" \in Calls /\ rate \in Rates /\ "switch" \in Places /\ Call(w, "rate", rate, "switch")
  BY <1>1 DEF Types, Calls, Places, Retarget
<1>3. /\ actor' \in [Actors -> Locals] /\ actor'[w].pc = "lock" /\ actor'[w].call = "rate"
      /\ actor'[w].rate = rate /\ actor'[w].to = "switch"
      /\ \A b \in Actors : b # w => actor'[b] = actor[b]
  BY <1>1, <1>2, CallSteps
<1>4. Types'
  BY <1>1, <1>3 DEF sink, stream, Types
<1>5. WhereEachIs' /\ WhoHolds' /\ ThreadIsJoined'
  BY <1>1, <1>3, WhoIsWho DEF WhereEachIs, WhoHolds, ThreadIsJoined, CallsOf, At, sink, stream
<1>6. kind' # "speaker" => SwitchFollows'
  BY <1>1, <1>3, WhoIsWho DEF SwitchIInv, SwitchFollows, Switching, WillRun, At, sink, stream
<1>7. kind' # "late" => FormatFollows'
  BY <1>1, <1>3, WhoIsWho DEF SwitchIInv, FormatFollows, Reopening, NewRate, At, sink, stream
<1> QED BY <1>1, <1>4, <1>5, <1>6, <1>7 DEF SwitchIInv, sink

\* What a body may say.
LEMMA ReqTypes ==
  ASSUME NEW r \in Reqs
  PROVE /\ r.layout \in Layouts \cup {Keep} /\ r.rate \in Rates \cup {Keep}
        /\ r.enabled \in BOOLEAN \cup {Keep}
<1>1. CASE r = Resting.req
  BY <1>1 DEF Resting
<1>2. CASE \E k \in Kinds : r \in Requests[k]
  BY <1>2, SwitchAssumption DEF SwitchAssumption
<1> QED BY <1>1, <1>2 DEF Reqs

\* The checks: what a worker goes on to store carries its layout.
LEMMA CheckKeeps ==
  ASSUME SwitchIInv, NEW w \in Workers, Check(w)
  PROVE SwitchIInv'
<1> DEFINE r == actor[w].req
           l == IF r.layout = Keep THEN layout ELSE r.layout
           f == IF r.rate = Keep THEN rate ELSE r.rate
           pc == IF SurroundRateOk(l, f) THEN "store" ELSE "release"
           new == [actor[w] EXCEPT !.layout = l, !.rate = f, !.was = layout, !.pc = pc]
<1>1. /\ Types /\ WhereEachIs /\ WhoHolds /\ ThreadIsJoined /\ w \in Actors
      /\ At(w, "check") /\ UNCHANGED <<sink, stream, life, put>>
      /\ \A v \in Workers : v # w => actor[v].pc = "idle"
      /\ actor \in [Actors -> Locals] /\ actor[w] \in Locals
  BY WhoIsWho, OnlyOnePuts DEF SwitchIInv, Check, At, Types
<1>2. l \in Layouts /\ f \in Rates /\ pc \in Places
  BY <1>1, ActorTypes, ReqTypes DEF Types, Places
<1>3. actor' = [actor EXCEPT ![w] = new]
  BY <1>1 DEF Check, Locals
<1> HIDE DEF l, f, pc
<1>4. /\ new \in Locals /\ new.layout = l /\ new.rate = f /\ new.was = layout /\ new.pc = pc
  <2>1. actor[w] \in Locals /\ layout \in Layouts
    BY <1>1 DEF Types
  <2> QED BY <1>2, <2>1 DEF Locals
<1> HIDE DEF new
<1>5. /\ actor' \in [Actors -> Locals] /\ actor'[w] = new /\ pc \in {"store", "release"}
      /\ \A b \in Actors : b # w => actor'[b] = actor[b]
  BY <1>1, <1>3, <1>4 DEF pc
<1>6. Types'
  BY <1>1, <1>5 DEF sink, stream, Types
<1>7. WhereEachIs' /\ WhoHolds' /\ ThreadIsJoined'
  BY <1>1, <1>4, <1>5, WhoIsWho
  DEF WhereEachIs, WhoHolds, ThreadIsJoined, CallsOf, At, sink, stream
<1>8. kind' # "speaker" => SwitchFollows'
  BY <1>1, <1>4, <1>5, WhoIsWho
  DEF SwitchIInv, SwitchFollows, Switching, WillRun, At, sink, stream
<1>9. kind' # "late" => FormatFollows'
  <2>1. pc = "store" => SurroundRateOk(l, f)
    BY DEF pc
  <2> QED
    BY <1>1, <1>4, <1>5, <2>1, WhoIsWho
    DEF SwitchIInv, FormatFollows, Reopening, NewRate, At, sink, stream
<1> QED BY <1>1, <1>6, <1>7, <1>8, <1>9 DEF SwitchIInv, sink

\* The layout is stored: a reopen is to come if it is a new one.
LEMMA StoreLayoutKeeps ==
  ASSUME SwitchIInv, NEW w \in Workers, StoreLayout(w)
  PROVE SwitchIInv'
<1>1. /\ Types /\ WhereEachIs /\ WhoHolds /\ ThreadIsJoined /\ w \in Actors
      /\ At(w, "store") /\ layout' = actor[w].layout /\ actor[w].layout \in Layouts
      /\ UNCHANGED <<kind, enabled, rate, probed, stream, life, put>>
      /\ \A v \in Workers : v # w => actor[v].pc = "idle"
  BY WhoIsWho, OnlyOnePuts, ActorTypes DEF SwitchIInv, StoreLayout, At
<1>2. "apply" \in Places /\ Goto(w, "apply")
  BY DEF Places, StoreLayout
<1>3. /\ actor' \in [Actors -> Locals] /\ actor'[w].pc = "apply"
      /\ actor'[w].layout = actor[w].layout /\ actor'[w].rate = actor[w].rate
      /\ actor'[w].was = actor[w].was
      /\ \A b \in Actors : b # w => actor'[b] = actor[b]
  BY <1>1, <1>2, GotoSteps
<1>4. Types'
  BY <1>1, <1>3 DEF sink, stream, Types
<1>5. WhereEachIs' /\ WhoHolds' /\ ThreadIsJoined'
  BY <1>1, <1>3, WhoIsWho DEF WhereEachIs, WhoHolds, ThreadIsJoined, CallsOf, At, sink, stream
<1>6. kind' # "speaker" => SwitchFollows'
  BY <1>1, <1>3, WhoIsWho DEF SwitchIInv, SwitchFollows, Switching, WillRun, At, sink, stream
<1>7. kind' # "late" => FormatFollows'
  BY <1>1, <1>3, WhoIsWho DEF SwitchIInv, FormatFollows, Reopening, NewRate, At, sink, stream
<1> QED BY <1>1, <1>4, <1>5, <1>6, <1>7 DEF SwitchIInv, sink

\* One reopen for all of it, or none if nothing is new.
LEMMA ApplyKeeps ==
  ASSUME SwitchIInv, NEW w \in Workers, Apply(w)
  PROVE SwitchIInv'
<1>1. /\ Types /\ WhereEachIs /\ WhoHolds /\ ThreadIsJoined /\ w \in Actors
      /\ At(w, "apply") /\ UNCHANGED <<sink, stream, life, put>>
      /\ \A v \in Workers : v # w => actor[v].pc = "idle"
      /\ rate \in Rates /\ actor[w].rate \in Rates
  BY WhoIsWho, OnlyOnePuts, ActorTypes DEF SwitchIInv, Apply, At, Types
<1>2. {"rate", "restart"} \subseteq Calls /\ "switch" \in Places
  BY DEF Calls, Places
<1> DEFINE what == IF actor[w].rate # rate THEN "rate" ELSE "restart"
           new == actor[w].rate # rate \/ actor[w].layout # actor[w].was
<1>3. CASE new
  <2>1. Call(w, what, actor[w].rate, "switch")
    BY <1>3 DEF Apply
  <2>2. /\ actor' \in [Actors -> Locals] /\ actor'[w].pc = "lock" /\ actor'[w].call = what
        /\ actor'[w].rate = actor[w].rate /\ actor'[w].to = "switch"
        /\ \A b \in Actors : b # w => actor'[b] = actor[b]
    BY <1>1, <1>2, <2>1, CallSteps
  <2>3. Types'
    BY <1>1, <2>2 DEF sink, stream, Types
  <2>4. WhereEachIs' /\ WhoHolds' /\ ThreadIsJoined'
    BY <1>1, <2>2, WhoIsWho DEF WhereEachIs, WhoHolds, ThreadIsJoined, CallsOf, At, sink, stream
  <2>5. kind' # "speaker" => SwitchFollows'
    BY <1>1, <2>2, WhoIsWho DEF SwitchIInv, SwitchFollows, Switching, WillRun, At, sink, stream
  <2>6. kind' # "late" => FormatFollows'
    BY <1>1, <2>2, WhoIsWho DEF SwitchIInv, FormatFollows, Reopening, NewRate, At, sink, stream
  <2> QED BY <1>1, <2>3, <2>4, <2>5, <2>6 DEF SwitchIInv, sink
<1>4. CASE ~new
  <2>1. Goto(w, "switch")
    BY <1>4 DEF Apply
  <2>2. /\ actor' \in [Actors -> Locals] /\ actor'[w].pc = "switch"
        /\ \A b \in Actors : b # w => actor'[b] = actor[b]
    BY <1>1, <1>2, <2>1, GotoSteps
  <2>3. Types'
    BY <1>1, <2>2 DEF sink, stream, Types
  <2>4. WhereEachIs' /\ WhoHolds' /\ ThreadIsJoined'
    BY <1>1, <2>2, WhoIsWho DEF WhereEachIs, WhoHolds, ThreadIsJoined, CallsOf, At, sink, stream
  <2>5. kind' # "speaker" => SwitchFollows'
    BY <1>1, <2>2, WhoIsWho DEF SwitchIInv, SwitchFollows, Switching, WillRun, At, sink, stream
  <2>6. kind' # "late" => FormatFollows'
    BY <1>1, <1>4, <2>2, WhoIsWho
    DEF SwitchIInv, FormatFollows, Reopening, NewRate, At, sink, stream
  <2> QED BY <1>1, <2>3, <2>4, <2>5, <2>6 DEF SwitchIInv, sink
<1> QED BY <1>3, <1>4

\* The switch itself: on, off or left alone.
LEMMA SwitchKeeps ==
  ASSUME SwitchIInv, NEW w \in Workers, Switch(w)
  PROVE SwitchIInv'
<1>1. /\ Types /\ WhereEachIs /\ WhoHolds /\ ThreadIsJoined /\ w \in Actors
      /\ At(w, "switch") /\ UNCHANGED <<kind, layout, rate, probed, stream, life, put>>
      /\ \A v \in Workers : v # w => actor[v].pc = "idle"
      /\ rate \in Rates /\ actor[w].req.enabled \in BOOLEAN \cup {Keep} /\ Keep \notin BOOLEAN
  BY WhoIsWho, OnlyOnePuts, ActorTypes, ReqTypes, SwitchAssumption
  DEF SwitchIInv, Switch, At, Types, SwitchAssumption
<1>2. {"start", "stop"} \subseteq Calls /\ {"release", "disable"} \subseteq Places
  BY DEF Calls, Places
<1>3. CASE actor[w].req.enabled = Keep
  <2>1. Goto(w, "release") /\ enabled' = enabled
    BY <1>1, <1>3 DEF Switch
  <2>2. /\ actor' \in [Actors -> Locals] /\ actor'[w].pc = "release"
        /\ \A b \in Actors : b # w => actor'[b] = actor[b]
    BY <1>1, <1>2, <2>1, GotoSteps
  <2>3. Types'
    BY <1>1, <2>1, <2>2 DEF stream, Types
  <2>4. WhereEachIs' /\ WhoHolds' /\ ThreadIsJoined'
    BY <1>1, <2>2, WhoIsWho DEF WhereEachIs, WhoHolds, ThreadIsJoined, CallsOf, At, stream
  <2>5. kind' # "speaker" => SwitchFollows'
    BY <1>1, <2>1, <2>2, WhoIsWho DEF SwitchIInv, SwitchFollows, Switching, WillRun, At, stream
  <2>6. kind' # "late" => FormatFollows'
    BY <1>1, <2>2, WhoIsWho DEF SwitchIInv, FormatFollows, Reopening, NewRate, At, stream
  <2> QED BY <1>1, <2>3, <2>4, <2>5, <2>6 DEF SwitchIInv
<1>4. CASE actor[w].req.enabled = TRUE
  <2>1. Call(w, "start", rate, "release") /\ enabled' = TRUE
    BY <1>1, <1>4 DEF Switch, TurnOn
  <2>2. /\ actor' \in [Actors -> Locals] /\ actor'[w].pc = "lock" /\ actor'[w].call = "start"
        /\ actor'[w].to = "release" /\ \A b \in Actors : b # w => actor'[b] = actor[b]
    BY <1>1, <1>2, <2>1, CallSteps
  <2>3. Types'
    BY <1>1, <2>1, <2>2 DEF stream, Types
  <2>4. WhereEachIs' /\ WhoHolds' /\ ThreadIsJoined'
    BY <1>1, <2>2, WhoIsWho DEF WhereEachIs, WhoHolds, ThreadIsJoined, CallsOf, At, stream
  <2>5. kind' # "speaker" => SwitchFollows'
    BY <1>1, <2>1, <2>2, WhoIsWho DEF SwitchIInv, SwitchFollows, Switching, WillRun, At, stream
  <2>6. kind' # "late" => FormatFollows'
    BY <1>1, <2>2, WhoIsWho DEF SwitchIInv, FormatFollows, Reopening, NewRate, At, stream
  <2> QED BY <1>1, <2>3, <2>4, <2>5, <2>6 DEF SwitchIInv
<1>5. CASE actor[w].req.enabled = FALSE
  <2>1. Call(w, "stop", rate, "disable") /\ enabled' = enabled
    BY <1>1, <1>5 DEF Switch, TurnOff
  <2>2. /\ actor' \in [Actors -> Locals] /\ actor'[w].pc = "lock" /\ actor'[w].call = "stop"
        /\ actor'[w].to = "disable" /\ \A b \in Actors : b # w => actor'[b] = actor[b]
    BY <1>1, <1>2, <2>1, CallSteps
  <2>3. Types'
    BY <1>1, <2>1, <2>2 DEF stream, Types
  <2>4. WhereEachIs' /\ WhoHolds' /\ ThreadIsJoined'
    BY <1>1, <2>2, WhoIsWho DEF WhereEachIs, WhoHolds, ThreadIsJoined, CallsOf, At, stream
  <2>5. kind' # "speaker" => SwitchFollows'
    BY <1>1, <2>1, <2>2, WhoIsWho DEF SwitchIInv, SwitchFollows, Switching, WillRun, At, stream
  <2>6. kind' # "late" => FormatFollows'
    BY <1>1, <2>2, WhoIsWho DEF SwitchIInv, FormatFollows, Reopening, NewRate, At, stream
  <2> QED BY <1>1, <2>3, <2>4, <2>5, <2>6 DEF SwitchIInv
<1> QED BY <1>1, <1>3, <1>4, <1>5

\* Rendering ends once the thread has: a worker's or a button's.
LEMMA DisableKeeps ==
  ASSUME SwitchIInv, NEW a \in Workers \cup Players, Disable(a)
  PROVE SwitchIInv'
<1> DEFINE to == IF a \in Players THEN "idle" ELSE "release"
<1>1. /\ Types /\ WhereEachIs /\ WhoHolds /\ ThreadIsJoined /\ a \in Actors
      /\ At(a, "disable") /\ enabled' = FALSE /\ Goto(a, to) /\ to \in Places
      /\ UNCHANGED <<kind, layout, rate, probed, stream, life, put>>
      /\ a \in Workers => a \notin Players /\ to = "release"
  BY WhoIsWho DEF SwitchIInv, Disable, Places
<1>2. /\ actor' \in [Actors -> Locals] /\ actor'[a].pc = to
      /\ \A b \in Actors : b # a => actor'[b] = actor[b]
  BY <1>1, GotoSteps
<1>3. Types'
  BY <1>1, <1>2 DEF stream, Types
<1>4. WhereEachIs' /\ WhoHolds' /\ ThreadIsJoined'
  BY <1>1, <1>2, WhoIsWho DEF WhereEachIs, WhoHolds, ThreadIsJoined, CallsOf, At, stream
<1>5. kind' # "speaker" => SwitchFollows'
  <2> SUFFICES ASSUME kind # "speaker" PROVE SwitchFollows'
    BY <1>1
  <2>1. /\ a \in Workers /\ SwitchFollows /\ ~WillRun /\ thread = "none"
        /\ \A v \in Workers : v # a => actor[v].pc = "idle"
    BY <1>1, WhoIsWho, OnlyOnePuts DEF SwitchIInv, WhereEachIs, SwitchFollows, At
  <2>2. ~WillRun' /\ thread' = "none"
    BY <1>1, <1>2, <2>1 DEF WillRun, At, stream
  <2> QED BY <1>1, <1>2, <2>1, <2>2, WhoIsWho DEF SwitchFollows, At
<1>6. kind' # "late" => FormatFollows'
  BY <1>1, <1>2, WhoIsWho DEF SwitchIInv, FormatFollows, Reopening, NewRate, At, stream
<1> QED BY <1>1, <1>3, <1>4, <1>5, <1>6 DEF SwitchIInv

\* The PUT is answered and sink_put_m_ is free.
LEMMA ReleaseKeeps ==
  ASSUME SwitchIInv, NEW w \in Workers, Release(w)
  PROVE SwitchIInv'
<1>1. /\ Types /\ WhereEachIs /\ WhoHolds /\ ThreadIsJoined /\ w \in Actors
      /\ At(w, "release") /\ put' = Nobody /\ UNCHANGED <<sink, stream, life>>
      /\ \A v \in Workers : v # w => actor[v].pc = "idle"
      /\ "idle" \in Places /\ Goto(w, "idle")
  BY WhoIsWho, OnlyOnePuts DEF SwitchIInv, Release, At, Places
<1>2. /\ actor' \in [Actors -> Locals] /\ actor'[w].pc = "idle"
      /\ \A b \in Actors : b # w => actor'[b] = actor[b]
  BY <1>1, GotoSteps
<1>3. Types'
  BY <1>1, <1>2 DEF sink, stream, Types
<1>4. WhereEachIs' /\ WhoHolds' /\ ThreadIsJoined'
  BY <1>1, <1>2, WhoIsWho DEF WhereEachIs, WhoHolds, ThreadIsJoined, CallsOf, At, sink, stream
<1>5. kind' # "speaker" => SwitchFollows'
  BY <1>1, <1>2, WhoIsWho DEF SwitchIInv, SwitchFollows, Switching, WillRun, At, sink, stream
<1>6. kind' # "late" => FormatFollows'
  BY <1>1, <1>2, WhoIsWho DEF SwitchIInv, FormatFollows, Reopening, NewRate, At, sink, stream
<1> QED BY <1>1, <1>3, <1>4, <1>5, <1>6 DEF SwitchIInv, sink

----------------------------------------------------------------------------
(* The scan and the buttons.                                               *)

\* The scan finds a sink to look at again, of the kind that would not open.
LEMMA ScanFindsKeeps ==
  ASSUME SwitchIInv, NEW s \in Scanners, ScanFinds(s)
  PROVE SwitchIInv'
<1>1. /\ Types /\ WhereEachIs /\ WhoHolds /\ ThreadIsJoined /\ s \in Actors
      /\ At(s, "idle") /\ kind = "late" /\ UNCHANGED <<sink, stream, life, put>>
      /\ "found" \in Places /\ Goto(s, "found")
  BY WhoIsWho DEF SwitchIInv, ScanFinds, Places
<1>2. /\ actor' \in [Actors -> Locals] /\ actor'[s].pc = "found"
      /\ \A b \in Actors : b # s => actor'[b] = actor[b]
  BY <1>1, GotoSteps
<1>3. Types'
  BY <1>1, <1>2 DEF sink, stream, Types
<1>4. WhereEachIs' /\ WhoHolds' /\ ThreadIsJoined'
  BY <1>1, <1>2, WhoIsWho DEF WhereEachIs, WhoHolds, ThreadIsJoined, CallsOf, At, sink, stream
<1>5. kind' # "speaker" => SwitchFollows'
  BY <1>1, <1>2, WhoIsWho DEF SwitchIInv, SwitchFollows, Switching, WillRun, At, sink, stream
<1> QED BY <1>1, <1>3, <1>4, <1>5 DEF SwitchIInv, sink

\* Its second look: it goes on only with a sink nothing plays on.
LEMMA ScanLooksAgainKeeps ==
  ASSUME SwitchIInv, NEW s \in Scanners, ScanLooksAgain(s)
  PROVE SwitchIInv'
<1> DEFINE to == IF running THEN "idle" ELSE "rebind"
<1>1. /\ Types /\ WhereEachIs /\ WhoHolds /\ ThreadIsJoined /\ s \in Actors
      /\ At(s, "found") /\ UNCHANGED <<kind, enabled, layout, rate, stream, life, put>>
      /\ to \in Places /\ Goto(s, to) /\ probed' \in BOOLEAN
  BY WhoIsWho DEF SwitchIInv, ScanLooksAgain, Places, Types
<1>2. kind = "late"
  BY <1>1 DEF WhereEachIs, At
<1>3. /\ actor' \in [Actors -> Locals] /\ actor'[s].pc = to
      /\ \A b \in Actors : b # s => actor'[b] = actor[b]
  BY <1>1, GotoSteps
<1>4. Types'
  BY <1>1, <1>3 DEF stream, Types
<1>5. WhereEachIs' /\ WhoHolds' /\ ThreadIsJoined'
  BY <1>1, <1>2, <1>3, WhoIsWho DEF WhereEachIs, WhoHolds, ThreadIsJoined, CallsOf, At, stream
<1>6. kind' # "speaker" => SwitchFollows'
  BY <1>1, <1>3, WhoIsWho DEF SwitchIInv, SwitchFollows, Switching, WillRun, At, stream
<1> QED BY <1>1, <1>2, <1>4, <1>5, <1>6 DEF SwitchIInv

\* It binds the sink to what the saved config has.
LEMMA ScanBindsKeeps ==
  ASSUME SwitchIInv, NEW s \in Scanners, ScanBinds(s)
  PROVE SwitchIInv'
<1>1. /\ Types /\ WhereEachIs /\ WhoHolds /\ ThreadIsJoined /\ s \in Actors
      /\ At(s, "rebind") /\ layout' = SavedLayout
      /\ UNCHANGED <<kind, enabled, rate, probed, stream, life, put>>
      /\ "rate" \in Calls /\ SavedRate \in Rates /\ "idle" \in Places /\ SavedLayout \in Layouts
      /\ Call(s, "rate", SavedRate, "idle")
  BY WhoIsWho, SwitchAssumption DEF SwitchIInv, ScanBinds, Places, Calls, SwitchAssumption
<1>2. kind = "late"
  BY <1>1 DEF WhereEachIs, At
<1>3. /\ actor' \in [Actors -> Locals] /\ actor'[s].pc = "lock" /\ actor'[s].call = "rate"
      /\ actor'[s].to = "idle" /\ \A b \in Actors : b # s => actor'[b] = actor[b]
  BY <1>1, CallSteps
<1>4. Types'
  BY <1>1, <1>3 DEF stream, Types
<1>5. WhereEachIs' /\ WhoHolds' /\ ThreadIsJoined'
  BY <1>1, <1>2, <1>3, WhoIsWho DEF WhereEachIs, WhoHolds, ThreadIsJoined, CallsOf, At, stream
<1>6. kind' # "speaker" => SwitchFollows'
  BY <1>1, <1>3, WhoIsWho DEF SwitchIInv, SwitchFollows, Switching, WillRun, At, stream
<1> QED BY <1>1, <1>2, <1>4, <1>5, <1>6 DEF SwitchIInv

\* A button starts or stops the speaker's sink, whatever a PUT does meanwhile.
LEMMA ButtonKeeps ==
  ASSUME SwitchIInv, NEW p \in Players, Play(p) \/ Stop(p)
  PROVE SwitchIInv'
<1> DEFINE what == IF Play(p) THEN "start" ELSE "stop"
           to == IF Play(p) THEN "idle" ELSE "disable"
<1>1. /\ Types /\ WhereEachIs /\ WhoHolds /\ ThreadIsJoined /\ p \in Actors
      /\ At(p, "idle") /\ kind = "speaker" /\ rate \in Rates
      /\ UNCHANGED <<kind, layout, rate, probed, stream, life, put>>
  BY WhoIsWho DEF SwitchIInv, Play, Stop, Types
<1>2. what \in Calls /\ to \in Places
  BY DEF Calls, Places
<1>3. Call(p, what, rate, to) /\ enabled' \in BOOLEAN
  <2>1. CASE Play(p)
    BY <2>1 DEF Play, TurnOn
  <2>2. CASE ~Play(p)
    BY <1>1, <2>2 DEF Stop, TurnOff, Types
  <2> QED BY <2>1, <2>2
<1>4. (what = "start" /\ to = "idle") \/ (what = "stop" /\ to = "disable")
  OBVIOUS
<1> HIDE DEF what, to
<1>5. /\ actor' \in [Actors -> Locals] /\ actor'[p].pc = "lock" /\ actor'[p].call = what
      /\ actor'[p].to = to /\ \A b \in Actors : b # p => actor'[b] = actor[b]
  BY <1>1, <1>2, <1>3, CallSteps
<1>6. Types'
  BY <1>1, <1>3, <1>5 DEF stream, Types
<1>7. WhereEachIs' /\ WhoHolds' /\ ThreadIsJoined'
  BY <1>1, <1>4, <1>5, WhoIsWho DEF WhereEachIs, WhoHolds, ThreadIsJoined, CallsOf, At, stream
<1>8. kind' # "late" => FormatFollows'
  BY <1>1, <1>5, WhoIsWho DEF SwitchIInv, FormatFollows, Reopening, NewRate, At, stream
<1> QED BY <1>1, <1>6, <1>7, <1>8 DEF SwitchIInv

----------------------------------------------------------------------------
(* The invariant, and what follows from it.                                *)

\* At the start nobody changes the sink and its thread is not there.
LEMMA SwitchStarts == Init => SwitchIInv
<1> SUFFICES ASSUME Init PROVE SwitchIInv
  OBVIOUS
<1>1. /\ actor \in [Actors -> Locals] /\ \A a \in Actors : actor[a].pc = "idle"
  BY RestingIsLocal DEF Init
<1>2. Types
  BY <1>1, SwitchAssumption DEF Init, Types, SwitchAssumption
<1>3. WhereEachIs /\ WhoHolds /\ ThreadIsJoined
  BY <1>1, WhoIsWho DEF Init, WhereEachIs, WhoHolds, ThreadIsJoined, At
<1>4. SwitchFollows
  BY <1>1, WhoIsWho DEF Init, SwitchFollows, WillRun, At
<1>5. FormatFollows
  BY <1>1, WhoIsWho, SwitchAssumption
  DEF Init, FormatFollows, NewRate, Reopening, At, SwitchAssumption
<1> QED BY <1>2, <1>3, <1>4, <1>5 DEF SwitchIInv, Init

\* Every step of the workers, the scan, the Bluetooth thread and the sink's
\* thread keeps the invariant.
LEMMA SwitchSteps == SwitchIInv /\ [Next]_vars => SwitchIInv'
<1> SUFFICES ASSUME SwitchIInv, [Next]_vars PROVE SwitchIInv'
  OBVIOUS
<1>1. ASSUME NEW w \in Workers, PutStep(w) PROVE SwitchIInv'
  BY <1>1, RetargetKeeps, CheckKeeps, StoreLayoutKeeps, ApplyKeeps, SwitchKeeps, DisableKeeps,
     ReleaseKeeps DEF PutStep
<1>2. ASSUME NEW w \in Workers, NEW r \in Requests[kind], Receive(w, r) PROVE SwitchIInv'
  BY <1>2, ReceiveKeeps
<1>3. ASSUME NEW s \in Scanners, ScanStep(s) \/ ScanFinds(s) PROVE SwitchIInv'
  BY <1>3, ScanFindsKeeps, ScanLooksAgainKeeps, ScanBindsKeeps DEF ScanStep
<1>4. ASSUME NEW p \in Players, Play(p) \/ Stop(p) \/ Disable(p) PROVE SwitchIInv'
  BY <1>4, ButtonKeeps, DisableKeeps
<1>5. ASSUME NEW a \in Actors, CallStep(a) PROVE SwitchIInv'
  BY <1>5, StartCallKeeps, StopCallKeeps, RestartOfNoneKeeps, JoinedKeeps DEF CallStep
<1>6. CASE ThreadStep \/ StreamFails
  BY <1>6, ThreadKeeps
<1>7. CASE UNCHANGED vars
  BY <1>7
  DEF vars, SwitchIInv, Types, WhereEachIs, CallsOf, WhoHolds, ThreadIsJoined, SwitchFollows,
      WillRun, Switching, FormatFollows, NewRate, Reopening, At
<1> QED BY <1>1, <1>2, <1>3, <1>4, <1>5, <1>6, <1>7 DEF Next

\* SwitchIInv holds whatever the threads do.
THEOREM SwitchAlways == Spec => []SwitchIInv
BY SwitchStarts, SwitchSteps, PTL DEF Spec

\* What SwitchIInv says of a sink at rest.
LEMMA SwitchAtRest == SwitchIInv => SwitchInv
<1> SUFFICES ASSUME SwitchIInv PROVE SwitchInv
  OBVIOUS
<1>1. Types /\ WhereEachIs /\ WhoHolds /\ ThreadIsJoined
  BY DEF SwitchIInv
<1>2. TypeOK
  BY <1>1 DEF TypeOK, Types, WhereEachIs
<1>3. ASSUME Quiet PROVE /\ life = Nobody /\ (WillRun <=> running) /\ (thread # "none" <=> running)
                         /\ \A w \in Workers : ~Switching(w) /\ ~NewRate(w) /\ ~Reopening(w)
  BY <1>1, <1>3, WhoIsWho
  DEF Quiet, At, Types, WhoHolds, ThreadIsJoined, WillRun, Switching, NewRate, Reopening
<1>4. PutsAgree /\ RenderedWhilePlayed
  BY <1>1, <1>3 DEF SwitchIInv, SwitchFollows, PutsAgree, SwitchAgrees, RenderedWhilePlayed, Types
<1>5. PlaysWhatItSays /\ PutsCarrySurround
  BY <1>3 DEF SwitchIInv, FormatFollows, PlaysWhatItSays, PutsCarrySurround, SurroundIsCarried
<1> QED BY <1>2, <1>4, <1>5 DEF SwitchInv

\* However many clients, scans and buttons there are: once nobody is changing a
\* sink, its thread, its switch, its format and the engine's rendering go together.
THEOREM SwitchIsConsistent == Spec => []SwitchInv
BY SwitchAlways, SwitchAtRest, PTL

\* start_locked() never assigns over a thread that was told to stop and is not
\* joined yet, whoever asks.
THEOREM ThreadsAreOneAtATime == Spec => OneThreadAtATime
<1>1. SwitchIInv /\ [Next]_vars => [thread # "none" /\ ~running => ~running']_vars
  <2> SUFFICES ASSUME SwitchIInv, Next, thread # "none", ~running PROVE ~running'
    BY DEF vars
  <2>1. life # Nobody
    BY DEF SwitchIInv, ThreadIsJoined
  <2>2. ASSUME NEW a \in Actors, CallStep(a) PROVE ~running'
    BY <2>1, <2>2 DEF CallStep, StartCall, StopCall, RestartOfNone, Joined, stream
  <2>3. ASSUME NEW w \in Workers, PutStep(w) \/ \E r \in Requests[kind] : Receive(w, r)
        PROVE ~running'
    BY <2>3 DEF PutStep, Retarget, Check, StoreLayout, Apply, Switch, Disable, Release, Receive, stream
  <2>4. ASSUME NEW s \in Scanners, ScanStep(s) \/ ScanFinds(s) PROVE ~running'
    BY <2>4 DEF ScanStep, ScanFinds, ScanLooksAgain, ScanBinds, stream
  <2>5. ASSUME NEW p \in Players, Play(p) \/ Stop(p) \/ Disable(p) PROVE ~running'
    BY <2>5 DEF Play, Stop, Disable, stream
  <2>6. CASE ThreadStep \/ StreamFails
    BY <2>6 DEF ThreadStep, StreamFails, Open, Configure, Ends, Others
  <2> QED BY <2>2, <2>3, <2>4, <2>5, <2>6 DEF Next
<1> QED BY <1>1, SwitchAlways, PTL DEF Spec, OneThreadAtATime

----------------------------------------------------------------------------
(* The ring.  RingTypeOK and the ring's properties are not inductive.      *)
(* What is: a slot keeps the frame it was given until the writer copies    *)
(* the frame one turn later into it, and a frame a reader copied wrong is  *)
(* one the block in flight has already reached.  First, its slots.         *)

\* A slot is a slot.
LEMMA SlotInRange ==
  ASSUME NEW i \in Nat
  PROVE  Slot(i) \in 0 .. Frames - 1
BY RingAssumption DEF Slot

\* Two multiples of a number do not differ by less than it.
LEMMA NoMultipleBetween ==
  ASSUME NEW m \in Nat \ {0}, NEW p \in Int, NEW q \in Int, NEW d \in 1 .. m - 1
  PROVE  p * m # q * m + d
<1> SUFFICES ASSUME p * m = q * m + d PROVE FALSE
  OBVIOUS
<1>1. (p - q) * m = d
  BY SMT
<1>2. p - q <= 0 \/ p - q >= 1
  BY SMT
<1>3. CASE p - q <= 0
  <2>1. (p - q) * m <= 0
    BY <1>3, SMT
  <2> QED BY <1>1, <2>1
<1>4. CASE p - q >= 1
  <2>1. (p - q) * m >= m
    BY <1>4, SMT
  <2> QED BY <1>1, <2>1
<1> QED BY <1>2, <1>3, <1>4

\* What % computes: the remainder of a division.
LEMMA SlotDivides ==
  ASSUME NEW i \in Nat
  PROVE  \E q \in Int : i = q * Frames + Slot(i)
<1>1. /\ i = (i \div Frames) * Frames + (i % Frames)
      /\ (i \div Frames) \in Int
  BY RingAssumption
<1> QED BY <1>1 DEF Slot

\* Frames nearer to each other than the ring is long have slots of their own.
LEMMA NearSlotsDiffer ==
  ASSUME NEW i \in Nat, NEW j \in Nat, i < j, j - i < Frames
  PROVE  Slot(i) # Slot(j)
<1> SUFFICES ASSUME Slot(i) = Slot(j) PROVE FALSE
  OBVIOUS
<1>1. PICK p \in Int : i = p * Frames + Slot(i)
  BY SlotDivides
<1>2. PICK q \in Int : j = q * Frames + Slot(j)
  BY SlotDivides
<1> DEFINE P == p * Frames
           Q == q * Frames
<1>3. P \in Int /\ Q \in Int
  BY RingAssumption
<1>4. i = P + Slot(i) /\ j = Q + Slot(i)
  BY <1>1, <1>2
<1> HIDE DEF P, Q
<1>5. Q = P + (j - i) /\ (j - i) \in 1 .. Frames - 1
  BY <1>3, <1>4, SlotInRange, RingAssumption
<1> QED BY <1>5, NoMultipleBetween, RingAssumption DEF P, Q

\* One turn of the ring leads back to the same slot.
LEMMA SlotAfterATurn ==
  ASSUME NEW i \in Nat
  PROVE  Slot(i + Frames) = Slot(i)
<1> i + Frames \in Nat
  BY RingAssumption
<1>1. PICK p \in Int : i = p * Frames + Slot(i)
  BY SlotDivides
<1>2. PICK q \in Int : i + Frames = q * Frames + Slot(i + Frames)
  BY SlotDivides
<1> DEFINE P == p * Frames
           P1 == (p + 1) * Frames
           Q == q * Frames
           d == Slot(i + Frames) - Slot(i)
<1>3. P \in Int /\ Q \in Int /\ P1 \in Int /\ P1 = P + Frames
  BY RingAssumption, SMT
<1>4. i = P + Slot(i) /\ i + Frames = Q + Slot(i + Frames)
  BY <1>1, <1>2
<1>5. Slot(i) \in 0 .. Frames - 1 /\ Slot(i + Frames) \in 0 .. Frames - 1
  BY SlotInRange
<1> HIDE DEF P, Q, P1
<1>6. P1 = Q + d /\ Q = P1 + (0 - d)
  BY <1>3, <1>4, <1>5, RingAssumption
<1>7. d \notin 1 .. Frames - 1
  BY <1>6, NoMultipleBetween, RingAssumption, p + 1 \in Int DEF P1, Q
<1>8. 0 - d \notin 1 .. Frames - 1
  BY <1>6, NoMultipleBetween, RingAssumption, p + 1 \in Int DEF P1, Q
<1> QED BY <1>5, <1>7, <1>8, RingAssumption

----------------------------------------------------------------------------
(* The ring's invariant.                                                   *)

LEMMA RingStarts == RingInit => RingInv
<1> SUFFICES ASSUME RingInit PROVE RingInv
  OBVIOUS
<1> USE RingAssumption DEF RingInit, Idle, Nothing, Zero
<1>1. RingTypeOK
  BY DEF RingTypeOK
<1>2. WriterShape /\ SlotsHold
  BY DEF WriterShape, SlotsHold
<1>3. CopiesHold /\ OnlyTheBlockInFlightTears
  BY DEF CopiesHold, OnlyTheBlockInFlightTears
<1> QED BY <1>1, <1>2, <1>3 DEF RingInv

\* The writer's steps leave the calls alone; what a call copied stays right
\* as long as the counter and the end of the block only grow.
LEMMA CallsKept ==
  ASSUME RingInv, RingTypeOK', UNCHANGED rd, n' >= n, head' >= head, n # 0 => first' = first
  PROVE  CopiesHold' /\ OnlyTheBlockInFlightTears'
<1> n \in Nat /\ n' \in Nat /\ head \in Nat /\ head' \in Nat
  BY DEF RingInv, RingTypeOK
<1>0. ASSUME NEW r \in Readers
      PROVE  rd[r].start \in Nat /\ rd[r].len \in Nat /\ rd[r].n2 \in Nat
  BY <1>0 DEF RingInv, RingTypeOK
<1>1. ASSUME NEW r \in Readers, rd[r].pc # "idle"
      PROVE  rd[r].len >= 1 /\ rd[r].start + rd[r].len <= n' /\ n # 0
  <2>1. rd[r].len >= 1 /\ rd[r].start + rd[r].len <= n
    BY <1>1 DEF RingInv, CopiesHold
  <2> QED BY <1>0, <2>1
<1> USE DEF RingInv, RingTypeOK, CopiesHold
<1>2. ASSUME NEW r \in Readers, rd[r].pc # "idle", NEW i
      PROVE  Torn(rd[r], i)' = Torn(rd[r], i)
  BY <1>1, <1>2 DEF Torn, Written
<1>3. CopiesHold'
  <2> SUFFICES ASSUME NEW r \in Readers, rd[r].pc # "idle"
      PROVE  /\ rd[r].len >= 1 /\ rd[r].start + rd[r].len <= n'
             /\ rd[r].pc = "copy" =>
                  \A i \in DOMAIN rd[r].out : Torn(rd[r], i)' => i + Frames < head'
             /\ rd[r].pc = "ok" => DOMAIN rd[r].out = Asked(rd[r])
    BY DEF Asked
  <2>1. ASSUME rd[r].pc = "copy", NEW i \in DOMAIN rd[r].out, Torn(rd[r], i)'
        PROVE  i + Frames < head'
    <3>1. i + Frames < head
      BY <2>1, <1>2
    <3>2. i \in Int
      BY DEF Asked
    <3> QED BY <3>1, <3>2, RingAssumption
  <2>2. rd[r].len >= 1 /\ rd[r].start + rd[r].len <= n'
    BY <1>1
  <2> QED BY <2>1, <2>2
<1>4. OnlyTheBlockInFlightTears'
  <2> SUFFICES ASSUME NEW r \in Readers, rd[r].pc = "ok", NEW i \in Asked(rd[r]),
                      Torn(rd[r], i)'
      PROVE  i + Frames \in rd[r].n2 .. rd[r].n2 + Block - 1
    BY DEF OnlyTheBlockInFlightTears, Asked
  <2>1. Torn(rd[r], i)
    BY <1>2
  <2> QED BY <2>1 DEF OnlyTheBlockInFlightTears
<1> QED BY <1>3, <1>4

LEMMA WriteBeginInv ==
  ASSUME RingInv, NEW at \in {n} \cup FirstAt, NEW len \in 1..Block, WriteBegin(at, len)
  PROVE  RingInv'
<1> USE RingAssumption DEF RingInv, WriteBegin
<1>0. at \in Nat /\ len \in Nat /\ n <= at /\ base = n /\ (n # 0 => at = n)
  BY DEF RingTypeOK, WriterShape
<1>1. RingTypeOK'
  BY <1>0 DEF RingTypeOK, Asked
<1>2. WriterShape'
  BY <1>0 DEF WriterShape, RingTypeOK
<1>3. SlotsHold'
  <2>1. (base .. head - 1)' \ left' = {}
    BY <1>0
  <2>2. ASSUME NEW i \in 0 .. at - 1, i + Frames >= at
        PROVE  (buf[Slot(i)] = Written(i))'
    <3>1. CASE n # 0
      BY <1>0, <2>2, <3>1 DEF SlotsHold, Written, RingTypeOK
    <3>2. CASE n = 0
      <4>1. buf[Slot(i)] = Zero
        <5>1. Slot(i) \in 0 .. Frames - 1
          BY <1>0, SlotInRange
        <5> QED BY <3>2, <5>1 DEF WriterShape
      <4> QED BY <3>2, <4>1 DEF Written
    <3> QED BY <3>1, <3>2
  <2> QED BY <2>1, <2>2 DEF SlotsHold
<1>4. CopiesHold' /\ OnlyTheBlockInFlightTears'
  BY <1>0, <1>1, CallsKept DEF RingTypeOK
<1> QED BY <1>1, <1>2, <1>3, <1>4

\* Copying one frame disturbs no other frame that is still in the ring.
LEMMA WriteFrameInv ==
  ASSUME RingInv, NEW i \in left, WriteFrame(i)
  PROVE  RingInv'
<1> USE RingAssumption DEF RingInv
<1>0. /\ i \in Nat /\ base \in Nat /\ head \in Nat
      /\ base <= i /\ i < head /\ head <= base + Frames
      /\ Slot(i) \in 0 .. Frames - 1
  BY SlotInRange DEF RingTypeOK, WriterShape
<1>1. RingTypeOK'
  BY <1>0 DEF RingTypeOK, WriteFrame, Asked
<1>2. WriterShape'
  BY <1>0 DEF WriterShape, RingTypeOK, WriteFrame
<1>3. ASSUME NEW j \in Nat, Slot(j) # Slot(i) PROVE buf'[Slot(j)] = buf[Slot(j)]
  BY <1>3, SlotInRange DEF WriteFrame, RingTypeOK
<1>4. buf'[Slot(i)] = i
  BY <1>0 DEF WriteFrame, RingTypeOK
<1>5. ASSUME NEW j \in (base .. head - 1) \ left' PROVE buf'[Slot(j)] = j
  <2>1. CASE j = i
    BY <2>1, <1>4
  <2>2. CASE j # i
    <3>1. j \in (base .. head - 1) \ left /\ j \in Nat
      BY <1>5, <2>2 DEF WriteFrame, RingTypeOK
    <3>2. Slot(j) # Slot(i)
      <4>1. CASE j < i
        BY <1>0, <3>1, <4>1, i - j < Frames, NearSlotsDiffer
      <4>2. CASE i < j
        BY <1>0, <3>1, <4>2, j - i < Frames, NearSlotsDiffer
      <4> QED BY <1>0, <2>2, <3>1, <4>1, <4>2
    <3> QED BY <1>3, <3>1, <3>2 DEF SlotsHold
  <2> QED BY <2>1, <2>2
<1>6. ASSUME NEW j \in 0 .. base - 1, j + Frames >= base,
             j + Frames >= head \/ j + Frames \in left'
      PROVE  buf'[Slot(j)] = Written(j)
  <2>0. j \in Nat /\ j < i
    BY <1>0 DEF RingTypeOK
  <2>1. buf[Slot(j)] = Written(j)
    BY <1>6 DEF SlotsHold, WriteFrame
  <2>2. Slot(j) # Slot(i)
    <3>1. CASE i - j < Frames
      BY <1>0, <2>0, <3>1, NearSlotsDiffer
    <3>2. CASE i - j >= Frames
      <4>1. j + Frames \in Nat /\ j + Frames < i /\ i - (j + Frames) < Frames
        <5>1. j + Frames # i
          BY <1>0, <1>6, <2>0 DEF WriteFrame
        <5>2. i - (j + Frames) < Frames
          BY <1>0, <1>6, <2>0
        <5> QED BY <1>0, <2>0, <3>2, <5>1, <5>2
      <4>2. Slot(j + Frames) # Slot(i)
        BY <1>0, <4>1, NearSlotsDiffer
      <4> QED BY <2>0, <4>2, SlotAfterATurn
    <3> QED BY <1>0, <2>0, <3>1, <3>2
  <2> QED BY <1>3, <2>0, <2>1, <2>2
<1>7. SlotsHold'
  BY <1>5, <1>6 DEF SlotsHold, WriteFrame, Written
<1>8. CopiesHold' /\ OnlyTheBlockInFlightTears'
  BY <1>1, CallsKept DEF WriteFrame, RingTypeOK
<1> QED BY <1>1, <1>2, <1>7, <1>8

LEMMA WriteEndInv == ASSUME RingInv, WriteEnd PROVE RingInv'
<1> USE RingAssumption DEF RingInv, WriteEnd
<1>1. RingTypeOK'
  BY DEF RingTypeOK, Asked
<1>2. WriterShape'
  BY DEF WriterShape, RingTypeOK
<1>3. SlotsHold'
  <2> SUFFICES ASSUME NEW i \in 0 .. head - 1, i + Frames >= head
      PROVE  buf[Slot(i)] = Written(i)
    BY DEF SlotsHold, Written, RingTypeOK
  <2>1. CASE i < base
    BY <2>1 DEF SlotsHold, RingTypeOK, WriterShape
  <2>2. CASE i >= base
    BY <2>2 DEF SlotsHold, RingTypeOK, WriterShape, Written
  <2> QED BY <2>1, <2>2 DEF RingTypeOK
<1>4. CopiesHold' /\ OnlyTheBlockInFlightTears'
  BY <1>1, CallsKept DEF RingTypeOK, WriterShape
<1> QED BY <1>1, <1>2, <1>3, <1>4

\* A reader's steps leave the ring alone.
LEMMA RingKept ==
  ASSUME RingInv, UNCHANGED <<n, base, head, left, buf, first>>
  PROVE  WriterShape' /\ SlotsHold'
BY DEF RingInv, WriterShape, SlotsHold, Written

\* What has to be shown of the one call a reader's step changes.
CallHolds(c) ==
  /\ c \in [pc : {"idle", "copy", "ok", "failed"}, start : Nat, len : Nat,
            out : {c.out}, n2 : Nat]
  /\ DOMAIN c.out \subseteq Asked(c)
  /\ c.pc # "idle" => c.len >= 1 /\ c.start + c.len <= n
  /\ c.pc = "copy" => \A i \in DOMAIN c.out : Torn(c, i) => i + Frames < head
  /\ c.pc = "ok" => DOMAIN c.out = Asked(c)
  /\ c.pc = "ok" => \A i \in Asked(c) : Torn(c, i) => i + Frames \in c.n2 .. c.n2 + Block - 1

LEMMA CallIn ==
  ASSUME RingInv, NEW r \in Readers
  PROVE  CallHolds(rd[r])
BY DEF RingInv, RingTypeOK, CopiesHold, OnlyTheBlockInFlightTears, CallHolds

LEMMA OneCallChanges ==
  ASSUME RingInv, UNCHANGED <<n, base, head, left, buf, first>>, NEW r \in Readers, NEW c,
         CallHolds(c), rd' = [rd EXCEPT ![r] = c]
  PROVE  RingInv'
<1>1. rd \in [Readers -> {rd[q] : q \in Readers}] /\ rd' \in [Readers -> {rd'[q] : q \in Readers}]
  BY DEF RingInv, RingTypeOK
<1>2. ASSUME NEW q \in Readers PROVE CallHolds(rd'[q])
  BY <1>1, CallIn
<1>3. RingTypeOK'
  <2>1. ASSUME NEW q \in Readers
        PROVE  rd'[q] \in [pc : {"idle", "copy", "ok", "failed"}, start : Nat, len : Nat,
                           out : {rd'[p].out : p \in Readers}, n2 : Nat]
    BY <1>2 DEF CallHolds
  <2>2. ASSUME NEW q \in Readers PROVE DOMAIN rd'[q].out \subseteq Asked(rd'[q])
    BY <1>2 DEF CallHolds
  <2> QED BY <1>1, <2>1, <2>2 DEF RingInv, RingTypeOK, Asked
<1>4. CopiesHold'
  BY <1>2 DEF CopiesHold, CallHolds, Asked, Torn, Written
<1>5. OnlyTheBlockInFlightTears'
  BY <1>2 DEF OnlyTheBlockInFlightTears, CallHolds, Asked, Torn, Written
<1> QED BY <1>3, <1>4, <1>5, RingKept DEF RingInv

LEMMA ReadBeginInv ==
  ASSUME RingInv, NEW r \in Readers, NEW start \in 0..MaxCounter, NEW len \in 1..Frames,
         ReadBegin(r, start, len)
  PROVE  RingInv'
<1>1. CallHolds(Asking(start, len))
  BY RingAssumption DEF CallHolds, Asking, Nothing, ReadBegin, InAsked, Asked
<1> QED BY <1>1, OneCallChanges DEF ReadBegin

LEMMA ReadFrameInv ==
  ASSUME RingInv, NEW r \in Readers, NEW i \in Asked(rd[r]), ReadFrame(r, i)
  PROVE  RingInv'
<1> DEFINE c == [rd[r] EXCEPT !.out = Plus(@, i)]
<1>0. CallHolds(rd[r])
  BY CallIn
<1>1. c = [pc |-> "copy", start |-> rd[r].start, len |-> rd[r].len, out |-> Plus(rd[r].out, i),
           n2 |-> rd[r].n2]
  BY <1>0 DEF CallHolds, ReadFrame
<1>2. /\ n \in Nat /\ base \in Nat /\ head \in Nat
      /\ rd[r].start \in Nat /\ rd[r].len \in Nat /\ rd[r].n2 \in Nat
      /\ rd[r].len >= 1 /\ rd[r].start + rd[r].len <= n /\ rd[r].pc = "copy"
  BY <1>0 DEF CallHolds, ReadFrame, RingInv, RingTypeOK
<1>3. i \in Nat /\ i < n /\ n = base
  BY <1>2 DEF Asked, RingInv, WriterShape
<1>4. Torn(c, i) => i + Frames < head
  <2> SUFFICES ASSUME i + Frames >= head PROVE buf[Slot(i)] = Written(i)
    BY <1>1, <1>2, <1>3, RingAssumption DEF Torn, Plus
  <2>1. i + Frames >= base /\ i \in 0 .. base - 1
    BY <1>2, <1>3, RingAssumption DEF RingInv, WriterShape
  <2> QED BY <2>1 DEF RingInv, SlotsHold
<1>5. ASSUME NEW j \in DOMAIN c.out, Torn(c, j)
      PROVE  j + Frames < head
  <2>1. CASE j = i
    BY <1>4, <1>5, <2>1
  <2>2. CASE j # i
    BY <1>0, <1>1, <1>2, <1>5, <2>2 DEF CallHolds, Torn, Plus
  <2> QED BY <2>1, <2>2
<1>6. DOMAIN c.out \subseteq Asked(c)
  BY <1>0, <1>1 DEF CallHolds, Plus, Asked
<1>7. CallHolds(c)
  <2> HIDE DEF c
  <2> QED BY <1>1, <1>2, <1>5, <1>6 DEF CallHolds
<1>8. rd' = [rd EXCEPT ![r] = c]
  BY DEF ReadFrame
<1> QED BY <1>7, <1>8, OneCallChanges DEF ReadFrame

LEMMA ReadEndInv ==
  ASSUME RingInv, NEW r \in Readers, ReadEnd(r)
  PROVE  RingInv'
<1> DEFINE c == Ended(rd[r])
<1>0. CallHolds(rd[r])
  BY CallIn
<1>1. /\ c = [pc |-> c.pc, start |-> rd[r].start, len |-> rd[r].len, out |-> rd[r].out, n2 |-> n]
      /\ c.pc \in {"ok", "failed"}
      /\ c.pc = "ok" => StillThere(rd[r].start, n)
  BY DEF Ended
<1>2. /\ n \in Nat /\ base \in Nat /\ head \in Nat
      /\ rd[r].start \in Nat /\ rd[r].len \in Nat
      /\ rd[r].len >= 1 /\ rd[r].start + rd[r].len <= n /\ rd[r].pc = "copy"
      /\ DOMAIN rd[r].out = Asked(rd[r])
  BY <1>0 DEF CallHolds, ReadEnd, RingInv, RingTypeOK
<1>3. head <= n + Block
  BY <1>2, RingAssumption DEF RingInv, WriterShape
<1>4. ASSUME StillThere(rd[r].start, n), NEW i \in Asked(rd[r]), Torn(rd[r], i)
      PROVE  i + Frames \in n .. n + Block - 1
  <2>1. i + Frames < head
    BY <1>0, <1>2, <1>4 DEF CallHolds
  <2>2. i \in Nat /\ i >= rd[r].start
    BY <1>2 DEF Asked
  <2> QED BY <1>2, <1>3, <1>4, <2>1, <2>2, RingAssumption DEF StillThere
<1>5. CallHolds(c)
  <2>1. Asked(c) = Asked(rd[r]) /\ \A i \in Asked(c) : Torn(c, i) = Torn(rd[r], i)
    BY <1>1 DEF Asked, Torn
  <2> HIDE DEF c
  <2> QED BY <1>1, <1>2, <1>4, <2>1 DEF CallHolds
<1>6. rd' = [rd EXCEPT ![r] = c]
  BY DEF ReadEnd
<1> QED BY <1>5, <1>6, OneCallChanges DEF ReadEnd

LEMMA ReturnInv ==
  ASSUME RingInv, NEW r \in Readers, Return(r)
  PROVE  RingInv'
<1>1. CallHolds(Idle)
  BY DEF CallHolds, Idle, Nothing, Asked
<1> QED BY <1>1, OneCallChanges DEF Return

LEMMA RingStutters == ASSUME RingInv, UNCHANGED ringVars PROVE RingInv'
BY DEF RingInv, ringVars, RingTypeOK, WriterShape, SlotsHold, CopiesHold, OnlyTheBlockInFlightTears,
       Asked, Torn, Written

----------------------------------------------------------------------------
(* The theorems.                                                           *)

\* Every step of the writer and of the readers keeps the invariant.
THEOREM RingAlways == RingSpec => []RingInv
<1>1. RingInv /\ [RingNext]_ringVars => RingInv'
  <2> SUFFICES ASSUME RingInv, [RingNext]_ringVars PROVE RingInv'
    OBVIOUS
  <2>1. ASSUME NEW at \in {n} \cup FirstAt, NEW len \in 1..Block, WriteBegin(at, len)
        PROVE  RingInv'
    BY <2>1, WriteBeginInv
  <2>2. ASSUME NEW i \in left, WriteFrame(i) PROVE RingInv'
    BY <2>2, WriteFrameInv
  <2>3. CASE WriteEnd
    BY <2>3, WriteEndInv
  <2>4. ASSUME NEW r \in Readers, NEW start \in 0..MaxCounter, NEW len \in 1..Frames,
               ReadBegin(r, start, len)
        PROVE  RingInv'
    BY <2>4, ReadBeginInv
  <2>5. ASSUME NEW r \in Readers, NEW i \in Asked(rd[r]), ReadFrame(r, i) PROVE RingInv'
    BY <2>5, ReadFrameInv
  <2>6. ASSUME NEW r \in Readers, ReadEnd(r) PROVE RingInv'
    BY <2>6, ReadEndInv
  <2>7. ASSUME NEW r \in Readers, Return(r) PROVE RingInv'
    BY <2>7, ReturnInv
  <2>8. CASE UNCHANGED ringVars
    BY <2>8, RingStutters
  <2> QED BY <2>1, <2>2, <2>3, <2>4, <2>5, <2>6, <2>7, <2>8 DEF RingNext
<1> QED BY <1>1, RingStarts, PTL DEF RingSpec

\* The types hold, whatever the ring's length and the number of readers.
THEOREM RingTypesHold == RingSpec => []RingTypeOK
<1>1. RingInv => RingTypeOK
  BY DEF RingInv
<1> QED BY <1>1, RingAlways, PTL

\* A read returned as valid is wrong at most where the block in flight at its
\* second look lands: what the seqlock of ring_buffer.h does give.
THEOREM TearingIsBounded == RingSpec => []OnlyTheBlockInFlightTears
<1>1. RingInv => OnlyTheBlockInFlightTears
  BY DEF RingInv
<1> QED BY <1>1, RingAlways, PTL

\* A read that ended a whole block ahead of the writer is exact.
THEOREM MarginIsEnough == RingSpec => []ExactWithABlockOfMargin
<1>1. RingInv => ExactWithABlockOfMargin
  <2> SUFFICES ASSUME RingInv, NEW r \in Readers, rd[r].pc = "ok",
                      rd[r].n2 - rd[r].start + Block <= Frames,
                      NEW i \in Asked(rd[r]), Torn(rd[r], i)
      PROVE  FALSE
    BY DEF ExactWithABlockOfMargin
  <2>1. i + Frames \in rd[r].n2 .. rd[r].n2 + Block - 1
    BY DEF RingInv, OnlyTheBlockInFlightTears
  <2>2. rd[r].n2 \in Nat /\ rd[r].start \in Nat /\ rd[r].len \in Nat
    BY DEF RingInv, RingTypeOK
  <2>3. i \in Nat /\ i >= rd[r].start
    BY <2>2 DEF Asked
  <2>4. i + Frames >= rd[r].start + Frames /\ rd[r].start + Frames >= rd[r].n2 + Block
    BY <2>2, <2>3, RingAssumption
  <2> QED BY <2>1, <2>2, <2>3, <2>4, RingAssumption
<1> QED BY <1>1, RingAlways, PTL

\* Whatever the pre-check lets a reader ask for is in the ring when it asks,
\* provided the margin is no smaller than a block.
THEOREM MarginProtects == RingSpec => []AskableFramesAreThere
<1>1. RingInv => AskableFramesAreThere
  <2> SUFFICES ASSUME RingInv, NEW i \in 0 .. n - 1, InAsked(i, 1)
      PROVE  buf[Slot(i)] = Written(i)
    BY DEF AskableFramesAreThere
  <2>1. n \in Nat /\ base \in Nat /\ head \in Nat /\ base = n /\ head <= n + Block
    BY DEF RingInv, RingTypeOK, WriterShape
  <2>2. i + Frames >= head /\ i + Frames >= base
    BY <2>1, RingAssumption, SafetyAssumption DEF InAsked
  <2> QED BY <2>1, <2>2 DEF RingInv, SlotsHold
<1> QED BY <1>1, RingAlways, PTL

=============================================================================

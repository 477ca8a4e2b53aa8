------------------------------- MODULE MixerLink -------------------------------
(***************************************************************************)
(* A mixer on a sending machine (src/alsa-plugin/ctl_soundtester.c) and    *)
(* the thread that serves it (serve_ctl() in src/app/src/net_audio.cpp).   *)
(* The level and the mute are the device's, one for each channel; the      *)
(* mixer shows those of the run its machine's stream has, and moves all of *)
(* that run.  Meanwhile streams take runs and let them go, records are     *)
(* forgotten, and the web console sets any channel.                        *)
(*                                                                         *)
(* A level is one of Gains; which run a stream is given is NetChannels'.   *)
(***************************************************************************)
EXTENDS Integers, Sequences

CONSTANTS
  Total,      \* network channels
  Gains,      \* levels told apart
  Senders,    \* streams: their machine and their stream's name
  Mixers,     \* what a mixer may ask for: a channel or Any, a stream's name or NoName
  Me,         \* the mixer's machine
  NoOne, NoName,
  MaxWrites,  \* bound: moves of the mixer
  MaxEvents,  \* bound: runs taken or made un-mixable, channels forgotten or set in the console
  MaxOpens    \* bound: mixers opened

MixerAssumption ==
  /\ Total \in Nat \ {0} /\ Gains # {} /\ Me # NoOne
  /\ \A m \in Mixers : m.want \in 0 .. Total
  /\ {MaxWrites, MaxEvents, MaxOpens} \subseteq Nat

ASSUME MixerAssumption

Channels == 0 .. Total - 1
Any == Total
NoRecord == [ip |-> NoOne, stream |-> NoName, base |-> 0, count |-> 1]

VARIABLES
  record,  \* each channel's last_ip, last_stream, stream_base and stream_count
  holder,  \* each channel's stream, or NoOne
  level,   \* ctl_.inputs: gain_db and mute
  bypass,  \* ctl_.inputs: bypass
  asked,   \* what the mixer that is open asked for
  srv,     \* serve_ctl(): where it is, its run, what it last sent (until it has read that, what
           \* the ack said), and the message it took in this pass
  mixer,   \* st_ctl_t: open, gain, mute and bypass
  up,      \* SET_MIXes under way
  down,    \* MIXes under way
  unseen,  \* ghost: what changed between the ack and the first reads of sent_*, and what was
           \* asked since of a run that the mixer has not heard is un-mixable
  undone,  \* ghost: what a message asked that was not so at the look that followed it
  stale,   \* the records have changed since it looked
  left,    \* what the bounds leave
  seen     \* the kinds of events so far

streams == <<record, holder>>
mix == <<level, bypass>>
ctlLink == <<srv, up, down>>
bounds == <<left, seen>>
mixerVars == <<streams, mix, asked, ctlLink, mixer, unseen, undone, stale, bounds>>

Level == [gain : Gains, mute : BOOLEAN]
Default == [gain |-> CHOOSE g \in Gains : TRUE, mute |-> FALSE]
Elements == {"gain", "mute"}
MixFields == Elements \cup {"bypass"}
NoMove == [field |-> "none", value |-> FALSE]
Shut == [pc |-> "closed", base |-> 0, count |-> 1, took |-> NoMove,
         sent |-> [gain |-> Default.gain, mute |-> FALSE, bypass |-> FALSE]]
NoMixer == [open |-> FALSE, gain |-> Default.gain, mute |-> FALSE, bypass |-> FALSE]

MixerInit ==
  /\ record = [c \in Channels |-> NoRecord] /\ holder = [c \in Channels |-> NoOne]
  /\ level = [c \in Channels |-> Default] /\ bypass = [c \in Channels |-> FALSE]
  /\ asked = CHOOSE m \in Mixers : TRUE
  /\ srv = Shut /\ mixer = NoMixer /\ up = <<>> /\ down = <<>>
  /\ unseen = {} /\ undone = {} /\ stale = FALSE
  /\ left = [writes |-> MaxWrites, events |-> MaxEvents, opens |-> MaxOpens] /\ seen = {}

Uses(what) == left[what] > 0 /\ left' = [left EXCEPT ![what] = @ - 1]
Happens(event) == Uses("events") /\ seen' = seen \cup {event}

----------------------------------------------------------------------------
(* Which run a mixer drives.                                               *)

First(S) == CHOOSE c \in S : \A d \in S : c <= d

\* ctl_channel_for(): the pin, the named stream, any of the machine's, or channel 0.
CtlChannel ==
  LET mine == {c \in Channels : record[c].ip = Me}
      named == {c \in mine : asked.stream # NoName /\ record[c].stream = asked.stream}
  IN IF asked.want # Any THEN asked.want
     ELSE IF named # {} THEN First(named) ELSE IF mine # {} THEN First(mine) ELSE 0

\* mixer_run(): the run that channel's record names, if the channel is in it.
MixRun ==
  LET c == CtlChannel
      r == record[c]
  IN IF r.count = 0 \/ r.base + r.count > Total \/ c < r.base \/ c >= r.base + r.count
       THEN [base |-> c, count |-> 1] ELSE [base |-> r.base, count |-> r.count]

Run(r) == r.base .. r.base + r.count - 1

\* What the run's first channel stands at.
Stands(base) == [gain |-> level[base].gain, mute |-> level[base].mute, bypass |-> bypass[base]]

\* Mutant: only the first channel is set.
AllSetFirst(run, gain, mute) ==
  [level EXCEPT ![run.base] = [gain |-> gain, mute |-> mute]]

\* set_all().
AllSet(run, gain, mute) ==
  [c \in Channels |-> IF c \in Run(run) THEN [gain |-> gain, mute |-> mute] ELSE level[c]]

----------------------------------------------------------------------------
(* The streams and the web console, as they touch what a mixer shows.      *)

\* claim_channels() and the HELLO: the records of the whole run, no bypass.
Claim(s) ==
  /\ Happens("claim") /\ \A c \in Channels : holder[c] # s
  /\ \E b \in Channels, n \in 1 .. Total :
       LET run == b .. b + n - 1
           r == [ip |-> s.ip, stream |-> s.stream, base |-> b, count |-> n]
       IN /\ b + n <= Total /\ \A c \in run : holder[c] = NoOne
          /\ holder' = [c \in Channels |-> IF c \in run THEN s ELSE holder[c]]
          /\ record' = [c \in Channels |-> IF c \in run THEN r ELSE record[c]]
          /\ bypass' = [c \in Channels |-> IF c \in run THEN FALSE ELSE bypass[c]]
  /\ stale' = TRUE
  /\ UNCHANGED <<level, asked, ctlLink, mixer, unseen, undone>>

\* FORMAT with NO_MIXER.
NoMixerFormat(s) ==
  /\ \E c \in Channels : holder[c] = s /\ ~bypass[c]
  /\ Happens("format")
  /\ bypass' = [c \in Channels |-> IF holder[c] = s THEN TRUE ELSE bypass[c]]
  /\ UNCHANGED <<streams, level, asked, ctlLink, mixer, unseen, undone, stale>>

\* release_channels(): the records stay, for the next claim and for the mixer.
ReleaseRun(s) ==
  /\ \E c \in Channels : holder[c] = s
  /\ holder' = [c \in Channels |-> IF holder[c] = s THEN NoOne ELSE holder[c]]
  /\ bypass' = [c \in Channels |-> IF holder[c] = s THEN FALSE ELSE bypass[c]]
  /\ UNCHANGED <<record, level, asked, ctlLink, mixer, unseen, undone, stale, bounds>>

\* forget_channel().
Forget(c) ==
  /\ holder[c] = NoOne /\ record[c] # NoRecord /\ Happens("forget")
  /\ record' = [record EXCEPT ![c] = NoRecord] /\ stale' = TRUE
  /\ UNCHANGED <<holder, mix, asked, ctlLink, mixer, unseen, undone>>

\* PUT /api/inputs/{c}.
Web(c) ==
  /\ Happens("web")
  /\ \/ \E g \in Gains \ {level[c].gain} : level' = [level EXCEPT ![c].gain = g]
     \/ level' = [level EXCEPT ![c].mute = ~@]
  /\ UNCHANGED <<streams, bypass, asked, ctlLink, mixer, unseen, undone, stale>>

----------------------------------------------------------------------------
(* serve_ctl().                                                            *)

ServeGoes(pc) == srv' = [srv EXCEPT !.pc = pc]

\* A CTL_HELLO: the run is looked up.
Open ==
  /\ srv.pc = "closed" /\ ~mixer.open /\ Uses("opens")
  /\ asked' \in Mixers
  /\ srv' = [Shut EXCEPT !.pc = "look"]
  /\ UNCHANGED <<streams, mix, up, down, mixer, unseen, undone, stale, seen>>

Look ==
  /\ srv.pc = "look"
  /\ srv' = [srv EXCEPT !.pc = "ack", !.base = MixRun.base, !.count = MixRun.count]
  /\ stale' = FALSE
  /\ UNCHANGED <<streams, mix, asked, up, down, mixer, unseen, undone, bounds>>

Follows(m) == [open |-> TRUE, gain |-> m.gain, mute |-> m.mute, bypass |-> m.bypass]

\* CTL_ACK, which connect_ctl() waits for.
Ack ==
  /\ srv.pc = "ack"
  /\ srv' = [srv EXCEPT !.pc = "remember", !.sent = Stands(srv.base)]
  /\ mixer' = Follows(Stands(srv.base))
  /\ unseen' = {} /\ undone' = {}
  /\ UNCHANGED <<streams, mix, asked, up, down, stale, bounds>>

\* sent_gain and the others are read after the ack is out.
Remember ==
  /\ srv.pc = "remember"
  /\ srv' = [srv EXCEPT !.pc = "poll", !.sent = Stands(srv.base)]
  /\ unseen' = {f \in MixFields : Stands(srv.base)[f] # srv.sent[f]}
  /\ UNCHANGED <<streams, mix, asked, up, down, mixer, undone, stale, bounds>>

\* poll() runs out: 100 ms.
Wait ==
  /\ srv.pc = "poll" /\ ServeGoes("resolve")
  /\ UNCHANGED <<streams, mix, asked, up, down, mixer, unseen, undone, stale, bounds>>

\* Mutant: what a mixer asked for it is taken to know.
TakeSetMixKnown ==
  /\ srv.pc = "poll" /\ up # <<>>
  /\ up' = Tail(up)
  /\ LET m == Head(up)
     IN IF bypass[srv.base] THEN UNCHANGED level /\ srv' = [srv EXCEPT !.pc = "resolve", !.took = m]
        ELSE /\ level' = [c \in Channels |-> IF c \in Run(srv)
                            THEN [level[c] EXCEPT ![m.field] = m.value] ELSE level[c]]
             /\ srv' = [srv EXCEPT !.pc = "resolve", !.took = m, !.sent[m.field] = m.value]
  /\ UNCHANGED <<streams, bypass, asked, down, mixer, unseen, undone, stale, bounds>>

\* A SET_MIX, written to the run as it was last looked up; an un-mixable one ignores it.
TakeSetMix ==
  /\ srv.pc = "poll" /\ up # <<>>
  /\ up' = Tail(up)
  /\ LET m == Head(up)
     IN level' = IF bypass[srv.base] THEN level
                 ELSE [c \in Channels |-> IF c \in Run(srv)
                         THEN [level[c] EXCEPT ![m.field] = m.value] ELSE level[c]]
  /\ srv' = [srv EXCEPT !.pc = "resolve", !.took = Head(up)]
  /\ UNCHANGED <<streams, bypass, asked, down, mixer, unseen, undone, stale, bounds>>

\* Mutant: the run is the one the mixer was opened on.
ResolveOnce ==
  /\ srv.pc = "resolve" /\ ServeGoes("compare") /\ stale' = FALSE
  /\ UNCHANGED <<streams, mix, asked, up, down, mixer, unseen, undone, bounds>>

\* The run is looked up again; where it has moved, the level moves with it.
Resolve ==
  /\ srv.pc = "resolve"
  /\ srv' = [srv EXCEPT !.pc = "compare", !.base = MixRun.base, !.count = MixRun.count]
  /\ level' = IF Run(MixRun) # Run(srv) /\ ~bypass[MixRun.base]
                THEN AllSet(MixRun, level[srv.base].gain, level[srv.base].mute) ELSE level
  /\ stale' = FALSE
  /\ UNCHANGED <<streams, bypass, asked, up, down, mixer, unseen, undone, bounds>>

\* A look: a MIX if anything is not as last sent; the ghosts keep what there is none for.
Looks(now) ==
  LET asks == {srv.took.field} \cap Elements
      stands == {f \in asks : now[f] = srv.took.value}
      same == now = srv.sent
  IN /\ srv' = [srv EXCEPT !.pc = "poll", !.took = NoMove, !.sent = now]
     /\ down' = IF same THEN down ELSE Append(down, now)
     /\ unseen' = IF ~same THEN {}
                  ELSE (unseen \cup (IF "bypass" \in unseen THEN asks ELSE {})) \ stands
     /\ undone' = IF ~same THEN {}
                  ELSE (undone \cup (IF now.bypass THEN {} ELSE asks)) \ stands

\* Mutant: an un-mixable run is not told.
CompareLevels ==
  /\ srv.pc = "compare" /\ Looks([Stands(srv.base) EXCEPT !.bypass = srv.sent.bypass])
  /\ UNCHANGED <<streams, mix, asked, up, mixer, stale, bounds>>

\* A MIX, whoever made the change.
Compare ==
  /\ srv.pc = "compare" /\ Looks(Stands(srv.base))
  /\ UNCHANGED <<streams, mix, asked, up, mixer, stale, bounds>>

\* BYE: the mixer was closed.
HangUp ==
  /\ srv.pc = "poll" /\ ~mixer.open
  /\ srv' = Shut /\ up' = <<>> /\ down' = <<>> /\ unseen' = {} /\ undone' = {}
  /\ UNCHANGED <<streams, mix, asked, mixer, stale, bounds>>

----------------------------------------------------------------------------
(* The mixer: one program's calls.                                         *)

\* pump(), which every call but a write begins with.
CtlPump ==
  /\ mixer.open /\ down # <<>>
  /\ down' = Tail(down)
  /\ mixer' = Follows(Head(down))
  /\ UNCHANGED <<streams, mix, asked, srv, up, unseen, undone, stale, bounds>>

\* st_write_integer(): refused while inactive, and nothing is sent when nothing changes.
WriteInteger ==
  /\ mixer.open /\ ~mixer.bypass
  /\ Uses("writes")
  /\ \E e \in Elements : \E v \in (IF e = "gain" THEN Gains ELSE BOOLEAN) \ {mixer[e]} :
       /\ mixer' = [mixer EXCEPT ![e] = v]
       /\ up' = Append(up, [field |-> e, value |-> v])
  /\ UNCHANGED <<streams, mix, asked, srv, down, unseen, undone, stale, seen>>

\* st_close().
StClose ==
  /\ mixer.open /\ mixer' = NoMixer
  /\ UNCHANGED <<streams, mix, asked, ctlLink, unseen, undone, stale, bounds>>

Server == Look \/ Ack \/ Remember \/ Wait \/ TakeSetMix \/ Resolve \/ Compare \/ HangUp
MixerCalls == Open \/ CtlPump \/ WriteInteger \/ StClose
\* Bound: nothing goes on once the last mixer is closed.
Others ==
  /\ left.opens > 0 \/ mixer.open \/ srv.pc \in {"look", "ack"}
  /\ \/ \E s \in Senders : Claim(s) \/ NoMixerFormat(s) \/ ReleaseRun(s)
     \/ \E c \in Channels : Forget(c) \/ Web(c)

MixerNext == Server \/ MixerCalls \/ Others

MixerFairness ==
  /\ WF_mixerVars(Look \/ Ack \/ Remember \/ Wait \/ Resolve \/ Compare \/ HangUp)
  /\ SF_mixerVars(TakeSetMix) /\ WF_mixerVars(CtlPump)

MixerSpec == MixerInit /\ [][MixerNext]_mixerVars
FairMixerSpec == MixerSpec /\ MixerFairness

----------------------------------------------------------------------------
(* What must hold.                                                         *)

Shown == [gain : Gains, mute : BOOLEAN, bypass : BOOLEAN]

\* The types of both ends' states, and a run that is one.
MixerTypeOK ==
  /\ level \in [Channels -> Level] /\ bypass \in [Channels -> BOOLEAN]
  /\ srv.pc \in {"closed", "look", "ack", "remember", "poll", "resolve", "compare"}
  /\ srv.base \in Channels /\ srv.count \in 1 .. Total - srv.base /\ srv.sent \in Shown
  /\ {mixer.open, mixer.mute, mixer.bypass, stale} \subseteq BOOLEAN
  /\ mixer.gain \in Gains /\ unseen \subseteq MixFields /\ undone \subseteq Elements
  /\ \A i \in DOMAIN down : down[i] \in Shown
  /\ \A i \in DOMAIN up : up[i].field \in Elements

AtRest ==
  srv.pc = "poll" /\ mixer.open /\ up = <<>> /\ down = <<>> /\ srv.sent = Stands(srv.base)

\* A mixer never sits on a value the device does not have: once nothing is
\* under way and the thread has nothing to push, the two agree, whatever
\* crossed on the wire.  The exceptions, field by field, until the next MIX: what
\* was undone between a SET_MIX and the look that follows it, and what changed,
\* for good, between the ack and the thread's first reads of sent_*.
AgreeAtRest == AtRest => \A f \in MixFields \ (unseen \cup undone) : mixer[f] = srv.sent[f]

\* What the documents say of it (net_proto.h:50, "pushed whenever they change"; docs/
\* api.md:664), and the code does not keep: a change that stands reaches the mixer,
\* whenever it was made.
ChangesReachTheMixer == AtRest => \A f \in MixFields \ undone : mixer[f] = srv.sent[f]

LevelsAgree == \A c, d \in Run(srv) : level[c] = level[d]

Driven == srv.pc \in {"poll", "compare"}

\* One volume covers the run: a mixer that was open before anything played
\* keeps all the channels it drives at one level, through every run its
\* machine takes, as long as nobody else sets one and no run was un-mixable.
OneVolume ==
  seen \cap {"web", "format"} = {} /\ left.opens >= MaxOpens - 1 /\ Driven
    => LevelsAgree

\* A mixer that outlived its run changes another's channel at most until its
\* thread's next look: only the message that was waiting when the records
\* changed can go astray.
StrayIsBrief ==
  [][srv.pc \in {"poll", "resolve"} /\ srv' # srv /\ (srv.pc = "resolve" \/ ~stale)
       => \A c \in Channels : level'[c] # level[c] => c \in Run(MixRun)]_mixerVars

\* Whatever is moved, on either side, both come to rest on it: over and over,
\* either there is no mixer or the run is the one its machine has and its
\* mixer shows what the device does, but for AgreeAtRest's exceptions.
BothComeToRest ==
  []<>(~mixer.open
       \/ /\ up = <<>> /\ down = <<>> /\ Run(srv) = Run(MixRun)
          /\ \A f \in MixFields \ (unseen \cup undone) : mixer[f] = Stands(srv.base)[f])

\* The mixer and the device agree at rest, and so do a run's channels.
MixerInv == MixerTypeOK /\ AgreeAtRest /\ OneVolume
=============================================================================

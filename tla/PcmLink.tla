-------------------------------- MODULE PcmLink --------------------------------
(***************************************************************************)
(* A sender: the ALSA plugin a program plays through                       *)
(* (src/alsa-plugin/pcm_soundtester.c).  Two threads share one link: the   *)
(* connector makes connections, and the audio path, which runs inside the  *)
(* program's own calls, adopts them, says what the stream is, and releases *)
(* frames as the clock goes.  Between them are two atomics, want_link and  *)
(* handoff_fd, and an eventfd.                                             *)
(*                                                                         *)
(* Time is in ticks, audio in frames; Den ticks are worth Num frames.  The *)
(* device is what it is told: a FORMAT and, after it, messages of frames.  *)
(***************************************************************************)
EXTENDS Integers, FiniteSets

CONSTANTS
  Num, Den,    \* pcm_rate, in frames per tick
  Buffer,      \* buffer_size
  Packet,      \* ST_PACKET_FRAMES
  CatchUp,     \* catchup_ns
  Assumed,     \* ASSUMED_MAX_LEAD
  Leads,       \* the max_lead a device may answer with, 0 for none
  Encodings,   \* what the conf may say
  MaxLinks,    \* bound: connections made
  MaxStreams,  \* bound: prepare()s
  MaxTime      \* bound: the clock

\* Two periods are in any buffer, and so are the 20 ms below which no catch-up goes.
LinkAssumption ==
  /\ Num \in Nat \ {0} /\ Den \in Nat \ {0} /\ Buffer \in Nat \ {0} /\ Packet \in Nat \ {0}
  /\ CatchUp \in Nat \ {0} /\ CatchUp * Num <= Buffer * Den
  /\ Assumed \in Nat \ {0} /\ Leads \subseteq Nat /\ Encodings \subseteq {"pcm", "vorbis"}
  /\ MaxLinks \in Nat /\ MaxStreams \in Nat /\ MaxTime \in Nat

ASSUME LinkAssumption

VARIABLES
  time,
  want,     \* want_link
  handoff,  \* handoff_fd: the connection in it, or None
  offer,    \* handoff_max_lead
  wake,     \* wake_fd is readable
  quit,
  con,      \* the connector: where it is, its socket, why it naps
  socket,   \* by connection: not made, open, cut by the far end, or closed here
  path,     \* the audio path: where it is, after a drop, what for, and its locals
  link,     \* sk_fd, declared, max_lead, lead_frames (by its connection), sent_pcm, pend_*
  clock,    \* hw_ptr, last_tick_ns, frac, started, xrun
  pcm,      \* alsa-lib's part: the state and appl_ptr
  enc,      \* the encoding
  stream,   \* prepare()s so far
  device,   \* by connection, what the far end has been told
  account   \* when the clock counts from, later by what it was let off, and frames it lost

app == <<pcm, enc, stream>>
shared == <<want, handoff, offer, wake, quit>>
vars == <<time, shared, con, socket, path, link, clock, app, device, account>>

None == 0
Links == 1 .. MaxLinks
NotTold == [stream |-> 0, next |-> -1, frame |-> -1, whole |-> TRUE]
NoLink == [fd |-> None, declared |-> FALSE, max |-> Assumed, lead |-> None,
           sent |-> 0, pos |-> 0, frames |-> 0]

Init ==
  /\ time = 0 /\ want = TRUE /\ handoff = None /\ offer = 0 /\ wake = FALSE /\ quit = FALSE
  /\ con = [pc |-> "loop", fd |-> None, idle |-> FALSE]
  /\ socket = [l \in Links |-> "none"]
  /\ path = [pc |-> "idle", after |-> "idle", call |-> "none", left |-> 0]
  /\ link = NoLink
  /\ clock = [hw |-> 0, last |-> 0, frac |-> 0, started |-> FALSE, xrun |-> FALSE]
  /\ pcm = [state |-> "setup", appl |-> 0] /\ enc \in Encodings /\ stream = 0
  /\ device = [l \in Links |-> NotTold]
  /\ account = [from |-> 0, lost |-> 0]

----------------------------------------------------------------------------
(* The connector: link_thread().                                           *)

Goes(pc) == con' = [con EXCEPT !.pc = pc, !.idle = FALSE]

\* quit and want_link; quit is only ever set, and is looked at again.
ConLoop ==
  /\ con.pc = "loop"
  /\ con' = [con EXCEPT !.pc = IF quit THEN "gone" ELSE IF want THEN "connect" ELSE "nap",
                        !.idle = ~quit /\ ~want]
  /\ UNCHANGED <<time, shared, socket, path, link, clock, app, device, account>>

\* link_nap(): woken, which drains the eventfd, or out of time.
ConNap ==
  /\ con.pc = "nap"
  /\ wake' = FALSE /\ Goes("loop")
  /\ UNCHANGED <<time, want, handoff, offer, quit, socket, path, link, clock, app, device, account>>

\* link_connect() gets an answer: HELLO_ACK, status ok.
ConConnect ==
  /\ con.pc = "connect"
  /\ \E l \in Links :
       /\ socket[l] = "none" /\ \A k \in 1 .. l - 1 : socket[k] # "none"
       /\ socket' = [socket EXCEPT ![l] = "open"]
       /\ con' = [con EXCEPT !.pc = "made", !.fd = l]
  /\ UNCHANGED <<time, shared, path, link, clock, app, device, account>>

\* Nobody there, a wake in the middle of connect(), no handshake, or refused: closed, and a nap.
ConFail ==
  /\ con.pc = "connect"
  /\ con' = [con EXCEPT !.pc = IF quit THEN "gone" ELSE "nap"]
  /\ UNCHANGED <<time, shared, socket, path, link, clock, app, device, account>>

\* quit is looked at again before the socket is handed over.
ConMade ==
  /\ con.pc = "made"
  /\ IF quit
       THEN /\ socket' = [socket EXCEPT ![con.fd] = "closed"]
            /\ con' = [con EXCEPT !.pc = "gone", !.fd = None] /\ UNCHANGED offer
       ELSE /\ offer' \in Leads /\ Goes("unwant") /\ UNCHANGED socket
  /\ UNCHANGED <<time, want, handoff, wake, quit, path, link, clock, app, device, account>>

Steps(pc, next) == con.pc = pc /\ con' = [con EXCEPT !.pc = next, !.fd = IF next = "loop" THEN None ELSE @]

\* Mutants: the socket is handed over first; want_link is left as it is.
ConPublishFirst ==
  /\ \/ Steps("unwant", "hand") /\ handoff' = con.fd /\ UNCHANGED want
     \/ Steps("hand", "loop") /\ want' = FALSE /\ UNCHANGED handoff
  /\ UNCHANGED <<time, offer, wake, quit, socket, path, link, clock, app, device, account>>
ConPublishOnly ==
  /\ \/ Steps("unwant", "hand") /\ UNCHANGED <<want, handoff>>
     \/ Steps("hand", "loop") /\ handoff' = con.fd /\ UNCHANGED want
  /\ UNCHANGED <<time, offer, wake, quit, socket, path, link, clock, app, device, account>>

\* want_link is cleared, and only then is the socket in handoff_fd.
ConPublish ==
  /\ \/ Steps("unwant", "hand") /\ want' = FALSE /\ UNCHANGED handoff
     \/ Steps("hand", "loop") /\ handoff' = con.fd /\ UNCHANGED want
  /\ UNCHANGED <<time, offer, wake, quit, socket, path, link, clock, app, device, account>>

\* A device that goes, or a network that does.
Cut(l) ==
  /\ socket[l] = "open"
  /\ socket' = [socket EXCEPT ![l] = "cut"]
  /\ UNCHANGED <<time, shared, con, path, link, clock, app, device, account>>

\* A call looks at the clock once, as it begins: what passes during it has passed when it ends.
Tick ==
  /\ path.pc = "idle" /\ time < MaxTime
  /\ time' = time + 1
  /\ UNCHANGED <<shared, con, socket, path, link, clock, app, device, account>>

----------------------------------------------------------------------------
(* The program and alsa-lib: calls that reach the plugin one at a time.    *)

Calls(call) == path' = [path EXCEPT !.pc = "service", !.call = call]

Write ==
  /\ path.pc = "idle" /\ pcm.state \in {"prepared", "running"}
  /\ \E k \in 1 .. Buffer - (pcm.appl - clock.hw) : pcm' = [pcm EXCEPT !.appl = @ + k]
  /\ UNCHANGED <<time, shared, con, socket, path, link, clock, enc, stream, device, account>>

\* st_prepare(), up to its link_service().
Prepare ==
  /\ path.pc = "idle" /\ pcm.state \in {"setup", "xrun"} /\ stream < MaxStreams
  /\ Calls("prepare")
  /\ stream' = stream + 1 /\ pcm' = [state |-> "prepared", appl |-> 0]
  /\ clock' = [hw |-> 0, last |-> time, frac |-> 0, started |-> FALSE, xrun |-> FALSE]
  /\ link' = [link EXCEPT !.declared = FALSE]
  /\ UNCHANGED <<time, shared, con, socket, enc, device, account>>

Start ==
  /\ path.pc = "idle" /\ pcm.state = "prepared" /\ pcm.appl > 0
  /\ pcm' = [pcm EXCEPT !.state = "running"]
  /\ clock' = [clock EXCEPT !.last = time, !.frac = 0, !.started = TRUE]
  /\ account' = [from |-> time, lost |-> 0]
  /\ UNCHANGED <<time, shared, con, socket, path, link, enc, stream, device>>

Drain ==
  /\ path.pc = "idle" /\ pcm.state = "running"
  /\ pcm' = [pcm EXCEPT !.state = "draining"]
  /\ UNCHANGED <<time, shared, con, socket, path, link, clock, enc, stream, device, account>>

Stop ==
  /\ path.pc = "idle" /\ pcm.state \in {"prepared", "running", "draining", "xrun"}
  /\ pcm' = [pcm EXCEPT !.state = "setup"] /\ clock' = [clock EXCEPT !.started = FALSE]
  /\ UNCHANGED <<time, shared, con, socket, path, link, enc, stream, device, account>>

\* st_pointer(), st_poll_revents() and st_delay() all begin with advance().
Ask ==
  /\ path.pc = "idle" /\ pcm.state # "closed"
  /\ Calls("ask")
  /\ UNCHANGED <<time, shared, con, socket, link, clock, app, device, account>>

\* st_pointer() alone tells alsa-lib of an xrun, and a drained stream is stopped by it.
Tells ==
  LET drained == pcm.state = "draining" /\ (clock.xrun \/ pcm.appl = clock.hw)
  IN /\ pcm' = [pcm EXCEPT !.state = IF drained THEN "setup"
                                      ELSE IF clock.xrun THEN "xrun" ELSE @]
     /\ clock' = [clock EXCEPT !.started = @ /\ ~drained]

Answer ==
  /\ path.pc = "done" \/ (path.pc = "chunk" /\ path.left = 0)
  /\ path' = [path EXCEPT !.pc = "idle", !.call = "none"]
  /\ (path.call = "ask" /\ Tells) \/ UNCHANGED <<pcm, clock>>
  /\ UNCHANGED <<time, shared, con, socket, link, enc, stream, device, account>>

----------------------------------------------------------------------------
(* The link, on the audio path.                                            *)

At(pc) == path' = [path EXCEPT !.pc = pc]
Back == path' = [path EXCEPT !.pc = path.after, !.after = "idle"]
Drops(after) == path' = [path EXCEPT !.pc = "drop", !.after = after]

\* Where link_service() returns to.
Served == IF path.call = "prepare" THEN "done" ELSE "pump"

Adopted(fd) ==
  [link EXCEPT !.fd = fd, !.declared = FALSE, !.max = IF offer = 0 THEN Assumed ELSE offer,
               !.lead = None, !.sent = 0]

\* link_service(), the first half: what the connector has finished with.
Service ==
  /\ path.pc = "service"
  /\ handoff' = None
  /\ link' = IF handoff # None THEN Adopted(handoff) ELSE link
  /\ At(IF link'.fd # None /\ ~link'.declared /\ stream > 0 THEN "declare" ELSE Served)
  /\ UNCHANGED <<time, want, offer, wake, quit, con, socket, clock, app, device, account>>

\* What the far end hears, if it still listens.
Hears(d) == device' = IF socket[link.fd] = "open" THEN [device EXCEPT ![link.fd] = d] ELSE device

\* The frames to come are the ones from hw_ptr on, wherever their positions begin.
Format == [stream |-> stream, next |-> -1, frame |-> clock.hw, whole |-> device[link.fd].whole]

\* Mutant: what was pending is kept.
DeclareKeepsPending ==
  /\ path.pc = "declare"
  /\ \/ /\ Hears(Format)
        /\ link' = [link EXCEPT !.declared = TRUE] /\ At(Served)
     \/ Drops(Served) /\ UNCHANGED <<link, device>>
  /\ UNCHANGED <<time, shared, con, socket, clock, app, account>>

\* declare(): FORMAT, and a new encoder's setup packets.  Either send may fail.
Declare ==
  /\ path.pc = "declare"
  /\ \/ /\ Hears(Format)
        /\ link' = [link EXCEPT !.declared = TRUE, !.pos = 0, !.frames = 0] /\ At(Served)
     \/ Drops(Served) /\ UNCHANGED <<link, device>>
  /\ UNCHANGED <<time, shared, con, socket, clock, app, account>>

\* pump_rx(): nothing, a STATUS, or the far end gone.
Pump ==
  /\ path.pc = "pump"
  /\ \/ At("release") /\ UNCHANGED link
     \/ link.fd # None /\ link' = [link EXCEPT !.lead = link.fd] /\ At("release")
     \/ link.fd # None /\ socket[link.fd] = "cut" /\ Drops("release") /\ UNCHANGED link
  /\ UNCHANGED <<time, shared, con, socket, clock, app, device, account>>

\* What became of it is all that is kept of a closed link.
Closes == /\ socket' = [socket EXCEPT ![link.fd] = "closed"]
          /\ device' = [device EXCEPT ![link.fd] = [NotTold EXCEPT !.whole = device[link.fd].whole]]

\* Mutants: the lead outlives the link; the connector is woken before it is told.
LinkDropKeepsLead ==
  /\ \/ /\ path.pc = "drop" /\ At("wake") /\ Closes /\ want' = TRUE /\ UNCHANGED wake
        /\ link' = [link EXCEPT !.fd = None, !.declared = FALSE]
     \/ path.pc = "wake" /\ Back /\ wake' = TRUE /\ UNCHANGED <<socket, device, want, link>>
  /\ UNCHANGED <<time, handoff, offer, quit, con, clock, app, account>>
LinkDropWakesFirst ==
  /\ \/ /\ path.pc = "drop" /\ At("wake") /\ Closes /\ wake' = TRUE /\ UNCHANGED want
        /\ link' = [link EXCEPT !.fd = None, !.declared = FALSE, !.lead = None]
     \/ path.pc = "wake" /\ Back /\ want' = TRUE /\ UNCHANGED <<socket, device, wake, link>>
  /\ UNCHANGED <<time, handoff, offer, quit, con, clock, app, account>>

\* link_drop(): the socket closed and want_link set, and only then the eventfd.
LinkDrop ==
  /\ \/ /\ path.pc = "drop" /\ At("wake") /\ Closes /\ want' = TRUE /\ UNCHANGED wake
        /\ link' = [link EXCEPT !.fd = None, !.declared = FALSE, !.lead = None]
     \/ path.pc = "wake" /\ Back /\ wake' = TRUE /\ UNCHANGED <<socket, device, want, link>>
  /\ UNCHANGED <<time, handoff, offer, quit, con, clock, app, account>>

----------------------------------------------------------------------------
(* advance(): as many frames as the clock has gone on.                     *)

Least(a, b) == IF a < b THEN a ELSE b

\* Mutant: a stall is paid back whatever its length.
BilledInFull == time - clock.last

\* dt, which catchup_ns caps.
Billed == Least(time - clock.last, CatchUp)

Due == Billed * Num + clock.frac
Owed == Least(Due \div Den, link.max)
Queued == pcm.appl - clock.hw

Released == Least(Owed, Queued)

\* Mutant: the remainder of a frame is dropped with every call.
ReleaseWhole ==
  /\ path.pc = "release" /\ clock.started
  /\ clock' = [clock EXCEPT !.last = time, !.frac = 0,
                            !.xrun = @ \/ (Queued < Owed /\ pcm.state = "running")]
  /\ path' = [path EXCEPT !.pc = "chunk", !.left = Released]
  /\ account' = [account EXCEPT !.from = @ + (time - clock.last - Billed),
                                !.lost = @ + Due \div Den - Released]
  /\ UNCHANGED <<time, shared, con, socket, link, app, device>>

Release ==
  /\ path.pc = "release" /\ clock.started
  /\ clock' = [clock EXCEPT !.last = time, !.frac = Due - Den * (Due \div Den),
                            !.xrun = @ \/ (Queued < Owed /\ pcm.state = "running")]
  /\ path' = [path EXCEPT !.pc = "chunk", !.left = Released]
  /\ account' = [account EXCEPT !.from = @ + (time - clock.last - Billed),
                                !.lost = @ + Due \div Den - Released]
  /\ UNCHANGED <<time, shared, con, socket, link, app, device>>

ReleaseNothing ==
  /\ path.pc = "release" /\ ~clock.started
  /\ clock' = [clock EXCEPT !.last = time] /\ At("done")
  /\ UNCHANGED <<time, shared, con, socket, link, app, device, account>>

Chunk == Least(Least(path.left, Packet), Buffer - (clock.hw % Buffer))

\* A message of frames at a position, the last of them the end of this chunk.
Sends(pos, frames) ==
  LET d == device[link.fd]
      first == clock.hw + Chunk - frames
  IN Hears([stream |-> d.stream, next |-> pos + frames, frame |-> first + frames,
            whole |-> d.whole /\ d.stream = stream /\ d.frame = first
                        /\ d.next \in {-1, pos}])

Moves(after) ==
  /\ path' = [path EXCEPT !.pc = IF after = "drop" THEN "drop" ELSE "chunk",
                          !.after = IF after = "drop" THEN "chunk" ELSE @, !.left = @ - Chunk]
  /\ clock' = [clock EXCEPT !.hw = @ + Chunk]

Going(fed) == /\ path.pc = "chunk" /\ path.left > 0
              /\ fed = (link.fd # None)
              /\ UNCHANGED <<time, shared, con, socket, app, account>>

\* The link is down: the frames are played to nobody, and the next one counts from 0.
PlayOn ==
  /\ Going(FALSE) /\ Moves("on")
  /\ UNCHANGED <<link, device>>

\* send_pcm().
SendPcm ==
  /\ Going(TRUE) /\ enc = "pcm"
  /\ \/ Sends(link.sent, Chunk) /\ Moves("on")
     \/ Moves("drop") /\ UNCHANGED device
  /\ link' = [link EXCEPT !.sent = @ + Chunk]

\* encode_and_send(): packets come out now and then, for all the frames since the last.
SendVorbis ==
  /\ Going(TRUE) /\ enc = "vorbis"
  /\ LET frames == link.frames + Chunk
         more == [link EXCEPT !.sent = @ + Chunk, !.frames = frames]
     IN \/ /\ Sends(link.pos, frames) /\ Moves("on")
           /\ link' = [more EXCEPT !.pos = @ + frames, !.frames = 0]
        \/ Moves("on") /\ link' = more /\ UNCHANGED device
        \/ Moves("drop") /\ link' = more /\ UNCHANGED device

----------------------------------------------------------------------------
(* st_close().                                                             *)

\* alsa-lib stops the stream first.  link_stop(): quit, and then the eventfd.
Close ==
  /\ path.pc = "idle" /\ pcm.state = "setup"
  /\ pcm' = [pcm EXCEPT !.state = "closed"]
  /\ quit' = TRUE /\ At("stop")
  /\ UNCHANGED <<time, want, handoff, offer, wake, con, socket, link, clock, enc, stream, device, account>>

CloseWake ==
  /\ path.pc = "stop" /\ wake' = TRUE /\ At("join")
  /\ UNCHANGED <<time, want, handoff, offer, quit, con, socket, link, clock, app, device, account>>

\* Mutant: nobody waits for the connector.
CloseUnjoined ==
  /\ path.pc = "join" /\ At("closed")
  /\ handoff' = None /\ link' = NoLink
  /\ socket' = [l \in Links |-> IF l \in {handoff, link.fd} THEN "closed" ELSE socket[l]]
  /\ UNCHANGED <<time, want, offer, wake, quit, con, clock, app, device, account>>

\* pthread_join(); what was handed over and never adopted; BYE and the link.
CloseJoined ==
  /\ path.pc = "join" /\ con.pc = "gone" /\ At("closed")
  /\ handoff' = None /\ link' = NoLink
  /\ socket' = [l \in Links |-> IF l \in {handoff, link.fd} THEN "closed" ELSE socket[l]]
  /\ UNCHANGED <<time, want, offer, wake, quit, con, clock, app, device, account>>

Connector == ConLoop \/ ConNap \/ ConConnect \/ ConFail \/ ConMade \/ ConPublish

AudioPath ==
  \/ Answer \/ Service \/ Declare \/ Pump \/ LinkDrop
  \/ Release \/ ReleaseNothing \/ PlayOn \/ SendPcm \/ SendVorbis
  \/ CloseWake \/ CloseJoined

Program ==
  \/ Write \/ Prepare \/ Start \/ Drain \/ Stop \/ Ask \/ Close

Next == Connector \/ AudioPath \/ Program \/ Tick \/ \E l \in Links : Cut(l)

Spec == Init /\ [][Next]_vars

----------------------------------------------------------------------------
(* What must hold.                                                         *)

Told == [stream : 0 .. MaxStreams, next : Int, frame : Int, whole : BOOLEAN]

\* The types of the two threads' states.
TypeOK ==
  /\ time \in 0 .. MaxTime /\ {want, wake, quit} \subseteq BOOLEAN
  /\ handoff \in Links \cup {None} /\ offer \in Leads \cup {0}
  /\ con.pc \in {"loop", "nap", "connect", "made", "unwant", "hand", "gone"}
  /\ con.fd \in Links \cup {None} /\ (con.fd # None) = (con.pc \in {"made", "unwant", "hand"})
  /\ socket \in [Links -> {"none", "open", "cut", "closed"}]
  /\ path.pc \in {"idle", "service", "declare", "pump", "drop", "wake", "release", "chunk",
                  "done", "stop", "join", "closed"}
  /\ path.left \in 0 .. Buffer /\ clock.hw <= pcm.appl /\ pcm.appl <= clock.hw + Buffer
  /\ link.fd \in Links \cup {None} /\ clock.frac \in 0 .. Den - 1
  /\ pcm.state \in {"setup", "prepared", "running", "draining", "xrun", "closed"}
  /\ device \in [Links -> Told]

Held == {l \in {link.fd, handoff, con.fd} : l # None}

\* A lost link is always somebody's to make again: the connector is asked for
\* one exactly while none is on its way, handed over or in use.  Asked for
\* with one in use, it would make a second; not asked for with none, nothing
\* would ever look again.
LinkIsNeverForgotten ==
  pcm.state # "closed" => want = (link.fd = None /\ handoff = None /\ con.pc # "hand")

\* Nor is there ever a second one: every socket that is open here is the one
\* in use, the one handed over, or the one being made, and none outlives the
\* PCM.
OneSocketAndItIsHeld ==
  LET here == {l \in Links : socket[l] \in {"open", "cut"}}
  IN here = Held /\ Cardinality(here) <= 1 /\ (path.pc = "closed" => here = {})

\* The connector does not sleep out its second when there is a link to make or
\* a close waits for it: once the audio path has gone on, a nap that began
\* with nothing to do has the wake-up before it, and so has any under a close.
NapsAreCutShort ==
  con.pc = "nap" => /\ con.idle /\ want /\ path.pc # "wake" => wake
                    /\ path.pc = "join" => wake

\* hw_ptr is the clock and nothing else: time since the start, at the
\* stream's rate to the fraction of a frame, less what a stall was let off
\* and what the program had not written; no link that comes, goes or stalls
\* is in the sum.
HwPtrIsTheClock ==
  clock.started =>
    Den * (clock.hw + path.left + account.lost) + clock.frac
      = Num * (clock.last - account.from)

\* What a link carries is whole: it begins with what the stream is, and its
\* positions and the program's frames go on together, with no hole and no
\* frame twice, from one FORMAT to the next, whatever the encoder holds back.
DeviceHearsItWhole == \A l \in Links : device[l].whole

\* The delay a program is told counts no lead of a device that is gone.
LeadIsThisLinks == link.lead \in {None, link.fd}

\* A program that had its buffer full is never told of an xrun, however long
\* a send was held up: a network fault does not become one.
FullBufferHasNoXrun ==
  [][clock'.xrun /\ ~clock.xrun => Queued < Buffer]_vars

\* What the two threads keep between them: one socket, naps that end, a lead
\* that is the link's own, and a pointer that no link moves.
LinkInv == TypeOK /\ OneSocketAndItIsHeld /\ NapsAreCutShort /\ LeadIsThisLinks /\ HwPtrIsTheClock
=============================================================================

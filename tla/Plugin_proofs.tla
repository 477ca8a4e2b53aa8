---------------------------- MODULE Plugin_proofs ----------------------------
(***************************************************************************)
(* What holds of the two plugins a sending machine loads, and of the       *)
(* thread that serves its mixer.  Of a sender, whatever the stream's rate, *)
(* the buffer and the packets are, and however many links are lost:        *)
(* LinkIInv adds to the properties where the two threads are, who has the  *)
(* link, what a call of the program has got to, and what the far end       *)
(* expects next.  Of a mixer, whoever takes runs or sets levels meanwhile: *)
(* MixerIInv adds what is under way to either end, and which run the       *)
(* thread drives.                                                          *)
(***************************************************************************)
EXTENDS PcmLink, MixerLink, TLAPS, FiniteSetTheorems, WellFoundedInduction

----------------------------------------------------------------------------
(* The inductive invariant of a sender.                                    *)

\* Each thread's own variables, and what it keeps of the link, the clock and the program.
Connectors == [pc : {"loop", "nap", "connect", "made", "unwant", "hand", "gone"},
               fd : Links \cup {None}, idle : BOOLEAN]
Paths == [pc : {"idle", "service", "declare", "pump", "drop", "wake", "release", "chunk",
                "done", "stop", "join", "closed"},
          after : {"idle", "done", "pump", "release", "chunk"},
          call : {"none", "prepare", "ask"}, left : Nat]
LinkVars == [fd : Links \cup {None}, declared : BOOLEAN, max : Nat, lead : Links \cup {None},
             sent : Nat, pos : Nat, frames : Nat]
Clocks == [hw : Nat, last : Nat, frac : 0 .. Den - 1, started : BOOLEAN, xrun : BOOLEAN]
Pcms == [state : {"setup", "prepared", "running", "draining", "xrun", "closed"}, appl : Nat]

\* Types.
Types ==
  /\ time \in 0 .. MaxTime /\ want \in BOOLEAN /\ wake \in BOOLEAN /\ quit \in BOOLEAN
  /\ handoff \in Links \cup {None} /\ offer \in Leads \cup {0}
  /\ socket \in [Links -> {"none", "open", "cut", "closed"}]
  /\ con \in Connectors /\ path \in Paths /\ link \in LinkVars /\ clock \in Clocks
  /\ pcm \in Pcms /\ enc \in {"pcm", "vorbis"} /\ stream \in 0 .. MaxStreams
  /\ device \in [Links -> Told] /\ account \in [from : Int, lost : Int]

\* Where a call can be, and what a close has got to.
Stages ==
  /\ quit <=> pcm.state = "closed"
  /\ quit <=> path.pc \in {"stop", "join", "closed"}
  /\ con.pc = "gone" => quit
  /\ path.pc \in {"declare", "drop"} => link.fd # None
  /\ path.pc = "wake" => link.fd = None
  /\ path.left > 0 => path.pc = "chunk" \/ (path.pc \in {"drop", "wake"} /\ path.after = "chunk")
  /\ path.pc = "closed" => con.pc = "gone" /\ handoff = None /\ link.fd = None

\* Which of the two threads has the link.
OneHolder ==
  /\ \A l \in Links : socket[l] \in {"open", "cut"} <=> l \in {link.fd, handoff, con.fd}
  /\ con.fd # None <=> con.pc \in {"made", "unwant", "hand"}
  /\ con.pc \in {"connect", "made", "unwant", "hand"} => link.fd = None /\ handoff = None
  /\ handoff # None => link.fd = None
  /\ path.pc # "closed" => (want <=> link.fd = None /\ handoff = None /\ con.pc # "hand")

\* A nap that is not idle is one after a failure; want_link was seen before it.
NapsEnd == NapsAreCutShort /\ (con.pc = "connect" => ~con.idle)

\* The pointer, the clock and the program's frames.
PointerFollows ==
  /\ HwPtrIsTheClock
  /\ clock.last <= time
  /\ clock.hw + path.left <= pcm.appl /\ pcm.appl <= clock.hw + Buffer
  /\ path.left > 0 => clock.started
  /\ clock.started => pcm.state \in {"running", "draining", "xrun"} /\ stream > 0
  /\ pcm.state = "prepared" => clock.hw = 0 /\ stream > 0

\* What the far end takes the next message for.
Expects(d) ==
  /\ d.stream = stream
  /\ enc = "pcm" => d.frame = clock.hw /\ d.next \in {-1, link.sent}
  /\ enc = "vorbis" => d.frame = clock.hw - link.frames /\ d.next \in {-1, link.pos}

\* A link that carries frames has had its FORMAT, and goes on from there.
StreamFollows ==
  /\ LeadIsThisLinks /\ DeviceHearsItWhole
  /\ path.pc \in {"pump", "release", "chunk"} /\ link.fd # None /\ stream > 0 => link.declared
  /\ \A l \in Links :
       l = link.fd /\ link.declared /\ path.pc # "drop" /\ socket[l] = "open" => Expects(device[l])

LinkIInv == Types /\ Stages /\ OneHolder /\ NapsEnd /\ PointerFollows /\ StreamFollows

----------------------------------------------------------------------------
(* What every step's proof uses.                                           *)

\* 0 is no connection, and the clock's numbers are numbers.
LEMMA Numbers ==
  /\ None \notin Links /\ Num \in Nat \ {0} /\ Den \in Nat \ {0} /\ Buffer \in Nat \ {0}
  /\ Packet \in Nat \ {0} /\ CatchUp \in Nat \ {0} /\ CatchUp * Num <= Buffer * Den
  /\ Assumed \in Nat /\ Leads \subseteq Nat /\ MaxLinks \in Nat /\ MaxTime \in Nat
  /\ MaxStreams \in Nat
BY LinkAssumption DEF LinkAssumption, Links, None

\* The fields of what the threads keep.
LEMMA Fields ==
  ASSUME Types
  PROVE /\ con.pc \in {"loop", "nap", "connect", "made", "unwant", "hand", "gone"}
        /\ con.fd \in Links \cup {None} /\ con.idle \in BOOLEAN
        /\ path.pc \in {"idle", "service", "declare", "pump", "drop", "wake", "release", "chunk",
                        "done", "stop", "join", "closed"}
        /\ path.after \in {"idle", "done", "pump", "release", "chunk"}
        /\ path.call \in {"none", "prepare", "ask"} /\ path.left \in Nat
        /\ link.fd \in Links \cup {None} /\ link.declared \in BOOLEAN /\ link.max \in Nat
        /\ link.lead \in Links \cup {None} /\ link.sent \in Nat /\ link.pos \in Nat
        /\ link.frames \in Nat
        /\ clock.hw \in Nat /\ clock.last \in Nat /\ clock.frac \in 0 .. Den - 1
        /\ clock.started \in BOOLEAN /\ clock.xrun \in BOOLEAN
        /\ pcm.state \in {"setup", "prepared", "running", "draining", "xrun", "closed"}
        /\ pcm.appl \in Nat /\ account.from \in Int /\ account.lost \in Int
BY DEF Types, Connectors, Paths, LinkVars, Clocks, Pcms

----------------------------------------------------------------------------
(* The connector, and the network.                                         *)

\* What the connector's steps leave to the audio path stays true of it.
LEMMA PathUnmoved ==
  ASSUME LinkIInv, UNCHANGED <<time, path, link, clock, app, device, account>>,
         \A l \in Links : l = link.fd /\ socket'[l] = "open" => socket[l] = "open"
  PROVE PointerFollows' /\ StreamFollows'
<1>1. PointerFollows'
  BY DEF LinkIInv, PointerFollows, HwPtrIsTheClock, app
<1>2. StreamFollows'
  BY DEF LinkIInv, StreamFollows, LeadIsThisLinks, DeviceHearsItWhole, Expects, app
<1> QED BY <1>1, <1>2

\* It looks at quit and want_link.
LEMMA ConLoopKeeps ==
  ASSUME LinkIInv, ConLoop
  PROVE LinkIInv'
<1>1. Types /\ Stages /\ OneHolder /\ NapsEnd /\ con.pc = "loop" /\ con.fd = None
  BY Fields DEF LinkIInv, ConLoop, OneHolder
<1>2. /\ con'.pc = (IF quit THEN "gone" ELSE IF want THEN "connect" ELSE "nap")
      /\ con'.fd = None /\ con' \in Connectors /\ con'.idle = (~quit /\ ~want)
  BY <1>1 DEF ConLoop, Types, Connectors
<1>3. UNCHANGED <<time, shared, socket, path, link, clock, app, device, account>>
  BY DEF ConLoop
<1>4. Types'
  BY <1>1, <1>2, <1>3 DEF Types, shared, app
<1>5. Stages' /\ OneHolder'
  BY <1>1, <1>2, <1>3, Numbers DEF Stages, OneHolder, shared, app
<1>6. NapsEnd'
  BY <1>1, <1>2, <1>3 DEF NapsEnd, NapsAreCutShort, Stages, shared, app
<1> QED BY <1>3, <1>4, <1>5, <1>6, PathUnmoved DEF LinkIInv

\* A nap ends, and the eventfd is drained.
LEMMA ConNapKeeps ==
  ASSUME LinkIInv, ConNap
  PROVE LinkIInv'
<1>1. Types /\ Stages /\ OneHolder /\ NapsEnd /\ con.pc = "nap"
  BY DEF LinkIInv, ConNap
<1>2. con'.pc = "loop" /\ con'.fd = con.fd /\ con' \in Connectors
  BY <1>1 DEF ConNap, Goes, Types, Connectors
<1>3. /\ UNCHANGED <<time, want, handoff, offer, quit, socket, path, link, clock, app, device, account>>
      /\ wake' = FALSE
  BY DEF ConNap
<1>4. Types'
  BY <1>1, <1>2, <1>3 DEF Types, app
<1>5. Stages' /\ OneHolder'
  BY <1>1, <1>2, <1>3, Numbers DEF Stages, OneHolder, app
<1>6. NapsEnd'
  BY <1>2 DEF NapsEnd, NapsAreCutShort
<1> QED BY <1>3, <1>4, <1>5, <1>6, PathUnmoved DEF LinkIInv

\* A connection is made: no other is held then.
LEMMA ConConnectKeeps ==
  ASSUME LinkIInv, ConConnect
  PROVE LinkIInv'
<1>1. Types /\ Stages /\ OneHolder /\ NapsEnd /\ con.pc = "connect" /\ con.fd = None
      /\ link.fd = None /\ handoff = None
  BY Fields DEF LinkIInv, ConConnect, OneHolder
<1>2. PICK l \in Links : socket' = [socket EXCEPT ![l] = "open"]
                         /\ con' = [con EXCEPT !.pc = "made", !.fd = l]
  BY DEF ConConnect
<1>3. con'.pc = "made" /\ con'.fd = l /\ con' \in Connectors
  BY <1>1, <1>2 DEF Types, Connectors
<1>4. UNCHANGED <<time, shared, path, link, clock, app, device, account>>
  BY DEF ConConnect
<1>5. Types'
  BY <1>1, <1>2, <1>3, <1>4 DEF Types, shared, app
<1>6. Stages'
  BY <1>1, <1>3, <1>4 DEF Stages, shared, app
<1>7. OneHolder'
  BY <1>1, <1>2, <1>3, <1>4, Numbers DEF Types, OneHolder, shared
<1>8. NapsEnd'
  BY <1>3 DEF NapsEnd, NapsAreCutShort
<1>9. \A k \in Links : k = link.fd /\ socket'[k] = "open" => socket[k] = "open"
  BY <1>1, Numbers
<1> QED BY <1>4, <1>5, <1>6, <1>7, <1>8, <1>9, PathUnmoved DEF LinkIInv

\* No connection is made.
LEMMA ConFailKeeps ==
  ASSUME LinkIInv, ConFail
  PROVE LinkIInv'
<1>1. Types /\ Stages /\ OneHolder /\ NapsEnd /\ con.pc = "connect" /\ con.fd = None
      /\ ~con.idle
  BY Fields DEF LinkIInv, ConFail, OneHolder, NapsEnd
<1>2. /\ con'.pc = (IF quit THEN "gone" ELSE "nap") /\ con'.fd = None /\ con'.idle = con.idle
      /\ con' \in Connectors
  BY <1>1 DEF ConFail, Types, Connectors
<1>3. UNCHANGED <<time, shared, socket, path, link, clock, app, device, account>>
  BY DEF ConFail
<1>4. Types'
  BY <1>1, <1>2, <1>3 DEF Types, shared, app
<1>5. Stages' /\ OneHolder'
  BY <1>1, <1>2, <1>3, Numbers DEF Stages, OneHolder, shared, app
<1>6. NapsEnd'
  BY <1>1, <1>2, <1>3 DEF NapsEnd, NapsAreCutShort, Stages, shared, app
<1> QED BY <1>3, <1>4, <1>5, <1>6, PathUnmoved DEF LinkIInv

\* What was made while the PCM was being closed is closed at once.
LEMMA ConMadeKeeps ==
  ASSUME LinkIInv, ConMade
  PROVE LinkIInv'
<1>1. Types /\ Stages /\ OneHolder /\ NapsEnd /\ con.pc = "made" /\ con.fd \in Links
      /\ link.fd = None /\ handoff = None
  BY Fields DEF LinkIInv, ConMade, OneHolder
<1>2. UNCHANGED <<time, want, handoff, wake, quit, path, link, clock, app, device, account>>
  BY DEF ConMade
<1>3. CASE quit
  <2>1. /\ con'.pc = "gone" /\ con'.fd = None /\ con' \in Connectors /\ offer' = offer
        /\ socket' = [socket EXCEPT ![con.fd] = "closed"]
    BY <1>1, <1>3 DEF ConMade, Types, Connectors
  <2>2. Types'
    BY <1>1, <1>2, <2>1 DEF Types, app
  <2>3. Stages' /\ NapsEnd'
    BY <1>1, <1>2, <1>3, <2>1 DEF Stages, NapsEnd, NapsAreCutShort, app
  <2>4. OneHolder'
    BY <1>1, <1>2, <2>1, Numbers DEF Types, OneHolder
  <2>5. \A l \in Links : l = link.fd /\ socket'[l] = "open" => socket[l] = "open"
    BY <1>1, Numbers
  <2> QED BY <1>2, <2>2, <2>3, <2>4, <2>5, PathUnmoved DEF LinkIInv
<1>4. CASE ~quit
  <2>1. /\ con'.pc = "unwant" /\ con'.fd = con.fd /\ con' \in Connectors /\ offer' \in Leads
        /\ socket' = socket
    BY <1>1, <1>4 DEF ConMade, Goes, Types, Connectors
  <2>2. Types'
    BY <1>1, <1>2, <2>1 DEF Types, app
  <2>3. Stages' /\ NapsEnd' /\ OneHolder'
    BY <1>1, <1>2, <2>1 DEF Stages, NapsEnd, NapsAreCutShort, OneHolder, app
  <2> QED BY <1>2, <2>1, <2>2, <2>3, PathUnmoved DEF LinkIInv
<1> QED BY <1>3, <1>4

\* want_link is cleared before the socket is there to be taken, and dropped.
LEMMA ConPublishKeeps ==
  ASSUME LinkIInv, ConPublish
  PROVE LinkIInv'
<1>1. Types /\ Stages /\ OneHolder /\ NapsEnd /\ con.pc \in {"unwant", "hand"}
      /\ con.fd \in Links /\ link.fd = None /\ handoff = None
  BY Fields DEF LinkIInv, ConPublish, Steps, OneHolder
<1>2. UNCHANGED <<time, offer, wake, quit, socket, path, link, clock, app, device, account>>
  BY DEF ConPublish
<1>3. CASE con.pc = "unwant"
  <2>1. /\ con'.pc = "hand" /\ con'.fd = con.fd /\ con' \in Connectors
        /\ want' = FALSE /\ handoff' = handoff
    BY <1>1, <1>3 DEF ConPublish, Steps, Types, Connectors
  <2>2. Types'
    BY <1>1, <1>2, <2>1 DEF Types, app
  <2>3. Stages' /\ NapsEnd' /\ OneHolder'
    BY <1>1, <1>2, <1>3, <2>1 DEF Stages, NapsEnd, NapsAreCutShort, OneHolder, app
  <2> QED BY <1>2, <2>2, <2>3, PathUnmoved DEF LinkIInv
<1>4. CASE con.pc = "hand"
  <2>1. /\ con'.pc = "loop" /\ con'.fd = None /\ con' \in Connectors
        /\ want' = want /\ handoff' = con.fd
    BY <1>1, <1>4 DEF ConPublish, Steps, Types, Connectors
  <2>2. Types'
    BY <1>1, <1>2, <2>1 DEF Types, app
  <2>3. Stages' /\ NapsEnd' /\ OneHolder'
    BY <1>1, <1>2, <1>4, <2>1, Numbers DEF Stages, NapsEnd, NapsAreCutShort, OneHolder, app
  <2> QED BY <1>2, <2>2, <2>3, PathUnmoved DEF LinkIInv
<1> QED BY <1>1, <1>3, <1>4

\* The far end goes, or the network does.
LEMMA CutKeeps ==
  ASSUME LinkIInv, NEW l \in Links, Cut(l)
  PROVE LinkIInv'
<1>1. /\ Types /\ Stages /\ OneHolder /\ NapsEnd
      /\ socket[l] = "open" /\ socket' = [socket EXCEPT ![l] = "cut"]
      /\ UNCHANGED <<time, shared, con, path, link, clock, app, device, account>>
  BY DEF LinkIInv, Cut
<1>2. Types'
  BY <1>1 DEF Types, shared, app
<1>3. Stages' /\ OneHolder' /\ NapsEnd'
  BY <1>1 DEF Types, Stages, OneHolder, NapsEnd, NapsAreCutShort, shared, app
<1>4. \A k \in Links : k = link.fd /\ socket'[k] = "open" => socket[k] = "open"
  BY <1>1 DEF Types
<1> QED BY <1>1, <1>2, <1>3, <1>4, PathUnmoved DEF LinkIInv

----------------------------------------------------------------------------
(* The program.                                                            *)

\* What the program's calls leave to the connector stays true of it.
LEMMA ConUnmoved ==
  ASSUME LinkIInv, UNCHANGED <<shared, con, socket>>, link'.fd = link.fd,
         path.pc \notin {"wake", "closed"}, path'.pc \notin {"join", "closed"}
  PROVE OneHolder' /\ NapsEnd'
<1>1. OneHolder /\ NapsEnd
  BY DEF LinkIInv
<1>2. OneHolder'
  BY <1>1 DEF OneHolder, shared
<1>3. NapsEnd'
  BY <1>1 DEF NapsEnd, NapsAreCutShort, shared
<1> QED BY <1>2, <1>3

\* Time passes between calls.
LEMMA TickKeeps ==
  ASSUME LinkIInv, Tick
  PROVE LinkIInv'
<1>1. /\ Types /\ Stages /\ PointerFollows /\ StreamFollows
      /\ path.pc = "idle" /\ time' = time + 1 /\ time < MaxTime
      /\ UNCHANGED <<shared, con, socket, path, link, clock, app, device, account>>
  BY DEF LinkIInv, Tick
<1>2. time' \in 0 .. MaxTime /\ time \in Int /\ clock.last \in Int
  BY <1>1, Numbers, Fields DEF Types
<1>3. Types'
  BY <1>1, <1>2 DEF Types, shared, app
<1>4. Stages'
  BY <1>1 DEF Stages, shared, app
<1>5. OneHolder' /\ NapsEnd'
  BY <1>1, ConUnmoved
<1>6. PointerFollows'
  BY <1>1, <1>2 DEF PointerFollows, HwPtrIsTheClock, app
<1>7. StreamFollows'
  BY <1>1 DEF StreamFollows, LeadIsThisLinks, DeviceHearsItWhole, Expects, app
<1> QED BY <1>3, <1>4, <1>5, <1>6, <1>7 DEF LinkIInv

\* The program writes no more than the buffer has room for.
LEMMA WriteKeeps ==
  ASSUME LinkIInv, Write
  PROVE LinkIInv'
<1>1. /\ Types /\ Stages /\ PointerFollows /\ StreamFollows
      /\ path.pc = "idle" /\ pcm.state \in {"prepared", "running"}
      /\ UNCHANGED <<time, shared, con, socket, path, link, clock, enc, stream, device, account>>
  BY DEF LinkIInv, Write
<1>2. PICK k \in 1 .. Buffer - (pcm.appl - clock.hw) : pcm' = [pcm EXCEPT !.appl = @ + k]
  BY DEF Write
<1>3. /\ pcm'.state = pcm.state /\ pcm'.appl = pcm.appl + k /\ pcm' \in Pcms
      /\ pcm'.appl >= pcm.appl /\ pcm'.appl <= clock.hw + Buffer
  BY <1>1, <1>2, Fields, Numbers DEF Types, Pcms
<1>4. Types'
  BY <1>1, <1>3 DEF Types, shared
<1>5. Stages'
  BY <1>1, <1>3 DEF Stages, shared
<1>6. OneHolder' /\ NapsEnd'
  BY <1>1, ConUnmoved
<1>7. PointerFollows'
  BY <1>1, <1>3, Fields, Numbers DEF PointerFollows, HwPtrIsTheClock
<1>8. StreamFollows'
  BY <1>1 DEF StreamFollows, LeadIsThisLinks, DeviceHearsItWhole, Expects
<1> QED BY <1>4, <1>5, <1>6, <1>7, <1>8 DEF LinkIInv

\* A new stream: nothing has been played of it, and no link has heard of it.
LEMMA PrepareKeeps ==
  ASSUME LinkIInv, Prepare
  PROVE LinkIInv'
<1>1. /\ Types /\ Stages /\ StreamFollows
      /\ path.pc = "idle" /\ pcm.state \in {"setup", "xrun"} /\ stream < MaxStreams
      /\ stream' = stream + 1 /\ pcm' = [state |-> "prepared", appl |-> 0]
      /\ clock' = [hw |-> 0, last |-> time, frac |-> 0, started |-> FALSE, xrun |-> FALSE]
      /\ UNCHANGED <<time, shared, con, socket, enc, device, account>>
  BY DEF LinkIInv, Prepare
<1>2. /\ path'.pc = "service" /\ path'.after = path.after /\ path'.left = path.left
      /\ path' \in Paths
  BY <1>1 DEF Prepare, Calls, Types, Paths
<1>3. /\ link'.fd = link.fd /\ link'.lead = link.lead /\ link'.declared = FALSE
      /\ link' \in LinkVars
  BY <1>1 DEF Prepare, Types, LinkVars
<1>4. clock' \in Clocks /\ pcm' \in Pcms /\ stream' \in 0 .. MaxStreams /\ stream' > 0
  BY <1>1, Numbers DEF Types, Clocks, Pcms
<1>5. path.left = 0
  BY <1>1, Fields DEF Stages
<1>6. Types'
  BY <1>1, <1>2, <1>3, <1>4 DEF Types, shared
<1>7. Stages'
  BY <1>1, <1>2, <1>3, <1>5 DEF Stages, shared
<1>8. OneHolder' /\ NapsEnd'
  BY <1>1, <1>2, <1>3, ConUnmoved
<1>9. PointerFollows'
  BY <1>1, <1>2, <1>4, <1>5, Numbers DEF PointerFollows, HwPtrIsTheClock, Types
<1>10. StreamFollows'
  BY <1>1, <1>2, <1>3 DEF StreamFollows, LeadIsThisLinks, DeviceHearsItWhole
<1> QED BY <1>6, <1>7, <1>8, <1>9, <1>10 DEF LinkIInv

\* The clock counts from now, and nothing has been played.
LEMMA StartKeeps ==
  ASSUME LinkIInv, Start
  PROVE LinkIInv'
<1>1. /\ Types /\ Stages /\ PointerFollows /\ StreamFollows
      /\ path.pc = "idle" /\ pcm.state = "prepared"
      /\ account' = [from |-> time, lost |-> 0]
      /\ UNCHANGED <<time, shared, con, socket, path, link, enc, stream, device>>
  BY DEF LinkIInv, Start
<1>2. /\ clock'.hw = clock.hw /\ clock'.last = time /\ clock'.frac = 0 /\ clock'.started = TRUE
      /\ clock' \in Clocks
  <2>1. clock \in Clocks /\ time \in Nat /\ 0 \in 0 .. Den - 1
    BY <1>1, Numbers DEF Types
  <2> QED BY <2>1 DEF Start, Clocks
<1>3. pcm'.state = "running" /\ pcm'.appl = pcm.appl /\ pcm' \in Pcms
  BY <1>1 DEF Start, Types, Pcms
<1>4. account'.from = time /\ account'.lost = 0 /\ account' \in [from : Int, lost : Int]
      /\ time \in Nat
  BY <1>1, Numbers DEF Types
<1>5. path.left = 0 /\ clock.hw = 0 /\ stream > 0
  BY <1>1, Fields DEF Stages, PointerFollows
<1>6. Types'
  BY <1>1, <1>2, <1>3, <1>4 DEF Types, shared
<1>7. Stages'
  BY <1>1, <1>3 DEF Stages, shared
<1>8. OneHolder' /\ NapsEnd'
  BY <1>1, ConUnmoved
<1>9. HwPtrIsTheClock'
  BY <1>1, <1>2, <1>4, <1>5, Numbers DEF HwPtrIsTheClock
<1>10. PointerFollows'
  BY <1>1, <1>2, <1>3, <1>4, <1>5, <1>9 DEF PointerFollows
<1>11. StreamFollows'
  BY <1>1, <1>2 DEF StreamFollows, LeadIsThisLinks, DeviceHearsItWhole, Expects
<1> QED BY <1>6, <1>7, <1>8, <1>10, <1>11 DEF LinkIInv

\* No more is to be written.
LEMMA DrainKeeps ==
  ASSUME LinkIInv, Drain
  PROVE LinkIInv'
<1>1. /\ Types /\ Stages /\ PointerFollows /\ StreamFollows
      /\ path.pc = "idle" /\ pcm.state = "running"
      /\ UNCHANGED <<time, shared, con, socket, path, link, clock, enc, stream, device, account>>
  BY DEF LinkIInv, Drain
<1>2. pcm'.state = "draining" /\ pcm'.appl = pcm.appl /\ pcm' \in Pcms
  BY <1>1 DEF Drain, Types, Pcms
<1>3. Types' /\ Stages'
  BY <1>1, <1>2 DEF Types, Stages, shared
<1>4. OneHolder' /\ NapsEnd'
  BY <1>1, ConUnmoved
<1>5. PointerFollows' /\ StreamFollows'
  BY <1>1, <1>2
     DEF PointerFollows, HwPtrIsTheClock, StreamFollows, LeadIsThisLinks, DeviceHearsItWhole, Expects
<1> QED BY <1>3, <1>4, <1>5 DEF LinkIInv

\* The clock is stopped.
LEMMA StopKeeps ==
  ASSUME LinkIInv, Stop
  PROVE LinkIInv'
<1>1. /\ Types /\ Stages /\ PointerFollows /\ StreamFollows
      /\ path.pc = "idle" /\ pcm.state \in {"prepared", "running", "draining", "xrun"}
      /\ UNCHANGED <<time, shared, con, socket, path, link, enc, stream, device, account>>
  BY DEF LinkIInv, Stop
<1>2. pcm'.state = "setup" /\ pcm'.appl = pcm.appl /\ pcm' \in Pcms
  BY <1>1 DEF Stop, Types, Pcms
<1>3. /\ clock'.hw = clock.hw /\ clock'.last = clock.last /\ clock'.started = FALSE
      /\ clock' \in Clocks
  BY <1>1 DEF Stop, Types, Clocks
<1>4. path.left = 0
  BY <1>1, Fields DEF Stages
<1>5. Types'
  BY <1>1, <1>2, <1>3 DEF Types, shared
<1>6. Stages'
  BY <1>1, <1>2 DEF Stages, shared
<1>7. OneHolder' /\ NapsEnd'
  BY <1>1, ConUnmoved
<1>8. PointerFollows' /\ StreamFollows'
  BY <1>1, <1>2, <1>3, <1>4
     DEF PointerFollows, HwPtrIsTheClock, StreamFollows, LeadIsThisLinks, DeviceHearsItWhole, Expects
<1> QED BY <1>5, <1>6, <1>7, <1>8 DEF LinkIInv

\* A call begins.
LEMMA AskKeeps ==
  ASSUME LinkIInv, Ask
  PROVE LinkIInv'
<1>1. /\ Types /\ Stages /\ PointerFollows /\ StreamFollows
      /\ path.pc = "idle" /\ pcm.state # "closed"
      /\ UNCHANGED <<time, shared, con, socket, link, clock, app, device, account>>
  BY DEF LinkIInv, Ask
<1>2. /\ path'.pc = "service" /\ path'.after = path.after /\ path'.left = path.left
      /\ path' \in Paths
  BY <1>1 DEF Ask, Calls, Types, Paths
<1>3. path.left = 0
  BY <1>1, Fields DEF Stages
<1>4. Types'
  BY <1>1, <1>2 DEF Types, shared, app
<1>5. Stages'
  BY <1>1, <1>2, <1>3 DEF Stages, shared, app
<1>6. OneHolder' /\ NapsEnd'
  BY <1>1, <1>2, ConUnmoved
<1>7. PointerFollows' /\ StreamFollows'
  BY <1>1, <1>2
     DEF PointerFollows, HwPtrIsTheClock, StreamFollows, LeadIsThisLinks, DeviceHearsItWhole,
         Expects, app
<1> QED BY <1>4, <1>5, <1>6, <1>7 DEF LinkIInv

\* A call's end: st_pointer() may tell of an xrun, or stop what is drained.
LEMMA AnswerKeeps ==
  ASSUME LinkIInv, Answer
  PROVE LinkIInv'
<1>1. /\ Types /\ Stages /\ PointerFollows /\ StreamFollows
      /\ path.pc \in {"done", "chunk"} /\ (path.pc = "chunk" => path.left = 0)
      /\ UNCHANGED <<time, shared, con, socket, link, enc, stream, device, account>>
  BY DEF LinkIInv, Answer
<1>2. /\ path'.pc = "idle" /\ path'.after = path.after /\ path'.left = path.left
      /\ path' \in Paths
  BY <1>1 DEF Answer, Types, Paths
<1>3. path.left = 0 /\ pcm.state # "closed"
  BY <1>1, Fields DEF Stages
<1>4. /\ pcm'.appl = pcm.appl /\ pcm' \in Pcms /\ pcm'.state # "closed"
      /\ clock'.hw = clock.hw /\ clock'.last = clock.last /\ clock'.frac = clock.frac
      /\ (clock'.started => clock.started) /\ clock' \in Clocks
      /\ (clock'.started => pcm'.state \in {pcm.state, "xrun"})
      /\ (pcm'.state = "prepared" => pcm.state = "prepared")
  <2>1. CASE Tells
    <3>1. pcm \in Pcms /\ clock \in Clocks
      BY <1>1 DEF Types
    <3>2. PICK drained \in BOOLEAN :
            /\ pcm' = [pcm EXCEPT !.state = IF drained THEN "setup"
                                            ELSE IF clock.xrun THEN "xrun" ELSE @]
            /\ clock' = [clock EXCEPT !.started = @ /\ ~drained]
      BY <2>1, Zenon DEF Tells
    <3>3. /\ pcm'.appl = pcm.appl
          /\ pcm'.state = (IF drained THEN "setup" ELSE IF clock.xrun THEN "xrun" ELSE pcm.state)
          /\ pcm' \in Pcms
      BY <3>1, <3>2 DEF Pcms
    <3>4. /\ clock'.hw = clock.hw /\ clock'.last = clock.last /\ clock'.frac = clock.frac
          /\ clock'.started = (clock.started /\ ~drained) /\ clock' \in Clocks
      BY <3>1, <3>2 DEF Clocks
    <3> QED BY <1>3, <3>3, <3>4
  <2>2. CASE UNCHANGED <<pcm, clock>>
    BY <1>1, <1>3, <2>2 DEF Types
  <2> QED BY <2>1, <2>2 DEF Answer
<1>5. Types'
  BY <1>1, <1>2, <1>4 DEF Types, shared
<1>6. Stages'
  BY <1>1, <1>2, <1>3, <1>4 DEF Stages, shared
<1>7. OneHolder' /\ NapsEnd'
  BY <1>1, <1>2, ConUnmoved
<1>8. PointerFollows' /\ StreamFollows'
  BY <1>1, <1>2, <1>3, <1>4
     DEF PointerFollows, HwPtrIsTheClock, StreamFollows, LeadIsThisLinks, DeviceHearsItWhole, Expects
<1> QED BY <1>5, <1>6, <1>7, <1>8 DEF LinkIInv

\* The PCM is closed: nothing calls the plugin again.
LEMMA CloseKeeps ==
  ASSUME LinkIInv, Close
  PROVE LinkIInv'
<1>1. /\ Types /\ Stages /\ PointerFollows /\ StreamFollows /\ OneHolder /\ NapsEnd
      /\ path.pc = "idle" /\ pcm.state = "setup" /\ quit' = TRUE
      /\ UNCHANGED <<time, want, handoff, offer, wake, con, socket, link, clock, enc, stream,
                     device, account>>
  BY DEF LinkIInv, Close
<1>2. pcm'.state = "closed" /\ pcm'.appl = pcm.appl /\ pcm' \in Pcms
  BY <1>1 DEF Close, Types, Pcms
<1>3. /\ path'.pc = "stop" /\ path'.after = path.after /\ path'.left = path.left
      /\ path' \in Paths
  BY <1>1 DEF Close, At, Types, Paths
<1>4. path.left = 0
  BY <1>1, Fields DEF Stages
<1>5. Types'
  BY <1>1, <1>2, <1>3 DEF Types
<1>6. Stages'
  BY <1>1, <1>2, <1>3, <1>4 DEF Stages
<1>7. OneHolder' /\ NapsEnd'
  BY <1>1, <1>3 DEF OneHolder, NapsEnd, NapsAreCutShort
<1>8. PointerFollows' /\ StreamFollows'
  BY <1>1, <1>2, <1>3, <1>4
     DEF PointerFollows, HwPtrIsTheClock, StreamFollows, LeadIsThisLinks, DeviceHearsItWhole, Expects
<1> QED BY <1>5, <1>6, <1>7, <1>8 DEF LinkIInv

\* The connector is woken before it is waited for.
LEMMA CloseWakeKeeps ==
  ASSUME LinkIInv, CloseWake
  PROVE LinkIInv'
<1>1. /\ Types /\ Stages /\ PointerFollows /\ StreamFollows /\ OneHolder /\ NapsEnd
      /\ path.pc = "stop" /\ wake' = TRUE
      /\ UNCHANGED <<time, want, handoff, offer, quit, con, socket, link, clock, app, device, account>>
  BY DEF LinkIInv, CloseWake
<1>2. /\ path'.pc = "join" /\ path'.after = path.after /\ path'.left = path.left
      /\ path' \in Paths
  BY <1>1 DEF CloseWake, At, Types, Paths
<1>3. Types'
  BY <1>1, <1>2 DEF Types, app
<1>4. Stages'
  BY <1>1, <1>2 DEF Stages, app
<1>5. OneHolder' /\ NapsEnd'
  BY <1>1, <1>2 DEF OneHolder, NapsEnd, NapsAreCutShort
<1>6. PointerFollows' /\ StreamFollows'
  BY <1>1, <1>2
     DEF PointerFollows, HwPtrIsTheClock, StreamFollows, LeadIsThisLinks, DeviceHearsItWhole,
         Expects, app
<1> QED BY <1>3, <1>4, <1>5, <1>6 DEF LinkIInv

\* With the connector gone, whichever socket there is is closed.
LEMMA CloseJoinedKeeps ==
  ASSUME LinkIInv, CloseJoined
  PROVE LinkIInv'
<1>1. /\ Types /\ Stages /\ PointerFollows /\ StreamFollows /\ OneHolder /\ NapsEnd
      /\ path.pc = "join" /\ con.pc = "gone" /\ handoff' = None /\ link' = NoLink
      /\ socket' = [l \in Links |-> IF l \in {handoff, link.fd} THEN "closed" ELSE socket[l]]
      /\ UNCHANGED <<time, want, offer, wake, quit, con, clock, app, device, account>>
  BY DEF LinkIInv, CloseJoined
<1>2. /\ path'.pc = "closed" /\ path'.after = path.after /\ path'.left = path.left
      /\ path' \in Paths
  BY <1>1 DEF CloseJoined, At, Types, Paths
<1>3. link'.fd = None /\ link'.lead = None /\ link'.declared = FALSE /\ link' \in LinkVars
  BY <1>1, Numbers DEF NoLink, LinkVars
<1>4. con.fd = None /\ path.left = 0 /\ quit
  BY <1>1, Fields DEF OneHolder, Stages
<1>5. Types'
  BY <1>1, <1>2, <1>3 DEF Types, app
<1>6. Stages'
  BY <1>1, <1>2, <1>3, <1>4 DEF Stages, app
<1>7. OneHolder'
  BY <1>1, <1>2, <1>3, <1>4, Numbers DEF OneHolder, Types
<1>8. NapsEnd'
  BY <1>1 DEF NapsEnd, NapsAreCutShort
<1>9. PointerFollows'
  BY <1>1, <1>2, <1>4 DEF PointerFollows, HwPtrIsTheClock, app
<1>10. StreamFollows'
  BY <1>1, <1>2, <1>3, Numbers DEF StreamFollows, LeadIsThisLinks, DeviceHearsItWhole
<1> QED BY <1>5, <1>6, <1>7, <1>8, <1>9, <1>10 DEF LinkIInv

----------------------------------------------------------------------------
(* The link, on the audio path.                                            *)

\* Where At, Back and Drops put the path.
LEMMA PathMoves ==
  ASSUME Types, NEW pc \in {"idle", "service", "declare", "pump", "drop", "wake", "release",
                            "chunk", "done", "stop", "join", "closed"},
         NEW after \in {"idle", "done", "pump", "release", "chunk"}
  PROVE /\ At(pc) => /\ path'.pc = pc /\ path'.after = path.after /\ path'.left = path.left
                     /\ path' \in Paths
        /\ Drops(after) => /\ path'.pc = "drop" /\ path'.after = after /\ path'.left = path.left
                           /\ path' \in Paths
        /\ Back => /\ path'.pc = path.after /\ path'.after = "idle" /\ path'.left = path.left
                   /\ path' \in Paths
BY DEF At, Drops, Back, Types, Paths

\* What the connector has made is taken over.
LEMMA ServiceKeeps ==
  ASSUME LinkIInv, Service
  PROVE LinkIInv'
<1>1. /\ Types /\ Stages /\ PointerFollows /\ StreamFollows /\ OneHolder /\ NapsEnd
      /\ path.pc = "service" /\ handoff' = None
      /\ link' = (IF handoff # None THEN Adopted(handoff) ELSE link)
      /\ UNCHANGED <<time, want, offer, wake, quit, con, socket, clock, app, device, account>>
  BY DEF LinkIInv, Service
<1>2. /\ link'.fd = (IF handoff # None THEN handoff ELSE link.fd)
      /\ link'.lead \in {None, link'.fd} /\ link' \in LinkVars
      /\ (link'.fd # None /\ handoff # None => ~link'.declared)
      /\ (handoff = None => link' = link)
  <2>1. CASE handoff = None
    BY <1>1, <2>1 DEF Types, StreamFollows, LeadIsThisLinks
  <2>2. CASE handoff # None
    <3>1. /\ link' = Adopted(handoff) /\ handoff \in Links \cup {None} /\ link \in LinkVars
          /\ (IF offer = 0 THEN Assumed ELSE offer) \in Nat
      BY <1>1, <2>2, Numbers DEF Types
    <3>2. /\ link'.fd = handoff /\ link'.lead = None /\ link'.declared = FALSE
          /\ link' \in LinkVars
      BY <3>1 DEF Adopted, LinkVars
    <3> QED BY <2>2, <3>2
  <2> QED BY <2>1, <2>2
<1>3. PICK pc \in {"declare", "done", "pump"} :
        /\ At(pc)
        /\ pc = (IF link'.fd # None /\ ~link'.declared /\ stream > 0 THEN "declare" ELSE Served)
  BY DEF Service, Served
<1>4. path'.pc = pc /\ path'.after = path.after /\ path'.left = path.left /\ path' \in Paths
  BY <1>1, <1>3, PathMoves
<1>5. /\ (pc = "declare" => link'.fd # None)
      /\ (pc = "pump" /\ link'.fd # None /\ stream > 0 => link'.declared)
  BY <1>3, Zenon DEF Served
<1>6. path.left = 0
  BY <1>1, Fields DEF Stages
<1>7. Types'
  BY <1>1, <1>2, <1>4 DEF Types, app
<1>8. Stages'
  BY <1>1, <1>4, <1>5, <1>6 DEF Stages, app
<1>9. OneHolder'
  BY <1>1, <1>2, <1>4, Numbers DEF OneHolder, Types
<1>10. NapsEnd'
  BY <1>1, <1>4 DEF NapsEnd, NapsAreCutShort
<1>11. PointerFollows'
  BY <1>1, <1>4 DEF PointerFollows, HwPtrIsTheClock, app
<1>12. StreamFollows'
  BY <1>1, <1>2, <1>4, <1>5, Numbers
     DEF StreamFollows, LeadIsThisLinks, DeviceHearsItWhole, Expects, app
<1> QED BY <1>7, <1>8, <1>9, <1>10, <1>11, <1>12 DEF LinkIInv

\* What a message does to what the far end has been told.
LEMMA HeardIs ==
  ASSUME Types, link.fd # None, NEW d \in Told, Hears(d), d.whole
  PROVE /\ device' \in [Links -> Told]
        /\ DeviceHearsItWhole => DeviceHearsItWhole'
        /\ \A l \in Links : l = link.fd /\ socket[l] = "open" => device'[l] = d
<1>1. device \in [Links -> Told] /\ link.fd \in Links
  BY Fields DEF Types
<1> QED BY <1>1 DEF Hears, DeviceHearsItWhole

\* The stream is declared, from the frame that comes next; or the send fails.
LEMMA DeclareKeeps ==
  ASSUME LinkIInv, Declare
  PROVE LinkIInv'
<1>1. /\ Types /\ Stages /\ PointerFollows /\ StreamFollows
      /\ path.pc = "declare" /\ link.fd \in Links
      /\ UNCHANGED <<time, shared, con, socket, clock, app, account>>
  BY Fields DEF LinkIInv, Declare, Stages
<1>2. Served \in {"done", "pump"} /\ path.left = 0
  BY <1>1, Fields DEF Served, Stages
<1>3. CASE /\ Hears(Format) /\ At(Served)
           /\ link' = [link EXCEPT !.declared = TRUE, !.pos = 0, !.frames = 0]
  <2>1. /\ Format \in Told /\ Format.whole /\ Format.stream = stream /\ Format.next = -1
        /\ Format.frame = clock.hw
    BY <1>1, Fields DEF Format, Told, Types, StreamFollows, DeviceHearsItWhole
  <2>2. /\ device' \in [Links -> Told] /\ DeviceHearsItWhole'
        /\ \A l \in Links : l = link.fd /\ socket[l] = "open" => device'[l] = Format
    BY <1>1, <1>3, <2>1, Numbers, HeardIs DEF StreamFollows
  <2>3. /\ link'.fd = link.fd /\ link'.lead = link.lead /\ link'.declared = TRUE
        /\ link'.sent = link.sent /\ link'.pos = 0 /\ link'.frames = 0 /\ link' \in LinkVars
    BY <1>1, <1>3 DEF Types, LinkVars
  <2>4. path'.pc = Served /\ path'.left = path.left /\ path' \in Paths
    BY <1>1, <1>2, <1>3, PathMoves
  <2>5. Types'
    BY <1>1, <2>2, <2>3, <2>4 DEF Types, shared, app
  <2>6. Stages'
    BY <1>1, <1>2, <2>3, <2>4 DEF Stages, shared, app
  <2>7. OneHolder' /\ NapsEnd'
    BY <1>1, <1>2, <2>3, <2>4, ConUnmoved
  <2>8. PointerFollows'
    BY <1>1, <2>4 DEF PointerFollows, HwPtrIsTheClock, app
  <2>9. LeadIsThisLinks'
    BY <1>1, <2>3 DEF StreamFollows, LeadIsThisLinks
  <2>10. \A l \in Links : l = link'.fd /\ socket'[l] = "open" => Expects(device[l])'
    BY <1>1, <2>1, <2>2, <2>3, Fields DEF Expects, app
  <2>11. StreamFollows'
    BY <2>2, <2>3, <2>9, <2>10 DEF StreamFollows
  <2> QED BY <2>5, <2>6, <2>7, <2>8, <2>11 DEF LinkIInv
<1>4. CASE Drops(Served) /\ UNCHANGED <<link, device>>
  <2>1. path'.pc = "drop" /\ path'.left = path.left /\ path' \in Paths
    BY <1>1, <1>2, <1>4, PathMoves
  <2>2. Types'
    BY <1>1, <1>4, <2>1 DEF Types, shared, app
  <2>3. Stages'
    BY <1>1, <1>2, <1>4, <2>1, Numbers DEF Stages, shared, app
  <2>4. OneHolder' /\ NapsEnd'
    BY <1>1, <1>4, <2>1, ConUnmoved
  <2>5. PointerFollows' /\ StreamFollows'
    BY <1>1, <1>4, <2>1
       DEF PointerFollows, HwPtrIsTheClock, StreamFollows, LeadIsThisLinks, DeviceHearsItWhole, app
  <2> QED BY <2>2, <2>3, <2>4, <2>5 DEF LinkIInv
<1> QED BY <1>3, <1>4 DEF Declare

\* The device's answers are read; a link that is gone is dropped.
LEMMA PumpKeeps ==
  ASSUME LinkIInv, Pump
  PROVE LinkIInv'
<1>1. /\ Types /\ Stages /\ PointerFollows /\ StreamFollows
      /\ path.pc = "pump"
      /\ UNCHANGED <<time, shared, con, socket, clock, app, device, account>>
  BY DEF LinkIInv, Pump
<1>2. path.left = 0
  BY <1>1, Fields DEF Stages
<1>3. CASE At("release") /\ (UNCHANGED link \/ link' = [link EXCEPT !.lead = link.fd])
  <2>1. path'.pc = "release" /\ path'.left = path.left /\ path' \in Paths
    BY <1>1, <1>3, PathMoves
  <2>2. /\ link'.fd = link.fd /\ link'.lead \in {None, link.fd} /\ link'.declared = link.declared
        /\ link'.sent = link.sent /\ link'.pos = link.pos /\ link'.frames = link.frames
        /\ link' \in LinkVars
    BY <1>1, <1>3, Fields DEF Types, LinkVars, StreamFollows, LeadIsThisLinks
  <2>3. Types'
    BY <1>1, <2>1, <2>2 DEF Types, shared, app
  <2>4. Stages'
    BY <1>1, <1>2, <2>1, <2>2 DEF Stages, shared, app
  <2>5. OneHolder' /\ NapsEnd'
    BY <1>1, <2>1, <2>2, ConUnmoved
  <2>6. PointerFollows'
    BY <1>1, <2>1 DEF PointerFollows, HwPtrIsTheClock, app
  <2>7. StreamFollows'
    BY <1>1, <2>1, <2>2 DEF StreamFollows, LeadIsThisLinks, DeviceHearsItWhole, Expects, app
  <2> QED BY <2>3, <2>4, <2>5, <2>6, <2>7 DEF LinkIInv
<1>4. CASE link.fd # None /\ Drops("release") /\ UNCHANGED link
  <2>1. path'.pc = "drop" /\ path'.left = path.left /\ path' \in Paths
    BY <1>1, <1>4, PathMoves
  <2>2. Types'
    BY <1>1, <1>4, <2>1 DEF Types, shared, app
  <2>3. Stages'
    BY <1>1, <1>2, <1>4, <2>1 DEF Stages, shared, app
  <2>4. OneHolder' /\ NapsEnd'
    BY <1>1, <1>4, <2>1, ConUnmoved
  <2>5. PointerFollows' /\ StreamFollows'
    BY <1>1, <1>4, <2>1
       DEF PointerFollows, HwPtrIsTheClock, StreamFollows, LeadIsThisLinks, DeviceHearsItWhole, app
  <2> QED BY <2>2, <2>3, <2>4, <2>5 DEF LinkIInv
<1> QED BY <1>3, <1>4 DEF Pump

\* The link is closed and asked for, and only then is the connector woken.
LEMMA LinkDropKeeps ==
  ASSUME LinkIInv, LinkDrop
  PROVE LinkIInv'
<1>1. /\ Types /\ Stages /\ PointerFollows /\ StreamFollows /\ OneHolder /\ NapsEnd
      /\ UNCHANGED <<time, handoff, offer, quit, con, clock, app, account>>
  BY DEF LinkIInv, LinkDrop
<1>2. CASE /\ path.pc = "drop" /\ At("wake") /\ Closes /\ want' = TRUE /\ UNCHANGED wake
           /\ link' = [link EXCEPT !.fd = None, !.declared = FALSE, !.lead = None]
  <2>1. /\ path'.pc = "wake" /\ path'.after = path.after /\ path'.left = path.left
        /\ path' \in Paths /\ link.fd \in Links
    BY <1>1, <1>2, PathMoves, Fields DEF Stages
  <2>2. link'.fd = None /\ link'.declared = FALSE /\ link'.lead = None /\ link' \in LinkVars
    BY <1>1, <1>2 DEF Types, LinkVars
  <2>3. /\ [NotTold EXCEPT !.whole = device[link.fd].whole] \in Told
        /\ [NotTold EXCEPT !.whole = device[link.fd].whole].whole
    BY <1>1, <2>1, Numbers DEF NotTold, Told, Types, StreamFollows, DeviceHearsItWhole
  <2>4. /\ socket' = [socket EXCEPT ![link.fd] = "closed"]
        /\ device' \in [Links -> Told] /\ DeviceHearsItWhole'
    BY <1>1, <1>2, <2>1, <2>3 DEF Closes, Types, StreamFollows, DeviceHearsItWhole
  <2>5. Types'
    BY <1>1, <1>2, <2>1, <2>2, <2>4 DEF Types, app
  <2>6. Stages'
    BY <1>1, <1>2, <2>1, <2>2 DEF Stages, app
  <2>7. handoff = None /\ con.pc \notin {"connect", "made", "unwant", "hand"} /\ con.fd = None
    BY <1>1, <2>1, Numbers, Fields DEF OneHolder
  <2>8. OneHolder'
    BY <1>1, <1>2, <2>1, <2>2, <2>4, <2>7, Numbers DEF OneHolder, Types
  <2>9. NapsEnd'
    BY <1>1, <1>2, <2>1 DEF NapsEnd, NapsAreCutShort
  <2>10. PointerFollows'
    BY <1>1, <2>1 DEF PointerFollows, HwPtrIsTheClock, app
  <2>11. StreamFollows'
    BY <2>2, <2>4, Numbers DEF StreamFollows, LeadIsThisLinks
  <2> QED BY <2>5, <2>6, <2>8, <2>9, <2>10, <2>11 DEF LinkIInv
<1>3. CASE path.pc = "wake" /\ Back /\ wake' = TRUE /\ UNCHANGED <<socket, device, want, link>>
  <2>1. path'.pc = path.after /\ path'.left = path.left /\ path' \in Paths /\ link.fd = None
    BY <1>1, <1>3, PathMoves DEF Stages
  <2>2. path.after \in {"idle", "done", "pump", "release", "chunk"}
    BY <1>1, Fields
  <2>3. Types'
    BY <1>1, <1>3, <2>1 DEF Types, app
  <2>4. Stages'
    BY <1>1, <1>3, <2>1, <2>2 DEF Stages, app
  <2>5. OneHolder' /\ NapsEnd'
    BY <1>1, <1>3, <2>1, <2>2 DEF OneHolder, NapsEnd, NapsAreCutShort
  <2>6. PointerFollows'
    BY <1>1, <2>1 DEF PointerFollows, HwPtrIsTheClock, app
  <2>7. StreamFollows'
    BY <1>1, <1>3, <2>1, Numbers DEF StreamFollows, LeadIsThisLinks, DeviceHearsItWhole
  <2> QED BY <2>3, <2>4, <2>5, <2>6, <2>7 DEF LinkIInv
<1> QED BY <1>2, <1>3 DEF LinkDrop

----------------------------------------------------------------------------
(* advance().                                                              *)

\* What division leaves of a number.
LEMMA Whole ==
  ASSUME NEW n \in Nat, NEW d \in Nat \ {0}
  PROVE n \div d \in Nat /\ n - d * (n \div d) \in 0 .. d - 1
<1>1. n \div d \in Nat /\ n % d \in 0 .. d - 1
  BY SMT
<1>2. n = d * (n \div d) + (n % d)
  BY SMT
<1>3. d * (n \div d) \in Int
  BY <1>1
<1> QED BY <1>1, <1>2, <1>3

\* Frames that are due are released, lost, or carried over, and none other.
LEMMA Sum ==
  ASSUME NEW num \in Nat, NEW den \in Nat, NEW hw \in Int, NEW lost \in Int, NEW frac \in Int,
         NEW last \in Int, NEW from \in Int, NEW now \in Int, NEW bill \in Int, NEW q \in Int,
         NEW out \in Int,
         den * (hw + lost) + frac = num * (last - from)
  PROVE den * (hw + out + (lost + q - out)) + (bill * num + frac - den * q)
          = num * (now - (from + (now - last - bill)))
<1>1. hw + out + (lost + q - out) = (hw + lost) + q
  OBVIOUS
<1>2. now - (from + (now - last - bill)) = (last - from) + bill
  OBVIOUS
<1>3. num * ((last - from) + bill) = num * (last - from) + bill * num
  OBVIOUS
<1>4. den * ((hw + lost) + q) = den * (hw + lost) + den * q
  OBVIOUS
<1>5. num * (last - from) \in Int /\ bill * num \in Int /\ den * (hw + lost) \in Int /\ den * q \in Int
  OBVIOUS
<1> QED BY <1>1, <1>2, <1>3, <1>4, <1>5

\* A call owes no more than the time that has passed, and no less than nothing.
LEMMA OwedIs ==
  ASSUME LinkIInv
  PROVE /\ Billed \in Nat /\ Billed <= CatchUp /\ Due \in Nat /\ Due \div Den \in Nat
        /\ Due - Den * (Due \div Den) \in 0 .. Den - 1
        /\ Owed \in Nat /\ Owed <= Due \div Den /\ Queued \in Int
        /\ Released \in Int /\ Released <= Owed /\ Released <= Queued
        /\ (path.left = 0 => Queued \in Nat /\ Released \in Nat)
<1>1. /\ time \in Nat /\ clock.last \in Nat /\ clock.last <= time /\ clock.frac \in 0 .. Den - 1
      /\ link.max \in Nat /\ pcm.appl \in Nat /\ clock.hw \in Nat /\ path.left \in Nat
      /\ clock.hw + path.left <= pcm.appl
  BY Fields, Numbers DEF LinkIInv, Types, PointerFollows
<1>2. Billed \in Nat /\ Billed <= CatchUp
  BY <1>1, Numbers DEF Billed, Least
<1>3. Billed * Num \in Nat
  BY <1>2, Numbers
<1>4. Due \in Nat
  BY <1>1, <1>3, Numbers DEF Due
<1>5. Due \div Den \in Nat /\ Due - Den * (Due \div Den) \in 0 .. Den - 1
  BY <1>4, Numbers, Whole
<1>6. Owed \in Nat /\ Owed <= Due \div Den
  BY <1>1, <1>5 DEF Owed, Least
<1>7. Queued \in Int /\ (path.left = 0 => Queued \in Nat)
  BY <1>1 DEF Queued
<1>8. /\ Released \in Int /\ Released <= Owed /\ Released <= Queued
      /\ (path.left = 0 => Released \in Nat)
  BY <1>6, <1>7 DEF Released, Least
<1> QED BY <1>2, <1>4, <1>5, <1>6, <1>7, <1>8

\* The clock is looked at: what is released is the program's, and the sum stays.
LEMMA ReleaseKeeps ==
  ASSUME LinkIInv, Release
  PROVE LinkIInv'
<1>1. /\ Types /\ Stages /\ PointerFollows /\ StreamFollows
      /\ path.pc = "release" /\ clock.started
      /\ UNCHANGED <<time, shared, con, socket, link, app, device>>
  BY DEF LinkIInv, Release
<1>2. path.left = 0
  BY <1>1, Fields DEF Stages
<1> DEFINE q == Due \div Den
           rest == Due - Den * (Due \div Den)
           lets == time - clock.last - Billed
<1>3. q \in Nat /\ rest \in 0 .. Den - 1 /\ Released \in Nat /\ Released <= Queued /\ lets \in Int
  BY <1>1, <1>2, OwedIs, Fields DEF Types
<1>4. /\ account' = [account EXCEPT !.from = @ + lets, !.lost = @ + q - Released]
      /\ path' = [path EXCEPT !.pc = "chunk", !.left = Released]
      /\ clock' = [clock EXCEPT !.last = time, !.frac = rest,
                                !.xrun = @ \/ (Queued < Owed /\ pcm.state = "running")]
  BY DEF Release
<1>5. rest = Due - Den * q /\ Due = Billed * Num + clock.frac
  BY Zenon DEF Due
<1> HIDE DEF q, rest, lets
<1>6. /\ account'.from = account.from + lets /\ account'.lost = account.lost + q - Released
      /\ account' \in [from : Int, lost : Int]
  <2>1. /\ account \in [from : Int, lost : Int]
        /\ account.from + lets \in Int /\ account.lost + q - Released \in Int
    BY <1>1, <1>3, Fields DEF Types
  <2> QED BY <1>4, <2>1
<1>7. /\ path'.pc = "chunk" /\ path'.after = path.after /\ path'.left = Released
      /\ path' \in Paths
  BY <1>1, <1>3, <1>4 DEF Types, Paths
<1>8. /\ clock'.hw = clock.hw /\ clock'.last = time /\ clock'.frac = rest
      /\ clock'.started = clock.started /\ clock' \in Clocks
  <2>1. clock \in Clocks /\ time \in Nat /\ (clock.xrun \/ (Queued < Owed /\ pcm.state = "running")) \in BOOLEAN
    BY <1>1, Numbers DEF Types
  <2> QED BY <1>3, <1>4, <2>1 DEF Clocks
<1>9. Types'
  BY <1>1, <1>6, <1>7, <1>8 DEF Types, shared, app
<1>10. Stages'
  BY <1>1, <1>7 DEF Stages, shared, app
<1>11. OneHolder' /\ NapsEnd'
  BY <1>1, <1>7, ConUnmoved
<1>12. HwPtrIsTheClock'
  <2>1. Den * (clock.hw + account.lost) + clock.frac = Num * (clock.last - account.from)
    BY <1>1, <1>2, Fields DEF PointerFollows, HwPtrIsTheClock
  <2>2. Billed \in Int /\ time \in Int /\ lets = time - clock.last - Billed
    BY <1>1, OwedIs DEF lets, Types
  <2>3. Den * (clock.hw + Released + (account.lost + q - Released)) + (Billed * Num + clock.frac - Den * q)
          = Num * (time - (account.from + (time - clock.last - Billed)))
    <3>1. /\ clock.hw \in Int /\ account.lost \in Int /\ clock.frac \in Int /\ clock.last \in Int
          /\ account.from \in Int /\ Num \in Nat /\ Den \in Nat
      BY <1>1, Fields, Numbers
    <3>2. PICK out \in Int, gone \in Int, bill \in Int, now \in Int :
            out = Released /\ gone = q /\ bill = Billed /\ now = time
      BY <1>3, <2>2
    <3>3. PICK hw \in Int, lost \in Int, frac \in Int, last \in Int, from \in Int :
            /\ hw = clock.hw /\ lost = account.lost /\ frac = clock.frac
            /\ last = clock.last /\ from = account.from
      BY <3>1
    <3>4. Den * (hw + lost) + frac = Num * (last - from)
      BY <2>1, <3>3
    <3>5. Den * (hw + out + (lost + gone - out)) + (bill * Num + frac - Den * gone)
            = Num * (now - (from + (now - last - bill)))
      BY <3>1, <3>4, Sum
    <3> QED BY <3>2, <3>3, <3>5, Zenon
  <2>4. rest = Billed * Num + clock.frac - Den * q
    <3>1. \A x, y, z \in Int : (x + y) - z = x + (y - z)
      OBVIOUS
    <3>2. Billed * Num \in Int /\ clock.frac \in Int /\ Den * q \in Int
      BY <2>2, <1>1, <1>3, Fields, Numbers
    <3> QED BY <3>1, <3>2, <1>5, Zenon
  <2>5. Den * (clock'.hw + path'.left + account'.lost) + clock'.frac
          = Num * (clock'.last - account'.from)
    BY <2>2, <2>3, <2>4, <1>6, <1>7, <1>8, Zenon
  <2> QED BY <2>5 DEF HwPtrIsTheClock
<1>13. PointerFollows'
  <2>1. clock.hw + Released <= pcm.appl /\ time <= time
    BY <1>1, <1>3, Fields DEF Queued, Types
  <2> QED BY <1>1, <1>7, <1>8, <1>12, <2>1 DEF PointerFollows, app
<1>14. StreamFollows'
  BY <1>1, <1>7, <1>8 DEF StreamFollows, LeadIsThisLinks, DeviceHearsItWhole, Expects, app
<1> QED BY <1>9, <1>10, <1>11, <1>13, <1>14 DEF LinkIInv

\* A clock that is not started only has its time taken.
LEMMA ReleaseNothingKeeps ==
  ASSUME LinkIInv, ReleaseNothing
  PROVE LinkIInv'
<1>1. /\ Types /\ Stages /\ PointerFollows /\ StreamFollows
      /\ path.pc = "release" /\ ~clock.started /\ clock' = [clock EXCEPT !.last = time]
      /\ UNCHANGED <<time, shared, con, socket, link, app, device, account>>
  BY DEF LinkIInv, ReleaseNothing
<1>2. path'.pc = "done" /\ path'.left = path.left /\ path' \in Paths
  BY <1>1, PathMoves DEF ReleaseNothing
<1>3. /\ clock'.hw = clock.hw /\ clock'.last = time /\ clock'.started = clock.started
      /\ clock' \in Clocks
  <2>1. clock \in Clocks /\ time \in Nat
    BY <1>1, Numbers DEF Types
  <2> QED BY <1>1, <2>1 DEF Clocks
<1>4. path.left = 0 /\ time <= time
  BY <1>1, Fields DEF Stages, Types
<1>5. Types'
  BY <1>1, <1>2, <1>3 DEF Types, shared, app
<1>6. Stages'
  BY <1>1, <1>2, <1>4 DEF Stages, shared, app
<1>7. OneHolder' /\ NapsEnd'
  BY <1>1, <1>2, ConUnmoved
<1>8. PointerFollows'
  BY <1>1, <1>2, <1>3, <1>4 DEF PointerFollows, HwPtrIsTheClock, app
<1>9. StreamFollows'
  BY <1>1, <1>2, <1>3 DEF StreamFollows, LeadIsThisLinks, DeviceHearsItWhole, Expects, app
<1> QED BY <1>5, <1>6, <1>7, <1>8, <1>9 DEF LinkIInv

\* A chunk is some of what is left.
LEMMA ChunkIs ==
  ASSUME Types, path.left > 0
  PROVE Chunk \in Nat /\ Chunk <= path.left
<1>1. clock.hw \in Nat /\ path.left \in Nat
  BY Fields
<1>2. clock.hw % Buffer \in 0 .. Buffer - 1
  BY <1>1, Numbers
<1>3. Buffer - (clock.hw % Buffer) \in Nat
  BY <1>2, Numbers
<1> QED BY <1>1, <1>3, Numbers DEF Chunk, Least

\* hw_ptr goes on by what is played, to whomever it is played.
LEMMA MovesOn ==
  ASSUME LinkIInv, NEW after \in {"on", "drop"}, path.pc = "chunk", path.left > 0, Moves(after),
         UNCHANGED <<time, shared, con, socket, app, account>>,
         link' \in LinkVars, link'.fd = link.fd, device' \in [Links -> Told],
         after = "drop" => link.fd # None
  PROVE /\ Types' /\ Stages' /\ OneHolder' /\ NapsEnd' /\ PointerFollows'
        /\ clock'.hw = clock.hw + Chunk /\ path'.pc = (IF after = "drop" THEN "drop" ELSE "chunk")
<1>1. Types /\ Stages /\ PointerFollows
  BY DEF LinkIInv
<1>2. Chunk \in Nat /\ Chunk <= path.left
  BY <1>1, ChunkIs
<1>3. /\ path'.pc = (IF after = "drop" THEN "drop" ELSE "chunk")
      /\ path'.after = (IF after = "drop" THEN "chunk" ELSE path.after)
      /\ path'.left = path.left - Chunk /\ path' \in Paths
  <2>1. path \in Paths /\ path.left - Chunk \in Nat
    BY <1>1, <1>2, Fields DEF Types
  <2> QED BY <2>1 DEF Moves, Paths
<1>4. /\ clock'.hw = clock.hw + Chunk /\ clock'.last = clock.last /\ clock'.frac = clock.frac
      /\ clock'.started = clock.started /\ clock' \in Clocks
  <2>1. clock \in Clocks /\ clock.hw + Chunk \in Nat
    BY <1>1, <1>2, Fields DEF Types
  <2> QED BY <2>1 DEF Moves, Clocks
<1>5. Types'
  BY <1>1, <1>3, <1>4 DEF Types, shared, app
<1>6. Stages'
  BY <1>1, <1>3 DEF Stages, shared, app
<1>7. OneHolder' /\ NapsEnd'
  BY <1>1, <1>3, ConUnmoved
<1>8. HwPtrIsTheClock'
  <2>1. clock'.hw + path'.left + account'.lost = clock.hw + path.left + account.lost
    BY <1>1, <1>2, <1>3, <1>4, Fields
  <2> QED BY <1>1, <1>4, <2>1 DEF PointerFollows, HwPtrIsTheClock
<1>9. PointerFollows'
  <2>1. /\ clock'.hw + path'.left = clock.hw + path.left /\ clock.hw <= clock'.hw
        /\ clock.started
    BY <1>1, <1>2, <1>3, <1>4, Fields DEF PointerFollows
  <2>2. pcm.appl <= clock'.hw + Buffer
    BY <1>1, <1>2, <1>4, Fields, Numbers DEF PointerFollows
  <2>3. pcm.state # "prepared"
    BY <1>1, <2>1 DEF PointerFollows
  <2> QED BY <1>1, <1>3, <1>4, <1>8, <2>1, <2>2, <2>3 DEF PointerFollows, app
<1> QED BY <1>3, <1>4, <1>5, <1>6, <1>7, <1>9

\* Frames nobody hears.
LEMMA PlayOnKeeps ==
  ASSUME LinkIInv, PlayOn
  PROVE LinkIInv'
<1>1. /\ Types /\ StreamFollows /\ path.pc = "chunk" /\ path.left > 0 /\ link.fd = None
      /\ Moves("on") /\ UNCHANGED <<time, shared, con, socket, app, account, link, device>>
  BY Fields DEF LinkIInv, PlayOn, Going
<1>2. /\ Types' /\ Stages' /\ OneHolder' /\ NapsEnd' /\ PointerFollows'
  <2>1. link' \in LinkVars /\ device' \in [Links -> Told]
    BY <1>1 DEF Types
  <2> QED BY <1>1, <2>1, MovesOn
<1>3. StreamFollows'
  BY <1>1, Numbers DEF StreamFollows, LeadIsThisLinks, DeviceHearsItWhole
<1> QED BY <1>2, <1>3 DEF LinkIInv

\* A message that goes on where the far end is leaves it whole.
LEMMA SentIs ==
  ASSUME LinkIInv, NEW pos \in Nat, NEW frames \in Nat, Sends(pos, frames),
         path.pc = "chunk", path.left > 0, link.fd # None,
         \A l \in Links : l = link.fd /\ socket[l] = "open"
           => /\ device[l].stream = stream /\ device[l].next \in {-1, pos}
              /\ device[l].frame = clock.hw + Chunk - frames
  PROVE /\ device' \in [Links -> Told] /\ DeviceHearsItWhole'
        /\ \A l \in Links : l = link.fd /\ socket[l] = "open"
             => /\ device'[l].stream = stream /\ device'[l].next = pos + frames
                /\ device'[l].frame = clock.hw + Chunk
<1>1. /\ Types /\ DeviceHearsItWhole /\ link.fd \in Links /\ Chunk \in Nat /\ clock.hw \in Nat
      /\ device \in [Links -> Told]
  BY ChunkIs, Fields DEF LinkIInv, StreamFollows, Types
<1> DEFINE d == device[link.fd]
           first == clock.hw + Chunk - frames
           said == [stream |-> d.stream, next |-> pos + frames, frame |-> first + frames,
                    whole |-> d.whole /\ d.stream = stream /\ d.frame = first
                                /\ d.next \in {-1, pos}]
<1>2. device' = IF socket[link.fd] = "open" THEN [device EXCEPT ![link.fd] = said] ELSE device
  BY DEF Sends, Hears
<1>3. d \in Told /\ d.whole
  BY <1>1 DEF DeviceHearsItWhole
<1>4. first \in Int /\ first + frames = clock.hw + Chunk
  BY <1>1
<1>5. CASE socket[link.fd] = "open"
  <2>1. d.stream = stream /\ d.next \in {-1, pos} /\ d.frame = first
    BY <1>1, <1>5
  <2>2. said \in Told /\ said.whole /\ said.stream = stream /\ said.next = pos + frames
        /\ said.frame = clock.hw + Chunk
    <3> HIDE DEF d, first
    <3>1. d.stream \in 0 .. MaxStreams /\ pos + frames \in Int /\ first + frames \in Int
      BY <1>3, <1>4 DEF Told
    <3> QED BY <1>3, <1>4, <2>1, <3>1 DEF Told
  <2> HIDE DEF said
  <2>3. device' = [device EXCEPT ![link.fd] = said]
    BY <1>2, <1>5
  <2> QED BY <1>1, <2>2, <2>3 DEF DeviceHearsItWhole
<1>6. CASE socket[link.fd] # "open"
  BY <1>1, <1>2, <1>6 DEF DeviceHearsItWhole
<1> QED BY <1>5, <1>6

\* What the far end takes the next message for, where frames are sent.
LEMMA Expected ==
  ASSUME LinkIInv, path.pc = "chunk", path.left > 0, link.fd # None
  PROVE link.declared /\ \A l \in Links : l = link.fd /\ socket[l] = "open" => Expects(device[l])
<1>1. clock.started /\ stream > 0
  BY DEF LinkIInv, PointerFollows
<1>2. link.declared
  BY <1>1 DEF LinkIInv, StreamFollows
<1> QED BY <1>2 DEF LinkIInv, StreamFollows

\* PCM: a chunk is a message, at the frames sent so far.
LEMMA SendPcmKeeps ==
  ASSUME LinkIInv, SendPcm
  PROVE LinkIInv'
<1>1. /\ Types /\ StreamFollows /\ path.pc = "chunk" /\ path.left > 0 /\ link.fd # None
      /\ enc = "pcm" /\ link' = [link EXCEPT !.sent = @ + Chunk]
      /\ UNCHANGED <<time, shared, con, socket, app, account>>
  BY Fields DEF LinkIInv, SendPcm, Going
<1>2. Chunk \in Nat /\ clock.hw \in Nat /\ link.sent \in Nat /\ device \in [Links -> Told]
  BY <1>1, ChunkIs, Fields DEF Types
<1>3. /\ link'.fd = link.fd /\ link'.lead = link.lead /\ link'.declared = link.declared
      /\ link'.sent = link.sent + Chunk /\ link' \in LinkVars
  <2>1. link \in LinkVars /\ link.sent + Chunk \in Nat
    BY <1>1, <1>2 DEF Types
  <2> QED BY <1>1, <2>1 DEF LinkVars
<1>4. link.declared /\ \A l \in Links : l = link.fd /\ socket[l] = "open" => Expects(device[l])
  BY <1>1, Expected
<1>5. CASE Sends(link.sent, Chunk) /\ Moves("on")
  <2>1. \A l \in Links : l = link.fd /\ socket[l] = "open"
           => /\ device[l].stream = stream /\ device[l].next \in {-1, link.sent}
              /\ device[l].frame = clock.hw + Chunk - Chunk
    <3>1. clock.hw + Chunk - Chunk = clock.hw
      BY <1>2
    <3> QED BY <1>1, <1>4, <3>1 DEF Expects
  <2>2. /\ device' \in [Links -> Told] /\ DeviceHearsItWhole'
        /\ \A l \in Links : l = link.fd /\ socket[l] = "open"
             => /\ device'[l].stream = stream /\ device'[l].next = link.sent + Chunk
                /\ device'[l].frame = clock.hw + Chunk
    BY <1>1, <1>2, <1>5, <2>1, SentIs
  <2>3. /\ Types' /\ Stages' /\ OneHolder' /\ NapsEnd' /\ PointerFollows'
        /\ clock'.hw = clock.hw + Chunk /\ path'.pc = "chunk"
    BY <1>1, <1>3, <1>5, <2>2, MovesOn
  <2>4. StreamFollows'
    BY <1>1, <1>3, <1>4, <2>2, <2>3 DEF StreamFollows, LeadIsThisLinks, Expects, app
  <2> QED BY <2>3, <2>4 DEF LinkIInv
<1>6. CASE Moves("drop") /\ UNCHANGED device
  <2>1. /\ Types' /\ Stages' /\ OneHolder' /\ NapsEnd' /\ PointerFollows' /\ path'.pc = "drop"
    BY <1>1, <1>2, <1>3, <1>6, MovesOn
  <2>2. StreamFollows'
    BY <1>1, <1>3, <1>6, <2>1 DEF StreamFollows, LeadIsThisLinks, DeviceHearsItWhole
  <2> QED BY <2>1, <2>2 DEF LinkIInv
<1> QED BY <1>5, <1>6 DEF SendPcm

\* Vorbis: a message is all the frames since the last, at the ones that went before.
LEMMA SendVorbisKeeps ==
  ASSUME LinkIInv, SendVorbis
  PROVE LinkIInv'
<1> DEFINE frames == link.frames + Chunk
           more == [link EXCEPT !.sent = @ + Chunk, !.frames = frames]
<1>1. /\ Types /\ StreamFollows /\ path.pc = "chunk" /\ path.left > 0 /\ link.fd # None
      /\ enc = "vorbis"
      /\ UNCHANGED <<time, shared, con, socket, app, account>>
  BY Fields DEF LinkIInv, SendVorbis, Going
<1>2. /\ Chunk \in Nat /\ clock.hw \in Nat /\ link.sent \in Nat /\ link.pos \in Nat
      /\ link.frames \in Nat /\ frames \in Nat /\ device \in [Links -> Told] /\ link \in LinkVars
      /\ link.sent + Chunk \in Nat /\ link.pos + frames \in Nat
  BY <1>1, ChunkIs, Fields DEF Types
<1>3. /\ more.fd = link.fd /\ more.lead = link.lead /\ more.declared = link.declared
      /\ more.pos = link.pos /\ more.frames = frames /\ more \in LinkVars
  BY <1>2 DEF LinkVars
<1>4. link.declared /\ \A l \in Links : l = link.fd /\ socket[l] = "open" => Expects(device[l])
  BY <1>1, Expected
<1>5. \/ /\ Sends(link.pos, frames) /\ Moves("on")
         /\ link' = [more EXCEPT !.pos = @ + frames, !.frames = 0]
      \/ Moves("on") /\ link' = more /\ UNCHANGED device
      \/ Moves("drop") /\ link' = more /\ UNCHANGED device
  BY DEF SendVorbis
<1>6. clock.hw + Chunk - frames = clock.hw - link.frames
  BY <1>2
<1> HIDE DEF frames, more
<1>7. CASE /\ Sends(link.pos, frames) /\ Moves("on")
           /\ link' = [more EXCEPT !.pos = @ + frames, !.frames = 0]
  <2>1. \A l \in Links : l = link.fd /\ socket[l] = "open"
           => /\ device[l].stream = stream /\ device[l].next \in {-1, link.pos}
              /\ device[l].frame = clock.hw + Chunk - frames
    BY <1>1, <1>4, <1>6 DEF Expects
  <2>2. /\ device' \in [Links -> Told] /\ DeviceHearsItWhole'
        /\ \A l \in Links : l = link.fd /\ socket[l] = "open"
             => /\ device'[l].stream = stream /\ device'[l].next = link.pos + frames
                /\ device'[l].frame = clock.hw + Chunk
    BY <1>1, <1>2, <1>7, <2>1, SentIs
  <2>3. /\ link'.fd = link.fd /\ link'.lead = link.lead /\ link'.declared = link.declared
        /\ link'.pos = link.pos + frames /\ link'.frames = 0 /\ link' \in LinkVars
    BY <1>2, <1>3, <1>7 DEF LinkVars
  <2>4. /\ Types' /\ Stages' /\ OneHolder' /\ NapsEnd' /\ PointerFollows'
        /\ clock'.hw = clock.hw + Chunk /\ path'.pc = "chunk"
    BY <1>1, <1>7, <2>2, <2>3, MovesOn
  <2>5. clock'.hw - link'.frames = clock.hw + Chunk
    BY <1>2, <2>3, <2>4
  <2>6. LeadIsThisLinks' /\ \A l \in Links : l = link'.fd /\ socket'[l] = "open" => Expects(device[l])'
    BY <1>1, <2>2, <2>3, <2>4, <2>5 DEF StreamFollows, LeadIsThisLinks, Expects, app
  <2>7. StreamFollows'
    BY <1>4, <2>2, <2>3, <2>6 DEF StreamFollows
  <2> QED BY <2>4, <2>7 DEF LinkIInv
<1>8. CASE Moves("on") /\ link' = more /\ UNCHANGED device
  <2>1. /\ Types' /\ Stages' /\ OneHolder' /\ NapsEnd' /\ PointerFollows'
        /\ clock'.hw = clock.hw + Chunk /\ path'.pc = "chunk"
    BY <1>1, <1>2, <1>3, <1>8, MovesOn
  <2>2. clock'.hw - link'.frames = clock.hw - link.frames
    BY <1>2, <1>3, <1>6, <1>8, <2>1
  <2>3. \A l \in Links : l = link'.fd /\ socket'[l] = "open" => Expects(device[l])'
    BY <1>1, <1>3, <1>4, <1>8, <2>1, <2>2 DEF Expects, app
  <2>4. StreamFollows'
    BY <1>1, <1>3, <1>4, <1>8, <2>3 DEF StreamFollows, LeadIsThisLinks, DeviceHearsItWhole
  <2> QED BY <2>1, <2>4 DEF LinkIInv
<1>9. CASE Moves("drop") /\ link' = more /\ UNCHANGED device
  <2>1. /\ Types' /\ Stages' /\ OneHolder' /\ NapsEnd' /\ PointerFollows' /\ path'.pc = "drop"
    BY <1>1, <1>2, <1>3, <1>9, MovesOn
  <2>2. StreamFollows'
    BY <1>1, <1>3, <1>9, <2>1 DEF StreamFollows, LeadIsThisLinks, DeviceHearsItWhole
  <2> QED BY <2>1, <2>2 DEF LinkIInv
<1> QED BY <1>5, <1>7, <1>8, <1>9

----------------------------------------------------------------------------
(* The invariant holds.                                                    *)

LEMMA LinkStarts ==
  ASSUME Init
  PROVE LinkIInv
<1>1. Types
  <2>1. /\ con \in Connectors /\ path \in Paths /\ pcm \in Pcms /\ clock \in Clocks
        /\ account \in [from : Int, lost : Int]
    BY Numbers DEF Init, Connectors, Paths, Pcms, Clocks
  <2>2. link \in LinkVars
    BY Numbers DEF Init, NoLink, LinkVars
  <2>3. NotTold \in Told
    BY Numbers DEF NotTold, Told
  <2>4. device \in [Links -> Told] /\ socket \in [Links -> {"none", "open", "cut", "closed"}]
    BY <2>3 DEF Init
  <2>5. /\ time \in 0 .. MaxTime /\ want \in BOOLEAN /\ wake \in BOOLEAN /\ quit \in BOOLEAN
        /\ handoff \in Links \cup {None} /\ offer \in Leads \cup {0}
        /\ stream \in 0 .. MaxStreams
    <3>1. 0 \in 0 .. MaxTime /\ 0 \in 0 .. MaxStreams
      BY Numbers
    <3> QED BY <3>1, Zenon DEF Init
  <2>6. enc \in {"pcm", "vorbis"}
    BY LinkAssumption DEF Init, LinkAssumption
  <2> QED BY <2>1, <2>2, <2>4, <2>5, <2>6 DEF Types
<1>2. Stages /\ OneHolder /\ NapsEnd
  BY Numbers DEF Init, NoLink, Stages, OneHolder, NapsEnd, NapsAreCutShort
<1>3. PointerFollows
  BY Numbers DEF Init, PointerFollows, HwPtrIsTheClock
<1>4. StreamFollows
  BY Numbers DEF Init, NoLink, NotTold, StreamFollows, LeadIsThisLinks, DeviceHearsItWhole
<1> QED BY <1>1, <1>2, <1>3, <1>4 DEF LinkIInv

LEMMA LinkSteps ==
  ASSUME LinkIInv, [Next]_vars
  PROVE LinkIInv'
<1>1. CASE Connector
  BY <1>1, ConLoopKeeps, ConNapKeeps, ConConnectKeeps, ConFailKeeps, ConMadeKeeps,
     ConPublishKeeps DEF Connector
<1>2. CASE AudioPath
  BY <1>2, AnswerKeeps, ServiceKeeps, DeclareKeeps, PumpKeeps, LinkDropKeeps, ReleaseKeeps,
     ReleaseNothingKeeps, PlayOnKeeps, SendPcmKeeps, SendVorbisKeeps, CloseWakeKeeps,
     CloseJoinedKeeps DEF AudioPath
<1>3. CASE Program
  BY <1>3, WriteKeeps, PrepareKeeps, StartKeeps, DrainKeeps, StopKeeps, AskKeeps, CloseKeeps
     DEF Program
<1>4. CASE Tick
  BY <1>4, TickKeeps
<1>5. CASE \E l \in Links : Cut(l)
  BY <1>5, CutKeeps
<1>6. CASE UNCHANGED vars
  <2>1. UNCHANGED <<time, shared, con, socket, path, link, clock, app, device, account>>
    BY <1>6 DEF vars
  <2>2. Types' /\ Stages' /\ OneHolder' /\ NapsEnd'
    BY <2>1 DEF LinkIInv, Types, Stages, OneHolder, NapsEnd, NapsAreCutShort, shared, app
  <2> QED BY <2>1, <2>2, PathUnmoved DEF LinkIInv
<1> QED BY <1>1, <1>2, <1>3, <1>4, <1>5, <1>6 DEF Next

\* The inductive invariant holds of every behaviour, whatever the constants
\* are: a step of the connector, of the program, of the audio path or of the
\* network keeps every part of it.
THEOREM LinkAlways == Spec => []LinkIInv
<1>1. Init => LinkIInv
  BY LinkStarts
<1>2. LinkIInv /\ [Next]_vars => LinkIInv'
  BY LinkSteps
<1> QED BY <1>1, <1>2, PTL DEF Spec

----------------------------------------------------------------------------
(* What follows.                                                           *)

\* The sockets that are open here are one at most.
LEMMA OneAtMost ==
  ASSUME LinkIInv
  PROVE OneSocketAndItIsHeld
<1> DEFINE here == {l \in Links : socket[l] \in {"open", "cut"}}
<1>1. OneHolder /\ Types /\ Stages
  BY DEF LinkIInv
<1>2. here = Held
  BY <1>1, Fields, Numbers DEF OneHolder, Held, Types
<1>3. \A a, b \in Held : a = b
  BY <1>1, Fields, Numbers DEF OneHolder, Held
<1>4. Cardinality(here) <= 1
  <2>1. CASE Held = {}
    BY <1>2, <2>1, FS_EmptySet
  <2>2. CASE Held # {}
    <3>1. PICK a : Held = {a}
      BY <1>3, <2>2
    <3> QED BY <1>2, <3>1, FS_Singleton
  <2> QED BY <2>1, <2>2
<1>5. path.pc = "closed" => here = {}
  BY <1>1, <1>2, Fields DEF OneHolder, Stages, Held
<1> QED BY <1>2, <1>4, <1>5 DEF OneSocketAndItIsHeld

\* Whatever links are made, lost or refused, and whenever the program plays,
\* stops or closes: at most one socket is open and it is in one place; a
\* connector asleep is one nobody waits for; a lead is the link's own; and
\* hw_ptr is the time at the stream's rate less what is accounted for.
THEOREM LinkIsConsistent == Spec => []LinkInv
<1>1. LinkIInv => LinkInv
  <2> SUFFICES ASSUME LinkIInv PROVE LinkInv
    OBVIOUS
  <2>1. Types /\ OneHolder /\ NapsEnd /\ PointerFollows /\ StreamFollows
    BY DEF LinkIInv
  <2>2. path.left \in 0 .. Buffer /\ clock.hw <= pcm.appl /\ pcm.appl <= clock.hw + Buffer
    BY <2>1, Fields, Numbers DEF PointerFollows
  <2>3. (con.fd # None) = (con.pc \in {"made", "unwant", "hand"})
    BY <2>1 DEF OneHolder
  <2>4. TypeOK
    BY <2>1, <2>2, <2>3, Fields DEF Types, TypeOK
  <2> QED BY <2>1, <2>4, OneAtMost DEF LinkInv, NapsEnd, PointerFollows, StreamFollows
<1> QED BY <1>1, LinkAlways, PTL

\* The connector is asked for a link exactly while there is none.
THEOREM LinkNeverForgotten == Spec => []LinkIsNeverForgotten
<1>1. LinkIInv => LinkIsNeverForgotten
  BY Fields DEF LinkIInv, Types, Stages, OneHolder, LinkIsNeverForgotten
<1> QED BY <1>1, LinkAlways, PTL

\* From one FORMAT to the next, a device is sent every frame once and in order,
\* at the positions that go with them, by PCM and by Vorbis.
THEOREM DevicesHearItWhole == Spec => []DeviceHearsItWhole
<1>1. LinkIInv => DeviceHearsItWhole
  BY DEF LinkIInv, StreamFollows
<1> QED BY <1>1, LinkAlways, PTL

\* The cap on a late call is no more than a buffer, so that what it owes never
\* exceeds what a program that filled its buffer has written.
THEOREM FullBuffersHaveNoXrun == Spec => FullBufferHasNoXrun
<1>1. LinkIInv /\ [Next]_vars => (clock'.xrun /\ ~clock.xrun => Queued < Buffer) \/ UNCHANGED vars
  <2> SUFFICES ASSUME LinkIInv, Next, clock'.xrun, ~clock.xrun
               PROVE Queued < Buffer
    OBVIOUS
  <2>1. clock \in Clocks
    BY DEF LinkIInv, Types
  <2>2. ~UNCHANGED clock
    OBVIOUS
  <2>3. Release
    <3>1. ~Connector /\ ~Tick /\ ~\E l \in Links : Cut(l)
      BY <2>2 DEF Connector, ConLoop, ConNap, ConConnect, ConFail, ConMade, ConPublish, Tick, Cut
    <3>2. ~Program
      <4>1. ~(Write \/ Drain \/ Ask \/ Close)
        BY <2>2 DEF Write, Drain, Ask, Close
      <4>2. ~Prepare
        BY DEF Prepare
      <4>3. ~Start /\ ~Stop
        BY <2>1 DEF Start, Stop, Clocks
      <4> QED BY <4>1, <4>2, <4>3 DEF Program
    <3>3. ~(Service \/ Declare \/ Pump \/ LinkDrop \/ CloseWake \/ CloseJoined)
      BY <2>2 DEF Service, Declare, Pump, LinkDrop, CloseWake, CloseJoined
    <3>4. ~Answer
      BY <2>1, <2>2 DEF Answer, Tells, Clocks
    <3>5. ~(ReleaseNothing \/ PlayOn \/ SendPcm \/ SendVorbis)
      BY <2>1 DEF ReleaseNothing, PlayOn, SendPcm, SendVorbis, Moves, Clocks
    <3> QED BY <3>1, <3>2, <3>3, <3>4, <3>5 DEF Next, AudioPath
  <2>4. Queued < Owed
    BY <2>1, <2>3 DEF Release, Clocks
  <2>5. Owed <= Buffer
    <3>1. /\ Billed \in Nat /\ Billed <= CatchUp /\ Due \in Nat /\ Due \div Den \in Nat
          /\ clock.frac \in 0 .. Den - 1 /\ Owed \in Nat /\ Owed <= Due \div Den
          /\ Due - Den * (Due \div Den) \in 0 .. Den - 1
      BY OwedIs, Fields DEF LinkIInv
    <3>2. Billed * Num <= CatchUp * Num
      BY <3>1, Numbers
    <3>3. Due = Billed * Num + clock.frac
      BY DEF Due
    <3>4. Den * (Due \div Den) < Den * (Buffer + 1)
      <4>1. Den * (Due \div Den) <= Due
        BY <3>1, Numbers
      <4>2. Due < Buffer * Den + Den
        BY <3>1, <3>2, <3>3, Numbers
      <4>3. Buffer * Den + Den = Den * (Buffer + 1)
        BY Numbers
      <4> QED BY <4>1, <4>2, <4>3, <3>1, Numbers
    <3>5. Due \div Den < Buffer + 1
      <4>1. \A x, y \in Nat : y <= x => Den * y <= Den * x
        BY Numbers
      <4> QED BY <3>1, <3>4, <4>1, Numbers
    <3> QED BY <3>1, <3>5, Numbers
  <2> QED BY <2>4, <2>5, OwedIs, Numbers
<1>2. LinkIInv /\ [Next]_vars => [clock'.xrun /\ ~clock.xrun => Queued < Buffer]_vars
  BY <1>1
<1> QED BY <1>2, LinkAlways, PTL DEF Spec, FullBufferHasNoXrun

----------------------------------------------------------------------------
(* The mixer.  What it shows is what its thread last sent it, once what is  *)
(* under way has come; or else its own last move, which is under way to the *)
(* thread or has been taken and not answered yet.                           *)

MixPlaces == {"closed", "look", "ack", "remember", "poll", "resolve", "compare"}
Records == [ip : {NoOne} \cup {s.ip : s \in Senders}, stream : {NoName} \cup {s.stream : s \in Senders},
            base : Channels, count : 1 .. Total]
Moved == [field : {"gain"}, value : Gains] \cup [field : {"mute"}, value : BOOLEAN]
Servers == [pc : MixPlaces, base : Channels, count : 1 .. Total, took : Moved \cup {NoMove},
            sent : Shown]
ShownMixers == [open : BOOLEAN, gain : Gains, mute : BOOLEAN, bypass : BOOLEAN]

MixerTypes ==
  /\ record \in [Channels -> Records] /\ holder \in [Channels -> Senders \cup {NoOne}]
  /\ level \in [Channels -> Level] /\ bypass \in [Channels -> BOOLEAN]
  /\ srv \in Servers /\ srv.base + srv.count <= Total
  /\ mixer \in ShownMixers /\ up \in Seq(Moved) /\ down \in Seq(Shown)
  /\ unseen \subseteq MixFields /\ undone \subseteq Elements /\ stale \in BOOLEAN
  /\ left \in [writes : 0 .. MaxWrites, events : 0 .. MaxEvents, opens : 0 .. MaxOpens]

\* What may be under way where the thread is.
MixerStages ==
  /\ srv.pc # "closed" => asked \in Mixers
  /\ srv.pc \in {"closed", "look", "ack"} => ~mixer.open
  /\ srv.pc \in {"closed", "look", "ack"} => up = <<>>
  /\ srv.pc \in {"closed", "look", "ack", "remember"} => down = <<>>
  /\ srv.took # NoMove => srv.pc \in {"resolve", "compare"}

\* The last message under way about a field is this one.
Coming(box, f, v) ==
  \E i \in 1 .. Len(box) :
    /\ box[i].field = f /\ box[i].value = v
    /\ \A j \in i + 1 .. Len(box) : box[j].field # f

Silent(box, f) == \A i \in 1 .. Len(box) : box[i].field # f

\* What the mixer shows of a field is what it was last told, or what it asked last,
\* under way or just taken; or that got no answer, and is excepted.
AsTold(f) ==
  \/ mixer[f] = srv.sent[f] /\ Silent(up, f)
  \/ ~mixer.bypass /\ Coming(up, f, mixer[f])
Explained(f) ==
  \/ mixer[f] = srv.sent[f]
  \/ ~mixer.bypass /\ Coming(up, f, mixer[f])
  \/ /\ ~mixer.bypass /\ Silent(up, f)
     /\ srv.took.field = f /\ srv.took.value = mixer[f]
  \/ Silent(up, f) /\ srv.took.field # f /\ f \in unseen \cup undone

AnswersFollow ==
  /\ down # <<>> => down[Len(down)] = srv.sent
  /\ mixer.open /\ srv.pc = "remember" =>
       mixer.bypass = srv.sent.bypass /\ \A f \in Elements : AsTold(f)
  /\ mixer.open /\ down = <<>> /\ srv.pc \in {"poll", "resolve", "compare"} =>
       /\ mixer.bypass # srv.sent.bypass => "bypass" \in unseen
       /\ \A f \in Elements : Explained(f)

\* Until somebody else sets a channel or makes a run un-mixable, or another mixer is
\* opened: all channels are at the default until the mixer is answered, and those it
\* drives at one level from then on.
Untouched == seen \cap {"web", "format"} = {} /\ left.opens >= MaxOpens - 1
LevelsFollow ==
  Untouched =>
    /\ \A c \in Channels : ~bypass[c]
    /\ left.opens = MaxOpens => srv.pc = "closed"
    /\ left.opens = MaxOpens \/ srv.pc \in {"look", "ack", "remember"}
         => \A c \in Channels : level[c] = Default
    /\ srv.pc \in {"poll", "resolve", "compare"} => LevelsAgree

\* The run is the one that the records name, unless they have changed since.
RunFollows ==
  ~stale /\ srv.pc \notin {"closed", "look"} => srv.base = MixRun.base /\ srv.count = MixRun.count

MixerIInv == MixerTypes /\ MixerStages /\ AnswersFollow /\ LevelsFollow /\ RunFollows

----------------------------------------------------------------------------
(* Facts about runs, levels and what is under way.                         *)

LEMMA ChannelsFit ==
  /\ Total \in Nat /\ Total # 0 /\ 0 \in Channels /\ Channels \subseteq Nat /\ 1 \in 1 .. Total
  /\ \A n \in 1 .. Total : n \in Nat /\ n >= 1
<1>1. Total \in Nat \ {0}
  BY MixerAssumption DEF MixerAssumption
<1> QED BY <1>1 DEF Channels

LEMMA MixerFits ==
  /\ Default \in Level /\ Default.gain \in Gains /\ ~Default.mute /\ Me # NoOne
  /\ MaxOpens \in Nat /\ MaxWrites \in Nat /\ MaxEvents \in Nat
<1>1. /\ Total \in Nat \ {0} /\ Gains # {} /\ Me # NoOne
      /\ {MaxWrites, MaxEvents, MaxOpens} \subseteq Nat
  BY MixerAssumption DEF MixerAssumption
<1>2. Default \in Level /\ Default.gain \in Gains /\ ~Default.mute
  BY <1>1 DEF Default, Level
<1> QED BY <1>1, <1>2

\* The least of a set of channels is one of them.
LEMMA FirstIs ==
  ASSUME NEW S, S \subseteq Nat, S # {}
  PROVE  First(S) \in S
<1>1. PICK x \in S : \A y \in S : ~(<<y, x>> \in OpToRel(<, Nat))
  BY NatLessThanWellFounded, WFMin, Zenon
<1>2. \A y \in S : ~(y < x)
  BY <1>1, Zenon DEF OpToRel
<1>3. \A y \in S : x <= y
  BY <1>2
<1> QED BY <1>3 DEF First

\* mixer_run() names channels there are.
LEMMA MixRunIs ==
  ASSUME MixerTypes, asked \in Mixers
  PROVE  MixRun.base \in Channels /\ MixRun.count \in 1 .. Total /\ MixRun.base + MixRun.count <= Total
<1>1. CtlChannel \in Channels
  <2> DEFINE mine == {c \in Channels : record[c].ip = Me}
             named == {c \in mine : asked.stream # NoName /\ record[c].stream = asked.stream}
  <2>1. asked.want \in 0 .. Total
    BY MixerAssumption DEF MixerAssumption
  <2>2. CtlChannel = IF asked.want # Any THEN asked.want
                     ELSE IF named # {} THEN First(named) ELSE IF mine # {} THEN First(mine) ELSE 0
    BY DEF CtlChannel
  <2>3. asked.want # Any => asked.want \in Channels
    BY <2>1, ChannelsFit DEF Any, Channels
  <2>4. mine \subseteq Channels /\ named \subseteq Channels
    OBVIOUS
  <2> HIDE DEF mine, named
  <2>5. (named # {} => First(named) \in Channels) /\ (mine # {} => First(mine) \in Channels)
    BY <2>4, FirstIs, ChannelsFit
  <2> QED BY <2>2, <2>3, <2>5, ChannelsFit
<1>2. PICK c \in Channels : c = CtlChannel
  BY <1>1
<1>3. record[c].base \in Channels /\ record[c].count \in 1 .. Total
  BY DEF MixerTypes, Records
<1>4. \/ MixRun = [base |-> c, count |-> 1]
      \/ /\ MixRun = [base |-> record[c].base, count |-> record[c].count]
         /\ ~(record[c].base + record[c].count > Total)
  BY <1>2 DEF MixRun
<1>5. CASE MixRun = [base |-> c, count |-> 1]
  <2>1. c + 1 <= Total
    BY ChannelsFit DEF Channels
  <2> QED BY <1>5, <2>1, ChannelsFit
<1>6. CASE /\ MixRun = [base |-> record[c].base, count |-> record[c].count]
           /\ ~(record[c].base + record[c].count > Total)
  <2>1. record[c].base \in Nat /\ record[c].count \in Nat
    BY <1>3, ChannelsFit
  <2>2. record[c].base + record[c].count <= Total
    BY <1>6, <2>1, ChannelsFit
  <2> QED BY <1>3, <1>6, <2>2
<1> QED BY <1>4, <1>5, <1>6

LEMMA MixRunStays ==
  ASSUME UNCHANGED <<record, asked>>
  PROVE  MixRun' = MixRun
<1>1. CtlChannel' = CtlChannel
  BY DEF CtlChannel
<1> QED BY <1>1 DEF MixRun

\* The fields of the thread's record, of the mixer's and of what bounds leave.
LEMMA ServerIs ==
  ASSUME MixerTypes
  PROVE  /\ srv.pc \in MixPlaces /\ srv.base \in Channels /\ srv.count \in 1 .. Total
         /\ srv.base \in Nat /\ srv.count \in Nat /\ srv.base \in Run(srv) /\ Run(srv) \subseteq Channels
         /\ srv.took \in Moved \cup {NoMove} /\ srv.sent \in Shown /\ Stands(srv.base) \in Shown
<1>1. /\ srv.pc \in MixPlaces /\ srv.base \in Channels /\ srv.count \in 1 .. Total
      /\ srv.took \in Moved \cup {NoMove} /\ srv.sent \in Shown /\ srv.base + srv.count <= Total
  BY DEF MixerTypes, Servers
<1>2. srv.base \in Nat /\ srv.count \in Nat /\ srv.count >= 1
  BY <1>1, ChannelsFit
<1>3. srv.base \in Run(srv) /\ Run(srv) \subseteq Channels
  BY <1>1, <1>2, ChannelsFit DEF Run, Channels
<1>4. Stands(srv.base) \in Shown
  <2>1. level[srv.base] \in Level /\ bypass[srv.base] \in BOOLEAN
    BY <1>1 DEF MixerTypes
  <2> QED BY <2>1 DEF Stands, Shown, Level
<1> QED BY <1>1, <1>2, <1>3, <1>4

\* What an event, an opened mixer or a move leaves.
LEMMA UsesIs ==
  ASSUME MixerTypes, NEW what \in {"writes", "events", "opens"}, Uses(what)
  PROVE  /\ left' \in [writes : 0 .. MaxWrites, events : 0 .. MaxEvents, opens : 0 .. MaxOpens]
         /\ what # "opens" => left'.opens = left.opens
         /\ what = "opens" => left.opens # 0 /\ left'.opens = left.opens - 1
<1>1. left \in [writes : 0 .. MaxWrites, events : 0 .. MaxEvents, opens : 0 .. MaxOpens]
  BY DEF MixerTypes
<1>2. left.writes \in 0 .. MaxWrites /\ left.events \in 0 .. MaxEvents /\ left.opens \in 0 .. MaxOpens
  BY <1>1
<1>3. CASE what = "writes"
  <2>1. PICK n \in 0 .. MaxWrites : n = left.writes - 1
    BY <1>2, <1>3, MixerFits DEF Uses
  <2>2. left' = [left EXCEPT !.writes = n]
    BY <1>3, <2>1 DEF Uses
  <2> QED BY <1>1, <1>3, <2>2
<1>4. CASE what = "events"
  <2>1. PICK n \in 0 .. MaxEvents : n = left.events - 1
    BY <1>2, <1>4, MixerFits DEF Uses
  <2>2. left' = [left EXCEPT !.events = n]
    BY <1>4, <2>1 DEF Uses
  <2> QED BY <1>1, <1>4, <2>2
<1>5. CASE what = "opens"
  <2>1. PICK n \in 0 .. MaxOpens : n = left.opens - 1 /\ left.opens # 0
    BY <1>2, <1>5, MixerFits DEF Uses
  <2>2. left' = [left EXCEPT !.opens = n]
    BY <1>5, <2>1 DEF Uses
  <2> QED BY <1>1, <1>5, <2>1, <2>2
<1> QED BY <1>3, <1>4, <1>5

\* Messages under way, as one comes or goes.
LEMMA MovedIs ==
  ASSUME NEW m \in Moved
  PROVE  /\ m.field \in {"gain", "mute"}
         /\ m.field = "gain" => m.value \in Gains
         /\ m.field = "mute" => m.value \in BOOLEAN
BY DEF Moved

LEMMA EmptyIs ==
  ASSUME NEW T, NEW box \in Seq(T)
  PROVE  box = <<>> <=> Len(box) = 0
OBVIOUS

LEMMA TailIs ==
  ASSUME NEW T, NEW box \in Seq(T), box # <<>>
  PROVE  /\ Tail(box) \in Seq(T) /\ Head(box) = box[1] /\ Head(box) \in T
         /\ Len(box) \in Nat /\ Len(box) >= 1 /\ Len(Tail(box)) = Len(box) - 1
         /\ \A i \in 1 .. Len(box) - 1 : Tail(box)[i] = box[i + 1]
         /\ Tail(box) = <<>> <=> Len(box) = 1
<1>1. Len(box) \in Nat /\ Len(box) >= 1 /\ Head(box) = box[1] /\ Head(box) \in T
  OBVIOUS
<1>2. Tail(box) \in Seq(T) /\ Len(Tail(box)) = Len(box) - 1
  OBVIOUS
<1>3. \A i \in 1 .. Len(box) - 1 : Tail(box)[i] = box[i + 1]
  BY <1>1
<1>4. Tail(box) = <<>> <=> Len(Tail(box)) = 0
  BY <1>2, EmptyIs
<1>5. Tail(box) = <<>> <=> Len(box) = 1
  BY <1>1, <1>2, <1>4
<1> QED BY <1>1, <1>2, <1>3, <1>5

LEMMA AppendIs ==
  ASSUME NEW T, NEW box \in Seq(T), NEW m \in T
  PROVE  /\ Append(box, m) \in Seq(T) /\ Len(box) \in Nat /\ Len(Append(box, m)) = Len(box) + 1
         /\ Append(box, m)[Len(box) + 1] = m /\ Append(box, m) # <<>>
         /\ \A i \in 1 .. Len(box) : Append(box, m)[i] = box[i]
OBVIOUS

LEMMA ComingOn ==
  ASSUME NEW box \in Seq(Moved), box # <<>>, NEW f, NEW v, Coming(box, f, v)
  PROVE  \/ Coming(Tail(box), f, v)
         \/ Head(box).field = f /\ Head(box).value = v /\ Silent(Tail(box), f)
<1>1. PICK i \in 1 .. Len(box) : /\ box[i].field = f /\ box[i].value = v
                                 /\ \A j \in i + 1 .. Len(box) : box[j].field # f
  BY DEF Coming
<1>2. /\ Head(box) = box[1] /\ Len(box) \in Nat /\ Len(Tail(box)) = Len(box) - 1
      /\ \A k \in 1 .. Len(box) - 1 : Tail(box)[k] = box[k + 1]
  BY TailIs
<1>3. CASE i = 1
  <2>1. ASSUME NEW k \in 1 .. Len(Tail(box)) PROVE Tail(box)[k].field # f
    <3>1. k \in 1 .. Len(box) - 1 /\ k + 1 \in i + 1 .. Len(box)
      BY <1>2, <1>3
    <3> QED BY <1>1, <1>2, <3>1
  <2> QED BY <1>1, <1>2, <1>3, <2>1 DEF Silent
<1>4. CASE i # 1
  <2>1. PICK k \in Nat : k = i - 1 /\ k \in 1 .. Len(box) - 1 /\ k + 1 = i
    BY <1>2, <1>4
  <2>2. Tail(box)[k] = box[i]
    BY <1>2, <2>1
  <2>3. \A j \in k + 1 .. Len(Tail(box)) : Tail(box)[j] = box[j + 1] /\ j + 1 \in i + 1 .. Len(box)
    BY <1>2, <2>1
  <2>4. \A j \in k + 1 .. Len(Tail(box)) : Tail(box)[j].field # f
    BY <1>1, <2>3
  <2>5. k \in 1 .. Len(Tail(box))
    BY <1>2, <2>1
  <2> QED BY <1>1, <2>2, <2>4, <2>5 DEF Coming
<1> QED BY <1>3, <1>4

LEMMA SilentOn ==
  ASSUME NEW box \in Seq(Moved), box # <<>>, NEW f, Silent(box, f)
  PROVE  Silent(Tail(box), f) /\ Head(box).field # f
<1>1. /\ Head(box) = box[1] /\ Len(box) \in Nat /\ Len(Tail(box)) = Len(box) - 1
      /\ Len(box) >= 1 /\ \A k \in 1 .. Len(box) - 1 : Tail(box)[k] = box[k + 1]
  BY TailIs
<1>2. ASSUME NEW k \in 1 .. Len(Tail(box)) PROVE Tail(box)[k].field # f
  <2>1. k \in 1 .. Len(box) - 1 /\ k + 1 \in 1 .. Len(box)
    BY <1>1
  <2> QED BY <1>1, <2>1 DEF Silent
<1>3. 1 \in 1 .. Len(box)
  BY <1>1
<1> QED BY <1>1, <1>2, <1>3 DEF Silent

LEMMA ComingLast ==
  ASSUME NEW box \in Seq(Moved), NEW m \in Moved
  PROVE  Coming(Append(box, m), m.field, m.value)
<1>1. /\ Len(box) \in Nat /\ Len(Append(box, m)) = Len(box) + 1 /\ Append(box, m)[Len(box) + 1] = m
  BY AppendIs
<1>2. PICK n \in Nat : n = Len(box) + 1 /\ n \in 1 .. Len(Append(box, m))
                       /\ n + 1 .. Len(Append(box, m)) = {}
  BY <1>1
<1>3. Append(box, m)[n] = m
  BY <1>1, <1>2
<1> QED BY <1>2, <1>3 DEF Coming

LEMMA ComingStill ==
  ASSUME NEW box \in Seq(Moved), NEW m \in Moved, NEW f, NEW v, m.field # f, Coming(box, f, v)
  PROVE  Coming(Append(box, m), f, v)
<1>1. PICK i \in 1 .. Len(box) : /\ box[i].field = f /\ box[i].value = v
                                 /\ \A j \in i + 1 .. Len(box) : box[j].field # f
  BY DEF Coming
<1>2. /\ Len(box) \in Nat /\ Len(Append(box, m)) = Len(box) + 1 /\ Append(box, m)[Len(box) + 1] = m
      /\ \A k \in 1 .. Len(box) : Append(box, m)[k] = box[k]
  BY AppendIs
<1>3. i \in 1 .. Len(Append(box, m)) /\ Append(box, m)[i] = box[i]
  BY <1>2
<1>4. ASSUME NEW j \in i + 1 .. Len(Append(box, m)) PROVE Append(box, m)[j].field # f
  <2>1. j \in i + 1 .. Len(box) \/ j = Len(box) + 1
    BY <1>2
  <2>2. CASE j \in i + 1 .. Len(box)
    <3>1. Append(box, m)[j] = box[j]
      BY <1>2, <2>2
    <3> QED BY <1>1, <2>2, <3>1
  <2>3. CASE j = Len(box) + 1
    BY <1>2, <2>3
  <2> QED BY <2>1, <2>2, <2>3
<1> QED BY <1>1, <1>3, <1>4 DEF Coming

LEMMA SilentStill ==
  ASSUME NEW box \in Seq(Moved), NEW m \in Moved, NEW f, m.field # f, Silent(box, f)
  PROVE  Silent(Append(box, m), f)
<1>1. /\ Len(box) \in Nat /\ Len(Append(box, m)) = Len(box) + 1 /\ Append(box, m)[Len(box) + 1] = m
      /\ \A k \in 1 .. Len(box) : Append(box, m)[k] = box[k]
  BY AppendIs
<1>2. ASSUME NEW j \in 1 .. Len(Append(box, m)) PROVE Append(box, m)[j].field # f
  <2>1. j \in 1 .. Len(box) \/ j = Len(box) + 1
    BY <1>1
  <2> QED BY <1>1, <2>1 DEF Silent
<1> QED BY <1>2 DEF Silent

LEMMA NoneComing ==
  ASSUME NEW f
  PROVE  Silent(<<>>, f) /\ \A v : ~Coming(<<>>, f, v)
BY DEF Coming, Silent

----------------------------------------------------------------------------
(* The streams and the web console.                                        *)

\* What a mixer shows is explained by what is under way and what was taken.
LEMMA ExplainedStays ==
  ASSUME UNCHANGED <<up, mixer, unseen, undone>>, srv'.took = srv.took, srv'.sent = srv.sent, NEW f
  PROVE  (Explained(f)' <=> Explained(f)) /\ (AsTold(f)' <=> AsTold(f))
BY DEF Explained, AsTold, Coming, Silent

\* A change of the records, a level or a bypass leaves it alone.
LEMMA AnswersStay ==
  ASSUME MixerIInv, UNCHANGED <<srv, up, down, mixer, unseen, undone>>
  PROVE  AnswersFollow'
<1>1. \A f \in Elements : (Explained(f)' <=> Explained(f)) /\ (AsTold(f)' <=> AsTold(f))
  BY ExplainedStays
<1> QED BY <1>1 DEF MixerIInv, AnswersFollow

\* An event of another kind, or none, leaves the levels as they are and makes no run
\* un-mixable.
LEMMA LevelsStay ==
  ASSUME MixerIInv, UNCHANGED <<srv, level>>, \A c \in Channels : bypass'[c] => bypass[c],
         left'.opens = left.opens, seen \subseteq seen'
  PROVE  LevelsFollow'
<1>1. Untouched' => Untouched
  BY DEF Untouched
<1>2. LevelsAgree' <=> LevelsAgree
  BY DEF LevelsAgree, Run
<1> QED BY <1>1, <1>2 DEF MixerIInv, LevelsFollow

LEMMA RunStays ==
  ASSUME MixerIInv, UNCHANGED <<srv, record, asked, stale>>
  PROVE  RunFollows'
<1>1. MixRun' = MixRun
  BY MixRunStays
<1> QED BY <1>1 DEF MixerIInv, RunFollows

LEMMA HappensIs ==
  ASSUME MixerTypes, NEW event, Happens(event)
  PROVE  /\ left' \in [writes : 0 .. MaxWrites, events : 0 .. MaxEvents, opens : 0 .. MaxOpens]
         /\ left'.opens = left.opens /\ seen' = seen \cup {event}
BY UsesIs DEF Happens

LEMMA ClaimStep ==
  ASSUME MixerIInv, NEW s \in Senders, Claim(s)
  PROVE  MixerIInv'
<1>1. PICK b \in Channels, n \in 1 .. Total :
        /\ b + n <= Total
        /\ holder' = [c \in Channels |-> IF c \in b .. b + n - 1 THEN s ELSE holder[c]]
        /\ record' = [c \in Channels |->
                        IF c \in b .. b + n - 1
                          THEN [ip |-> s.ip, stream |-> s.stream, base |-> b, count |-> n] ELSE record[c]]
        /\ bypass' = [c \in Channels |-> IF c \in b .. b + n - 1 THEN FALSE ELSE bypass[c]]
  BY DEF Claim
<1>2. /\ Happens("claim") /\ stale' = TRUE
      /\ UNCHANGED <<level, asked, srv, up, down, mixer, unseen, undone>>
  BY DEF Claim, ctlLink
<1>3. MixerTypes
  BY DEF MixerIInv
<1>4. [ip |-> s.ip, stream |-> s.stream, base |-> b, count |-> n] \in Records
  BY DEF Records
<1>5. record' \in [Channels -> Records] /\ holder' \in [Channels -> Senders \cup {NoOne}]
  BY <1>1, <1>3, <1>4 DEF MixerTypes
<1>6. bypass' \in [Channels -> BOOLEAN] /\ \A c \in Channels : bypass'[c] => bypass[c]
  BY <1>1, <1>3 DEF MixerTypes
<1>8. /\ left' \in [writes : 0 .. MaxWrites, events : 0 .. MaxEvents, opens : 0 .. MaxOpens]
      /\ left'.opens = left.opens /\ seen \subseteq seen'
  BY <1>2, <1>3, HappensIs
<1>9. MixerTypes'
  BY <1>2, <1>3, <1>5, <1>6, <1>8 DEF MixerTypes
<1>10. MixerStages'
  BY <1>2 DEF MixerIInv, MixerStages
<1>11. AnswersFollow'
  BY <1>2, AnswersStay
<1>12. LevelsFollow'
  BY <1>2, <1>6, <1>8, LevelsStay
<1>13. RunFollows'
  BY <1>2 DEF RunFollows
<1> QED BY <1>9, <1>10, <1>11, <1>12, <1>13 DEF MixerIInv

LEMMA NoMixerFormatStep ==
  ASSUME MixerIInv, NEW s \in Senders, NoMixerFormat(s)
  PROVE  MixerIInv'
<1>1. /\ bypass' = [c \in Channels |-> IF holder[c] = s THEN TRUE ELSE bypass[c]]
      /\ Happens("format")
      /\ UNCHANGED <<record, holder, level, asked, srv, up, down, mixer, unseen, undone, stale>>
  BY DEF NoMixerFormat, streams, ctlLink
<1>2. MixerTypes
  BY DEF MixerIInv
<1>3. bypass' \in [Channels -> BOOLEAN]
  BY <1>1, <1>2 DEF MixerTypes
<1>4. /\ left' \in [writes : 0 .. MaxWrites, events : 0 .. MaxEvents, opens : 0 .. MaxOpens]
      /\ seen' = seen \cup {"format"}
  BY <1>1, <1>2, HappensIs
<1>5. MixerTypes'
  BY <1>1, <1>2, <1>3, <1>4 DEF MixerTypes
<1>6. MixerStages'
  BY <1>1 DEF MixerIInv, MixerStages
<1>7. AnswersFollow'
  BY <1>1, AnswersStay
<1>8. LevelsFollow'
  BY <1>4 DEF LevelsFollow, Untouched
<1>9. RunFollows'
  BY <1>1, RunStays
<1> QED BY <1>5, <1>6, <1>7, <1>8, <1>9 DEF MixerIInv

LEMMA ReleaseRunStep ==
  ASSUME MixerIInv, NEW s \in Senders, ReleaseRun(s)
  PROVE  MixerIInv'
<1>1. /\ holder' = [c \in Channels |-> IF holder[c] = s THEN NoOne ELSE holder[c]]
      /\ bypass' = [c \in Channels |-> IF holder[c] = s THEN FALSE ELSE bypass[c]]
      /\ UNCHANGED <<record, level, asked, srv, up, down, mixer, unseen, undone, stale, left, seen>>
  BY DEF ReleaseRun, ctlLink, bounds
<1>2. MixerTypes
  BY DEF MixerIInv
<1>3. /\ holder' \in [Channels -> Senders \cup {NoOne}] /\ bypass' \in [Channels -> BOOLEAN]
      /\ \A c \in Channels : bypass'[c] => bypass[c]
  BY <1>1, <1>2 DEF MixerTypes
<1>5. MixerTypes'
  BY <1>1, <1>2, <1>3 DEF MixerTypes
<1>6. MixerStages'
  BY <1>1 DEF MixerIInv, MixerStages
<1>7. AnswersFollow'
  BY <1>1, AnswersStay
<1>8. LevelsFollow'
  BY <1>1, <1>3, LevelsStay
<1>9. RunFollows'
  BY <1>1, RunStays
<1> QED BY <1>5, <1>6, <1>7, <1>8, <1>9 DEF MixerIInv

LEMMA ForgetStep ==
  ASSUME MixerIInv, NEW c \in Channels, Forget(c)
  PROVE  MixerIInv'
<1>1. /\ record' = [record EXCEPT ![c] = NoRecord] /\ stale' = TRUE /\ Happens("forget")
      /\ UNCHANGED <<holder, level, bypass, asked, srv, up, down, mixer, unseen, undone>>
  BY DEF Forget, mix, ctlLink
<1>2. MixerTypes
  BY DEF MixerIInv
<1>3. NoRecord \in Records
  BY ChannelsFit DEF NoRecord, Records
<1>4. record' \in [Channels -> Records]
  BY <1>1, <1>2, <1>3 DEF MixerTypes
<1>5. /\ left' \in [writes : 0 .. MaxWrites, events : 0 .. MaxEvents, opens : 0 .. MaxOpens]
      /\ left'.opens = left.opens /\ seen \subseteq seen'
  BY <1>1, <1>2, HappensIs
<1>6. MixerTypes'
  BY <1>1, <1>2, <1>4, <1>5 DEF MixerTypes
<1>7. MixerStages'
  BY <1>1 DEF MixerIInv, MixerStages
<1>8. AnswersFollow'
  BY <1>1, AnswersStay
<1>9. LevelsFollow'
  BY <1>1, <1>5, LevelsStay
<1>10. RunFollows'
  BY <1>1 DEF RunFollows
<1> QED BY <1>6, <1>7, <1>8, <1>9, <1>10 DEF MixerIInv

LEMMA WebStep ==
  ASSUME MixerIInv, NEW c \in Channels, Web(c)
  PROVE  MixerIInv'
<1>1. /\ Happens("web")
      /\ UNCHANGED <<record, holder, bypass, asked, srv, up, down, mixer, unseen, undone, stale>>
      /\ \/ \E g \in Gains : level' = [level EXCEPT ![c].gain = g]
         \/ level' = [level EXCEPT ![c].mute = ~@]
  BY DEF Web, streams, ctlLink
<1>2. MixerTypes /\ level \in [Channels -> Level]
  BY DEF MixerIInv, MixerTypes
<1>3. level' \in [Channels -> Level]
  <2>1. level[c] \in Level
    BY <1>2
  <2>2. CASE \E g \in Gains : level' = [level EXCEPT ![c].gain = g]
    <3>1. PICK g \in Gains : level' = [level EXCEPT ![c].gain = g]
      BY <2>2
    <3>2. [level[c] EXCEPT !.gain = g] \in Level
      BY <2>1 DEF Level
    <3> QED BY <1>2, <3>1, <3>2
  <2>3. CASE level' = [level EXCEPT ![c].mute = ~@]
    <3>1. [level[c] EXCEPT !.mute = ~@] \in Level
      BY <2>1 DEF Level
    <3> QED BY <1>2, <2>3, <3>1
  <2> QED BY <1>1, <2>2, <2>3
<1>4. /\ left' \in [writes : 0 .. MaxWrites, events : 0 .. MaxEvents, opens : 0 .. MaxOpens]
      /\ seen' = seen \cup {"web"}
  BY <1>1, <1>2, HappensIs
<1>5. MixerTypes'
  BY <1>1, <1>2, <1>3, <1>4 DEF MixerTypes
<1>6. MixerStages'
  BY <1>1 DEF MixerIInv, MixerStages
<1>7. AnswersFollow'
  BY <1>1, AnswersStay
<1>8. LevelsFollow'
  BY <1>4 DEF LevelsFollow, Untouched
<1>9. RunFollows'
  BY <1>1, RunStays
<1> QED BY <1>5, <1>6, <1>7, <1>8, <1>9 DEF MixerIInv

----------------------------------------------------------------------------
(* The thread.                                                             *)

LEMMA OpenStep ==
  ASSUME MixerIInv, Open
  PROVE  MixerIInv'
<1>1. /\ srv.pc = "closed" /\ ~mixer.open /\ Uses("opens") /\ asked' \in Mixers
      /\ srv' = [Shut EXCEPT !.pc = "look"]
      /\ UNCHANGED <<record, holder, level, bypass, up, down, mixer, unseen, undone, stale, seen>>
  BY DEF Open, streams, mix
<1>2. MixerTypes /\ up = <<>> /\ down = <<>>
  BY <1>1 DEF MixerIInv, MixerStages
<1>3. /\ left' \in [writes : 0 .. MaxWrites, events : 0 .. MaxEvents, opens : 0 .. MaxOpens]
      /\ left.opens # 0 /\ left'.opens = left.opens - 1
  BY <1>1, <1>2, UsesIs
<1>4. srv' \in Servers /\ srv'.base + srv'.count <= Total /\ srv'.pc = "look" /\ srv'.took = NoMove
  <2> DEFINE told == [gain |-> Default.gain, mute |-> FALSE, bypass |-> FALSE]
  <2>1. told \in Shown
    BY MixerFits DEF Shown
  <2>2. srv' = [pc |-> "look", base |-> 0, count |-> 1, took |-> NoMove, sent |-> told]
    BY <1>1 DEF Shut
  <2> HIDE DEF told
  <2>3. 0 + 1 <= Total
    BY ChannelsFit
  <2> QED BY <2>1, <2>2, <2>3, ChannelsFit DEF Servers, MixPlaces
<1>5. MixerTypes'
  BY <1>1, <1>2, <1>3, <1>4 DEF MixerTypes
<1>6. MixerStages'
  BY <1>1, <1>2, <1>4 DEF MixerStages
<1>7. AnswersFollow'
  BY <1>1, <1>2, <1>4 DEF AnswersFollow
<1>8. LevelsFollow'
  <2>1. left.opens \in 0 .. MaxOpens /\ MaxOpens \in Nat
    BY <1>2, MixerFits DEF MixerTypes
  <2>2. Untouched' => Untouched /\ left.opens = MaxOpens /\ left'.opens # MaxOpens
    BY <1>1, <1>3, <2>1 DEF Untouched
  <2>3. Untouched => (\A c \in Channels : ~bypass[c])
                     /\ (left.opens = MaxOpens => \A c \in Channels : level[c] = Default)
    BY DEF MixerIInv, LevelsFollow
  <2> QED BY <1>1, <1>4, <2>2, <2>3 DEF LevelsFollow
<1>9. RunFollows'
  BY <1>4 DEF RunFollows
<1> QED BY <1>5, <1>6, <1>7, <1>8, <1>9 DEF MixerIInv

\* A look at the records gives the thread a run that is one.
LEMMA LookIs ==
  ASSUME MixerTypes, asked \in Mixers, NEW pc \in MixPlaces,
         srv' = [srv EXCEPT !.pc = pc, !.base = MixRun.base, !.count = MixRun.count]
  PROVE  /\ srv' \in Servers /\ srv'.base + srv'.count <= Total /\ srv'.pc = pc
         /\ srv'.base = MixRun.base /\ srv'.count = MixRun.count
         /\ srv'.took = srv.took /\ srv'.sent = srv.sent
<1>1. MixRun.base \in Channels /\ MixRun.count \in 1 .. Total /\ MixRun.base + MixRun.count <= Total
  BY MixRunIs
<1>2. srv \in Servers
  BY DEF MixerTypes
<1> QED BY <1>1, <1>2 DEF Servers

LEMMA LookStep ==
  ASSUME MixerIInv, Look
  PROVE  MixerIInv'
<1>1. /\ srv.pc = "look" /\ stale' = FALSE
      /\ srv' = [srv EXCEPT !.pc = "ack", !.base = MixRun.base, !.count = MixRun.count]
      /\ UNCHANGED <<record, holder, level, bypass, asked, up, down, mixer, unseen, undone, left, seen>>
  BY DEF Look, streams, mix, bounds
<1>2. MixerTypes /\ up = <<>> /\ down = <<>> /\ ~mixer.open /\ asked \in Mixers /\ srv.took = NoMove
  BY <1>1 DEF MixerIInv, MixerStages
<1>3. /\ srv' \in Servers /\ srv'.base + srv'.count <= Total /\ srv'.pc = "ack"
      /\ srv'.base = MixRun.base /\ srv'.count = MixRun.count /\ srv'.took = NoMove
  <2>1. "ack" \in MixPlaces
    BY DEF MixPlaces
  <2> QED BY <1>1, <1>2, <2>1, LookIs
<1>4. MixerTypes'
  BY <1>1, <1>2, <1>3 DEF MixerTypes
<1>5. MixerStages'
  BY <1>1, <1>2, <1>3 DEF MixerStages
<1>6. AnswersFollow'
  BY <1>1, <1>2, <1>3 DEF AnswersFollow
<1>7. LevelsFollow'
  <2>1. Untouched' <=> Untouched
    BY <1>1 DEF Untouched
  <2> QED BY <1>1, <1>3, <2>1 DEF MixerIInv, LevelsFollow
<1>8. RunFollows'
  <2>1. MixRun' = MixRun
    BY <1>1, MixRunStays
  <2> QED BY <1>3, <2>1 DEF RunFollows
<1> QED BY <1>4, <1>5, <1>6, <1>7, <1>8 DEF MixerIInv

\* A step of the thread that keeps its run.
LEMMA SameRun ==
  ASSUME MixerIInv, srv.pc \notin {"closed", "look"}, UNCHANGED <<record, asked, stale>>,
         srv'.base = srv.base, srv'.count = srv.count
  PROVE  RunFollows'
<1>1. MixRun' = MixRun
  BY MixRunStays
<1> QED BY <1>1 DEF MixerIInv, RunFollows

LEMMA AckStep ==
  ASSUME MixerIInv, Ack
  PROVE  MixerIInv'
<1>1. /\ srv.pc = "ack" /\ srv' = [srv EXCEPT !.pc = "remember", !.sent = Stands(srv.base)]
      /\ mixer' = Follows(Stands(srv.base)) /\ unseen' = {} /\ undone' = {}
      /\ UNCHANGED <<record, holder, level, bypass, asked, up, down, stale, left, seen>>
  BY DEF Ack, streams, mix, bounds
<1>2. MixerTypes /\ up = <<>> /\ down = <<>> /\ asked \in Mixers /\ srv.took = NoMove
  BY <1>1 DEF MixerIInv, MixerStages
<1>3. Stands(srv.base) \in Shown
  BY <1>2, ServerIs
<1>4. /\ srv' \in Servers /\ srv'.base = srv.base /\ srv'.count = srv.count /\ srv'.pc = "remember"
      /\ srv'.took = NoMove /\ srv'.sent = Stands(srv.base)
  BY <1>1, <1>2, <1>3 DEF MixerTypes, Servers, MixPlaces
<1>5. /\ mixer' \in ShownMixers /\ mixer'.bypass = srv'.sent.bypass
      /\ mixer'.gain = srv'.sent.gain /\ mixer'.mute = srv'.sent.mute
  BY <1>1, <1>3, <1>4 DEF Follows, Shown, ShownMixers
<1>6. MixerTypes'
  BY <1>1, <1>2, <1>4, <1>5 DEF MixerTypes
<1>7. MixerStages'
  BY <1>1, <1>2, <1>4 DEF MixerStages
<1>8. AnswersFollow'
  <2>1. \A f \in Elements : mixer'[f] = srv'.sent[f] /\ Silent(up', f)
    BY <1>1, <1>2, <1>5, NoneComing DEF Elements
  <2>2. \A f \in Elements : AsTold(f)'
    BY <2>1 DEF AsTold, Silent
  <2> QED BY <1>1, <1>2, <1>4, <1>5, <2>2 DEF AnswersFollow
<1>9. LevelsFollow'
  <2>1. Untouched' <=> Untouched
    BY <1>1 DEF Untouched
  <2> QED BY <1>1, <1>4, <2>1 DEF MixerIInv, LevelsFollow
<1>10. RunFollows'
  BY <1>1, <1>4, SameRun
<1> QED BY <1>6, <1>7, <1>8, <1>9, <1>10 DEF MixerIInv

LEMMA RememberStep ==
  ASSUME MixerIInv, Remember
  PROVE  MixerIInv'
<1>1. /\ srv.pc = "remember"
      /\ srv' = [srv EXCEPT !.pc = "poll", !.sent = Stands(srv.base)]
      /\ unseen' = {f \in MixFields : Stands(srv.base)[f] # srv.sent[f]}
      /\ UNCHANGED <<record, holder, level, bypass, asked, up, down, mixer, undone, stale, left, seen>>
  BY DEF Remember, streams, mix, bounds
<1>2. MixerTypes /\ down = <<>> /\ asked \in Mixers /\ srv.took = NoMove
  BY <1>1 DEF MixerIInv, MixerStages
<1>3. Stands(srv.base) \in Shown /\ Run(srv) \subseteq Channels
  BY <1>2, ServerIs
<1>4. /\ srv' \in Servers /\ srv'.base = srv.base /\ srv'.count = srv.count /\ srv'.pc = "poll"
      /\ srv'.took = NoMove /\ srv'.sent = Stands(srv.base)
  BY <1>1, <1>2, <1>3 DEF MixerTypes, Servers, MixPlaces
<1>5. MixerTypes'
  BY <1>1, <1>2, <1>4 DEF MixerTypes
<1>6. MixerStages'
  BY <1>1, <1>2, <1>4 DEF MixerIInv, MixerStages
<1>7. AnswersFollow'
  <2>1. \A f \in MixFields : srv'.sent[f] = srv.sent[f] \/ f \in unseen'
    BY <1>1, <1>4
  <2>2. ASSUME mixer.open
        PROVE  mixer.bypass = srv.sent.bypass /\ \A f \in Elements : AsTold(f)
    BY <1>1, <2>2 DEF MixerIInv, AnswersFollow
  <2>3. ASSUME mixer.open, NEW f \in Elements
        PROVE  Explained(f)'
    <3>1. NoMove.field # f /\ f \in MixFields
      BY DEF NoMove, Elements, MixFields
    <3>2. AsTold(f)
      BY <2>2, <2>3
    <3>3. /\ Silent(up, f)' <=> Silent(up, f)
          /\ Coming(up, f, mixer[f])' <=> Coming(up, f, mixer[f])
      BY <1>1 DEF Silent, Coming
    <3> QED BY <1>1, <1>4, <2>1, <3>1, <3>2, <3>3 DEF Explained, AsTold
  <2>4. "bypass" \in MixFields
    BY DEF MixFields
  <2> QED BY <1>1, <1>2, <1>4, <2>1, <2>2, <2>3, <2>4 DEF AnswersFollow
<1>8. LevelsFollow'
  <2>1. Untouched' <=> Untouched
    BY <1>1 DEF Untouched
  <2>2. Run(srv)' = Run(srv)
    BY <1>4 DEF Run
  <2>3. Untouched => /\ \A c \in Channels : ~bypass[c]
                     /\ left.opens # MaxOpens /\ \A c \in Channels : level[c] = Default
    BY <1>1 DEF MixerIInv, LevelsFollow
  <2>4. Untouched => LevelsAgree'
    BY <1>1, <1>3, <2>2, <2>3 DEF LevelsAgree
  <2> QED BY <1>1, <1>4, <2>1, <2>3, <2>4 DEF LevelsFollow
<1>9. RunFollows'
  BY <1>1, <1>4, SameRun
<1> QED BY <1>5, <1>6, <1>7, <1>8, <1>9 DEF MixerIInv

LEMMA WaitStep ==
  ASSUME MixerIInv, Wait
  PROVE  MixerIInv'
<1>1. /\ srv.pc = "poll" /\ srv' = [srv EXCEPT !.pc = "resolve"]
      /\ UNCHANGED <<record, holder, level, bypass, asked, up, down, mixer, unseen, undone, stale, left, seen>>
  BY DEF Wait, ServeGoes, streams, mix, bounds
<1>2. MixerTypes /\ asked \in Mixers /\ srv.took = NoMove
  BY <1>1 DEF MixerIInv, MixerStages
<1>3. /\ srv' \in Servers /\ srv'.base = srv.base /\ srv'.count = srv.count /\ srv'.pc = "resolve"
      /\ srv'.took = NoMove /\ srv'.sent = srv.sent
  BY <1>1, <1>2 DEF MixerTypes, Servers, MixPlaces
<1>4. MixerTypes'
  BY <1>1, <1>2, <1>3 DEF MixerTypes
<1>5. MixerStages'
  BY <1>1, <1>2, <1>3 DEF MixerStages
<1>6. AnswersFollow'
  <2>1. \A f \in Elements : Explained(f)' <=> Explained(f)
    BY <1>1, <1>2, <1>3, ExplainedStays
  <2> QED BY <1>1, <1>3, <2>1 DEF MixerIInv, AnswersFollow
<1>7. LevelsFollow'
  <2>1. Untouched' <=> Untouched
    BY <1>1 DEF Untouched
  <2>2. LevelsAgree' <=> LevelsAgree
    BY <1>1, <1>3 DEF LevelsAgree, Run
  <2> QED BY <1>1, <1>3, <2>1, <2>2 DEF MixerIInv, LevelsFollow
<1>8. RunFollows'
  BY <1>1, <1>3, SameRun
<1> QED BY <1>4, <1>5, <1>6, <1>7, <1>8 DEF MixerIInv

LEMMA TakeSetMixStep ==
  ASSUME MixerIInv, TakeSetMix
  PROVE  MixerIInv'
<1> DEFINE m == Head(up)
<1>1. /\ srv.pc = "poll" /\ up # <<>> /\ up' = Tail(up)
      /\ level' = IF bypass[srv.base] THEN level
                  ELSE [c \in Channels |-> IF c \in Run(srv)
                          THEN [level[c] EXCEPT ![m.field] = m.value] ELSE level[c]]
      /\ srv' = [srv EXCEPT !.pc = "resolve", !.took = m]
      /\ UNCHANGED <<record, holder, bypass, asked, down, mixer, unseen, undone, stale, left, seen>>
  BY DEF TakeSetMix, streams, bounds
<1>2. MixerTypes /\ asked \in Mixers /\ srv.took = NoMove
  BY <1>1 DEF MixerIInv, MixerStages
<1>3. up \in Seq(Moved) /\ level \in [Channels -> Level] /\ bypass \in [Channels -> BOOLEAN]
  BY <1>2 DEF MixerTypes
<1>4. m \in Moved /\ Tail(up) \in Seq(Moved)
  BY <1>1, <1>3, TailIs
<1> HIDE DEF m
<1>5. /\ srv' \in Servers /\ srv'.base = srv.base /\ srv'.count = srv.count /\ srv'.pc = "resolve"
      /\ srv'.took = m /\ srv'.sent = srv.sent
  BY <1>1, <1>2, <1>4 DEF MixerTypes, Servers, MixPlaces
<1>6. /\ srv.base \in Channels /\ srv.base \in Run(srv) /\ Run(srv) \subseteq Channels
      /\ Run(srv)' = Run(srv)
  BY <1>2, <1>5, ServerIs DEF Run
<1>7. \A c \in Channels : [level[c] EXCEPT ![m.field] = m.value] \in Level
  <2> TAKE c \in Channels
  <2>1. level[c] \in Level
    BY <1>3
  <2>2. CASE m.field = "gain"
    <3>1. [level[c] EXCEPT !.gain = m.value] \in Level
      BY <1>4, <2>1, <2>2, MovedIs DEF Level
    <3> QED BY <2>2, <3>1
  <2>3. CASE m.field = "mute"
    <3>1. [level[c] EXCEPT !.mute = m.value] \in Level
      BY <1>4, <2>1, <2>3, MovedIs DEF Level
    <3> QED BY <2>3, <3>1
  <2> QED BY <1>4, <2>2, <2>3, MovedIs
<1>8. level' \in [Channels -> Level]
  BY <1>1, <1>3, <1>7
<1>9. MixerTypes'
  BY <1>1, <1>2, <1>4, <1>5, <1>8 DEF MixerTypes
<1>10. MixerStages'
  BY <1>1, <1>2, <1>5 DEF MixerIInv, MixerStages
<1>11. AnswersFollow'
  <2>1. ASSUME NEW f \in Elements, Explained(f) PROVE Explained(f)'
    <3>1. NoMove.field # f
      BY DEF NoMove, Elements
    <3>2. \/ ~Coming(up, f, mixer[f]) \/ Coming(Tail(up), f, mixer[f])
          \/ m.field = f /\ m.value = mixer[f] /\ Silent(Tail(up), f)
      BY <1>1, <1>3, ComingOn DEF m
    <3>3. Silent(up, f) => Silent(Tail(up), f) /\ m.field # f
      BY <1>1, <1>3, SilentOn DEF m
    <3>4. /\ Silent(up, f)' <=> Silent(Tail(up), f)
          /\ Coming(up, f, mixer[f])' <=> Coming(Tail(up), f, mixer[f])
      BY <1>1 DEF Silent, Coming
    <3> QED BY <1>1, <1>2, <1>5, <2>1, <3>1, <3>2, <3>3, <3>4 DEF Explained
  <2> QED BY <1>1, <1>5, <2>1 DEF MixerIInv, AnswersFollow
<1>12. LevelsFollow'
  <2>1. Untouched' <=> Untouched
    BY <1>1 DEF Untouched
  <2>2. Untouched => /\ \A c \in Channels : ~bypass[c]
                     /\ left.opens # MaxOpens /\ LevelsAgree
    BY <1>1 DEF MixerIInv, LevelsFollow
  <2>3. LevelsAgree => \A c, d \in Run(srv) : level[c] = level[d]
    BY DEF LevelsAgree
  <2>4. LevelsAgree => \A c, d \in Run(srv) : level'[c] = level'[d]
    BY <1>1, <1>6, <2>3
  <2>5. LevelsAgree => LevelsAgree'
    BY <1>6, <2>4 DEF LevelsAgree
  <2> QED BY <1>1, <1>5, <2>1, <2>2, <2>5 DEF LevelsFollow
<1>13. RunFollows'
  BY <1>1, <1>5, SameRun
<1> QED BY <1>9, <1>10, <1>11, <1>12, <1>13 DEF MixerIInv

\* Two runs of the same channels start at the same one.
LEMMA SameEnds ==
  ASSUME MixerTypes, NEW r, r.base \in Channels, r.count \in 1 .. Total, Run(r) = Run(srv)
  PROVE  r.base = srv.base
<1>1. r.base \in Nat /\ r.count \in Nat /\ r.count >= 1
  BY ChannelsFit
<1>2. srv.base \in Nat /\ srv.count \in Nat /\ srv.count >= 1
  BY ServerIs, ChannelsFit
<1>3. r.base \in Run(r) /\ srv.base \in Run(srv)
  BY <1>1, <1>2 DEF Run
<1>4. r.base >= srv.base /\ srv.base >= r.base
  BY <1>1, <1>2, <1>3 DEF Run
<1> QED BY <1>1, <1>2, <1>4

LEMMA ResolveStep ==
  ASSUME MixerIInv, Resolve
  PROVE  MixerIInv'
<1> DEFINE moved == Run(MixRun) # Run(srv)
<1>1. /\ srv.pc = "resolve" /\ stale' = FALSE
      /\ srv' = [srv EXCEPT !.pc = "compare", !.base = MixRun.base, !.count = MixRun.count]
      /\ level' = IF moved /\ ~bypass[MixRun.base]
                    THEN AllSet(MixRun, level[srv.base].gain, level[srv.base].mute) ELSE level
      /\ UNCHANGED <<record, holder, bypass, asked, up, down, mixer, unseen, undone, left, seen>>
  BY DEF Resolve, streams, bounds
<1>2. MixerTypes /\ asked \in Mixers
  BY <1>1 DEF MixerIInv, MixerStages
<1>3. level \in [Channels -> Level] /\ bypass \in [Channels -> BOOLEAN] /\ srv.base \in Channels
  BY <1>2, ServerIs DEF MixerTypes
<1>4. MixRun.base \in Channels /\ MixRun.count \in 1 .. Total /\ MixRun.base + MixRun.count <= Total
  BY <1>2, MixRunIs
<1>5. /\ srv' \in Servers /\ srv'.base + srv'.count <= Total /\ srv'.pc = "compare"
      /\ srv'.base = MixRun.base /\ srv'.count = MixRun.count /\ srv'.took = srv.took
      /\ srv'.sent = srv.sent
  <2>1. "compare" \in MixPlaces
    BY DEF MixPlaces
  <2> QED BY <1>1, <1>2, <2>1, LookIs
<1>6. Run(srv)' = Run(MixRun) /\ Run(MixRun) \subseteq Channels
  <2>1. Run(srv)' = Run(MixRun)
    BY <1>5 DEF Run
  <2>2. MixRun.base \in Nat /\ MixRun.count \in Nat
    BY <1>4, ChannelsFit
  <2>3. Run(MixRun) \subseteq Channels
    BY <1>4, <2>2, ChannelsFit DEF Run, Channels
  <2> QED BY <2>1, <2>3
<1>7. ~moved => MixRun.base = srv.base
  BY <1>2, <1>4, SameEnds
<1>8. /\ ~moved \/ bypass[MixRun.base] => level' = level
      /\ moved /\ ~bypass[MixRun.base] =>
           \A c \in Channels : level'[c] = IF c \in Run(MixRun)
             THEN [gain |-> level[srv.base].gain, mute |-> level[srv.base].mute] ELSE level[c]
  BY <1>1 DEF AllSet
<1> HIDE DEF moved
<1>9. level' \in [Channels -> Level]
  <2>1. level[srv.base] \in Level
    BY <1>3
  <2>2. [gain |-> level[srv.base].gain, mute |-> level[srv.base].mute] \in Level
    BY <2>1 DEF Level
  <2> QED BY <1>1, <1>3, <2>2 DEF AllSet
<1>11. MixerTypes'
  BY <1>1, <1>2, <1>5, <1>9 DEF MixerTypes
<1>12. MixerStages'
  BY <1>1, <1>2, <1>5 DEF MixerIInv, MixerStages
<1>13. AnswersFollow'
  <2>1. \A f \in Elements : Explained(f)' <=> Explained(f)
    BY <1>1, <1>5, ExplainedStays
  <2> QED BY <1>1, <1>5, <2>1 DEF MixerIInv, AnswersFollow
<1>14. LevelsFollow'
  <2>1. Untouched' <=> Untouched
    BY <1>1 DEF Untouched
  <2>2. Untouched => /\ \A c \in Channels : ~bypass[c]
                     /\ left.opens # MaxOpens /\ LevelsAgree
    BY <1>1 DEF MixerIInv, LevelsFollow
  <2>3. ASSUME Untouched PROVE LevelsAgree'
    <3>1. CASE moved
      <4>1. ~bypass[MixRun.base]
        BY <1>4, <2>2, <2>3
      <4>2. \A c, d \in Run(MixRun) : level'[c] = level'[d]
        BY <1>6, <1>8, <3>1, <4>1
      <4> QED BY <1>6, <4>2 DEF LevelsAgree
    <3>2. CASE ~moved
      <4>1. Run(srv)' = Run(srv) /\ level' = level
        BY <1>6, <1>8, <3>2 DEF moved
      <4> QED BY <2>2, <2>3, <4>1 DEF LevelsAgree
    <3> QED BY <3>1, <3>2
  <2> QED BY <1>1, <1>5, <2>1, <2>2, <2>3 DEF LevelsFollow
<1>15. RunFollows'
  <2>1. MixRun' = MixRun
    BY <1>1, MixRunStays
  <2> QED BY <1>5, <2>1 DEF RunFollows
<1> QED BY <1>11, <1>12, <1>13, <1>14, <1>15 DEF MixerIInv

LEMMA CompareStep ==
  ASSUME MixerIInv, Compare
  PROVE  MixerIInv'
<1> DEFINE now == Stands(srv.base)
<1> DEFINE asks == {srv.took.field} \cap Elements
           stands == {f \in asks : now[f] = srv.took.value}
<1>1. /\ srv.pc = "compare"
      /\ srv' = [srv EXCEPT !.pc = "poll", !.took = NoMove, !.sent = now]
      /\ down' = IF now = srv.sent THEN down ELSE Append(down, now)
      /\ unseen' = IF now # srv.sent THEN {}
                   ELSE (unseen \cup (IF "bypass" \in unseen THEN asks ELSE {})) \ stands
      /\ undone' = IF now # srv.sent THEN {}
                   ELSE (undone \cup (IF now.bypass THEN {} ELSE asks)) \ stands
      /\ UNCHANGED <<record, holder, level, bypass, asked, up, mixer, stale, left, seen>>
  BY DEF Compare, Looks, streams, mix, bounds
<1>2. MixerTypes /\ asked \in Mixers
  BY <1>1 DEF MixerIInv, MixerStages
<1>3. now \in Shown /\ down \in Seq(Shown)
  BY <1>2, ServerIs DEF MixerTypes
<1>4. now' = now
  <2>1. srv'.base = srv.base
    BY <1>1, <1>2 DEF MixerTypes, Servers
  <2> QED BY <1>1, <2>1 DEF Stands
<1> HIDE DEF now
<1>5. /\ srv' \in Servers /\ srv'.base = srv.base /\ srv'.count = srv.count /\ srv'.pc = "poll"
      /\ srv'.took = NoMove /\ srv'.sent = now
  BY <1>1, <1>2, <1>3 DEF MixerTypes, Servers, MixPlaces
<1>6. /\ Append(down, now) \in Seq(Shown) /\ Append(down, now) # <<>>
      /\ Append(down, now)[Len(Append(down, now))] = now
  <2>1. /\ Append(down, now) \in Seq(Shown) /\ Append(down, now) # <<>>
        /\ Len(Append(down, now)) = Len(down) + 1 /\ Append(down, now)[Len(down) + 1] = now
    BY <1>3, AppendIs
  <2> QED BY <2>1
<1>7. down' \in Seq(Shown) /\ unseen' \subseteq MixFields /\ undone' \subseteq Elements
  <2>1. asks \subseteq Elements /\ Elements \subseteq MixFields
    BY DEF MixFields
  <2>2. unseen \subseteq MixFields /\ undone \subseteq Elements
    BY <1>2 DEF MixerTypes
  <2> HIDE DEF asks, stands
  <2> QED BY <1>1, <1>3, <1>6, <2>1, <2>2
<1>8. MixerTypes'
  BY <1>1, <1>2, <1>5, <1>7 DEF MixerTypes
<1>9. MixerStages'
  BY <1>1, <1>2, <1>5 DEF MixerIInv, MixerStages
<1>10. AnswersFollow'
  <2>1. down # <<>> => down[Len(down)] = srv.sent
    BY DEF MixerIInv, AnswersFollow
  <2>2. CASE now # srv.sent
    <3>1. down' = Append(down, now)
      BY <1>1, <2>2
    <3>2. down' # <<>> /\ down'[Len(down')] = now
      BY <1>6, <3>1
    <3> QED BY <1>5, <3>2 DEF AnswersFollow
  <2>3. CASE now = srv.sent
    <3>1. /\ down' = down
          /\ unseen' = (unseen \cup (IF "bypass" \in unseen THEN asks ELSE {})) \ stands
          /\ undone' = (undone \cup (IF now.bypass THEN {} ELSE asks)) \ stands
      BY <1>1, <2>3
    <3>2. ASSUME mixer.open, down = <<>>
          PROVE  /\ mixer.bypass # srv.sent.bypass => "bypass" \in unseen
                 /\ \A f \in Elements : Explained(f)
      BY <1>1, <3>2 DEF MixerIInv, AnswersFollow
    <3>3. "bypass" \in unseen => "bypass" \in unseen'
      <4>1. "bypass" \notin stands
        BY DEF Elements
      <4> QED BY <3>1, <4>1
    <3>4. ASSUME mixer.open, down = <<>>, NEW f \in Elements
          PROVE  Explained(f)'
      <4>1. NoMove.field # f
        BY DEF NoMove, Elements
      <4>2. /\ Silent(up, f)' <=> Silent(up, f)
            /\ Coming(up, f, mixer[f])' <=> Coming(up, f, mixer[f])
        BY <1>1 DEF Silent, Coming
      <4>3. f \in unseen \cup undone /\ srv.took.field # f => f \in unseen' \cup undone'
        BY <3>1
      <4>4. ASSUME srv.took.field = f, srv.took.value # now[f], mixer.bypass # now.bypass \/ ~now.bypass
            PROVE  f \in unseen' \cup undone'
        <5>1. f \in asks /\ f \notin stands
          BY <4>4
        <5>2. CASE ~now.bypass
          BY <3>1, <5>1, <5>2
        <5>3. CASE mixer.bypass # now.bypass
          <6>1. "bypass" \in unseen
            BY <2>3, <3>2, <3>4, <5>3
          <6> QED BY <3>1, <5>1, <6>1
        <5> QED BY <4>4, <5>2, <5>3
      <4>5. Explained(f)
        BY <3>2, <3>4
      <4>6. mixer.bypass \in BOOLEAN /\ now.bypass \in BOOLEAN
        BY <1>2, <1>3 DEF MixerTypes, ShownMixers, Shown
      <4> HIDE DEF asks, stands
      <4> QED BY <1>1, <1>5, <2>3, <4>1, <4>2, <4>3, <4>4, <4>5, <4>6 DEF Explained
    <3> QED BY <1>1, <1>5, <2>1, <2>3, <3>1, <3>2, <3>3, <3>4 DEF AnswersFollow
  <2> QED BY <2>2, <2>3
<1>11. LevelsFollow'
  <2>1. Untouched' <=> Untouched
    BY <1>1 DEF Untouched
  <2>2. LevelsAgree' <=> LevelsAgree
    BY <1>1, <1>5 DEF LevelsAgree, Run
  <2> QED BY <1>1, <1>5, <2>1, <2>2 DEF MixerIInv, LevelsFollow
<1>12. RunFollows'
  BY <1>1, <1>5, SameRun
<1> QED BY <1>8, <1>9, <1>10, <1>11, <1>12 DEF MixerIInv

LEMMA HangUpStep ==
  ASSUME MixerIInv, HangUp
  PROVE  MixerIInv'
<1>1. /\ srv.pc = "poll" /\ ~mixer.open /\ srv' = Shut /\ up' = <<>> /\ down' = <<>>
      /\ unseen' = {} /\ undone' = {}
      /\ UNCHANGED <<record, holder, level, bypass, asked, mixer, stale, left, seen>>
  BY DEF HangUp, streams, mix, bounds
<1>2. MixerTypes
  BY DEF MixerIInv
<1>3. srv' \in Servers /\ srv'.base + srv'.count <= Total /\ srv'.pc = "closed" /\ srv'.took = NoMove
  <2> DEFINE told == [gain |-> Default.gain, mute |-> FALSE, bypass |-> FALSE]
  <2>1. told \in Shown
    BY MixerFits DEF Shown
  <2>2. srv' = [pc |-> "closed", base |-> 0, count |-> 1, took |-> NoMove, sent |-> told]
    BY <1>1 DEF Shut
  <2> HIDE DEF told
  <2>3. 0 + 1 <= Total
    BY ChannelsFit
  <2> QED BY <2>1, <2>2, <2>3, ChannelsFit DEF Servers, MixPlaces
<1>4. up' \in Seq(Moved) /\ down' \in Seq(Shown)
  BY <1>1
<1>5. MixerTypes'
  BY <1>1, <1>2, <1>3, <1>4 DEF MixerTypes
<1>6. MixerStages'
  BY <1>1, <1>3 DEF MixerStages
<1>7. AnswersFollow'
  BY <1>1 DEF AnswersFollow
<1>8. LevelsFollow'
  <2>1. Untouched' <=> Untouched
    BY <1>1 DEF Untouched
  <2> QED BY <1>1, <1>3, <2>1 DEF MixerIInv, LevelsFollow
<1>9. RunFollows'
  BY <1>3 DEF RunFollows
<1> QED BY <1>5, <1>6, <1>7, <1>8, <1>9 DEF MixerIInv

----------------------------------------------------------------------------
(* The mixer.                                                              *)

\* A call of the mixer's leaves the device's levels and the run alone.
LEMMA CallsKeep ==
  ASSUME MixerIInv, UNCHANGED <<record, asked, level, bypass, srv, stale, seen>>, left'.opens = left.opens
  PROVE  LevelsFollow' /\ RunFollows'
<1>1. LevelsFollow'
  BY LevelsStay
<1>2. RunFollows'
  BY RunStays
<1> QED BY <1>1, <1>2

LEMMA CtlPumpStep ==
  ASSUME MixerIInv, CtlPump
  PROVE  MixerIInv'
<1>1. /\ mixer.open /\ down # <<>> /\ down' = Tail(down) /\ mixer' = Follows(Head(down))
      /\ UNCHANGED <<record, holder, level, bypass, asked, srv, up, unseen, undone, stale, left, seen>>
  BY DEF CtlPump, streams, mix, bounds
<1>2. MixerTypes /\ down \in Seq(Shown) /\ srv.pc \notin {"closed", "look", "ack", "remember"}
  BY <1>1 DEF MixerIInv, MixerTypes, MixerStages
<1>3. /\ Tail(down) \in Seq(Shown) /\ Head(down) = down[1] /\ Head(down) \in Shown
      /\ Len(down) \in Nat /\ Len(down) >= 1 /\ Len(Tail(down)) = Len(down) - 1
      /\ \A i \in 1 .. Len(down) - 1 : Tail(down)[i] = down[i + 1]
      /\ Tail(down) = <<>> <=> Len(down) = 1
  BY <1>1, <1>2, TailIs
<1>4. mixer' \in ShownMixers
  BY <1>1, <1>3 DEF Follows, Shown, ShownMixers
<1>5. MixerTypes'
  BY <1>1, <1>2, <1>3, <1>4 DEF MixerTypes
<1>6. MixerStages'
  BY <1>1, <1>2 DEF MixerIInv, MixerStages
<1>7. AnswersFollow'
  <2>1. down[Len(down)] = srv.sent
    BY <1>1 DEF MixerIInv, AnswersFollow
  <2>2. Tail(down) # <<>> => Tail(down)[Len(Tail(down))] = srv.sent
    <3>1. SUFFICES ASSUME Len(down) # 1 PROVE Tail(down)[Len(Tail(down))] = srv.sent
      BY <1>3
    <3>2. Len(Tail(down)) \in 1 .. Len(down) - 1 /\ Len(Tail(down)) + 1 = Len(down)
      BY <1>3, <3>1
    <3>3. Tail(down)[Len(Tail(down))] = down[Len(Tail(down)) + 1]
      BY <1>3, <3>2
    <3> QED BY <2>1, <3>2, <3>3
  <2>3. Tail(down) = <<>> => Head(down) = srv.sent
    BY <1>3, <2>1
  <2>4. Tail(down) = <<>> => /\ mixer'.gain = srv.sent.gain /\ mixer'.mute = srv.sent.mute
                             /\ mixer'.bypass = srv.sent.bypass
    BY <1>1, <2>3 DEF Follows
  <2>5. Tail(down) = <<>> => \A f \in Elements : Explained(f)'
    BY <1>1, <2>4 DEF Explained, Elements
  <2> QED BY <1>1, <1>2, <2>2, <2>4, <2>5 DEF AnswersFollow
<1>8. LevelsFollow' /\ RunFollows'
  BY <1>1, CallsKeep
<1> QED BY <1>5, <1>6, <1>7, <1>8 DEF MixerIInv

LEMMA WriteIntegerStep ==
  ASSUME MixerIInv, WriteInteger
  PROVE  MixerIInv'
<1>1. PICK e \in Elements : \E v \in (IF e = "gain" THEN Gains ELSE BOOLEAN) \ {mixer[e]} :
        /\ mixer' = [mixer EXCEPT ![e] = v]
        /\ up' = Append(up, [field |-> e, value |-> v])
  BY DEF WriteInteger
<1>2. PICK v \in IF e = "gain" THEN Gains ELSE BOOLEAN :
        /\ mixer' = [mixer EXCEPT ![e] = v]
        /\ up' = Append(up, [field |-> e, value |-> v])
  BY <1>1
<1>3. /\ mixer.open /\ ~mixer.bypass /\ Uses("writes")
      /\ UNCHANGED <<record, holder, level, bypass, asked, srv, down, unseen, undone, stale, seen>>
  BY DEF WriteInteger, streams, mix
<1>4. MixerTypes /\ up \in Seq(Moved) /\ mixer \in ShownMixers /\ srv.pc \notin {"closed", "look", "ack"}
  BY <1>3 DEF MixerIInv, MixerTypes, MixerStages
<1>5. /\ left' \in [writes : 0 .. MaxWrites, events : 0 .. MaxEvents, opens : 0 .. MaxOpens]
      /\ left'.opens = left.opens
  BY <1>3, <1>4, UsesIs
<1> DEFINE m == [field |-> e, value |-> v]
<1>6. (e = "gain" /\ v \in Gains) \/ (e = "mute" /\ v \in BOOLEAN)
  BY <1>2 DEF Elements
<1>7. m \in Moved /\ m.field = e /\ m.value = v
  BY <1>6 DEF Moved
<1>8. up' = Append(up, m)
  BY <1>2
<1> HIDE DEF m
<1>9. Append(up, m) \in Seq(Moved)
  BY <1>4, <1>7, AppendIs
<1>10. /\ mixer' \in ShownMixers /\ mixer'.open /\ mixer'.bypass = mixer.bypass
       /\ mixer'[e] = v /\ \A f \in Elements : f # e => mixer'[f] = mixer[f]
  <2>1. CASE e = "gain" /\ v \in Gains
    <3>1. mixer' = [mixer EXCEPT !.gain = v]
      BY <1>2, <2>1
    <3> QED BY <1>3, <1>4, <2>1, <3>1 DEF ShownMixers, Elements
  <2>2. CASE e = "mute" /\ v \in BOOLEAN
    <3>1. mixer' = [mixer EXCEPT !.mute = v]
      BY <1>2, <2>2
    <3> QED BY <1>3, <1>4, <2>2, <3>1 DEF ShownMixers, Elements
  <2> QED BY <1>6, <2>1, <2>2
<1>11. MixerTypes'
  BY <1>3, <1>4, <1>5, <1>8, <1>9, <1>10 DEF MixerTypes
<1>12. MixerStages'
  BY <1>3, <1>4 DEF MixerIInv, MixerStages
<1>13. AnswersFollow'
  <2>1. Coming(up, e, mixer[e])'
    <3>1. Coming(Append(up, m), e, v)
      BY <1>4, <1>7, ComingLast
    <3> QED BY <1>8, <1>10, <3>1 DEF Coming
  <2>2. ASSUME NEW f \in Elements, f # e
        PROVE  /\ Silent(up, f) => Silent(up, f)'
               /\ Coming(up, f, mixer[f]) => Coming(up, f, mixer[f])'
    <3>1. Silent(up, f) => Silent(Append(up, m), f)
      BY <1>4, <1>7, <2>2, SilentStill
    <3>2. Coming(up, f, mixer[f]) => Coming(Append(up, m), f, mixer[f])
      BY <1>4, <1>7, <2>2, ComingStill
    <3> QED BY <1>8, <1>10, <2>2, <3>1, <3>2 DEF Silent, Coming
  <2>3. ASSUME NEW f \in Elements, AsTold(f) PROVE AsTold(f)'
    BY <1>3, <1>10, <2>1, <2>2, <2>3 DEF AsTold
  <2>4. ASSUME NEW f \in Elements, Explained(f) PROVE Explained(f)'
    BY <1>3, <1>10, <2>1, <2>2, <2>4 DEF Explained
  <2> QED BY <1>3, <1>10, <2>3, <2>4 DEF MixerIInv, AnswersFollow
<1>14. LevelsFollow' /\ RunFollows'
  BY <1>3, <1>5, CallsKeep
<1> QED BY <1>11, <1>12, <1>13, <1>14 DEF MixerIInv

LEMMA StCloseStep ==
  ASSUME MixerIInv, StClose
  PROVE  MixerIInv'
<1>1. /\ mixer.open /\ mixer' = NoMixer
      /\ UNCHANGED <<record, holder, level, bypass, asked, srv, up, down, unseen, undone, stale, left, seen>>
  BY DEF StClose, streams, mix, ctlLink, bounds
<1>2. MixerTypes
  BY DEF MixerIInv
<1>3. mixer' \in ShownMixers /\ ~mixer'.open
  BY <1>1, MixerFits DEF NoMixer, ShownMixers
<1>4. MixerTypes'
  BY <1>1, <1>2, <1>3 DEF MixerTypes
<1>5. MixerStages'
  BY <1>1, <1>3 DEF MixerIInv, MixerStages
<1>6. AnswersFollow'
  BY <1>1, <1>3 DEF MixerIInv, AnswersFollow
<1>7. LevelsFollow' /\ RunFollows'
  BY <1>1, CallsKeep
<1> QED BY <1>4, <1>5, <1>6, <1>7 DEF MixerIInv

----------------------------------------------------------------------------
(* What always holds.                                                      *)

LEMMA MixerStart == MixerInit => MixerIInv
<1> SUFFICES ASSUME MixerInit PROVE MixerIInv
  OBVIOUS
<1>1. /\ record = [c \in Channels |-> NoRecord] /\ holder = [c \in Channels |-> NoOne]
      /\ level = [c \in Channels |-> Default] /\ bypass = [c \in Channels |-> FALSE]
      /\ srv = Shut /\ mixer = NoMixer /\ up = <<>> /\ down = <<>>
      /\ unseen = {} /\ undone = {} /\ stale = FALSE
      /\ left = [writes |-> MaxWrites, events |-> MaxEvents, opens |-> MaxOpens] /\ seen = {}
  BY DEF MixerInit
<1>2. srv \in Servers /\ srv.base + srv.count <= Total /\ srv.pc = "closed" /\ srv.took = NoMove
  <2> DEFINE told == [gain |-> Default.gain, mute |-> FALSE, bypass |-> FALSE]
  <2>1. told \in Shown
    BY MixerFits DEF Shown
  <2>2. srv = [pc |-> "closed", base |-> 0, count |-> 1, took |-> NoMove, sent |-> told]
    BY <1>1 DEF Shut
  <2> HIDE DEF told
  <2>3. 0 + 1 <= Total
    BY ChannelsFit
  <2> QED BY <2>1, <2>2, <2>3, ChannelsFit DEF Servers, MixPlaces
<1>3. NoRecord \in Records
  BY ChannelsFit DEF NoRecord, Records
<1>4. /\ record \in [Channels -> Records] /\ holder \in [Channels -> Senders \cup {NoOne}]
      /\ level \in [Channels -> Level] /\ bypass \in [Channels -> BOOLEAN]
  BY <1>1, <1>3, MixerFits
<1>5. mixer \in ShownMixers /\ ~mixer.open
  BY <1>1, MixerFits DEF NoMixer, ShownMixers
<1>6. up \in Seq(Moved) /\ down \in Seq(Shown)
  BY <1>1
<1>7. left \in [writes : 0 .. MaxWrites, events : 0 .. MaxEvents, opens : 0 .. MaxOpens]
  BY <1>1, MixerFits
<1>8. MixerTypes
  BY <1>1, <1>2, <1>4, <1>5, <1>6, <1>7 DEF MixerTypes
<1>9. MixerStages
  BY <1>1, <1>2, <1>5 DEF MixerStages
<1>10. AnswersFollow
  BY <1>1, <1>5 DEF AnswersFollow
<1>11. LevelsFollow
  BY <1>1, <1>2 DEF LevelsFollow
<1>12. RunFollows
  BY <1>2 DEF RunFollows
<1> QED BY <1>8, <1>9, <1>10, <1>11, <1>12 DEF MixerIInv

LEMMA MixerStep == MixerIInv /\ [MixerNext]_mixerVars => MixerIInv'
<1> SUFFICES ASSUME MixerIInv, [MixerNext]_mixerVars PROVE MixerIInv'
  OBVIOUS
<1>1. ASSUME Server PROVE MixerIInv'
  BY <1>1, LookStep, AckStep, RememberStep, WaitStep, TakeSetMixStep, ResolveStep, CompareStep,
     HangUpStep DEF Server
<1>2. ASSUME MixerCalls PROVE MixerIInv'
  BY <1>2, OpenStep, CtlPumpStep, WriteIntegerStep, StCloseStep DEF MixerCalls
<1>3. ASSUME Others PROVE MixerIInv'
  <2>1. \/ \E s \in Senders : Claim(s) \/ NoMixerFormat(s) \/ ReleaseRun(s)
        \/ \E c \in Channels : Forget(c) \/ Web(c)
    BY <1>3 DEF Others
  <2>2. ASSUME NEW s \in Senders, Claim(s) \/ NoMixerFormat(s) \/ ReleaseRun(s) PROVE MixerIInv'
    BY <2>2, ClaimStep, NoMixerFormatStep, ReleaseRunStep
  <2>3. ASSUME NEW c \in Channels, Forget(c) \/ Web(c) PROVE MixerIInv'
    BY <2>3, ForgetStep, WebStep
  <2> QED BY <2>1, <2>2, <2>3
<1>4. CASE UNCHANGED mixerVars
  <2>1. UNCHANGED <<record, holder, level, bypass, asked, srv, up, down, mixer, unseen, undone, stale, left, seen>>
    BY <1>4 DEF mixerVars, streams, mix, ctlLink, bounds
  <2>2. MixerTypes'
    BY <2>1 DEF MixerIInv, MixerTypes
  <2>3. MixerStages'
    BY <2>1 DEF MixerIInv, MixerStages
  <2>4. AnswersFollow'
    BY <2>1, AnswersStay
  <2>5. LevelsFollow' /\ RunFollows'
    BY <2>1, CallsKeep
  <2> QED BY <2>2, <2>3, <2>4, <2>5 DEF MixerIInv
<1> QED BY <1>1, <1>2, <1>3, <1>4 DEF MixerNext

\* Whatever crosses on the wire, and whoever takes runs, lets them go or sets levels meanwhile,
\* each of serve_ctl()'s and the mixer's states is one of the invariant's.
THEOREM MixerAlways == MixerSpec => []MixerIInv
<1>1. MixerInit => MixerIInv
  BY MixerStart
<1>2. MixerIInv /\ [MixerNext]_mixerVars => MixerIInv'
  BY MixerStep
<1> QED BY <1>1, <1>2, PTL DEF MixerSpec

LEMMA MixerShows == MixerIInv => MixerInv
<1> SUFFICES ASSUME MixerIInv PROVE MixerInv
  OBVIOUS
<1>1. MixerTypes
  BY DEF MixerIInv
<1>2. MixerTypeOK
  <2>1. /\ srv.pc \in MixPlaces /\ srv.base \in Channels /\ srv.sent \in Shown
        /\ srv.base \in Nat /\ srv.count \in Nat /\ srv.count >= 1 /\ srv.base + srv.count <= Total
    BY <1>1, ServerIs, ChannelsFit DEF MixerTypes
  <2>2. srv.count \in 1 .. Total - srv.base
    BY <2>1, ChannelsFit
  <2>3. {mixer.open, mixer.mute, mixer.bypass, stale} \subseteq BOOLEAN /\ mixer.gain \in Gains
    BY <1>1 DEF MixerTypes, ShownMixers
  <2>4. \A i \in DOMAIN down : down[i] \in Shown
    BY <1>1 DEF MixerTypes
  <2>5. \A i \in DOMAIN up : up[i].field \in Elements
    <3>1. \A i \in DOMAIN up : up[i] \in Moved
      BY <1>1 DEF MixerTypes
    <3> QED BY <3>1, MovedIs DEF Elements
  <2>6. level \in [Channels -> Level] /\ bypass \in [Channels -> BOOLEAN]
    BY <1>1 DEF MixerTypes
  <2>7. unseen \subseteq MixFields /\ undone \subseteq Elements
    BY <1>1 DEF MixerTypes
  <2> QED BY <2>1, <2>2, <2>3, <2>4, <2>5, <2>6, <2>7 DEF MixerTypeOK, MixPlaces
<1>3. AgreeAtRest
  <2>1. SUFFICES ASSUME srv.pc = "poll", mixer.open, up = <<>>, down = <<>>,
                        NEW f \in MixFields, f \notin unseen \cup undone
                 PROVE  mixer[f] = srv.sent[f]
    BY DEF AgreeAtRest, AtRest
  <2>2. CASE f = "bypass"
    BY <2>1, <2>2 DEF MixerIInv, AnswersFollow
  <2>3. CASE f \in Elements
    <3>1. srv.took = NoMove /\ NoMove.field # f
      BY <2>1, <2>3 DEF MixerIInv, MixerStages, NoMove, Elements
    <3>2. ~Coming(up, f, mixer[f])
      BY <2>1, NoneComing
    <3>3. Explained(f)
      BY <2>1, <2>3 DEF MixerIInv, AnswersFollow
    <3> QED BY <2>1, <3>1, <3>2, <3>3 DEF Explained
  <2> QED BY <2>1, <2>2, <2>3 DEF MixFields
<1>4. OneVolume
  <2>1. Untouched /\ Driven => LevelsAgree
    BY DEF MixerIInv, LevelsFollow, Driven
  <2> QED BY <2>1 DEF OneVolume, Untouched
<1> QED BY <1>2, <1>3, <1>4 DEF MixerInv

\* Once nothing is under way and serve_ctl() has nothing to push, a mixer shows what the device
\* does, and one volume covers the run it drives, for any number of channels, senders and mixers.
THEOREM MixerHolds == MixerSpec => []MixerInv
<1>1. MixerIInv => MixerInv
  BY MixerShows
<1> QED BY <1>1, MixerAlways, PTL

LEMMA StrayStep ==
  MixerIInv /\ [MixerNext]_mixerVars
    => [srv.pc \in {"poll", "resolve"} /\ srv' # srv /\ (srv.pc = "resolve" \/ ~stale)
          => \A c \in Channels : level'[c] # level[c] => c \in Run(MixRun)]_mixerVars
<1> SUFFICES ASSUME MixerIInv, MixerNext, srv.pc \in {"poll", "resolve"}, srv' # srv,
                    srv.pc = "resolve" \/ ~stale, NEW c \in Channels, level'[c] # level[c]
             PROVE  c \in Run(MixRun)
  OBVIOUS
<1>1. level' # level
  OBVIOUS
<1>2. MixerTypes /\ asked \in Mixers
  BY DEF MixerIInv, MixerStages
<1>3. TakeSetMix \/ Resolve
  <2>1. ~Others
    BY DEF Others, Claim, NoMixerFormat, ReleaseRun, Forget, Web, ctlLink
  <2>2. ~MixerCalls
    BY <1>1 DEF MixerCalls, Open, CtlPump, WriteInteger, StClose, mix
  <2>3. ~(Look \/ Ack \/ Remember \/ Wait \/ Compare \/ HangUp)
    BY <1>1 DEF Look, Ack, Remember, Wait, Compare, HangUp, mix
  <2> QED BY <2>1, <2>2, <2>3 DEF MixerNext, Server
<1>4. CASE TakeSetMix
  <2>1. srv.pc = "poll" /\ ~stale
    BY <1>4 DEF TakeSetMix
  <2>2. srv.base = MixRun.base /\ srv.count = MixRun.count
    BY <2>1 DEF MixerIInv, RunFollows
  <2>3. Run(MixRun) = Run(srv)
    BY <2>2 DEF Run
  <2>4. c \notin Run(srv) => level'[c] = level[c]
    BY <1>4 DEF TakeSetMix
  <2> QED BY <2>3, <2>4
<1>5. CASE Resolve
  <2>1. c \notin Run(MixRun) => level'[c] = level[c]
    BY <1>5 DEF Resolve, AllSet
  <2> QED BY <2>1
<1> QED BY <1>3, <1>4, <1>5

\* A SET_MIX changes a channel out of its machine's run at most until serve_ctl() looks at the
\* records next; what the look itself changes is in the run it finds.
THEOREM StraysAreBrief == MixerSpec => StrayIsBrief
<1>1. MixerIInv /\ [MixerNext]_mixerVars
        => [srv.pc \in {"poll", "resolve"} /\ srv' # srv /\ (srv.pc = "resolve" \/ ~stale)
              => \A c \in Channels : level'[c] # level[c] => c \in Run(MixRun)]_mixerVars
  BY StrayStep
<1> QED BY <1>1, MixerAlways, PTL DEF MixerSpec, StrayIsBrief
=============================================================================

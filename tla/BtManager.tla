------------------------------- MODULE BtManager -------------------------------
(***************************************************************************)
(* The Bluetooth manager (src/app/src/bluetooth.cpp): one thread that      *)
(* keeps BlueZ's adapter at the settings, is its pairing agent, carries    *)
(* out what the web handlers post, and has the pairings copied.  BlueZ,    *)
(* one adapter and one device are the surroundings: BlueZ may restart,     *)
(* refuse, give up and pair on its own, and the bus may be lost.           *)
(*                                                                         *)
(* The thread runs the posted commands, then the messages that have come,  *)
(* then tick(); each of these is an action, and the surroundings move in   *)
(* between.  dirty_ and the debounce only choose when the next read is, so *)
(* a read may come at any time.  Left out: names, volumes, audio links,    *)
(* the text of errors, the media player.                                   *)
(***************************************************************************)
EXTENDS Integers, SequencesExt

CONSTANTS
  MaxEvents,   \* bound: posted commands, doings of BlueZ and failures
  MaxAsked     \* bound: the questions BlueZ asks

ASSUME EventsAssumption == MaxEvents \in Nat /\ MaxAsked \in Nat

VARIABLES
  bz,            \* BlueZ and what it stands for
  inbox,         \* its signals and agent calls, not processed yet
  running, bus,  \* running_, bus_ # nullptr
  owner,         \* bluez_owner_: which start of BlueZ, 0 for none
  commands,      \* commands_
  enabled,       \* settings_.enabled, for all of the adapter's settings
  settingsDirty, \* settings_dirty_
  agentRegistered,
  adapter,       \* adapter_ (empty or not, powered) and available_
  listed,        \* devices_ has the device
  paired,        \* paired_, "unknown" until paired_known_
  busy,          \* the device's DevState
  calls,         \* its methods called and not answered
  pending,       \* pending_
  nextId,        \* next_request_id_
  scanUntil, persistAt, persistLate,   \* the timers that are set
  copied,        \* the key the last copy of the pairings has
  ghost,         \* what the properties need to remember
  left           \* the events left

timers == <<scanUntil, persistAt, persistLate>>
known == <<adapter, listed, paired, agentRegistered, owner>>
vars == <<bz, inbox, running, bus, commands, enabled, settingsDirty, known, busy, calls,
          pending, nextId, timers, copied, ghost, left>>

None == [id |-> 0, q |-> 0]   \* no request; a code on display has q = 0 and an id

Methods == {"Pair", "Connect", "Disconnect"}
BusyWith == [m \in Methods |-> CASE m = "Pair" -> "pairing" [] m = "Connect" -> "connecting"
                                 [] OTHER -> "disconnecting"]

\* key is the link key, 0 when not paired; pairing is where a pairing stands;
\* question is the agent call BlueZ waits on; asked counts them and keys counts keys.
BlueZ(gen, powered, key, trusted) ==
  [up |-> TRUE, gen |-> gen, agent |-> FALSE, powered |-> powered, discovering |-> FALSE,
   pairing |-> "none", question |-> 0, asked |-> 0, known |-> TRUE,
   key |-> key, keys |-> 1, trusted |-> trusted]

\* The daemon starts beside what earlier runs and others left: a device that is paired or not,
\* trusted or not, and a copy that is of that pairing or of an older state.
Init ==
  /\ \E key \in 0 .. 1, trusted \in BOOLEAN :
       (trusted => key # 0) /\ bz = BlueZ(1, TRUE, key, trusted)
  /\ inbox = <<>> /\ running = TRUE /\ bus = FALSE /\ owner = 0 /\ commands = <<>>
  /\ enabled \in BOOLEAN /\ settingsDirty = TRUE /\ agentRegistered = FALSE
  /\ adapter = [known |-> FALSE, available |-> FALSE, powered |-> FALSE]
  /\ listed = FALSE /\ paired = "unknown" /\ busy = "" /\ calls = <<>>
  /\ pending = None /\ nextId = 1
  /\ scanUntil = FALSE /\ persistAt = FALSE /\ persistLate = FALSE
  /\ copied \in 0 .. 1 /\ left = MaxEvents
  /\ ghost = [untold |-> {}, gaveUp |-> 0, orphaned |-> FALSE, stale |-> FALSE,
              distrust |-> "", unstopped |-> FALSE, crossed |-> FALSE]

Spend == left > 0 /\ left' = left - 1
\* Something that works, or, for an event, does not.
Outcome(ok) == IF ok THEN UNCHANGED left ELSE Spend

----------------------------------------------------------------------------
(* BlueZ.                                                                  *)

Message(t, q) == [t |-> t, q |-> q, gen |-> bz.gen]

\* A pairing that comes to nothing, and the question in it with it.
Failed(z) == [z EXCEPT !.pairing = "none", !.question = 0]

\* BlueZ takes back what it asks, if it asks.
Withdrawn(z, box) ==
  IF z.question = 0 \/ ~bus THEN box ELSE Append(box, [t |-> "cancel", q |-> 0, gen |-> z.gen])

\* The answer to question q.
Answered(z, q, yes) ==
  IF q # z.question \/ q = 0 THEN z
  ELSE IF yes THEN [z EXCEPT !.question = 0, !.pairing = "accepted"] ELSE Failed(z)

Radio(z, on) ==
  IF on THEN [z EXCEPT !.powered = TRUE]
  ELSE [Failed(z) EXCEPT !.powered = FALSE, !.discovering = FALSE]

manager == <<running, bus, commands, enabled, settingsDirty, known, busy, calls, pending,
             nextId, timers, copied>>

\* A phone pairs, and is a device then; BlueZ asks its default agent.
PhonePairs ==
  /\ Spend /\ bz.up /\ bz.powered /\ bz.agent /\ bz.pairing = "none"
  /\ bz' = [bz EXCEPT !.pairing = "going", !.known = TRUE]
  /\ UNCHANGED <<inbox, manager, ghost>>

\* passkey is what only the operator knows; confirm is every question accepted at once.

BlueZAsks(t) ==
  /\ bz.asked < MaxAsked /\ bz.up /\ bz.agent /\ bz.pairing # "none" /\ bz.question = 0
  /\ bz' = [bz EXCEPT !.asked = @ + 1, !.question = bz.asked + 1]
  /\ inbox' = Append(inbox, Message(t, bz.asked + 1))
  /\ UNCHANGED <<manager, ghost, left>>

\* A code to type on the other side; nothing waits for it.
BlueZShows ==
  /\ Spend /\ bz.up /\ bz.agent /\ bz.pairing # "none" /\ bz.question = 0
  /\ inbox' = Append(inbox, Message("display", 0))
  /\ UNCHANGED <<bz, manager, ghost>>

BlueZGivesUp ==
  /\ bz.up /\ bz.pairing # "none"
  /\ bz' = Failed(bz) /\ inbox' = Withdrawn(bz, inbox)
  /\ UNCHANGED <<manager, ghost, left>>

\* The key is written.  Where the address was paired before and the operator was not asked,
\* nothing tells the manager.
KeyLands ==
  /\ bz.up /\ bz.pairing # "none" /\ bz.question = 0
  /\ bz' = [bz EXCEPT !.pairing = "none", !.key = bz.keys + 1, !.keys = @ + 1, !.known = TRUE]
  /\ ghost' = [ghost EXCEPT
       !.untold = IF bz.pairing = "going" /\ paired = "yes" THEN @ \cup {bz.keys + 1} ELSE @,
       !.distrust = IF bz.key # 0 THEN @ ELSE IF paired = "yes" THEN "again" ELSE ""]
  /\ UNCHANGED <<inbox, manager, left>>

\* It takes the agent and the scan with it; the keys are on the disk.
BlueZLeaves ==
  /\ Spend /\ bz.up
  /\ bz' = [Failed(bz) EXCEPT !.up = FALSE, !.agent = FALSE, !.discovering = FALSE,
                              !.powered = FALSE]
  /\ inbox' = IF bus THEN inbox \o <<Message("release", 0),
                                     [t |-> "owner", q |-> 0, gen |-> 0]>> ELSE inbox
  /\ ghost' = [ghost EXCEPT !.unstopped = FALSE]
  /\ UNCHANGED manager

BlueZComes ==
  /\ ~bz.up
  /\ \E on \in BOOLEAN : bz' = [bz EXCEPT !.up = TRUE, !.gen = @ + 1, !.powered = on]
  /\ inbox' = IF bus THEN Append(inbox, [t |-> "owner", q |-> 0, gen |-> bz.gen + 1]) ELSE inbox
  /\ UNCHANGED <<manager, ghost, left>>

----------------------------------------------------------------------------
(* The requests, the settings, and the copies of the pairings.             *)

\* clear_request(): BlueZ hears of it only where it is told.
Superseded(z, rejected) == IF rejected THEN Answered(z, pending.q, FALSE) ELSE z

Prompt(q) == [id |-> nextId, q |-> q]

HoldRequest(q) ==
  /\ bz' = Superseded(bz, TRUE)
  /\ pending' = Prompt(q) /\ nextId' = nextId + 1

SchedulePersist == persistAt' = TRUE

\* Mutant: a pairing that was answered is copied once.
PersistOnce == persistAt' = TRUE /\ UNCHANGED persistLate

SchedulePersistAfterPairing == persistAt' = TRUE /\ persistLate' = TRUE

\* Mutant: a refusal of BlueZ's is taken for success.
DirtyNoMore(seen, ok) == FALSE

\* reconcile_adapter() on what the last read said of the adapter.
Reconciled(z, seen, ok) == IF seen = enabled \/ ~ok THEN z ELSE Radio(z, enabled)
StillDirty(seen, ok) == seen # enabled /\ ~ok

----------------------------------------------------------------------------
(* The posted commands.                                                    *)

\* q is the question on the operator's screen when the answer is given.
Command(c, id, yes) == [c |-> c, id |-> id, yes |-> yes, q |-> pending.q]
Post(c) == running /\ Spend /\ commands' = Append(commands, c)

posting == <<bz, inbox, running, bus, settingsDirty, known, busy, calls, pending, nextId,
             timers, copied, ghost>>

\* PUT /api/bluetooth: the settings, and discoverable where the body has it.
PutBluetooth == \E on \in BOOLEAN, disc \in {<<>>, <<TRUE>>, <<FALSE>>} :
  /\ running /\ Spend /\ enabled' = on
  /\ commands' = Append(commands, Command("apply", 0, on))
                 \o [i \in DOMAIN disc |-> Command("discoverable", 0, disc[i])]
  /\ UNCHANGED posting

Scan == \E on \in BOOLEAN :
  /\ Post(Command("scan", 0, on)) /\ UNCHANGED <<posting, enabled>>

\* device_action(), set_volume(), player_command(): of a device in the last status.
DeviceAction == \E c \in Methods \cup {"Remove", "quiet"} :
  /\ listed /\ Post(Command(c, 0, TRUE)) /\ UNCHANGED <<posting, enabled>>

\* The answer of an operator who saw this request.
Answer == \E yes \in BOOLEAN :
  /\ pending # None /\ Post(Command("answer", pending.id, yes))
  /\ UNCHANGED <<posting, enabled>>

Take(c) == running /\ commands # <<>> /\ Head(commands).c = c /\ commands' = Tail(commands)
On == Head(commands).yes

DoApply ==
  /\ Take("apply") /\ settingsDirty' = TRUE
  /\ UNCHANGED <<bz, inbox, running, bus, enabled, known, busy, calls, pending, nextId, timers,
                 copied, ghost, left>>

\* It settles the settings first, with what was last read: an adapter that has changed since
\* is left where it is.
DoDiscoverable ==
  /\ Take("discoverable")
  /\ IF ~bus \/ ~adapter.available \/ (On /\ ~adapter.powered)
       THEN UNCHANGED <<bz, settingsDirty, inbox, ghost, left>>
       ELSE \E ok \in BOOLEAN :
              /\ IF bz.up THEN Outcome(ok) ELSE ~ok /\ UNCHANGED left
              /\ bz' = Reconciled(bz, adapter.powered, ok)
              /\ inbox' = IF bz'.pairing # bz.pairing THEN Withdrawn(bz, inbox) ELSE inbox
              /\ settingsDirty' = StillDirty(adapter.powered, ok)
              /\ ghost' = [ghost EXCEPT !.stale = @ \/ (settingsDirty /\ ~settingsDirty'
                                                       /\ adapter.powered # bz.powered)]
  /\ UNCHANGED <<running, bus, enabled, known, busy, calls, pending, nextId, timers, copied>>

\* Mutant: the timer is not set.
StartScanNoTimer(ok) ==
  /\ bz' = [bz EXCEPT !.discovering = @ \/ ok] /\ UNCHANGED <<scanUntil, ghost>>

StartScan(ok) ==
  /\ bz' = [bz EXCEPT !.discovering = @ \/ ok]
  /\ scanUntil' = (scanUntil \/ ok) /\ UNCHANGED ghost

\* Where the last read failed the timer goes and the scan stays.
StopScan ==
  /\ scanUntil' = FALSE
  /\ IF bus /\ adapter.available
       THEN bz' = [bz EXCEPT !.discovering = FALSE] /\ UNCHANGED ghost
       ELSE UNCHANGED bz /\ ghost' = [ghost EXCEPT !.unstopped = @ \/ bz.discovering]

DoScan ==
  /\ Take("scan")
  /\ IF ~On THEN StopScan /\ UNCHANGED left
     ELSE IF ~bus \/ ~adapter.available THEN UNCHANGED <<bz, scanUntil, ghost, left>>
     ELSE \E ok \in BOOLEAN :
            /\ IF bz.powered THEN Outcome(ok) ELSE ~ok /\ UNCHANGED left
            /\ StartScan(ok)
  /\ UNCHANGED <<inbox, running, bus, enabled, settingsDirty, known, busy, calls, pending,
                 nextId, persistAt, persistLate, copied>>

\* Mutant: a reply leaves the device busy.
StillBusy == UNCHANGED busy

\* set_device_state() with nothing running.
NotBusy == busy' = ""

\* call_device(): sent, or not even that.
CallDevice(m, out) ==
  \/ busy' = BusyWith[m] /\ calls' = Append(out, m)
  \/ NotBusy /\ calls' = out

DoDevice == \E m \in Methods :
  /\ Take(m)
  /\ IF ~bus THEN UNCHANGED <<bz, busy, calls>>
     ELSE /\ CallDevice(m, calls)
          /\ bz' = IF m = "Pair" /\ bz.up /\ bz.powered /\ bz.pairing = "none" /\ bz.key = 0
                       /\ bz.known /\ busy' # ""
                     THEN [bz EXCEPT !.pairing = "going"] ELSE bz
  /\ UNCHANGED <<inbox, running, bus, enabled, settingsDirty, known, pending, nextId, timers,
                 copied, ghost, left>>

DoRemove ==
  /\ Take("Remove")
  /\ IF bus /\ bz.up /\ bz.known
       THEN /\ bz' = [Failed(bz) EXCEPT !.known = FALSE, !.key = 0, !.trusted = FALSE]
            /\ SchedulePersist /\ inbox' = Withdrawn(bz, inbox)
       ELSE UNCHANGED <<bz, persistAt, inbox>>
  /\ busy' = IF bus THEN "" ELSE busy
  /\ UNCHANGED <<running, bus, enabled, settingsDirty, known, calls, pending, nextId, scanUntil,
                 persistLate, copied, ghost, left>>

\* set_volume(), call_quiet(): a failure is the device's state.
DoQuiet ==
  /\ Take("quiet")
  /\ \/ UNCHANGED busy
     \/ bus /\ NotBusy
  /\ UNCHANGED <<bz, inbox, running, bus, enabled, settingsDirty, known, calls, pending, nextId,
                 timers, copied, ghost, left>>

\* Mutant: an answer goes to whatever is asked now.
AnyRequest(id) == pending # None

\* It is the request that was answered that is still there.
ThisRequest(id) == pending # None /\ pending.id = id

\* A code on display is only put away; a bad value leaves the request.
DoAnswer ==
  /\ Take("answer")
  /\ LET c == Head(commands) IN
     IF ~ThisRequest(c.id) THEN UNCHANGED <<bz, pending, persistAt, persistLate, ghost>>
     ELSE IF pending.q = 0 THEN pending' = None /\ UNCHANGED <<bz, persistAt, persistLate, ghost>>
     ELSE /\ bz' = IF bus THEN Answered(bz, pending.q, c.yes) ELSE bz
          /\ IF c.yes THEN SchedulePersistAfterPairing ELSE UNCHANGED <<persistAt, persistLate>>
          /\ pending' = None
          /\ ghost' = [ghost EXCEPT !.crossed = @ \/ pending.q # c.q]
  /\ UNCHANGED <<inbox, running, bus, enabled, settingsDirty, known, busy, calls, nextId,
                 scanUntil, copied, left>>

----------------------------------------------------------------------------
(* Signals and the agent's calls, in the order they came.                  *)

Process(t) == running /\ bus /\ inbox # <<>> /\ Head(inbox).t = t /\ inbox' = Tail(inbox)

others == <<running, bus, commands, enabled, adapter, listed, paired, busy, calls, scanUntil,
            copied, ghost, left>>

Owner ==
  /\ Process("owner")
  /\ owner' = Head(inbox).gen /\ agentRegistered' = FALSE /\ settingsDirty' = TRUE
  /\ pending' = None
  /\ UNCHANGED <<bz, others, nextId, persistAt, persistLate>>

\* Only BlueZ may ask, and of a device on this adapter.
MayAsk == owner # 0 /\ owner = Head(inbox).gen /\ adapter.known

Release ==
  /\ Process("release")
  /\ agentRegistered' = (agentRegistered /\ owner # Head(inbox).gen)
  /\ UNCHANGED <<bz, others, owner, settingsDirty, pending, nextId, persistAt, persistLate>>

Cancel ==
  /\ Process("cancel")
  /\ pending' = IF owner = Head(inbox).gen /\ owner # 0 THEN None ELSE pending
  /\ UNCHANGED <<bz, others, owner, agentRegistered, settingsDirty, nextId, persistAt,
                 persistLate>>

AgentCall == \E t \in {"passkey", "confirm", "display"} :
  /\ Process(t)
  /\ LET q == Head(inbox).q IN
     CASE ~MayAsk -> bz' = Answered(bz, q, FALSE)
                     /\ UNCHANGED <<pending, nextId, persistAt, persistLate>>
       [] MayAsk /\ t = "confirm" -> bz' = Answered(bz, q, TRUE) /\ SchedulePersistAfterPairing
                                      /\ UNCHANGED <<pending, nextId>>
       [] OTHER -> /\ IF t = "display" /\ pending # None /\ pending.q = 0
                         THEN UNCHANGED <<bz, pending, nextId>> ELSE HoldRequest(q)
                   /\ UNCHANGED <<persistAt, persistLate>>
  /\ UNCHANGED <<others, owner, agentRegistered, settingsDirty>>

\* on_reply().  A pairing BlueZ reports done is done, or was before; that the device cannot be
\* trusted then is only said.  A Pair that fails puts away what is asked about the device, and
\* says nothing to BlueZ, which may go on with it: where the call was let go for its time, or was
\* refused because the device was pairing already.
Reply == \E i \in DOMAIN calls, ok, trusts \in BOOLEAN :
  LET m == calls[i]
      out == RemoveAt(calls, i)
  IN
  /\ running /\ bus
  /\ ok => bz.up /\ (m = "Pair" => bz.key # 0)
  /\ ~(m = "Pair" /\ ok) => trusts
  /\ Outcome(trusts)
  /\ IF m = "Pair" /\ ok
       THEN /\ bz' = [bz EXCEPT !.trusted = @ \/ trusts] /\ SchedulePersist
            /\ CallDevice("Connect", out) /\ UNCHANGED <<pending, ghost>>
       ELSE /\ NotBusy /\ calls' = out /\ UNCHANGED <<bz, persistAt>>
            /\ IF m = "Pair"
                 THEN /\ pending' = None
                      /\ ghost' = [ghost EXCEPT !.gaveUp = IF pending.q = bz.question THEN pending.q
                                                            ELSE @]
                 ELSE UNCHANGED <<pending, ghost>>
  /\ UNCHANGED <<inbox, running, bus, commands, enabled, settingsDirty, known, nextId, scanUntil,
                 persistLate, copied>>

----------------------------------------------------------------------------
(* tick(), and the bus.                                                    *)

ReadOwner == IF owner = 0 /\ bz.up THEN bz.gen ELSE owner

\* register_agent(), where it is not registered as far as the manager knows.
RegisterAgent(agent) ==
  /\ agentRegistered => ~agent
  /\ agentRegistered' = (agentRegistered \/ agent)

\* Nothing was read; or no adapter, when the agent has been registered first or was refused.
\* What BlueZ has goes on.
RefreshFails == \E agent \in BOOLEAN :
  /\ running /\ bus
  /\ Outcome(~bz.up)
  /\ (agent => bz.up) /\ RegisterAgent(agent)
  /\ bz' = [bz EXCEPT !.agent = @ \/ agent]
  /\ adapter' = [known |-> FALSE, available |-> FALSE, powered |-> FALSE]
  /\ listed' = FALSE /\ owner' = ReadOwner
  /\ UNCHANGED <<inbox, running, bus, commands, enabled, settingsDirty, paired, busy, calls,
                 pending, nextId, timers, copied, ghost>>

IsPaired == IF bz.key # 0 THEN "yes" ELSE "no"

\* Mutant: only what the manager pairs is trusted.
NotTrusted == FALSE

\* A device newly in the set of paired ones.
NewlyPaired == paired = "no" /\ bz.key # 0

\* What an earlier run left is neither trusted nor copied by the first read.
Unseen == paired = "unknown"

\* What is read, and done about it; whether BlueZ takes the agent, the trust and the power.  A
\* device is trusted when it is first read as paired, and only then: a refusal is said, and the
\* device is paired from then on all the same.
Refreshed(agent, trusts, ok) ==
  LET z == [bz EXCEPT !.trusted = @ \/ (NewlyPaired /\ trusts), !.agent = @ \/ agent]
      differ == settingsDirty /\ bz.powered # enabled
  IN
  /\ running /\ bus /\ bz.up
  /\ ~(NewlyPaired /\ ~bz.trusted) => trusts
  /\ ~differ => ok
  /\ Outcome((agent \/ agentRegistered) /\ trusts /\ ok)
  /\ owner' = ReadOwner /\ RegisterAgent(agent)
  /\ adapter' = [known |-> TRUE, available |-> TRUE, powered |-> bz.powered]
  /\ listed' = bz.known /\ busy' = IF bz.known THEN busy ELSE ""
  /\ paired' = IsPaired
  /\ IF ~Unseen /\ paired # IsPaired THEN SchedulePersist ELSE UNCHANGED persistAt
  /\ pending' = IF pending # None /\ pending.q = 0 /\ bz.key # 0 THEN None ELSE pending
  /\ bz' = IF differ THEN Reconciled(z, bz.powered, ok) ELSE z
  /\ inbox' = IF bz'.pairing # bz.pairing THEN Withdrawn(bz, inbox) ELSE inbox
  /\ settingsDirty' = (settingsDirty /\ StillDirty(bz.powered, ok))
  /\ ghost' = [ghost EXCEPT
       !.stale = @ /\ ~settingsDirty,
       !.untold = IF Unseen /\ copied # bz.key THEN @ \cup {bz.key} ELSE @,
       !.distrust = IF Unseen /\ bz.key # 0 /\ ~bz.trusted THEN "before"
                    ELSE IF ~trusts THEN "refused" ELSE @]
  /\ UNCHANGED <<running, bus, commands, enabled, calls, nextId, scanUntil, persistLate, copied>>

Refresh == \E agent, trusts, ok \in BOOLEAN : Refreshed(agent, trusts, ok)

\* Mutant: the request is put away, and BlueZ not told.
PutAway(z) == z

\* Nobody answered in the console.
Declined(z) == Answered(z, pending.q, FALSE)

ExpireRequest ==
  /\ running /\ bus /\ pending # None
  /\ pending' = None /\ bz' = Declined(bz)
  /\ UNCHANGED <<inbox, running, bus, commands, enabled, settingsDirty, known, busy, calls,
                 nextId, timers, copied, ghost, left>>

ScanEnds ==
  /\ running /\ bus /\ scanUntil /\ StopScan
  /\ UNCHANGED <<inbox, running, bus, commands, enabled, settingsDirty, known, busy, calls,
                 pending, nextId, persistAt, persistLate, copied, left>>

\* A timer of the copies runs out, the later one when no pairing is under way: it is set for
\* that.  The hook copies what is on the disk.
Persist ==
  /\ running /\ bus
  /\ \/ persistAt /\ persistAt' = FALSE /\ UNCHANGED persistLate
     \/ persistLate /\ bz.pairing = "none" /\ persistLate' = FALSE /\ UNCHANGED persistAt
  /\ copied' = bz.key /\ ghost' = [ghost EXCEPT !.untold = {}]
  /\ UNCHANGED <<bz, inbox, running, bus, commands, enabled, settingsDirty, known, busy, calls,
                 pending, nextId, scanUntil, left>>

\* open_bus(): every match, and the agent's object, anew.
OpenBus ==
  /\ running /\ ~bus
  /\ bus' = TRUE /\ agentRegistered' = FALSE /\ settingsDirty' = TRUE /\ owner' = 0
  /\ UNCHANGED <<bz, inbox, running, commands, enabled, adapter, listed, paired, busy, calls,
                 pending, nextId, timers, copied, ghost, left>>

\* Our side of a lost bus: BlueZ drops the agent, the scan and the pairing of a client that left.
CloseBus ==
  /\ bus' = FALSE /\ inbox' = <<>> /\ calls' = <<>> /\ pending' = None
  /\ agentRegistered' = FALSE /\ listed' = FALSE /\ adapter' = [adapter EXCEPT !.available = FALSE]
  /\ bz' = [Failed(bz) EXCEPT !.agent = FALSE, !.discovering = FALSE]
  /\ ghost' = [ghost EXCEPT !.orphaned = @ \/ busy # "", !.unstopped = FALSE]
  /\ UNCHANGED <<commands, enabled, settingsDirty, owner, paired, busy, nextId, persistAt,
                 persistLate, copied>>

LoseBus == running /\ bus /\ Spend /\ CloseBus /\ UNCHANGED <<running, scanUntil>>

\* stop(): the thread ends the scan and leaves.
Stop ==
  /\ running /\ running' = FALSE /\ UNCHANGED left
  /\ IF bus THEN CloseBus /\ scanUntil' = FALSE
     ELSE UNCHANGED <<bz, inbox, bus, commands, enabled, settingsDirty, known, busy, calls,
                      pending, nextId, timers, copied, ghost>>

----------------------------------------------------------------------------
Surroundings ==
  \/ PhonePairs \/ BlueZAsks("passkey") \/ BlueZAsks("confirm") \/ BlueZShows \/ BlueZGivesUp
  \/ KeyLands \/ BlueZLeaves \/ BlueZComes

Requests == PutBluetooth \/ Scan \/ DeviceAction \/ Answer

Thread ==
  \/ DoApply \/ DoDiscoverable \/ DoScan \/ DoDevice \/ DoRemove \/ DoQuiet \/ DoAnswer
  \/ Owner \/ Release \/ Cancel \/ AgentCall \/ Reply
  \/ RefreshFails \/ Refresh \/ ExpireRequest \/ ScanEnds \/ Persist
  \/ OpenBus \/ LoseBus \/ Stop

Next == Surroundings \/ Requests \/ Thread

Spec == Init /\ [][Next]_vars

----------------------------------------------------------------------------
(* Properties.                                                             *)

\* The types of what BlueZ, the bus and the manager keep.
TypeOK ==
  /\ bz.key \in 0 .. bz.keys /\ bz.question \in 0 .. bz.asked /\ bz.gen \in Nat
  /\ bz.pairing \in {"none", "going", "accepted"} /\ (bz.question # 0 => bz.pairing # "none")
  /\ \A m \in Range(inbox) : m.q \in 0 .. bz.asked /\ m.gen \in 0 .. bz.gen
  /\ running \in BOOLEAN /\ bus \in BOOLEAN /\ (~bus => inbox = <<>> /\ calls = <<>>)
  /\ owner \in 0 .. bz.gen /\ enabled \in BOOLEAN /\ settingsDirty \in BOOLEAN
  /\ agentRegistered \in BOOLEAN /\ listed \in BOOLEAN
  /\ paired \in {"unknown", "no", "yes"} /\ busy \in {"", "pairing", "connecting", "disconnecting"}
  /\ calls \in Seq(Methods) /\ pending.id < nextId /\ pending.q \in 0 .. bz.asked
  /\ copied \in 0 .. bz.keys /\ left \in 0 .. MaxEvents

\* A question BlueZ waits on is on its way to the manager or shown to the operator, unless a Pair
\* of the manager's failed over it while BlueZ went on (let go for its time, or refused because
\* the device was pairing already): it is never lost with another question, with a code on
\* display or with a read that saw the device paired.
QuestionsAreHeld ==
  bz.question # 0 =>
    \/ pending.q = bz.question
    \/ \E m \in Range(inbox) : m.q = bz.question
    \/ ghost.gaveUp = bz.question

\* The operator's answer goes to the question that was on the screen when it was given, however
\* long the command waited and whatever was asked meanwhile.
AnswerIsForItsQuestion == ~ghost.crossed

\* A device is shown busy only while a call to it is out, but for calls lost with the bus.
BusyIsACall == busy # "" => calls # <<>> \/ ghost.orphaned

\* As above, and nothing is busy with a call that went with the bus (docs/api.md); the code
\* does not keep it: see the README.
BusyEnds == busy # "" => calls # <<>>

\* The radio scans only while a timer will end it, unless that timer ran out, or the scan was
\* stopped, when the last read had failed.
ScanIsBounded == running /\ bus /\ bz.discovering => scanUntil \/ ghost.unstopped

\* Once nothing is left to do, and the adapter is as it was last read, it is as the settings
\* say: no refusal, restart or request in between leaves it otherwise, save a request to be
\* discoverable that settled the settings on an old read.
AdapterFollowsSettings ==
  /\ running /\ bus /\ bz.up /\ commands = <<>> /\ inbox = <<>> /\ ~settingsDirty
  /\ adapter.available /\ adapter.powered = bz.powered /\ ~ghost.stale
  => bz.powered = enabled

\* A key BlueZ has written is copied, or a timer is set that will copy it, once the set of paired
\* devices has been read and no call or pairing is out; but for a key of which the manager is not
\* told: a new one of an address that was paired already, where it was never asked, and what an
\* earlier run of the daemon left uncopied.
PairingsAreCopied ==
  /\ running /\ bus /\ bz.up /\ bz.pairing = "none" /\ calls = <<>> /\ paired = IsPaired
  => copied = bz.key \/ persistAt \/ persistLate \/ bz.key \in ghost.untold

\* A device that has been read as paired is trusted, whoever paired it; but one that was paired
\* when the daemon started ("before"), one whose trusting BlueZ refused at that read ("refused"),
\* and one forgotten and paired again between two reads ("again").
PairedIsTrusted == paired = "yes" /\ bz.key # 0 => bz.trusted \/ ghost.distrust # ""

\* As above, with no exception (bluetooth.cpp:866-867); the code does not keep it: see the README.
EveryPairedIsTrusted == paired = "yes" /\ bz.key # 0 => bz.trusted

\* What the manager's own state and BlueZ's must have in common at every moment, whatever
\* is lost, late or answered out of turn: questions, busy devices, the scan, trust.
ManagerInv == TypeOK /\ QuestionsAreHeld /\ BusyIsACall /\ ScanIsBounded /\ PairedIsTrusted
================================================================================

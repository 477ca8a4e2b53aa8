---------------------------- MODULE BtManager_proofs ----------------------------
(***************************************************************************)
(* What holds of the Bluetooth manager beside BlueZ, for any number of     *)
(* posted commands, doings of BlueZ, failures and questions.  ManagerInv   *)
(* and the properties beside it say what the two sides have in common;     *)
(* ManagerIInv adds what is on its way between them: the commands that are *)
(* posted, the messages in the inbox and the timers that are set.          *)
(***************************************************************************)
EXTENDS BtManager, TLAPS

----------------------------------------------------------------------------
(* The inductive invariant.                                                *)

\* What each variable is; only the agent's calls that wait for an answer have a question.
Stages == {"none", "going", "accepted"}
States == [up : BOOLEAN, gen : Nat, agent : BOOLEAN, powered : BOOLEAN, discovering : BOOLEAN,
           pairing : Stages, question : Nat, asked : Nat, known : BOOLEAN, key : Nat, keys : Nat,
           trusted : BOOLEAN]
Kinds == {"passkey", "confirm", "display", "release", "owner", "cancel"}
Messages == {m \in [t : Kinds, q : Nat, gen : Nat] : m.q # 0 => m.t \in {"passkey", "confirm"}}
Names == {"apply", "discoverable", "scan", "quiet", "Remove", "answer"} \cup Methods
Orders == [c : Names, id : Nat, yes : BOOLEAN, q : Nat]
Adapters == [known : BOOLEAN, available : BOOLEAN, powered : BOOLEAN]
Prompts == [id : Nat, q : Nat]
Ghosts == [untold : SUBSET Nat, gaveUp : Nat, orphaned : BOOLEAN, stale : BOOLEAN,
           distrust : {"", "before", "refused", "again"}, unstopped : BOOLEAN, crossed : BOOLEAN]
Busy == {"", "pairing", "connecting", "disconnecting"}

Types ==
  /\ bz \in States /\ inbox \in Seq(Messages) /\ running \in BOOLEAN /\ bus \in BOOLEAN
  /\ owner \in Nat /\ commands \in Seq(Orders) /\ enabled \in BOOLEAN /\ settingsDirty \in BOOLEAN
  /\ agentRegistered \in BOOLEAN /\ adapter \in Adapters /\ listed \in BOOLEAN
  /\ paired \in {"unknown", "no", "yes"} /\ busy \in Busy /\ calls \in Seq(Methods)
  /\ pending \in Prompts /\ nextId \in Nat \ {0} /\ scanUntil \in BOOLEAN
  /\ persistAt \in BOOLEAN /\ persistLate \in BOOLEAN /\ copied \in Nat /\ ghost \in Ghosts
  /\ left \in 0 .. MaxEvents

\* Everything that is counted is of what there has been.
Counted ==
  /\ bz.key <= bz.keys /\ copied <= bz.keys /\ bz.question <= bz.asked /\ owner <= bz.gen
  /\ pending.q <= bz.asked /\ pending.id < nextId
  /\ \A i \in 1 .. Len(inbox) : inbox[i].q <= bz.asked /\ inbox[i].gen <= bz.gen

\* What BlueZ does for a client that is on the bus; without a bus nothing is under way.
Client ==
  /\ ~bus => inbox = <<>> /\ calls = <<>>
  /\ bz.agent => bus /\ bz.up
  /\ bz.discovering => bus
  /\ bz.question # 0 => bz.agent /\ bz.pairing # "none"
  /\ bz.pairing = "accepted" => persistLate

\* What comes after the i-th message, when nothing of it puts a request away or asks another.
Undisturbed(i) == \A k \in i + 1 .. Len(inbox) : inbox[k].q = 0 /\ inbox[k].t \notin {"owner", "cancel"}

\* Where the question is that BlueZ waits on: held, on its way, or let go with its call.
Held ==
  bz.question # 0 =>
    \/ pending.q = bz.question /\ Undisturbed(0)
    \/ \E j \in 1 .. Len(inbox) : inbox[j].q = bz.question /\ Undisturbed(j)
    \/ /\ ghost.gaveUp = bz.question /\ pending.q = 0
       /\ \A k \in 1 .. Len(inbox) : inbox[k].q = 0

\* An answer names the request it was given to, and what that request asked.
AnswersFollow ==
  /\ pending.id = 0 => pending.q = 0
  /\ \A i \in 1 .. Len(commands) :
       commands[i].c = "answer" =>
         /\ commands[i].id \in 1 .. nextId - 1
         /\ pending.id = commands[i].id => pending.q = commands[i].q

\* The adapter is as the settings say, or something is to come that will set it.
SettingsFollow ==
  /\ running /\ bus /\ bz.up /\ ~settingsDirty /\ ~ghost.stale
  /\ \A i \in 1 .. Len(commands) : commands[i].c # "apply"
  /\ \A i \in 1 .. Len(inbox) : inbox[i].t # "owner"
  => bz.powered = enabled

\* A key that was read is copied, or a timer is set that will copy it, or nobody told.
CopiesFollow ==
  paired = IsPaired => copied = bz.key \/ persistAt \/ persistLate \/ bz.key \in ghost.untold

ManagerIInv ==
  /\ Types /\ Counted /\ Client /\ Held /\ AnswersFollow /\ SettingsFollow
  /\ CopiesFollow /\ BusyIsACall /\ ScanIsBounded /\ PairedIsTrusted /\ AnswerIsForItsQuestion

----------------------------------------------------------------------------
(* Sequences.                                                              *)

\* What Append() makes of a sequence.
LEMMA Appended ==
  ASSUME NEW S, NEW s \in Seq(S), NEW e \in S
  PROVE  /\ Append(s, e) \in Seq(S) /\ Len(Append(s, e)) = Len(s) + 1 /\ Len(s) \in Nat
         /\ \A i \in 1 .. Len(s) : Append(s, e)[i] = s[i]
         /\ Append(s, e)[Len(s) + 1] = e
OBVIOUS

\* What is left when the first is taken.
LEMMA Beheaded ==
  ASSUME NEW S, NEW s \in Seq(S), s # <<>>
  PROVE  /\ Tail(s) \in Seq(S) /\ Len(Tail(s)) = Len(s) - 1 /\ Len(s) \in Nat /\ Len(s) >= 1
         /\ \A i \in 1 .. Len(s) - 1 : Tail(s)[i] = s[i + 1]
         /\ Head(s) = s[1] /\ Head(s) \in S
OBVIOUS

\* What two sequences make.
LEMMA Joined ==
  ASSUME NEW S, NEW s \in Seq(S), NEW t \in Seq(S)
  PROVE  /\ s \o t \in Seq(S) /\ Len(s \o t) = Len(s) + Len(t) /\ Len(s) \in Nat /\ Len(t) \in Nat
         /\ \A i \in 1 .. Len(s) : (s \o t)[i] = s[i]
         /\ \A i \in 1 .. Len(t) : (s \o t)[Len(s) + i] = t[i]
OBVIOUS

\* What is left when one is taken out is what was there.
LEMMA TakenOut ==
  ASSUME NEW S, NEW s \in Seq(S), NEW i \in 1 .. Len(s)
  PROVE  RemoveAt(s, i) \in Seq(S)
<1>1. SubSeq(s, 1, i - 1) \in Seq(S) /\ SubSeq(s, i + 1, Len(s)) \in Seq(S)
  OBVIOUS
<1> QED BY <1>1, Joined DEF RemoveAt

----------------------------------------------------------------------------
(* BlueZ's state, where only what is under way is changed.                 *)

\* All but where a pairing and its question stand.
Alike(y, z) ==
  /\ y.up = z.up /\ y.gen = z.gen /\ y.agent = z.agent /\ y.powered = z.powered
  /\ y.discovering = z.discovering /\ y.asked = z.asked /\ y.known = z.known
  /\ y.key = z.key /\ y.keys = z.keys /\ y.trusted = z.trusted

LEMMA FailedIs ==
  ASSUME NEW z \in States
  PROVE  /\ Failed(z) \in States /\ Alike(Failed(z), z)
         /\ Failed(z).pairing = "none" /\ Failed(z).question = 0
BY DEF Failed, States, Stages, Alike

LEMMA AnsweredIs ==
  ASSUME NEW z \in States, NEW q, NEW yes \in BOOLEAN
  PROVE  /\ Answered(z, q, yes) \in States /\ Alike(Answered(z, q, yes), z)
         /\ q # z.question \/ q = 0 => Answered(z, q, yes) = z
         /\ q = z.question /\ q # 0 =>
              /\ Answered(z, q, yes).question = 0
              /\ Answered(z, q, yes).pairing = IF yes THEN "accepted" ELSE "none"
<1>1. CASE q # z.question \/ q = 0
  BY <1>1 DEF Answered, Alike
<1>2. CASE q = z.question /\ q # 0 /\ yes
  BY <1>2 DEF Answered, Alike, States, Stages
<1>3. CASE q = z.question /\ q # 0 /\ ~yes
  BY <1>3, FailedIs DEF Answered
<1> QED BY <1>1, <1>2, <1>3

LEMMA RadioIs ==
  ASSUME NEW z \in States, NEW on \in BOOLEAN
  PROVE  /\ Radio(z, on) \in States /\ Radio(z, on).powered = on
         /\ on => Radio(z, on) = [z EXCEPT !.powered = TRUE]
         /\ Radio(z, on).up = z.up /\ Radio(z, on).gen = z.gen /\ Radio(z, on).agent = z.agent
         /\ Radio(z, on).asked = z.asked /\ Radio(z, on).known = z.known /\ Radio(z, on).key = z.key
         /\ Radio(z, on).keys = z.keys /\ Radio(z, on).trusted = z.trusted
         /\ on => /\ Radio(z, on).pairing = z.pairing /\ Radio(z, on).question = z.question
                  /\ Radio(z, on).discovering = z.discovering
         /\ ~on => /\ Radio(z, on).pairing = "none" /\ Radio(z, on).question = 0
                   /\ ~Radio(z, on).discovering
<1>1. CASE on
  BY <1>1 DEF Radio, States
<1>2. CASE ~on
  <2>1. Radio(z, on) = [Failed(z) EXCEPT !.powered = FALSE, !.discovering = FALSE]
    BY <1>2 DEF Radio
  <2>2. Failed(z) \in States /\ Alike(Failed(z), z) /\ Failed(z).pairing = "none" /\ Failed(z).question = 0
    BY FailedIs
  <2>3. Radio(z, on) \in States
    BY <2>1, <2>2 DEF States
  <2>4. Radio(z, on).powered = on /\ ~Radio(z, on).discovering
    BY <1>2, <2>1, <2>2 DEF States
  <2>5. /\ Radio(z, on).up = Failed(z).up /\ Radio(z, on).gen = Failed(z).gen
        /\ Radio(z, on).agent = Failed(z).agent /\ Radio(z, on).asked = Failed(z).asked
        /\ Radio(z, on).known = Failed(z).known /\ Radio(z, on).key = Failed(z).key
    BY <2>1, <2>2 DEF States
  <2>6. /\ Radio(z, on).keys = Failed(z).keys /\ Radio(z, on).trusted = Failed(z).trusted
        /\ Radio(z, on).pairing = Failed(z).pairing /\ Radio(z, on).question = Failed(z).question
    BY <2>1, <2>2 DEF States
  <2>7. /\ Radio(z, on).up = z.up /\ Radio(z, on).gen = z.gen /\ Radio(z, on).agent = z.agent
        /\ Radio(z, on).asked = z.asked /\ Radio(z, on).known = z.known /\ Radio(z, on).key = z.key
    BY <2>2, <2>5 DEF Alike
  <2>8. /\ Radio(z, on).keys = z.keys /\ Radio(z, on).trusted = z.trusted
        /\ Radio(z, on).pairing = "none" /\ Radio(z, on).question = 0
    BY <2>2, <2>6 DEF Alike
  <2> QED BY <1>2, <2>3, <2>4, <2>7, <2>8
<1> QED BY <1>1, <1>2

\* What the bounds leave.
LEMMA Spending ==
  ASSUME Types, Spend \/ UNCHANGED left
  PROVE  left' \in 0 .. MaxEvents
BY EventsAssumption DEF Types, Spend

\* What is counted is a number.
LEMMA Numbers ==
  ASSUME Types
  PROVE  /\ bz.gen \in Nat /\ bz.asked \in Nat /\ bz.question \in Nat /\ bz.key \in Nat
         /\ bz.keys \in Nat /\ owner \in Nat /\ copied \in Nat /\ nextId \in Nat
         /\ pending.q \in Nat /\ pending.id \in Nat /\ Len(inbox) \in Nat
         /\ \A i \in 1 .. Len(inbox) : inbox[i].q \in Nat /\ inbox[i].gen \in Nat
<1>1. bz \in States /\ inbox \in Seq(Messages)
  BY DEF Types
<1>2. /\ bz.gen \in Nat /\ bz.asked \in Nat /\ bz.question \in Nat /\ bz.key \in Nat
      /\ bz.keys \in Nat
  BY <1>1 DEF States
<1>3. /\ owner \in Nat /\ copied \in Nat /\ nextId \in Nat
      /\ pending.q \in Nat /\ pending.id \in Nat
  BY DEF Types, Prompts
<1>4. Len(inbox) \in Nat /\ \A i \in 1 .. Len(inbox) : inbox[i] \in Messages
  BY <1>1
<1>5. \A m \in Messages : m.q \in Nat /\ m.gen \in Nat
  BY DEF Messages
<1> QED BY <1>2, <1>3, <1>4, <1>5

\* And no more than was counted.
LEMMA Counts ==
  ASSUME ManagerIInv
  PROVE  /\ Counted
         /\ bz.gen \in Nat /\ bz.asked \in Nat /\ bz.question \in Nat /\ bz.key \in Nat
         /\ bz.keys \in Nat /\ owner \in Nat /\ copied \in Nat /\ nextId \in Nat
         /\ pending.q \in Nat /\ pending.id \in Nat /\ Len(inbox) \in Nat
         /\ \A i \in 1 .. Len(inbox) : inbox[i].q \in Nat /\ inbox[i].gen \in Nat
<1>1. Types /\ Counted
  BY DEF ManagerIInv
<1> QED BY <1>1, Numbers

LEMMA CountsOn ==
  ASSUME ManagerIInv
  PROVE  bz.asked + 1 \in Nat /\ bz.keys + 1 \in Nat /\ bz.gen + 1 \in Nat
<1>1. bz.asked \in Nat /\ bz.keys \in Nat /\ bz.gen \in Nat
  BY Counts
<1> QED BY <1>1

LEMMA MessagesCount ==
  ASSUME ManagerIInv, NEW i \in 1 .. Len(inbox)
  PROVE  /\ inbox[i].q \in Nat /\ inbox[i].q <= bz.asked /\ bz.asked \in Nat
         /\ inbox[i].gen \in Nat /\ inbox[i].gen <= bz.gen /\ bz.gen \in Nat
BY Counts DEF Counted

\* A question taken back is one more message, or none, and it asks nothing.
LEMMA WithdrawnIs ==
  ASSUME NEW z \in States, NEW box \in Seq(Messages)
  PROVE  /\ Withdrawn(z, box) \in Seq(Messages) /\ Len(box) \in Nat
         /\ ~bus => Withdrawn(z, box) = box
         /\ Len(Withdrawn(z, box)) \in {Len(box), Len(box) + 1}
         /\ \A i \in 1 .. Len(box) : Withdrawn(z, box)[i] = box[i]
         /\ \A i \in Len(box) + 1 .. Len(Withdrawn(z, box)) :
              /\ Withdrawn(z, box)[i].t = "cancel" /\ Withdrawn(z, box)[i].q = 0
              /\ Withdrawn(z, box)[i].gen = z.gen
<1>1. [t |-> "cancel", q |-> 0, gen |-> z.gen] \in Messages
  BY DEF Messages, Kinds, States
<1>2. CASE z.question = 0 \/ ~bus
  BY <1>2 DEF Withdrawn
<1>3. CASE ~(z.question = 0 \/ ~bus)
  <2>1. Withdrawn(z, box) = Append(box, [t |-> "cancel", q |-> 0, gen |-> z.gen])
    BY <1>3 DEF Withdrawn
  <2> HIDE DEF Withdrawn
  <2> QED BY <1>1, <1>3, <2>1, Appended
<1> QED BY <1>2, <1>3

----------------------------------------------------------------------------
(* BlueZ's own steps.                                                      *)

LEMMA PhonePairsStep ==
  ASSUME ManagerIInv, PhonePairs
  PROVE  ManagerIInv'
<1>1. /\ bz' = [bz EXCEPT !.pairing = "going", !.known = TRUE] /\ bz.pairing = "none" /\ bz.agent
      /\ Spend
  BY DEF PhonePairs, manager, known, timers
<1>same. UNCHANGED <<inbox, running, bus, owner, commands, enabled, settingsDirty,
                     agentRegistered, adapter, listed, paired, busy, calls, pending, nextId,
                     scanUntil, persistAt, persistLate, copied, ghost>>
  BY DEF PhonePairs, manager, known, timers
<1>2. left' \in 0 .. MaxEvents
  BY <1>1, <1>same, Spending DEF ManagerIInv
<1>3. bz \in States /\ bz' \in States
  BY <1>1, <1>same DEF ManagerIInv, Types, States, Stages
<1>4. Types'
  BY <1>1, <1>same, <1>2, <1>3 DEF ManagerIInv, Types
<1>5. AnswersFollow' /\ BusyIsACall' /\ AnswerIsForItsQuestion'
  BY <1>same DEF ManagerIInv, AnswersFollow, BusyIsACall, AnswerIsForItsQuestion
<1>6. Counted'
  BY <1>1, <1>same, <1>2, <1>3
     DEF ManagerIInv, Counted, States
<1>7. Client'
  BY <1>1, <1>same, <1>2, <1>3
     DEF ManagerIInv, Client, States
<1>8. Held'
  BY <1>1, <1>same, <1>2, <1>3
     DEF ManagerIInv, Held, Undisturbed, States
<1>10. SettingsFollow'
  BY <1>1, <1>same, <1>2, <1>3
     DEF ManagerIInv, SettingsFollow, States
<1>11. CopiesFollow'
  BY <1>1, <1>same, <1>2, <1>3
     DEF ManagerIInv, CopiesFollow, IsPaired, States
<1>12. ScanIsBounded'
  BY <1>1, <1>same, <1>2, <1>3
     DEF ManagerIInv, ScanIsBounded, States
<1>13. PairedIsTrusted'
  BY <1>1, <1>same, <1>2, <1>3
     DEF ManagerIInv, PairedIsTrusted, States
<1> QED BY <1>4, <1>5, <1>6, <1>7, <1>8, <1>10, <1>11, <1>12, <1>13 DEF ManagerIInv

LEMMA BlueZAsksStep ==
  ASSUME ManagerIInv, NEW t \in {"passkey", "confirm"}, BlueZAsks(t)
  PROVE  ManagerIInv'
<1>1. /\ bz' = [bz EXCEPT !.asked = @ + 1, !.question = bz.asked + 1]
      /\ inbox' = Append(inbox, Message(t, bz.asked + 1))
      /\ bz.agent /\ bz.pairing # "none" /\ bz.question = 0
  BY DEF BlueZAsks, manager, known, timers
<1>same. UNCHANGED <<running, bus, owner, commands, enabled, settingsDirty, agentRegistered,
                     adapter, listed, paired, busy, calls, pending, nextId, scanUntil,
                     persistAt, persistLate, copied, ghost, left>>
  BY DEF BlueZAsks, manager, known, timers
<1>2. bz.asked + 1 \in Nat /\ bz.keys + 1 \in Nat /\ bz.gen + 1 \in Nat
  BY CountsOn
<1>3. bz \in States /\ bz' \in States
  BY <1>1, <1>same, <1>2 DEF ManagerIInv, Types, States, Stages
<1>4. /\ bz'.gen = bz.gen /\ bz'.asked = bz.asked + 1 /\ bz'.question = bz.asked + 1
      /\ bz'.key = bz.key /\ bz'.keys = bz.keys
  BY <1>1, <1>same, <1>3 DEF States
<1>5. inbox \in Seq(Messages) /\ Message(t, bz.asked + 1) \in Messages
      /\ Message(t, bz.asked + 1).t = t /\ Message(t, bz.asked + 1).q = bz.asked + 1 /\ Message(t, bz.asked + 1).gen = bz.gen
  BY <1>1, <1>same, <1>4 DEF ManagerIInv, Types, Messages, Kinds, Message, States
<1>6. /\ Len(inbox') = Len(inbox) + 1 /\ Len(inbox) \in Nat /\ inbox' \in Seq(Messages)
      /\ \A i \in 1 .. Len(inbox) : inbox'[i] = inbox[i]
      /\ inbox'[Len(inbox) + 1] = Message(t, bz.asked + 1)
  BY <1>1, <1>same, <1>5, Appended
<1>7. Types'
  BY <1>1, <1>same, <1>2, <1>3, <1>4, <1>5, <1>6 DEF ManagerIInv, Types
<1>8. AnswersFollow' /\ BusyIsACall' /\ AnswerIsForItsQuestion'
  BY <1>same DEF ManagerIInv, AnswersFollow, BusyIsACall, AnswerIsForItsQuestion
<1>9. Counted'
  <2>1. ASSUME NEW i \in 1 .. Len(inbox')
        PROVE  inbox'[i].q <= bz'.asked /\ inbox'[i].gen <= bz'.gen
    <3>1. CASE i \in 1 .. Len(inbox)
      <4>1. inbox'[i] = inbox[i]
        BY <1>6, <3>1
      <4>2. /\ inbox[i].q \in Nat /\ inbox[i].q <= bz.asked /\ bz.asked \in Nat
            /\ inbox[i].gen \in Nat /\ inbox[i].gen <= bz.gen /\ bz.gen \in Nat
        BY <3>1, MessagesCount
      <4> QED BY <1>4, <4>1, <4>2
    <3>2. CASE i = Len(inbox) + 1
      BY <1>1, <1>same, <1>2, <1>3, <1>4, <1>5, <1>6, <3>2, Counts
    <3> QED BY <1>1, <1>same, <1>2, <1>3, <1>4, <1>5, <1>6, <3>1, <3>2
  <2>2. /\ bz.key <= bz.keys /\ copied <= bz.keys /\ bz.question <= bz.asked /\ owner <= bz.gen
        /\ pending.q <= bz.asked /\ pending.id < nextId
        /\ bz.asked \in Nat /\ bz.gen \in Nat /\ bz.question \in Nat /\ pending.q \in Nat /\ owner \in Nat
    BY Counts DEF Counted
  <2>3. /\ bz'.key <= bz'.keys /\ copied' <= bz'.keys /\ bz'.question <= bz'.asked /\ owner' <= bz'.gen
        /\ pending'.q <= bz'.asked /\ pending'.id < nextId'
    BY <1>same, <1>4, <2>2
  <2> QED BY <2>1, <2>3 DEF Counted
<1>10. Client'
  BY <1>1, <1>same, <1>2, <1>3, <1>4, <1>5, <1>6
     DEF ManagerIInv, Client, States
<1>11. Held'
  <2>1. PICK n \in Nat : n = Len(inbox) + 1
    BY <1>6
  <2>2. Undisturbed(n)'
    BY <1>6, <2>1 DEF Undisturbed
  <2>3. n \in 1 .. Len(inbox') /\ inbox'[n].q = bz'.question
    BY <1>4, <1>5, <1>6, <2>1
  <2> QED BY <2>2, <2>3 DEF Held
<1>13. SettingsFollow'
  BY <1>1, <1>same, <1>2, <1>3, <1>4, <1>5, <1>6
     DEF ManagerIInv, SettingsFollow, States
<1>14. CopiesFollow'
  BY <1>1, <1>same, <1>2, <1>3, <1>4, <1>5, <1>6
     DEF ManagerIInv, CopiesFollow, IsPaired, States
<1>15. ScanIsBounded'
  BY <1>1, <1>same, <1>2, <1>3, <1>4, <1>5, <1>6
     DEF ManagerIInv, ScanIsBounded, States
<1>16. PairedIsTrusted'
  BY <1>1, <1>same, <1>2, <1>3, <1>4, <1>5, <1>6
     DEF ManagerIInv, PairedIsTrusted, States
<1> QED BY <1>7, <1>8, <1>9, <1>10, <1>11, <1>13, <1>14, <1>15, <1>16 DEF ManagerIInv

LEMMA BlueZShowsStep ==
  ASSUME ManagerIInv, BlueZShows
  PROVE  ManagerIInv'
<1>1. /\ Spend
      /\ inbox' = Append(inbox, Message("display", 0))
      /\ bz.agent /\ bz.question = 0
  BY DEF BlueZShows, manager, known, timers
<1>same. UNCHANGED <<bz, running, bus, owner, commands, enabled, settingsDirty, agentRegistered,
                     adapter, listed, paired, busy, calls, pending, nextId, scanUntil,
                     persistAt, persistLate, copied, ghost>>
  BY DEF BlueZShows, manager, known, timers
<1>2. left' \in 0 .. MaxEvents
  BY <1>1, <1>same, Spending DEF ManagerIInv
<1>3. bz.asked + 1 \in Nat /\ bz.keys + 1 \in Nat /\ bz.gen + 1 \in Nat
  BY CountsOn
<1>4. inbox \in Seq(Messages) /\ Message("display", 0) \in Messages
      /\ Message("display", 0).t = "display" /\ Message("display", 0).q = 0 /\ Message("display", 0).gen = bz.gen
  BY <1>1, <1>same, <1>3 DEF ManagerIInv, Types, Messages, Kinds, Message, States
<1>5. /\ Len(inbox') = Len(inbox) + 1 /\ Len(inbox) \in Nat /\ inbox' \in Seq(Messages)
      /\ \A i \in 1 .. Len(inbox) : inbox'[i] = inbox[i]
      /\ inbox'[Len(inbox) + 1] = Message("display", 0)
  BY <1>1, <1>same, <1>4, Appended
<1>6. Types'
  BY <1>1, <1>same, <1>2, <1>3, <1>4, <1>5 DEF ManagerIInv, Types
<1>7. AnswersFollow' /\ CopiesFollow' /\ BusyIsACall'
  BY <1>same DEF ManagerIInv, AnswersFollow, CopiesFollow, BusyIsACall, IsPaired
<1>8. ScanIsBounded' /\ PairedIsTrusted' /\ AnswerIsForItsQuestion'
  BY <1>same DEF ManagerIInv, ScanIsBounded, PairedIsTrusted, AnswerIsForItsQuestion
<1>9. Counted'
  <2>1. ASSUME NEW i \in 1 .. Len(inbox')
        PROVE  inbox'[i].q <= bz'.asked /\ inbox'[i].gen <= bz'.gen
    <3>1. CASE i \in 1 .. Len(inbox)
      BY <1>1, <1>same, <1>2, <1>3, <1>4, <1>5, <3>1, Counts DEF Counted
    <3>2. CASE i = Len(inbox) + 1
      BY <1>1, <1>same, <1>2, <1>3, <1>4, <1>5, <3>2, Counts
    <3> QED BY <1>1, <1>same, <1>2, <1>3, <1>4, <1>5, <3>1, <3>2
  <2> QED BY <1>1, <1>same, <1>2, <1>3, <1>4, <1>5, <2>1, Counts DEF Counted
<1>10. Client'
  BY <1>1, <1>same, <1>2, <1>3, <1>4, <1>5
     DEF ManagerIInv, Client, States
<1>11. Held'
  BY <1>1, <1>same, <1>2, <1>3, <1>4, <1>5
     DEF ManagerIInv, Held, Undisturbed, States
<1>12. SettingsFollow'
  BY <1>1, <1>same, <1>2, <1>3, <1>4, <1>5
     DEF ManagerIInv, SettingsFollow, States
<1> QED BY <1>6, <1>7, <1>8, <1>9, <1>10, <1>11, <1>12 DEF ManagerIInv

LEMMA BlueZGivesUpStep ==
  ASSUME ManagerIInv, BlueZGivesUp
  PROVE  ManagerIInv'
<1>1. bz' = Failed(bz) /\ inbox' = Withdrawn(bz, inbox)
  BY DEF BlueZGivesUp, manager, known, timers
<1>same. UNCHANGED <<running, bus, owner, commands, enabled, settingsDirty, agentRegistered,
                     adapter, listed, paired, busy, calls, pending, nextId, scanUntil,
                     persistAt, persistLate, copied, ghost, left>>
  BY DEF BlueZGivesUp, manager, known, timers
<1>2. bz \in States /\ inbox \in Seq(Messages)
  BY <1>1, <1>same DEF ManagerIInv, Types
<1>3. /\ inbox' \in Seq(Messages) /\ Len(inbox) \in Nat /\ (~bus => inbox' = inbox)
      /\ Len(inbox') \in {Len(inbox), Len(inbox) + 1}
      /\ \A i \in 1 .. Len(inbox) : inbox'[i] = inbox[i]
      /\ \A i \in Len(inbox) + 1 .. Len(inbox') :
           inbox'[i].t = "cancel" /\ inbox'[i].q = 0 /\ inbox'[i].gen = bz.gen
  BY <1>1, <1>same, <1>2, WithdrawnIs
<1>4. bz' \in States /\ Alike(bz', bz) /\ bz'.pairing = "none" /\ bz'.question = 0
  BY <1>1, <1>same, FailedIs DEF ManagerIInv, Types
<1>5. Types'
  BY <1>1, <1>same, <1>2, <1>3, <1>4 DEF ManagerIInv, Types
<1>6. AnswersFollow' /\ BusyIsACall' /\ AnswerIsForItsQuestion'
  BY <1>same DEF ManagerIInv, AnswersFollow, BusyIsACall, AnswerIsForItsQuestion
<1>7. Counted'
  BY <1>1, <1>same, <1>2, <1>3, <1>4
     DEF ManagerIInv, Counted, States, Alike
<1>8. Client'
  BY <1>1, <1>same, <1>2, <1>3, <1>4
     DEF ManagerIInv, Client, States, Alike
<1>9. Held'
  BY <1>1, <1>same, <1>2, <1>3, <1>4
     DEF ManagerIInv, Held, Undisturbed, States, Alike
<1>11. SettingsFollow'
  BY <1>1, <1>same, <1>2, <1>3, <1>4
     DEF ManagerIInv, SettingsFollow, States, Alike
<1>12. CopiesFollow'
  BY <1>1, <1>same, <1>2, <1>3, <1>4
     DEF ManagerIInv, CopiesFollow, IsPaired, States, Alike
<1>13. ScanIsBounded'
  BY <1>1, <1>same, <1>2, <1>3, <1>4
     DEF ManagerIInv, ScanIsBounded, States, Alike
<1>14. PairedIsTrusted'
  BY <1>1, <1>same, <1>2, <1>3, <1>4
     DEF ManagerIInv, PairedIsTrusted, States, Alike
<1> QED BY <1>5, <1>6, <1>7, <1>8, <1>9, <1>11, <1>12, <1>13, <1>14 DEF ManagerIInv

LEMMA KeyLandsStep ==
  ASSUME ManagerIInv, KeyLands
  PROVE  ManagerIInv'
<1>1. /\ bz' = [bz EXCEPT !.pairing = "none", !.key = bz.keys + 1, !.keys = @ + 1, !.known = TRUE]
      /\ ghost' = [ghost EXCEPT
           !.untold = IF bz.pairing = "going" /\ paired = "yes" THEN @ \cup {bz.keys + 1} ELSE @,
           !.distrust = IF bz.key # 0 THEN @ ELSE IF paired = "yes" THEN "again" ELSE ""]
      /\ bz.pairing # "none" /\ bz.question = 0
  BY DEF KeyLands, manager, known, timers
<1>same. UNCHANGED <<inbox, running, bus, owner, commands, enabled, settingsDirty,
                     agentRegistered, adapter, listed, paired, busy, calls, pending, nextId,
                     scanUntil, persistAt, persistLate, copied, left>>
  BY DEF KeyLands, manager, known, timers
<1>2. bz.asked + 1 \in Nat /\ bz.keys + 1 \in Nat /\ bz.gen + 1 \in Nat
  BY CountsOn
<1>3. bz \in States /\ bz' \in States
  BY <1>1, <1>same, <1>2 DEF ManagerIInv, Types, States, Stages
<1>4. /\ bz'.gen = bz.gen /\ bz'.asked = bz.asked /\ bz'.question = 0
      /\ bz'.key = bz.keys + 1 /\ bz'.keys = bz.keys + 1
  BY <1>1, <1>same, <1>3 DEF States
<1>5. /\ ghost \in Ghosts /\ ghost' \in Ghosts
      /\ ghost'.gaveUp = ghost.gaveUp /\ ghost'.orphaned = ghost.orphaned
      /\ ghost'.stale = ghost.stale /\ ghost'.unstopped = ghost.unstopped
      /\ ghost'.crossed = ghost.crossed
      /\ bz.pairing = "going" /\ paired = "yes" => bz.keys + 1 \in ghost'.untold
      /\ bz.key # 0 => ghost'.distrust = ghost.distrust
      /\ bz.key = 0 /\ paired = "yes" => ghost'.distrust = "again"
  <2>1. PICK u \in SUBSET Nat :
          u = IF bz.pairing = "going" /\ paired = "yes" THEN ghost.untold \cup {bz.keys + 1}
              ELSE ghost.untold
    BY <1>2 DEF ManagerIInv, Types, Ghosts
  <2>2. PICK d \in {"", "before", "refused", "again"} :
          d = IF bz.key # 0 THEN ghost.distrust ELSE IF paired = "yes" THEN "again" ELSE ""
    BY DEF ManagerIInv, Types, Ghosts
  <2>3. ghost \in Ghosts /\ ghost' = [ghost EXCEPT !.untold = u, !.distrust = d]
    BY <1>1, <2>1, <2>2 DEF ManagerIInv, Types
  <2>4. ghost' \in Ghosts /\ ghost'.untold = u /\ ghost'.distrust = d
    BY <2>3 DEF Ghosts
  <2> QED BY <2>1, <2>2, <2>3, <2>4 DEF Ghosts
<1>6. Types'
  BY <1>1, <1>same, <1>2, <1>3, <1>4, <1>5 DEF ManagerIInv, Types
<1>7. AnswersFollow'
  BY <1>same DEF ManagerIInv, AnswersFollow
<1>8. Counted'
  <2>1. /\ copied <= bz.keys /\ bz.keys \in Nat /\ copied \in Nat /\ bz.asked \in Nat
        /\ bz.question <= bz.asked
    BY Counts DEF Counted
  <2>2. bz'.key <= bz'.keys /\ copied' <= bz'.keys /\ bz'.question <= bz'.asked
    BY <1>same, <1>4, <2>1
  <2> QED BY <1>same, <1>4, <2>2, Counts DEF Counted
<1>9. Client'
  BY <1>1, <1>same, <1>2, <1>3, <1>4, <1>5
     DEF ManagerIInv, Client, States
<1>10. Held'
  BY <1>1, <1>same, <1>2, <1>3, <1>4, <1>5
     DEF ManagerIInv, Held, Undisturbed, States, Ghosts
<1>12. SettingsFollow'
  BY <1>1, <1>same, <1>2, <1>3, <1>4, <1>5
     DEF ManagerIInv, SettingsFollow, States, Ghosts
<1>13. CopiesFollow'
  <2> SUFFICES ASSUME paired' = IsPaired', bz'.key \notin ghost'.untold  PROVE persistLate
    BY <1>1, <1>same, <1>2, <1>3, <1>4, <1>5 DEF CopiesFollow
  <2>1. bz.keys + 1 # 0
    BY Counts
  <2>2. paired = "yes"
    BY <1>1, <1>same, <1>2, <1>3, <1>4, <1>5, <2>1 DEF IsPaired
  <2>3. bz.pairing # "going"
    BY <1>4, <1>5, <2>2
  <2> QED BY <1>1, <1>same, <1>2, <1>3, <1>4, <1>5, <2>3 DEF ManagerIInv, Client, States, Stages
<1>14. BusyIsACall'
  BY <1>1, <1>same, <1>2, <1>3, <1>4, <1>5
     DEF ManagerIInv, BusyIsACall, States, Ghosts
<1>15. ScanIsBounded'
  BY <1>1, <1>same, <1>2, <1>3, <1>4, <1>5
     DEF ManagerIInv, ScanIsBounded, States, Ghosts
<1>16. PairedIsTrusted'
  BY <1>1, <1>same, <1>2, <1>3, <1>4, <1>5
     DEF ManagerIInv, PairedIsTrusted, States, Ghosts
<1>17. AnswerIsForItsQuestion'
  BY <1>1, <1>same, <1>2, <1>3, <1>4, <1>5
     DEF ManagerIInv, AnswerIsForItsQuestion, States, Ghosts
<1> QED BY <1>6, <1>7, <1>8, <1>9, <1>10, <1>12, <1>13, <1>14, <1>15, <1>16, <1>17 DEF ManagerIInv

LEMMA BlueZLeavesStep ==
  ASSUME ManagerIInv, BlueZLeaves
  PROVE  ManagerIInv'
<1>1. /\ Spend
      /\ bz' = [Failed(bz) EXCEPT !.up = FALSE, !.agent = FALSE, !.discovering = FALSE,
                                 !.powered = FALSE]
      /\ inbox' = IF bus THEN inbox \o <<Message("release", 0),
                                        [t |-> "owner", q |-> 0, gen |-> 0]>> ELSE inbox
      /\ ghost' = [ghost EXCEPT !.unstopped = FALSE]
  BY DEF BlueZLeaves, manager, known, timers
<1>same. UNCHANGED <<running, bus, owner, commands, enabled, settingsDirty, agentRegistered,
                     adapter, listed, paired, busy, calls, pending, nextId, scanUntil,
                     persistAt, persistLate, copied>>
  BY DEF BlueZLeaves, manager, known, timers
<1>2. left' \in 0 .. MaxEvents
  BY <1>1, <1>same, Spending DEF ManagerIInv
<1>3. bz \in States /\ inbox \in Seq(Messages) /\ ghost \in Ghosts
  BY <1>1, <1>same DEF ManagerIInv, Types
<1>4. Failed(bz) \in States /\ Alike(Failed(bz), bz)
  BY <1>3, FailedIs
<1>5. bz' \in States /\ ghost' \in Ghosts
  BY <1>1, <1>same, <1>3, <1>4 DEF States, Ghosts
<1>6. /\ Message("release", 0) \in Messages /\ [t |-> "owner", q |-> 0, gen |-> 0] \in Messages
      /\ Message("release", 0).q = 0 /\ Message("release", 0).gen = bz.gen
  BY <1>3 DEF Message, Messages, Kinds, States
<1>7. <<Message("release", 0), [t |-> "owner", q |-> 0, gen |-> 0]>> \in Seq(Messages)
  BY <1>6
<1>8. /\ inbox' \in Seq(Messages) /\ Len(inbox) \in Nat /\ Len(inbox') \in Nat
      /\ ~bus => inbox' = inbox
      /\ \A i \in 1 .. Len(inbox') :
           \/ i \in 1 .. Len(inbox) /\ inbox'[i] = inbox[i]
           \/ inbox'[i].q = 0 /\ inbox'[i].gen <= bz.gen
  BY <1>1, <1>same, <1>3, <1>6, <1>7, Joined DEF States
<1>9. /\ bz'.gen = bz.gen /\ bz'.asked = bz.asked /\ bz'.question = 0
      /\ bz'.key = bz.key /\ bz'.keys = bz.keys
  BY <1>1, <1>same, <1>3, <1>4, FailedIs DEF States, Alike
<1>10. Types'
  BY <1>1, <1>same, <1>2, <1>3, <1>4, <1>5, <1>6, <1>7, <1>8, <1>9 DEF ManagerIInv, Types
<1>11. AnswersFollow'
  BY <1>same DEF ManagerIInv, AnswersFollow
<1>12. Counted'
  <2>1. ASSUME NEW i \in 1 .. Len(inbox')
        PROVE  inbox'[i].q <= bz'.asked /\ inbox'[i].gen <= bz'.gen
    <3>1. CASE i \in 1 .. Len(inbox) /\ inbox'[i] = inbox[i]
      BY <1>9, <3>1, Counts DEF Counted
    <3>2. CASE inbox'[i].q = 0 /\ inbox'[i].gen <= bz.gen
      <4>1. bz.asked \in Nat
        BY DEF ManagerIInv, Types, States
      <4> QED BY <1>9, <3>2, <4>1
    <3> QED BY <1>8, <3>1, <3>2
  <2>2. bz'.key <= bz'.keys /\ copied' <= bz'.keys /\ bz'.question <= bz'.asked /\ owner' <= bz'.gen
    BY <1>1, <1>same, <1>9, Counts DEF Counted
  <2>3. pending'.q <= bz'.asked /\ pending'.id < nextId'
    BY <1>1, <1>same, <1>9, Counts DEF Counted
  <2> QED BY <2>1, <2>2, <2>3 DEF Counted
<1>13. Client'
  BY <1>1, <1>same, <1>2, <1>3, <1>4, <1>5, <1>6, <1>7, <1>8, <1>9
     DEF ManagerIInv, Client, States, Alike, Failed
<1>14. Held'
  BY <1>1, <1>same, <1>2, <1>3, <1>4, <1>5, <1>6, <1>7, <1>8, <1>9
     DEF ManagerIInv, Held, Undisturbed, States, Alike, Failed
<1>16. SettingsFollow'
  BY <1>1, <1>same, <1>2, <1>3, <1>4, <1>5, <1>6, <1>7, <1>8, <1>9
     DEF ManagerIInv, SettingsFollow, States, Alike, Failed
<1>17. CopiesFollow'
  BY <1>1, <1>same, <1>2, <1>3, <1>4, <1>5, <1>6, <1>7, <1>8, <1>9
     DEF ManagerIInv, CopiesFollow, IsPaired, States, Alike, Failed
<1>18. BusyIsACall'
  BY <1>1, <1>same, <1>2, <1>3, <1>4, <1>5, <1>6, <1>7, <1>8, <1>9
     DEF ManagerIInv, BusyIsACall, States, Ghosts
<1>19. ScanIsBounded'
  BY <1>1, <1>same, <1>2, <1>3, <1>4, <1>5, <1>6, <1>7, <1>8, <1>9
     DEF ManagerIInv, ScanIsBounded, States, Alike, Failed
<1>20. PairedIsTrusted'
  <2>1. bz'.key = bz.key /\ bz'.trusted = bz.trusted
    BY <1>1, <1>3, <1>4 DEF States, Alike
  <2>2. ghost'.distrust = ghost.distrust
    BY <1>1, <1>3 DEF Ghosts
  <2> QED BY <1>same, <2>1, <2>2 DEF ManagerIInv, PairedIsTrusted
<1>21. AnswerIsForItsQuestion'
  BY <1>1, <1>same, <1>2, <1>3, <1>4, <1>5, <1>6, <1>7, <1>8, <1>9
     DEF ManagerIInv, AnswerIsForItsQuestion, States
<1> QED BY <1>10, <1>11, <1>12, <1>13, <1>14, <1>16, <1>17, <1>18, <1>19, <1>20, <1>21 DEF ManagerIInv

LEMMA BlueZComesStep ==
  ASSUME ManagerIInv, BlueZComes
  PROVE  ManagerIInv'
<1>1. /\ \E on \in BOOLEAN : bz' = [bz EXCEPT !.up = TRUE, !.gen = @ + 1, !.powered = on]
      /\ ~bz.up
      /\ inbox' = IF bus THEN Append(inbox, [t |-> "owner", q |-> 0, gen |-> bz.gen + 1]) ELSE inbox
  BY DEF BlueZComes, manager, known, timers
<1>same. UNCHANGED <<running, bus, owner, commands, enabled, settingsDirty, agentRegistered,
                     adapter, listed, paired, busy, calls, pending, nextId, scanUntil,
                     persistAt, persistLate, copied, ghost, left>>
  BY DEF BlueZComes, manager, known, timers
<1>2. bz.asked + 1 \in Nat /\ bz.keys + 1 \in Nat /\ bz.gen + 1 \in Nat
  BY CountsOn
<1>3. bz \in States /\ bz' \in States
  BY <1>1, <1>same, <1>2 DEF ManagerIInv, Types, States, Stages
<1>4. /\ bz'.gen = bz.gen + 1 /\ bz'.asked = bz.asked /\ bz'.question = bz.question
      /\ bz'.key = bz.key /\ bz'.keys = bz.keys
  BY <1>1, <1>same, <1>3 DEF States
<1>5. inbox \in Seq(Messages) /\ [t |-> "owner", q |-> 0, gen |-> bz.gen + 1] \in Messages
  BY <1>1, <1>same, <1>2 DEF ManagerIInv, Types, Messages, Kinds, States
<1>6. /\ inbox' \in Seq(Messages) /\ Len(inbox) \in Nat
      /\ ~bus => inbox' = inbox
      /\ bus => /\ Len(inbox') = Len(inbox) + 1
                /\ inbox'[Len(inbox) + 1].q = 0
                /\ inbox'[Len(inbox) + 1].t = "owner" /\ inbox'[Len(inbox) + 1].gen = bz.gen + 1
      /\ \A i \in 1 .. Len(inbox) : inbox'[i] = inbox[i]
  BY <1>1, <1>same, <1>5, Appended
<1>7. Types'
  BY <1>1, <1>same, <1>2, <1>3, <1>4, <1>5, <1>6 DEF ManagerIInv, Types
<1>8. AnswersFollow' /\ BusyIsACall' /\ AnswerIsForItsQuestion'
  BY <1>same DEF ManagerIInv, AnswersFollow, BusyIsACall, AnswerIsForItsQuestion
<1>9. Counted'
  <2>1. ASSUME NEW i \in 1 .. Len(inbox')
        PROVE  inbox'[i].q <= bz'.asked /\ inbox'[i].gen <= bz'.gen
    <3>1. CASE i \in 1 .. Len(inbox)
      <4>1. inbox'[i] = inbox[i]
        BY <1>6, <3>1
      <4>2. /\ inbox[i].q \in Nat /\ inbox[i].q <= bz.asked /\ bz.asked \in Nat
            /\ inbox[i].gen \in Nat /\ inbox[i].gen <= bz.gen /\ bz.gen \in Nat
        BY <3>1, MessagesCount
      <4> QED BY <1>4, <4>1, <4>2
    <3>2. CASE bus /\ i = Len(inbox) + 1
      BY <1>1, <1>same, <1>2, <1>3, <1>4, <1>5, <1>6, <3>2, Counts
    <3> QED BY <1>1, <1>same, <1>2, <1>3, <1>4, <1>5, <1>6, <3>1, <3>2
  <2>2. /\ bz.key <= bz.keys /\ copied <= bz.keys /\ bz.question <= bz.asked /\ owner <= bz.gen
        /\ pending.q <= bz.asked /\ pending.id < nextId
        /\ bz.asked \in Nat /\ bz.gen \in Nat /\ bz.question \in Nat /\ pending.q \in Nat /\ owner \in Nat
    BY Counts DEF Counted
  <2>3. /\ bz'.key <= bz'.keys /\ copied' <= bz'.keys /\ bz'.question <= bz'.asked /\ owner' <= bz'.gen
        /\ pending'.q <= bz'.asked /\ pending'.id < nextId'
    BY <1>same, <1>4, <2>2
  <2> QED BY <2>1, <2>3 DEF Counted
<1>10. Client'
  BY <1>1, <1>same, <1>2, <1>3, <1>4, <1>5, <1>6
     DEF ManagerIInv, Client, States
<1>11. Held'
  BY <1>1, <1>same, <1>2, <1>3, <1>4, <1>5, <1>6
     DEF ManagerIInv, Held, Undisturbed, States, Client
<1>13. SettingsFollow'
  BY <1>1, <1>same, <1>6 DEF SettingsFollow
<1>14. CopiesFollow'
  BY <1>1, <1>same, <1>2, <1>3, <1>4, <1>5, <1>6
     DEF ManagerIInv, CopiesFollow, IsPaired, States, Client
<1>15. ScanIsBounded'
  BY <1>1, <1>same, <1>2, <1>3, <1>4, <1>5, <1>6
     DEF ManagerIInv, ScanIsBounded, States
<1>16. PairedIsTrusted'
  BY <1>1, <1>same, <1>2, <1>3, <1>4, <1>5, <1>6
     DEF ManagerIInv, PairedIsTrusted, States
<1> QED BY <1>7, <1>8, <1>9, <1>10, <1>11, <1>13, <1>14, <1>15, <1>16 DEF ManagerIInv


----------------------------------------------------------------------------
(* The requests.                                                           *)

\* A command is one of the orders.
LEMMA CommandIs ==
  ASSUME Types, NEW c \in Names, NEW id \in Nat, NEW yes \in BOOLEAN
  PROVE  /\ Command(c, id, yes) \in Orders /\ Command(c, id, yes).c = c
         /\ Command(c, id, yes).id = id /\ Command(c, id, yes).q = pending.q
BY DEF Types, Command, Orders, Prompts

\* One command posted, and others after it.
LEMMA PostedAre ==
  ASSUME NEW s \in Seq(Orders), NEW e \in Orders, NEW f \in Seq(Orders)
  PROVE  /\ Append(s, e) \o f \in Seq(Orders) /\ Len(s) \in Nat /\ Len(f) \in Nat
         /\ Len(Append(s, e) \o f) = Len(s) + 1 + Len(f)
         /\ \A i \in 1 .. Len(s) : (Append(s, e) \o f)[i] = s[i]
         /\ \A i \in Len(s) + 1 .. Len(s) + 1 + Len(f) :
              \/ (Append(s, e) \o f)[i] = e
              \/ i - (Len(s) + 1) \in 1 .. Len(f)
                 /\ (Append(s, e) \o f)[i] = f[i - (Len(s) + 1)]
         /\ (Append(s, e) \o f)[Len(s) + 1] = e
OBVIOUS

LEMMA PutBluetoothStep ==
  ASSUME ManagerIInv, PutBluetooth
  PROVE  ManagerIInv'
<1>1. /\ Spend /\ enabled' \in BOOLEAN
      /\ \E on \in BOOLEAN, disc \in {<<>>, <<TRUE>>, <<FALSE>>} :
           commands' = Append(commands, Command("apply", 0, on))
                         \o [i \in DOMAIN disc |-> Command("discoverable", 0, disc[i])]
  BY DEF PutBluetooth, posting, manager, known, timers
<1>same. UNCHANGED <<bz, inbox, running, bus, owner, settingsDirty, agentRegistered, adapter,
                     listed, paired, busy, calls, pending, nextId, scanUntil, persistAt,
                     persistLate, copied, ghost>>
  BY DEF PutBluetooth, posting, manager, known, timers
<1>2. left' \in 0 .. MaxEvents
  BY <1>1, <1>same, Spending DEF ManagerIInv
<1>3. PICK on \in BOOLEAN, disc \in {<<>>, <<TRUE>>, <<FALSE>>} :
           commands' = Append(commands, Command("apply", 0, on))
                         \o [i \in DOMAIN disc |-> Command("discoverable", 0, disc[i])]
  BY <1>1, <1>same
<1>4. commands \in Seq(Orders) /\ Command("apply", 0, on) \in Orders /\ Command("apply", 0, on).c = "apply"
  BY CommandIs DEF ManagerIInv, Types, Names
<1>5. /\ [i \in DOMAIN disc |-> Command("discoverable", 0, disc[i])] \in Seq(Orders)
      /\ \A k \in 1 .. Len([i \in DOMAIN disc |-> Command("discoverable", 0, disc[i])]) :
           [i \in DOMAIN disc |-> Command("discoverable", 0, disc[i])][k].c = "discoverable"
  <2>1. ASSUME NEW b \in BOOLEAN
        PROVE  Command("discoverable", 0, b) \in Orders /\ Command("discoverable", 0, b).c = "discoverable"
    BY CommandIs DEF ManagerIInv, Names
  <2>2. CASE disc = <<>>
    <3>1. [i \in DOMAIN disc |-> Command("discoverable", 0, disc[i])] = <<>>
      BY <2>2
    <3> QED BY <3>1
  <2>3. CASE disc # <<>>
    <3>1. PICK b \in BOOLEAN : disc = <<b>>
      BY <2>3
    <3>2. [i \in DOMAIN disc |-> Command("discoverable", 0, disc[i])] = <<Command("discoverable", 0, b)>>
      BY <3>1
    <3> QED BY <2>1, <3>2
  <2> QED BY <2>2, <2>3
<1>6. /\ commands' \in Seq(Orders) /\ Len(commands) \in Nat /\ Len(commands') \in Nat
      /\ Len(commands') >= Len(commands) + 1 /\ commands'[Len(commands) + 1].c = "apply"
      /\ \A i \in 1 .. Len(commands) : commands'[i] = commands[i]
      /\ \A i \in Len(commands) + 1 .. Len(commands') : commands'[i].c \in {"apply", "discoverable"}
  <2> DEFINE f == [i \in DOMAIN disc |-> Command("discoverable", 0, disc[i])]
  <2>1. f \in Seq(Orders) /\ \A k \in 1 .. Len(f) : f[k].c = "discoverable"
    BY <1>5
  <2>2. commands' = Append(commands, Command("apply", 0, on)) \o f
    BY <1>3
  <2> HIDE DEF f
  <2> QED BY <1>4, <2>1, <2>2, PostedAre
<1>7. Types'
  BY <1>1, <1>same, <1>2, <1>3, <1>4, <1>5, <1>6 DEF ManagerIInv, Types
<1>8. Counted' /\ Client' /\ Held' /\ CopiesFollow'
  BY <1>same DEF ManagerIInv, Counted, Client, Held, CopiesFollow, Undisturbed, IsPaired
<1>9. BusyIsACall' /\ ScanIsBounded' /\ PairedIsTrusted' /\ AnswerIsForItsQuestion'
  BY <1>same DEF ManagerIInv, BusyIsACall, ScanIsBounded, PairedIsTrusted,
     AnswerIsForItsQuestion
<1>10. AnswersFollow'
  BY <1>1, <1>same, <1>6 DEF ManagerIInv, AnswersFollow, Methods
<1>12. SettingsFollow'
  BY <1>1, <1>same, <1>6 DEF ManagerIInv, SettingsFollow, Methods
<1> QED BY <1>7, <1>8, <1>9, <1>10, <1>12 DEF ManagerIInv

LEMMA ScanStep ==
  ASSUME ManagerIInv, Scan
  PROVE  ManagerIInv'
<1>1. /\ Spend
      /\ \E on \in BOOLEAN : commands' = Append(commands, Command("scan", 0, on))
  BY DEF Scan, Post, posting, manager, known, timers
<1>same. UNCHANGED <<bz, inbox, running, bus, owner, enabled, settingsDirty, agentRegistered,
                     adapter, listed, paired, busy, calls, pending, nextId, scanUntil,
                     persistAt, persistLate, copied, ghost>>
  BY DEF Scan, Post, posting, manager, known, timers
<1>2. left' \in 0 .. MaxEvents
  BY <1>1, <1>same, Spending DEF ManagerIInv
<1>3. PICK on \in BOOLEAN : commands' = Append(commands, Command("scan", 0, on))
  BY <1>1, <1>same
<1>4. commands \in Seq(Orders) /\ Command("scan", 0, on) \in Orders /\ Command("scan", 0, on).c = "scan"
  BY CommandIs DEF ManagerIInv, Types, Names
<1>5. /\ commands' \in Seq(Orders) /\ Len(commands) \in Nat /\ Len(commands') = Len(commands) + 1
      /\ \A i \in 1 .. Len(commands) : commands'[i] = commands[i]
      /\ commands'[Len(commands) + 1].c = "scan"
  BY <1>3, <1>4, Appended
<1>6. Types'
  BY <1>1, <1>same, <1>2, <1>3, <1>4, <1>5 DEF ManagerIInv, Types
<1>7. Counted' /\ Client' /\ Held' /\ CopiesFollow'
  BY <1>same DEF ManagerIInv, Counted, Client, Held, CopiesFollow, Undisturbed, IsPaired
<1>8. BusyIsACall' /\ ScanIsBounded' /\ PairedIsTrusted' /\ AnswerIsForItsQuestion'
  BY <1>same DEF ManagerIInv, BusyIsACall, ScanIsBounded, PairedIsTrusted,
     AnswerIsForItsQuestion
<1>9. AnswersFollow'
  BY <1>1, <1>same, <1>5 DEF ManagerIInv, AnswersFollow, Methods
<1>11. SettingsFollow'
  BY <1>1, <1>same, <1>5 DEF ManagerIInv, SettingsFollow, Methods
<1> QED BY <1>6, <1>7, <1>8, <1>9, <1>11 DEF ManagerIInv

LEMMA DeviceActionStep ==
  ASSUME ManagerIInv, DeviceAction
  PROVE  ManagerIInv'
<1>1. /\ Spend /\ listed
      /\ \E c \in Methods \cup {"Remove", "quiet"}, yes \in BOOLEAN :
           commands' = Append(commands, Command(c, 0, yes))
  BY DEF DeviceAction, Post, posting, manager, known, timers
<1>same. UNCHANGED <<bz, inbox, running, bus, owner, enabled, settingsDirty, agentRegistered,
                     adapter, listed, paired, busy, calls, pending, nextId, scanUntil,
                     persistAt, persistLate, copied, ghost>>
  BY DEF DeviceAction, Post, posting, manager, known, timers
<1>2. left' \in 0 .. MaxEvents
  BY <1>1, <1>same, Spending DEF ManagerIInv
<1>3. PICK c \in Methods \cup {"Remove", "quiet"}, yes \in BOOLEAN :
          commands' = Append(commands, Command(c, 0, yes))
  BY <1>1, <1>same
<1>4. commands \in Seq(Orders) /\ Command(c, 0, yes) \in Orders /\ Command(c, 0, yes).c = c
  <2>1. commands \in Seq(Orders) /\ c \in Names /\ 0 \in Nat
    BY DEF ManagerIInv, Types, Names
  <2> QED BY <2>1, CommandIs DEF ManagerIInv
<1>5. /\ commands' \in Seq(Orders) /\ Len(commands) \in Nat /\ Len(commands') = Len(commands) + 1
      /\ \A i \in 1 .. Len(commands) : commands'[i] = commands[i]
      /\ commands'[Len(commands) + 1] = Command(c, 0, yes)
  BY <1>3, <1>4, Appended
<1>6. Types'
  BY <1>1, <1>same, <1>2, <1>3, <1>4, <1>5 DEF ManagerIInv, Types
<1>7. Counted' /\ Client' /\ Held' /\ CopiesFollow'
  BY <1>same DEF ManagerIInv, Counted, Client, Held, CopiesFollow, Undisturbed, IsPaired
<1>8. BusyIsACall' /\ ScanIsBounded' /\ PairedIsTrusted' /\ AnswerIsForItsQuestion'
  BY <1>same DEF ManagerIInv, BusyIsACall, ScanIsBounded, PairedIsTrusted,
     AnswerIsForItsQuestion
<1>9. AnswersFollow'
  BY <1>1, <1>same, <1>3, <1>4, <1>5 DEF ManagerIInv, AnswersFollow, Methods
<1>11. SettingsFollow'
  BY <1>1, <1>same, <1>3, <1>4, <1>5 DEF ManagerIInv, SettingsFollow, Methods
<1> QED BY <1>6, <1>7, <1>8, <1>9, <1>11 DEF ManagerIInv

LEMMA AnswerStep ==
  ASSUME ManagerIInv, Answer
  PROVE  ManagerIInv'
<1>1. /\ Spend /\ pending # None
      /\ \E yes \in BOOLEAN : commands' = Append(commands, Command("answer", pending.id, yes))
  BY DEF Answer, Post, posting, manager, known, timers
<1>same. UNCHANGED <<bz, inbox, running, bus, owner, enabled, settingsDirty, agentRegistered,
                     adapter, listed, paired, busy, calls, pending, nextId, scanUntil,
                     persistAt, persistLate, copied, ghost>>
  BY DEF Answer, Post, posting, manager, known, timers
<1>2. left' \in 0 .. MaxEvents
  BY <1>1, <1>same, Spending DEF ManagerIInv
<1>3. PICK yes \in BOOLEAN : commands' = Append(commands, Command("answer", pending.id, yes))
  BY <1>1, <1>same
<1>4. pending \in Prompts /\ pending.id \in Nat /\ pending.id < nextId /\ nextId \in Nat
  BY Numbers DEF ManagerIInv, Types, Counted, Prompts
<1>5. pending.id # 0
  BY <1>1, <1>same, <1>4 DEF ManagerIInv, AnswersFollow, Prompts, None
<1>6. commands \in Seq(Orders) /\ Command("answer", pending.id, yes) \in Orders
      /\ Command("answer", pending.id, yes).id = pending.id /\ Command("answer", pending.id, yes).q = pending.q
      /\ Command("answer", pending.id, yes).c = "answer"
  BY <1>4, CommandIs DEF ManagerIInv, Types, Names
<1>7. /\ commands' \in Seq(Orders) /\ Len(commands) \in Nat /\ Len(commands') = Len(commands) + 1
      /\ \A i \in 1 .. Len(commands) : commands'[i] = commands[i]
      /\ commands'[Len(commands) + 1] = Command("answer", pending.id, yes)
  <2>1. PICK m \in Orders : m = Command("answer", pending.id, yes)
    BY <1>6
  <2>2. commands' = Append(commands, m)
    BY <1>3, <2>1
  <2>3. commands \in Seq(Orders)
    BY <1>6
  <2> QED BY ONLY <2>1, <2>2, <2>3, Appended
<1>8. Types'
  BY <1>1, <1>same, <1>2, <1>3, <1>4, <1>5, <1>6, <1>7 DEF ManagerIInv, Types
<1>9. Counted' /\ Client' /\ Held' /\ CopiesFollow'
  BY <1>same DEF ManagerIInv, Counted, Client, Held, CopiesFollow, Undisturbed, IsPaired
<1>10. BusyIsACall' /\ ScanIsBounded' /\ PairedIsTrusted' /\ AnswerIsForItsQuestion'
  BY <1>same DEF ManagerIInv, BusyIsACall, ScanIsBounded, PairedIsTrusted,
     AnswerIsForItsQuestion
<1>11. AnswersFollow'
  BY <1>1, <1>same, <1>4, <1>5, <1>6, <1>7 DEF ManagerIInv, AnswersFollow
<1>13. SettingsFollow'
  BY <1>1, <1>same, <1>6, <1>7 DEF ManagerIInv, SettingsFollow, Methods
<1> QED BY <1>8, <1>9, <1>10, <1>11, <1>13 DEF ManagerIInv


----------------------------------------------------------------------------
(* The commands.                                                           *)

\* What is left of the commands, and of the messages, when the first is taken.
LEMMA TakenIs ==
  ASSUME ManagerIInv, NEW c, Take(c)
  PROVE  /\ commands' \in Seq(Orders) /\ Len(commands) \in Nat /\ Len(commands') \in Nat
         /\ Head(commands) = commands[1] /\ commands[1] \in Orders /\ commands[1].c = c
         /\ 1 \in 1 .. Len(commands)
         /\ \A i \in 1 .. Len(commands') : i + 1 \in 1 .. Len(commands) /\ commands'[i] = commands[i + 1]
         /\ \A i \in 1 .. Len(commands) : i = 1 \/ (i - 1 \in 1 .. Len(commands')
                                                   /\ commands'[i - 1] = commands[i])
<1>1. commands \in Seq(Orders) /\ commands # <<>> /\ commands' = Tail(commands) /\ Head(commands).c = c
  BY DEF ManagerIInv, Types, Take
<1> QED BY <1>1, Beheaded

LEMMA ProcessedIs ==
  ASSUME ManagerIInv, NEW t, Process(t)
  PROVE  /\ inbox' \in Seq(Messages) /\ Len(inbox) \in Nat /\ Len(inbox') \in Nat
         /\ Head(inbox) = inbox[1] /\ inbox[1] \in Messages /\ inbox[1].t = t
         /\ 1 \in 1 .. Len(inbox)
         /\ \A i \in 1 .. Len(inbox') : i + 1 \in 1 .. Len(inbox) /\ inbox'[i] = inbox[i + 1]
         /\ \A i \in 1 .. Len(inbox) : i = 1 \/ (i - 1 \in 1 .. Len(inbox') /\ inbox'[i - 1] = inbox[i])
<1>1. inbox \in Seq(Messages) /\ inbox # <<>> /\ inbox' = Tail(inbox) /\ Head(inbox).t = t
  BY DEF ManagerIInv, Types, Process
<1> QED BY <1>1, Beheaded

\* What the commands that are left say is what they said.
LEMMA AnswersStand ==
  ASSUME ManagerIInv, NEW c, Take(c), UNCHANGED <<pending, nextId>> \/ (pending' = None /\ UNCHANGED nextId)
  PROVE  AnswersFollow'
<1>1. pending'.id = 0 => pending'.q = 0
  BY DEF ManagerIInv, AnswersFollow, None
<1>2. ASSUME NEW i \in 1 .. Len(commands'), commands'[i].c = "answer"
      PROVE  /\ commands'[i].id \in 1 .. nextId' - 1
             /\ pending'.id = commands'[i].id => pending'.q = commands'[i].q
  <2>1. i + 1 \in 1 .. Len(commands) /\ commands'[i] = commands[i + 1]
    BY TakenIs
  <2>2. commands[i + 1].id \in 1 .. nextId - 1 /\ (pending.id = commands[i + 1].id => pending.q = commands[i + 1].q)
    BY <1>2, <2>1 DEF ManagerIInv, AnswersFollow
  <2>3. pending' = None => pending'.id = 0
    BY DEF None
  <2> QED BY <2>1, <2>2, <2>3
<1> QED BY <1>1, <1>2 DEF AnswersFollow

LEMMA CommandsStand ==
  ASSUME ManagerIInv, NEW c, Take(c)
  PROVE  c # "apply" /\ (\A i \in 1 .. Len(commands') : commands'[i].c # "apply")
           => \A i \in 1 .. Len(commands) : commands[i].c # "apply"
<1>1. ASSUME c # "apply", \A i \in 1 .. Len(commands') : commands'[i].c # "apply", NEW i \in 1 .. Len(commands)
      PROVE  commands[i].c # "apply"
  <2>1. CASE i = 1
    BY <1>1, <2>1, TakenIs
  <2>2. CASE i # 1
    BY <1>1, <2>2, TakenIs
  <2> QED BY <2>1, <2>2
<1> QED BY <1>1

\* A call to the device that is sent, or is not.
LEMMA Called ==
  ASSUME NEW m \in Methods, NEW out \in Seq(Methods), CallDevice(m, out)
  PROVE  calls' \in Seq(Methods) /\ busy' \in Busy /\ (busy' = "" \/ calls' # <<>>)
<1>1. BusyWith[m] \in Busy
  BY DEF BusyWith, Busy, Methods
<1>2. Append(out, m) \in Seq(Methods) /\ Append(out, m) # <<>>
  <2>1. Append(out, m) \in Seq(Methods) /\ Len(Append(out, m)) = Len(out) + 1 /\ Len(out) \in Nat
    BY Appended
  <2> QED BY <2>1
<1> QED BY <1>1, <1>2 DEF CallDevice, NotBusy, Busy

\* Where the scan is started and stopped, that is all that changes.
LEMMA ScanSteps ==
  ASSUME Types, Client,
         \/ StopScan
         \/ UNCHANGED <<bz, scanUntil, ghost>>
         \/ \E ok \in BOOLEAN : bus /\ StartScan(ok)
  PROVE  /\ bz' \in States /\ ghost' \in Ghosts /\ scanUntil' \in BOOLEAN
         /\ bz \in States /\ ghost \in Ghosts
         /\ \E d \in BOOLEAN : bz' = [bz EXCEPT !.discovering = d]
         /\ \E u \in BOOLEAN : ghost' = [ghost EXCEPT !.unstopped = u]
         /\ bz'.discovering => bus
         /\ ScanIsBounded /\ UNCHANGED <<running, bus>> => ScanIsBounded'
<1>1. bz \in States /\ ghost \in Ghosts /\ scanUntil \in BOOLEAN /\ (bz.discovering => bus)
  BY DEF Types, Client
<1>2. bz = [bz EXCEPT !.discovering = bz.discovering] /\ bz.discovering \in BOOLEAN
  BY <1>1 DEF States
<1>3. ghost = [ghost EXCEPT !.unstopped = ghost.unstopped] /\ ghost.unstopped \in BOOLEAN
  BY <1>1 DEF Ghosts
<1>4. CASE StopScan /\ bus /\ adapter.available
  <2>1. bz' = [bz EXCEPT !.discovering = FALSE] /\ scanUntil' = FALSE /\ ghost' = ghost
    BY <1>4 DEF StopScan
  <2>2. bz' \in States /\ ~bz'.discovering
    BY <1>1, <2>1 DEF States
  <2> QED BY <1>1, <1>3, <2>1, <2>2 DEF ScanIsBounded
<1>5. CASE StopScan /\ ~(bus /\ adapter.available)
  <2>1. bz' = bz /\ scanUntil' = FALSE /\ ghost' = [ghost EXCEPT !.unstopped = @ \/ bz.discovering]
    BY <1>5 DEF StopScan
  <2>2. PICK u \in BOOLEAN : ghost' = [ghost EXCEPT !.unstopped = u] /\ u = (ghost.unstopped \/ bz.discovering)
    BY <2>1
  <2>3. ghost' \in Ghosts /\ (bz.discovering => ghost'.unstopped)
    BY <1>1, <2>2 DEF Ghosts
  <2> QED BY <1>1, <1>2, <2>1, <2>2, <2>3 DEF ScanIsBounded
<1>6. CASE UNCHANGED <<bz, scanUntil, ghost>>
  BY <1>1, <1>2, <1>3, <1>6 DEF ScanIsBounded
<1>7. CASE \E ok \in BOOLEAN : bus /\ StartScan(ok)
  <2>1. PICK ok \in BOOLEAN : bus /\ StartScan(ok)
    BY <1>7
  <2>2. PICK d \in BOOLEAN : bz' = [bz EXCEPT !.discovering = d] /\ d = (bz.discovering \/ ok)
    BY <2>1 DEF StartScan
  <2>3. bz' \in States /\ bz'.discovering = (bz.discovering \/ ok)
    BY <1>1, <2>2 DEF States
  <2>4. scanUntil' = (scanUntil \/ ok) /\ ghost' = ghost
    BY <2>1 DEF StartScan
  <2> QED BY <1>1, <1>3, <2>1, <2>2, <2>3, <2>4 DEF ScanIsBounded
<1> QED BY <1>4, <1>5, <1>6, <1>7

LEMMA DoApplyStep ==
  ASSUME ManagerIInv, DoApply
  PROVE  ManagerIInv'
<1>1. Take("apply") /\ settingsDirty'
  BY DEF DoApply, known, timers
<1>same. UNCHANGED <<bz, inbox, running, bus, owner, enabled, agentRegistered, adapter, listed,
                     paired, busy, calls, pending, nextId, scanUntil, persistAt, persistLate,
                     copied, ghost, left>>
  BY DEF DoApply, known, timers
<1>2. /\ commands' \in Seq(Orders) /\ Len(commands) \in Nat /\ Len(commands') \in Nat
      /\ 1 \in 1 .. Len(commands) /\ commands[1].c = "apply" /\ On = commands[1].yes /\ On \in BOOLEAN
      /\ \A i \in 1 .. Len(commands') : i + 1 \in 1 .. Len(commands) /\ commands'[i] = commands[i + 1]
      /\ \A i \in 1 .. Len(commands) : i = 1 \/ (i - 1 \in 1 .. Len(commands')
                                                /\ commands'[i - 1] = commands[i])
  BY <1>1, <1>same, TakenIs DEF On, Orders
<1>3. Types'
  BY <1>1, <1>same, <1>2 DEF ManagerIInv, Types
<1>4. Counted' /\ Client' /\ Held' /\ CopiesFollow'
  BY <1>same DEF ManagerIInv, Counted, Client, Held, CopiesFollow, Undisturbed, IsPaired
<1>5. BusyIsACall' /\ ScanIsBounded' /\ PairedIsTrusted' /\ AnswerIsForItsQuestion'
  BY <1>same DEF ManagerIInv, BusyIsACall, ScanIsBounded, PairedIsTrusted,
     AnswerIsForItsQuestion
<1>6. AnswersFollow'
  BY <1>1, <1>same, AnswersStand
<1>8. SettingsFollow'
  BY <1>1, <1>same, <1>2
     DEF ManagerIInv, SettingsFollow, States
<1> QED BY <1>3, <1>4, <1>5, <1>6, <1>8 DEF ManagerIInv

LEMMA DoQuietStep ==
  ASSUME ManagerIInv, DoQuiet
  PROVE  ManagerIInv'
<1>1. /\ Take("quiet")
      /\ busy' = busy \/ busy' = ""
  BY DEF DoQuiet, NotBusy, known, timers
<1>same. UNCHANGED <<bz, inbox, running, bus, owner, enabled, settingsDirty, agentRegistered,
                     adapter, listed, paired, calls, pending, nextId, scanUntil, persistAt,
                     persistLate, copied, ghost, left>>
  BY DEF DoQuiet, NotBusy, known, timers
<1>2. /\ commands' \in Seq(Orders) /\ Len(commands) \in Nat /\ Len(commands') \in Nat
      /\ 1 \in 1 .. Len(commands) /\ commands[1].c = "quiet" /\ On = commands[1].yes /\ On \in BOOLEAN
      /\ \A i \in 1 .. Len(commands') : i + 1 \in 1 .. Len(commands) /\ commands'[i] = commands[i + 1]
      /\ \A i \in 1 .. Len(commands) : i = 1 \/ (i - 1 \in 1 .. Len(commands')
                                                /\ commands'[i - 1] = commands[i])
  BY <1>1, <1>same, TakenIs DEF On, Orders
<1>3. busy' \in Busy
  BY <1>1, <1>same DEF ManagerIInv, Types, Busy
<1>4. Types'
  BY <1>1, <1>same, <1>2, <1>3 DEF ManagerIInv, Types
<1>5. Counted' /\ Client' /\ Held' /\ CopiesFollow'
  BY <1>same DEF ManagerIInv, Counted, Client, Held, CopiesFollow, Undisturbed, IsPaired
<1>6. ScanIsBounded' /\ PairedIsTrusted' /\ AnswerIsForItsQuestion'
  BY <1>same DEF ManagerIInv, ScanIsBounded, PairedIsTrusted, AnswerIsForItsQuestion
<1>7. AnswersFollow'
  BY <1>1, <1>same, AnswersStand
<1>9. SettingsFollow'
  BY <1>1, <1>same, <1>2, <1>3
     DEF ManagerIInv, SettingsFollow, States
<1>10. BusyIsACall'
  BY <1>1, <1>same, <1>2, <1>3
     DEF ManagerIInv, BusyIsACall, States
<1> QED BY <1>4, <1>5, <1>6, <1>7, <1>9, <1>10 DEF ManagerIInv

LEMMA DoScanStep ==
  ASSUME ManagerIInv, DoScan
  PROVE  ManagerIInv'
<1>1. /\ Take("scan")
      /\ \/ StopScan /\ UNCHANGED left
         \/ UNCHANGED <<bz, scanUntil, ghost, left>>
         \/ \E ok \in BOOLEAN : bus /\ StartScan(ok) /\ (Spend \/ UNCHANGED left)
  BY DEF DoScan, Outcome, known, timers
<1>same. UNCHANGED <<inbox, running, bus, owner, enabled, settingsDirty, agentRegistered,
                     adapter, listed, paired, busy, calls, pending, nextId, persistAt,
                     persistLate, copied>>
  BY DEF DoScan, Outcome, known, timers
<1>2. /\ commands' \in Seq(Orders) /\ Len(commands) \in Nat /\ Len(commands') \in Nat
      /\ 1 \in 1 .. Len(commands) /\ commands[1].c = "scan" /\ On = commands[1].yes /\ On \in BOOLEAN
      /\ \A i \in 1 .. Len(commands') : i + 1 \in 1 .. Len(commands) /\ commands'[i] = commands[i + 1]
      /\ \A i \in 1 .. Len(commands) : i = 1 \/ (i - 1 \in 1 .. Len(commands')
                                                /\ commands'[i - 1] = commands[i])
  BY <1>1, <1>same, TakenIs DEF On, Orders
<1>3. left' \in 0 .. MaxEvents
  BY <1>1, <1>same, Spending DEF ManagerIInv
<1>4. /\ bz' \in States /\ ghost' \in Ghosts /\ scanUntil' \in BOOLEAN /\ bz \in States /\ ghost \in Ghosts
      /\ \E d \in BOOLEAN : bz' = [bz EXCEPT !.discovering = d]
      /\ \E u \in BOOLEAN : ghost' = [ghost EXCEPT !.unstopped = u]
      /\ (bz'.discovering => bus) /\ (ScanIsBounded /\ UNCHANGED <<running, bus>> => ScanIsBounded')
  BY <1>1, <1>same, ScanSteps DEF ManagerIInv
<1>5. Types'
  BY <1>1, <1>same, <1>2, <1>3, <1>4 DEF ManagerIInv, Types
<1>6. Counted'
  BY <1>1, <1>same, <1>4 DEF ManagerIInv, Counted, Types, States, Ghosts
<1>7. Client'
  BY <1>same, <1>4 DEF ManagerIInv, Client, States, Ghosts
<1>8. Held'
  <2>1. bz'.question = bz.question /\ ghost'.gaveUp = ghost.gaveUp
    BY <1>4 DEF States, Ghosts
  <2> QED BY <1>same, <2>1 DEF ManagerIInv, Held, Undisturbed
<1>9. AnswersFollow'
  BY <1>1, <1>same, AnswersStand
<1>11. SettingsFollow'
  BY <1>1, <1>same, <1>4, CommandsStand DEF ManagerIInv, SettingsFollow, States, Ghosts
<1>12. CopiesFollow'
  BY <1>same, <1>4 DEF ManagerIInv, CopiesFollow, IsPaired, States, Ghosts
<1>13. BusyIsACall'
  BY <1>same, <1>4 DEF ManagerIInv, BusyIsACall, States, Ghosts
<1>14. ScanIsBounded'
  BY <1>same, <1>4 DEF ManagerIInv, ScanIsBounded, States, Ghosts
<1>15. PairedIsTrusted'
  BY <1>same, <1>4 DEF ManagerIInv, PairedIsTrusted, States, Ghosts
<1>16. AnswerIsForItsQuestion'
  BY <1>same, <1>4 DEF ManagerIInv, AnswerIsForItsQuestion, States, Ghosts
<1> QED BY <1>5, <1>6, <1>7, <1>8, <1>9, <1>11, <1>12, <1>13, <1>14, <1>15, <1>16 DEF ManagerIInv

LEMMA DoDeviceStep ==
  ASSUME ManagerIInv, DoDevice
  PROVE  ManagerIInv'
<1>1. \E m \in Methods :
        /\ Take(m)
        /\ \/ UNCHANGED <<bz, busy, calls>>
           \/ /\ bus /\ CallDevice(m, calls)
              /\ bz' = bz \/ (bz.pairing = "none" /\ bz' = [bz EXCEPT !.pairing = "going"])
  BY DEF DoDevice, known, timers
<1>same. UNCHANGED <<inbox, running, bus, owner, enabled, settingsDirty, agentRegistered,
                     adapter, listed, paired, pending, nextId, scanUntil, persistAt,
                     persistLate, copied, ghost, left>>
  BY DEF DoDevice, known, timers
<1>2. PICK m \in Methods :
        /\ Take(m)
        /\ \/ UNCHANGED <<bz, busy, calls>>
           \/ /\ bus /\ CallDevice(m, calls)
              /\ bz' = bz \/ (bz.pairing = "none" /\ bz' = [bz EXCEPT !.pairing = "going"])
  BY <1>1, <1>same
<1>3. /\ commands' \in Seq(Orders) /\ Len(commands) \in Nat /\ Len(commands') \in Nat
      /\ 1 \in 1 .. Len(commands) /\ commands[1].c = m /\ On = commands[1].yes /\ On \in BOOLEAN
      /\ \A i \in 1 .. Len(commands') : i + 1 \in 1 .. Len(commands) /\ commands'[i] = commands[i + 1]
      /\ \A i \in 1 .. Len(commands) : i = 1 \/ (i - 1 \in 1 .. Len(commands')
                                                /\ commands'[i - 1] = commands[i])
  BY <1>2, TakenIs DEF On, Orders
<1>5. /\ calls' \in Seq(Methods) /\ busy' \in Busy /\ (~bus => calls' = calls)
      /\ busy' = "" \/ calls' # <<>> \/ UNCHANGED <<busy, calls>>
  BY <1>2, Called DEF ManagerIInv, Types
<1>6. bz \in States /\ bz' \in States
  BY <1>2 DEF ManagerIInv, Types, States, Stages
<1>7. bz' = bz \/ (bz.pairing = "none" /\ bz' = [bz EXCEPT !.pairing = "going"])
  BY <1>2
<1>8. Types'
  BY <1>1, <1>same, <1>2, <1>3, <1>5, <1>6, <1>7 DEF ManagerIInv, Types
<1>9. AnswerIsForItsQuestion'
  BY <1>same DEF ManagerIInv, AnswerIsForItsQuestion
<1>10. Counted'
  BY <1>1, <1>same, <1>2, <1>3, <1>5, <1>6, <1>7
     DEF ManagerIInv, Counted, States
<1>11. Client'
  BY <1>1, <1>same, <1>2, <1>3, <1>5, <1>6, <1>7
     DEF ManagerIInv, Client, States
<1>12. Held'
  <2>1. bz'.question = bz.question
    BY <1>6, <1>7 DEF States
  <2> QED BY <1>same, <2>1 DEF ManagerIInv, Held, Undisturbed
<1>13. AnswersFollow'
  BY <1>2, <1>same, AnswersStand
<1>15. SettingsFollow'
  BY <1>same, <1>3, <1>6, <1>7 DEF ManagerIInv, SettingsFollow, States, Methods
<1>16. CopiesFollow'
  BY <1>1, <1>same, <1>2, <1>3, <1>5, <1>6, <1>7
     DEF ManagerIInv, CopiesFollow, IsPaired, States
<1>17. BusyIsACall'
  BY <1>1, <1>same, <1>2, <1>3, <1>5, <1>6, <1>7
     DEF ManagerIInv, BusyIsACall, States
<1>18. ScanIsBounded'
  BY <1>1, <1>same, <1>2, <1>3, <1>5, <1>6, <1>7
     DEF ManagerIInv, ScanIsBounded, States
<1>19. PairedIsTrusted'
  BY <1>1, <1>same, <1>2, <1>3, <1>5, <1>6, <1>7
     DEF ManagerIInv, PairedIsTrusted, States
<1> QED BY <1>8, <1>9, <1>10, <1>11, <1>12, <1>13, <1>15, <1>16, <1>17, <1>18, <1>19 DEF ManagerIInv


\* The inbox, when a question may have been taken back.
LEMMA BoxIs ==
  ASSUME ManagerIInv, inbox' = inbox \/ inbox' = Withdrawn(bz, inbox)
  PROVE  /\ inbox' \in Seq(Messages) /\ (~bus => inbox' = inbox)
         /\ \A i \in 1 .. Len(inbox') : inbox'[i].q <= bz.asked /\ inbox'[i].gen <= bz.gen
         /\ (\A i \in 1 .. Len(inbox') : inbox'[i].t # "owner")
              => \A i \in 1 .. Len(inbox) : inbox[i].t # "owner"
<1>1. bz \in States /\ inbox \in Seq(Messages)
  BY DEF ManagerIInv, Types
<1>2. CASE inbox' = inbox
  BY <1>1, <1>2 DEF ManagerIInv, Counted
<1>3. CASE inbox' = Withdrawn(bz, inbox)
  <2>1. /\ inbox' \in Seq(Messages) /\ Len(inbox) \in Nat /\ (~bus => inbox' = inbox)
        /\ Len(inbox') \in {Len(inbox), Len(inbox) + 1}
        /\ \A i \in 1 .. Len(inbox) : inbox'[i] = inbox[i]
        /\ \A i \in Len(inbox) + 1 .. Len(inbox') : inbox'[i].q = 0 /\ inbox'[i].gen = bz.gen
    BY <1>1, <1>3, WithdrawnIs
  <2>2. ASSUME NEW i \in 1 .. Len(inbox')
        PROVE  inbox'[i].q <= bz.asked /\ inbox'[i].gen <= bz.gen
    <3>1. CASE i \in 1 .. Len(inbox)
      BY <2>1, <3>1 DEF ManagerIInv, Counted
    <3>2. CASE i \in Len(inbox) + 1 .. Len(inbox')
      BY <2>1, <3>2, Counts
    <3> QED BY <2>1, <3>1, <3>2
  <2>3. \A i \in 1 .. Len(inbox) : i \in 1 .. Len(inbox') /\ inbox'[i] = inbox[i]
    BY <2>1
  <2> QED BY <2>1, <2>2, <2>3
<1> QED BY <1>2, <1>3

\* The adapter as the settings have it, or as it was.
LEMMA ReconciledIs ==
  ASSUME Types, NEW z \in States, NEW seen \in BOOLEAN, NEW ok \in BOOLEAN,
         z.question # 0 => z.pairing # "none"
  PROVE  LET r == Reconciled(z, seen, ok) IN
         /\ r \in States
         /\ r.up = z.up /\ r.gen = z.gen /\ r.agent = z.agent /\ r.asked = z.asked
         /\ r.known = z.known /\ r.key = z.key /\ r.keys = z.keys /\ r.trusted = z.trusted
         /\ (r.discovering => z.discovering)
         /\ r.powered = IF seen = enabled \/ ~ok THEN z.powered ELSE enabled
         /\ \/ r.pairing = z.pairing /\ r.question = z.question
            \/ r.pairing = "none" /\ r.question = 0 /\ z.pairing # "none"
<1>1. enabled \in BOOLEAN
  BY DEF Types
<1>2. CASE seen = enabled \/ ~ok
  BY <1>2 DEF Reconciled
<1>3. CASE ~(seen = enabled \/ ~ok)
  BY <1>1, <1>3, RadioIs DEF Reconciled, States
<1> QED BY <1>2, <1>3

LEMMA DoRemoveStep ==
  ASSUME ManagerIInv, DoRemove
  PROVE  ManagerIInv'
<1>1. /\ Take("Remove")
      /\ busy' = busy \/ busy' = ""
      /\ \/ UNCHANGED <<bz, persistAt, inbox>>
         \/ /\ bz' = [Failed(bz) EXCEPT !.known = FALSE, !.key = 0, !.trusted = FALSE]
            /\ persistAt' = TRUE /\ inbox' = Withdrawn(bz, inbox)
  BY DEF DoRemove, SchedulePersist, known, timers
<1>same. UNCHANGED <<running, bus, owner, enabled, settingsDirty, agentRegistered, adapter,
                     listed, paired, calls, pending, nextId, scanUntil, persistLate, copied,
                     ghost, left>>
  BY DEF DoRemove, SchedulePersist, known, timers
<1>2. bz \in States /\ Failed(bz) \in States /\ Alike(Failed(bz), bz) /\ persistAt \in BOOLEAN
  BY FailedIs DEF ManagerIInv, Types
<1>3. /\ bz' \in States /\ bz'.up = bz.up /\ bz'.gen = bz.gen /\ bz'.agent = bz.agent
      /\ bz'.asked = bz.asked /\ bz'.keys = bz.keys /\ bz'.powered = bz.powered
      /\ bz'.discovering = bz.discovering /\ persistAt' \in BOOLEAN
      /\ \/ UNCHANGED <<bz, persistAt, inbox>>
         \/ bz'.question = 0 /\ bz'.pairing = "none" /\ bz'.key = 0 /\ persistAt'
  <2>1. CASE UNCHANGED <<bz, persistAt, inbox>>
    BY <1>2, <2>1
  <2>2. CASE /\ bz' = [Failed(bz) EXCEPT !.known = FALSE, !.key = 0, !.trusted = FALSE]
             /\ persistAt' = TRUE
    BY <1>2, <2>2, FailedIs DEF States, Alike
  <2> QED BY <1>1, <2>1, <2>2
<1>4. /\ inbox' \in Seq(Messages) /\ (~bus => inbox' = inbox)
      /\ \A i \in 1 .. Len(inbox') : inbox'[i].q <= bz.asked /\ inbox'[i].gen <= bz.gen
      /\ (\A i \in 1 .. Len(inbox') : inbox'[i].t # "owner")
           => \A i \in 1 .. Len(inbox) : inbox[i].t # "owner"
  BY <1>1, <1>same, BoxIs
<1>5. busy' \in Busy /\ commands' \in Seq(Orders)
  BY <1>1, <1>same, TakenIs DEF ManagerIInv, Types, Busy
<1>6. Types'
  BY <1>1, <1>same, <1>2, <1>3, <1>4, <1>5 DEF ManagerIInv, Types
<1>7. AnswerIsForItsQuestion'
  BY <1>same DEF ManagerIInv, AnswerIsForItsQuestion
<1>8. Counted'
  BY <1>same, <1>3, <1>4, Counts DEF Counted
<1>9. Client'
  BY <1>same, <1>3, <1>4 DEF ManagerIInv, Client
<1>10. Held'
  BY <1>same, <1>3 DEF ManagerIInv, Held, Undisturbed
<1>11. AnswersFollow'
  BY <1>1, <1>same, AnswersStand
<1>13. SettingsFollow'
  BY <1>1, <1>same, <1>3, <1>4, CommandsStand DEF ManagerIInv, SettingsFollow
<1>14. CopiesFollow'
  BY <1>same, <1>3 DEF ManagerIInv, CopiesFollow, IsPaired
<1>15. BusyIsACall'
  BY <1>1, <1>same DEF ManagerIInv, BusyIsACall
<1>16. ScanIsBounded'
  BY <1>same, <1>3 DEF ManagerIInv, ScanIsBounded
<1>17. PairedIsTrusted'
  BY <1>same, <1>3 DEF ManagerIInv, PairedIsTrusted
<1> QED BY <1>6, <1>7, <1>8, <1>9, <1>10, <1>11, <1>13, <1>14, <1>15, <1>16, <1>17 DEF ManagerIInv

\* What the pairing and its question are after an answer, and that the answer is the last of it.
LEMMA PromptSettled ==
  ASSUME ManagerIInv, pending' = None, UNCHANGED <<inbox, ghost>>, NEW yes \in BOOLEAN,
         bz' = IF bus THEN Answered(bz, pending.q, yes) ELSE bz
  PROVE  /\ bz' \in States /\ Alike(bz', bz) /\ pending' \in Prompts /\ pending'.q = 0 /\ pending'.id = 0
         /\ \/ bz' = bz
            \/ bz.pairing # "none" /\ bz'.question = 0 /\ bz'.pairing = IF yes THEN "accepted" ELSE "none"
         /\ Held'
<1>1. bz \in States /\ (bz.question # 0 => bus /\ bz.pairing # "none")
  BY DEF ManagerIInv, Types, Client
<1>2. pending' \in Prompts /\ pending'.q = 0 /\ pending'.id = 0
  BY DEF None, Prompts
<1>3. CASE bz.question = pending.q /\ bz.question # 0
  <2>1. bz' = Answered(bz, pending.q, yes)
    BY <1>1, <1>3
  <2>2. /\ bz' \in States /\ Alike(bz', bz) /\ bz'.question = 0
        /\ bz'.pairing = IF yes THEN "accepted" ELSE "none"
    BY <1>1, <1>3, <2>1, AnsweredIs
  <2> QED BY <1>1, <1>2, <1>3, <2>2 DEF Held
<1>4. CASE ~(bz.question = pending.q /\ bz.question # 0)
  <2>1. bz' = bz
    BY <1>1, <1>4, AnsweredIs
  <2>2. Held'
    BY <1>2, <1>4, <2>1 DEF ManagerIInv, Held, Undisturbed
  <2> QED BY <1>1, <1>2, <2>1, <2>2 DEF Alike
<1> QED BY <1>3, <1>4

LEMMA DoAnswerStep ==
  ASSUME ManagerIInv, DoAnswer
  PROVE  ManagerIInv'
<1>1. /\ Take("answer")
      /\ \/ UNCHANGED <<bz, pending, persistAt, persistLate>>
         \/ pending.q = 0 /\ pending' = None /\ UNCHANGED <<bz, persistAt, persistLate>>
         \/ \E yes \in BOOLEAN :
              /\ pending' = None /\ bz' = IF bus THEN Answered(bz, pending.q, yes) ELSE bz
              /\ IF yes THEN persistAt' = TRUE /\ persistLate' = TRUE ELSE UNCHANGED <<persistAt, persistLate>>
  <2>1. Head(commands).yes \in BOOLEAN /\ Head(commands) = commands[1] /\ Take("answer")
    BY TakenIs DEF DoAnswer, Orders
  <2> QED BY <2>1, SMTT(30) DEF DoAnswer, SchedulePersistAfterPairing
<1>same. UNCHANGED <<inbox, running, bus, owner, enabled, settingsDirty, agentRegistered, adapter,
                     listed, paired, busy, calls, nextId, scanUntil, copied, ghost, left>>
  <2>1. UNCHANGED <<inbox, running, bus, owner, enabled, settingsDirty, agentRegistered, adapter,
                    listed, paired, busy, calls, nextId, scanUntil, copied, left>>
    BY DEF DoAnswer, known
  <2>2. CASE ghost' = ghost
    BY <2>1, <2>2
  <2>3. CASE ghost' # ghost
    <3>1. /\ pending # None /\ pending.id = Head(commands).id
          /\ ghost' = [ghost EXCEPT !.crossed = @ \/ pending.q # Head(commands).q]
      BY <2>3 DEF DoAnswer, ThisRequest
    <3>2. Head(commands) = commands[1] /\ commands[1].c = "answer" /\ 1 \in 1 .. Len(commands)
      BY TakenIs DEF DoAnswer
    <3>3. pending.q = Head(commands).q
      BY <3>1, <3>2 DEF ManagerIInv, AnswersFollow
    <3>4. ghost' = [ghost EXCEPT !.crossed = ghost.crossed] /\ ghost \in Ghosts
      BY <3>1, <3>3 DEF ManagerIInv, Types, Ghosts
    <3> QED BY <2>3, <3>4 DEF Ghosts
  <2> QED BY <2>2, <2>3
<1>2. /\ commands' \in Seq(Orders) /\ Len(commands) \in Nat /\ Len(commands') \in Nat
      /\ 1 \in 1 .. Len(commands) /\ commands[1].c = "answer" /\ On = commands[1].yes /\ On \in BOOLEAN
      /\ \A i \in 1 .. Len(commands') : i + 1 \in 1 .. Len(commands) /\ commands'[i] = commands[i + 1]
      /\ \A i \in 1 .. Len(commands) : i = 1 \/ (i - 1 \in 1 .. Len(commands')
                                                /\ commands'[i - 1] = commands[i])
  BY <1>1, <1>same, TakenIs DEF On, Orders
<1>3. pending' \in Prompts /\ (pending' = pending \/ (pending'.q = 0 /\ pending'.id = 0))
  BY <1>1, <1>same DEF ManagerIInv, Types, Prompts, None
<1>4. /\ bz' \in States /\ Alike(bz', bz) /\ persistAt' \in BOOLEAN /\ persistLate' \in BOOLEAN
      /\ Held' /\ (persistAt => persistAt') /\ (persistLate => persistLate')
      /\ \/ bz' = bz
         \/ /\ bz.pairing # "none" /\ bz'.question = 0
            /\ bz'.pairing = "none" \/ (bz'.pairing = "accepted" /\ persistLate')
  <2>1. CASE UNCHANGED <<bz, pending, persistAt, persistLate>>
    BY <1>same, <2>1 DEF ManagerIInv, Types, Held, Undisturbed, Alike
  <2>2. CASE pending.q = 0 /\ pending' = None /\ UNCHANGED <<bz, persistAt, persistLate>>
    <3>1. Held'
      BY <1>same, <1>3, <2>2 DEF ManagerIInv, Held, Undisturbed, None
    <3> QED BY <2>2, <3>1 DEF ManagerIInv, Types, Alike
  <2>3. ASSUME NEW yes \in BOOLEAN, pending' = None, bz' = IF bus THEN Answered(bz, pending.q, yes) ELSE bz,
               IF yes THEN persistAt' = TRUE /\ persistLate' = TRUE ELSE UNCHANGED <<persistAt, persistLate>>
        PROVE  /\ bz' \in States /\ Alike(bz', bz) /\ persistAt' \in BOOLEAN /\ persistLate' \in BOOLEAN
               /\ Held' /\ (persistAt => persistAt') /\ (persistLate => persistLate')
               /\ \/ bz' = bz
                  \/ /\ bz.pairing # "none" /\ bz'.question = 0
                     /\ bz'.pairing = "none" \/ (bz'.pairing = "accepted" /\ persistLate')
    <3>1. persistAt' \in BOOLEAN /\ persistLate' \in BOOLEAN /\ (persistAt => persistAt')
          /\ (persistLate => persistLate') /\ (yes => persistLate')
      BY <2>3 DEF ManagerIInv, Types
    <3>2. /\ bz' \in States /\ Alike(bz', bz) /\ Held'
          /\ \/ bz' = bz
             \/ bz.pairing # "none" /\ bz'.question = 0 /\ bz'.pairing = IF yes THEN "accepted" ELSE "none"
      BY <1>same, <2>3, PromptSettled
    <3> QED BY <3>1, <3>2
  <2> QED BY <1>1, <2>1, <2>2, <2>3
<1>5. Types'
  BY <1>1, <1>same, <1>2, <1>3, <1>4 DEF ManagerIInv, Types
<1>6. BusyIsACall' /\ AnswerIsForItsQuestion'
  BY <1>same DEF ManagerIInv, BusyIsACall, AnswerIsForItsQuestion
<1>7. Counted'
  BY <1>same, <1>3, <1>4, Counts DEF Counted, Alike
<1>8. Client'
  BY <1>same, <1>4 DEF ManagerIInv, Client, Alike
<1>9. Held'
  BY <1>4
<1>10. AnswersFollow'
  BY <1>1, <1>same, AnswersStand
<1>12. SettingsFollow'
  BY <1>1, <1>same, <1>4, CommandsStand DEF ManagerIInv, SettingsFollow, Alike
<1>13. CopiesFollow'
  BY <1>same, <1>4 DEF ManagerIInv, CopiesFollow, IsPaired, Alike
<1>14. ScanIsBounded'
  BY <1>same, <1>4 DEF ManagerIInv, ScanIsBounded, Alike
<1>15. PairedIsTrusted'
  BY <1>same, <1>4 DEF ManagerIInv, PairedIsTrusted, Alike
<1> QED BY <1>5, <1>6, <1>7, <1>8, <1>9, <1>10, <1>12, <1>13, <1>14, <1>15 DEF ManagerIInv

LEMMA DoDiscoverableStep ==
  ASSUME ManagerIInv, DoDiscoverable
  PROVE  ManagerIInv'
<1>1. /\ Take("discoverable")
      /\ \/ UNCHANGED <<bz, settingsDirty, inbox, ghost, left>>
         \/ \E ok \in BOOLEAN :
              /\ Spend \/ UNCHANGED left
              /\ bz' = Reconciled(bz, adapter.powered, ok)
              /\ inbox' = IF bz'.pairing # bz.pairing THEN Withdrawn(bz, inbox) ELSE inbox
              /\ settingsDirty' = StillDirty(adapter.powered, ok)
              /\ ghost' = [ghost EXCEPT !.stale = @ \/ (settingsDirty /\ ~settingsDirty'
                                                       /\ adapter.powered # bz.powered)]
  BY DEF DoDiscoverable, Outcome, known, timers
<1>same. UNCHANGED <<running, bus, owner, enabled, agentRegistered, adapter, listed, paired,
                     busy, calls, pending, nextId, scanUntil, persistAt, persistLate, copied>>
  BY DEF DoDiscoverable, Outcome, known, timers
<1>2. left' \in 0 .. MaxEvents /\ commands' \in Seq(Orders)
  BY <1>1, <1>same, Spending, TakenIs DEF ManagerIInv
<1>3. /\ inbox' \in Seq(Messages) /\ (~bus => inbox' = inbox)
      /\ \A i \in 1 .. Len(inbox') : inbox'[i].q <= bz.asked /\ inbox'[i].gen <= bz.gen
      /\ (\A i \in 1 .. Len(inbox') : inbox'[i].t # "owner")
           => \A i \in 1 .. Len(inbox) : inbox[i].t # "owner"
  BY <1>1, <1>same, BoxIs
<1>4. /\ bz \in States /\ ghost \in Ghosts /\ settingsDirty \in BOOLEAN /\ adapter.powered \in BOOLEAN
      /\ enabled \in BOOLEAN /\ (bz.question # 0 => bz.pairing # "none")
  BY EventsAssumption DEF ManagerIInv, Types, Client, Adapters
<1>5. /\ bz' \in States /\ settingsDirty' \in BOOLEAN /\ ghost' \in Ghosts
      /\ bz'.up = bz.up /\ bz'.gen = bz.gen /\ bz'.agent = bz.agent /\ bz'.asked = bz.asked
      /\ bz'.known = bz.known /\ bz'.key = bz.key /\ bz'.keys = bz.keys /\ bz'.trusted = bz.trusted
      /\ (bz'.discovering => bz.discovering)
      /\ \E s \in BOOLEAN : ghost' = [ghost EXCEPT !.stale = s]
      /\ \/ bz'.pairing = bz.pairing /\ bz'.question = bz.question /\ inbox' = inbox
         \/ bz'.pairing = "none" /\ bz'.question = 0
      /\ ~settingsDirty' /\ ~ghost'.stale =>
           \/ bz'.powered = enabled
           \/ bz'.powered = bz.powered /\ ~settingsDirty /\ ~ghost.stale
  <2>1. CASE UNCHANGED <<bz, settingsDirty, inbox, ghost, left>>
    <3>1. ghost' = [ghost EXCEPT !.stale = ghost.stale] /\ ghost.stale \in BOOLEAN
      BY <1>4, <2>1 DEF Ghosts
    <3>2. ~settingsDirty' /\ ~ghost'.stale => ~settingsDirty /\ ~ghost.stale
      BY <2>1
    <3> QED BY <1>4, <2>1, <3>1, <3>2
  <2>2. CASE \E ok \in BOOLEAN :
              /\ bz' = Reconciled(bz, adapter.powered, ok)
              /\ inbox' = IF bz'.pairing # bz.pairing THEN Withdrawn(bz, inbox) ELSE inbox
              /\ settingsDirty' = StillDirty(adapter.powered, ok)
              /\ ghost' = [ghost EXCEPT !.stale = @ \/ (settingsDirty /\ ~settingsDirty'
                                                       /\ adapter.powered # bz.powered)]
    <3>1. PICK ok \in BOOLEAN :
              /\ bz' = Reconciled(bz, adapter.powered, ok)
              /\ inbox' = IF bz'.pairing # bz.pairing THEN Withdrawn(bz, inbox) ELSE inbox
              /\ settingsDirty' = StillDirty(adapter.powered, ok)
              /\ ghost' = [ghost EXCEPT !.stale = @ \/ (settingsDirty /\ ~settingsDirty'
                                                       /\ adapter.powered # bz.powered)]
      BY <2>2
    <3>2. /\ bz' \in States
          /\ bz'.up = bz.up /\ bz'.gen = bz.gen /\ bz'.agent = bz.agent /\ bz'.asked = bz.asked
          /\ bz'.known = bz.known /\ bz'.key = bz.key /\ bz'.keys = bz.keys /\ bz'.trusted = bz.trusted
          /\ (bz'.discovering => bz.discovering)
          /\ bz'.powered = IF adapter.powered = enabled \/ ~ok THEN bz.powered ELSE enabled
          /\ \/ bz'.pairing = bz.pairing /\ bz'.question = bz.question
             \/ bz'.pairing = "none" /\ bz'.question = 0 /\ bz.pairing # "none"
      BY <1>4, <3>1, ReconciledIs DEF ManagerIInv
    <3>3. PICK s \in BOOLEAN :
            /\ s = (ghost.stale \/ (settingsDirty /\ ~settingsDirty' /\ adapter.powered # bz.powered))
            /\ ghost' = [ghost EXCEPT !.stale = s]
      BY <3>1
    <3>4. ghost' \in Ghosts /\ ghost'.stale = s
      BY <1>4, <3>3 DEF Ghosts
    <3>5. settingsDirty' = (adapter.powered # enabled /\ ~ok)
      BY <3>1 DEF StillDirty
    <3>6. ~settingsDirty' /\ ~ghost'.stale =>
           \/ bz'.powered = enabled
           \/ bz'.powered = bz.powered /\ ~settingsDirty /\ ~ghost.stale
      BY <1>4, <3>2, <3>3, <3>4, <3>5
    <3>7. inbox' = inbox \/ (bz'.pairing = "none" /\ bz'.question = 0)
      BY <3>1, <3>2
    <3> QED BY <3>2, <3>3, <3>4, <3>5, <3>6, <3>7
  <2> QED BY <1>1, <2>1, <2>2
<1>6. Types'
  BY <1>1, <1>same, <1>2, <1>3, <1>4, <1>5 DEF ManagerIInv, Types
<1>7. Counted'
  BY <1>same, <1>3, <1>5, Counts DEF Counted
<1>8. Client'
  BY <1>same, <1>3, <1>5 DEF ManagerIInv, Client
<1>9. Held'
  <2>1. ghost'.gaveUp = ghost.gaveUp
    BY <1>4, <1>5 DEF Ghosts
  <2> QED BY <1>same, <1>5, <2>1 DEF ManagerIInv, Held, Undisturbed
<1>10. AnswersFollow'
  BY <1>1, <1>same, AnswersStand
<1>12. SettingsFollow'
  BY <1>1, <1>same, <1>3, <1>5, CommandsStand DEF ManagerIInv, SettingsFollow
<1>13. CopiesFollow'
  BY <1>same, <1>4, <1>5 DEF ManagerIInv, CopiesFollow, IsPaired, Ghosts
<1>14. BusyIsACall'
  BY <1>same, <1>4, <1>5 DEF ManagerIInv, BusyIsACall, Ghosts
<1>15. ScanIsBounded'
  BY <1>same, <1>4, <1>5 DEF ManagerIInv, ScanIsBounded, Ghosts
<1>16. PairedIsTrusted'
  BY <1>same, <1>4, <1>5 DEF ManagerIInv, PairedIsTrusted, Ghosts
<1>17. AnswerIsForItsQuestion'
  BY <1>same, <1>4, <1>5 DEF ManagerIInv, AnswerIsForItsQuestion, Ghosts
<1> QED BY <1>6, <1>7, <1>8, <1>9, <1>10, <1>12, <1>13, <1>14, <1>15, <1>16, <1>17 DEF ManagerIInv

----------------------------------------------------------------------------
(* The messages.                                                           *)

\* A question that no message before it puts away is still held or on its way.
LEMMA HeldOn ==
  ASSUME ManagerIInv, NEW t, Process(t), bz.question # 0,
         UNCHANGED ghost, bz'.question = bz.question,
         \/ pending' = pending /\ inbox[1].q # bz.question
         \/ pending'.q = inbox[1].q /\ pending.q # bz.question
         \/ /\ inbox[1].q = 0 /\ pending' = None
            /\ pending.q = 0 \/ t \in {"owner", "cancel"}
  PROVE  Held'
<1>1. /\ inbox[1].t = t /\ 1 \in 1 .. Len(inbox) /\ Len(inbox) \in Nat /\ Len(inbox') \in Nat
      /\ \A i \in 1 .. Len(inbox') : i + 1 \in 1 .. Len(inbox) /\ inbox'[i] = inbox[i + 1]
      /\ \A i \in 1 .. Len(inbox) : i = 1 \/ (i - 1 \in 1 .. Len(inbox') /\ inbox'[i - 1] = inbox[i])
  BY ProcessedIs
<1>2. pending' = None => pending'.q = 0
  BY DEF None
<1>3. CASE pending.q = bz.question /\ Undisturbed(0)
  <2>1. inbox[1].q = 0 /\ t \notin {"owner", "cancel"}
    BY <1>1, <1>3 DEF Undisturbed
  <2>2. pending'.q = bz'.question
    BY <1>3, <2>1
  <2>3. Undisturbed(0)'
    BY <1>1, <1>3 DEF Undisturbed
  <2> QED BY <2>2, <2>3 DEF Held
<1>4. CASE \E j \in 1 .. Len(inbox) : inbox[j].q = bz.question /\ Undisturbed(j)
  <2>1. PICK j \in 1 .. Len(inbox) : inbox[j].q = bz.question /\ Undisturbed(j)
    BY <1>4
  <2>2. CASE j = 1
    <3>1. pending'.q = bz'.question
      BY <1>1, <2>1, <2>2
    <3>2. ASSUME NEW k \in 1 .. Len(inbox')
          PROVE  inbox'[k].q = 0 /\ inbox'[k].t \notin {"owner", "cancel"}
      <4>1. inbox'[k] = inbox[k + 1] /\ k + 1 \in j + 1 .. Len(inbox)
        BY <1>1, <2>2, <3>2
      <4> QED BY <2>1, <4>1 DEF Undisturbed
    <3>3. Undisturbed(0)'
      BY <3>2 DEF Undisturbed
    <3> QED BY <3>1, <3>3 DEF Held
  <2>3. CASE j # 1
    <3>1. j - 1 \in 1 .. Len(inbox') /\ inbox'[j - 1] = inbox[j]
      BY <1>1, <2>3
    <3>2. Undisturbed(j - 1)'
      BY <1>1, <2>1, <2>3 DEF Undisturbed
    <3>3. inbox'[j - 1].q = bz'.question
      BY <1>1, <2>1, <3>1
    <3> QED BY <3>1, <3>2, <3>3 DEF Held
  <2> QED BY <2>2, <2>3
<1>5. CASE /\ ghost.gaveUp = bz.question /\ pending.q = 0
           /\ \A k \in 1 .. Len(inbox) : inbox[k].q = 0
  <2>1. pending'.q = 0 /\ \A k \in 1 .. Len(inbox') : inbox'[k].q = 0
    BY <1>1, <1>2, <1>5
  <2> QED BY <1>5, <2>1 DEF Held
<1> QED BY <1>3, <1>4, <1>5 DEF ManagerIInv, Held

\* The messages that are left.
LEMMA MessagesStand ==
  ASSUME ManagerIInv, NEW t, Process(t)
  PROVE  /\ \A i \in 1 .. Len(inbox') : inbox'[i].q <= bz.asked /\ inbox'[i].gen <= bz.gen
         /\ t # "owner" /\ (\A i \in 1 .. Len(inbox') : inbox'[i].t # "owner")
              => \A i \in 1 .. Len(inbox) : inbox[i].t # "owner"
         /\ inbox[1].q <= bz.asked /\ inbox[1].gen <= bz.gen /\ bus
         /\ inbox[1].q # 0 => t \in {"passkey", "confirm"}
<1>1. /\ inbox[1].t = t /\ 1 \in 1 .. Len(inbox) /\ inbox[1] \in Messages
      /\ \A i \in 1 .. Len(inbox') : i + 1 \in 1 .. Len(inbox) /\ inbox'[i] = inbox[i + 1]
      /\ \A i \in 1 .. Len(inbox) : i = 1 \/ (i - 1 \in 1 .. Len(inbox') /\ inbox'[i - 1] = inbox[i])
  BY ProcessedIs
<1>2. \A i \in 1 .. Len(inbox) : inbox[i].q <= bz.asked /\ inbox[i].gen <= bz.gen
  BY DEF ManagerIInv, Counted
<1>3. ASSUME t # "owner", \A i \in 1 .. Len(inbox') : inbox'[i].t # "owner", NEW i \in 1 .. Len(inbox)
      PROVE  inbox[i].t # "owner"
  <2>1. CASE i = 1
    BY <1>1, <1>3, <2>1
  <2>2. CASE i # 1
    BY <1>1, <1>3, <2>2
  <2> QED BY <2>1, <2>2
<1>4. inbox[1].q # 0 => t \in {"passkey", "confirm"}
  BY <1>1 DEF Messages
<1> QED BY <1>1, <1>2, <1>3, <1>4 DEF Process

LEMMA OwnerStep ==
  ASSUME ManagerIInv, Owner
  PROVE  ManagerIInv'
<1>1. /\ Process("owner")
      /\ owner' = Head(inbox).gen /\ agentRegistered' = FALSE /\ settingsDirty' = TRUE /\ pending' = None
  BY DEF Owner, known, timers, others
<1>same. UNCHANGED <<bz, running, bus, commands, enabled, adapter, listed, paired, busy, calls,
                     nextId, scanUntil, persistAt, persistLate, copied, ghost, left>>
  BY DEF Owner, known, timers, others
<1>2. inbox' \in Seq(Messages) /\ Head(inbox) = inbox[1] /\ inbox[1] \in Messages /\ inbox[1].gen \in Nat
      /\ inbox[1].gen <= bz.gen /\ inbox[1].q <= bz.asked /\ bus
  BY <1>1, <1>same, ProcessedIs, MessagesStand DEF Messages
<1>3. pending' \in Prompts
  BY <1>1, <1>same DEF None, Prompts
<1>4. Types'
  BY <1>1, <1>same, <1>2, <1>3 DEF ManagerIInv, Types
<1>5. CopiesFollow' /\ BusyIsACall' /\ ScanIsBounded'
  BY <1>same DEF ManagerIInv, CopiesFollow, BusyIsACall, ScanIsBounded, IsPaired
<1>6. PairedIsTrusted' /\ AnswerIsForItsQuestion'
  BY <1>same DEF ManagerIInv, PairedIsTrusted, AnswerIsForItsQuestion
<1>7. Counted'
  BY <1>1, <1>same, <1>2, MessagesStand, Counts DEF Counted, None
<1>8. Client'
  BY <1>1, <1>same, <1>2 DEF ManagerIInv, Client
<1>9. Held'
  BY <1>1, <1>same, HeldOn, MessagesStand DEF Held
<1>10. AnswersFollow'
  BY <1>1, <1>same DEF ManagerIInv, AnswersFollow, None
<1>11. SettingsFollow'
  BY <1>1, <1>same, MessagesStand DEF ManagerIInv, SettingsFollow
<1> QED BY <1>4, <1>5, <1>6, <1>7, <1>8, <1>9, <1>10, <1>11 DEF ManagerIInv

LEMMA ReleaseStep ==
  ASSUME ManagerIInv, Release
  PROVE  ManagerIInv'
<1>1. /\ Process("release")
      /\ agentRegistered' \in BOOLEAN
  BY DEF Release, ManagerIInv, Types, known, timers, others
<1>same. UNCHANGED <<bz, running, bus, owner, commands, enabled, settingsDirty, adapter, listed,
                     paired, busy, calls, pending, nextId, scanUntil, persistAt, persistLate,
                     copied, ghost, left>>
  BY DEF Release, ManagerIInv, Types, known, timers, others
<1>2. inbox' \in Seq(Messages) /\ Head(inbox) = inbox[1] /\ inbox[1] \in Messages /\ inbox[1].gen \in Nat
      /\ inbox[1].gen <= bz.gen /\ inbox[1].q <= bz.asked /\ bus
  BY <1>1, <1>same, ProcessedIs, MessagesStand DEF Messages
<1>3. Types'
  BY <1>1, <1>same, <1>2 DEF ManagerIInv, Types
<1>4. AnswersFollow' /\ CopiesFollow' /\ BusyIsACall'
  BY <1>same DEF ManagerIInv, AnswersFollow, CopiesFollow, BusyIsACall, IsPaired
<1>5. ScanIsBounded' /\ PairedIsTrusted' /\ AnswerIsForItsQuestion'
  BY <1>same DEF ManagerIInv, ScanIsBounded, PairedIsTrusted, AnswerIsForItsQuestion
<1>6. Counted'
  BY <1>1, <1>same, <1>2, MessagesStand, Counts DEF Counted, None
<1>7. Client'
  BY <1>1, <1>same, <1>2 DEF ManagerIInv, Client
<1>8. Held'
  BY <1>1, <1>same, HeldOn, MessagesStand DEF Held
<1>9. SettingsFollow'
  BY <1>1, <1>same, MessagesStand DEF ManagerIInv, SettingsFollow
<1> QED BY <1>3, <1>4, <1>5, <1>6, <1>7, <1>8, <1>9 DEF ManagerIInv

LEMMA CancelStep ==
  ASSUME ManagerIInv, Cancel
  PROVE  ManagerIInv'
<1>1. /\ Process("cancel")
      /\ pending' = pending \/ pending' = None
  BY DEF Cancel, known, timers, others
<1>same. UNCHANGED <<bz, running, bus, owner, commands, enabled, settingsDirty, agentRegistered,
                     adapter, listed, paired, busy, calls, nextId, scanUntil, persistAt,
                     persistLate, copied, ghost, left>>
  BY DEF Cancel, known, timers, others
<1>2. inbox' \in Seq(Messages) /\ Head(inbox) = inbox[1] /\ inbox[1] \in Messages /\ inbox[1].gen \in Nat
      /\ inbox[1].gen <= bz.gen /\ inbox[1].q <= bz.asked /\ bus
  BY <1>1, <1>same, ProcessedIs, MessagesStand DEF Messages
<1>3. pending' \in Prompts
  BY <1>1, <1>same DEF ManagerIInv, Types, None, Prompts
<1>4. Types'
  BY <1>1, <1>same, <1>2, <1>3 DEF ManagerIInv, Types
<1>5. CopiesFollow' /\ BusyIsACall' /\ ScanIsBounded'
  BY <1>same DEF ManagerIInv, CopiesFollow, BusyIsACall, ScanIsBounded, IsPaired
<1>6. PairedIsTrusted' /\ AnswerIsForItsQuestion'
  BY <1>same DEF ManagerIInv, PairedIsTrusted, AnswerIsForItsQuestion
<1>7. Counted'
  BY <1>1, <1>same, <1>2, MessagesStand, Counts DEF Counted, None
<1>8. Client'
  BY <1>1, <1>same, <1>2 DEF ManagerIInv, Client
<1>9. Held'
  BY <1>1, <1>same, HeldOn, MessagesStand DEF Held
<1>10. AnswersFollow'
  BY <1>1, <1>same DEF ManagerIInv, AnswersFollow, None
<1>11. SettingsFollow'
  BY <1>1, <1>same, MessagesStand DEF ManagerIInv, SettingsFollow
<1> QED BY <1>4, <1>5, <1>6, <1>7, <1>8, <1>9, <1>10, <1>11 DEF ManagerIInv

\* An answer, or a refusal, that BlueZ is given.
LEMMA AnswerGiven ==
  ASSUME ManagerIInv, NEW q \in Nat, NEW yes \in BOOLEAN, bz' = Answered(bz, q, yes)
  PROVE  /\ bz' \in States /\ Alike(bz', bz)
         /\ \/ bz' = bz /\ (bz.question # 0 => q # bz.question)
            \/ /\ bz.pairing # "none" /\ bz'.question = 0
               /\ bz'.pairing = IF yes THEN "accepted" ELSE "none"
<1>1. bz \in States /\ (bz.question # 0 => bz.pairing # "none")
  BY DEF ManagerIInv, Types, Client
<1>2. CASE q = bz.question /\ q # 0
  BY <1>1, <1>2, AnsweredIs
<1>3. CASE ~(q = bz.question /\ q # 0)
  BY <1>1, <1>3, AnsweredIs
<1> QED BY <1>2, <1>3

LEMMA AgentCallStep ==
  ASSUME ManagerIInv, AgentCall
  PROVE  ManagerIInv'
<1>1. PICK t \in {"passkey", "confirm", "display"} :
        /\ Process(t)
        /\ \/ bz' = Answered(bz, inbox[1].q, FALSE) /\ UNCHANGED <<pending, nextId, persistAt, persistLate>>
           \/ /\ bz' = Answered(bz, inbox[1].q, TRUE) /\ persistAt' = TRUE /\ persistLate' = TRUE
              /\ UNCHANGED <<pending, nextId>>
           \/ t = "display" /\ UNCHANGED <<bz, pending, nextId, persistAt, persistLate>>
           \/ /\ bz' = Answered(bz, pending.q, FALSE) /\ pending' = [id |-> nextId, q |-> inbox[1].q]
              /\ nextId' = nextId + 1 /\ UNCHANGED <<persistAt, persistLate>>
  <2>1. PICK t \in {"passkey", "confirm", "display"} :
          /\ Process(t)
          /\ LET q == Head(inbox).q IN
             CASE ~MayAsk -> bz' = Answered(bz, q, FALSE)
                             /\ UNCHANGED <<pending, nextId, persistAt, persistLate>>
               [] MayAsk /\ t = "confirm" -> bz' = Answered(bz, q, TRUE) /\ SchedulePersistAfterPairing
                                              /\ UNCHANGED <<pending, nextId>>
               [] OTHER -> /\ IF t = "display" /\ pending # None /\ pending.q = 0
                                 THEN UNCHANGED <<bz, pending, nextId>> ELSE HoldRequest(q)
                           /\ UNCHANGED <<persistAt, persistLate>>
    BY DEF AgentCall
  <2>2. Head(inbox) = inbox[1]
    BY <2>1, ProcessedIs
  <2>3. CASE ~MayAsk
    BY <2>1, <2>2, <2>3
  <2>4. CASE MayAsk /\ t = "confirm"
    BY <2>1, <2>2, <2>4 DEF SchedulePersistAfterPairing
  <2>5. CASE MayAsk /\ t # "confirm"
    BY <2>1, <2>2, <2>5 DEF HoldRequest, Superseded, Prompt
  <2> QED BY <2>1, <2>3, <2>4, <2>5
<1>same. UNCHANGED <<running, bus, owner, commands, enabled, settingsDirty, agentRegistered, adapter,
                     listed, paired, busy, calls, scanUntil, copied, ghost, left>>
  BY DEF AgentCall, others
<1>2. /\ inbox' \in Seq(Messages) /\ inbox[1] \in Messages /\ inbox[1].q \in Nat /\ inbox[1].q <= bz.asked
      /\ bus /\ inbox[1].t = t /\ (inbox[1].q # 0 => t \in {"passkey", "confirm"})
  BY <1>1, ProcessedIs, MessagesStand DEF Messages
<1>3. /\ pending \in Prompts /\ pending.q \in Nat /\ nextId \in Nat \ {0} /\ persistAt \in BOOLEAN
      /\ persistLate \in BOOLEAN /\ bz.question \in Nat /\ bz \in States
  BY Numbers DEF ManagerIInv, Types
<1>4. /\ pending' \in Prompts /\ nextId' \in Nat \ {0} /\ persistAt' \in BOOLEAN /\ persistLate' \in BOOLEAN
      /\ (persistAt => persistAt') /\ (persistLate => persistLate')
      /\ \/ UNCHANGED <<pending, nextId>>
         \/ nextId' = nextId + 1 /\ pending'.id = nextId /\ pending'.q = inbox[1].q
  <2>1. CASE UNCHANGED <<pending, nextId>>
    BY <1>1, <1>3, <2>1
  <2>2. CASE pending' = [id |-> nextId, q |-> inbox[1].q] /\ nextId' = nextId + 1 /\ UNCHANGED <<persistAt, persistLate>>
    BY <1>2, <1>3, <2>2 DEF Prompts
  <2> QED BY <1>1, <2>1, <2>2
<1>5. /\ bz' \in States /\ Alike(bz', bz) /\ Held'
      /\ \/ bz' = bz
         \/ /\ bz.pairing # "none" /\ bz'.question = 0
            /\ bz'.pairing = "none" \/ (bz'.pairing = "accepted" /\ persistLate')
  <2>1. CASE bz' = Answered(bz, inbox[1].q, FALSE) /\ UNCHANGED <<pending, nextId, persistAt, persistLate>>
    <3>1. CASE bz' = bz /\ (bz.question # 0 => inbox[1].q # bz.question)
      BY <1>1, <1>same, <1>3, <2>1, <3>1, HeldOn DEF Held, Alike
    <3>2. CASE bz.pairing # "none" /\ bz'.question = 0 /\ bz'.pairing = "none"
      BY <1>2, <2>1, <3>2, AnswerGiven DEF Held
    <3> QED BY <1>2, <2>1, <3>1, <3>2, AnswerGiven
  <2>2. CASE /\ bz' = Answered(bz, inbox[1].q, TRUE) /\ persistLate' = TRUE
             /\ UNCHANGED <<pending, nextId>>
    <3>1. CASE bz' = bz /\ (bz.question # 0 => inbox[1].q # bz.question)
      BY <1>1, <1>same, <1>3, <2>2, <3>1, HeldOn DEF Held, Alike
    <3>2. CASE bz.pairing # "none" /\ bz'.question = 0 /\ bz'.pairing = "accepted"
      BY <1>2, <2>2, <3>2, AnswerGiven DEF Held
    <3> QED BY <1>2, <2>2, <3>1, <3>2, AnswerGiven
  <2>3. CASE t = "display" /\ UNCHANGED <<bz, pending, nextId, persistAt, persistLate>>
    BY <1>1, <1>same, <1>2, <1>3, <2>3, HeldOn DEF Held, Alike
  <2>4. CASE /\ bz' = Answered(bz, pending.q, FALSE) /\ pending' = [id |-> nextId, q |-> inbox[1].q]
             /\ UNCHANGED <<persistAt, persistLate>>
    <3>1. CASE bz' = bz /\ (bz.question # 0 => pending.q # bz.question)
      BY <1>1, <1>same, <1>3, <2>4, <3>1, HeldOn DEF Held, Alike
    <3>2. CASE bz.pairing # "none" /\ bz'.question = 0 /\ bz'.pairing = "none"
      BY <1>3, <2>4, <3>2, AnswerGiven DEF Held
    <3> QED BY <1>3, <2>4, <3>1, <3>2, AnswerGiven
  <2> QED BY <1>1, <2>1, <2>2, <2>3, <2>4
<1>6. Types'
  BY <1>same, <1>2, <1>4, <1>5 DEF ManagerIInv, Types
<1>7. Counted'
  BY <1>1, <1>same, <1>2, <1>4, <1>5, MessagesStand, Counts DEF Counted, Alike
<1>8. Client'
  BY <1>same, <1>2, <1>4, <1>5 DEF ManagerIInv, Client, Alike
<1>9. AnswersFollow'
  <2>1. CASE UNCHANGED <<pending, nextId>>
    BY <1>same, <2>1 DEF ManagerIInv, AnswersFollow
  <2>2. CASE nextId' = nextId + 1 /\ pending'.id = nextId
    BY <1>same, <1>3, <2>2 DEF ManagerIInv, AnswersFollow
  <2> QED BY <1>4, <2>1, <2>2
<1>11. SettingsFollow'
  BY <1>1, <1>same, <1>5, MessagesStand DEF ManagerIInv, SettingsFollow, Alike
<1>12. CopiesFollow'
  BY <1>same, <1>4, <1>5 DEF ManagerIInv, CopiesFollow, IsPaired, Alike
<1>13. BusyIsACall' /\ AnswerIsForItsQuestion'
  BY <1>same DEF ManagerIInv, BusyIsACall, AnswerIsForItsQuestion
<1>14. ScanIsBounded' /\ PairedIsTrusted'
  BY <1>same, <1>5 DEF ManagerIInv, ScanIsBounded, PairedIsTrusted, Alike
<1> QED BY <1>5, <1>6, <1>7, <1>8, <1>9, <1>11, <1>12, <1>13, <1>14 DEF ManagerIInv

LEMMA ReplyStep ==
  ASSUME ManagerIInv, Reply
  PROVE  ManagerIInv'
<1>1. PICK i \in DOMAIN calls :
        \/ /\ persistAt' = TRUE /\ \E trusts \in BOOLEAN : bz' = [bz EXCEPT !.trusted = @ \/ trusts]
           /\ CallDevice("Connect", RemoveAt(calls, i)) /\ UNCHANGED <<pending, ghost>>
        \/ /\ busy' = "" /\ calls' = RemoveAt(calls, i) /\ UNCHANGED <<bz, persistAt>>
           /\ \/ UNCHANGED <<pending, ghost>>
              \/ /\ pending' = None
                 /\ ghost' = [ghost EXCEPT !.gaveUp = IF pending.q = bz.question THEN pending.q ELSE @]
  BY DEF Reply, SchedulePersist, NotBusy
<1>spent. left' \in 0 .. MaxEvents
  BY Spending DEF Reply, Outcome, ManagerIInv
<1>same. bus /\ UNCHANGED <<inbox, running, bus, owner, commands, enabled, settingsDirty, agentRegistered,
                            adapter, listed, paired, nextId, scanUntil, persistLate, copied>>
  BY DEF Reply, known
<1>2. /\ pending \in Prompts /\ pending.q \in Nat /\ ghost \in Ghosts /\ bz \in States
      /\ persistAt \in BOOLEAN /\ calls \in Seq(Methods) /\ Len(inbox) \in Nat
  BY Numbers DEF ManagerIInv, Types
<1>3. RemoveAt(calls, i) \in Seq(Methods)
  BY <1>2, TakenOut
<1>4. calls' \in Seq(Methods) /\ busy' \in Busy /\ (busy' = "" \/ calls' # <<>>)
  <2>1. CASE CallDevice("Connect", RemoveAt(calls, i))
    <3>1. "Connect" \in Methods
      BY DEF Methods
    <3> QED BY <1>3, <2>1, <3>1, Called
  <2>2. CASE busy' = "" /\ calls' = RemoveAt(calls, i)
    BY <1>3, <2>2 DEF Busy
  <2> QED BY <1>1, <2>1, <2>2
<1>5. /\ bz' \in States /\ persistAt' \in BOOLEAN /\ (persistAt => persistAt')
      /\ \E trusted \in BOOLEAN : bz' = [bz EXCEPT !.trusted = trusted] /\ (bz.trusted => trusted)
  <2>1. CASE persistAt' = TRUE /\ \E trusts \in BOOLEAN : bz' = [bz EXCEPT !.trusted = @ \/ trusts]
    <3>1. PICK trusts \in BOOLEAN : bz' = [bz EXCEPT !.trusted = @ \/ trusts]
      BY <2>1
    <3>2. PICK t \in BOOLEAN : t = (bz.trusted \/ trusts)
      OBVIOUS
    <3>3. bz' = [bz EXCEPT !.trusted = t] /\ (bz.trusted => t)
      BY <3>1, <3>2
    <3> QED BY <1>2, <2>1, <3>2, <3>3 DEF States
  <2>2. CASE UNCHANGED <<bz, persistAt>>
    <3>1. bz = [bz EXCEPT !.trusted = bz.trusted] /\ bz.trusted \in BOOLEAN
      BY <1>2 DEF States
    <3> QED BY <1>2, <2>2, <3>1
  <2> QED BY <1>1, <2>1, <2>2
<1>6. pending' \in Prompts /\ (pending' = pending \/ (pending' = None /\ pending'.q = 0 /\ pending'.id = 0))
  <2>1. None \in Prompts /\ None.q = 0 /\ None.id = 0
    BY DEF None, Prompts
  <2>2. pending' = pending \/ pending' = None
    BY <1>1
  <2> QED BY <1>2, <2>1, <2>2
<1>7. ghost' \in Ghosts /\ \E n \in Nat : ghost' = [ghost EXCEPT !.gaveUp = n]
  <2>1. CASE UNCHANGED ghost
    <3>1. ghost = [ghost EXCEPT !.gaveUp = ghost.gaveUp] /\ ghost.gaveUp \in Nat
      BY <1>2 DEF Ghosts
    <3> QED BY <1>2, <2>1, <3>1
  <2>2. CASE ghost' = [ghost EXCEPT !.gaveUp = IF pending.q = bz.question THEN pending.q ELSE @]
    <3>1. PICK n \in Nat : n = IF pending.q = bz.question THEN pending.q ELSE ghost.gaveUp
      BY <1>2 DEF Ghosts
    <3>2. ghost' = [ghost EXCEPT !.gaveUp = n]
      BY <2>2, <3>1
    <3> QED BY <1>2, <3>2 DEF Ghosts
  <2> QED BY <1>1, <2>1, <2>2
<1>8. Held'
  <2> SUFFICES ASSUME bz'.question # 0 PROVE Held'
    BY DEF Held
  <2>1. bz'.question = bz.question
    BY <1>2, <1>5 DEF States
  <2>2. CASE UNCHANGED <<pending, ghost>>
    BY <1>same, <2>1, <2>2 DEF ManagerIInv, Held, Undisturbed
  <2>3. CASE pending' = None /\ ghost' = [ghost EXCEPT !.gaveUp = IF pending.q = bz.question THEN pending.q ELSE @]
    <3>1. /\ pending'.q = 0 /\ (pending.q = bz.question => ghost'.gaveUp = pending.q)
          /\ (pending.q # bz.question => ghost'.gaveUp = ghost.gaveUp)
      BY <1>2, <2>3 DEF None, Ghosts
    <3>2. CASE pending.q = bz.question /\ Undisturbed(0)
      <4>1. \A k \in 1 .. Len(inbox') : inbox'[k].q = 0
        BY <1>same, <3>2 DEF Undisturbed
      <4> QED BY <2>1, <3>1, <3>2, <4>1 DEF Held
    <3>3. CASE \E j \in 1 .. Len(inbox) : inbox[j].q = bz.question /\ Undisturbed(j)
      BY <1>same, <2>1, <3>3 DEF Held, Undisturbed
    <3>4. CASE /\ ghost.gaveUp = bz.question /\ pending.q = 0
               /\ \A k \in 1 .. Len(inbox) : inbox[k].q = 0
      BY <1>same, <2>1, <3>1, <3>4 DEF Held
    <3> QED BY <2>1, <3>2, <3>3, <3>4 DEF ManagerIInv, Held
  <2> QED BY <1>1, <2>2, <2>3
<1>9. Types'
  BY <1>same, <1>spent, <1>4, <1>5, <1>6, <1>7 DEF ManagerIInv, Types
<1>10. Counted'
  BY <1>same, <1>2, <1>5, <1>6, Counts DEF Counted
<1>11. Client'
  BY <1>same, <1>2, <1>5 DEF ManagerIInv, Client, States
<1>12. AnswersFollow'
  BY <1>same, <1>6 DEF ManagerIInv, AnswersFollow
<1>14. SettingsFollow'
  BY <1>same, <1>2, <1>5, <1>7 DEF ManagerIInv, SettingsFollow, States, Ghosts
<1>15. CopiesFollow'
  BY <1>same, <1>2, <1>5, <1>7 DEF ManagerIInv, CopiesFollow, IsPaired, States, Ghosts
<1>16. BusyIsACall' /\ AnswerIsForItsQuestion'
  BY <1>2, <1>4, <1>7 DEF ManagerIInv, BusyIsACall, AnswerIsForItsQuestion, Ghosts
<1>17. ScanIsBounded'
  BY <1>same, <1>2, <1>5, <1>7 DEF ManagerIInv, ScanIsBounded, States, Ghosts
<1>18. PairedIsTrusted'
  BY <1>same, <1>2, <1>5, <1>7 DEF ManagerIInv, PairedIsTrusted, States, Ghosts
<1> QED BY <1>8, <1>9, <1>10, <1>11, <1>12, <1>14, <1>15, <1>16, <1>17, <1>18 DEF ManagerIInv

----------------------------------------------------------------------------
(* tick(), and the bus.                                                    *)

\* What is BlueZ's when it has been asked to take the agent.
LEMMA AgentTaken ==
  ASSUME NEW z \in States, NEW y, NEW agent \in BOOLEAN, y = [z EXCEPT !.agent = @ \/ agent]
  PROVE  y \in States /\ (y = z \/ (agent /\ y = [z EXCEPT !.agent = TRUE]))
<1>1. CASE agent
  <2>1. PICK a \in BOOLEAN : a = (z.agent \/ agent)
    OBVIOUS
  <2>2. y = [z EXCEPT !.agent = a] /\ a = TRUE
    BY <1>1, <2>1
  <2> QED BY <1>1, <2>1, <2>2 DEF States
<1>2. CASE ~agent
  <2>1. PICK a \in BOOLEAN : a = (z.agent \/ agent) /\ a = z.agent
    BY <1>2 DEF States
  <2>2. y = [z EXCEPT !.agent = a]
    BY <2>1
  <2> QED BY <2>1, <2>2 DEF States
<1> QED BY <1>1, <1>2

LEMMA RefreshFailsStep ==
  ASSUME ManagerIInv, RefreshFails
  PROVE  ManagerIInv'
<1>1. PICK agent \in BOOLEAN :
        /\ bus /\ (agent => bz.up) /\ RegisterAgent(agent) /\ bz' = [bz EXCEPT !.agent = @ \/ agent]
        /\ Spend \/ UNCHANGED left
        /\ adapter' = [known |-> FALSE, available |-> FALSE, powered |-> FALSE]
        /\ listed' = FALSE /\ owner' = ReadOwner
  BY DEF RefreshFails, Outcome
<1>same. UNCHANGED <<inbox, running, bus, commands, enabled, settingsDirty, paired, busy, calls,
                     pending, nextId, scanUntil, persistAt, persistLate, copied, ghost>>
  BY DEF RefreshFails, timers
<1>2. left' \in 0 .. MaxEvents
  BY <1>1, <1>same, Spending DEF ManagerIInv
<1>3. adapter' \in Adapters /\ agentRegistered' \in BOOLEAN
  BY <1>1 DEF Adapters, RegisterAgent, ManagerIInv, Types
<1>4. owner' \in Nat /\ owner' <= bz.gen
  BY <1>1, <1>same, Counts DEF Counted, ReadOwner
<1>5. bz \in States /\ bz' \in States /\ (bz' = bz \/ (bz.up /\ bz' = [bz EXCEPT !.agent = TRUE]))
  <2>1. bz \in States
    BY DEF ManagerIInv, Types
  <2> QED BY <1>1, <2>1, AgentTaken
<1>6. /\ bz'.up = bz.up /\ bz'.gen = bz.gen /\ bz'.powered = bz.powered /\ bz'.keys = bz.keys
      /\ bz'.discovering = bz.discovering /\ bz'.pairing = bz.pairing /\ bz'.key = bz.key
      /\ bz'.question = bz.question /\ bz'.asked = bz.asked /\ bz'.trusted = bz.trusted
      /\ (bz.agent => bz'.agent) /\ (bz'.agent => bz.agent \/ bz.up)
  BY <1>5 DEF States
<1>7. Types'
  BY <1>1, <1>same, <1>2, <1>3, <1>4, <1>5 DEF ManagerIInv, Types
<1>8. Client'
  BY <1>1, <1>same, <1>6 DEF ManagerIInv, Client
<1>9. Held' /\ AnswersFollow'
  BY <1>same, <1>6 DEF ManagerIInv, Held, AnswersFollow, Undisturbed
<1>10. SettingsFollow' /\ ScanIsBounded'
  BY <1>same, <1>6 DEF ManagerIInv, SettingsFollow, ScanIsBounded
<1>11. CopiesFollow' /\ BusyIsACall' /\ PairedIsTrusted'
  BY <1>same, <1>6 DEF ManagerIInv, CopiesFollow, BusyIsACall, PairedIsTrusted, IsPaired
<1>12. AnswerIsForItsQuestion'
  BY <1>same DEF ManagerIInv, AnswerIsForItsQuestion
<1>13. Counted'
  BY <1>same, <1>4, <1>6 DEF ManagerIInv, Counted
<1> QED BY <1>7, <1>8, <1>9, <1>10, <1>11, <1>12, <1>13 DEF ManagerIInv

LEMMA RefreshStep ==
  ASSUME ManagerIInv, Refresh
  PROVE  ManagerIInv'
<1>0. PICK agent \in BOOLEAN, trusts \in BOOLEAN, ok \in BOOLEAN : Refreshed(agent, trusts, ok)
  BY DEF Refresh
<1> DEFINE z == [bz EXCEPT !.trusted = @ \/ (NewlyPaired /\ trusts), !.agent = @ \/ agent]
<1>1. /\ bus /\ bz.up
      /\ ~(NewlyPaired /\ ~bz.trusted) => trusts
      /\ Spend \/ UNCHANGED left
      /\ owner' = ReadOwner /\ RegisterAgent(agent)
      /\ adapter' = [known |-> TRUE, available |-> TRUE, powered |-> bz.powered]
      /\ listed' = bz.known /\ busy' = IF bz.known THEN busy ELSE ""
      /\ paired' = IsPaired
      /\ IF paired # "unknown" /\ paired # IsPaired THEN persistAt' = TRUE ELSE UNCHANGED persistAt
      /\ pending' = IF pending # None /\ pending.q = 0 /\ bz.key # 0 THEN None ELSE pending
      /\ bz' = IF settingsDirty /\ bz.powered # enabled THEN Reconciled(z, bz.powered, ok) ELSE z
      /\ inbox' = IF bz'.pairing # bz.pairing THEN Withdrawn(bz, inbox) ELSE inbox
      /\ settingsDirty' = (settingsDirty /\ StillDirty(bz.powered, ok))
  BY <1>0 DEF Refreshed, SchedulePersist, Unseen, Outcome
<1>same. UNCHANGED <<running, bus, commands, enabled, calls, nextId, scanUntil, persistLate, copied>>
  BY <1>0 DEF Refreshed
<1>2. /\ bz \in States /\ ghost \in Ghosts /\ pending \in Prompts /\ enabled \in BOOLEAN
      /\ settingsDirty \in BOOLEAN /\ persistAt \in BOOLEAN /\ busy \in Busy
      /\ paired \in {"unknown", "no", "yes"} /\ (bz.question # 0 => bz.pairing # "none")
  BY DEF ManagerIInv, Types, Client
<1>3. left' \in 0 .. MaxEvents
  BY <1>1, Spending DEF ManagerIInv
<1>4. owner' \in Nat /\ owner' <= bz.gen
  <2>1. owner' = owner \/ owner' = bz.gen
    BY <1>1 DEF ReadOwner
  <2> QED BY <2>1, Counts DEF Counted
<1>5. adapter' \in Adapters /\ listed' \in BOOLEAN /\ busy' \in Busy /\ (busy' = busy \/ busy' = "")
  BY <1>1, <1>2 DEF Adapters, States, Busy
<1>6. paired' \in {"no", "yes"} /\ (bz.key # 0 <=> paired' = "yes") /\ agentRegistered' \in BOOLEAN
  BY <1>1 DEF IsPaired, RegisterAgent, ManagerIInv, Types
<1>7. persistAt' \in BOOLEAN /\ (persistAt => persistAt') /\ (paired # "unknown" /\ paired # IsPaired => persistAt')
  BY <1>1, <1>2
<1>8. /\ pending' \in Prompts
      /\ pending' = pending \/ (pending.q = 0 /\ pending'.q = 0 /\ pending'.id = 0)
  <2>1. None \in Prompts /\ None.q = 0 /\ None.id = 0
    BY DEF None, Prompts
  <2>2. pending' = pending \/ (pending.q = 0 /\ pending' = None)
    BY <1>1
  <2> QED BY <1>2, <2>1, <2>2
<1>9. /\ z \in States /\ z.up = bz.up /\ z.gen = bz.gen /\ z.asked = bz.asked
      /\ z.known = bz.known /\ z.key = bz.key /\ z.keys = bz.keys /\ z.powered = bz.powered
      /\ z.discovering = bz.discovering /\ z.pairing = bz.pairing /\ z.question = bz.question
      /\ (bz.agent => z.agent) /\ (z.trusted <=> bz.trusted \/ (NewlyPaired /\ trusts))
  <2>1. PICK t \in BOOLEAN : t = (bz.trusted \/ (NewlyPaired /\ trusts))
    OBVIOUS
  <2>2. PICK a \in BOOLEAN : a = (bz.agent \/ agent)
    OBVIOUS
  <2>3. z = [bz EXCEPT !.trusted = t, !.agent = a]
    BY <2>1, <2>2
  <2>4. bz.agent => a
    BY <2>2
  <2> HIDE DEF z
  <2> QED BY <1>2, <2>1, <2>3, <2>4 DEF States
<1> HIDE DEF z
<1>10. /\ bz' \in States
       /\ bz'.up = bz.up /\ bz'.gen = bz.gen /\ bz'.asked = bz.asked
       /\ bz'.known = bz.known /\ bz'.key = bz.key /\ bz'.keys = bz.keys
       /\ (bz.agent => bz'.agent) /\ (bz'.discovering => bz.discovering)
       /\ (bz'.trusted <=> bz.trusted \/ (NewlyPaired /\ trusts))
       /\ \/ bz'.pairing = bz.pairing /\ bz'.question = bz.question /\ inbox' = inbox
          \/ bz'.pairing = "none" /\ bz'.question = 0
       /\ settingsDirty' \in BOOLEAN
       /\ ~settingsDirty' => bz'.powered = enabled \/ (~settingsDirty /\ bz'.powered = bz.powered)
  <2>1. CASE settingsDirty /\ bz.powered # enabled
    <3>1. bz' = Reconciled(z, bz.powered, ok)
      BY <1>1, <2>1
    <3>2. z \in States /\ bz.powered \in BOOLEAN /\ (z.question # 0 => z.pairing # "none") /\ Types
      BY <1>2, <1>9 DEF States, ManagerIInv
    <3>3. /\ bz' \in States
          /\ bz'.up = z.up /\ bz'.gen = z.gen /\ bz'.agent = z.agent /\ bz'.asked = z.asked
          /\ bz'.known = z.known /\ bz'.key = z.key /\ bz'.keys = z.keys /\ bz'.trusted = z.trusted
          /\ (bz'.discovering => z.discovering)
          /\ bz'.powered = IF bz.powered = enabled \/ ~ok THEN z.powered ELSE enabled
          /\ \/ bz'.pairing = z.pairing /\ bz'.question = z.question
             \/ bz'.pairing = "none" /\ bz'.question = 0 /\ z.pairing # "none"
      BY <3>1, <3>2, ReconciledIs
    <3>4. settingsDirty' = ~ok
      BY <1>1, <2>1 DEF StillDirty
    <3>5. inbox' = inbox \/ (bz'.pairing = "none" /\ bz'.question = 0)
      BY <1>1, <1>9, <3>3
    <3> QED BY <1>9, <2>1, <3>3, <3>4, <3>5
  <2>2. CASE ~(settingsDirty /\ bz.powered # enabled)
    <3>1. bz' = z
      BY <1>1, <2>2
    <3>2. inbox' = inbox
      BY <1>1, <1>9, <3>1
    <3>3. settingsDirty' = FALSE /\ (settingsDirty => bz.powered = enabled)
      BY <1>1, <1>2, <2>2 DEF StillDirty
    <3> QED BY <1>9, <3>1, <3>2, <3>3
  <2> QED BY <2>1, <2>2
<1>11. /\ ghost' \in Ghosts /\ ghost'.gaveUp = ghost.gaveUp /\ ghost'.orphaned = ghost.orphaned
       /\ ghost'.unstopped = ghost.unstopped /\ ghost'.crossed = ghost.crossed
       /\ (~settingsDirty => ghost'.stale = ghost.stale)
       /\ ghost.untold \subseteq ghost'.untold
       /\ (paired = "unknown" /\ copied # bz.key => bz.key \in ghost'.untold)
       /\ (ghost.distrust # "" => ghost'.distrust # "") /\ (~trusts => ghost'.distrust # "")
       /\ (paired = "unknown" /\ bz.key # 0 /\ ~bz.trusted => ghost'.distrust # "")
  <2> DEFINE Reasons == {"", "before", "refused", "again"}
             stale == ghost.stale /\ ~settingsDirty
             untold == IF Unseen /\ copied # bz.key THEN ghost.untold \cup {bz.key} ELSE ghost.untold
             distrust == IF Unseen /\ bz.key # 0 /\ ~bz.trusted THEN "before"
                         ELSE IF ~trusts THEN "refused" ELSE ghost.distrust
  <2>1. PICK s \in BOOLEAN : s = stale
    OBVIOUS
  <2>2. PICK u \in SUBSET Nat : u = untold
    BY <1>2 DEF Ghosts, States
  <2>3. PICK d \in Reasons : d = distrust
    BY <1>2 DEF Ghosts
  <2>4. ghost' = [ghost EXCEPT !.stale = s, !.untold = u, !.distrust = d]
    BY <1>0, <2>1, <2>2, <2>3 DEF Refreshed
  <2>5. ~settingsDirty => s = ghost.stale
    BY <1>2, <2>1 DEF Ghosts
  <2>6. /\ ghost.untold \subseteq u
        /\ paired = "unknown" /\ copied # bz.key => bz.key \in u
    BY <2>2 DEF Unseen
  <2>7. /\ ghost.distrust # "" => d # ""
        /\ ~trusts => d # ""
        /\ paired = "unknown" /\ bz.key # 0 /\ ~bz.trusted => d # ""
    BY <2>3 DEF Unseen
  <2> HIDE DEF stale, untold, distrust
  <2> QED BY <1>2, <2>4, <2>5, <2>6, <2>7 DEF Ghosts
<1>12. /\ inbox' \in Seq(Messages) /\ (~bus => inbox' = inbox)
       /\ \A i \in 1 .. Len(inbox') : inbox'[i].q <= bz.asked /\ inbox'[i].gen <= bz.gen
       /\ (\A i \in 1 .. Len(inbox') : inbox'[i].t # "owner")
            => \A i \in 1 .. Len(inbox) : inbox[i].t # "owner"
  BY <1>1, BoxIs
<1>13. Types'
  BY <1>same, <1>3, <1>4, <1>5, <1>6, <1>7, <1>8, <1>10, <1>11, <1>12 DEF ManagerIInv, Types
<1>14. Counted'
  BY <1>same, <1>4, <1>8, <1>10, <1>12, Counts DEF Counted
<1>15. Client'
  BY <1>1, <1>same, <1>10 DEF ManagerIInv, Client
<1>16. Held'
  <2> SUFFICES ASSUME bz'.question # 0 PROVE Held'
    BY DEF Held
  <2>1. inbox' = inbox /\ bz'.question = bz.question
    BY <1>10
  <2>2. ghost'.gaveUp = ghost.gaveUp
    BY <1>2, <1>11 DEF Ghosts
  <2>3. pending'.q = pending.q
    BY <1>8
  <2> QED BY <2>1, <2>2, <2>3 DEF ManagerIInv, Held, Undisturbed
<1>17. AnswersFollow'
  BY <1>same, <1>8 DEF ManagerIInv, AnswersFollow
<1>19. SettingsFollow'
  BY <1>1, <1>same, <1>2, <1>10, <1>11, <1>12 DEF ManagerIInv, SettingsFollow, Ghosts
<1>20. CopiesFollow'
  <2>1. ghost.untold \subseteq ghost'.untold
    BY <1>11
  <2>2. CASE paired = "unknown"
    BY <1>same, <1>10, <1>11, <2>2 DEF CopiesFollow
  <2>3. CASE paired # "unknown" /\ paired # IsPaired
    BY <1>7, <2>3 DEF CopiesFollow
  <2>4. CASE paired = IsPaired
    BY <1>same, <1>7, <1>10, <2>1, <2>4 DEF ManagerIInv, CopiesFollow
  <2> QED BY <2>2, <2>3, <2>4
<1>21. BusyIsACall'
  BY <1>same, <1>2, <1>5, <1>11 DEF ManagerIInv, BusyIsACall, Ghosts
<1>22. ScanIsBounded'
  BY <1>same, <1>2, <1>10, <1>11 DEF ManagerIInv, ScanIsBounded, Ghosts
<1>23. PairedIsTrusted'
  BY <1>1, <1>2, <1>6, <1>10, <1>11 DEF ManagerIInv, PairedIsTrusted, NewlyPaired
<1>24. AnswerIsForItsQuestion'
  BY <1>2, <1>11 DEF ManagerIInv, AnswerIsForItsQuestion, Ghosts
<1> QED BY <1>13, <1>14, <1>15, <1>16, <1>17, <1>19, <1>20, <1>21, <1>22, <1>23, <1>24 DEF ManagerIInv

LEMMA ExpireRequestStep ==
  ASSUME ManagerIInv, ExpireRequest
  PROVE  ManagerIInv'
<1>1. bus /\ pending' = None /\ bz' = Answered(bz, pending.q, FALSE)
  BY DEF ExpireRequest, Declined, known, timers
<1>same. UNCHANGED <<inbox, running, bus, owner, commands, enabled, settingsDirty,
                     agentRegistered, adapter, listed, paired, busy, calls, nextId, scanUntil,
                     persistAt, persistLate, copied, ghost, left>>
  BY DEF ExpireRequest, Declined, known, timers
<1>2. /\ bz' \in States /\ Alike(bz', bz) /\ pending' \in Prompts /\ pending'.q = 0 /\ pending'.id = 0
      /\ bz' = bz \/ (bz.pairing # "none" /\ bz'.question = 0 /\ bz'.pairing = "none")
      /\ Held'
  BY <1>1, <1>same, PromptSettled
<1>3. Types'
  BY <1>1, <1>same, <1>2 DEF ManagerIInv, Types
<1>4. BusyIsACall' /\ AnswerIsForItsQuestion'
  BY <1>same DEF ManagerIInv, BusyIsACall, AnswerIsForItsQuestion
<1>5. Counted'
  BY <1>same, <1>2, Counts DEF Counted, Alike
<1>6. Client'
  BY <1>same, <1>2 DEF ManagerIInv, Client, Alike
<1>7. Held'
  BY <1>2
<1>8. AnswersFollow'
  BY <1>same, <1>2 DEF ManagerIInv, AnswersFollow
<1>10. SettingsFollow'
  BY <1>same, <1>2 DEF ManagerIInv, SettingsFollow, Alike
<1>11. CopiesFollow'
  BY <1>same, <1>2 DEF ManagerIInv, CopiesFollow, IsPaired, Alike
<1>12. ScanIsBounded'
  BY <1>same, <1>2 DEF ManagerIInv, ScanIsBounded, Alike
<1>13. PairedIsTrusted'
  BY <1>same, <1>2 DEF ManagerIInv, PairedIsTrusted, Alike
<1> QED BY <1>3, <1>4, <1>5, <1>6, <1>7, <1>8, <1>10, <1>11, <1>12, <1>13 DEF ManagerIInv

LEMMA ScanEndsStep ==
  ASSUME ManagerIInv, ScanEnds
  PROVE  ManagerIInv'
<1>1. StopScan
  BY DEF ScanEnds, known
<1>same. UNCHANGED <<inbox, running, bus, owner, commands, enabled, settingsDirty,
                     agentRegistered, adapter, listed, paired, busy, calls, pending, nextId,
                     persistAt, persistLate, copied, left>>
  BY DEF ScanEnds, known
<1>2. /\ bz' \in States /\ ghost' \in Ghosts /\ scanUntil' \in BOOLEAN /\ bz \in States /\ ghost \in Ghosts
      /\ \E d \in BOOLEAN : bz' = [bz EXCEPT !.discovering = d]
      /\ \E u \in BOOLEAN : ghost' = [ghost EXCEPT !.unstopped = u]
      /\ (bz'.discovering => bus) /\ (ScanIsBounded /\ UNCHANGED <<running, bus>> => ScanIsBounded')
  BY <1>1, <1>same, ScanSteps DEF ManagerIInv
<1>3. Types'
  BY <1>1, <1>same, <1>2 DEF ManagerIInv, Types
<1>4. AnswersFollow'
  BY <1>same DEF ManagerIInv, AnswersFollow
<1>5. Counted'
  BY <1>same, <1>2 DEF ManagerIInv, Counted, Types, States, Ghosts
<1>6. Client'
  BY <1>same, <1>2 DEF ManagerIInv, Client, States, Ghosts
<1>7. Held'
  <2>1. bz'.question = bz.question /\ ghost'.gaveUp = ghost.gaveUp
    BY <1>2 DEF States, Ghosts
  <2> QED BY <1>same, <2>1 DEF ManagerIInv, Held, Undisturbed
<1>9. SettingsFollow'
  BY <1>same, <1>2 DEF ManagerIInv, SettingsFollow, States, Ghosts
<1>10. CopiesFollow'
  BY <1>same, <1>2 DEF ManagerIInv, CopiesFollow, IsPaired, States, Ghosts
<1>11. BusyIsACall'
  BY <1>same, <1>2 DEF ManagerIInv, BusyIsACall, States, Ghosts
<1>12. ScanIsBounded'
  BY <1>same, <1>2 DEF ManagerIInv, ScanIsBounded, States, Ghosts
<1>13. PairedIsTrusted'
  BY <1>same, <1>2 DEF ManagerIInv, PairedIsTrusted, States, Ghosts
<1>14. AnswerIsForItsQuestion'
  BY <1>same, <1>2 DEF ManagerIInv, AnswerIsForItsQuestion, States, Ghosts
<1> QED BY <1>3, <1>4, <1>5, <1>6, <1>7, <1>9, <1>10, <1>11, <1>12, <1>13, <1>14 DEF ManagerIInv

LEMMA PersistStep ==
  ASSUME ManagerIInv, Persist
  PROVE  ManagerIInv'
<1>1. /\ \/ persistAt' = FALSE /\ UNCHANGED persistLate
         \/ bz.pairing = "none" /\ persistLate' = FALSE /\ UNCHANGED persistAt
      /\ copied' = bz.key /\ ghost' = [ghost EXCEPT !.untold = {}]
  BY DEF Persist, known
<1>same. UNCHANGED <<bz, inbox, running, bus, owner, commands, enabled, settingsDirty,
                     agentRegistered, adapter, listed, paired, busy, calls, pending, nextId,
                     scanUntil, left>>
  BY DEF Persist, known
<1>2. bz \in States /\ ghost \in Ghosts /\ persistAt \in BOOLEAN /\ persistLate \in BOOLEAN
  BY Numbers DEF ManagerIInv, Types
<1>3. persistAt' \in BOOLEAN /\ persistLate' \in BOOLEAN /\ copied' \in Nat /\ ghost' \in Ghosts
  BY <1>1, <1>same, <1>2 DEF States, Ghosts
<1>4. Types'
  BY <1>1, <1>same, <1>2, <1>3 DEF ManagerIInv, Types
<1>5. AnswersFollow'
  BY <1>same DEF ManagerIInv, AnswersFollow
<1>6. Counted'
  BY <1>1, <1>same, <1>2 DEF ManagerIInv, Counted, Ghosts
<1>7. Client'
  BY <1>1, <1>same, <1>2 DEF ManagerIInv, Client, Ghosts
<1>8. Held'
  BY <1>1, <1>same, <1>2 DEF ManagerIInv, Held, Undisturbed, Ghosts
<1>10. SettingsFollow'
  BY <1>1, <1>same, <1>2 DEF ManagerIInv, SettingsFollow, Ghosts
<1>11. CopiesFollow'
  BY <1>1, <1>same, <1>2 DEF ManagerIInv, CopiesFollow, Ghosts
<1>12. BusyIsACall'
  BY <1>1, <1>same, <1>2 DEF ManagerIInv, BusyIsACall, Ghosts
<1>13. ScanIsBounded'
  BY <1>1, <1>same, <1>2 DEF ManagerIInv, ScanIsBounded, Ghosts
<1>14. PairedIsTrusted'
  BY <1>1, <1>same, <1>2 DEF ManagerIInv, PairedIsTrusted, Ghosts
<1>15. AnswerIsForItsQuestion'
  BY <1>1, <1>same, <1>2 DEF ManagerIInv, AnswerIsForItsQuestion, Ghosts
<1> QED BY <1>4, <1>5, <1>6, <1>7, <1>8, <1>10, <1>11, <1>12, <1>13, <1>14, <1>15 DEF ManagerIInv

LEMMA OpenBusStep ==
  ASSUME ManagerIInv, OpenBus
  PROVE  ManagerIInv'
<1>1. /\ ~bus /\ bus' = TRUE
      /\ agentRegistered' = FALSE /\ settingsDirty' = TRUE /\ owner' = 0
  BY DEF OpenBus, timers
<1>same. UNCHANGED <<bz, inbox, running, commands, enabled, adapter, listed, paired, busy,
                     calls, pending, nextId, scanUntil, persistAt, persistLate, copied, ghost,
                     left>>
  BY DEF OpenBus, timers
<1>2. Types'
  BY <1>1, <1>same DEF ManagerIInv, Types
<1>3. Held' /\ AnswersFollow' /\ CopiesFollow'
  BY <1>same DEF ManagerIInv, Held, AnswersFollow, CopiesFollow, Undisturbed,
     IsPaired
<1>4. BusyIsACall' /\ PairedIsTrusted' /\ AnswerIsForItsQuestion'
  BY <1>same DEF ManagerIInv, BusyIsACall, PairedIsTrusted, AnswerIsForItsQuestion
<1>5. Counted'
  BY <1>1, <1>same, Counts DEF Counted
<1>6. Client'
  BY <1>1, <1>same
     DEF ManagerIInv, Client, States
<1>7. SettingsFollow'
  BY <1>1, <1>same
     DEF ManagerIInv, SettingsFollow, States
<1>8. ScanIsBounded'
  BY <1>1, <1>same DEF ManagerIInv, ScanIsBounded, Client
<1> QED BY <1>2, <1>3, <1>4, <1>5, <1>6, <1>7, <1>8 DEF ManagerIInv

\* Whatever ends the client: it has nothing under way with BlueZ, nor BlueZ with it.
LEMMA CloseBusStep ==
  ASSUME ManagerIInv, CloseBus, running' \in BOOLEAN, scanUntil' \in BOOLEAN, left' \in 0 .. MaxEvents
  PROVE  ManagerIInv'
<1>1. /\ bus' = FALSE /\ inbox' = <<>> /\ calls' = <<>> /\ pending' = None
      /\ agentRegistered' = FALSE /\ listed' = FALSE /\ adapter' = [adapter EXCEPT !.available = FALSE]
      /\ bz' = [Failed(bz) EXCEPT !.agent = FALSE, !.discovering = FALSE]
      /\ ghost' = [ghost EXCEPT !.orphaned = @ \/ busy # "", !.unstopped = FALSE]
  BY DEF CloseBus
<1>same. UNCHANGED <<owner, commands, enabled, settingsDirty, paired, busy, nextId, persistAt,
                     persistLate, copied>>
  BY DEF CloseBus
<1>2. bz \in States /\ ghost \in Ghosts /\ adapter \in Adapters /\ Failed(bz) \in States /\ Alike(Failed(bz), bz)
  BY FailedIs DEF ManagerIInv, Types
<1>3. /\ bz' \in States /\ bz'.up = bz.up /\ bz'.gen = bz.gen /\ bz'.asked = bz.asked /\ bz'.known = bz.known
      /\ bz'.key = bz.key /\ bz'.keys = bz.keys /\ bz'.trusted = bz.trusted /\ ~bz'.agent /\ ~bz'.discovering
      /\ bz'.pairing = "none" /\ bz'.question = 0
  BY <1>1, <1>same, <1>2, FailedIs DEF States, Alike
<1>4. PICK lost \in BOOLEAN :
        lost = (ghost.orphaned \/ busy # "") /\ ghost' = [ghost EXCEPT !.orphaned = lost, !.unstopped = FALSE]
  BY <1>1, <1>same
<1>5. ghost' \in Ghosts /\ ghost'.untold = ghost.untold /\ ghost'.stale = ghost.stale /\ ghost'.distrust = ghost.distrust
      /\ ghost'.crossed = ghost.crossed /\ (busy # "" => ghost'.orphaned)
  BY <1>2, <1>4 DEF Ghosts
<1>6. pending' \in Prompts /\ pending'.q = 0 /\ pending'.id = 0 /\ adapter' \in Adapters
  BY <1>1, <1>same, <1>2 DEF Prompts, None, Adapters
<1>7. inbox' \in Seq(Messages) /\ calls' \in Seq(Methods) /\ Len(inbox') = 0
  BY <1>1, <1>same
<1>8. Types'
  BY <1>1, <1>same, <1>2, <1>3, <1>4, <1>5, <1>6, <1>7 DEF ManagerIInv, Types
<1>9. Counted'
  BY <1>same, <1>3, <1>6, <1>7, Counts DEF Counted
<1>10. Client'
  BY <1>1, <1>same, <1>3 DEF Client
<1>11. Held'
  BY <1>3 DEF Held
<1>12. AnswersFollow'
  BY <1>same, <1>6 DEF ManagerIInv, AnswersFollow
<1>14. SettingsFollow'
  BY <1>1 DEF SettingsFollow
<1>15. CopiesFollow'
  BY <1>same, <1>3, <1>5 DEF ManagerIInv, CopiesFollow, IsPaired
<1>16. BusyIsACall'
  BY <1>same, <1>5 DEF ManagerIInv, BusyIsACall
<1>17. ScanIsBounded'
  BY <1>1 DEF ScanIsBounded
<1>18. PairedIsTrusted'
  BY <1>same, <1>3, <1>5 DEF ManagerIInv, PairedIsTrusted
<1>19. AnswerIsForItsQuestion'
  BY <1>5 DEF ManagerIInv, AnswerIsForItsQuestion
<1> QED BY <1>8, <1>9, <1>10, <1>11, <1>12, <1>14, <1>15, <1>16, <1>17, <1>18, <1>19 DEF ManagerIInv

LEMMA LoseBusStep ==
  ASSUME ManagerIInv, LoseBus
  PROVE  ManagerIInv'
<1>1. running' \in BOOLEAN /\ scanUntil' \in BOOLEAN /\ left' \in 0 .. MaxEvents /\ CloseBus
  BY Spending DEF LoseBus, ManagerIInv, Types
<1> QED BY <1>1, CloseBusStep

LEMMA StopStep ==
  ASSUME ManagerIInv, Stop
  PROVE  ManagerIInv'
<1>1. running' = FALSE /\ left' \in 0 .. MaxEvents
  BY DEF Stop, ManagerIInv, Types
<1>2. CASE bus
  BY <1>1, <1>2, CloseBusStep DEF Stop
<1>3. CASE ~bus
  <2>1. UNCHANGED <<bz, inbox, bus, owner, commands, enabled, settingsDirty, agentRegistered, adapter,
                    listed, paired, busy, calls, pending, nextId, scanUntil, persistAt, persistLate,
                    copied, ghost>>
    BY <1>3 DEF Stop, known, timers
  <2>2. Types'
    BY <1>1, <2>1 DEF ManagerIInv, Types
  <2>3. Counted' /\ Client' /\ Held' /\ AnswersFollow'
    BY <2>1 DEF ManagerIInv, Counted, Client, Held, Undisturbed, AnswersFollow
  <2>4. CopiesFollow' /\ BusyIsACall' /\ PairedIsTrusted' /\ AnswerIsForItsQuestion'
    BY <2>1 DEF ManagerIInv, CopiesFollow, IsPaired, BusyIsACall, PairedIsTrusted,
       AnswerIsForItsQuestion
  <2>5. SettingsFollow' /\ ScanIsBounded'
    BY <1>1 DEF SettingsFollow, ScanIsBounded
  <2> QED BY <2>2, <2>3, <2>4, <2>5 DEF ManagerIInv
<1> QED BY <1>2, <1>3

----------------------------------------------------------------------------
(* The invariant, and what it shows.                                       *)

LEMMA ManagerStarts == Init => ManagerIInv
<1> SUFFICES ASSUME Init PROVE ManagerIInv
  OBVIOUS
<1>1. PICK key \in 0 .. 1, trusted \in BOOLEAN : bz = BlueZ(1, TRUE, key, trusted)
  BY DEF Init
<1>2. /\ bz \in States /\ bz.up /\ bz.gen = 1 /\ ~bz.agent /\ ~bz.discovering /\ bz.pairing = "none"
      /\ bz.question = 0 /\ bz.asked = 0 /\ bz.keys = 1 /\ bz.key \in {0, 1}
  BY <1>1 DEF BlueZ, States, Stages
<1>3. /\ inbox = <<>> /\ commands = <<>> /\ calls = <<>> /\ owner = 0 /\ nextId = 1
      /\ copied \in {0, 1} /\ left = MaxEvents
  <2>1. copied \in 0 .. 1
    BY DEF Init
  <2>2. inbox = <<>> /\ commands = <<>> /\ calls = <<>> /\ owner = 0 /\ nextId = 1 /\ left = MaxEvents
    BY DEF Init
  <2> QED BY <2>1, <2>2
<1>4. /\ running \in BOOLEAN /\ bus \in BOOLEAN /\ enabled \in BOOLEAN /\ settingsDirty \in BOOLEAN
      /\ agentRegistered \in BOOLEAN /\ listed \in BOOLEAN /\ scanUntil \in BOOLEAN
      /\ persistAt \in BOOLEAN /\ persistLate \in BOOLEAN
      /\ paired \in {"unknown", "no", "yes"} /\ busy \in Busy
  BY DEF Init, Busy
<1>bare. ~bus /\ settingsDirty /\ ~listed /\ paired = "unknown" /\ busy = ""
  BY DEF Init
<1>5. pending \in Prompts /\ pending.q = 0 /\ pending.id = 0 /\ adapter \in Adapters
  BY DEF Init, None, Prompts, Adapters
<1>6. ghost \in Ghosts /\ ~ghost.crossed
  BY DEF Init, Ghosts
<1>7. /\ inbox \in Seq(Messages) /\ commands \in Seq(Orders) /\ calls \in Seq(Methods)
      /\ Len(inbox) = 0 /\ Len(commands) = 0
  BY <1>3
<1>8. /\ left \in 0 .. MaxEvents /\ copied \in Nat /\ copied <= bz.keys /\ owner <= bz.gen
      /\ owner \in Nat /\ nextId \in Nat \ {0}
  <2>1. bz.key \in Nat
    BY <1>2
  <2> QED BY <1>2, <1>3, <2>1, EventsAssumption
<1>9. Types
  BY <1>2, <1>4, <1>5, <1>6, <1>7, <1>8 DEF Types
<1>10. Counted
  BY <1>2, <1>3, <1>5, <1>7, <1>8 DEF Counted
<1>11. Client /\ Held /\ AnswersFollow
  <2>1. Client /\ Held
    BY <1>2, <1>3 DEF Client, Held
  <2>2. AnswersFollow
    BY <1>5, <1>7 DEF AnswersFollow
  <2> QED BY <2>1, <2>2
<1>12. SettingsFollow
  BY <1>bare DEF SettingsFollow
<1>13. CopiesFollow /\ BusyIsACall /\ ScanIsBounded /\ PairedIsTrusted /\ AnswerIsForItsQuestion
  BY <1>3, <1>bare, <1>6 DEF CopiesFollow, IsPaired, BusyIsACall, ScanIsBounded, PairedIsTrusted, AnswerIsForItsQuestion
<1> QED BY <1>9, <1>10, <1>11, <1>12, <1>13 DEF ManagerIInv

LEMMA NothingHappens ==
  ASSUME ManagerIInv, UNCHANGED vars
  PROVE  ManagerIInv'
<1>1. UNCHANGED <<bz, inbox, running, bus, owner, commands, enabled, settingsDirty, agentRegistered, adapter,
                  listed, paired, busy, calls, pending, nextId, scanUntil, persistAt, persistLate,
                  copied, ghost, left>>
  BY DEF vars, known, timers
<1>2. Types' /\ Counted'
  BY <1>1 DEF ManagerIInv, Types, Counted
<1>3. Client'
  BY <1>1 DEF ManagerIInv, Client
<1>4. Held'
  BY <1>1 DEF ManagerIInv, Held, Undisturbed
<1>5. AnswersFollow'
  BY <1>1 DEF ManagerIInv, AnswersFollow
<1>6. SettingsFollow' /\ CopiesFollow'
  BY <1>1 DEF ManagerIInv, SettingsFollow, CopiesFollow, IsPaired
<1>7. BusyIsACall' /\ ScanIsBounded' /\ PairedIsTrusted' /\ AnswerIsForItsQuestion'
  BY <1>1 DEF ManagerIInv, BusyIsACall, ScanIsBounded, PairedIsTrusted, AnswerIsForItsQuestion
<1> QED BY <1>2, <1>3, <1>4, <1>5, <1>6, <1>7 DEF ManagerIInv

LEMMA ManagerSteps == ManagerIInv /\ [Next]_vars => ManagerIInv'
<1> SUFFICES ASSUME ManagerIInv, [Next]_vars PROVE ManagerIInv'
  OBVIOUS
<1>1. CASE Surroundings
  BY <1>1, PhonePairsStep, BlueZAsksStep, BlueZShowsStep, BlueZGivesUpStep, KeyLandsStep,
     BlueZLeavesStep, BlueZComesStep DEF Surroundings
<1>2. CASE Requests
  BY <1>2, PutBluetoothStep, ScanStep, DeviceActionStep, AnswerStep DEF Requests
<1>3. CASE Thread
  BY <1>3, DoApplyStep, DoDiscoverableStep, DoScanStep, DoDeviceStep, DoRemoveStep, DoQuietStep,
     DoAnswerStep, OwnerStep, ReleaseStep, CancelStep, AgentCallStep, ReplyStep, RefreshFailsStep,
     RefreshStep, ExpireRequestStep, ScanEndsStep, PersistStep, OpenBusStep, LoseBusStep, StopStep
     DEF Thread
<1> QED BY <1>1, <1>2, <1>3, NothingHappens DEF Next

\* However many commands, questions, failures and restarts of BlueZ there are: what is under way
\* between the manager's thread and BlueZ is never lost from both sides.
THEOREM ManagerAlways == Spec => []ManagerIInv
<1> QED BY ManagerStarts, ManagerSteps, PTL DEF Spec

LEMMA HeldIsHeld ==
  ASSUME ManagerIInv
  PROVE  QuestionsAreHeld
<1> SUFFICES ASSUME bz.question # 0
             PROVE  \/ pending.q = bz.question
                    \/ \E m \in Range(inbox) : m.q = bz.question
                    \/ ghost.gaveUp = bz.question
  BY DEF QuestionsAreHeld
<1>1. CASE \E j \in 1 .. Len(inbox) : inbox[j].q = bz.question
  <2>1. \A j \in 1 .. Len(inbox) : inbox[j] \in Range(inbox)
    BY DEF ManagerIInv, Types, Range
  <2> QED BY <1>1, <2>1
<1>2. CASE ~\E j \in 1 .. Len(inbox) : inbox[j].q = bz.question
  BY <1>2 DEF ManagerIInv, Held
<1> QED BY <1>1, <1>2

LEMMA TypesAreOK ==
  ASSUME ManagerIInv
  PROVE  TypeOK
<1>1. \A m \in Range(inbox) : \E i \in 1 .. Len(inbox) : m = inbox[i]
  BY DEF ManagerIInv, Types, Range
<1>2. \A i \in 1 .. Len(inbox) : inbox[i].q \in 0 .. bz.asked /\ inbox[i].gen \in 0 .. bz.gen
  BY Counts DEF Counted
<1>3. \A m \in Range(inbox) : m.q \in 0 .. bz.asked /\ m.gen \in 0 .. bz.gen
  BY <1>1, <1>2
<1>4. /\ bz.key \in 0 .. bz.keys /\ bz.question \in 0 .. bz.asked /\ bz.gen \in Nat /\ owner \in 0 .. bz.gen
      /\ pending.id < nextId /\ pending.q \in 0 .. bz.asked /\ copied \in 0 .. bz.keys
  BY Counts DEF Counted
<1>5. bz.pairing \in {"none", "going", "accepted"} /\ (bz.question # 0 => bz.pairing # "none")
  BY DEF ManagerIInv, Types, States, Stages, Client
<1>6. /\ running \in BOOLEAN /\ bus \in BOOLEAN /\ (~bus => inbox = <<>> /\ calls = <<>>)
      /\ enabled \in BOOLEAN /\ settingsDirty \in BOOLEAN /\ agentRegistered \in BOOLEAN /\ listed \in BOOLEAN
      /\ paired \in {"unknown", "no", "yes"} /\ busy \in {"", "pairing", "connecting", "disconnecting"}
      /\ calls \in Seq(Methods) /\ left \in 0 .. MaxEvents
  BY DEF ManagerIInv, Types, Client, Busy
<1> QED BY <1>3, <1>4, <1>5, <1>6 DEF TypeOK

\* What the manager and BlueZ have in common at every moment: no question is lost, no device is
\* busy without a call, no scan is without its end, and what is paired is trusted.
THEOREM ManagerHolds == Spec => []ManagerInv
<1>1. ManagerIInv => ManagerInv
  BY TypesAreOK, HeldIsHeld DEF ManagerInv, ManagerIInv
<1> QED BY <1>1, ManagerAlways, PTL

\* An answer of the operator goes to the question he saw.
THEOREM AnswersMeetTheirQuestions == Spec => []AnswerIsForItsQuestion
<1>1. ManagerIInv => AnswerIsForItsQuestion
  BY DEF ManagerIInv
<1> QED BY <1>1, ManagerAlways, PTL

\* The adapter ends as the settings say.
THEOREM AdapterAlwaysFollows == Spec => []AdapterFollowsSettings
<1>1. ManagerIInv => AdapterFollowsSettings
  <2> SUFFICES ASSUME ManagerIInv, running, bus, bz.up, commands = <<>>, inbox = <<>>, ~settingsDirty, ~ghost.stale
               PROVE  bz.powered = enabled
    BY DEF AdapterFollowsSettings
  <2>1. Len(commands) = 0 /\ Len(inbox) = 0
    OBVIOUS
  <2> QED BY <2>1 DEF ManagerIInv, SettingsFollow
<1> QED BY <1>1, ManagerAlways, PTL

\* A pairing that was read is copied, or will be.
THEOREM PairingsAlwaysCopied == Spec => []PairingsAreCopied
<1>1. ManagerIInv => PairingsAreCopied
  BY DEF ManagerIInv, CopiesFollow, PairingsAreCopied
<1> QED BY <1>1, ManagerAlways, PTL


=============================================================================

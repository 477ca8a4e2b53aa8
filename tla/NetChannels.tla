------------------------------ MODULE NetChannels ------------------------------
(***************************************************************************)
(* How the network input server (src/app/src/net_audio.cpp) hands out its  *)
(* channels: claim_channels(), release_channels() and forget_channel(),    *)
(* run at once by the thread of every connection, by the Bluetooth input   *)
(* and by the web server.                                                  *)
(*                                                                         *)
(* Each channel has an atomic flag, claimed, taken by compare-and-swap one *)
(* channel at a time, and a record of its last user under the channel's    *)
(* mutex.  A connection is a slot of Senders: the slot is its socket, and  *)
(* is used again once closed.  One action is one atomic access, or what is *)
(* done under one lock.                                                    *)
(***************************************************************************)
EXTENDS Integers, Sequences, FiniteSets, Functions

CONSTANTS
  Total,        \* count()
  Senders,      \* sockets (or, for a hello without one, a claiming thread)
  Hellos,       \* what a sender may introduce itself with
  NoHello,      \* a slot without a connection
  NoOne,        \* no MAC, no address, no stream: nothing remembered
  NoFd,         \* holder_fd when no socket holds the channel
  Tries,        \* kNetTakeBackMs / 10: the looks a takeover takes at the old run
  MaxDisplaced, \* kNetDisplacedMax
  Forgettable,  \* the channels the web console may be asked to forget
  MaxConnects   \* bound: the connections made in one behaviour

\* A hello: want is the pinned channel (Total or more: any), instance 0 is none,
\* socket is FALSE for the Bluetooth input, which has no connection to cut.
NetAssumption ==
  /\ Total \in Nat \ {0} /\ Tries \in Nat /\ MaxDisplaced \in Nat /\ MaxConnects \in Nat
  /\ Forgettable \subseteq 0 .. Total - 1
  /\ NoFd \notin Senders
  /\ NoHello \notin Hellos
  /\ \A h \in Hellos :
       /\ DOMAIN h = {"want", "count", "ip", "mac", "stream", "instance", "socket"}
       /\ h.want \in Nat /\ h.count \in Nat \ {0} /\ h.instance \in Nat
       /\ h.ip # NoOne /\ h.socket \in BOOLEAN

ASSUME NetAssumption

VARIABLES
  claimed,    \* Channel::claimed
  memory,     \* under Channel::m: whose the channel was last, and who holds it
  displaced,  \* displaced_
  releases,   \* release_seq_
  cut,        \* the sockets that were shut down and not closed yet
  wiping,     \* the channels forget_channel() has claimed, and how far it is
  pc,         \* where each sender's thread is
  hello,      \* its arguments
  run,        \* the first channel it holds, or tries to
  held,       \* how many from there on it has set claimed of
  search,     \* claim_channels()'s other locals
  connects    \* connections made so far

vars == <<claimed, memory, displaced, releases, cut, wiping,
          pc, hello, run, held, search, connects>>

Channels == 0 .. Total - 1
Run(base, count) == base .. base + count - 1

\* The channels whose flag a sender has set.
Holds(s) == Run(run[s], held[s])

NoSearch == [at |-> 0, barred |-> FALSE, back |-> -1, backOpen |-> FALSE, stale |-> {},
             tries |-> 0, next |-> "none", seen |-> 0, remembered |-> FALSE, released |-> 0,
             spare |-> {}]

Unused == [ip |-> NoOne, mac |-> NoOne, stream |-> NoOne, base |-> 0, count |-> 1,
           instance |-> 0, fd |-> NoFd, released |-> 0]

Init ==
  /\ claimed = [c \in Channels |-> FALSE]
  /\ memory = [c \in Channels |-> Unused]
  /\ displaced = <<>> /\ releases = 0 /\ cut = {}
  /\ wiping = [c \in Channels |-> "no"]
  /\ pc = [s \in Senders |-> "idle"]
  /\ hello = [s \in Senders |-> NoHello]
  /\ run = [s \in Senders |-> 0] /\ held = [s \in Senders |-> 0]
  /\ search = [s \in Senders |-> NoSearch]
  /\ connects = 0

Go(s, where) == pc' = [pc EXCEPT ![s] = where]
Look(s, found) == search' = [search EXCEPT ![s] = found]

Shared == <<claimed, memory, displaced, releases, cut, wiping>>

----------------------------------------------------------------------------
(* A HELLO arrives, and claim_channels() begins.                           *)

Connect(s, h) ==
  /\ pc[s] = "idle" /\ connects < MaxConnects
  /\ connects' = connects + 1
  /\ hello' = [hello EXCEPT ![s] = h]
  /\ Go(s, "claim")
  /\ UNCHANGED <<Shared, run, held, search>>

\* Whether this PCM lost its run to a newer open is read here, once.
Begin(s) ==
  /\ pc[s] = "claim"
  /\ LET h == hello[s] IN
       /\ Go(s, IF h.count > Total THEN "refused"
                ELSE IF h.instance # 0 \/ h.mac # NoOne THEN "scan" ELSE "place")
       /\ Look(s, [NoSearch EXCEPT !.barred = h.instance # 0 /\ h.instance \in Range(displaced)])
  /\ UNCHANGED <<Shared, hello, run, held, connects>>

\* Mutant: the stream's name does not count.
SameOutputAnyStream(h, m, barred) == ~barred /\ h.mac # NoOne /\ m.mac = h.mac

\* A run this very stream still holds on another connection: the same PCM, or
\* the same output of the same machine opened again.
SameOpen(h, m) == h.instance # 0 /\ m.instance = h.instance
SameOutput(h, m, barred) == ~barred /\ h.mac # NoOne /\ m.mac = h.mac /\ m.stream = h.stream
Stale(h, c, m, barred) ==
  /\ m.base = c /\ m.fd # NoFd
  /\ SameOpen(h, m) \/ SameOutput(h, m, barred)

\* push_back, and pop_front past the bound.
Remember(queue, instance) ==
  LET q == Append(queue, instance) IN IF Len(q) > MaxDisplaced THEN Tail(q) ELSE q

\* Mutant: neither the width nor the pin counts.
TakesBackAnyRun(h, c, m, found) == found.back = -1 \/ (SameOpen(h, m) /\ ~found.backOpen)

\* The run to take back: one as wide, where a pin allows, this PCM's own first.
TakesBack(h, c, m, found) ==
  /\ m.count = h.count /\ (h.want >= Total \/ c = h.want)
  /\ found.back = -1 \/ (SameOpen(h, m) /\ ~found.backOpen)

\* One turn of the loop over the channels, under the channel's lock: a stale
\* run's socket is shut down, and the stream that loses it is remembered.
Scan(s) ==
  /\ pc[s] = "scan"
  /\ LET h == hello[s]  found == search[s]  c == found.at  m == memory[c]
         hit == Stale(h, c, m, found.barred)
         took == hit /\ TakesBack(h, c, m, found)
         stale == IF hit THEN found.stale \cup Run(c, m.count) ELSE found.stale
     IN
       /\ cut' = IF hit THEN cut \cup {m.fd} ELSE cut
       /\ displaced' = IF hit /\ ~SameOpen(h, m) /\ m.instance # 0
                         THEN Remember(displaced, m.instance) ELSE displaced
       /\ Look(s, [found EXCEPT
             !.stale = stale,
             !.back = IF took THEN c ELSE @,
             !.backOpen = IF took THEN SameOpen(h, m) ELSE @,
             !.at = IF c + 1 = Total THEN 0 ELSE c + 1])
       /\ Go(s, IF c + 1 < Total THEN "scan" ELSE IF stale = {} THEN "place" ELSE "wait")
  /\ UNCHANGED <<claimed, memory, releases, wiping, hello, run, held, connects>>

----------------------------------------------------------------------------
(* try_run(base): the whole run or nothing.                                *)

\* next says where a failed try leads.
Try(s, base, next, found) ==
  /\ Go(s, "try")
  /\ run' = [run EXCEPT ![s] = base]
  /\ Look(s, [found EXCEPT !.next = next])

\* compare_exchange_strong(false, true); the last one decides the run.
Win(s) ==
  /\ pc[s] = "try"
  /\ run[s] + hello[s].count <= Total
  /\ LET c == run[s] + held[s] IN
       /\ ~claimed[c]
       /\ claimed' = [claimed EXCEPT ![c] = TRUE]
  /\ held' = [held EXCEPT ![s] = @ + 1]
  /\ IF held[s] + 1 = hello[s].count
       THEN Go(s, "took") /\ Look(s, NoSearch)
       ELSE UNCHANGED <<pc, search>>
  /\ UNCHANGED <<memory, displaced, releases, cut, wiping, hello, run, connects>>

\* Mutant: what was won of a run that does not fit is forgotten.
LoseKeeping(s) ==
  /\ pc[s] = "try"
  /\ run[s] + hello[s].count > Total \/ claimed[run[s] + held[s]]
  /\ Go(s, search[s].next)
  /\ run' = [run EXCEPT ![s] = 0] /\ held' = [held EXCEPT ![s] = 0]
  /\ UNCHANGED <<Shared, hello, search, connects>>

Lose(s) ==
  /\ pc[s] = "try"
  /\ run[s] + hello[s].count > Total \/ claimed[run[s] + held[s]]
  /\ Go(s, "undo")
  /\ UNCHANGED <<Shared, hello, run, held, search, connects>>

\* What was won of it goes back, the lowest channel first.
Undo(s) ==
  /\ pc[s] = "undo" /\ held[s] > 0
  /\ claimed' = [claimed EXCEPT ![run[s]] = FALSE]
  /\ run' = [run EXCEPT ![s] = @ + 1]
  /\ held' = [held EXCEPT ![s] = @ - 1]
  /\ UNCHANGED <<memory, displaced, releases, cut, wiping, pc, hello, search, connects>>

\* try_run() returns false to one of its four callers.
Undone(s) ==
  /\ pc[s] = "undo" /\ held[s] = 0
  /\ Go(s, search[s].next)
  /\ run' = [run EXCEPT ![s] = 0]
  /\ UNCHANGED <<Shared, hello, held, search, connects>>

\* took(base): one channel's record, under its lock.
Took(s) ==
  /\ pc[s] = "took"
  /\ LET h == hello[s]  i == search[s].at  c == run[s] + i IN
       /\ memory' = [memory EXCEPT ![c] =
            [ip |-> h.ip, mac |-> h.mac, stream |-> h.stream, base |-> run[s], count |-> h.count,
             instance |-> h.instance, fd |-> IF h.socket THEN s ELSE NoFd,
             released |-> @.released]]
       /\ Go(s, IF i + 1 = h.count THEN "held" ELSE "took")
       /\ Look(s, IF i + 1 = h.count THEN NoSearch ELSE [search[s] EXCEPT !.at = i + 1])
  /\ UNCHANGED <<claimed, displaced, releases, cut, wiping, hello, run, held, connects>>

----------------------------------------------------------------------------
(* The takeover: waiting for the stale runs' sessions to let go.           *)

\* Mutant: no bound on the wait.
WaitOnAndOn(s) ==
  /\ pc[s] = "wait"
  /\ IF search[s].back >= 0
       THEN Try(s, search[s].back, "wait", search[s])
       ELSE Go(s, "gone?") /\ Look(s, [search[s] EXCEPT !.at = 0]) /\ UNCHANGED run
  /\ UNCHANGED <<Shared, hello, held, connects>>

Wait(s) ==
  /\ pc[s] = "wait"
  /\ LET found == search[s]  again == [found EXCEPT !.tries = @ + 1] IN
       CASE found.tries >= Tries ->
              Go(s, "place") /\ Look(s, [found EXCEPT !.at = 0]) /\ UNCHANGED run
         [] found.tries < Tries /\ found.back >= 0 ->
              Try(s, found.back, "wait", again)
         [] found.tries < Tries /\ found.back < 0 ->
              Go(s, "gone?") /\ Look(s, [again EXCEPT !.at = 0]) /\ UNCHANGED run
  /\ UNCHANGED <<Shared, hello, held, connects>>

\* let_go(): one look at one of the stale channels after the other.
LetGo(s) ==
  /\ pc[s] = "gone?"
  /\ LET found == search[s]  c == found.at IN
       IF c \in found.stale /\ claimed[c]
         THEN Go(s, "wait") /\ UNCHANGED search
         ELSE /\ Go(s, IF c + 1 = Total THEN "place" ELSE "gone?")
              /\ Look(s, [found EXCEPT !.at = IF c + 1 = Total THEN 0 ELSE c + 1])
  /\ UNCHANGED <<Shared, hello, run, held, connects>>

----------------------------------------------------------------------------
(* Placing the stream: its pin, where it was, or the best of what is free. *)

Place(s) ==
  /\ pc[s] = "place"
  /\ IF hello[s].want < Total
       THEN Try(s, hello[s].want, "refused", search[s])
       ELSE Go(s, "home") /\ Look(s, [search[s] EXCEPT !.at = 0]) /\ UNCHANGED run
  /\ UNCHANGED <<Shared, hello, held, connects>>

\* By MAC when both sides have one, by address otherwise.
SameMachine(h, m) ==
  IF h.mac # NoOne /\ m.mac # NoOne THEN m.mac = h.mac ELSE m.ip = h.ip

Home(s) ==
  /\ pc[s] = "home"
  /\ LET h == hello[s]  c == search[s].at  found == [search[s] EXCEPT !.at = c + 1] IN
       IF c = Total
         THEN Go(s, "free?") /\ Look(s, [found EXCEPT !.at = 0, !.seen = 0]) /\ UNCHANGED run
         ELSE LET m == memory[c] IN
              IF SameMachine(h, m) /\ m.stream = h.stream /\ m.base = c
                THEN Try(s, c, "home", found)
                ELSE Look(s, found) /\ UNCHANGED <<pc, run>>
  /\ UNCHANGED <<Shared, hello, held, connects>>

\* Which runs are free, whether anyone is remembered on them and when they
\* were last let go: one channel of one run after the other.
Spare(s) ==
  /\ pc[s] = "free?"
  /\ LET h == hello[s]  found == search[s]  b == found.at  c == b + found.seen
         m == memory[c]
         anew == [found EXCEPT !.at = b + 1, !.seen = 0, !.remembered = FALSE, !.released = 0]
         known == found.remembered \/ m.ip # NoOne
         last == IF m.released > found.released THEN m.released ELSE found.released
     IN
       IF b + h.count > Total THEN Go(s, "spare") /\ UNCHANGED search
       ELSE /\ UNCHANGED pc
            /\ CASE claimed[c] -> Look(s, anew)
                 [] ~claimed[c] /\ found.seen + 1 < h.count ->
                      Look(s, [found EXCEPT !.seen = @ + 1, !.remembered = known, !.released = last])
                 [] ~claimed[c] /\ found.seen + 1 = h.count ->
                      Look(s, [anew EXCEPT !.spare =
                                 @ \cup {[base |-> b, remembered |-> known, released |-> last]}])
  /\ UNCHANGED <<Shared, hello, run, held, connects>>

\* Runs nobody is remembered on first, the lowest first; then the one let go
\* longest ago.
Before(f, g) ==
  IF f.remembered # g.remembered THEN ~f.remembered
  ELSE IF f.remembered /\ f.released # g.released THEN f.released < g.released
  ELSE f.base <= g.base

TrySpare(s) ==
  /\ pc[s] = "spare"
  /\ LET found == search[s] IN
       IF found.spare = {}
         THEN Go(s, "refused") /\ UNCHANGED <<run, search>>
         ELSE \E best \in found.spare :
                /\ \A g \in found.spare : Before(best, g)
                /\ Try(s, best.base, "spare", [found EXCEPT !.spare = @ \ {best}])
  /\ UNCHANGED <<Shared, hello, held, connects>>

----------------------------------------------------------------------------
(* The end of a session: BYE, an error, or its socket shut down.           *)

\* Mutant: a session whose socket was shut down waits for its sender all the same.
LeaveUncut(s) ==
  /\ pc[s] = "held" /\ s \notin cut
  /\ Go(s, "release")
  /\ UNCHANGED <<Shared, hello, run, held, search, connects>>

Leave(s) ==
  /\ pc[s] = "held"
  /\ Go(s, "release")
  /\ UNCHANGED <<Shared, hello, run, held, search, connects>>

\* Mutant: the channel still names the socket after it was let go.
ReleaseRecordKept(s) ==
  /\ pc[s] = "release"
  /\ releases' = releases + 1
  /\ memory' = [memory EXCEPT ![run[s]].released = releases + 1]
  /\ Go(s, "unclaim")
  /\ UNCHANGED <<claimed, displaced, cut, wiping, hello, run, held, search, connects>>

\* release_channels(), one channel at a time: first its record, under the lock,
ReleaseRecord(s) ==
  /\ pc[s] = "release"
  /\ releases' = releases + 1
  /\ memory' = [memory EXCEPT ![run[s]].fd = NoFd, ![run[s]].released = releases + 1]
  /\ Go(s, "unclaim")
  /\ UNCHANGED <<claimed, displaced, cut, wiping, hello, run, held, search, connects>>

\* Mutant: only the first channel of the run is let go.
UnclaimFirst(s) ==
  /\ pc[s] = "unclaim"
  /\ claimed' = [claimed EXCEPT ![run[s]] = FALSE]
  /\ run' = [run EXCEPT ![s] = @ + 1]
  /\ held' = [held EXCEPT ![s] = @ - 1]
  /\ Go(s, "close")
  /\ UNCHANGED <<memory, displaced, releases, cut, wiping, hello, search, connects>>

\* then its claim.
Unclaim(s) ==
  /\ pc[s] = "unclaim"
  /\ claimed' = [claimed EXCEPT ![run[s]] = FALSE]
  /\ run' = [run EXCEPT ![s] = @ + 1]
  /\ held' = [held EXCEPT ![s] = @ - 1]
  /\ Go(s, IF held[s] = 1 THEN "close" ELSE "release")
  /\ UNCHANGED <<memory, displaced, releases, cut, wiping, hello, search, connects>>

\* close(fd), and the thread is gone; a refused sender was told BUSY.
Close(s) ==
  /\ pc[s] \in {"close", "refused"}
  /\ cut' = cut \ {s}
  /\ hello' = [hello EXCEPT ![s] = NoHello]
  /\ run' = [run EXCEPT ![s] = 0]
  /\ Look(s, NoSearch)
  /\ Go(s, "idle")
  /\ UNCHANGED <<claimed, memory, displaced, releases, wiping, held, connects>>

----------------------------------------------------------------------------
(* forget_channel(c), on a web server thread.                              *)

\* Mutant: it only looks whether the channel is free.
ForgetClaimUnheld(c) ==
  /\ ~claimed[c] /\ wiping[c] = "no"
  /\ wiping' = [wiping EXCEPT ![c] = "claimed"]
  /\ UNCHANGED <<claimed, memory, displaced, releases, cut, pc, hello, run, held, search, connects>>

ForgetClaim(c) ==
  /\ ~claimed[c]
  /\ claimed' = [claimed EXCEPT ![c] = TRUE]
  /\ wiping' = [wiping EXCEPT ![c] = "claimed"]
  /\ UNCHANGED <<memory, displaced, releases, cut, pc, hello, run, held, search, connects>>

ForgetRecord(c) ==
  /\ wiping[c] = "claimed"
  /\ memory' = [memory EXCEPT ![c] = [Unused EXCEPT !.fd = memory[c].fd,
                                                    !.released = memory[c].released]]
  /\ wiping' = [wiping EXCEPT ![c] = "cleared"]
  /\ UNCHANGED <<claimed, displaced, releases, cut, pc, hello, run, held, search, connects>>

ForgetEnd(c) ==
  /\ wiping[c] = "cleared"
  /\ claimed' = [claimed EXCEPT ![c] = FALSE]
  /\ wiping' = [wiping EXCEPT ![c] = "no"]
  /\ UNCHANGED <<memory, displaced, releases, cut, pc, hello, run, held, search, connects>>

----------------------------------------------------------------------------

\* What a session's thread does once it is given something to do.
Claiming(s) ==
  \/ Begin(s) \/ Scan(s) \/ Win(s) \/ Lose(s) \/ Undo(s) \/ Undone(s) \/ Took(s)
  \/ Wait(s) \/ LetGo(s) \/ Place(s) \/ Home(s) \/ Spare(s) \/ TrySpare(s)
Ending(s) == ReleaseRecord(s) \/ Unclaim(s) \/ Close(s)
Forgetting(c) == ForgetRecord(c) \/ ForgetEnd(c)

Next ==
  \/ \E s \in Senders :
       \/ \E h \in Hellos : Connect(s, h)
       \/ Claiming(s)
       \/ Leave(s)
       \/ Ending(s)
  \/ \E c \in Channels :
       \/ c \in Forgettable /\ ForgetClaim(c)
       \/ Forgetting(c)

Spec == Init /\ [][Next]_vars

\* A thread that can run does; a session ends by itself only when its sender
\* does, but it wakes at once when its socket is shut down.
Fairness ==
  /\ \A s \in Senders :
       /\ WF_vars(Claiming(s))
       /\ WF_vars(Ending(s))
       /\ WF_vars(s \in cut /\ Leave(s))
  /\ \A c \in Channels : WF_vars(Forgetting(c))

FairSpec == Spec /\ Fairness

----------------------------------------------------------------------------
(* Properties.                                                             *)

Places == {"idle", "claim", "scan", "wait", "gone?", "place", "home", "free?", "spare",
           "try", "undo", "took", "held", "release", "unclaim", "close", "refused"}

Memories == [ip : {h.ip : h \in Hellos} \cup {NoOne}, mac : {h.mac : h \in Hellos} \cup {NoOne},
             stream : {h.stream : h \in Hellos} \cup {NoOne}, base : Channels,
             count : Nat \ {0}, instance : Nat, fd : Senders \cup {NoFd}, released : Nat]

Searches == [at : Nat, barred : BOOLEAN, back : Nat \cup {-1}, backOpen : BOOLEAN,
             stale : SUBSET Nat, tries : Nat,
             next : {"none", "wait", "refused", "home", "spare"},
             seen : Nat, remembered : BOOLEAN, released : Nat,
             spare : SUBSET [base : Nat, remembered : BOOLEAN, released : Nat]]

\* Types, and the channels that are looked at exist.
TypeOK ==
  /\ claimed \in [Channels -> BOOLEAN]
  /\ memory \in [Channels -> Memories]
  /\ displaced \in Seq(Nat) /\ releases \in Nat /\ connects \in Nat
  /\ cut \subseteq Senders
  /\ wiping \in [Channels -> {"no", "claimed", "cleared"}]
  /\ pc \in [Senders -> Places]
  /\ hello \in [Senders -> Hellos \cup {NoHello}]
  /\ run \in [Senders -> Nat] /\ held \in [Senders -> Nat]
  /\ search \in [Senders -> Searches]
  /\ \A s \in Senders :
       /\ pc[s] # "idle" => hello[s] \in Hellos
       /\ pc[s] \in {"scan", "gone?"} => search[s].at < Total
       /\ pc[s] = "home" \/ (pc[s] \in {"try", "undo"} /\ search[s].next = "home")
            => search[s].at <= Total
       /\ pc[s] = "free?" => search[s].seen < hello[s].count

\* A claimed channel is claimed by exactly one thread, one that is going to
\* clear it again: no run is ever half taken and stranded, and forget_channel()
\* never wipes a channel under a sender (net_audio.cpp, try_run and the claim
\* in forget_channel).
EveryClaimHasOneOwner ==
  /\ \A c \in Channels :
       claimed[c] <=> (wiping[c] # "no" \/ \E s \in Senders : c \in Holds(s))
  /\ \A s \in Senders : \A c \in Holds(s) :
       /\ c \in Channels /\ wiping[c] = "no"
       /\ \A t \in Senders \ {s} : c \notin Holds(t)

\* What a record says of the stream that uses the channel is what h says.
IsOf(m, h) == m.instance = h.instance /\ m.mac = h.mac /\ m.stream = h.stream

\* Whoever reads a channel's holder_fd under its lock has a live socket, the
\* one of the session that holds the channel and that the rest of the record is
\* about: a takeover never shuts down a connection that came later and was given
\* the same descriptor.
HolderIsLive ==
  \A c \in Channels : memory[c].fd # NoFd =>
    LET s == memory[c].fd IN
      /\ c \in Holds(s) /\ hello[s].socket /\ IsOf(memory[c], hello[s])
      /\ pc[s] \in {"took", "held", "release", "unclaim"}

\* Whether channel c remembers the session of s on its run.
Remembers(c, s) ==
  LET m == memory[c]  h == hello[s] IN
    /\ IsOf(m, h) /\ m.ip = h.ip /\ m.base = run[s] /\ m.count = h.count
    /\ m.fd = IF h.socket THEN s ELSE NoFd

\* While a session has its run, what the channels remember is that session:
\* neither a later claim nor a forget_channel() overwrote any of it.
RunRemembersItsHolder ==
  \A s \in Senders : pc[s] = "held" =>
    \A c \in Run(run[s], hello[s].count) : Remembers(c, s)

\* A connection is only ever shut down for its own stream: by the same PCM, or
\* by the same output of the same machine, judged by what the two connections
\* are now and not by what a channel remembers of an earlier one.
OnlyItsOwnStreamCutsIt ==
  [][\A s, t \in Senders : (Scan(s) /\ t \in cut' \ cut) =>
       \/ hello[s].instance # 0 /\ hello[t].instance = hello[s].instance
       \/ hello[s].mac # NoOne /\ hello[t].mac = hello[s].mac /\ hello[t].stream = hello[s].stream
    ]_vars

\* What net_audio.h says of a stream whose run was taken over: coming back, it
\* gets a channel of its own instead of taking the run back again, so it shuts
\* down no connection but its own earlier one.  The code does not keep it: see
\* the README.
DisplacedTakesNothingBack ==
  [][\A s, t \in Senders : (Scan(s) /\ t \in cut' \ cut) =>
       \/ hello[s].instance \notin Range(displaced)
       \/ hello[t].instance = hello[s].instance
    ]_vars

\* Every HELLO is answered: whatever the other threads do, a claim ends in a
\* run or in a refusal.
EveryClaimIsAnswered ==
  \A s \in Senders : pc[s] = "claim" ~> pc[s] \in {"held", "refused"}

\* A run taken over is let go by its old session, all of it.
CutSessionsLetGo ==
  \A s \in Senders : s \in cut ~> s \notin cut /\ held[s] = 0

\* What the proofs need beside: how many channels a thread holds where,
Shape ==
  \A s \in Senders :
    /\ held[s] > 0 => run[s] + held[s] <= Total
    /\ pc[s] \in Places \ {"try", "undo", "took", "held", "release", "unclaim"} => held[s] = 0
    /\ pc[s] = "try" => held[s] < hello[s].count
    /\ pc[s] \in {"try", "undo"} => search[s].next # "none"
    /\ pc[s] \in {"took", "held"} => held[s] = hello[s].count
    /\ pc[s] = "took" => search[s].at < hello[s].count
    /\ pc[s] \in {"release", "unclaim"} => held[s] > 0

\* that a socket is gone from a record before the channel is let go,
Forgotten == \A s \in Senders : pc[s] = "unclaim" => memory[run[s]].fd # s

\* and that took() has written the records it has passed.
Written ==
  \A s \in Senders : pc[s] = "took" =>
    \A c \in Run(run[s], search[s].at) : Remembers(c, s)

\* The inductive invariant of the threads that share the channels.
Inv ==
  /\ TypeOK /\ Shape
  /\ EveryClaimHasOneOwner /\ HolderIsLive /\ Forgotten
  /\ Written /\ RunRemembersItsHolder

----------------------------------------------------------------------------
(* The abstract specification this implements.                             *)

\* A sender asks from its HELLO until the last flag of its run is won; it owns
\* its channels from then until it clears their flags.
Asking == {"claim", "scan", "wait", "gone?", "place", "home", "free?", "spare", "try", "undo"}
Owning == {"took", "held", "release", "unclaim"}

Request(h) == [count |-> h.count, pin |-> h.want]

AskedBy(s) == IF pc[s] \in Asking THEN {Request(hello[s])} ELSE {}

Owns(s, c) == pc[s] \in Owning /\ c \in Holds(s)
Owner(c) == IF \E s \in Senders : Owns(s, c) THEN CHOOSE s \in Senders : Owns(s, c) ELSE NoFd

Runs == INSTANCE ChannelRuns WITH
  Nobody <- NoFd,
  Requests <- {Request(h) : h \in Hellos},
  asked <- [s \in Senders |-> AskedBy(s)],
  owner <- [c \in Channels |-> Owner(c)]

\* However the threads' single steps fall, the senders see runs granted whole,
\* refused, and given back.
ImplementsChannelRuns == Runs!Spec
=============================================================================

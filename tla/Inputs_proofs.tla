----------------------------- MODULE Inputs_proofs -----------------------------
(***************************************************************************)
(* What holds of the inputs' channels (net_audio.cpp) for any number of    *)
(* channels, senders and kinds of HELLO, and, from "The inputs" on, of the *)
(* two inputs that record here (bt_input.cpp, device_input.cpp) for any    *)
(* number of phones and requests, any delays and buffers.                  *)
(*                                                                         *)
(* Of the channels, Inv is inductive: TypeOK and Shape bound each thread's *)
(* locals, EveryClaimHasOneOwner makes what two threads hold disjoint, and *)
(* on disjoint channels nobody overwrites a record that another session is *)
(* bound to.  Of the inputs, InputsIInv: a request's place says whether it *)
(* holds the lock and what it has stored by then, the recording thread is  *)
(* there only between a start and its join, and the reader knows a place   *)
(* for its frames only while there is a PCM to read them from.             *)
(***************************************************************************)
EXTENDS NetChannels, DeviceInput, TLAPS

----------------------------------------------------------------------------
(* What there is: senders, channels and records.                           *)

\* What NetAssumption says of one HELLO, and that a record may hold its fields.
LEMMA HelloFields ==
  ASSUME NEW h \in Hellos
  PROVE /\ h.want \in Nat /\ h.count \in Nat \ {0} /\ h.instance \in Nat /\ h.socket \in BOOLEAN
        /\ h.ip \in {g.ip : g \in Hellos} \cup {NoOne}
        /\ h.mac \in {g.mac : g \in Hellos} \cup {NoOne}
        /\ h.stream \in {g.stream : g \in Hellos} \cup {NoOne}
BY NetAssumption DEF NetAssumption

\* The types of what a thread of net_audio.cpp that is at work keeps.
LEMMA SenderTypes ==
  ASSUME TypeOK, NEW s \in Senders, pc[s] # "idle"
  PROVE /\ hello[s] \in Hellos /\ hello[s].count \in Nat \ {0} /\ hello[s].want \in Nat
        /\ run[s] \in Nat /\ held[s] \in Nat /\ search[s] \in Searches
        /\ search[s].at \in Nat /\ search[s].seen \in Nat /\ search[s].released \in Nat
        /\ search[s].remembered \in BOOLEAN /\ search[s].back \in Nat \cup {-1}
<1>1. hello[s] \in Hellos /\ run[s] \in Nat /\ held[s] \in Nat /\ search[s] \in Searches
  BY DEF TypeOK
<1> QED BY <1>1, HelloFields DEF Searches

\* A number below count() is a channel, with a flag and a typed record.
LEMMA ChannelTypes ==
  ASSUME TypeOK, NEW c \in Nat, c < Total
  PROVE /\ c \in Channels /\ claimed[c] \in BOOLEAN /\ memory[c] \in Memories
        /\ memory[c].instance \in Nat /\ memory[c].count \in Nat /\ memory[c].released \in Nat
        /\ memory[c].fd \in Senders \cup {NoFd}
<1>1. c \in Channels
  BY NetAssumption DEF Channels, NetAssumption
<1> QED BY <1>1 DEF TypeOK, Memories

\* displaced_ stays a sequence of instances, push_back and pop_front.
LEMMA RememberType ==
  ASSUME NEW queue \in Seq(Nat), NEW i \in Nat
  PROVE Remember(queue, i) \in Seq(Nat)
<1> DEFINE q == Append(queue, i)
<1>1. q \in Seq(Nat) /\ Len(q) = Len(queue) + 1 /\ q # <<>>
  OBVIOUS
<1>2. Tail(q) \in Seq(Nat)
  BY <1>1
<1> QED BY <1>1, <1>2 DEF Remember

----------------------------------------------------------------------------
(* TypeOK and Shape: each action of the threads in net_audio.cpp keeps both. *)

\* A HELLO that arrives keeps the types, and how much a thread holds where.
LEMMA ConnectTypes ==
  ASSUME TypeOK, Shape, NEW s \in Senders, NEW h \in Hellos, Connect(s, h)
  PROVE TypeOK' /\ Shape'
<1>1. TypeOK'
  BY DEF TypeOK, Connect, Go, Shared, Places
<1>2. Shape'
  BY DEF TypeOK, Shape, Connect, Go, Shared, Places
<1> QED BY <1>1, <1>2

\* So does the start of claim_channels(),
LEMMA BeginTypes ==
  ASSUME TypeOK, Shape, NEW s \in Senders, Begin(s)
  PROVE TypeOK' /\ Shape'
<1> DEFINE f == [NoSearch EXCEPT !.barred = hello[s].instance # 0 /\ hello[s].instance \in Range(displaced)]
<1>1. f \in Searches /\ f.at = 0
  BY DEF NoSearch, Searches
<1>2. search' = [search EXCEPT ![s] = f]
  BY DEF Begin, Look
<1> HIDE DEF f
<1>3. TypeOK'
  BY <1>1, <1>2, NetAssumption DEF TypeOK, Begin, Go, Shared, Places, NetAssumption
<1>4. Shape'
  BY <1>1, <1>2 DEF TypeOK, Shape, Begin, Go, Shared, Places
<1> QED BY <1>3, <1>4

\* one turn of its loop for stale runs, whose index stays below count(),
LEMMA ScanTypes ==
  ASSUME TypeOK, Shape, NEW s \in Senders, Scan(s)
  PROVE TypeOK' /\ Shape'
<1>0. pc[s] = "scan" /\ search[s].at < Total
  BY DEF Scan, TypeOK
<1> DEFINE h == hello[s]
           found == search[s]
           c == found.at
           m == memory[c]
           hit == Stale(h, c, m, found.barred)
           took == hit /\ TakesBack(h, c, m, found)
           stale == IF hit THEN found.stale \cup Run(c, m.count) ELSE found.stale
           next == IF c + 1 = Total THEN 0 ELSE c + 1
           back == IF took THEN c ELSE found.back
           open == IF took THEN SameOpen(h, m) ELSE found.backOpen
           f == [found EXCEPT !.stale = stale, !.back = IF took THEN c ELSE @,
                              !.backOpen = IF took THEN SameOpen(h, m) ELSE @,
                              !.at = IF c + 1 = Total THEN 0 ELSE c + 1]
<1>1. /\ pc[s] = "scan" /\ h \in Hellos /\ found \in Searches /\ c \in Channels /\ m \in Memories
      /\ h.instance \in Nat /\ m.instance \in Nat /\ m.count \in Nat /\ m.fd \in Senders \cup {NoFd}
      /\ found.stale \subseteq Nat /\ found.back \in Nat \cup {-1} /\ c \in Nat /\ c < Total
  BY <1>0, SenderTypes, ChannelTypes, HelloFields DEF Searches
<1>2. stale \subseteq Nat
  BY <1>1 DEF Run
<1>3. next \in Nat /\ next < Total
  BY <1>1, NetAssumption DEF NetAssumption
<1>4. SameOpen(h, m) \in BOOLEAN
  BY DEF SameOpen
<1>5. hit => m.fd \in Senders
  BY <1>1 DEF Stale
<1>6. f \in Searches /\ f.at = next
  BY <1>1, <1>2, <1>3, <1>4 DEF Searches
<1>7. search' = [search EXCEPT ![s] = f]
  BY DEF Scan, Look
<1>8. cut' \subseteq Senders
  BY <1>5 DEF Scan, TypeOK
<1>9. displaced' \in Seq(Nat)
  <2>1. Remember(displaced, m.instance) \in Seq(Nat)
    BY <1>1, RememberType DEF TypeOK
  <2> QED BY <2>1 DEF Scan, TypeOK
<1>10. /\ pc' = [pc EXCEPT ![s] = IF c + 1 < Total THEN "scan" ELSE IF stale = {} THEN "place" ELSE "wait"]
       /\ UNCHANGED <<claimed, memory, releases, wiping, hello, run, held, connects>>
  BY DEF Scan, Go
<1> HIDE DEF f, stale, hit, took, back, open, next, m, found, h
<1>11. TypeOK'
  BY <1>1, <1>3, <1>6, <1>7, <1>8, <1>9, <1>10 DEF TypeOK, Places
<1>12. Shape'
  BY <1>1, <1>6, <1>7, <1>10 DEF TypeOK, Shape, Places
<1> QED BY <1>11, <1>12

\* a call of try_run(), whichever of the four callers makes it,
LEMMA TryTypes ==
  ASSUME TypeOK, Shape, NEW s \in Senders, NEW base \in Nat, NEW f \in Searches,
         NEW next \in {"wait", "refused", "home", "spare"},
         next = "home" => f.at <= Total,
         hello[s] \in Hellos, held[s] = 0, Try(s, base, next, f),
         UNCHANGED <<Shared, hello, held, connects>>
  PROVE TypeOK' /\ Shape'
<1> DEFINE g == [f EXCEPT !.next = next]
<1>1. g \in Searches /\ g.next = next /\ g.at = f.at
  BY DEF Searches
<1>2. search' = [search EXCEPT ![s] = g]
  BY DEF Try, Look
<1> HIDE DEF g
<1>3. TypeOK'
  BY <1>1, <1>2 DEF TypeOK, Try, Go, Shared, Places
<1>4. hello[s].count > 0
  BY HelloFields
<1>5. Shape'
  BY <1>1, <1>2, <1>4 DEF TypeOK, Shape, Try, Go, Shared, Places
<1> QED BY <1>3, <1>5

\* a compare-and-swap of try_run() that takes a channel, one that exists,
LEMMA WinTypes ==
  ASSUME TypeOK, Shape, NEW s \in Senders, Win(s)
  PROVE TypeOK' /\ Shape'
<1>1. /\ pc[s] = "try" /\ hello[s].count \in Nat \ {0} /\ run[s] \in Nat /\ held[s] \in Nat
      /\ held[s] < hello[s].count /\ run[s] + held[s] \in Channels
      /\ run[s] + held[s] + 1 <= Total
  <2>1. pc[s] = "try" /\ held[s] < hello[s].count /\ run[s] + hello[s].count <= Total
    BY DEF Win, Shape
  <2> QED BY <2>1, SenderTypes, NetAssumption DEF Channels, NetAssumption
<1>2. NoSearch \in Searches /\ NoSearch.at = 0
  BY DEF NoSearch, Searches
<1>3. TypeOK'
  <2>1. CASE held[s] + 1 = hello[s].count
    BY <1>1, <1>2, <2>1 DEF TypeOK, Win, Go, Look, Places
  <2>2. CASE held[s] + 1 # hello[s].count
    BY <1>1, <2>2 DEF TypeOK, Win
  <2> QED BY <2>1, <2>2
<1>4. Shape'
  BY <1>1, <1>2, NetAssumption DEF TypeOK, Shape, Win, Go, Look, Places, NetAssumption
<1> QED BY <1>3, <1>4

\* one that does not,
LEMMA LoseTypes ==
  ASSUME TypeOK, Shape, NEW s \in Senders, Lose(s)
  PROVE TypeOK' /\ Shape'
<1>1. TypeOK'
  BY DEF TypeOK, Lose, Go, Shared, Places
<1>2. Shape'
  BY DEF TypeOK, Shape, Lose, Go, Shared, Places
<1> QED BY <1>1, <1>2

\* its rollback,
LEMMA UndoTypes ==
  ASSUME TypeOK, Shape, NEW s \in Senders, Undo(s)
  PROVE TypeOK' /\ Shape'
<1>1. /\ run[s] \in Channels /\ run[s] \in Nat /\ held[s] \in Nat /\ held[s] > 0
  BY NetAssumption DEF TypeOK, Shape, Undo, Channels, NetAssumption
<1>2. TypeOK'
  BY <1>1 DEF TypeOK, Undo, Places
<1>3. Shape'
  BY <1>1, NetAssumption DEF TypeOK, Shape, Undo, Places, NetAssumption
<1> QED BY <1>2, <1>3

\* and its return to its caller;
LEMMA UndoneTypes ==
  ASSUME TypeOK, Shape, NEW s \in Senders, Undone(s)
  PROVE TypeOK' /\ Shape'
<1>1. search[s].next \in {"wait", "refused", "home", "spare"}
  BY DEF TypeOK, Shape, Undone, Searches
<1>2. search[s].next = "home" => search[s].at <= Total
  BY DEF TypeOK, Undone
<1>3. TypeOK'
  BY <1>1, <1>2 DEF TypeOK, Undone, Go, Shared, Places
<1>4. Shape'
  BY <1>1 DEF TypeOK, Shape, Undone, Go, Shared, Places
<1> QED BY <1>3, <1>4

\* a record written by took(),
LEMMA TookTypes ==
  ASSUME TypeOK, Shape, NEW s \in Senders, Took(s)
  PROVE TypeOK' /\ Shape'
<1> DEFINE h == hello[s]
           i == search[s].at
           c == run[s] + i
           m == [ip |-> h.ip, mac |-> h.mac, stream |-> h.stream, base |-> run[s], count |-> h.count,
                 instance |-> h.instance, fd |-> IF h.socket THEN s ELSE NoFd,
                 released |-> memory[c].released]
           f == IF i + 1 = h.count THEN NoSearch ELSE [search[s] EXCEPT !.at = i + 1]
<1>1. /\ pc[s] = "took" /\ held[s] = h.count /\ i < h.count /\ run[s] + held[s] <= Total
  BY SenderTypes DEF Took, Shape
<1>2. /\ h \in Hellos /\ h.count \in Nat \ {0} /\ i \in Nat /\ run[s] \in Nat /\ search[s] \in Searches
      /\ run[s] \in Channels /\ c \in Channels /\ memory[c].released \in Nat
  <2>1. /\ h \in Hellos /\ h.count \in Nat \ {0} /\ i \in Nat /\ run[s] \in Nat
        /\ search[s] \in Searches
    BY <1>1, SenderTypes
  <2>2. run[s] < Total /\ c < Total /\ c \in Nat
    BY <2>1, <1>1, NetAssumption DEF NetAssumption
  <2> QED BY <2>1, <2>2, ChannelTypes
<1>3. m \in Memories
  BY <1>2, HelloFields DEF Memories
<1>4. /\ f \in Searches
      /\ i + 1 # h.count => f.at = i + 1
  BY <1>2 DEF NoSearch, Searches
<1>5. /\ memory' = [memory EXCEPT ![c] = m]
      /\ search' = [search EXCEPT ![s] = f]
      /\ pc' = [pc EXCEPT ![s] = IF i + 1 = h.count THEN "held" ELSE "took"]
      /\ UNCHANGED <<claimed, displaced, releases, cut, wiping, hello, run, held, connects>>
  BY DEF Took, Go, Look
<1> HIDE DEF m, f, i, c, h
<1>6. TypeOK'
  <2>1. CASE i + 1 = h.count
    BY <1>1, <1>2, <1>3, <1>4, <1>5, <2>1 DEF TypeOK, Places
  <2>2. CASE i + 1 # h.count
    BY <1>1, <1>2, <1>3, <1>4, <1>5, <2>2 DEF TypeOK, Places
  <2> QED BY <2>1, <2>2
<1>7. Shape'
  BY <1>1, <1>2, <1>4, <1>5 DEF TypeOK, Shape, Places, h
<1> QED BY <1>6, <1>7

\* a round of the takeover's wait,
LEMMA WaitTypes ==
  ASSUME TypeOK, Shape, NEW s \in Senders, Wait(s)
  PROVE TypeOK' /\ Shape'
<1> DEFINE found == search[s]
           again == [found EXCEPT !.tries = @ + 1]
           from0 == [found EXCEPT !.at = 0]
           again0 == [again EXCEPT !.at = 0]
<1>1. /\ pc[s] = "wait" /\ held[s] = 0 /\ hello[s] \in Hellos /\ found \in Searches
      /\ found.back \in Nat \cup {-1} /\ UNCHANGED <<Shared, hello, held, connects>>
  BY SenderTypes DEF Wait, Shape, Places
<1>2. again \in Searches /\ from0 \in Searches /\ again0 \in Searches /\ from0.at = 0 /\ again0.at = 0
  <2>1. again \in Searches /\ from0 \in Searches /\ from0.at = 0
    BY <1>1 DEF Searches
  <2> HIDE DEF again
  <2> QED BY <2>1 DEF Searches
<1>3. \/ Go(s, "place") /\ Look(s, from0) /\ UNCHANGED run
      \/ found.back >= 0 /\ Try(s, found.back, "wait", again)
      \/ Go(s, "gone?") /\ Look(s, again0) /\ UNCHANGED run
  <2>1. found.tries \in Nat /\ Tries \in Nat
    BY <1>1, NetAssumption DEF Searches, NetAssumption
  <2>2. CASE found.tries >= Tries
    BY <2>1, <2>2 DEF Wait
  <2>3. CASE found.tries < Tries /\ found.back >= 0
    BY <2>1, <2>3 DEF Wait
  <2>4. CASE found.tries < Tries /\ found.back < 0
    BY <2>1, <2>4 DEF Wait
  <2> QED BY <1>1, <2>1, <2>2, <2>3, <2>4
<1>4. CASE Go(s, "place") /\ Look(s, from0) /\ UNCHANGED run
  <2> HIDE DEF from0
  <2>1. TypeOK'
    BY <1>1, <1>2, <1>4 DEF TypeOK, Go, Look, Shared, Places
  <2>2. Shape'
    BY <1>1, <1>2, <1>4 DEF TypeOK, Shape, Go, Look, Shared, Places
  <2> QED BY <2>1, <2>2
<1>5. CASE found.back >= 0 /\ Try(s, found.back, "wait", again)
  <2>1. found.back \in Nat
    BY <1>1, <1>5
  <2> HIDE DEF again
  <2> QED BY <1>1, <1>2, <1>5, <2>1, TryTypes
<1>6. CASE Go(s, "gone?") /\ Look(s, again0) /\ UNCHANGED run
  <2> HIDE DEF again0
  <2>1. TypeOK'
    BY <1>1, <1>2, <1>6, NetAssumption DEF TypeOK, Go, Look, Shared, Places, NetAssumption
  <2>2. Shape'
    BY <1>1, <1>2, <1>6 DEF TypeOK, Shape, Go, Look, Shared, Places
  <2> QED BY <2>1, <2>2
<1> QED BY <1>3, <1>4, <1>5, <1>6

\* one look of let_go(),
LEMMA LetGoTypes ==
  ASSUME TypeOK, Shape, NEW s \in Senders, LetGo(s)
  PROVE TypeOK' /\ Shape'
<1> DEFINE found == search[s]
           next == IF found.at + 1 = Total THEN 0 ELSE found.at + 1
           f == [found EXCEPT !.at = IF found.at + 1 = Total THEN 0 ELSE found.at + 1]
<1>1. /\ pc[s] = "gone?" /\ held[s] = 0 /\ hello[s] \in Hellos /\ found \in Searches
      /\ found.at \in Nat /\ found.at < Total /\ UNCHANGED <<Shared, hello, run, held, connects>>
  BY SenderTypes DEF LetGo, Shape, TypeOK, Places
<1>2. next \in Nat /\ next < Total
  BY <1>1, NetAssumption DEF NetAssumption
<1>3. f \in Searches /\ f.at = next
  BY <1>1, <1>2 DEF Searches
<1>4. \/ Go(s, "wait") /\ UNCHANGED search
      \/ Go(s, "place") /\ Look(s, f)
      \/ Go(s, "gone?") /\ Look(s, f)
  BY DEF LetGo
<1> HIDE DEF f, next
<1>5. TypeOK'
  BY <1>1, <1>2, <1>3, <1>4 DEF TypeOK, Go, Look, Shared, Places
<1>6. Shape'
  BY <1>1, <1>2, <1>3, <1>4 DEF TypeOK, Shape, Go, Look, Shared, Places
<1> QED BY <1>5, <1>6

\* the choice between the pin and the search,
LEMMA PlaceTypes ==
  ASSUME TypeOK, Shape, NEW s \in Senders, Place(s)
  PROVE TypeOK' /\ Shape'
<1> DEFINE f == [search[s] EXCEPT !.at = 0]
<1>1. /\ pc[s] = "place" /\ held[s] = 0 /\ hello[s] \in Hellos /\ hello[s].want \in Nat
      /\ search[s] \in Searches /\ UNCHANGED <<Shared, hello, held, connects>>
  BY SenderTypes DEF Place, Shape, Places
<1>2. f \in Searches /\ f.at = 0
  BY <1>1 DEF Searches
<1>3. \/ Try(s, hello[s].want, "refused", search[s])
      \/ Go(s, "home") /\ Look(s, f) /\ UNCHANGED run
  BY DEF Place
<1>4. CASE Try(s, hello[s].want, "refused", search[s])
  BY <1>1, <1>4, TryTypes
<1>5. CASE Go(s, "home") /\ Look(s, f) /\ UNCHANGED run
  <2> HIDE DEF f
  <2>1. TypeOK'
    BY <1>1, <1>2, <1>5, NetAssumption DEF TypeOK, Go, Look, Shared, Places, NetAssumption
  <2>2. Shape'
    BY <1>1, <1>2, <1>5 DEF TypeOK, Shape, Go, Look, Shared, Places
  <2> QED BY <2>1, <2>2
<1> QED BY <1>3, <1>4, <1>5

\* a look at where the stream was last,
LEMMA HomeTypes ==
  ASSUME TypeOK, Shape, NEW s \in Senders, Home(s)
  PROVE TypeOK' /\ Shape'
<1> DEFINE c == search[s].at
           found == [search[s] EXCEPT !.at = c + 1]
           f == [found EXCEPT !.at = 0, !.seen = 0]
<1>1. /\ pc[s] = "home" /\ held[s] = 0 /\ hello[s] \in Hellos /\ c <= Total
      /\ UNCHANGED <<Shared, hello, held, connects>>
  BY DEF Home, Shape, TypeOK, Places
<1>2. search[s] \in Searches /\ c \in Nat /\ hello[s].count \in Nat \ {0}
  BY <1>1, SenderTypes
<1>3. found \in Searches /\ found.at = c + 1 /\ f \in Searches /\ f.at = 0 /\ f.seen = 0
  <2>1. found \in Searches /\ found.at = c + 1
    BY <1>2 DEF Searches
  <2> HIDE DEF found
  <2> QED BY <2>1 DEF Searches
<1>4. \/ c = Total /\ Go(s, "free?") /\ Look(s, f) /\ UNCHANGED run
      \/ c # Total /\ Try(s, c, "home", found)
      \/ c # Total /\ Look(s, found) /\ UNCHANGED <<pc, run>>
  BY DEF Home
<1>5. CASE c = Total /\ Go(s, "free?") /\ Look(s, f) /\ UNCHANGED run
  <2>1. f.seen < hello[s].count
    BY <1>2, <1>3
  <2> HIDE DEF f
  <2>2. TypeOK'
    BY <1>1, <1>2, <1>3, <1>5, <2>1 DEF TypeOK, Go, Look, Shared, Places
  <2>3. Shape'
    BY <1>1, <1>2, <1>3, <1>5 DEF TypeOK, Shape, Go, Look, Shared, Places
  <2> QED BY <2>2, <2>3
<1>6. CASE c # Total /\ Try(s, c, "home", found)
  <2>1. c + 1 <= Total
    BY <1>1, <1>2, <1>6, NetAssumption DEF NetAssumption
  <2> HIDE DEF found
  <2> QED BY <1>1, <1>2, <1>3, <1>6, <2>1, TryTypes
<1>7. CASE c # Total /\ Look(s, found) /\ UNCHANGED <<pc, run>>
  <2>1. c + 1 <= Total
    BY <1>1, <1>2, <1>7, NetAssumption DEF NetAssumption
  <2> HIDE DEF found
  <2>2. TypeOK'
    BY <1>1, <1>2, <1>3, <1>7, <2>1 DEF TypeOK, Look, Shared, Places
  <2>3. Shape'
    BY <1>1, <1>2, <1>3, <1>7 DEF TypeOK, Shape, Look, Shared, Places
  <2> QED BY <2>2, <2>3
<1> QED BY <1>4, <1>5, <1>6, <1>7

\* the next run of the search for a free one begins typed,
LEMMA AnewType ==
  ASSUME NEW f \in Searches, NEW a \in Nat
  PROVE /\ [f EXCEPT !.at = a, !.seen = 0, !.remembered = FALSE, !.released = 0] \in Searches
        /\ [f EXCEPT !.at = a, !.seen = 0, !.remembered = FALSE, !.released = 0].seen = 0
BY DEF Searches

\* The search after one more channel of a run was found free.
More(f, n, k, r) == [f EXCEPT !.seen = n, !.remembered = k, !.released = r]

\* its next channel leaves it typed,
LEMMA MoreType ==
  ASSUME NEW f \in Searches, NEW n \in Nat, NEW k \in BOOLEAN, NEW r \in Nat
  PROVE More(f, n, k, r) \in Searches /\ More(f, n, k, r).seen = n
<1> DEFINE e1 == [f EXCEPT !.seen = n]
           e2 == [e1 EXCEPT !.remembered = k]
           e3 == [e2 EXCEPT !.released = r]
<1>1. e1 \in Searches /\ e1.seen = n
  BY DEF Searches
<1>2. e2 \in Searches /\ e2.seen = n
  <2> HIDE DEF e1
  <2> QED BY <1>1 DEF Searches
<1>3. e3 \in Searches /\ e3.seen = n
  <2> HIDE DEF e2
  <2> QED BY <1>2 DEF Searches
<1>4. e3 = More(f, n, k, r)
  BY DEF More
<1> HIDE DEF e3
<1> QED BY <1>3, <1>4

\* one turn of the search for the free runs, which stays within count(),
LEMMA SpareTypes ==
  ASSUME TypeOK, Shape, NEW s \in Senders, Spare(s)
  PROVE TypeOK' /\ Shape'
<1> DEFINE h == hello[s]
           found == search[s]
           b == found.at
           c == b + found.seen
           m == memory[c]
           anew == [found EXCEPT !.at = b + 1, !.seen = 0, !.remembered = FALSE, !.released = 0]
           known == found.remembered \/ m.ip # NoOne
           last == IF m.released > found.released THEN m.released ELSE found.released
           more == [found EXCEPT !.seen = @ + 1, !.remembered = known, !.released = last]
           one == [base |-> b, remembered |-> known, released |-> last]
           full == [anew EXCEPT !.spare = @ \cup {one}]
<1>1. /\ pc[s] = "free?" /\ held[s] = 0 /\ h \in Hellos /\ found.seen < h.count
      /\ UNCHANGED <<Shared, hello, run, held, connects>>
  BY DEF Spare, Shape, TypeOK, Places
<1>2. /\ found \in Searches /\ b \in Nat /\ found.seen \in Nat /\ h.count \in Nat \ {0}
      /\ found.released \in Nat /\ found.remembered \in BOOLEAN
  BY <1>1, SenderTypes
<1>3. CASE b + h.count > Total
  <2>1. Go(s, "spare") /\ UNCHANGED search
    BY <1>3 DEF Spare
  <2>2. TypeOK'
    BY <1>1, <2>1 DEF TypeOK, Go, Shared, Places
  <2>3. Shape'
    BY <1>1, <2>1 DEF TypeOK, Shape, Go, Shared, Places
  <2> QED BY <2>2, <2>3
<1>4. CASE ~(b + h.count > Total)
  <2>1. c \in Nat /\ c < Total
    BY <1>1, <1>2, <1>4, NetAssumption DEF NetAssumption
  <2>2. claimed[c] \in BOOLEAN /\ m.released \in Nat
    BY <2>1, ChannelTypes
  <2>3. known \in BOOLEAN /\ last \in Nat
    BY <1>2, <2>2
  <2>4. anew \in Searches /\ anew.seen = 0
    <3>1. b + 1 \in Nat
      BY <1>2
    <3> QED BY <1>2, <3>1, AnewType
  <2>5. more \in Searches /\ more.seen = found.seen + 1
    <3> DEFINE n == found.seen + 1
    <3>1. n \in Nat
      BY <1>2
    <3>2. PICK k \in BOOLEAN : k = known
      OBVIOUS
    <3>3. more = More(found, n, k, last)
      BY <3>2 DEF More
    <3> HIDE DEF n, last, more, found
    <3>4. found \in Searches /\ n \in Nat /\ k \in BOOLEAN /\ last \in Nat
      BY <1>2, <2>3, <3>1
    <3>5. More(found, n, k, last) \in Searches /\ More(found, n, k, last).seen = n
      BY <3>4, MoreType
    <3> QED BY <3>3, <3>5 DEF n
  <2>6. full \in Searches /\ full.seen = 0
    <3>1. one \in [base : Nat, remembered : BOOLEAN, released : Nat]
      BY <1>2, <2>3
    <3> HIDE DEF anew, one
    <3> QED BY <2>4, <3>1 DEF Searches
  <2>7. \/ Look(s, anew)
        \/ found.seen + 1 < h.count /\ Look(s, more)
        \/ Look(s, full)
    <3>1. CASE claimed[c]
      BY <1>4, <3>1 DEF Spare
    <3>2. CASE ~claimed[c] /\ found.seen + 1 < h.count
      BY <1>4, <3>2 DEF Spare
    <3>3. CASE ~claimed[c] /\ found.seen + 1 = h.count
      BY <1>2, <1>4, <3>3 DEF Spare
    <3> QED BY <1>1, <1>2, <3>1, <3>2, <3>3
  <2>8. UNCHANGED pc
    BY <1>4 DEF Spare
  <2>9. PICK f \in Searches : Look(s, f) /\ f.seen < h.count
    <3> HIDE DEF anew, more, full
    <3> QED BY <1>2, <2>4, <2>5, <2>6, <2>7
  <2>10. TypeOK'
    BY <1>1, <2>8, <2>9 DEF TypeOK, Look, Shared, Places
  <2>11. Shape'
    BY <1>1, <2>8, <2>9 DEF TypeOK, Shape, Look, Shared, Places
  <2> QED BY <2>10, <2>11
<1> QED BY <1>3, <1>4

\* a try of the best of them,
LEMMA TrySpareTypes ==
  ASSUME TypeOK, Shape, NEW s \in Senders, TrySpare(s)
  PROVE TypeOK' /\ Shape'
<1> DEFINE found == search[s]
           rest(best) == [found EXCEPT !.spare = @ \ {best}]
<1>1. /\ pc[s] = "spare" /\ held[s] = 0 /\ hello[s] \in Hellos /\ found \in Searches
      /\ UNCHANGED <<Shared, hello, held, connects>>
  BY SenderTypes DEF TrySpare, Shape, Places
<1>2. CASE found.spare = {}
  <2>1. Go(s, "refused") /\ UNCHANGED <<run, search>>
    BY <1>2 DEF TrySpare
  <2>2. TypeOK'
    BY <1>1, <2>1 DEF TypeOK, Go, Shared, Places
  <2>3. Shape'
    BY <1>1, <2>1 DEF TypeOK, Shape, Go, Shared, Places
  <2> QED BY <2>2, <2>3
<1>3. CASE found.spare # {}
  <2>1. PICK best \in found.spare : Try(s, best.base, "spare", rest(best))
    BY <1>3 DEF TrySpare
  <2>2. /\ found.spare \in SUBSET [base : Nat, remembered : BOOLEAN, released : Nat]
        /\ found.spare \ {best} \in SUBSET [base : Nat, remembered : BOOLEAN, released : Nat]
    BY <1>1 DEF Searches
  <2>3. best.base \in Nat
    BY <2>2
  <2>4. rest(best) \in Searches
    BY <1>1, <2>2 DEF Searches
  <2> HIDE DEF rest
  <2> QED BY <1>1, <2>1, <2>3, <2>4, TryTypes
<1> QED BY <1>2, <1>3

\* the end of a session,
LEMMA LeaveTypes ==
  ASSUME TypeOK, Shape, NEW s \in Senders, Leave(s)
  PROVE TypeOK' /\ Shape'
<1>1. pc[s] = "held" /\ held[s] = hello[s].count /\ hello[s].count \in Nat \ {0}
  BY SenderTypes DEF Leave, Shape
<1>2. TypeOK'
  BY DEF TypeOK, Leave, Go, Shared, Places
<1>3. Shape'
  BY <1>1 DEF TypeOK, Shape, Leave, Go, Shared, Places
<1> QED BY <1>2, <1>3

\* a record whose holder_fd release_channels() cleared is a record,
LEMMA FreedRecord ==
  ASSUME NEW m \in Memories, NEW x \in Nat
  PROVE /\ [m EXCEPT !.fd = NoFd, !.released = x] \in Memories
        /\ [m EXCEPT !.fd = NoFd, !.released = x].fd = NoFd
BY DEF Memories

\* its first half, which writes that one record,
LEMMA ReleaseTypes ==
  ASSUME TypeOK, Shape, NEW s \in Senders, ReleaseRecord(s)
  PROVE /\ TypeOK' /\ Shape'
        /\ memory'[run[s]].fd = NoFd
        /\ \A c \in Channels \ {run[s]} : memory'[c] = memory[c]
<1>1. pc[s] = "release" /\ held[s] > 0 /\ run[s] + held[s] <= Total
  BY DEF ReleaseRecord, Shape
<1>2. run[s] \in Nat /\ held[s] \in Nat /\ run[s] < Total /\ Total \in Nat
  BY <1>1, SenderTypes, NetAssumption DEF NetAssumption
<1>3. run[s] \in Channels /\ memory[run[s]] \in Memories
  BY <1>2, ChannelTypes
<1>4. releases + 1 \in Nat
  BY DEF TypeOK
<1> DEFINE m == [memory[run[s]] EXCEPT !.fd = NoFd, !.released = releases + 1]
<1>5. m \in Memories /\ m.fd = NoFd
  BY <1>3, <1>4, FreedRecord
<1>6. memory' = [memory EXCEPT ![run[s]] = m]
  BY DEF ReleaseRecord
<1> HIDE DEF m
<1>7. TypeOK'
  <2>1. /\ releases' = releases + 1 /\ pc' = [pc EXCEPT ![s] = "unclaim"]
        /\ UNCHANGED <<claimed, displaced, cut, wiping, hello, run, held, search, connects>>
    BY DEF ReleaseRecord, Go
  <2> QED BY <1>1, <1>3, <1>4, <1>5, <1>6, <2>1 DEF TypeOK, Places
<1>8. Shape'
  BY <1>1 DEF TypeOK, Shape, ReleaseRecord, Go, Places
<1> QED BY <1>3, <1>5, <1>6, <1>7, <1>8 DEF TypeOK

\* its second half,
LEMMA UnclaimTypes ==
  ASSUME TypeOK, Shape, NEW s \in Senders, Unclaim(s)
  PROVE TypeOK' /\ Shape'
<1>1. pc[s] = "unclaim" /\ held[s] > 0 /\ run[s] + held[s] <= Total
  BY DEF Unclaim, Shape
<1>2. run[s] \in Nat /\ held[s] \in Nat /\ run[s] < Total /\ Total \in Nat
  BY <1>1, SenderTypes, NetAssumption DEF NetAssumption
<1>3. run[s] \in Channels
  BY <1>2, ChannelTypes
<1>4. TypeOK'
  BY <1>1, <1>2, <1>3 DEF TypeOK, Unclaim, Go, Places
<1>5. Shape'
  BY <1>1, <1>2 DEF TypeOK, Shape, Unclaim, Go, Places
<1> QED BY <1>4, <1>5

\* the close of the socket,
LEMMA CloseTypes ==
  ASSUME TypeOK, Shape, NEW s \in Senders, Close(s)
  PROVE TypeOK' /\ Shape'
<1>1. NoSearch \in Searches
  BY DEF NoSearch, Searches
<1>2. TypeOK'
  BY <1>1 DEF TypeOK, Close, Go, Look, Places
<1>3. Shape'
  BY <1>1 DEF TypeOK, Shape, Close, Go, Look, Places
<1> QED BY <1>2, <1>3

----------------------------------------------------------------------------
(* What the threads share about the channels.                              *)

\* and the three steps of forget_channel().
LEMMA ForgetTypes ==
  ASSUME TypeOK, Shape, NEW c \in Channels,
         ForgetClaim(c) \/ ForgetRecord(c) \/ ForgetEnd(c)
  PROVE TypeOK' /\ Shape'
<1>1. Shape'
  BY DEF Shape, ForgetClaim, ForgetRecord, ForgetEnd
<1>2. CASE ForgetClaim(c)
  <2>1. claimed' \in [Channels -> BOOLEAN]
    BY <1>2 DEF TypeOK, ForgetClaim
  <2>2. wiping' \in [Channels -> {"no", "claimed", "cleared"}]
    BY <1>2 DEF TypeOK, ForgetClaim
  <2> QED BY <1>1, <1>2, <2>1, <2>2 DEF TypeOK, ForgetClaim
<1>3. CASE ForgetRecord(c)
  <2> DEFINE m == [Unused EXCEPT !.fd = memory[c].fd, !.released = memory[c].released]
  <2>1. memory[c].fd \in Senders \cup {NoFd} /\ memory[c].released \in Nat
    BY DEF TypeOK, Memories
  <2>2. m \in Memories
    <3>1. Unused \in Memories
      BY NetAssumption DEF Unused, Memories, Channels, NetAssumption
    <3> QED BY <2>1, <3>1 DEF Memories
  <2>3. memory' = [memory EXCEPT ![c] = m]
    BY <1>3 DEF ForgetRecord
  <2> HIDE DEF m
  <2> QED BY <1>1, <1>3, <2>2, <2>3 DEF TypeOK, ForgetRecord
<1>4. CASE ForgetEnd(c)
  BY <1>1, <1>4 DEF TypeOK, ForgetEnd
<1> QED BY <1>1, <1>2, <1>3, <1>4
\* What a thread holds are channels, and it is empty or begins at run[s].
LEMMA HoldsFacts ==
  ASSUME TypeOK, Shape, NEW s \in Senders
  PROVE /\ Holds(s) \subseteq Channels
        /\ \A c \in Int : c \in Holds(s) <=> run[s] <= c /\ c < run[s] + held[s]
        /\ held[s] = 0 => Holds(s) = {}
        /\ held[s] > 0 => run[s] \in Holds(s)
<1>1. /\ run[s] \in Nat /\ held[s] \in Nat /\ Total \in Nat
      /\ held[s] > 0 => run[s] + held[s] <= Total
  BY NetAssumption DEF TypeOK, Shape, NetAssumption
<1> QED BY <1>1 DEF Holds, Run, Channels

\* A thread that neither sets a flag nor writes a record, and is in no session,
\* leaves what the threads share about the channels as it is.
LEMMA LocalStep ==
  ASSUME Inv, TypeOK', NEW s \in Senders,
         pc[s] \notin Owning, pc'[s] \notin Owning,
         run'[s] = run[s] \/ held[s] = 0,
         UNCHANGED <<claimed, memory, wiping, held>>,
         \A t \in Senders \ {s} :
           pc'[t] = pc[t] /\ hello'[t] = hello[t] /\ run'[t] = run[t] /\ search'[t] = search[t]
  PROVE /\ EveryClaimHasOneOwner' /\ HolderIsLive' /\ Forgotten'
        /\ Written' /\ RunRemembersItsHolder'
<1>1. \A t \in Senders : Holds(t)' = Holds(t)
  <2>1. run'[s] \in Nat /\ run[s] \in Nat
    BY DEF Inv, TypeOK
  <2> QED BY <2>1 DEF Holds, Run
<1>2. EveryClaimHasOneOwner'
  BY <1>1 DEF Inv, EveryClaimHasOneOwner
<1>3. HolderIsLive'
  <2>1. \A c \in Channels : memory[c].fd \in Senders \cup {NoFd}
    BY DEF Inv, TypeOK, Memories
  <2>2. ASSUME NEW c \in Channels, NEW t \in Senders, memory[c].fd = t
        PROVE t # s /\ c \in Holds(t) /\ hello[t].socket /\ pc[t] \in Owning /\ IsOf(memory[c], hello[t])
    BY <2>2, NetAssumption DEF Inv, HolderIsLive, Owning, NetAssumption
  <2> QED BY <1>1, <2>1, <2>2 DEF HolderIsLive, Owning
<1>4. Forgotten'
  BY DEF Inv, Forgotten, Owning
<1>5. Written' /\ RunRemembersItsHolder'
  BY DEF Inv, Written, RunRemembersItsHolder, Remembers, Owning
<1> QED BY <1>2, <1>3, <1>4, <1>5

\* A flag that was clear and is set by one thread has that one owner.
LEMMA ClaimGained ==
  ASSUME EveryClaimHasOneOwner, claimed \in [Channels -> BOOLEAN],
         NEW s \in Senders, NEW c \in Channels, ~claimed[c],
         claimed' = [claimed EXCEPT ![c] = TRUE], wiping' = wiping,
         Holds(s)' = Holds(s) \cup {c},
         \A t \in Senders \ {s} : Holds(t)' = Holds(t)
  PROVE EveryClaimHasOneOwner'
<1>1. wiping[c] = "no" /\ \A t \in Senders : c \notin Holds(t)
  BY DEF EveryClaimHasOneOwner
<1>2. \A d \in Channels : claimed'[d] <=> (wiping'[d] # "no" \/ \E t \in Senders : d \in Holds(t)')
  BY <1>1 DEF EveryClaimHasOneOwner
<1>3. \A t \in Senders : \A d \in Holds(t)' :
         d \in Channels /\ wiping'[d] = "no" /\ \A u \in Senders \ {t} : d \notin Holds(u)'
  BY <1>1 DEF EveryClaimHasOneOwner
<1> QED BY <1>2, <1>3 DEF EveryClaimHasOneOwner

\* A flag cleared by its owner has none.
LEMMA ClaimDropped ==
  ASSUME EveryClaimHasOneOwner, claimed \in [Channels -> BOOLEAN],
         NEW s \in Senders, NEW c \in Holds(s),
         claimed' = [claimed EXCEPT ![c] = FALSE], wiping' = wiping,
         Holds(s)' = Holds(s) \ {c},
         \A t \in Senders \ {s} : Holds(t)' = Holds(t)
  PROVE EveryClaimHasOneOwner'
<1>1. c \in Channels /\ wiping[c] = "no" /\ \A t \in Senders \ {s} : c \notin Holds(t)
  BY DEF EveryClaimHasOneOwner
<1>2. \A d \in Channels : claimed'[d] <=> (wiping'[d] # "no" \/ \E t \in Senders : d \in Holds(t)')
  BY <1>1 DEF EveryClaimHasOneOwner
<1>3. \A t \in Senders : \A d \in Holds(t)' :
         d \in Channels /\ wiping'[d] = "no" /\ \A u \in Senders \ {t} : d \notin Holds(u)'
  BY <1>1 DEF EveryClaimHasOneOwner
<1> QED BY <1>2, <1>3 DEF EveryClaimHasOneOwner
\* The conjuncts of Inv about what the threads share.
Sharing ==
  /\ EveryClaimHasOneOwner /\ HolderIsLive /\ Forgotten
  /\ Written /\ RunRemembersItsHolder

\* HolderIsLive, said of one channel.
LEMMA HolderFacts ==
  ASSUME Inv, NEW c \in Channels
  PROVE /\ memory[c].fd \in Senders \cup {NoFd}
        /\ \A t \in Senders : memory[c].fd = t =>
             /\ c \in Holds(t) /\ hello[t].socket /\ pc[t] \in Owning
             /\ IsOf(memory[c], hello[t])
<1>1. memory[c].fd \in Senders \cup {NoFd}
  BY DEF Inv, TypeOK, Memories
<1> QED BY <1>1, NetAssumption DEF Inv, HolderIsLive, Owning, NetAssumption

\* The records a session is bound to are those of channels it holds.
LEMMA SessionRuns ==
  ASSUME Inv, NEW t \in Senders
  PROVE /\ pc[t] = "took" => Run(run[t], search[t].at) \subseteq Holds(t)
        /\ pc[t] = "held" => Run(run[t], hello[t].count) \subseteq Holds(t)
<1>1. CASE pc[t] = "took"
  <2>1. /\ search[t].at \in Nat /\ held[t] \in Nat /\ run[t] \in Nat
        /\ search[t].at < held[t]
    BY <1>1, SenderTypes DEF Inv, Shape
  <2> QED BY <1>1, <2>1 DEF Holds, Run
<1>2. CASE pc[t] = "held"
  BY <1>2 DEF Inv, Shape, Holds
<1> QED BY <1>1, <1>2

\* A record written on a channel somebody else may hold is none of those.
LEMMA RecordsElsewhere ==
  ASSUME Inv, NEW c \in Channels, NEW t \in Senders, c \notin Holds(t),
         \A d \in Channels \ {c} : memory'[d] = memory[d],
         pc'[t] = pc[t], hello'[t] = hello[t], run'[t] = run[t], search'[t] = search[t]
  PROVE /\ pc'[t] = "took" => \A d \in Run(run'[t], search'[t].at) : Remembers(d, t)'
        /\ pc'[t] = "held" => \A d \in Run(run'[t], hello'[t].count) : Remembers(d, t)'
<1>1. Holds(t) \subseteq Channels
  BY HoldsFacts DEF Inv
<1>2. \A d \in Holds(t) : Remembers(d, t)' <=> Remembers(d, t)
  BY <1>1 DEF Remembers
<1> QED BY <1>2, SessionRuns DEF Inv, Written, RunRemembersItsHolder

\* Taking a channel's flag in try_run() keeps the shared invariants:
\* nobody else had it, and no record names the taker yet.
LEMMA WinShares ==
  ASSUME Inv, TypeOK', NEW s \in Senders, Win(s)
  PROVE Sharing'
<1> DEFINE c == run[s] + held[s]
<1>1. /\ pc[s] = "try" /\ run[s] \in Nat /\ held[s] \in Nat /\ c \in Channels
      /\ held[s] < hello[s].count
  <2>1. pc[s] = "try" /\ held[s] < hello[s].count /\ run[s] + hello[s].count <= Total
    BY DEF Win, Inv, Shape
  <2> QED BY <2>1, SenderTypes, NetAssumption DEF Inv, Channels, NetAssumption
<1>2. /\ Holds(s)' = Holds(s) \cup {c}
      /\ \A t \in Senders \ {s} : Holds(t)' = Holds(t)
  <2>1. held' = [held EXCEPT ![s] = held[s] + 1] /\ run' = run
    BY DEF Win
  <2>2. held'[s] = held[s] + 1 /\ \A t \in Senders \ {s} : held'[t] = held[t]
    BY <2>1 DEF Inv, TypeOK
  <2> QED BY <1>1, <2>1, <2>2 DEF Holds, Run
<1>3. EveryClaimHasOneOwner'
  <2>1. ~claimed[c] /\ claimed' = [claimed EXCEPT ![c] = TRUE] /\ wiping' = wiping
    BY DEF Win
  <2> HIDE DEF c
  <2> QED BY <1>1, <1>2, <2>1, ClaimGained DEF Inv, TypeOK
<1>4. /\ \A t \in Senders \ {s} : pc'[t] = pc[t] /\ search'[t] = search[t]
      /\ pc'[s] \in {"try", "took"}
      /\ pc'[s] = "took" => search'[s].at = 0
      /\ UNCHANGED <<memory, hello, run>>
  BY <1>1 DEF Win, Go, Look, NoSearch, Inv, TypeOK
<1>5. HolderIsLive'
  <2>1. \A d \in Channels : memory[d].fd # s
    BY <1>1, HolderFacts DEF Owning
  <2> QED BY <1>2, <1>4, <2>1, HolderFacts DEF HolderIsLive, Owning
<1>6. Forgotten'
  BY <1>4 DEF Inv, Forgotten
<1>7. Written'
  <2>1. Run(run[s], 0) = {}
    BY <1>1 DEF Run
  <2> QED BY <1>4, <2>1 DEF Inv, Written, Remembers
<1>8. RunRemembersItsHolder'
  BY <1>4 DEF Inv, RunRemembersItsHolder, Remembers
<1> QED BY <1>3, <1>5, <1>6, <1>7, <1>8 DEF Sharing

\* So does the rollback: only what was won is given back,
LEMMA UndoShares ==
  ASSUME Inv, TypeOK', NEW s \in Senders, Undo(s)
  PROVE Sharing'
<1>1. pc[s] = "undo" /\ run[s] \in Nat /\ held[s] \in Nat /\ held[s] > 0
  BY DEF Undo, Inv, TypeOK
<1>2. /\ run[s] \in Holds(s)
      /\ Holds(s)' = Holds(s) \ {run[s]}
      /\ \A t \in Senders \ {s} : Holds(t)' = Holds(t)
  <2>1. /\ held' = [held EXCEPT ![s] = held[s] - 1]
        /\ run' = [run EXCEPT ![s] = run[s] + 1]
    BY DEF Undo
  <2>2. /\ held'[s] = held[s] - 1 /\ run'[s] = run[s] + 1
        /\ \A t \in Senders \ {s} : held'[t] = held[t] /\ run'[t] = run[t]
    BY <2>1 DEF Inv, TypeOK
  <2> QED BY <1>1, <2>2 DEF Holds, Run
<1>3. EveryClaimHasOneOwner'
  <2>1. claimed' = [claimed EXCEPT ![run[s]] = FALSE] /\ wiping' = wiping
    BY DEF Undo
  <2> QED BY <1>2, <2>1, ClaimDropped DEF Inv, TypeOK
<1>4. /\ \A t \in Senders \ {s} : run'[t] = run[t]
      /\ UNCHANGED <<pc, memory, hello, search>>
  BY DEF Undo, Inv, TypeOK
<1>5. HolderIsLive'
  <2>1. \A d \in Channels : memory[d].fd # s
    BY <1>1, HolderFacts DEF Owning
  <2> QED BY <1>2, <1>4, <2>1, HolderFacts DEF HolderIsLive, Owning
<1>6. Forgotten'
  BY <1>1, <1>4 DEF Inv, Forgotten
<1>7. Written' /\ RunRemembersItsHolder'
  BY <1>1, <1>4 DEF Inv, Written, RunRemembersItsHolder, Remembers
<1> QED BY <1>3, <1>5, <1>6, <1>7 DEF Sharing
\* (HolderIsLive after a step, from what the step does to each record)
LEMMA HolderIsLiveNext ==
  ASSUME \A d \in Channels : memory'[d].fd \in Senders \cup {NoFd},
         \A d \in Channels : \A t \in Senders : memory'[d].fd = t =>
            d \in Holds(t)' /\ hello'[t].socket /\ pc'[t] \in Owning /\ IsOf(memory'[d], hello'[t])
  PROVE HolderIsLive'
BY NetAssumption DEF HolderIsLive, Owning, NetAssumption

\* and took(): it writes only on channels its own thread holds.
LEMMA TookShares ==
  ASSUME Inv, TypeOK', NEW s \in Senders, Took(s)
  PROVE Sharing'
<1> DEFINE h == hello[s]
           i == search[s].at
           c == run[s] + i
<1>1. /\ pc[s] = "took" /\ run[s] \in Nat /\ i \in Nat /\ i < h.count /\ held[s] = h.count
      /\ h.count \in Nat \ {0} /\ c \in Holds(s) /\ c \in Channels
  <2>1. pc[s] = "took" /\ i < h.count /\ held[s] = h.count
    BY DEF Took, Inv, Shape
  <2>2. run[s] \in Nat /\ i \in Nat /\ h.count \in Nat \ {0}
    BY <2>1, SenderTypes DEF Inv
  <2>3. c \in Holds(s)
    BY <2>1, <2>2 DEF Holds, Run
  <2> QED BY <2>1, <2>2, <2>3, HoldsFacts DEF Inv
<1>2. /\ \A t \in Senders \ {s} : pc'[t] = pc[t] /\ search'[t] = search[t]
      /\ pc'[s] = (IF i + 1 = h.count THEN "held" ELSE "took")
      /\ i + 1 # h.count => search'[s].at = i + 1
      /\ UNCHANGED <<claimed, wiping, hello, run, held>>
  <2>1. /\ pc' = [pc EXCEPT ![s] = IF i + 1 = h.count THEN "held" ELSE "took"]
        /\ search' = [search EXCEPT ![s] = IF i + 1 = h.count THEN NoSearch
                                           ELSE [search[s] EXCEPT !.at = i + 1]]
        /\ UNCHANGED <<claimed, wiping, hello, run, held>>
    BY DEF Took, Go, Look
  <2>2. search[s] \in Searches
    BY <1>1, SenderTypes DEF Inv
  <2>3. [search[s] EXCEPT !.at = i + 1].at = i + 1
    BY <2>2 DEF Searches
  <2> QED BY <2>1, <2>3 DEF Inv, TypeOK
<1>3. /\ \A d \in Channels \ {c} : memory'[d] = memory[d]
      /\ memory'[c] = [ip |-> h.ip, mac |-> h.mac, stream |-> h.stream, base |-> run[s],
                       count |-> h.count, instance |-> h.instance,
                       fd |-> IF h.socket THEN s ELSE NoFd, released |-> memory[c].released]
  BY <1>1 DEF Took, Inv, TypeOK
<1>4. memory'[c].fd = (IF h.socket THEN s ELSE NoFd)
  BY <1>3
<1>5. ASSUME NEW d \in Channels, d = c
      PROVE Remembers(d, s)'
  <2>1. /\ memory'[c].ip = h.ip /\ memory'[c].mac = h.mac /\ memory'[c].stream = h.stream
        /\ memory'[c].instance = h.instance /\ memory'[c].base = run[s]
        /\ memory'[c].count = h.count /\ memory'[c].fd = (IF h.socket THEN s ELSE NoFd)
    <3> HIDE DEF h, c
    <3> QED BY <1>3
  <2> QED BY <1>2, <1>5, <2>1 DEF Remembers, IsOf
<1> HIDE DEF c, h, i
<1>6. \A t \in Senders : Holds(t)' = Holds(t)
  BY <1>2 DEF Holds
<1>7. \A t \in Senders \ {s} : c \notin Holds(t)
  BY <1>1 DEF Inv, EveryClaimHasOneOwner
<1>8. EveryClaimHasOneOwner'
  BY <1>2, <1>6 DEF Inv, EveryClaimHasOneOwner
<1>9. HolderIsLive'
  <2>1. \A d \in Channels : memory'[d].fd \in Senders \cup {NoFd}
    BY DEF TypeOK, Memories
  <2>2. ASSUME NEW d \in Channels, NEW t \in Senders, memory'[d].fd = t
        PROVE d \in Holds(t)' /\ hello'[t].socket /\ pc'[t] \in Owning /\ IsOf(memory'[d], hello'[t])
    <3>1. CASE d = c
      <4>1. t = s /\ h.socket
        BY <1>4, <2>2, <3>1, NetAssumption DEF NetAssumption
      <4>2. pc'[s] \in Owning
        BY <1>2 DEF Owning
      <4>3. IsOf(memory'[d], hello'[s])
        BY <1>2, <1>5, <3>1 DEF Remembers
      <4> QED BY <1>1, <1>2, <1>6, <3>1, <4>1, <4>2, <4>3 DEF h
    <3>2. CASE d # c
      <4>1. memory[d].fd = t
        BY <1>3, <2>2, <3>2
      <4>2. d \in Holds(t) /\ hello[t].socket /\ pc[t] \in Owning /\ IsOf(memory[d], hello[t])
        BY <4>1, HolderFacts
      <4>3. pc'[t] \in Owning
        BY <1>2, <4>2 DEF Owning
      <4>4. memory'[d] = memory[d]
        BY <1>3, <3>2
      <4> QED BY <1>2, <1>6, <4>2, <4>3, <4>4
    <3> QED BY <3>1, <3>2
  <2> QED BY <2>1, <2>2, HolderIsLiveNext
<1>10. Forgotten'
  <2>1. ASSUME NEW t \in Senders, pc'[t] = "unclaim"
        PROVE memory'[run'[t]].fd # t
    <3>1. t # s /\ pc[t] = "unclaim" /\ run'[t] = run[t]
      BY <1>2, <2>1
    <3>2. run[t] \in Channels /\ run[t] # c
      <4>1. run[t] \in Holds(t)
        BY <3>1, HoldsFacts DEF Inv, Shape
      <4> QED BY <1>7, <3>1, <4>1, HoldsFacts DEF Inv
    <3> QED BY <1>3, <3>1, <3>2 DEF Inv, Forgotten
  <2> QED BY <2>1 DEF Forgotten
<1>11. \A t \in Senders \ {s} :
         /\ pc'[t] = "took" => \A d \in Run(run'[t], search'[t].at) : Remembers(d, t)'
         /\ pc'[t] = "held" => \A d \in Run(run'[t], hello'[t].count) : Remembers(d, t)'
  BY <1>1, <1>2, <1>3, <1>7, RecordsElsewhere
<1>12. \A d \in Run(run[s], i + 1) : Remembers(d, s)'
  <2>1. ASSUME NEW d \in Run(run[s], i + 1), d # c
        PROVE Remembers(d, s)'
    <3>1. d \in Run(run[s], i)
      BY <1>1, <2>1 DEF Run, c
    <3>2. Remembers(d, s)
      BY <1>1, <3>1 DEF Inv, Written, i
    <3>3. d \in Channels
      BY <1>1, <3>1, SessionRuns, HoldsFacts DEF Inv, i
    <3> QED BY <1>2, <1>3, <2>1, <3>2, <3>3 DEF Remembers
  <2>2. ASSUME NEW d \in Run(run[s], i + 1), d = c
        PROVE Remembers(d, s)'
    BY <1>1, <1>5, <2>2
  <2> QED BY <2>1, <2>2
<1>13. Written'
  BY <1>2, <1>11, <1>12 DEF Written
<1>14. RunRemembersItsHolder'
  BY <1>1, <1>2, <1>11, <1>12 DEF RunRemembersItsHolder, h
<1> QED BY <1>8, <1>9, <1>10, <1>13, <1>14 DEF Sharing

\* A session that ends still has its run.
LEMMA LeaveShares ==
  ASSUME Inv, NEW s \in Senders, Leave(s)
  PROVE Sharing'
<1>1. /\ pc[s] = "held" /\ pc' = [pc EXCEPT ![s] = "release"]
      /\ UNCHANGED <<claimed, memory, wiping, hello, run, held, search>>
  BY DEF Leave, Go, Shared
<1>2. /\ pc'[s] = "release"
      /\ \A t \in Senders \ {s} : pc'[t] = pc[t]
  BY <1>1 DEF Inv, TypeOK
<1>3. \A t \in Senders : Holds(t)' = Holds(t)
  BY <1>1 DEF Holds
<1>4. EveryClaimHasOneOwner'
  BY <1>1, <1>3 DEF Inv, EveryClaimHasOneOwner
<1>5. HolderIsLive'
  BY <1>1, <1>2, <1>3, HolderFacts DEF HolderIsLive, Owning
<1>6. Forgotten' /\ Written' /\ RunRemembersItsHolder'
  BY <1>1, <1>2 DEF Inv, Forgotten, Written, RunRemembersItsHolder, Remembers
<1> QED BY <1>4, <1>5, <1>6 DEF Sharing

\* release_channels() takes the socket out of the record first,
LEMMA ReleaseShares ==
  ASSUME Inv, NEW s \in Senders, ReleaseRecord(s)
  PROVE Sharing'
<1>1. /\ pc[s] = "release" /\ pc' = [pc EXCEPT ![s] = "unclaim"]
      /\ UNCHANGED <<claimed, wiping, hello, run, held, search>>
  BY DEF ReleaseRecord, Go
<1>2. /\ pc'[s] = "unclaim"
      /\ \A t \in Senders \ {s} : pc'[t] = pc[t]
  BY <1>1 DEF Inv, TypeOK
<1> DEFINE c == run[s]
<1>3. memory'[c].fd = NoFd /\ \A d \in Channels \ {c} : memory'[d] = memory[d]
  BY ReleaseTypes DEF Inv
<1>4. c \in Holds(s) /\ c \in Channels
  BY <1>1, HoldsFacts DEF Inv, Shape
<1> HIDE DEF c
<1>5. \A t \in Senders : Holds(t)' = Holds(t)
  BY <1>1 DEF Holds
<1>6. \A t \in Senders \ {s} : c \notin Holds(t)
  BY <1>4 DEF Inv, EveryClaimHasOneOwner
<1>7. EveryClaimHasOneOwner'
  BY <1>1, <1>5 DEF Inv, EveryClaimHasOneOwner
<1>8. HolderIsLive'
  <2>1. \A d \in Channels : memory'[d].fd \in Senders \cup {NoFd}
    BY <1>3, HolderFacts
  <2>2. ASSUME NEW d \in Channels, NEW t \in Senders, memory'[d].fd = t
        PROVE d \in Holds(t)' /\ hello'[t].socket /\ pc'[t] \in Owning /\ IsOf(memory'[d], hello'[t])
    <3>1. memory[d].fd = t
      BY <1>3, <2>2, NetAssumption DEF NetAssumption
    <3>2. d \in Holds(t) /\ hello[t].socket /\ pc[t] \in Owning /\ IsOf(memory[d], hello[t])
      BY <3>1, HolderFacts
    <3>3. memory'[d] = memory[d]
      BY <1>3, <2>2, NetAssumption DEF NetAssumption
    <3> QED BY <1>1, <1>2, <1>5, <3>2, <3>3 DEF Owning
  <2> QED BY <2>1, <2>2, HolderIsLiveNext
<1>9. Forgotten'
  <2>1. ASSUME NEW t \in Senders, pc'[t] = "unclaim"
        PROVE memory'[run'[t]].fd # t
    <3>1. CASE t = s
      BY <1>1, <1>3, <3>1, NetAssumption DEF c, NetAssumption
    <3>2. CASE t # s
      <4>1. pc[t] = "unclaim" /\ run'[t] = run[t]
        BY <1>1, <1>2, <2>1, <3>2
      <4>2. run[t] \in Holds(t)
        BY <4>1, HoldsFacts DEF Inv, Shape
      <4>3. run[t] \in Channels /\ run[t] # c
        BY <1>6, <3>2, <4>2, HoldsFacts DEF Inv
      <4> QED BY <1>3, <4>1, <4>3 DEF Inv, Forgotten
    <3> QED BY <3>1, <3>2
  <2> QED BY <2>1 DEF Forgotten
<1>10. \A t \in Senders \ {s} :
         /\ pc'[t] = "took" => \A d \in Run(run'[t], search'[t].at) : Remembers(d, t)'
         /\ pc'[t] = "held" => \A d \in Run(run'[t], hello'[t].count) : Remembers(d, t)'
  BY <1>1, <1>2, <1>3, <1>4, <1>6, RecordsElsewhere
<1>11. Written' /\ RunRemembersItsHolder'
  BY <1>2, <1>10 DEF Written, RunRemembersItsHolder
<1> QED BY <1>7, <1>8, <1>9, <1>11 DEF Sharing

\* so that no record names it when the flag is cleared.
LEMMA UnclaimShares ==
  ASSUME Inv, NEW s \in Senders, Unclaim(s)
  PROVE Sharing'
<1>1. /\ pc[s] = "unclaim" /\ run[s] \in Nat /\ held[s] \in Nat /\ held[s] > 0
  BY DEF Unclaim, Inv, TypeOK, Shape
<1>2. /\ held'[s] = held[s] - 1 /\ run'[s] = run[s] + 1
      /\ pc'[s] = (IF held[s] = 1 THEN "close" ELSE "release")
      /\ \A t \in Senders \ {s} : pc'[t] = pc[t] /\ held'[t] = held[t] /\ run'[t] = run[t]
      /\ UNCHANGED <<memory, wiping, hello, search>>
  BY DEF Unclaim, Go, Inv, TypeOK
<1>3. /\ run[s] \in Holds(s)
      /\ Holds(s)' = Holds(s) \ {run[s]}
      /\ held[s] = 1 => Holds(s)' = {}
      /\ \A t \in Senders \ {s} : Holds(t)' = Holds(t)
  BY <1>1, <1>2 DEF Holds, Run
<1>4. EveryClaimHasOneOwner'
  <2>1. claimed' = [claimed EXCEPT ![run[s]] = FALSE] /\ wiping' = wiping
    BY DEF Unclaim
  <2> QED BY <1>3, <2>1, ClaimDropped DEF Inv, TypeOK
<1>5. HolderIsLive'
  <2>1. ASSUME NEW d \in Channels, NEW t \in Senders, memory[d].fd = t
        PROVE d \in Holds(t)' /\ hello[t].socket /\ pc'[t] \in Owning /\ IsOf(memory[d], hello[t])
    <3>1. d \in Holds(t) /\ hello[t].socket /\ pc[t] \in Owning /\ IsOf(memory[d], hello[t])
      BY <2>1, HolderFacts
    <3>2. CASE t = s
      <4>1. d # run[s]
        BY <1>1, <2>1, <3>2 DEF Inv, Forgotten
      <4> QED BY <1>2, <1>3, <3>1, <3>2, <4>1 DEF Owning
    <3>3. CASE t # s
      BY <1>2, <1>3, <3>1, <3>3
    <3> QED BY <3>2, <3>3
  <2> QED BY <1>2, <2>1, HolderFacts DEF HolderIsLive, Owning
<1>6. Forgotten' /\ Written' /\ RunRemembersItsHolder'
  BY <1>2 DEF Inv, Forgotten, Written, RunRemembersItsHolder, Remembers
<1> QED BY <1>4, <1>5, <1>6 DEF Sharing
\* forget_channel() claims a channel nobody holds,
LEMMA ForgetClaimShares ==
  ASSUME Inv, NEW c \in Channels, ForgetClaim(c)
  PROVE Sharing'
<1>1. /\ ~claimed[c] /\ claimed' = [claimed EXCEPT ![c] = TRUE]
      /\ wiping' = [wiping EXCEPT ![c] = "claimed"]
      /\ UNCHANGED <<memory, pc, hello, run, held, search>>
  BY DEF ForgetClaim
<1>2. wiping[c] = "no" /\ \A t \in Senders : c \notin Holds(t)
  BY <1>1 DEF Inv, EveryClaimHasOneOwner
<1>3. \A t \in Senders : Holds(t)' = Holds(t)
  BY <1>1 DEF Holds
<1>4. EveryClaimHasOneOwner'
  BY <1>1, <1>2, <1>3 DEF Inv, TypeOK, EveryClaimHasOneOwner
<1>5. HolderIsLive'
  BY <1>1, <1>3, HolderFacts, HolderIsLiveNext
<1>6. Forgotten' /\ Written' /\ RunRemembersItsHolder'
  BY <1>1 DEF Inv, Forgotten, Written, RunRemembersItsHolder, Remembers
<1> QED BY <1>4, <1>5, <1>6 DEF Sharing

\* so that no session is bound to the record it empties,
LEMMA ForgetRecordShares ==
  ASSUME Inv, NEW c \in Channels, ForgetRecord(c)
  PROVE Sharing'
<1> DEFINE m == [Unused EXCEPT !.fd = memory[c].fd, !.released = memory[c].released]
<1>1. /\ wiping[c] = "claimed" /\ memory' = [memory EXCEPT ![c] = m]
      /\ wiping' = [wiping EXCEPT ![c] = "cleared"]
      /\ UNCHANGED <<claimed, pc, hello, run, held, search>>
  BY DEF ForgetRecord
<1>2. \A t \in Senders : c \notin Holds(t)
  BY <1>1 DEF Inv, EveryClaimHasOneOwner
<1>3. m.fd = memory[c].fd
  BY DEF Unused
<1> HIDE DEF m
<1>4. /\ \A d \in Channels \ {c} : memory'[d] = memory[d]
      /\ \A d \in Channels : memory'[d].fd = memory[d].fd
  BY <1>1, <1>3 DEF Inv, TypeOK
<1>5. \A t \in Senders : Holds(t)' = Holds(t)
  BY <1>1 DEF Holds
<1>6. EveryClaimHasOneOwner'
  BY <1>1, <1>2, <1>5 DEF Inv, TypeOK, EveryClaimHasOneOwner
<1>7. HolderIsLive'
  <2>1. \A t \in Senders : memory[c].fd # t
    BY <1>2, HolderFacts
  <2> QED BY <1>1, <1>4, <1>5, <2>1, HolderFacts, HolderIsLiveNext
<1>8. Forgotten'
  <2>1. \A t \in Senders : pc[t] = "unclaim" => run[t] \in Channels
    BY HoldsFacts DEF Inv, Shape
  <2> QED BY <1>1, <1>4, <2>1 DEF Inv, Forgotten
<1>9. \A t \in Senders :
         /\ pc'[t] = "took" => \A d \in Run(run'[t], search'[t].at) : Remembers(d, t)'
         /\ pc'[t] = "held" => \A d \in Run(run'[t], hello'[t].count) : Remembers(d, t)'
  BY <1>1, <1>2, <1>4, RecordsElsewhere
<1>10. Written' /\ RunRemembersItsHolder'
  BY <1>9 DEF Written, RunRemembersItsHolder
<1> QED BY <1>6, <1>7, <1>8, <1>10 DEF Sharing

\* and gives back its own claim.
LEMMA ForgetEndShares ==
  ASSUME Inv, NEW c \in Channels, ForgetEnd(c)
  PROVE Sharing'
<1>1. /\ wiping[c] = "cleared" /\ claimed' = [claimed EXCEPT ![c] = FALSE]
      /\ wiping' = [wiping EXCEPT ![c] = "no"]
      /\ UNCHANGED <<memory, pc, hello, run, held, search>>
  BY DEF ForgetEnd
<1>2. \A t \in Senders : c \notin Holds(t)
  BY <1>1 DEF Inv, EveryClaimHasOneOwner
<1>3. \A t \in Senders : Holds(t)' = Holds(t)
  BY <1>1 DEF Holds
<1>4. EveryClaimHasOneOwner'
  BY <1>1, <1>2, <1>3 DEF Inv, TypeOK, EveryClaimHasOneOwner
<1>5. HolderIsLive'
  BY <1>1, <1>3, HolderFacts, HolderIsLiveNext
<1>6. Forgotten' /\ Written' /\ RunRemembersItsHolder'
  BY <1>1 DEF Inv, Forgotten, Written, RunRemembersItsHolder, Remembers
<1> QED BY <1>4, <1>5, <1>6 DEF Sharing

\* A step of s's thread that neither sets nor clears a flag, nor writes a record.
OnlyMoves(s) ==
  /\ UNCHANGED <<claimed, memory, wiping, held>>
  /\ pc[s] \notin Owning /\ pc'[s] \notin Owning
  /\ run'[s] = run[s] \/ held[s] = 0
  /\ \A t \in Senders \ {s} :
       pc'[t] = pc[t] /\ hello'[t] = hello[t] /\ run'[t] = run[t] /\ search'[t] = search[t]

----------------------------------------------------------------------------
(* The steps that touch neither a flag nor a record.                       *)

\* A round of the takeover's wait: it gives up, tries the run to take back, or
\* looks whether the stale ones are gone.
LEMMA WaitCases ==
  ASSUME TypeOK, NEW s \in Senders, Wait(s)
  PROVE LET found == search[s]  again == [found EXCEPT !.tries = @ + 1] IN
        \/ Go(s, "place") /\ Look(s, [found EXCEPT !.at = 0]) /\ UNCHANGED run
        \/ found.back >= 0 /\ Try(s, found.back, "wait", again)
        \/ found.back < 0 /\ Go(s, "gone?") /\ Look(s, [again EXCEPT !.at = 0]) /\ UNCHANGED run
<1> DEFINE found == search[s]
<1>1. found.tries \in Nat /\ Tries \in Nat /\ found.back \in Nat \cup {-1}
  BY SenderTypes, NetAssumption DEF Wait, Searches, NetAssumption
<1>2. CASE found.tries >= Tries
  BY <1>1, <1>2 DEF Wait
<1>3. CASE found.tries < Tries /\ found.back >= 0
  BY <1>1, <1>3 DEF Wait
<1>4. CASE found.tries < Tries /\ found.back < 0
  BY <1>1, <1>4 DEF Wait
<1> QED BY <1>1, <1>2, <1>3, <1>4

\* It moves its own thread only,
LEMMA WaitMoves ==
  ASSUME TypeOK, Shape, NEW s \in Senders, Wait(s)
  PROVE OnlyMoves(s)
<1> DEFINE found == search[s]
           again == [found EXCEPT !.tries = @ + 1]
           from0 == [found EXCEPT !.at = 0]
           again0 == [again EXCEPT !.at = 0]
<1>1. pc[s] = "wait" /\ held[s] = 0 /\ UNCHANGED <<Shared, hello, held>>
  BY DEF Wait, Shape, Places
<1>2. \/ Go(s, "place") /\ Look(s, from0) /\ UNCHANGED run
      \/ found.back >= 0 /\ Try(s, found.back, "wait", again)
      \/ Go(s, "gone?") /\ Look(s, again0) /\ UNCHANGED run
  BY WaitCases
<1> HIDE DEF again, from0, again0
<1> QED BY <1>1, <1>2 DEF OnlyMoves, TypeOK, Try, Go, Look, Shared, Owning

\* and so does every step of the search for a run.
LEMMA SearchMoves ==
  ASSUME TypeOK, Shape, NEW s \in Senders
  PROVE /\ \A h \in Hellos : Connect(s, h) => OnlyMoves(s)
        /\ Begin(s) \/ Scan(s) \/ Lose(s) \/ Undone(s) \/ Wait(s) \/ LetGo(s) => OnlyMoves(s)
        /\ Place(s) \/ Home(s) \/ Spare(s) \/ TrySpare(s) \/ Close(s) => OnlyMoves(s)
<1>1. /\ pc \in [Senders -> Places] /\ hello \in [Senders -> Hellos \cup {NoHello}]
      /\ run \in [Senders -> Nat] /\ held \in [Senders -> Nat]
      /\ search \in [Senders -> Searches]
      /\ pc[s] \in {"place", "home", "spare", "wait"} => held[s] = 0
  BY DEF TypeOK, Shape, Places
<1>2. ASSUME NEW h \in Hellos, Connect(s, h)
      PROVE OnlyMoves(s)
  BY <1>1, <1>2 DEF OnlyMoves, Connect, Go, Shared, Owning
<1>3. Begin(s) => OnlyMoves(s)
  BY <1>1 DEF OnlyMoves, Begin, Go, Look, Shared, Owning
<1>4. Scan(s) => OnlyMoves(s)
  BY <1>1 DEF OnlyMoves, Scan, Go, Look, Owning
<1>5. Lose(s) => OnlyMoves(s)
  BY <1>1 DEF OnlyMoves, Lose, Go, Shared, Owning
<1>6. Undone(s) => OnlyMoves(s)
  <2>1. pc[s] = "undo" => search[s].next \notin Owning
    BY DEF TypeOK, Shape, Searches, Owning
  <2> QED BY <1>1, <2>1 DEF OnlyMoves, Undone, Go, Shared, Owning
<1>7. Wait(s) => OnlyMoves(s)
  BY <1>1, WaitMoves
<1>8. LetGo(s) => OnlyMoves(s)
  BY <1>1 DEF OnlyMoves, LetGo, Go, Look, Shared, Owning
<1>9. Place(s) => OnlyMoves(s)
  BY <1>1 DEF OnlyMoves, Place, Try, Go, Look, Shared, Owning
<1>10. Home(s) => OnlyMoves(s)
  BY <1>1 DEF OnlyMoves, Home, Try, Go, Look, Shared, Owning
<1>11. ASSUME Spare(s)
      PROVE OnlyMoves(s)
  <2> DEFINE h == hello[s]
             found == search[s]
             b == found.at
             c == b + found.seen
             m == memory[c]
             anew == [found EXCEPT !.at = b + 1, !.seen = 0, !.remembered = FALSE, !.released = 0]
             known == found.remembered \/ m.ip # NoOne
             last == IF m.released > found.released THEN m.released ELSE found.released
             more == [found EXCEPT !.seen = @ + 1, !.remembered = known, !.released = last]
             one == [base |-> b, remembered |-> known, released |-> last]
             full == [anew EXCEPT !.spare = @ \cup {one}]
  <2>1. Look(s, anew) \/ Look(s, more) \/ Look(s, full) \/ UNCHANGED search
    <3>1. found.seen \in Nat /\ (pc[s] = "free?" => h.count \in Nat /\ found.seen < h.count)
      BY <1>1, SenderTypes DEF Searches, TypeOK
    <3>2. CASE b + h.count > Total
      BY <1>11, <3>2 DEF Spare
    <3>3. CASE ~(b + h.count > Total)
      <4>1. CASE claimed[c]
        BY <1>11, <3>3, <4>1 DEF Spare
      <4>2. CASE ~claimed[c] /\ found.seen + 1 < h.count
        BY <1>11, <3>3, <4>2 DEF Spare
      <4>3. CASE ~claimed[c] /\ found.seen + 1 = h.count
        BY <1>11, <3>1, <3>3, <4>3 DEF Spare
      <4>4. pc[s] = "free?"
        BY <1>11 DEF Spare
      <4> QED BY <3>1, <4>1, <4>2, <4>3, <4>4
    <3> QED BY <3>2, <3>3
  <2> HIDE DEF anew, more, full
  <2>2. Go(s, "spare") \/ UNCHANGED pc
    BY <1>11 DEF Spare
  <2>3. pc[s] = "free?" /\ UNCHANGED <<Shared, hello, run, held>>
    BY <1>11 DEF Spare
  <2> QED BY <1>1, <2>1, <2>2, <2>3 DEF OnlyMoves, Go, Look, Shared, Owning
<1>12. TrySpare(s) => OnlyMoves(s)
  BY <1>1 DEF OnlyMoves, TrySpare, Try, Go, Look, Shared, Owning
<1>13. Close(s) => OnlyMoves(s)
  BY <1>1 DEF OnlyMoves, Close, Go, Look, Owning, Shape, Places
<1> QED BY <1>2, <1>3, <1>4, <1>5, <1>6, <1>7, <1>8, <1>9, <1>10, <1>11, <1>12, <1>13

----------------------------------------------------------------------------
(* The invariant, and what follows from it.                                *)

\* The server starts with the invariant: no channel claimed, nobody remembered.
LEMMA InitInv == Init => Inv
<1> SUFFICES ASSUME Init PROVE Inv
  OBVIOUS
<1>1. NoSearch \in Searches
  BY DEF NoSearch, Searches
<1>2. Unused \in Memories
  BY NetAssumption DEF Unused, Memories, Channels, NetAssumption
<1>3. TypeOK
  BY <1>1, <1>2 DEF Init, TypeOK, Places
<1>4. Shape
  BY DEF Init, Shape, Places
<1>5. \A s \in Senders : Holds(s) = {}
  BY DEF Init, Holds, Run
<1>6. \A c \in Channels : memory[c].fd = NoFd
  BY DEF Init, Unused
<1>7. EveryClaimHasOneOwner /\ HolderIsLive
  BY <1>5, <1>6 DEF Init, EveryClaimHasOneOwner, HolderIsLive
<1>8. Forgotten /\ Written /\ RunRemembersItsHolder
  BY DEF Init, Forgotten, Written, RunRemembersItsHolder
<1> QED BY <1>3, <1>4, <1>7, <1>8 DEF Inv

\* Every step of a session's thread keeps the invariant,
LEMMA SenderStep ==
  ASSUME Inv, NEW s \in Senders,
         (\E h \in Hellos : Connect(s, h)) \/ Claiming(s) \/ Leave(s) \/ Ending(s)
  PROVE Inv'
<1>1. TypeOK /\ Shape
  BY DEF Inv
<1>2. TypeOK' /\ Shape'
  BY <1>1, ConnectTypes, BeginTypes, ScanTypes, WinTypes, LoseTypes, UndoTypes, UndoneTypes,
     TookTypes, WaitTypes, LetGoTypes, PlaceTypes, HomeTypes, SpareTypes, TrySpareTypes,
     LeaveTypes, ReleaseTypes, UnclaimTypes, CloseTypes DEF Claiming, Ending
<1>3. CASE OnlyMoves(s)
  BY <1>2, <1>3, LocalStep DEF OnlyMoves, Inv
<1>4. CASE Win(s) \/ Undo(s) \/ Took(s) \/ Leave(s) \/ ReleaseRecord(s) \/ Unclaim(s)
  BY <1>2, <1>4, WinShares, UndoShares, TookShares, LeaveShares, ReleaseShares, UnclaimShares
     DEF Sharing, Inv
<1> QED BY <1>1, <1>3, <1>4, SearchMoves DEF Claiming, Ending

\* every step of forget_channel() does,
LEMMA WebStep ==
  ASSUME Inv, NEW c \in Channels, ForgetClaim(c) \/ ForgetRecord(c) \/ ForgetEnd(c)
  PROVE Inv'
<1>1. TypeOK' /\ Shape'
  BY ForgetTypes DEF Inv
<1>2. Sharing'
  BY ForgetClaimShares, ForgetRecordShares, ForgetEndShares
<1> QED BY <1>1, <1>2 DEF Inv, Sharing

\* and so does a step of the rest of the program.
LEMMA StutterStep ==
  ASSUME Inv, UNCHANGED vars
  PROVE Inv'
BY DEF vars, Inv, TypeOK, Shape, EveryClaimHasOneOwner, HolderIsLive, Forgotten, Written,
       RunRemembersItsHolder, Remembers, Holds

\* However many senders claim, take over, release and forget at once, on however
\* many channels, the threads of net_audio.cpp keep the invariant.
THEOREM Invariance == Spec => []Inv
<1>1. Init => Inv
  BY InitInv
<1>2. Inv /\ [Next]_vars => Inv'
  BY SenderStep, WebStep, StutterStep DEF Next, Forgetting
<1> QED BY <1>1, <1>2, PTL DEF Spec

\* No channel past count() is ever looked at, and every local has its type.
THEOREM TypesHold == Spec => []TypeOK
<1>1. Inv => TypeOK
  BY DEF Inv
<1> QED BY <1>1, Invariance, PTL

\* A claimed channel of net_audio.cpp has exactly one owner, and an owner's
\* channels are claimed: try_run() and its rollback strand and steal nothing.
THEOREM ClaimsHaveOneOwner == Spec => []EveryClaimHasOneOwner
<1>1. Inv => EveryClaimHasOneOwner
  BY DEF Inv
<1> QED BY <1>1, Invariance, PTL

\* The socket a takeover reads under a channel's lock is the live one of the
\* session that holds the channel, and the record is about that session.
THEOREM HoldersAreLive == Spec => []HolderIsLive
<1>1. Inv => HolderIsLive
  BY DEF Inv
<1> QED BY <1>1, Invariance, PTL

\* While a session has its run, every record of it is the session's own.
THEOREM RunsAreRemembered == Spec => []RunRemembersItsHolder
<1>1. Inv => RunRemembersItsHolder
  BY DEF Inv
<1> QED BY <1>1, Invariance, PTL

\* A step of Scan cuts at most the socket its record names.
LEMMA ScanCuts ==
  ASSUME Inv, NEW s \in Senders, NEW t \in Senders, Scan(s), t \in cut', t \notin cut
  PROVE LET m == memory[search[s].at] IN
          /\ m.fd = t /\ IsOf(m, hello[t])
          /\ SameOpen(hello[s], m) \/ SameOutput(hello[s], m, search[s].barred)
<1> DEFINE c == search[s].at
           m == memory[c]
           hit == Stale(hello[s], c, m, search[s].barred)
<1>1. cut' = IF hit THEN cut \cup {m.fd} ELSE cut
  BY DEF Scan
<1>2. hit /\ m.fd = t
  <2> HIDE DEF hit, m
  <2> QED BY <1>1
<1>3. c \in Channels
  <2>1. pc[s] = "scan" /\ c < Total
    BY DEF Scan, Inv, TypeOK
  <2> QED BY <2>1, SenderTypes, ChannelTypes DEF Inv
<1>4. IsOf(m, hello[t])
  BY <1>2, <1>3, HolderFacts
<1> QED BY <1>2, <1>4 DEF Stale

\* claim_channels() shuts a connection down only for the stream that it itself
\* carries: the same PCM, or the same output of the same machine.
THEOREM CutForItsOwnStream == Spec => OnlyItsOwnStreamCutsIt
<1> DEFINE Own == \A s, t \in Senders : (Scan(s) /\ t \in cut' \ cut) =>
       \/ hello[s].instance # 0 /\ hello[t].instance = hello[s].instance
       \/ hello[s].mac # NoOne /\ hello[t].mac = hello[s].mac /\ hello[t].stream = hello[s].stream
<1>1. Inv => Own
  BY ScanCuts DEF IsOf, SameOpen, SameOutput
<1>2. Inv /\ [Next]_vars => [Own]_vars
  BY <1>1
<1> QED BY <1>2, Invariance, PTL DEF Spec, OnlyItsOwnStreamCutsIt

----------------------------------------------------------------------------
(* The threads implement ChannelRuns.                                      *)

\* A pinned sender never tries another run than its pin: not the one to take
\* back, and no other place of the search.
PinIsKept ==
  \A s \in Senders : hello[s] \in Hellos /\ hello[s].want < Total =>
    /\ pc[s] \in {"scan", "wait", "gone?"} \/ (pc[s] \in {"try", "undo"} /\ search[s].next = "wait")
         => search[s].back \in {-1, hello[s].want}
    /\ pc[s] = "try" => run[s] = hello[s].want
    /\ pc[s] \notin {"home", "free?", "spare"}
    /\ pc[s] \in {"try", "undo"} => search[s].next \in {"wait", "refused"}


\* What PinIsKept says of one sender.
PinKeptBy(s) ==
  hello[s] \in Hellos /\ hello[s].want < Total =>
    /\ pc[s] \in {"scan", "wait", "gone?"} \/ (pc[s] \in {"try", "undo"} /\ search[s].next = "wait")
         => search[s].back \in {-1, hello[s].want}
    /\ pc[s] = "try" => run[s] = hello[s].want
    /\ pc[s] \notin {"home", "free?", "spare"}
    /\ pc[s] \in {"try", "undo"} => search[s].next \in {"wait", "refused"}

\* A thread's step changes no other thread's variables.
LEMMA OthersStay ==
  ASSUME TypeOK, Shape, NEW s \in Senders, NEW t \in Senders, t # s,
         (\E h \in Hellos : Connect(s, h)) \/ Claiming(s) \/ Leave(s) \/ Ending(s)
  PROVE pc'[t] = pc[t] /\ hello'[t] = hello[t] /\ run'[t] = run[t] /\ search'[t] = search[t]
        /\ held'[t] = held[t]
<1>1. CASE OnlyMoves(s)
  BY <1>1 DEF OnlyMoves
<1>2. CASE Win(s)
  BY <1>2 DEF Win, Go, Look, TypeOK
<1>3. CASE Undo(s)
  BY <1>3 DEF Undo, TypeOK
<1>4. CASE Took(s)
  BY <1>4 DEF Took, Go, Look, TypeOK
<1>5. CASE Leave(s) \/ ReleaseRecord(s) \/ Unclaim(s)
  BY <1>5 DEF Leave, ReleaseRecord, Unclaim, Go, Shared, TypeOK
<1> QED BY <1>1, <1>2, <1>3, <1>4, <1>5, SearchMoves DEF Claiming, Ending

\* The search keeps to the pin before it tries anything,
LEMMA PinBegins ==
  ASSUME TypeOK, Shape, NEW s \in Senders, PinKeptBy(s),
         (\E h \in Hellos : Connect(s, h)) \/ Begin(s) \/ Scan(s)
  PROVE PinKeptBy(s)'
<1>1. CASE \E h \in Hellos : Connect(s, h)
  BY <1>1 DEF Connect, Go, TypeOK, PinKeptBy
<1>2. CASE Begin(s)
  <2>1. /\ pc'[s] \in {"refused", "scan", "place"} /\ search'[s].back = -1
    BY <1>2 DEF Begin, Go, Look, NoSearch, TypeOK
  <2> QED BY <2>1 DEF PinKeptBy
<1>3. CASE Scan(s)
  <2> DEFINE h == hello[s]
             found == search[s]
             c == found.at
             m == memory[c]
             hit == Stale(h, c, m, found.barred)
             took == hit /\ TakesBack(h, c, m, found)
             stale == IF hit THEN found.stale \cup Run(c, m.count) ELSE found.stale
             next == IF c + 1 = Total THEN 0 ELSE c + 1
             open == IF took THEN SameOpen(h, m) ELSE found.backOpen
             f == [found EXCEPT !.stale = stale, !.back = IF took THEN c ELSE @,
                                !.backOpen = IF took THEN SameOpen(h, m) ELSE @,
                                !.at = IF c + 1 = Total THEN 0 ELSE c + 1]
  <2>1. pc[s] = "scan" /\ found \in Searches /\ hello' = hello /\ run' = run
    BY <1>3 DEF Scan, TypeOK
  <2>2. search'[s] = f /\ pc'[s] \in {"scan", "place", "wait"}
    BY <1>3 DEF Scan, Look, Go, TypeOK
  <2>3. f.back = IF took THEN c ELSE found.back
    BY <2>1 DEF Searches
  <2>4. took => h.want >= Total \/ c = h.want
    BY DEF TakesBack
  <2> HIDE DEF took, f
  <2>5. h \in Hellos /\ h.want < Total => h.want \in Nat /\ Total \in Nat
    BY HelloFields, NetAssumption DEF NetAssumption
  <2> QED BY <2>1, <2>2, <2>3, <2>4, <2>5 DEF PinKeptBy
<1> QED BY <1>1, <1>2, <1>3

\* in every run it tries,
LEMMA PinTries ==
  ASSUME TypeOK, Shape, NEW s \in Senders, PinKeptBy(s),
         Win(s) \/ Lose(s) \/ Undo(s) \/ Undone(s) \/ Wait(s) \/ LetGo(s)
  PROVE PinKeptBy(s)'
<1>1. CASE Win(s)
  BY <1>1 DEF Win, Go, Look, TypeOK, PinKeptBy
<1>2. CASE Lose(s)
  BY <1>2 DEF Lose, Go, Shared, TypeOK, PinKeptBy
<1>3. CASE Undo(s)
  BY <1>3 DEF Undo, TypeOK, PinKeptBy
<1>4. CASE Undone(s)
  <2>1. pc[s] = "undo" /\ pc'[s] = search[s].next /\ UNCHANGED <<hello, search>>
    BY <1>4 DEF Undone, Go, Shared, TypeOK
  <2> QED BY <2>1 DEF PinKeptBy
<1>5. CASE Wait(s)
  <2> DEFINE found == search[s]
             again == [found EXCEPT !.tries = @ + 1]
  <2>1. /\ pc[s] = "wait" /\ found \in Searches /\ found.tries \in Nat
        /\ found.back \in Nat \cup {-1} /\ hello' = hello
    BY <1>5 DEF Wait, TypeOK, Searches
  <2>2. /\ again.back = found.back /\ again \in Searches
    BY <2>1 DEF Searches
  <2>3. CASE Go(s, "place")
    BY <2>1, <2>3 DEF Go, TypeOK, PinKeptBy
  <2>4. CASE found.back >= 0 /\ Try(s, found.back, "wait", again)
    <3>1. pc'[s] = "try" /\ run'[s] = found.back /\ search'[s] = [again EXCEPT !.next = "wait"]
      BY <2>4 DEF Try, Go, Look, TypeOK
    <3>2. search'[s].back = found.back /\ search'[s].next = "wait"
      BY <2>2, <3>1 DEF Searches
    <3> QED BY <2>1, <2>4, <3>1, <3>2 DEF PinKeptBy
  <2>5. CASE Go(s, "gone?") /\ Look(s, [again EXCEPT !.at = 0])
    <3>1. pc'[s] = "gone?" /\ search'[s].back = found.back
      BY <2>2, <2>5 DEF Go, Look, TypeOK, Searches
    <3> QED BY <2>1, <3>1 DEF PinKeptBy
  <2> QED BY <1>5, <2>3, <2>4, <2>5, WaitCases
<1>6. CASE LetGo(s)
  <2>1. /\ pc[s] = "gone?" /\ pc'[s] \in {"wait", "place", "gone?"} /\ hello' = hello
        /\ search'[s].back = search[s].back
    BY <1>6 DEF LetGo, Go, Look, Shared, TypeOK, Searches
  <2> QED BY <2>1 DEF PinKeptBy
<1> QED BY <1>1, <1>2, <1>3, <1>4, <1>5, <1>6

\* where it places the stream, and after.
LEMMA PinPlaces ==
  ASSUME TypeOK, Shape, NEW s \in Senders, PinKeptBy(s),
         Place(s) \/ Home(s) \/ Spare(s) \/ TrySpare(s) \/ Took(s) \/ Leave(s) \/ Ending(s)
  PROVE PinKeptBy(s)'
<1>1. CASE Place(s)
  <2>1. /\ pc[s] = "place" /\ hello' = hello /\ Total \in Nat
        /\ hello[s] \in Hellos /\ hello[s].want \in Nat
    BY <1>1, SenderTypes, NetAssumption DEF Place, NetAssumption
  <2>2. CASE hello[s].want < Total
    <3>1. Try(s, hello[s].want, "refused", search[s])
      BY <1>1, <2>2 DEF Place
    <3>2. pc'[s] = "try" /\ run'[s] = hello[s].want /\ search'[s].next = "refused"
      BY <3>1 DEF Try, Go, Look, TypeOK, Searches
    <3> QED BY <2>1, <3>2 DEF PinKeptBy
  <2>3. CASE ~(hello[s].want < Total)
    BY <2>1, <2>3 DEF PinKeptBy
  <2> QED BY <2>2, <2>3
<1>2. CASE Home(s) \/ Spare(s) \/ TrySpare(s)
  <2>1. pc[s] \in {"home", "free?", "spare"} /\ hello' = hello
    BY <1>2 DEF Home, Spare, TrySpare
  <2> QED BY <2>1 DEF PinKeptBy
<1>3. CASE Took(s) \/ Leave(s) \/ Ending(s)
  <2>1. pc'[s] \in {"took", "held", "release", "unclaim", "close", "idle"}
    BY <1>3 DEF Took, Leave, Ending, ReleaseRecord, Unclaim, Close, Go, TypeOK
  <2> QED BY <2>1 DEF PinKeptBy
<1> QED BY <1>1, <1>2, <1>3

\* A pinned sender is given its pin or nothing.
LEMMA PinSteps == Inv /\ PinIsKept /\ [Next]_vars => PinIsKept'
<1> SUFFICES ASSUME Inv, PinIsKept, [Next]_vars PROVE PinIsKept'
  OBVIOUS
<1>1. TypeOK /\ Shape /\ \A s \in Senders : PinKeptBy(s)
  BY DEF Inv, PinIsKept, PinKeptBy
<1>2. ASSUME NEW s \in Senders,
             (\E h \in Hellos : Connect(s, h)) \/ Claiming(s) \/ Leave(s) \/ Ending(s)
      PROVE \A t \in Senders : PinKeptBy(t)'
  <2>1. PinKeptBy(s)'
    BY <1>1, <1>2, PinBegins, PinTries, PinPlaces DEF Claiming
  <2>2. ASSUME NEW t \in Senders, t # s PROVE PinKeptBy(t)'
    BY <1>1, <1>2, <2>2, OthersStay DEF PinKeptBy
  <2> QED BY <2>1, <2>2
<1>3. ASSUME NEW c \in Channels, ForgetClaim(c) \/ Forgetting(c)
      PROVE \A t \in Senders : PinKeptBy(t)'
  BY <1>1, <1>3 DEF ForgetClaim, Forgetting, ForgetRecord, ForgetEnd, PinKeptBy
<1>4. ASSUME UNCHANGED vars PROVE \A t \in Senders : PinKeptBy(t)'
  BY <1>1, <1>4 DEF vars, PinKeptBy
<1>5. \A t \in Senders : PinKeptBy(t)'
  BY <1>2, <1>3, <1>4 DEF Next
<1> QED BY <1>5 DEF PinIsKept, PinKeptBy

\* A channel has the owner that holds it, and at most one does.
LEMMA OwnerIs ==
  ASSUME EveryClaimHasOneOwner, NEW c \in Channels
  PROVE /\ \A s \in Senders : Owns(s, c) => Owner(c) = s
        /\ (\A s \in Senders : ~Owns(s, c)) => Owner(c) = NoFd
<1>1. ASSUME NEW s \in Senders, Owns(s, c) PROVE Owner(c) = s
  <2>1. \A t \in Senders : Owns(t, c) => t = s
    BY <1>1 DEF EveryClaimHasOneOwner, Owns
  <2>2. (CHOOSE t \in Senders : Owns(t, c)) = s
    BY <1>1, <2>1
  <2> QED BY <1>1, <2>2 DEF Owner
<1> QED BY <1>1 DEF Owner

\* So it does in the next state.
LEMMA OwnerIsNext ==
  ASSUME EveryClaimHasOneOwner', NEW c \in Channels
  PROVE /\ \A s \in Senders : Owns(s, c)' => Owner(c)' = s
        /\ (\A s \in Senders : ~Owns(s, c)') => Owner(c)' = NoFd
<1>1. ASSUME NEW s \in Senders, Owns(s, c)' PROVE Owner(c)' = s
  <2>1. \A t \in Senders : Owns(t, c)' => t = s
    BY <1>1 DEF EveryClaimHasOneOwner, Owns
  <2>2. (CHOOSE t \in Senders : Owns(t, c)') = s
    BY <1>1, <2>1
  <2> QED BY <1>1, <2>2 DEF Owner
<1> QED BY <1>1 DEF Owner

\* Where the same threads hold a channel it keeps its owner.
LEMMA OwnerStays ==
  ASSUME Inv, Inv', NEW c \in Channels, \A s \in Senders : Owns(s, c)' <=> Owns(s, c)
  PROVE Owner(c)' = Owner(c)
BY OwnerIs, OwnerIsNext DEF Inv

\* What ChannelRuns sees of a step: its two variables.
Seen == <<[s \in Senders |-> AskedBy(s)], [c \in Channels |-> Owner(c)]>>

\* A step that changes neither who asks nor who owns is a stutter.
LEMMA Unseen ==
  ASSUME Inv, Inv', \A s \in Senders : AskedBy(s)' = AskedBy(s),
         \A s \in Senders, c \in Channels : Owns(s, c)' <=> Owns(s, c)
  PROVE UNCHANGED Seen
BY OwnerStays DEF Seen

\* A step of one thread that owns nothing before or after leaves the owners.
LEMMA OwnersStay ==
  ASSUME Inv, Inv', NEW s \in Senders,
         (\E h \in Hellos : Connect(s, h)) \/ Claiming(s) \/ Leave(s) \/ Ending(s),
         pc[s] \notin Owning, pc'[s] \notin Owning
  PROVE \A c \in Channels : Owner(c)' = Owner(c)
<1>1. \A t \in Senders : t # s => pc'[t] = pc[t] /\ run'[t] = run[t] /\ held'[t] = held[t]
  BY OthersStay DEF Inv
<1>2. \A t \in Senders, c \in Channels : Owns(t, c)' <=> Owns(t, c)
  BY <1>1 DEF Owns, Holds, Run
<1> QED BY <1>2, OwnerStays

\* Who else asks does not change.
LEMMA AskersStay ==
  ASSUME Inv, NEW s \in Senders, NEW t \in Senders, t # s,
         (\E h \in Hellos : Connect(s, h)) \/ Claiming(s) \/ Leave(s) \/ Ending(s)
  PROVE AskedBy(t)' = AskedBy(t)
BY OthersStay DEF Inv, AskedBy

\* A HELLO asks.
LEMMA ConnectAsks ==
  ASSUME Inv, Inv', NEW s \in Senders, NEW h \in Hellos, Connect(s, h)
  PROVE Runs!Ask(s, Request(h))
<1>1. pc[s] = "idle" /\ pc'[s] = "claim" /\ hello'[s] = h
  BY DEF Connect, Go, Inv, TypeOK
<1>2. AskedBy(s) = {} /\ AskedBy(s)' = {Request(h)}
  BY <1>1 DEF AskedBy, Asking
<1>3. \A c \in Channels : Owner(c)' = Owner(c)
  BY <1>1, OwnersStay DEF Owning
<1>4. \A c \in Channels : Owner(c) # s
  BY <1>1, OwnerIs, NetAssumption DEF Inv, Owns, Owning, NetAssumption, Owner
<1>5. \A t \in Senders : t # s => AskedBy(t)' = AskedBy(t)
  BY AskersStay
<1> QED BY <1>2, <1>3, <1>4, <1>5 DEF Runs!Ask, Runs!Owned, Runs!Channels, Channels

\* A step of the search leads on or to a refusal.
LEMMA SearchPlaces ==
  ASSUME TypeOK, Shape, NEW s \in Senders,
         Begin(s) \/ Scan(s) \/ Lose(s) \/ Undo(s) \/ Undone(s) \/ Wait(s) \/ LetGo(s)
           \/ Place(s) \/ Home(s) \/ Spare(s) \/ TrySpare(s)
  PROVE pc[s] \in Asking /\ pc'[s] \in Asking \cup {"refused"} /\ hello' = hello
<1>1. pc \in [Senders -> Places] /\ search[s] \in Searches
  BY DEF TypeOK
<1>2. CASE Begin(s) \/ Scan(s) \/ Lose(s) \/ Undo(s)
  BY <1>1, <1>2 DEF Begin, Scan, Lose, Undo, Go, Shared, Asking
<1>3. CASE Undone(s)
  <2>1. pc[s] = "undo" /\ search[s].next \in {"wait", "refused", "home", "spare"}
    BY <1>1, <1>3 DEF Undone, Shape, Searches
  <2> QED BY <1>1, <1>3, <2>1 DEF Undone, Go, Shared, Asking
<1>4. CASE Wait(s)
  <2>1. pc[s] = "wait" /\ hello' = hello
    BY <1>4 DEF Wait
  <2>2. Go(s, "place") \/ Go(s, "gone?") \/ Go(s, "try")
    BY <1>4, WaitCases DEF Try
  <2> QED BY <1>1, <2>1, <2>2 DEF Go, Asking
<1>5. CASE LetGo(s) \/ Place(s)
  BY <1>1, <1>5 DEF LetGo, Place, Try, Go, Shared, Asking
<1>6. CASE Home(s) \/ TrySpare(s)
  BY <1>1, <1>6 DEF Home, TrySpare, Try, Go, Shared, Asking
<1>7. CASE Spare(s)
  <2>1. pc[s] = "free?" /\ hello' = hello /\ (Go(s, "spare") \/ UNCHANGED pc)
    BY <1>7 DEF Spare
  <2> QED BY <1>1, <2>1 DEF Go, Asking
<1> QED BY <1>2, <1>3, <1>4, <1>5, <1>6, <1>7

\* The senders see nothing of the search but its refusal.
LEMMA SearchRefuses ==
  ASSUME Inv, Inv', NEW s \in Senders,
         Begin(s) \/ Scan(s) \/ Lose(s) \/ Undo(s) \/ Undone(s) \/ Wait(s) \/ LetGo(s)
           \/ Place(s) \/ Home(s) \/ Spare(s) \/ TrySpare(s)
  PROVE UNCHANGED Seen \/ Runs!Refuse(s)
<1>1. pc[s] \in Asking /\ pc'[s] \in Asking \cup {"refused"} /\ hello' = hello
  BY SearchPlaces DEF Inv
<1>2. Claiming(s)
  BY DEF Claiming
<1>3. \A c \in Channels : Owner(c)' = Owner(c)
  BY <1>1, <1>2, OwnersStay DEF Asking, Owning
<1>4. \A t \in Senders : t # s => AskedBy(t)' = AskedBy(t)
  BY <1>2, AskersStay
<1>5. CASE pc'[s] \in Asking
  <2>1. AskedBy(s)' = AskedBy(s)
    BY <1>1, <1>5 DEF AskedBy
  <2> QED BY <1>3, <1>4, <2>1 DEF Seen
<1>6. CASE pc'[s] = "refused"
  <2>1. AskedBy(s) # {} /\ AskedBy(s)' = {}
    BY <1>1, <1>6 DEF AskedBy, Asking
  <2> QED BY <1>3, <1>4, <2>1 DEF Runs!Refuse
<1> QED BY <1>1, <1>5, <1>6

\* The last flag of a run that is won grants it whole.
LEMMA WinGrants ==
  ASSUME Inv, Inv', PinIsKept, NEW s \in Senders, Win(s)
  PROVE UNCHANGED Seen \/ \E base \in Channels : Runs!Grant(s, base)
<1> DEFINE base == run[s]
           c == base + held[s]
           n == hello[s].count
<1>1. /\ pc[s] = "try" /\ base \in Nat /\ held[s] \in Nat /\ c \in Channels /\ base \in Channels
      /\ held[s] < n /\ n \in Nat \ {0} /\ base + n <= Total /\ Total \in Nat
      /\ hello[s] \in Hellos /\ hello' = hello /\ run' = run /\ ~claimed[c]
  <2>1. pc[s] = "try" /\ held[s] < n /\ base + n <= Total /\ hello' = hello /\ run' = run
        /\ ~claimed[c]
    BY DEF Win, Inv, Shape
  <2> QED BY <2>1, SenderTypes, NetAssumption DEF Inv, Channels, NetAssumption
<1>2. Claiming(s)
  BY DEF Claiming
<1>3. \A t \in Senders : t # s => AskedBy(t)' = AskedBy(t)
  BY <1>2, AskersStay
<1>4. CASE held[s] + 1 # n
  <2>1. pc'[s] = "try"
    BY <1>1, <1>4 DEF Win
  <2>2. AskedBy(s)' = AskedBy(s)
    BY <1>1, <2>1 DEF AskedBy
  <2>3. \A d \in Channels : Owner(d)' = Owner(d)
    BY <1>1, <1>2, <2>1, OwnersStay DEF Owning
  <2> QED BY <1>3, <2>2, <2>3 DEF Seen
<1>5. CASE held[s] + 1 = n
  <2>1. pc'[s] = "took" /\ held'[s] = n
    BY <1>1, <1>5 DEF Win, Go, Inv, TypeOK
  <2>2. /\ AskedBy(s) = {Request(hello[s])} /\ AskedBy(s)' = {}
    BY <1>1, <2>1 DEF AskedBy, Asking
  <2>3. \A d \in Run(base, n) : d \in Channels /\ Owner(d) = NoFd /\ Owner(d)' = s
    <3> TAKE d \in Run(base, n)
    <3>1. d \in Channels /\ (d \in Holds(s) \/ d = c)
      BY <1>1, <1>5 DEF Run, Holds, Channels
    <3>2. \A t \in Senders : t # s => d \notin Holds(t)
      BY <1>1, <3>1 DEF Inv, EveryClaimHasOneOwner
    <3>3. \A t \in Senders : ~Owns(t, d)
      BY <1>1, <3>2 DEF Owns, Owning
    <3>4. Owns(s, d)'
      BY <1>1, <2>1 DEF Owns, Owning, Holds, Run
    <3> QED BY <3>1, <3>3, <3>4, OwnerIs, OwnerIsNext DEF Inv
  <2>4. \A d \in Channels : d \notin Run(base, n) => Owner(d)' = Owner(d)
    <3> SUFFICES ASSUME NEW d \in Channels, d \notin Run(base, n) PROVE Owner(d)' = Owner(d)
      OBVIOUS
    <3>1. ~Owns(s, d) /\ ~Owns(s, d)'
      BY <1>1, <2>1 DEF Owns, Owning, Holds, Run
    <3>2. \A t \in Senders : t # s => (Owns(t, d)' <=> Owns(t, d))
      BY <1>2, OthersStay DEF Inv, Owns, Holds, Run
    <3> QED BY <3>1, <3>2, OwnerStays
  <2>5. hello[s].want < Total => base = hello[s].want
    BY <1>1 DEF PinIsKept
  <2>6. Runs!Grant(s, base)
    <3> DEFINE q == Request(hello[s])
    <3>1. q.count = n /\ q.pin = hello[s].want
      BY DEF Request
    <3>2. n > 0 /\ Run(base, n) \subseteq Channels
      BY <1>1, <2>3
    <3> QED
      BY <1>3, <2>2, <2>3, <2>4, <2>5, <3>1, <3>2
      DEF Runs!Grant, Runs!Run, Runs!Channels, Channels, Run
  <2> QED BY <1>1, <2>6
<1> QED BY <1>4, <1>5

\* A session at work keeps its run, and a closed socket had none.
LEMMA SessionUnseen ==
  ASSUME Inv, Inv', NEW s \in Senders, Took(s) \/ Leave(s) \/ ReleaseRecord(s) \/ Close(s)
  PROVE UNCHANGED Seen
<1>1. Claiming(s) \/ Leave(s) \/ Ending(s)
  BY DEF Claiming, Ending
<1>2. \A t \in Senders : t # s => AskedBy(t)' = AskedBy(t)
  BY <1>1, AskersStay
<1>3. CASE Close(s)
  <2>1. pc[s] \in {"close", "refused"} /\ pc'[s] = "idle"
    BY <1>3 DEF Close, Go, Inv, TypeOK
  <2>2. AskedBy(s)' = AskedBy(s)
    BY <2>1 DEF AskedBy, Asking
  <2>3. \A c \in Channels : Owner(c)' = Owner(c)
    BY <1>1, <2>1, OwnersStay DEF Owning
  <2> QED BY <1>2, <2>2, <2>3 DEF Seen
<1>4. CASE Took(s) \/ Leave(s) \/ ReleaseRecord(s)
  <2>1. /\ pc[s] \in Owning /\ pc'[s] \in Owning /\ UNCHANGED <<run, held>>
    BY <1>4 DEF Took, Leave, ReleaseRecord, Go, Shared, Inv, TypeOK, Owning
  <2>2. AskedBy(s)' = AskedBy(s)
    BY <2>1 DEF AskedBy, Asking, Owning
  <2>3. \A t \in Senders, c \in Channels : Owns(t, c)' <=> Owns(t, c)
    BY <1>1, <2>1, OthersStay DEF Inv, Owns, Holds
  <2> QED BY <1>2, <2>2, <2>3, Unseen
<1> QED BY <1>3, <1>4

\* release_channels() gives the lowest channel of the run back.
LEMMA UnclaimGivesBack ==
  ASSUME Inv, Inv', NEW s \in Senders, Unclaim(s)
  PROVE \E c \in Channels : Runs!GiveBack(s, c)
<1>0. PICK c \in Nat : c = run[s]
  BY DEF Inv, TypeOK
<1>1. /\ pc[s] = "unclaim" /\ run[s] = c /\ run[s] \in Nat /\ held[s] \in Nat /\ held[s] > 0
      /\ run'[s] = run[s] + 1 /\ held'[s] = held[s] - 1
      /\ pc'[s] \in {"release", "close"}
  BY <1>0 DEF Unclaim, Go, Inv, TypeOK, Shape
<1>2. Ending(s)
  BY DEF Ending
<1>3. c \in Holds(s) /\ Holds(s) \subseteq Channels /\ \A d \in Holds(s) : c <= d
  BY <1>1, HoldsFacts DEF Inv, Channels
<1>4. \A d \in Channels : Owner(d) = s <=> d \in Holds(s)
  <2> TAKE d \in Channels
  <2>1. Owns(s, d) <=> d \in Holds(s)
    BY <1>1 DEF Owns, Owning
  <2>2. CASE d \in Holds(s)
    BY <2>1, <2>2, OwnerIs DEF Inv
  <2>3. CASE d \notin Holds(s)
    <3>1. \A t \in Senders : Owns(t, d) => Owner(d) = t /\ t # s
      BY <2>1, <2>3, OwnerIs DEF Inv
    <3>2. (\A t \in Senders : ~Owns(t, d)) => Owner(d) = NoFd /\ NoFd # s
      BY OwnerIs, NetAssumption DEF Inv, NetAssumption
    <3> QED BY <2>3, <3>1, <3>2
  <2> QED BY <2>2, <2>3
<1>5. /\ Holds(s)' \subseteq Holds(s) /\ c \notin Holds(s)'
      /\ \A d \in Holds(s) : d # c => d \in Holds(s)' /\ pc'[s] = "release"
  <2>1. /\ Holds(s) = c .. c + held[s] - 1
        /\ Holds(s)' = c + 1 .. c + 1 + (held[s] - 1) - 1
    BY <1>1 DEF Holds, Run
  <2>2. held'[s] > 0 => pc'[s] = "release"
    BY <1>1 DEF Unclaim, Go, Inv, TypeOK
  <2> QED BY <1>1, <2>1, <2>2
<1>6. \A t \in Senders, d \in Channels : t # s => (Owns(t, d)' <=> Owns(t, d))
  BY <1>2, OthersStay DEF Inv, Owns, Holds, Run
<1>7. Owner(c)' = NoFd
  <2>1. \A t \in Senders : t # s => ~Owns(t, c)
    BY <1>3 DEF Inv, EveryClaimHasOneOwner, Owns
  <2>2. ~Owns(s, c)'
    BY <1>5 DEF Owns
  <2>3. \A t \in Senders : ~Owns(t, c)'
    BY <1>3, <1>6, <2>1, <2>2
  <2> QED BY <1>3, <2>3, OwnerIsNext DEF Inv
<1>8. \A d \in Channels : d # c => Owner(d)' = Owner(d)
  <2> SUFFICES ASSUME NEW d \in Channels, d # c PROVE Owner(d)' = Owner(d)
    OBVIOUS
  <2>1. Owns(s, d)' <=> Owns(s, d)
    BY <1>1, <1>5 DEF Owns, Owning
  <2> QED BY <1>6, <2>1, OwnerStays
<1>9. \A t \in Senders : AskedBy(t)' = AskedBy(t)
  <2>1. AskedBy(s)' = AskedBy(s)
    BY <1>1 DEF AskedBy, Asking
  <2> QED BY <1>2, <2>1, AskersStay
<1>10. Runs!GiveBack(s, c)
  <2>1. \A d \in Runs!Owned(s) : d \in Holds(s)
    BY <1>4 DEF Runs!Owned, Runs!Channels, Channels
  <2>2. c \in Runs!Owned(s)
    BY <1>3, <1>4 DEF Runs!Owned, Runs!Channels, Channels
  <2>3. [d \in Channels |-> Owner(d)'] = [[d \in Channels |-> Owner(d)] EXCEPT ![c] = NoFd]
    BY <1>3, <1>7, <1>8
  <2>4. \A d \in Runs!Owned(s) : c <= d
    BY <1>3, <2>1
  <2> QED BY <1>9, <2>2, <2>3, <2>4 DEF Runs!GiveBack
<1> QED BY <1>3, <1>10

\* forget_channel() is nothing to the senders.
LEMMA ForgetUnseen ==
  ASSUME Inv, Inv', NEW c \in Channels, ForgetClaim(c) \/ Forgetting(c)
  PROVE UNCHANGED Seen
<1>1. UNCHANGED <<pc, hello, run, held>>
  BY DEF ForgetClaim, Forgetting, ForgetRecord, ForgetEnd
<1>2. \A t \in Senders : AskedBy(t)' = AskedBy(t)
  BY <1>1 DEF AskedBy
<1>3. \A t \in Senders, d \in Channels : Owns(t, d)' <=> Owns(t, d)
  BY <1>1 DEF Owns, Holds
<1> QED BY <1>2, <1>3, Unseen

\* At the start nobody asks and nobody owns.
LEMMA RunsStart == Init => Runs!Init
<1> SUFFICES ASSUME Init PROVE Runs!Init
  OBVIOUS
<1>1. \A s \in Senders : AskedBy(s) = {}
  BY DEF Init, AskedBy, Asking
<1>2. \A c \in Channels : Owner(c) = NoFd
  BY DEF Init, Owner, Owns, Owning
<1> QED BY <1>1, <1>2 DEF Runs!Init, Runs!Channels, Channels

\* Each step of the threads is a step of ChannelRuns or nothing to it.
LEMMA RunsSteps ==
  ASSUME Inv, Inv', PinIsKept, [Next]_vars
  PROVE Runs!Next \/ UNCHANGED Seen
<1>1. ASSUME NEW s \in Senders, NEW h \in Hellos, Connect(s, h) PROVE Runs!Next
  BY <1>1, ConnectAsks DEF Runs!Next
<1>2. ASSUME NEW s \in Senders, Win(s) PROVE Runs!Next \/ UNCHANGED Seen
  BY <1>2, WinGrants DEF Runs!Next, Runs!Channels, Channels
<1>3. ASSUME NEW s \in Senders, Claiming(s), ~Win(s), ~Took(s)
      PROVE Runs!Next \/ UNCHANGED Seen
  BY <1>3, SearchRefuses DEF Runs!Next, Claiming
<1>4. ASSUME NEW s \in Senders, Took(s) \/ Leave(s) \/ ReleaseRecord(s) \/ Close(s)
      PROVE UNCHANGED Seen
  BY <1>4, SessionUnseen
<1>5. ASSUME NEW s \in Senders, Unclaim(s) PROVE Runs!Next
  BY <1>5, UnclaimGivesBack DEF Runs!Next, Runs!Channels, Channels
<1>6. ASSUME NEW c \in Channels, ForgetClaim(c) \/ Forgetting(c) PROVE UNCHANGED Seen
  BY <1>6, ForgetUnseen
<1>7. CASE UNCHANGED vars
  BY <1>7 DEF vars, Seen, AskedBy, Owner, Owns, Holds
<1> QED BY <1>1, <1>2, <1>3, <1>4, <1>5, <1>6, <1>7 DEF Next, Ending

\* The threads of net_audio.cpp, one atomic access at a time, keep the promise of
\* net_audio.h: whole runs, the pin if there is one, granted to one sender each.
THEOREM ThreadsImplementRuns == Spec => ImplementsChannelRuns
<1>1. Init => PinIsKept
  BY DEF Init, PinIsKept
<1>2. Inv /\ PinIsKept /\ [Next]_vars => PinIsKept'
  BY PinSteps
<1>3. Inv /\ Inv' /\ PinIsKept /\ [Next]_vars
        => [Runs!Next]_<<[s \in Senders |-> AskedBy(s)], [c \in Channels |-> Owner(c)]>>
  BY RunsSteps DEF Seen
<1>4. Spec => []Inv
  BY Invariance
<1> QED BY <1>1, <1>2, <1>3, <1>4, RunsStart, PTL DEF Spec, ImplementsChannelRuns, Runs!Spec

----------------------------------------------------------------------------
(* The inputs.  A request's place says what it holds and what it has done,  *)
(* and the thread that records is there only between two of them.           *)

PutPlaces ==
  {"idle", "store", "look", "lock", "delay", "start", "stop", "join", "reply"}
PutRecords == [op : {"none", "net", "garbled", "bt"}, at : PutPlaces, on : BOOLEAN, ms : Delays \cup {0}]
Somebody == Phones \cup {NoPhone}
BtPlaces ==
  {"none", "look", "sleep", "open", "claim", "configure", "loop", "wait", "place", "close",
   "release", "left", "ended"}
Threads == [pc : BtPlaces, phone : Somebody, pcm : BOOLEAN, ok : BOOLEAN, passes : Nat]
Shows == [state : {"off", "waiting", "streaming", "error"}, phone : Somebody, input : BOOLEAN]
NetStates ==
  [enabled : BOOLEAN, bt : BOOLEAN, ms : Delays, delay : Delays \cup {0}, from : Delays,
   rejected : BOOLEAN]

BtTypes ==
  /\ net \in NetStates /\ holder \in Clerks \cup {NoClerk} /\ put \in [Clerks -> PutRecords]
  /\ bus \in BOOLEAN /\ streams \in Seq(Phones) /\ channels \in {"free", "bt", "other"}
  /\ running \in BOOLEAN /\ thread \in Threads /\ shown \in Shows

\* What a request is for, by where it is.
PutFollows(k) ==
  LET p == put[k]
  IN /\ p.at = "idle" => p = NoPut
     /\ p.at = "store" => p.op \in {"net", "garbled"}
     /\ p.at \in {"look", "start", "stop", "join"} => p.op = "bt"
     /\ p.at = "lock" => p.op # "none"
     /\ p.at \in {"delay", "reply"} => p.op \in {"net", "bt"}
     /\ p.op \in {"net", "garbled"} => p.ms \in Delays
     /\ p.at \in {"stop", "join"} => ~p.on
     /\ p.at = "start" => p.on

\* The requests that hold delay_m_, and what each has done by then.
Locked == {"delay", "start", "stop", "join", "reply"}
HolderFollows ==
  \A k \in Clerks :
    /\ holder = k <=> put[k].at \in Locked
    /\ put[k].at = "start" => net.bt /\ net.delay # 0
    /\ put[k].at = "delay" /\ put[k].op = "bt" /\ put[k].on => net.bt
    /\ put[k].at = "join" => ~running

\* The delay is what the switches imply of the delay_ms it was derived from, or somebody
\* is about to derive it; and that is the one last stored, or else its request is
\* still served or was rejected.
DelayFollows ==
  /\ \/ net.delay = IF net.enabled \/ net.bt THEN net.from ELSE 0
     \/ \E k \in Clerks : put[k].at = "delay"
  /\ \/ net.ms = net.from \/ net.rejected
     \/ \E k \in Clerks : put[k].at = "delay"
     \/ \E k \in Clerks : put[k].at = "lock" /\ put[k].op \in {"net", "garbled"}

\* There is a thread only with the switch on and room in front of playout; one that is
\* told to end is waited for.
ThreadFollows ==
  /\ thread.pc # "none" => net.bt /\ net.delay # 0
  /\ running => thread.pc \notin {"none", "ended"}
  /\ thread.pc # "none" /\ ~running => \E k \in Clerks : put[k].at = "join"

BtIInv == BtTypes /\ (\A k \in Clerks : PutFollows(k)) /\ HolderFollows /\ DelayFollows
          /\ ThreadFollows /\ FailuresLetGo

Pcms == {"closed", "running", "xrun", "stuck", "gone"}
ReaderPlaces == {"none", "open", "wait", "place", "write", "close", "retry", "ended"}
WithPcm == {"wait", "place", "write", "close"}
Readers == [pc : ReaderPlaces, waited : Nat, anchored : BOOLEAN, capturing : BOOLEAN,
            ahead : Nat, age : Nat]
CaptureDevices == [plugged : BOOLEAN, pcm : Pcms, held : 0 .. Buffer]

DevTypes ==
  /\ up \in BOOLEAN /\ engine \in BOOLEAN /\ told \in Nat /\ device \in CaptureDevices
  /\ reader \in Readers /\ behind \in 0 .. MaxBehind /\ late \in {InTime} \cup Nat

\* Frames have a place only while there is a PCM to take them from; and while that
\* runs, what was captured is what the driver holds, and the place is right.
ReaderFollows ==
  /\ reader.pc \in WithPcm => device.pcm # "closed"
  /\ reader.pc \notin WithPcm => ~reader.anchored /\ ~reader.capturing
  /\ reader.capturing => reader.anchored
  /\ reader.pc = "write" => reader.anchored
  /\ device.pcm = "running" => behind = device.held
  /\ reader.anchored /\ device.pcm = "running" => reader.ahead = 0
  /\ told # 0 => told >= DeviceDelay

DevIInv == DevTypes /\ ReaderFollows

InputsIInv == BtIInv /\ DevIInv


\* A request moves on and is otherwise as it was.
LEMMA GoesIs ==
  ASSUME BtTypes, NEW k \in Clerks, NEW at \in PutPlaces, Goes(k, at)
  PROVE  /\ put' \in [Clerks -> PutRecords] /\ put'[k].at = at /\ put'[k].op = put[k].op
         /\ put'[k].on = put[k].on /\ put'[k].ms = put[k].ms
         /\ \A j \in Clerks : j # k => put'[j] = put[j]
<1>1. put \in [Clerks -> PutRecords] /\ put[k] \in PutRecords
  BY DEF BtTypes
<1>2. put' = [put EXCEPT ![k].at = at]
  BY DEF Goes
<1>3. put'[k] = [put[k] EXCEPT !.at = at] /\ \A j \in Clerks : j # k => put'[j] = put[j]
  BY <1>1, <1>2
<1>4. put'[k] \in PutRecords /\ put'[k].at = at /\ put'[k].op = put[k].op
      /\ put'[k].on = put[k].on /\ put'[k].ms = put[k].ms
  BY <1>1, <1>3 DEF PutRecords
<1> QED BY <1>1, <1>2, <1>3, <1>4

\* A request is answered.
LEMMA AnsweredIs ==
  ASSUME BtTypes, NEW k \in Clerks, put' = [put EXCEPT ![k] = NoPut]
  PROVE  /\ put' \in [Clerks -> PutRecords] /\ put'[k] = NoPut /\ put'[k].at = "idle"
         /\ put'[k].op = "none" /\ \A j \in Clerks : j # k => put'[j] = put[j]
<1>1. put \in [Clerks -> PutRecords] /\ NoPut \in PutRecords
  BY DEF BtTypes, NoPut, PutRecords, PutPlaces
<1> QED BY <1>1 DEF NoPut

\* The fields of what the requests change.
LEMMA NetIs ==
  ASSUME BtTypes
  PROVE  /\ net.enabled \in BOOLEAN /\ net.bt \in BOOLEAN /\ net.ms \in Delays
         /\ net.delay \in Delays \cup {0} /\ net.ms # 0 /\ Implied(net) \in Delays \cup {0}
         /\ (net.bt => Implied(net) # 0)
<1>1. net \in NetStates /\ 0 \notin Delays
  BY BtInputAssumption DEF BtTypes, BtInputAssumption
<1> QED BY <1>1 DEF NetStates, Implied

\* Only one request holds the lock.
LEMMA OneHolds ==
  ASSUME BtIInv, NEW k \in Clerks, NEW j \in Clerks, put[k].at \in Locked, put[j].at \in Locked
  PROVE  j = k
BY DEF BtIInv, HolderFollows

\* A step of the thread that leaves the requests, the bus and the phones alone.
LEMMA ThreadKeeps ==
  ASSUME BtIInv, Keeps, thread' \in Threads, shown' \in Shows, channels' \in {"free", "bt", "other"},
         thread.pc # "none", thread'.pc # "none", running => thread'.pc # "ended", FailuresLetGo'
  PROVE  BtIInv'
<1>1. UNCHANGED <<net, holder, put, bus, streams, running>>
  BY DEF Keeps, request
<1>2. BtTypes'
  BY <1>1 DEF BtIInv, BtTypes
<1>3. \A k \in Clerks : PutFollows(k)'
  BY <1>1 DEF BtIInv, PutFollows
<1>4. HolderFollows' /\ DelayFollows'
  BY <1>1 DEF BtIInv, HolderFollows, DelayFollows
<1>5. ThreadFollows'
  BY <1>1 DEF BtIInv, ThreadFollows
<1> QED BY <1>2, <1>3, <1>4, <1>5 DEF BtIInv


LEMMA CallStep ==
  ASSUME BtIInv, NEW k \in Clerks, Call(k)
  PROVE  BtIInv'
<1>1. PICK p \in Puts : /\ put' = [put EXCEPT ![k] = p] /\ put[k] = NoPut
                        /\ UNCHANGED <<net, holder, bus, streams, channels, running, thread, shown>>
  BY DEF Call, world, input
<1>2. p \in PutRecords /\ p.at \in {"store", "look"}
      /\ (p.at = "store" <=> p.op \in {"net", "garbled"})
      /\ (p.at = "look" <=> p.op = "bt") /\ (p.op \in {"net", "garbled"} => p.ms \in Delays)
  BY DEF Puts, PutRecords, PutPlaces
<1>3. /\ put' \in [Clerks -> PutRecords] /\ put'[k] = p /\ put[k].at = "idle" /\ put[k].op = "none"
      /\ \A j \in Clerks : j # k => put'[j] = put[j]
  BY <1>1, <1>2 DEF BtIInv, BtTypes, NoPut
<1>4. BtTypes'
  BY <1>1, <1>3 DEF BtIInv, BtTypes
<1>5. \A j \in Clerks : PutFollows(j)'
  BY <1>2, <1>3 DEF BtIInv, PutFollows
<1>6. HolderFollows'
  BY <1>1, <1>2, <1>3 DEF BtIInv, HolderFollows, Locked
<1>7. DelayFollows'
  BY <1>1, <1>3 DEF BtIInv, DelayFollows
<1>8. ThreadFollows'
  BY <1>1, <1>3 DEF BtIInv, ThreadFollows
<1>9. FailuresLetGo'
  BY <1>1 DEF BtIInv, FailuresLetGo
<1> QED BY <1>4, <1>5, <1>6, <1>7, <1>8, <1>9 DEF BtIInv

LEMMA PutNetStoresStep ==
  ASSUME BtIInv, NEW k \in Clerks, PutNetStores(k)
  PROVE  BtIInv'
<1>1. /\ put[k].at = "store" /\ net' = [net EXCEPT !.ms = put[k].ms] /\ Goes(k, "lock")
      /\ UNCHANGED <<holder, bus, streams, channels, running, thread, shown>>
  BY DEF PutNetStores, world, input
<1>2. /\ put' \in [Clerks -> PutRecords] /\ put'[k].at = "lock" /\ put'[k].op = put[k].op
      /\ put'[k].on = put[k].on /\ put'[k].ms = put[k].ms
      /\ \A j \in Clerks : j # k => put'[j] = put[j]
  BY <1>1, GoesIs DEF BtIInv, PutPlaces
<1>3. put[k].op \in {"net", "garbled"} /\ put[k].ms \in Delays
  BY <1>1 DEF BtIInv, PutFollows
<1>4. /\ net.enabled \in BOOLEAN /\ net.bt \in BOOLEAN /\ net.ms \in Delays /\ net \in NetStates
      /\ net.delay \in Delays \cup {0} /\ net.ms # 0 /\ Implied(net) \in Delays \cup {0}
      /\ (net.bt => Implied(net) # 0)
  BY NetIs DEF BtIInv, BtTypes
<1>5. /\ net' \in NetStates /\ net'.bt = net.bt /\ net'.delay = net.delay
      /\ net'.enabled = net.enabled /\ net'.from = net.from
  BY <1>1, <1>3, <1>4 DEF NetStates
<1>6. BtTypes'
  BY <1>1, <1>2, <1>3, <1>4, <1>5 DEF BtIInv, BtTypes
<1>7. \A j \in Clerks : PutFollows(j)'
  BY <1>1, <1>2, <1>3, <1>4, <1>5 DEF BtIInv, PutFollows, NoPut
<1>8. HolderFollows'
  BY <1>1, <1>2, <1>3, <1>4, <1>5 DEF BtIInv, HolderFollows, Locked
<1>9. DelayFollows'
  BY <1>1, <1>2, <1>3, <1>4, <1>5 DEF BtIInv, DelayFollows
<1>10. ThreadFollows'
  BY <1>1, <1>2, <1>3, <1>4, <1>5 DEF BtIInv, ThreadFollows
<1>11. FailuresLetGo'
  BY <1>1, <1>2, <1>3, <1>4, <1>5 DEF BtIInv, FailuresLetGo, Recording
<1> QED BY <1>6, <1>7, <1>8, <1>9, <1>10, <1>11 DEF BtIInv

LEMMA PutBtLooksStep ==
  ASSUME BtIInv, NEW k \in Clerks, PutBtLooks(k)
  PROVE  BtIInv'
<1>1. /\ put[k].at = "look" /\ put[k].op = "bt"
      /\ UNCHANGED <<net, holder, bus, streams, channels, running, thread, shown>>
      /\ put' = [put EXCEPT ![k] = NoPut] \/ Goes(k, "lock")
  BY DEF PutBtLooks, world, input, BtIInv, PutFollows
<1>2. /\ put' \in [Clerks -> PutRecords] /\ \A j \in Clerks : j # k => put'[j] = put[j]
      /\ \/ put'[k] = NoPut /\ put'[k].at = "idle" /\ put'[k].op = "none"
         \/ put'[k].at = "lock" /\ put'[k].op = "bt"
  <2>1. CASE put' = [put EXCEPT ![k] = NoPut]
    BY <2>1, AnsweredIs DEF BtIInv
  <2>2. CASE Goes(k, "lock")
    BY <1>1, <2>2, GoesIs DEF BtIInv, PutPlaces
  <2> QED BY <1>1, <2>1, <2>2
<1>3. BtTypes'
  BY <1>1, <1>2 DEF BtIInv, BtTypes
<1>4. \A j \in Clerks : PutFollows(j)'
  BY <1>2 DEF BtIInv, PutFollows
<1>5. HolderFollows'
  BY <1>1, <1>2 DEF BtIInv, HolderFollows, Locked
<1>6. DelayFollows'
  BY <1>1, <1>2 DEF BtIInv, DelayFollows
<1>7. ThreadFollows'
  BY <1>1, <1>2 DEF BtIInv, ThreadFollows
<1>8. FailuresLetGo'
  BY <1>1 DEF BtIInv, FailuresLetGo
<1> QED BY <1>3, <1>4, <1>5, <1>6, <1>7, <1>8 DEF BtIInv

\* A body that is wrong after all: answered, with its delay_ms left behind.
LEMMA PutRejectedStep ==
  ASSUME BtIInv, NEW k \in Clerks, put[k].at = "lock", holder = NoClerk, UNCHANGED holder,
         put' = [put EXCEPT ![k] = NoPut], net' = [net EXCEPT !.rejected = TRUE],
         UNCHANGED <<bus, streams, channels, running, thread, shown>>
  PROVE  BtIInv'
<1>1. /\ put' \in [Clerks -> PutRecords] /\ \A j \in Clerks : j # k => put'[j] = put[j]
      /\ put'[k] = NoPut /\ put'[k].at = "idle" /\ put'[k].op = "none"
  BY AnsweredIs DEF BtIInv
<1>2. net \in NetStates
  BY DEF BtIInv, BtTypes
<1>3. /\ net' \in NetStates /\ net'.rejected /\ net'.bt = net.bt /\ net'.enabled = net.enabled
      /\ net'.delay = net.delay /\ net'.from = net.from
  BY <1>2 DEF NetStates
<1>4. BtTypes'
  BY <1>1, <1>3 DEF BtIInv, BtTypes
<1>5. \A j \in Clerks : PutFollows(j)'
  BY <1>1 DEF BtIInv, PutFollows
<1>6. HolderFollows'
  BY <1>1, <1>3 DEF BtIInv, HolderFollows, Locked
<1>7. DelayFollows'
  BY <1>1, <1>3 DEF BtIInv, DelayFollows
<1>8. ThreadFollows'
  BY <1>1, <1>3 DEF BtIInv, ThreadFollows
<1>9. FailuresLetGo'
  BY DEF BtIInv, FailuresLetGo
<1> QED BY <1>4, <1>5, <1>6, <1>7, <1>8, <1>9 DEF BtIInv

\* The one that takes the lock.
LEMMA PutTakesStep ==
  ASSUME BtIInv, NEW k \in Clerks, put[k].at = "lock", holder = NoClerk, holder' = k,
         UNCHANGED <<bus, streams, channels, running, thread, shown>>,
         \/ put[k].op = "bt" /\ ~put[k].on /\ Goes(k, "stop") /\ net' = net
         \/ put[k].op = "bt" /\ put[k].on /\ Goes(k, "delay") /\ net' = [net EXCEPT !.bt = TRUE]
         \/ put[k].op = "net" /\ Goes(k, "delay") /\ net' = [net EXCEPT !.enabled = put[k].on]
  PROVE  BtIInv'
<1>1. /\ put[k].at = "lock" /\ holder = NoClerk /\ holder' = k
      /\ UNCHANGED <<bus, streams, channels, running, thread, shown>>
      /\ \/ put[k].op = "bt" /\ ~put[k].on /\ Goes(k, "stop") /\ net' = net
         \/ put[k].op = "bt" /\ put[k].on /\ Goes(k, "delay") /\ net' = [net EXCEPT !.bt = TRUE]
         \/ put[k].op = "net" /\ Goes(k, "delay") /\ net' = [net EXCEPT !.enabled = put[k].on]
  OBVIOUS
<1>2. /\ put[k].op \in {"net", "bt"} /\ (put[k].op = "net" => put[k].ms \in Delays)
      /\ put[k] \in PutRecords
  BY <1>1 DEF BtIInv, PutFollows, BtTypes
<1>3. \A j \in Clerks : put[j].at \notin Locked
  BY <1>1, BtInputAssumption DEF BtIInv, HolderFollows, BtInputAssumption
<1>4. /\ put' \in [Clerks -> PutRecords] /\ \A j \in Clerks : j # k => put'[j] = put[j]
      /\ put'[k].op = put[k].op /\ put'[k].on = put[k].on /\ put'[k].ms = put[k].ms
      /\ \/ put'[k].at = "stop" /\ put[k].op = "bt" /\ ~put[k].on /\ net' = net
         \/ /\ put'[k].at = "delay" /\ put[k].op = "bt" /\ put[k].on
            /\ net' = [net EXCEPT !.bt = TRUE]
         \/ /\ put'[k].at = "delay" /\ put[k].op = "net"
            /\ net' = [net EXCEPT !.enabled = put[k].on]
  <2>1. CASE Goes(k, "stop")
    BY <1>1, <2>1, GoesIs DEF BtIInv, PutPlaces
  <2>2. CASE Goes(k, "delay")
    <3>1. /\ put' \in [Clerks -> PutRecords] /\ \A j \in Clerks : j # k => put'[j] = put[j]
          /\ put'[k].op = put[k].op /\ put'[k].on = put[k].on /\ put'[k].ms = put[k].ms
          /\ put'[k].at = "delay"
      BY <2>2, GoesIs DEF BtIInv, PutPlaces
    <3>2. ~Goes(k, "stop")
      BY <3>1, GoesIs DEF BtIInv, PutPlaces
    <3> QED BY <1>1, <3>1, <3>2
  <2> QED BY <1>1, <2>1, <2>2
<1>5. net \in NetStates /\ net.bt \in BOOLEAN
  BY DEF BtIInv, BtTypes, NetStates
<1>6. /\ net' \in NetStates /\ net'.delay = net.delay
      /\ (put'[k].at = "delay" /\ put[k].op = "bt" => net'.bt)
      /\ (net.bt => net'.bt) /\ (put'[k].at = "stop" => net' = net)
  <2>1. CASE net' = net /\ put'[k].at = "stop"
    BY <1>5, <2>1
  <2>2. CASE net' = [net EXCEPT !.bt = TRUE] /\ put'[k].at = "delay"
    BY <1>5, <2>2 DEF NetStates
  <2>3. CASE net' = [net EXCEPT !.enabled = put[k].on] /\ put'[k].at = "delay" /\ put[k].op = "net"
    BY <1>2, <1>5, <2>3 DEF NetStates, PutRecords
  <2> QED BY <1>4, <2>1, <2>2, <2>3
<1>7. put'[k].at \in {"stop", "delay"} /\ (put'[k].at = "stop" => put[k].op = "bt" /\ ~put[k].on)
  BY <1>4
<1>8. BtTypes'
  BY <1>1, <1>4, <1>6 DEF BtIInv, BtTypes
<1>9. \A j \in Clerks : PutFollows(j)'
  <2>1. PutFollows(k)'
    BY <1>2, <1>4, <1>7 DEF PutFollows
  <2> QED BY <1>4, <2>1 DEF BtIInv, PutFollows
<1>10. HolderFollows'
  BY <1>1, <1>3, <1>4, <1>6, <1>7 DEF HolderFollows, Locked
<1>11. DelayFollows'
  <2>1. CASE put'[k].at = "delay"
    BY <2>1 DEF DelayFollows
  <2>2. CASE put'[k].at = "stop"
    BY <1>1, <1>3, <1>4, <1>6, <1>7, <2>2 DEF BtIInv, DelayFollows, Locked
  <2> QED BY <1>7, <2>1, <2>2
<1>12. ThreadFollows'
  BY <1>1, <1>3, <1>6 DEF BtIInv, ThreadFollows, Locked
<1>13. FailuresLetGo'
  BY <1>1 DEF BtIInv, FailuresLetGo
<1> QED BY <1>8, <1>9, <1>10, <1>11, <1>12, <1>13 DEF BtIInv

LEMMA PutLocksStep ==
  ASSUME BtIInv, NEW k \in Clerks, PutLocks(k)
  PROVE  BtIInv'
<1>1. /\ put[k].at = "lock" /\ holder = NoClerk
      /\ UNCHANGED <<bus, streams, channels, running, thread, shown>>
      /\ \/ /\ put' = [put EXCEPT ![k] = NoPut] /\ net' = [net EXCEPT !.rejected = TRUE]
            /\ UNCHANGED holder
         \/ /\ holder' = k
            /\ \/ put[k].op = "bt" /\ ~put[k].on /\ Goes(k, "stop") /\ net' = net
               \/ put[k].op = "bt" /\ put[k].on /\ Goes(k, "delay") /\ net' = [net EXCEPT !.bt = TRUE]
               \/ put[k].op = "net" /\ Goes(k, "delay") /\ net' = [net EXCEPT !.enabled = put[k].on]
  BY DEF PutLocks, world, input
<1>2. CASE holder' = k
  BY <1>1, <1>2, PutTakesStep, BtInputAssumption DEF BtInputAssumption
<1>3. CASE holder' # k
  BY <1>1, <1>3, PutRejectedStep
<1> QED BY <1>2, <1>3

LEMMA PutDelaysStep ==
  ASSUME BtIInv, NEW k \in Clerks, PutDelays(k)
  PROVE  BtIInv'
<1> DEFINE at == IF put[k].op = "bt" /\ put[k].on THEN "start" ELSE "reply"
<1>1. /\ put[k].at = "delay" /\ Goes(k, at)
      /\ net' = [net EXCEPT !.delay = Implied(net), !.from = net.ms, !.rejected = FALSE]
      /\ UNCHANGED <<holder, bus, streams, channels, running, thread, shown>>
  BY DEF PutDelays, Derived, world, input
<1>2. at \in {"start", "reply"} /\ (at = "start" <=> put[k].op = "bt" /\ put[k].on)
  OBVIOUS
<1> HIDE DEF at
<1>3. /\ put' \in [Clerks -> PutRecords] /\ put'[k].at = at /\ put'[k].op = put[k].op
      /\ put'[k].on = put[k].on /\ put'[k].ms = put[k].ms
      /\ \A j \in Clerks : j # k => put'[j] = put[j]
  BY <1>1, <1>2, GoesIs DEF BtIInv, PutPlaces
<1>4. /\ put[k].op \in {"net", "bt"} /\ (put[k].op = "net" => put[k].ms \in Delays)
      /\ (put[k].op = "bt" /\ put[k].on => net.bt) /\ holder = k
  BY <1>1 DEF BtIInv, PutFollows, HolderFollows, Locked
<1>5. \A j \in Clerks : j # k => put[j].at \notin Locked
  BY <1>1, OneHolds DEF Locked
<1>6. net \in NetStates /\ Implied(net) \in Delays \cup {0} /\ (net.bt => Implied(net) # 0)
  BY NetIs DEF BtIInv, BtTypes
<1>7. /\ net' \in NetStates /\ net'.bt = net.bt /\ net'.enabled = net.enabled /\ net'.ms = net.ms
      /\ net'.delay = Implied(net) /\ net'.from = net.ms
  BY <1>1, <1>6 DEF NetStates
<1>8. BtTypes'
  BY <1>1, <1>3, <1>7 DEF BtIInv, BtTypes
<1>9. \A j \in Clerks : PutFollows(j)'
  <2>1. PutFollows(k)'
    BY <1>2, <1>3, <1>4 DEF PutFollows
  <2> QED BY <1>3, <2>1 DEF BtIInv, PutFollows
<1>10. HolderFollows'
  <2>1. \A j \in Clerks : j # k => put'[j].at \notin Locked /\ holder' # j
    BY <1>1, <1>3, <1>4, <1>5
  <2>2. holder' = k /\ put'[k].at \in {"start", "reply"} /\ (put'[k].at = "start" => net'.bt /\ net'.delay # 0)
    BY <1>1, <1>2, <1>3, <1>4, <1>6, <1>7
  <2> QED BY <2>1, <2>2 DEF HolderFollows, Locked
<1>11. DelayFollows'
  BY <1>7 DEF DelayFollows, Implied
<1>12. ThreadFollows'
  BY <1>1, <1>3, <1>6, <1>7 DEF BtIInv, ThreadFollows
<1>13. FailuresLetGo'
  BY <1>1 DEF BtIInv, FailuresLetGo
<1> QED BY <1>8, <1>9, <1>10, <1>11, <1>12, <1>13 DEF BtIInv

LEMMA PutStartsStep ==
  ASSUME BtIInv, NEW k \in Clerks, PutStarts(k)
  PROVE  BtIInv'
<1>1. /\ put[k].at = "start" /\ Goes(k, "reply") /\ UNCHANGED <<net, holder, bus, streams, channels>>
      /\ \/ running /\ UNCHANGED <<running, thread, shown>>
         \/ /\ ~running /\ running' = TRUE /\ thread' = [NoThread EXCEPT !.pc = "look"]
            /\ shown' = [shown EXCEPT !.state = "waiting"]
  BY DEF PutStarts, world, input
<1>2. /\ put' \in [Clerks -> PutRecords] /\ put'[k].at = "reply" /\ put'[k].op = put[k].op
      /\ put'[k].on = put[k].on /\ put'[k].ms = put[k].ms
      /\ \A j \in Clerks : j # k => put'[j] = put[j]
  BY <1>1, GoesIs DEF BtIInv, PutPlaces
<1>3. put[k].op = "bt" /\ net.bt /\ net.delay # 0 /\ holder = k
  BY <1>1 DEF BtIInv, PutFollows, HolderFollows, Locked
<1>4. \A j \in Clerks : j # k => put[j].at \notin Locked
  BY <1>1, OneHolds DEF Locked
<1>5. ~running => thread.pc = "none"
  BY <1>1, <1>4 DEF BtIInv, ThreadFollows, Locked
<1>6. /\ thread' \in Threads /\ shown' \in Shows /\ running' \in BOOLEAN
      /\ \/ running /\ running' = running /\ thread' = thread
         \/ ~running /\ running' = TRUE /\ thread'.pc = "look" /\ ~thread'.pcm
  <2>1. thread \in Threads /\ shown \in Shows /\ running \in BOOLEAN /\ NoThread \in Threads
    BY DEF BtIInv, BtTypes, NoThread, Threads, BtPlaces, Somebody
  <2>2. CASE running
    BY <1>1, <2>1, <2>2
  <2>3. CASE ~running
    <3>1. thread' \in Threads /\ thread'.pc = "look" /\ ~thread'.pcm
      BY <1>1, <2>1, <2>3 DEF Threads, BtPlaces, NoThread
    <3>2. shown' \in Shows
      BY <1>1, <2>1, <2>3 DEF Shows
    <3> QED BY <1>1, <2>3, <3>1, <3>2
  <2> QED BY <2>2, <2>3
<1>7. BtTypes'
  BY <1>1, <1>2, <1>6 DEF BtIInv, BtTypes
<1>8. \A j \in Clerks : PutFollows(j)'
  <2>1. PutFollows(k)'
    BY <1>2, <1>3 DEF PutFollows
  <2> QED BY <1>2, <2>1 DEF BtIInv, PutFollows
<1>9. HolderFollows'
  BY <1>1, <1>2, <1>3, <1>4 DEF BtIInv, HolderFollows, Locked
<1>10. DelayFollows'
  BY <1>1, <1>2 DEF BtIInv, DelayFollows
<1>11. ThreadFollows'
  BY <1>1, <1>3, <1>6 DEF BtIInv, ThreadFollows
<1>12. FailuresLetGo'
  BY <1>1, <1>5, <1>6 DEF BtIInv, FailuresLetGo, Recording
<1> QED BY <1>7, <1>8, <1>9, <1>10, <1>11, <1>12 DEF BtIInv

LEMMA PutStopsStep ==
  ASSUME BtIInv, NEW k \in Clerks, PutStops(k)
  PROVE  BtIInv'
<1>1. /\ put[k].at = "stop" /\ Goes(k, "join") /\ running' = FALSE
      /\ UNCHANGED <<net, holder, bus, streams, channels, thread, shown>>
  BY DEF PutStops, world
<1>2. /\ put' \in [Clerks -> PutRecords] /\ put'[k].at = "join" /\ put'[k].op = put[k].op
      /\ put'[k].on = put[k].on /\ put'[k].ms = put[k].ms
      /\ \A j \in Clerks : j # k => put'[j] = put[j]
  BY <1>1, GoesIs DEF BtIInv, PutPlaces
<1>3. put[k].op = "bt" /\ ~put[k].on /\ holder = k
  BY <1>1 DEF BtIInv, PutFollows, HolderFollows, Locked
<1>4. \A j \in Clerks : j # k => put[j].at \notin Locked
  BY <1>1, OneHolds DEF Locked
<1>5. BtTypes'
  BY <1>1, <1>2 DEF BtIInv, BtTypes
<1>6. \A j \in Clerks : PutFollows(j)'
  <2>1. PutFollows(k)'
    BY <1>2, <1>3 DEF PutFollows
  <2> QED BY <1>2, <2>1 DEF BtIInv, PutFollows
<1>7. HolderFollows'
  BY <1>1, <1>2, <1>3, <1>4 DEF BtIInv, HolderFollows, Locked
<1>8. DelayFollows'
  BY <1>1, <1>2 DEF BtIInv, DelayFollows
<1>9. ThreadFollows'
  BY <1>1, <1>2 DEF BtIInv, ThreadFollows
<1>10. FailuresLetGo'
  BY <1>1 DEF BtIInv, FailuresLetGo
<1> QED BY <1>5, <1>6, <1>7, <1>8, <1>9, <1>10 DEF BtIInv

LEMMA PutJoinsStep ==
  ASSUME BtIInv, NEW k \in Clerks, PutJoins(k)
  PROVE  BtIInv'
<1>1. /\ put[k].at = "join" /\ thread.pc \in {"none", "ended"} /\ thread' = NoThread
      /\ shown' = NothingShown /\ net' = [net EXCEPT !.bt = FALSE] /\ Goes(k, "delay")
      /\ UNCHANGED <<holder, bus, streams, channels, running>>
  BY DEF PutJoins, world
<1>2. /\ put' \in [Clerks -> PutRecords] /\ put'[k].at = "delay" /\ put'[k].op = put[k].op
      /\ put'[k].on = put[k].on /\ put'[k].ms = put[k].ms
      /\ \A j \in Clerks : j # k => put'[j] = put[j]
  BY <1>1, GoesIs DEF BtIInv, PutPlaces
<1>3. put[k].op = "bt" /\ ~put[k].on /\ holder = k /\ ~running
  BY <1>1 DEF BtIInv, PutFollows, HolderFollows, Locked
<1>4. \A j \in Clerks : j # k => put[j].at \notin Locked
  BY <1>1, OneHolds DEF Locked
<1>5. net' \in NetStates
  BY <1>1 DEF BtIInv, BtTypes, NetStates
<1>6. thread' \in Threads /\ thread'.pc = "none" /\ ~thread'.pcm /\ shown' \in Shows
  BY <1>1 DEF NoThread, NothingShown, Threads, Shows, BtPlaces, Somebody
<1>7. BtTypes'
  BY <1>1, <1>2, <1>5, <1>6 DEF BtIInv, BtTypes
<1>8. \A j \in Clerks : PutFollows(j)'
  <2>1. PutFollows(k)'
    BY <1>2, <1>3 DEF PutFollows
  <2> QED BY <1>2, <2>1 DEF BtIInv, PutFollows
<1>9. HolderFollows'
  BY <1>1, <1>2, <1>3, <1>4 DEF HolderFollows, Locked
<1>10. DelayFollows'
  BY <1>2 DEF DelayFollows
<1>11. ThreadFollows'
  BY <1>1, <1>3, <1>6 DEF ThreadFollows
<1>12. FailuresLetGo'
  BY <1>1, <1>6 DEF BtIInv, FailuresLetGo, Recording
<1> QED BY <1>7, <1>8, <1>9, <1>10, <1>11, <1>12 DEF BtIInv

LEMMA PutRepliesStep ==
  ASSUME BtIInv, NEW k \in Clerks, PutReplies(k)
  PROVE  BtIInv'
<1>1. /\ put[k].at = "reply" /\ holder' = NoClerk /\ put' = [put EXCEPT ![k] = NoPut]
      /\ UNCHANGED <<net, bus, streams, channels, running, thread, shown>>
  BY DEF PutReplies, world, input
<1>2. /\ put' \in [Clerks -> PutRecords] /\ put'[k] = NoPut /\ put'[k].at = "idle"
      /\ put'[k].op = "none" /\ \A j \in Clerks : j # k => put'[j] = put[j]
  BY <1>1, AnsweredIs DEF BtIInv
<1>3. \A j \in Clerks : put'[j].at \notin Locked /\ holder' # j
  <2>1. \A j \in Clerks : j # k => put[j].at \notin Locked
    BY <1>1, OneHolds DEF Locked
  <2>2. NoClerk \notin Clerks
    BY BtInputAssumption DEF BtInputAssumption
  <2> QED BY <1>1, <1>2, <2>1, <2>2 DEF Locked
<1>4. BtTypes'
  BY <1>1, <1>2 DEF BtIInv, BtTypes
<1>5. \A j \in Clerks : PutFollows(j)'
  BY <1>2 DEF BtIInv, PutFollows
<1>6. HolderFollows'
  BY <1>3 DEF HolderFollows, Locked
<1>7. DelayFollows'
  BY <1>1, <1>2 DEF BtIInv, DelayFollows
<1>8. ThreadFollows'
  BY <1>1, <1>2 DEF BtIInv, ThreadFollows
<1>9. FailuresLetGo'
  BY <1>1 DEF BtIInv, FailuresLetGo
<1> QED BY <1>4, <1>5, <1>6, <1>7, <1>8, <1>9 DEF BtIInv

\* What the thread's steps make of its record.
LEMMA MovesIs ==
  ASSUME BtTypes, NEW p \in BtPlaces, Then(p)
  PROVE  thread' \in Threads /\ thread'.pc = p /\ thread'.pcm = thread.pcm
BY DEF BtTypes, Then, Threads

LEMMA AfreshIs ==
  ASSUME NEW p \in BtPlaces
  PROVE  /\ [NoThread EXCEPT !.pc = p] \in Threads /\ [NoThread EXCEPT !.pc = p].pc = p
         /\ ~[NoThread EXCEPT !.pc = p].pcm
BY DEF NoThread, Threads, Somebody

LEMMA FailsIs ==
  ASSUME BtTypes, Fails
  PROVE  thread' \in Threads /\ thread'.pc = "sleep" /\ ~thread'.pcm /\ shown' \in Shows
<1>1. thread' \in Threads /\ thread'.pc = "sleep" /\ ~thread'.pcm
  BY AfreshIs DEF Fails, BtPlaces
<1>2. shown' \in Shows
  BY DEF BtTypes, Fails, Shows
<1> QED BY <1>1, <1>2

LEMMA SourceIs ==
  ASSUME BtTypes
  PROVE  Source \in Somebody
BY DEF BtTypes, Source, Somebody


LEMMA BtLookStep ==
  ASSUME BtIInv, BtLook
  PROVE  BtIInv'
<1>1. /\ thread.pc = "look" /\ Keeps /\ channels' = channels
      /\ \/ ~running /\ Then("ended") /\ shown' = shown
         \/ running /\ Then("sleep") /\ shown' = Cleared
         \/ /\ running /\ thread' = [NoThread EXCEPT !.pc = "open", !.phone = Source]
            /\ shown' = [shown EXCEPT !.phone = Source]
  BY DEF BtLook, At
<1>2. channels \in {"free", "bt", "other"} /\ shown \in Shows /\ thread \in Threads
  BY DEF BtIInv, BtTypes
<1>3. Source \in Somebody
  BY SourceIs DEF BtIInv
<1>4. /\ thread' \in Threads /\ shown' \in Shows /\ ~thread'.pcm
      /\ thread'.pc \in {"ended", "sleep", "open"} /\ (running => thread'.pc # "ended")
  <2>0. ~thread.pcm
    BY <1>1 DEF BtIInv, FailuresLetGo, Recording
  <2>1. CASE ~running /\ Then("ended") /\ shown' = shown
    BY <1>2, <2>0, <2>1, MovesIs DEF BtIInv, BtPlaces
  <2>2. CASE running /\ Then("sleep") /\ shown' = Cleared
    <3>1. Cleared \in Shows
      BY DEF Cleared, Shows, Somebody
    <3> QED BY <2>0, <2>2, <3>1, MovesIs DEF BtIInv, BtPlaces
  <2>3. CASE /\ running /\ thread' = [NoThread EXCEPT !.pc = "open", !.phone = Source]
             /\ shown' = [shown EXCEPT !.phone = Source]
    <3>1. thread' \in Threads /\ ~thread'.pcm /\ thread'.pc = "open"
      BY <1>3, <2>3 DEF NoThread, Threads, BtPlaces
    <3>2. shown' \in Shows
      BY <1>2, <1>3, <2>3 DEF Shows
    <3> QED BY <3>1, <3>2
  <2> QED BY <1>1, <2>1, <2>2, <2>3
<1>5. FailuresLetGo'
  BY <1>1, <1>2, <1>3, <1>4 DEF BtIInv, FailuresLetGo, Recording
<1> QED BY <1>1, <1>2, <1>3, <1>4, <1>5, ThreadKeeps DEF BtIInv, BtTypes

LEMMA BtSleptStep ==
  ASSUME BtIInv, BtSlept
  PROVE  BtIInv'
<1>1. thread.pc = "sleep" /\ Keeps /\ channels' = channels /\ shown' = shown
      /\ thread' = [NoThread EXCEPT !.pc = "look"]
  BY DEF BtSlept, At
<1>2. channels \in {"free", "bt", "other"} /\ shown \in Shows /\ thread \in Threads
  BY DEF BtIInv, BtTypes
<1>3. thread' \in Threads /\ thread'.pc = "look" /\ ~thread'.pcm
  BY <1>1, AfreshIs DEF BtPlaces
<1>4. FailuresLetGo'
  BY <1>1, <1>2, <1>3 DEF BtIInv, FailuresLetGo, Recording
<1> QED BY <1>1, <1>2, <1>3, <1>4, ThreadKeeps DEF BtIInv, BtTypes

LEMMA BtOpenStep ==
  ASSUME BtIInv, BtOpen
  PROVE  BtIInv'
<1>1. /\ thread.pc = "open" /\ Keeps /\ channels' = channels
      /\ \/ thread' = [thread EXCEPT !.pc = "claim", !.pcm = TRUE] /\ shown' = shown
         \/ Fails
  BY DEF BtOpen, At
<1>2. channels \in {"free", "bt", "other"} /\ shown \in Shows /\ thread \in Threads
  BY DEF BtIInv, BtTypes
<1>3. /\ thread' \in Threads /\ shown' \in Shows
      /\ thread'.pc = "claim" \/ (thread'.pc = "sleep" /\ ~thread'.pcm)
  <2>1. CASE thread' = [thread EXCEPT !.pc = "claim", !.pcm = TRUE] /\ shown' = shown
    BY <1>2, <2>1 DEF Threads, BtPlaces
  <2>2. CASE Fails
    BY <2>2, FailsIs DEF BtIInv
  <2> QED BY <1>1, <2>1, <2>2
<1>4. FailuresLetGo'
  BY <1>1, <1>2, <1>3 DEF BtIInv, FailuresLetGo, Recording
<1> QED BY <1>1, <1>2, <1>3, <1>4, ThreadKeeps DEF BtIInv, BtTypes

LEMMA BtClaimStep ==
  ASSUME BtIInv, BtClaim
  PROVE  BtIInv'
<1>1. /\ thread.pc = "claim" /\ Keeps
      /\ \/ channels' = "bt" /\ Then("configure") /\ shown' = shown
         \/ Fails /\ channels' = channels
  BY DEF BtClaim, At
<1>2. channels \in {"free", "bt", "other"} /\ shown \in Shows /\ thread \in Threads
  BY DEF BtIInv, BtTypes
<1>3. /\ thread' \in Threads /\ shown' \in Shows
      /\ \/ thread'.pc = "configure" /\ channels' = "bt"
         \/ thread'.pc = "sleep" /\ ~thread'.pcm /\ channels' = channels
  <2>1. CASE channels' = "bt" /\ Then("configure") /\ shown' = shown
    BY <1>2, <2>1, MovesIs DEF BtIInv, BtPlaces
  <2>2. CASE Fails /\ channels' = channels
    BY <2>2, FailsIs DEF BtIInv
  <2> QED BY <1>1, <2>1, <2>2
<1>4. FailuresLetGo'
  BY <1>1, <1>2, <1>3 DEF BtIInv, FailuresLetGo, Recording
<1> QED BY <1>1, <1>2, <1>3, <1>4, ThreadKeeps DEF BtIInv, BtTypes

LEMMA BtReadyStep ==
  ASSUME BtIInv, BtReady
  PROVE  BtIInv'
<1>1. /\ thread.pc = "configure" /\ Keeps
      /\ \/ /\ Then("loop") /\ channels' = channels
            /\ shown' = [state |-> "waiting", phone |-> thread.phone, input |-> TRUE]
         \/ Fails /\ channels' = "free"
  BY DEF BtReady, At
<1>2. channels \in {"free", "bt", "other"} /\ shown \in Shows /\ thread \in Threads
  BY DEF BtIInv, BtTypes
<1>3. /\ thread' \in Threads /\ shown' \in Shows
      /\ \/ thread'.pc = "loop" /\ channels' = channels
         \/ thread'.pc = "sleep" /\ ~thread'.pcm /\ channels' = "free"
  <2>1. CASE /\ Then("loop") /\ channels' = channels
             /\ shown' = [state |-> "waiting", phone |-> thread.phone, input |-> TRUE]
    <3>1. thread' \in Threads /\ thread'.pc = "loop"
      BY <2>1, MovesIs DEF BtIInv, BtPlaces
    <3>2. shown' \in Shows
      BY <1>2, <2>1 DEF Shows, Threads
    <3> QED BY <2>1, <3>1, <3>2
  <2>2. CASE Fails /\ channels' = "free"
    BY <2>2, FailsIs DEF BtIInv
  <2> QED BY <1>1, <2>1, <2>2
<1>4. FailuresLetGo'
  BY <1>1, <1>2, <1>3 DEF BtIInv, FailuresLetGo, Recording
<1> QED BY <1>1, <1>2, <1>3, <1>4, ThreadKeeps DEF BtIInv, BtTypes

LEMMA BtLoopStep ==
  ASSUME BtIInv, BtLoop
  PROVE  BtIInv'
<1>1. /\ thread.pc = "loop" /\ Keeps /\ channels' = channels /\ shown' = shown
      /\ \/ Then("close")
         \/ thread' = [thread EXCEPT !.pc = "wait", !.passes = @ + 1]
         \/ thread' = [thread EXCEPT !.pc = "wait", !.passes = 0]
         \/ thread' = [thread EXCEPT !.pc = "close", !.passes = 0]
  BY DEF BtLoop, At
<1>2. channels \in {"free", "bt", "other"} /\ shown \in Shows /\ thread \in Threads
  BY DEF BtIInv, BtTypes
<1>3. thread' \in Threads /\ thread'.pc \in {"wait", "close"}
  <2>1. CASE Then("close")
    BY <2>1, MovesIs DEF BtIInv, BtPlaces
  <2>2. CASE thread' = [thread EXCEPT !.pc = "wait", !.passes = @ + 1]
    <3>1. thread.passes \in Nat
      BY <1>2 DEF Threads
    <3>2. PICK n \in Nat : n = thread.passes + 1
      BY <3>1
    <3>3. thread' = [thread EXCEPT !.pc = "wait", !.passes = n]
      BY <2>2, <3>2
    <3> QED BY <1>2, <3>3 DEF Threads, BtPlaces
  <2>3. CASE thread' = [thread EXCEPT !.pc = "wait", !.passes = 0]
    BY <1>2, <2>3 DEF Threads, BtPlaces
  <2>4. CASE thread' = [thread EXCEPT !.pc = "close", !.passes = 0]
    BY <1>2, <2>4 DEF Threads, BtPlaces
  <2> QED BY <1>1, <2>1, <2>2, <2>3, <2>4
<1>4. FailuresLetGo'
  BY <1>1, <1>2, <1>3 DEF BtIInv, FailuresLetGo, Recording
<1> QED BY <1>1, <1>2, <1>3, <1>4, ThreadKeeps DEF BtIInv, BtTypes

LEMMA BtWaitStep ==
  ASSUME BtIInv, BtWait
  PROVE  BtIInv'
<1>1. /\ thread.pc = "wait" /\ Keeps /\ channels' = channels
      /\ \/ /\ Then("loop")
            /\ shown' \in {shown, [shown EXCEPT !.state = IF @ = "streaming" THEN "waiting" ELSE @]}
         \/ /\ thread' \in {[thread EXCEPT !.pc = "loop"], [thread EXCEPT !.pc = "close", !.ok = FALSE]}
            /\ shown' = shown
         \/ Then("place") /\ shown' = shown
  BY DEF BtWait, At
<1>2. channels \in {"free", "bt", "other"} /\ shown \in Shows /\ thread \in Threads
  BY DEF BtIInv, BtTypes
<1>3. thread' \in Threads /\ thread'.pc \in {"loop", "close", "place"}
  <2>1. CASE Then("loop") \/ Then("place")
    BY <2>1, MovesIs DEF BtIInv, BtPlaces
  <2>2. CASE thread' \in {[thread EXCEPT !.pc = "loop"], [thread EXCEPT !.pc = "close", !.ok = FALSE]}
    BY <1>2, <2>2 DEF Threads, BtPlaces
  <2> QED BY <1>1, <2>1, <2>2
<1>4. shown' \in Shows
  BY <1>1, <1>2 DEF Shows
<1>5. FailuresLetGo'
  BY <1>1, <1>2, <1>3, <1>4 DEF BtIInv, FailuresLetGo, Recording
<1> QED BY <1>1, <1>2, <1>3, <1>4, <1>5, ThreadKeeps DEF BtIInv, BtTypes

LEMMA BtPlaceStep ==
  ASSUME BtIInv, BtPlace
  PROVE  BtIInv'
<1>1. /\ thread.pc = "place" /\ Keeps /\ channels' = channels /\ Then("loop")
      /\ \E s \in {"error", "streaming"} : shown' = [shown EXCEPT !.state = s]
  BY DEF BtPlace, At
<1>2. channels \in {"free", "bt", "other"} /\ shown \in Shows /\ thread \in Threads
  BY DEF BtIInv, BtTypes
<1>3. thread' \in Threads /\ thread'.pc = "loop"
  BY <1>1, MovesIs DEF BtIInv, BtPlaces
<1>4. shown' \in Shows
  BY <1>1, <1>2 DEF Shows
<1>5. FailuresLetGo'
  BY <1>1, <1>2, <1>3, <1>4 DEF BtIInv, FailuresLetGo, Recording
<1> QED BY <1>1, <1>2, <1>3, <1>4, <1>5, ThreadKeeps DEF BtIInv, BtTypes

LEMMA BtCloseStep ==
  ASSUME BtIInv, BtClose
  PROVE  BtIInv'
<1>1. /\ thread.pc = "close" /\ Keeps /\ channels' = channels /\ shown' = shown
      /\ thread' = [thread EXCEPT !.pc = "release", !.pcm = FALSE]
  BY DEF BtClose, At
<1>2. channels \in {"free", "bt", "other"} /\ shown \in Shows /\ thread \in Threads
  BY DEF BtIInv, BtTypes
<1>3. thread' \in Threads /\ thread'.pc = "release" /\ ~thread'.pcm
  BY <1>1, <1>2 DEF Threads, BtPlaces
<1>4. FailuresLetGo'
  BY <1>1, <1>2, <1>3 DEF BtIInv, FailuresLetGo, Recording
<1> QED BY <1>1, <1>2, <1>3, <1>4, ThreadKeeps DEF BtIInv, BtTypes

LEMMA BtReleaseStep ==
  ASSUME BtIInv, BtRelease
  PROVE  BtIInv'
<1>1. /\ thread.pc = "release" /\ Keeps /\ channels' = "free" /\ shown' = shown /\ Then("left")
  BY DEF BtRelease, At
<1>2. channels \in {"free", "bt", "other"} /\ shown \in Shows /\ thread \in Threads
  BY DEF BtIInv, BtTypes
<1>3. thread' \in Threads /\ thread'.pc = "left" /\ thread'.pcm = thread.pcm
  BY <1>1, MovesIs DEF BtIInv, BtPlaces
<1>4. FailuresLetGo'
  BY <1>1, <1>2, <1>3 DEF BtIInv, FailuresLetGo, Recording
<1> QED BY <1>1, <1>2, <1>3, <1>4, ThreadKeeps DEF BtIInv, BtTypes

LEMMA BtLeavesStep ==
  ASSUME BtIInv, BtLeaves
  PROVE  BtIInv'
<1>1. /\ thread.pc = "left" /\ Keeps /\ channels' = channels
      /\ \E p \in {"sleep", "look"} : thread' = [NoThread EXCEPT !.pc = p]
      /\ \E s \in {"error", "waiting"} : shown' = [shown EXCEPT !.state = s, !.input = FALSE]
  BY DEF BtLeaves, At
<1>2. channels \in {"free", "bt", "other"} /\ shown \in Shows /\ thread \in Threads
  BY DEF BtIInv, BtTypes
<1>3. thread' \in Threads /\ thread'.pc \in {"sleep", "look"} /\ ~thread'.pcm
  BY <1>1, AfreshIs DEF BtPlaces
<1>4. shown' \in Shows
  BY <1>1, <1>2 DEF Shows
<1>5. FailuresLetGo'
  BY <1>1, <1>2, <1>3, <1>4 DEF BtIInv, FailuresLetGo, Recording
<1> QED BY <1>1, <1>2, <1>3, <1>4, <1>5, ThreadKeeps DEF BtIInv, BtTypes

\* Phones, the bus and other senders: a run the thread has is nobody else's.
LEMMA WorldStep ==
  ASSUME BtIInv, World
  PROVE  BtIInv'
<1>1. /\ UNCHANGED <<net, holder, put, running, thread, shown>>
      /\ \/ /\ UNCHANGED <<bus, channels>>
            /\ \/ \E p \in Phones : streams' = Append(streams, p)
               \/ \E i \in DOMAIN streams :
                    streams' \in {RemoveAt(streams, i), Append(RemoveAt(streams, i), streams[i])}
         \/ bus' = ~bus /\ streams' = <<>> /\ UNCHANGED channels
         \/ /\ channels # "bt" /\ channels' \in {"free", "other"} /\ UNCHANGED <<bus, streams>>
  BY DEF World, request, input
<1>2. streams \in Seq(Phones) /\ bus \in BOOLEAN /\ channels \in {"free", "bt", "other"}
  BY DEF BtIInv, BtTypes
<1>3. bus' \in BOOLEAN /\ channels' \in {"free", "bt", "other"} /\ (channels' = "bt" <=> channels = "bt")
  BY <1>1, <1>2
<1>4. streams' \in Seq(Phones)
  <2>1. ASSUME NEW i \in DOMAIN streams
        PROVE  RemoveAt(streams, i) \in Seq(Phones) /\ streams[i] \in Phones
    <3>1. /\ SubSeq(streams, 1, i - 1) \in Seq(Phones)
          /\ SubSeq(streams, i + 1, Len(streams)) \in Seq(Phones) /\ streams[i] \in Phones
      BY <1>2, <2>1
    <3> QED BY <3>1 DEF RemoveAt
  <2>2. ASSUME NEW p \in Phones, streams' = Append(streams, p)
        PROVE  streams' \in Seq(Phones)
    BY <1>2, <2>2
  <2>3. ASSUME NEW i \in DOMAIN streams,
               streams' \in {RemoveAt(streams, i), Append(RemoveAt(streams, i), streams[i])}
        PROVE  streams' \in Seq(Phones)
    BY <2>1, <2>3
  <2>4. CASE streams' = <<>>
    <3>1. <<>> \in Seq(Phones)
      OBVIOUS
    <3> QED BY <2>4, <3>1
  <2>5. \/ \E p \in Phones : streams' = Append(streams, p)
        \/ \E i \in DOMAIN streams :
             streams' \in {RemoveAt(streams, i), Append(RemoveAt(streams, i), streams[i])}
        \/ streams' = <<>> \/ streams' = streams
    BY <1>1
  <2> QED BY <1>2, <2>2, <2>3, <2>4, <2>5
<1>5. BtTypes'
  BY <1>1, <1>3, <1>4 DEF BtIInv, BtTypes
<1>6. (\A k \in Clerks : PutFollows(k)') /\ HolderFollows' /\ DelayFollows' /\ ThreadFollows'
  BY <1>1 DEF BtIInv, PutFollows, HolderFollows, DelayFollows, ThreadFollows
<1>7. FailuresLetGo'
  BY <1>1, <1>3 DEF BtIInv, FailuresLetGo
<1> QED BY <1>5, <1>6, <1>7 DEF BtIInv


----------------------------------------------------------------------------
(* The other device.                                                       *)

LEMMA DeviceFits ==
  /\ Period \in Nat /\ Period # 0 /\ Buffer \in Nat /\ Guard \in Nat /\ MaxBehind \in Nat
  /\ DeviceDelay \in Nat /\ DeviceDelay >= Period + Guard /\ DeviceDelay # 0
<1>1. /\ Period \in Nat \ {0} /\ Buffer \in Nat /\ {Guard, MaxBehind} \subseteq Nat
      /\ DeviceDelay \in Nat /\ DeviceDelay >= Period + Guard
  BY DeviceInputAssumption DEF DeviceInputAssumption
<1> QED BY <1>1

LEMMA DelayIsANumber ==
  ASSUME BtTypes
  PROVE  net.delay \in Nat
<1>1. Delays \subseteq Nat
  BY BtInputAssumption DEF BtInputAssumption
<1>2. net.delay \in Delays \/ net.delay = 0
  BY NetIs
<1>3. CASE net.delay \in Delays
  BY <1>1, <1>3
<1>4. CASE net.delay = 0
  BY <1>4
<1> QED BY <1>2, <1>3, <1>4

LEMMA DevNumbers ==
  ASSUME DevTypes
  PROVE  /\ device.held \in Nat /\ device.held <= Buffer /\ behind \in Nat /\ behind <= MaxBehind
         /\ reader.ahead \in Nat /\ reader.age \in Nat /\ reader.waited \in Nat /\ told \in Nat
<1>1. device \in CaptureDevices /\ reader \in Readers /\ behind \in 0 .. MaxBehind /\ told \in Nat
  BY DEF DevTypes
<1>2. device.held \in 0 .. Buffer
  BY <1>1 DEF CaptureDevices
<1>3. reader.ahead \in Nat /\ reader.age \in Nat /\ reader.waited \in Nat
  BY <1>1 DEF Readers
<1> QED BY <1>1, <1>2, <1>3, DeviceFits

LEMMA ReaderMoves ==
  ASSUME DevTypes, NEW p \in ReaderPlaces, Moves(p)
  PROVE  /\ reader' \in Readers /\ reader'.pc = p /\ reader'.anchored = reader.anchored
         /\ reader'.capturing = reader.capturing /\ reader'.ahead = reader.ahead
<1>1. reader \in Readers /\ reader' = [reader EXCEPT !.pc = p]
  BY DEF DevTypes, Moves
<1>2. reader' \in Readers
  BY <1>1 DEF Readers
<1>3. /\ reader'.pc = p /\ reader'.anchored = reader.anchored
      /\ reader'.capturing = reader.capturing /\ reader'.ahead = reader.ahead
  BY <1>1 DEF Readers
<1> QED BY <1>2, <1>3

\* What the driver holds, once it runs again or is closed.
LEMMA PcmIs ==
  ASSUME DevTypes, NEW q \in Pcms, device' = [device EXCEPT !.pcm = q, !.held = 0]
  PROVE  device' \in CaptureDevices /\ device'.pcm = q /\ device'.held = 0
<1>1. device \in CaptureDevices /\ 0 \in 0 .. Buffer
  BY DeviceFits DEF DevTypes
<1> QED BY <1>1 DEF CaptureDevices

\* A reader that starts again.
LEMMA ClosedIs ==
  ASSUME NEW p \in ReaderPlaces
  PROVE  /\ [Closed EXCEPT !.pc = p] \in Readers /\ [Closed EXCEPT !.pc = p].pc = p
         /\ ~[Closed EXCEPT !.pc = p].anchored /\ ~[Closed EXCEPT !.pc = p].capturing
<1>1. [Closed EXCEPT !.pc = p] \in Readers
  BY DEF Closed, Readers
<1>2. /\ [Closed EXCEPT !.pc = p].pc = p
      /\ ~[Closed EXCEPT !.pc = p].anchored /\ ~[Closed EXCEPT !.pc = p].capturing
  BY DEF Closed
<1> QED BY <1>1, <1>2

\* A reader that has no place for its frames, and none to write, has nothing wrong.
LEMMA AdriftIs ==
  ASSUME DevIInv, reader' \in Readers, device' \in CaptureDevices, behind' \in 0 .. MaxBehind,
         ~reader'.anchored, ~reader'.capturing, reader'.pc # "write",
         reader'.pc \in WithPcm => device'.pcm # "closed",
         device'.pcm = "running" => behind' = device'.held,
         UNCHANGED <<up, engine, told, late>>
  PROVE  DevIInv'
<1>1. DevTypes'
  BY DEF DevIInv, DevTypes
<1>2. ReaderFollows'
  BY DEF DevIInv, ReaderFollows
<1> QED BY <1>1, <1>2 DEF DevIInv

LEMMA DevOpenStep ==
  ASSUME DevIInv, DevOpen
  PROVE  DevIInv'
<1>1. /\ reader.pc = "open" /\ UNCHANGED <<up, engine, told, late>>
      /\ \/ Moves("ended") /\ device' = device /\ behind' = behind
         \/ /\ device' = [device EXCEPT !.pcm = "running", !.held = 0] /\ behind' = 0
            /\ Moves("wait")
         \/ Moves("retry") /\ device' = device /\ behind' = behind
  BY DEF DevOpen, Reads
<1>2. /\ DevTypes /\ device \in CaptureDevices /\ behind \in 0 .. MaxBehind
      /\ ~reader.anchored /\ ~reader.capturing
      /\ (device.pcm = "running" => behind = device.held)
  BY <1>1 DEF DevIInv, DevTypes, ReaderFollows, WithPcm
<1>3. CASE Moves("ended") /\ device' = device /\ behind' = behind
  <2>1. reader' \in Readers /\ reader'.pc = "ended" /\ ~reader'.anchored /\ ~reader'.capturing
    BY <1>2, <1>3, ReaderMoves DEF ReaderPlaces
  <2> QED BY <1>1, <1>2, <1>3, <2>1, AdriftIs DEF WithPcm
<1>4. CASE Moves("retry") /\ device' = device /\ behind' = behind
  <2>1. reader' \in Readers /\ reader'.pc = "retry" /\ ~reader'.anchored /\ ~reader'.capturing
    BY <1>2, <1>4, ReaderMoves DEF ReaderPlaces
  <2> QED BY <1>1, <1>2, <1>4, <2>1, AdriftIs DEF WithPcm
<1>5. CASE /\ device' = [device EXCEPT !.pcm = "running", !.held = 0] /\ behind' = 0
           /\ Moves("wait")
  <2>1. reader' \in Readers /\ reader'.pc = "wait" /\ ~reader'.anchored /\ ~reader'.capturing
    BY <1>2, <1>5, ReaderMoves DEF ReaderPlaces
  <2>2. device' \in CaptureDevices /\ device'.pcm = "running" /\ device'.held = 0
    BY <1>2, <1>5, PcmIs DEF Pcms
  <2>3. behind' \in 0 .. MaxBehind
    BY <1>5, DeviceFits
  <2> QED BY <1>1, <1>5, <2>1, <2>2, <2>3, AdriftIs
<1> QED BY <1>1, <1>3, <1>4, <1>5

LEMMA DevCloseStep ==
  ASSUME DevIInv, DevClose
  PROVE  DevIInv'
<1>1. /\ UNCHANGED <<up, engine, told, behind, late>>
      /\ device' = [device EXCEPT !.pcm = "closed", !.held = 0]
      /\ \/ reader' = [Closed EXCEPT !.pc = "retry"]
         \/ reader' = [Closed EXCEPT !.pc = "open"]
  BY DEF DevClose, Drops
<1>2. DevTypes /\ behind \in 0 .. MaxBehind
  BY DEF DevIInv, DevTypes
<1>3. device' \in CaptureDevices /\ device'.pcm = "closed"
  BY <1>1, <1>2, PcmIs DEF Pcms
<1>4. /\ reader' \in Readers /\ reader'.pc \in {"retry", "open"}
      /\ ~reader'.anchored /\ ~reader'.capturing
  BY <1>1, ClosedIs DEF ReaderPlaces
<1> QED BY <1>1, <1>2, <1>3, <1>4, AdriftIs DEF WithPcm

LEMMA DevRetryStep ==
  ASSUME DevIInv, DevRetry
  PROVE  DevIInv'
<1>1. /\ reader.pc = "retry" /\ Moves("open") /\ UNCHANGED <<up, engine, told, device, behind, late>>
  BY DEF DevRetry, Reads
<1>2. /\ DevTypes /\ device \in CaptureDevices /\ behind \in 0 .. MaxBehind
      /\ ~reader.anchored /\ ~reader.capturing
      /\ (device.pcm = "running" => behind = device.held)
  BY <1>1 DEF DevIInv, DevTypes, ReaderFollows, WithPcm
<1>3. reader' \in Readers /\ reader'.pc = "open" /\ ~reader'.anchored /\ ~reader'.capturing
  BY <1>1, <1>2, ReaderMoves DEF ReaderPlaces
<1> QED BY <1>1, <1>2, <1>3, AdriftIs DEF WithPcm

\* A reader that keeps what it knows of its frames' place, and its PCM.
LEMMA PlacedIs ==
  ASSUME DevIInv, reader' \in Readers, reader.pc \in WithPcm, reader'.pc \in WithPcm \ {"write"},
         reader'.anchored = reader.anchored, reader'.capturing = reader.capturing,
         reader'.ahead = reader.ahead, UNCHANGED <<up, engine, told, device, behind, late>>
  PROVE  DevIInv'
<1>1. DevTypes'
  BY DEF DevIInv, DevTypes
<1>2. ReaderFollows'
  BY DEF DevIInv, ReaderFollows
<1> QED BY <1>1, <1>2 DEF DevIInv

LEMMA DevStallsStep ==
  ASSUME DevIInv, DevStalls
  PROVE  DevIInv'
<1>1. /\ reader.pc = "wait" /\ UNCHANGED <<up, engine, told, device, behind, late>>
      /\ \/ Moves("close")
         \/ reader' = [reader EXCEPT !.waited = @ + 1]
  BY DEF DevStalls, Reads, Moves
<1>2. DevTypes /\ reader \in Readers
  BY DEF DevIInv, DevTypes
<1>3. /\ reader' \in Readers /\ reader'.pc \in {"wait", "close"}
      /\ reader'.anchored = reader.anchored /\ reader'.capturing = reader.capturing
      /\ reader'.ahead = reader.ahead
  <2>1. CASE Moves("close")
    BY <1>2, <2>1, ReaderMoves DEF ReaderPlaces
  <2>2. CASE reader' = [reader EXCEPT !.waited = @ + 1]
    <3>1. PICK n \in Nat : n = reader.waited + 1
      BY <1>2, DevNumbers
    <3>2. reader' = [reader EXCEPT !.waited = n]
      BY <2>2, <3>1
    <3>3. reader' \in Readers
      BY <1>2, <3>2 DEF Readers
    <3>4. /\ reader'.pc = reader.pc
          /\ reader'.anchored = reader.anchored /\ reader'.capturing = reader.capturing
          /\ reader'.ahead = reader.ahead
      BY <1>2, <3>2 DEF Readers
    <3> QED BY <1>1, <3>3, <3>4
  <2> QED BY <1>1, <2>1, <2>2
<1> QED BY <1>1, <1>3, PlacedIs DEF WithPcm

LEMMA DevLeavesStep ==
  ASSUME DevIInv, DevLeaves
  PROVE  DevIInv'
<1>1. reader.pc = "wait" /\ Moves("close") /\ UNCHANGED <<up, engine, told, device, behind, late>>
  BY DEF DevLeaves, Reads
<1>2. /\ reader' \in Readers /\ reader'.pc = "close"
      /\ reader'.anchored = reader.anchored /\ reader'.capturing = reader.capturing
      /\ reader'.ahead = reader.ahead
  BY <1>1, ReaderMoves DEF DevIInv, ReaderPlaces
<1> QED BY <1>1, <1>2, PlacedIs DEF WithPcm

LEMMA DevXrunStep ==
  ASSUME DevIInv, DevXrun
  PROVE  DevIInv'
<1>1. /\ reader.pc = "wait" /\ device.pcm = "xrun" /\ UNCHANGED <<up, engine, told, late>>
      /\ \/ /\ reader' = [reader EXCEPT !.anchored = FALSE, !.capturing = FALSE, !.ahead = 0]
            /\ device' = [device EXCEPT !.pcm = "running", !.held = 0] /\ behind' = 0
         \/ /\ reader' = [reader EXCEPT !.pc = "close", !.anchored = FALSE, !.capturing = FALSE]
            /\ device' = device /\ behind' = behind
  BY DEF DevXrun, Reads, Restarts
<1>2. DevTypes /\ reader \in Readers /\ device \in CaptureDevices /\ behind \in 0 .. MaxBehind
  BY DEF DevIInv, DevTypes
<1>3. /\ reader' \in Readers /\ reader'.pc \in {"wait", "close"}
      /\ ~reader'.anchored /\ ~reader'.capturing
  <2>1. CASE reader' = [reader EXCEPT !.anchored = FALSE, !.capturing = FALSE, !.ahead = 0]
    BY <1>1, <1>2, <2>1 DEF Readers, ReaderPlaces
  <2>2. CASE reader' = [reader EXCEPT !.pc = "close", !.anchored = FALSE, !.capturing = FALSE]
    BY <1>2, <2>2 DEF Readers, ReaderPlaces
  <2> QED BY <1>1, <2>1, <2>2
<1>4. /\ device' \in CaptureDevices /\ behind' \in 0 .. MaxBehind /\ device'.pcm # "closed"
      /\ (device'.pcm = "running" => behind' = device'.held)
  <2>1. CASE device' = [device EXCEPT !.pcm = "running", !.held = 0] /\ behind' = 0
    BY <1>2, <2>1, PcmIs, DeviceFits DEF Pcms
  <2>2. CASE device' = device /\ behind' = behind
    BY <1>1, <1>2, <2>2
  <2> QED BY <1>1, <2>1, <2>2
<1> QED BY <1>1, <1>3, <1>4, AdriftIs

\* A read takes as much from what was captured as from what the driver holds.
LEMMA DevReadStep ==
  ASSUME DevIInv, DevRead
  PROVE  DevIInv'
<1>1. /\ reader.pc = "wait" /\ device.pcm = "running" /\ device.held >= Period
      /\ device' = [device EXCEPT !.held = @ - Period] /\ behind' = behind - Period
      /\ reader' = [reader EXCEPT !.pc = "place", !.waited = 0]
      /\ UNCHANGED <<up, engine, told, late>>
  BY DEF DevRead, Reads
<1>2. DevTypes /\ reader \in Readers /\ device \in CaptureDevices /\ behind = device.held
  BY <1>1 DEF DevIInv, DevTypes, ReaderFollows
<1>3. PICK n \in Nat : n = device.held - Period /\ n <= Buffer /\ n <= MaxBehind
  BY <1>1, <1>2, DevNumbers, DeviceFits
<1>4. device' = [device EXCEPT !.held = n] /\ n \in 0 .. Buffer /\ behind' = n /\ n \in 0 .. MaxBehind
  BY <1>1, <1>2, <1>3, DeviceFits
<1>5. device' \in CaptureDevices /\ device'.pcm = "running" /\ device'.held = n
  BY <1>1, <1>2, <1>4 DEF CaptureDevices
<1>6. /\ reader' \in Readers /\ reader'.pc = "place" /\ reader'.anchored = reader.anchored
      /\ reader'.capturing = reader.capturing /\ reader'.ahead = reader.ahead
  BY <1>1, <1>2 DEF Readers, ReaderPlaces
<1>7. DevTypes'
  BY <1>1, <1>4, <1>5, <1>6 DEF DevIInv, DevTypes
<1>8. ReaderFollows'
  BY <1>1, <1>4, <1>5, <1>6 DEF DevIInv, ReaderFollows, WithPcm
<1> QED BY <1>7, <1>8 DEF DevIInv

\* The first frames after a start go where the engine's axis has them now; while the
\* PCM runs that is no frame ahead, as the driver holds all that came in since.
LEMMA DevPlaceStep ==
  ASSUME DevIInv, DevPlace
  PROVE  DevIInv'
<1>1. /\ reader.pc = "place" /\ UNCHANGED <<up, engine, told, device, behind, late>>
      /\ \/ reader' = [reader EXCEPT !.pc = "wait", !.anchored = FALSE, !.capturing = FALSE, !.ahead = 0]
         \/ reader.anchored /\ reader' = [reader EXCEPT !.pc = "write", !.age = behind]
         \/ reader' = [reader EXCEPT !.pc = "write", !.age = behind, !.anchored = TRUE,
                                     !.capturing = TRUE, !.ahead = behind - Queued]
  BY DEF DevPlace, Reads
<1>2. /\ DevTypes /\ reader \in Readers /\ device \in CaptureDevices /\ behind \in 0 .. MaxBehind
      /\ device.pcm # "closed" /\ (device.pcm = "running" => behind = device.held) /\ behind \in Nat
  BY <1>1, DevNumbers DEF DevIInv, DevTypes, ReaderFollows, WithPcm
<1>3. CASE reader' = [reader EXCEPT !.pc = "wait", !.anchored = FALSE, !.capturing = FALSE, !.ahead = 0]
  <2>1. reader' \in Readers /\ reader'.pc = "wait" /\ ~reader'.anchored /\ ~reader'.capturing
    BY <1>2, <1>3 DEF Readers, ReaderPlaces
  <2> QED BY <1>1, <1>2, <2>1, AdriftIs
<1>4. CASE reader.anchored /\ reader' = [reader EXCEPT !.pc = "write", !.age = behind]
  <2>1. /\ reader' \in Readers /\ reader'.pc = "write" /\ reader'.anchored
        /\ reader'.capturing = reader.capturing /\ reader'.ahead = reader.ahead
    BY <1>2, <1>4 DEF Readers, ReaderPlaces
  <2>2. DevTypes'
    BY <1>1, <2>1 DEF DevIInv, DevTypes
  <2>3. ReaderFollows'
    BY <1>1, <1>2, <1>4, <2>1 DEF DevIInv, ReaderFollows, WithPcm
  <2> QED BY <2>2, <2>3 DEF DevIInv
<1>5. CASE reader' = [reader EXCEPT !.pc = "write", !.age = behind, !.anchored = TRUE,
                                    !.capturing = TRUE, !.ahead = behind - Queued]
  <2>1. PICK n \in Nat : n = behind - Queued /\ (device.pcm = "running" => n = 0)
    BY <1>2, DevNumbers DEF Queued
  <2>2. reader' = [reader EXCEPT !.pc = "write", !.age = behind, !.anchored = TRUE,
                                 !.capturing = TRUE, !.ahead = n]
    BY <1>5, <2>1
  <2>3. /\ reader' \in Readers /\ reader'.pc = "write" /\ reader'.anchored /\ reader'.ahead = n
    BY <1>2, <2>2 DEF Readers, ReaderPlaces
  <2>4. DevTypes'
    BY <1>1, <2>3 DEF DevIInv, DevTypes
  <2>5. ReaderFollows'
    BY <1>1, <1>2, <2>1, <2>3 DEF DevIInv, ReaderFollows, WithPcm
  <2> QED BY <2>4, <2>5 DEF DevIInv
<1> QED BY <1>1, <1>3, <1>4, <1>5

LEMMA DevWriteStep ==
  ASSUME DevIInv, DevWrite
  PROVE  DevIInv'
<1>1. /\ reader.pc = "write" /\ reader' = [reader EXCEPT !.pc = "wait", !.age = 0]
      /\ late' \in {reader.age, InTime} /\ UNCHANGED <<up, engine, told, device, behind>>
  BY DEF DevWrite, Reads
<1>2. reader \in Readers /\ reader.age \in Nat
  BY DevNumbers DEF DevIInv, DevTypes
<1>3. /\ reader' \in Readers /\ reader'.pc = "wait" /\ reader'.anchored = reader.anchored
      /\ reader'.capturing = reader.capturing /\ reader'.ahead = reader.ahead
  BY <1>1, <1>2 DEF Readers, ReaderPlaces
<1>4. DevTypes'
  BY <1>1, <1>2, <1>3 DEF DevIInv, DevTypes
<1>5. ReaderFollows'
  BY <1>1, <1>3 DEF DevIInv, ReaderFollows, WithPcm
<1> QED BY <1>4, <1>5 DEF DevIInv

LEMMA DevThreadStep ==
  ASSUME DevIInv, DevThread
  PROVE  DevIInv'
BY DevOpenStep, DevCloseStep, DevRetryStep, DevStallsStep, DevLeavesStep, DevXrunStep, DevReadStep,
   DevPlaceStep, DevWriteStep DEF DevThread

\* Time passes for the driver, running or not, and never for the reader.
LEMMA DevTickStep ==
  ASSUME DevIInv, DevTick
  PROVE  DevIInv'
<1>1. /\ device.pcm # "closed" /\ behind < MaxBehind /\ behind' = behind + 1
      /\ UNCHANGED <<up, engine, told, reader, late>>
      /\ \/ device.pcm # "running" /\ device' = device
         \/ /\ device.pcm = "running" /\ device.held < Buffer
            /\ device' = [device EXCEPT !.held = @ + 1]
         \/ device' = [device EXCEPT !.pcm = "xrun"]
  BY DEF DevTick
<1>2. /\ DevTypes /\ device \in CaptureDevices /\ behind \in Nat /\ device.held \in Nat
      /\ (device.pcm = "running" => behind = device.held)
  BY DevNumbers DEF DevIInv, DevTypes, ReaderFollows
<1>3. behind' \in 0 .. MaxBehind
  BY <1>1, <1>2, DeviceFits
<1>4. /\ device' \in CaptureDevices /\ device'.pcm # "closed"
      /\ (device'.pcm = "running" => device.pcm = "running" /\ behind' = device'.held)
  <2>1. CASE device.pcm # "running" /\ device' = device
    BY <1>1, <1>2, <2>1
  <2>2. CASE /\ device.pcm = "running" /\ device.held < Buffer
             /\ device' = [device EXCEPT !.held = @ + 1]
    <3>1. PICK n \in 0 .. Buffer : n = device.held + 1
      BY <1>2, <2>2, DeviceFits
    <3>2. device' = [device EXCEPT !.held = n]
      BY <2>2, <3>1
    <3>3. device' \in CaptureDevices /\ device'.pcm = "running" /\ device'.held = n
      BY <1>2, <2>2, <3>2 DEF CaptureDevices
    <3> QED BY <1>1, <1>2, <2>2, <3>1, <3>3
  <2>3. CASE device' = [device EXCEPT !.pcm = "xrun"]
    BY <1>2, <2>3 DEF CaptureDevices, Pcms
  <2> QED BY <1>1, <2>1, <2>2, <2>3
<1>5. DevTypes'
  BY <1>1, <1>3, <1>4 DEF DevIInv, DevTypes
<1>6. ReaderFollows'
  BY <1>1, <1>4 DEF DevIInv, ReaderFollows
<1> QED BY <1>5, <1>6 DEF DevIInv

LEMMA BlockStep ==
  ASSUME DevIInv, BtTypes, Block
  PROVE  DevIInv'
<1>1. /\ engine' = TRUE /\ UNCHANGED <<up, device, reader, behind, late>>
      /\ told' = IF net.delay > DeviceDelay THEN net.delay ELSE DeviceDelay
  BY DEF Block
<1>2. net.delay \in Nat
  BY DelayIsANumber
<1>3. told' \in Nat /\ told' >= DeviceDelay
  BY <1>1, <1>2, DeviceFits
<1>4. DevTypes'
  BY <1>1, <1>3 DEF DevIInv, DevTypes
<1>5. ReaderFollows'
  BY <1>1, <1>3 DEF DevIInv, ReaderFollows
<1> QED BY <1>4, <1>5 DEF DevIInv

LEMMA DevWorldStep ==
  ASSUME DevIInv, DevWorld
  PROVE  DevIInv'
<1>1. /\ UNCHANGED <<told, reader, behind, late>> /\ up' \in {up, FALSE} /\ engine' \in {engine, TRUE}
      /\ \/ device' = device
         \/ device' = [device EXCEPT !.plugged = FALSE,
                                     !.pcm = IF @ = "closed" THEN @ ELSE "gone"]
         \/ device.pcm = "running" /\ device' = [device EXCEPT !.pcm = "stuck"]
         \/ device' = [device EXCEPT !.plugged = TRUE]
  BY DEF DevWorld
<1>2. device \in CaptureDevices /\ up \in BOOLEAN /\ engine \in BOOLEAN
  BY DEF DevIInv, DevTypes
<1>3. /\ device' \in CaptureDevices /\ device'.held = device.held
      /\ (device'.pcm = "running" => device.pcm = "running")
      /\ (device'.pcm = "closed" => device.pcm = "closed")
  <2>1. CASE device' = device
    BY <1>2, <2>1
  <2>2. CASE device' = [device EXCEPT !.plugged = FALSE,
                                      !.pcm = IF @ = "closed" THEN @ ELSE "gone"]
    BY <1>2, <2>2 DEF CaptureDevices, Pcms
  <2>3. CASE device.pcm = "running" /\ device' = [device EXCEPT !.pcm = "stuck"]
    BY <1>2, <2>3 DEF CaptureDevices, Pcms
  <2>4. CASE device' = [device EXCEPT !.plugged = TRUE]
    BY <1>2, <2>4 DEF CaptureDevices
  <2> QED BY <1>1, <2>1, <2>2, <2>3, <2>4
<1>4. up' \in BOOLEAN /\ engine' \in BOOLEAN
  BY <1>1, <1>2
<1>5. DevTypes'
  BY <1>1, <1>3, <1>4 DEF DevIInv, DevTypes
<1>6. ReaderFollows'
  BY <1>1, <1>3 DEF DevIInv, ReaderFollows
<1> QED BY <1>5, <1>6 DEF DevIInv

----------------------------------------------------------------------------
(* The two together.                                                       *)

LEMMA InputsStart ==
  ASSUME InputsInit
  PROVE  InputsIInv
<1>1. PICK d \in Delays, on \in BOOLEAN :
        net = [enabled |-> on, bt |-> FALSE, ms |-> d, delay |-> IF on THEN d ELSE 0,
               from |-> d, rejected |-> FALSE]
  BY DEF InputsInit, BtInit
<1>2. /\ holder = NoClerk /\ put = [k \in Clerks |-> NoPut] /\ bus = TRUE /\ streams = <<>>
      /\ channels = "free" /\ running = FALSE /\ thread = NoThread /\ shown = NothingShown
  BY DEF InputsInit, BtInit
<1>3. /\ net \in NetStates /\ net.ms = net.from
      /\ net.delay = IF net.enabled \/ net.bt THEN net.from ELSE 0
  BY <1>1 DEF NetStates
<1>4. NoPut \in PutRecords /\ NoPut.at = "idle" /\ NoPut.op = "none" /\ NoClerk \notin Clerks
  BY BtInputAssumption DEF NoPut, PutRecords, PutPlaces, BtInputAssumption
<1>5. /\ thread \in Threads /\ thread.pc = "none" /\ ~thread.pcm /\ shown \in Shows
  BY <1>2 DEF NoThread, NothingShown, Threads, Shows, BtPlaces, Somebody
<1>6. BtTypes
  <2>1. put \in [Clerks -> PutRecords] /\ holder \in Clerks \cup {NoClerk}
    BY <1>2, <1>4
  <2>2. streams \in Seq(Phones)
    BY <1>2
  <2> QED BY <1>2, <1>3, <1>5, <2>1, <2>2 DEF BtTypes
<1>7. (\A k \in Clerks : PutFollows(k)) /\ HolderFollows /\ DelayFollows
  BY <1>2, <1>3, <1>4 DEF PutFollows, HolderFollows, DelayFollows, Locked
<1>8. ThreadFollows /\ FailuresLetGo
  BY <1>2, <1>5 DEF ThreadFollows, FailuresLetGo, Recording
<1>9. /\ up = TRUE /\ engine = FALSE /\ told = 0 /\ behind = 0 /\ late = InTime
      /\ \/ device = Absent /\ reader = [Closed EXCEPT !.pc = "none"]
         \/ device = [Absent EXCEPT !.plugged = TRUE] /\ reader = Closed
  BY DEF InputsInit, DevInit
<1>10. 0 \in 0 .. Buffer /\ 0 \in 0 .. MaxBehind
  BY DeviceFits
<1>11. device \in CaptureDevices /\ device.pcm = "closed"
  <2>1. \E b \in BOOLEAN : device = [plugged |-> b, pcm |-> "closed", held |-> 0]
    BY <1>9 DEF Absent
  <2> QED BY <1>10, <2>1 DEF CaptureDevices, Pcms
<1>12. /\ reader \in Readers /\ reader.pc \in {"none", "open"}
       /\ ~reader.anchored /\ ~reader.capturing
  <2>1. Closed \in Readers
    BY DEF Closed, Readers, ReaderPlaces
  <2>2. Closed.pc = "open" /\ ~Closed.anchored /\ ~Closed.capturing
    BY DEF Closed
  <2>3. CASE reader = [Closed EXCEPT !.pc = "none"]
    BY <2>3, ClosedIs DEF ReaderPlaces
  <2> QED BY <1>9, <2>1, <2>2, <2>3
<1>13. DevTypes
  BY <1>9, <1>10, <1>11, <1>12 DEF DevTypes
<1>14. ReaderFollows
  BY <1>9, <1>11, <1>12 DEF ReaderFollows, WithPcm
<1> QED BY <1>6, <1>7, <1>8, <1>13, <1>14 DEF InputsIInv, BtIInv, DevIInv

LEMMA BtStays ==
  ASSUME BtIInv, UNCHANGED <<request, world, input>>
  PROVE  BtIInv'
<1>1. UNCHANGED <<net, holder, put, bus, streams, channels, running, thread, shown>>
  BY DEF request, world, input
<1>2. BtTypes' /\ (\A k \in Clerks : PutFollows(k)')
  BY <1>1 DEF BtIInv, BtTypes, PutFollows
<1>3. HolderFollows' /\ DelayFollows' /\ ThreadFollows' /\ FailuresLetGo'
  BY <1>1 DEF BtIInv, HolderFollows, DelayFollows, ThreadFollows, FailuresLetGo
<1> QED BY <1>2, <1>3 DEF BtIInv

LEMMA DeviceStays ==
  ASSUME DevIInv, UNCHANGED devVars
  PROVE  DevIInv'
<1>1. UNCHANGED <<up, engine, told, device, reader, behind, late>>
  BY DEF devVars
<1> QED BY <1>1 DEF DevIInv, DevTypes, ReaderFollows

LEMMA InputsStep ==
  ASSUME InputsIInv, InputsNext \/ UNCHANGED inputVars
  PROVE  InputsIInv'
<1>1. BtIInv /\ DevIInv /\ BtTypes
  BY DEF InputsIInv, BtIInv
<1>2. CASE Calls
  BY <1>1, <1>2, CallStep, DeviceStays DEF Calls, InputsIInv
<1>3. ASSUME NEW k \in Clerks, Served(k) PROVE InputsIInv'
  <2>1. Serve(k) /\ UNCHANGED devVars
    BY <1>3 DEF Served
  <2>2. BtIInv'
    BY <1>1, <2>1, PutNetStoresStep, PutBtLooksStep, PutLocksStep, PutDelaysStep, PutStartsStep,
       PutStopsStep, PutJoinsStep, PutRepliesStep DEF Serve
  <2> QED BY <1>1, <2>1, <2>2, DeviceStays DEF InputsIInv
<1>4. CASE Recorded
  <2>1. ThreadStep /\ UNCHANGED devVars
    BY <1>4 DEF Recorded
  <2>2. BtIInv'
    BY <1>1, <2>1, BtLookStep, BtSleptStep, BtOpenStep, BtClaimStep, BtReadyStep, BtLoopStep,
       BtWaitStep, BtPlaceStep, BtCloseStep, BtReleaseStep, BtLeavesStep DEF ThreadStep
  <2> QED BY <1>1, <2>1, <2>2, DeviceStays DEF InputsIInv
<1>5. CASE Happens
  BY <1>1, <1>5, WorldStep, DeviceStays DEF Happens, InputsIInv
<1>6. CASE Captured
  BY <1>1, <1>6, DevThreadStep, BtStays DEF Captured, InputsIInv
<1>7. CASE Ticks
  BY <1>1, <1>7, DevTickStep, BtStays DEF Ticks, InputsIInv
<1>8. CASE Around
  BY <1>1, <1>8, BlockStep, DevWorldStep, BtStays DEF Around, InputsIInv
<1>9. CASE UNCHANGED inputVars
  <2>1. UNCHANGED <<request, world, input>> /\ UNCHANGED devVars
    BY <1>9 DEF inputVars, btVars
  <2> QED BY <1>1, <2>1, BtStays, DeviceStays DEF InputsIInv
<1> QED BY <1>2, <1>3, <1>4, <1>5, <1>6, <1>7, <1>8, <1>9 DEF InputsNext

\* Through every request, phone, failure, overrun and pull, in whatever order: the
\* requests go by the lock, the recording thread is there only between its start and
\* its join, and the reader has a place for its frames only while its PCM runs.
THEOREM InputsAlways == InputsSpec => []InputsIInv
<1>1. InputsInit => InputsIInv
  BY InputsStart
<1>2. InputsIInv /\ [InputsNext]_inputVars => InputsIInv'
  BY InputsStep
<1> QED BY <1>1, <1>2, PTL DEF InputsSpec

\* There is room in front of playout while there is a thread to place audio, the delay
\* is the one implied once the requests are answered, and whatever step fails lets the
\* PCM and the channels go (bt_input.cpp, PUT /api/bluetooth/input, PUT /api/net).
THEOREM InputsHold == InputsSpec => []InputInv
<1>1. InputsIInv => InputInv
  <2> SUFFICES ASSUME InputsIInv PROVE InputInv
    OBVIOUS
  <2>1. BtIInv /\ DevIInv /\ BtTypes /\ DevTypes /\ ReaderFollows /\ ThreadFollows
    BY DEF InputsIInv, BtIInv, DevIInv
  <2>2. BtTypeOK
    <3>1. /\ net.delay \in Delays \cup {0} /\ net.ms \in Delays /\ net.from \in Delays
          /\ net.rejected \in BOOLEAN
      BY <2>1 DEF BtTypes, NetStates
    <3>2. shown.state \in {"off", "waiting", "streaming", "error"} /\ shown.phone \in Phones \cup {NoPhone}
      BY <2>1 DEF BtTypes, Shows, Somebody
    <3> QED BY <2>1, <3>1, <3>2 DEF BtTypeOK, BtTypes, ThreadFollows
  <2>3. InputTypeOK
    <3>1. device.held \in 0 .. Buffer /\ behind \in 0 .. MaxBehind /\ late \in {InTime} \cup Nat
      BY <2>1 DEF DevTypes, CaptureDevices
    <3>2. reader.capturing => reader.anchored /\ device.pcm # "closed"
      BY <2>1 DEF ReaderFollows
    <3>3. device.pcm = "running" => behind = device.held
      BY <2>1 DEF ReaderFollows
    <3> QED BY <2>2, <3>1, <3>2, <3>3 DEF InputTypeOK
  <2>4. RoomInFront
    <3>1. net.delay \in Nat
      BY <2>1, DelayIsANumber
    <3>2. net.delay # 0 => net.delay > 0
      BY <3>1
    <3> QED BY <2>1, <3>2 DEF RoomInFront, ThreadFollows
  <2>5. DelayIsAsImplied
    <3>1. NoPut.at = "idle"
      BY DEF NoPut
    <3>2. Implied([net EXCEPT !.ms = net.from]) = IF net.enabled \/ net.bt THEN net.from ELSE 0
      BY <2>1 DEF BtTypes, NetStates, Implied
    <3>3. ASSUME \A k \in Clerks : put[k] = NoPut
          PROVE  \A k \in Clerks : put[k].at \notin {"delay", "lock"}
      BY <3>1, <3>3
    <3> QED BY <2>1, <3>2, <3>3 DEF DelayIsAsImplied, BtIInv, DelayFollows
  <2> QED BY <2>1, <2>3, <2>4, <2>5 DEF InputInv, BtIInv
<1> QED BY <1>1, InputsAlways, PTL

\* DeviceInput::stream(): however often the device overruns, stalls, is pulled or
\* starts before the engine, what is written while it runs goes where the axis has
\* the instant it was captured at.
THEOREM FramesAlwaysKeepTheirInstant == InputsSpec => []DeviceFramesKeepTheirInstant
<1>1. InputsIInv => DeviceFramesKeepTheirInstant
  BY DEF InputsIInv, DevIInv, ReaderFollows, DeviceFramesKeepTheirInstant, Reads
<1> QED BY <1>1, InputsAlways, PTL

\* NetTimeline::write(): audio is refused as late only if the thread was later with it
\* than the capture delay less a read and the guard, whatever the other inputs ask for.
THEOREM LateIsLate == InputsSpec => OnlyTheLateAreLate
<1>1. ASSUME InputsIInv, InputsNext, late' # late, late' # InTime
      PROVE  late' > DeviceDelay - Guard - Period
  <2>1. DevTypes /\ ReaderFollows
    BY <1>1 DEF InputsIInv, DevIInv
  <2>2. DevWrite
    BY <1>1 DEF InputsNext, Calls, Served, Recorded, Happens, Captured, Ticks, Around, DevThread,
       devVars, DevOpen, DevClose, DevRetry, DevStalls, DevLeaves, DevXrun, DevRead, DevPlace,
       DevTick, Block, DevWorld
  <2>3. told # 0 /\ Refused /\ late' = reader.age
    BY <1>1, <2>2 DEF DevWrite
  <2>4. told >= DeviceDelay
    BY <2>1, <2>3 DEF ReaderFollows
  <2>5. Period + reader.age - reader.ahead + Guard > told
    BY <2>3 DEF Refused
  <2> QED BY <2>1, <2>3, <2>4, <2>5, DevNumbers, DeviceFits
<1>2. InputsIInv /\ [InputsNext]_inputVars
      => [late' # late /\ late' # InTime => late' > DeviceDelay - Guard - Period]_inputVars
  BY <1>1
<1> QED BY <1>2, InputsAlways, PTL DEF InputsSpec, OnlyTheLateAreLate
=============================================================================

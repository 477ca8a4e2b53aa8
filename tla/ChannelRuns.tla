------------------------------ MODULE ChannelRuns ------------------------------
(***************************************************************************)
(* What the network inputs promise their senders (net_audio.h,             *)
(* claim_channels and release_channels): a sender that asks is given a run *)
(* of adjacent channels, all of it at once, that nobody else has, the one  *)
(* it pinned if it pinned one; or it is refused.  It gives its channels    *)
(* back one by one, the lowest first.                                      *)
(***************************************************************************)
EXTENDS Integers

CONSTANTS
  Total,    \* count(): the network channels there are
  Senders,  \* whoever may hold channels
  Nobody,   \* a channel's owner when it has none
  Requests  \* what may be asked for: count channels, pinned to start at pin
            \* (Total or more: anywhere)

VARIABLES
  asked,  \* for each sender what it is waiting for: a set of at most one request
  owner   \* for each channel who has it

Channels == 0 .. Total - 1
Run(base, count) == base .. base + count - 1

Owned(s) == {c \in Channels : owner[c] = s}

Init ==
  /\ asked = [s \in Senders |-> {}]
  /\ owner = [c \in Channels |-> Nobody]

Ask(s, q) ==
  /\ asked[s] = {} /\ Owned(s) = {}
  /\ asked' = [asked EXCEPT ![s] = {q}]
  /\ UNCHANGED owner

Grant(s, base) ==
  /\ \E q \in asked[s] :
       /\ q.count > 0 /\ Run(base, q.count) \subseteq Channels
       /\ q.pin < Total => base = q.pin
       /\ \A c \in Run(base, q.count) : owner[c] = Nobody
       /\ owner' = [c \in Channels |-> IF c \in Run(base, q.count) THEN s ELSE owner[c]]
  /\ asked' = [asked EXCEPT ![s] = {}]

Refuse(s) ==
  /\ asked[s] # {}
  /\ asked' = [asked EXCEPT ![s] = {}]
  /\ UNCHANGED owner

GiveBack(s, c) ==
  /\ c \in Owned(s) /\ \A d \in Owned(s) : c <= d
  /\ owner' = [owner EXCEPT ![c] = Nobody]
  /\ UNCHANGED asked

Next ==
  \E s \in Senders :
    \/ \E q \in Requests : Ask(s, q)
    \/ \E base \in Channels : Grant(s, base)
    \/ Refuse(s)
    \/ \E c \in Channels : GiveBack(s, c)

Spec == Init /\ [][Next]_<<asked, owner>>
=============================================================================

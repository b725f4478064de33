------------------------------- MODULE MCFeed --------------------------------
(* Instances of Feed and of LiveStore for TLC, which share nothing but a    *)
(* run: the first state says which of the two a behaviour is of.            *)
(*                                                                          *)
(* Store: two matches, any caller, each at an instant of its own.           *)
(* Feed: a request, over a match that everyone writes and another one of    *)
(* the same follow that keeps still.                                        *)
EXTENDS Feed, TLC

CONSTANTS o, c,     \* the matches; c is one this service created
          p,        \* the follow
          MaxEvents, MaxFeedEvents \* longest outboxes explored

MCPlayersOf == o :> {p} @@ c :> {p}

VARIABLE part

OfStore == /\ part = "store"
           /\ StoreNext /\ Len(events') <= MaxEvents
           /\ \A k \in DOMAIN events' : events'[k].at = k
           /\ Queued
           /\ UNCHANGED <<now, scheduledAt, requestVars, onShow, part>>

OfFeed == /\ part = "feed"
          /\ FeedNext /\ Len(events') <= MaxFeedEvents
          /\ status'[c] = status[c] /\ scheduledAt'[c] = scheduledAt[c]
          /\ UNCHANGED part

MCInit ==
  /\ FeedInit
  /\ \/ part = "feed" /\ scheduledAt[c] = 0 /\ ~decided[o] /\ ~decided[c]
     \/ part = "store" /\ scheduledAt = [m \in Matches |-> 0]

MCSpec == MCInit /\ [][OfStore \/ OfFeed]_<<feedVars, part>>
=============================================================================

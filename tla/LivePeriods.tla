----------------------------- MODULE LivePeriods -----------------------------
(***************************************************************************)
(* What the ingest side promises to the readers of the outbox, and nothing *)
(* of how it keeps the promise.  Every match is either not live or live    *)
(* since some instant.  A period opens with one `live` announcement and    *)
(* closes with one `finished` announcement; remarks about rain delays may  *)
(* be added to the feed and change nothing.                                *)
(***************************************************************************)
EXTENDS Naturals, Sequences

CONSTANTS Matches, \* the matches the service may show as live
          Times,   \* readings of the clock
          NotLive  \* no live period; not a reading of the clock

VARIABLES since,   \* since[m]: when the current live period of m began
          feed     \* every announcement made so far, oldest first

periodVars == <<since, feed>>

Announcement(m, kind, at) == [match |-> m, kind |-> kind, at |-> at]

PeriodsInit == /\ since = [m \in Matches |-> NotLive]
               /\ feed = <<>>

BeginPeriod(m, at) ==
  /\ since[m] = NotLive
  /\ since' = [since EXCEPT ![m] = at]
  /\ feed' = Append(feed, Announcement(m, "live", at))

EndPeriod(m, at) ==
  /\ since[m] # NotLive
  /\ since' = [since EXCEPT ![m] = NotLive]
  /\ feed' = Append(feed, Announcement(m, "finished", at))

(* MarkFlagSeen and AppendLiveEvent are two statements, so a remark may    *)
(* reach the feed after the period it is about has been closed.            *)
Remark(m, kind, at) ==
  /\ feed' = Append(feed, Announcement(m, kind, at))
  /\ UNCHANGED since

PeriodsNext ==
  \E m \in Matches, at \in Times :
    \/ BeginPeriod(m, at)
    \/ EndPeriod(m, at)
    \/ \E kind \in {"suspended", "resumed"} : Remark(m, kind, at)

PeriodsSpec == PeriodsInit /\ [][PeriodsNext]_periodVars
=============================================================================

-------------------------------- MODULE Feed ---------------------------------
(***************************************************************************)
(* The home screen and the widget (internal/storage/feed.go), which read   *)
(* the rows of LiveStore while everyone else writes them.  A request is a  *)
(* series of queries, each a step of its own; it reads the clock once.     *)
(* Beside it: the store's transactions, the pusher that consumes events,   *)
(* Job A that prunes what was consumed, the pipeline that dates the rows.  *)
(*                                                                         *)
(*   now           the clock                                               *)
(*   scheduledAt   column of matches, NoDate for NULL                      *)
(*   fate          what became of each event: Never consumed, consumed at  *)
(*                 an instant, or Gone from the table                      *)
(*   askedAt       the clock reading of the request, Never where there is  *)
(*                 none                                                    *)
(*   query         the one it makes next, or done                          *)
(*   rows          the widget's rows: a match and its date, by follow      *)
(*   state         of the widget                                           *)
(*   next, last    the season cards, by follow                             *)
(*   failed        the results could not be read, and the cards go without *)
(*   onShow        not the program's: the matches that were fit for a card *)
(*                 at every moment since the request began                 *)
(***************************************************************************)
EXTENDS LiveStore

CONSTANTS Followed,   \* the players the user follows
          PlayersOf,  \* match |-> the follows who play in it
          Entered,    \* follows with an upcoming tournament
          Dates,      \* what the pipeline may write to scheduled_at
          NoDate, NoMatch, Never, Gone,
          DayLength,  \* a local day
          Grace,      \* liveStaleGrace
          Retention,  \* of consumed events
          MaxRequest, \* longest request
          MaxClock    \* bound on the clock

VARIABLES now, scheduledAt, fate, askedAt, query, rows, state, next, last,
          failed, onShow

rowVars == <<scheduledAt, fate>>
requestVars == <<askedAt, query, rows, state, next, last, failed>>
feedVars == <<storeVars, now, rowVars, requestVars, onShow>>

(* Two weeks of journal against twelve hours of grace: the events of a     *)
(* match outlive it on the screen by far more than a request takes.        *)
ASSUME FeedAssumption ==
  /\ 0..MaxClock \subseteq Times
  /\ 0 \in RunIds
  /\ PlayersOf \in [Matches -> SUBSET Followed]
  /\ Entered \subseteq Followed
  /\ Dates \subseteq Nat /\ NoDate \notin Nat
  /\ NoMatch \notin Matches
  /\ Never \notin Nat /\ Gone \notin Nat /\ Never # Gone
  /\ MaxClock \in Nat /\ DayLength \in Nat \ {0}
  /\ Grace \in Nat /\ Retention \in Nat /\ MaxRequest \in Nat
  /\ Grace + MaxRequest <= Retention

-----------------------------------------------------------------------------
(* The predicates of the queries, for a request that read the clock at t.  *)

Dated(m) == scheduledAt[m] # NoDate
DayOf(t) == t \div DayLength
IsToday(d, t) == d # NoDate /\ DayOf(d) = DayOf(t)

(* Not notFinishedByIngest: the table still holds an event of its end, not *)
(* from before its date.                                                   *)
SeenEnding(m) ==
  \E k \in DOMAIN events : /\ events[k].match = m
                           /\ events[k].kind = "finished"
                           /\ fate[k] # Gone
                           /\ Dated(m) => events[k].at >= scheduledAt[m]

(* A live row always; a scheduled one unless it is stale or was seen to    *)
(* end.                                                                    *)
Upcoming(m, t) ==
  \/ status[m] = "live"
  \/ /\ status[m] = "scheduled"
     /\ Dated(m) => scheduledAt[m] + Grace >= t
     /\ ~SeenEnding(m)

(* Completed and dated yesterday or later.                                 *)
Recent(m, t) ==
  /\ status[m] = "completed"
  /\ Dated(m)
  /\ DayOf(scheduledAt[m]) + 1 >= DayOf(t)

MatchesOf(p) == {m \in Matches : p \in PlayersOf[m]}

Earlier(m, n) == Dated(n) => Dated(m) /\ scheduledAt[m] <= scheduledAt[n]
Later(m, n) == scheduledAt[m] >= scheduledAt[n]

(* What "distinct on" leaves of a set of rows: any of the first in the     *)
(* order, if there is one.                                                 *)
FirstOf(ms, Order(_, _)) ==
  IF ms = {} THEN {NoMatch} ELSE {m \in ms : \A n \in ms : Order(m, n)}

NextMatches(p, t) == FirstOf({m \in MatchesOf(p) : Upcoming(m, t)}, Earlier)
LastMatches(p, t) == FirstOf({m \in MatchesOf(p) : Recent(m, t)}, Later)

-----------------------------------------------------------------------------
(* Mutant of After: the results are read before the matches to come.       *)
AfterSwapped == [rows |-> "today", today |-> "last", last |-> "next", next |-> "done"]

(* The order of the queries: the widget's rows, what is on today, then the *)
(* season cards of fillSeason, with which the home screen begins.          *)
After == [rows |-> "today", today |-> "next", next |-> "last", last |-> "done"]

NoCards == [p \in Followed |-> NoMatch]
NoRows == [p \in Followed |-> [match |-> NoMatch, date |-> NoDate]]

Begin(first) ==
  /\ askedAt = Never
  /\ askedAt' = now
  /\ query' = first
  /\ UNCHANGED <<rows, state, next, last, failed>>

BeginHome == Begin(After.today)
BeginWidget == Begin("rows")

Reading(q) == query = q /\ query' = After[q]

ReadRows ==
  /\ Reading("rows")
  /\ \E f \in [Followed -> Matches \cup {NoMatch}] :
       /\ \A p \in Followed : f[p] \in NextMatches(p, askedAt)
       /\ rows' = [p \in Followed |->
                     [match |-> f[p],
                      date  |-> IF f[p] = NoMatch THEN NoDate
                                ELSE scheduledAt[f[p]]]]
  /\ UNCHANGED <<askedAt, state, next, last, failed>>

(* Mutant of OnToday: what has been played is not looked at.               *)
OnTodayUnplayed(t) == {m \in Matches : /\ status[m] \in {"scheduled", "live"}
                                       /\ IsToday(scheduledAt[m], t)}

(* The matches of the day, without the cancelled ones.                     *)
OnToday(t) == {m \in Matches : /\ status[m] \in {"scheduled", "live", "completed"}
                               /\ IsToday(scheduledAt[m], t)}

(* The matches of others are not modelled: there are some today, or none.  *)
(* The rows are of no further use to the request.                          *)
ReadToday(others) ==
  /\ Reading("today")
  /\ state' = CASE \A p \in Followed : rows[p].match = NoMatch /\ p \notin Entered
                     -> "no_matches"
                [] others /\ \A m \in OnToday(askedAt) : PlayersOf[m] = {}
                     -> "split"
                [] OTHER -> "rows"
  /\ rows' = NoRows
  /\ UNCHANGED <<askedAt, next, last, failed>>

ReadNext ==
  /\ Reading("next")
  /\ next' \in [Followed -> Matches \cup {NoMatch}]
  /\ \A p \in Followed : next'[p] \in NextMatches(p, askedAt)
  /\ UNCHANGED <<askedAt, rows, state, last, failed>>

ReadLast ==
  /\ Reading("last")
  /\ last' \in [Followed -> Matches \cup {NoMatch}]
  /\ \A p \in Followed : last'[p] \in LastMatches(p, askedAt)
  /\ UNCHANGED <<askedAt, rows, state, next, failed>>

(* The results are an addition: when they cannot be read, none are sent.   *)
LastFails ==
  /\ Reading("last")
  /\ failed' = TRUE
  /\ UNCHANGED <<askedAt, rows, state, next, last>>

(* The answer is sent, or the request fails at another of its queries.     *)
End ==
  /\ askedAt # Never
  /\ askedAt' = Never /\ query' = "done"
  /\ rows' = NoRows /\ state' = "rows"
  /\ next' = NoCards /\ last' = NoCards /\ failed' = FALSE

Request ==
  /\ \/ BeginHome \/ BeginWidget
     \/ ReadRows \/ \E others \in BOOLEAN : ReadToday(others)
     \/ ReadNext \/ ReadLast \/ LastFails
     \/ End
  /\ UNCHANGED <<storeVars, now, rowVars>>

-----------------------------------------------------------------------------
(* The writers.  A new event is one nobody has consumed.                   *)

Queued == fate' = IF events' = events THEN fate ELSE Append(fate, Never)

Transaction ==
  /\ \E m \in Matches :
       \/ FlipLive(m, Api, 0, now)
       \/ FlipOut(m, now)
       \/ RetireCreatedMatches({m})
       \/ \E s \in PipelineStatuses, winner \in BOOLEAN : PipelineWrites(m, s, winner)
  /\ Queued
  /\ UNCHANGED <<now, scheduledAt, requestVars>>

(* The pipeline dates its rows, and a fixture the rows made of it, until   *)
(* there is a result; a row made of a fixture always has a date.           *)
Redate(m, d) ==
  /\ ~decided[m]
  /\ m \in Created => d # NoDate
  /\ scheduledAt' = [scheduledAt EXCEPT ![m] = d]
  /\ UNCHANGED <<storeVars, now, fate, requestVars>>

Consume(k) ==
  /\ fate[k] = Never
  /\ fate' = [fate EXCEPT ![k] = now]
  /\ UNCHANGED <<storeVars, now, scheduledAt, requestVars>>

(* Mutant of Prune: an event that was consumed is of no more use.          *)
PruneEarly ==
  /\ fate' = [k \in DOMAIN fate |->
                IF fate[k] \in Nat /\ fate[k] < now THEN Gone ELSE fate[k]]
  /\ UNCHANGED <<storeVars, now, scheduledAt, requestVars>>

(* Job A: consumed events past their retention.                            *)
Prune ==
  /\ fate' = [k \in DOMAIN fate |->
                IF fate[k] \in Nat /\ fate[k] + Retention < now THEN Gone ELSE fate[k]]
  /\ UNCHANGED <<storeVars, now, scheduledAt, requestVars>>

Elapse ==
  /\ now < MaxClock
  /\ askedAt # Never => now < askedAt + MaxRequest
  /\ now' = now + 1
  /\ UNCHANGED <<storeVars, rowVars, requestVars>>

(* Fit for a card of a request under way: to come, or played since         *)
(* yesterday.                                                              *)
Fit == {m \in Matches : Upcoming(m, askedAt) \/ Recent(m, askedAt)}

Watch == onShow' = CASE askedAt' = Never -> {}
                     [] askedAt = Never -> Fit'
                     [] OTHER -> onShow \cap Fit'

FeedInit ==
  /\ StoreInit
  /\ now = 0
  /\ scheduledAt \in [Matches -> Dates \cup {NoDate}]
  /\ \A m \in Created : Dated(m)
  /\ fate = <<>>
  /\ askedAt = Never /\ query = "done"
  /\ rows = NoRows /\ state = "rows"
  /\ next = NoCards /\ last = NoCards /\ failed = FALSE
  /\ onShow = {}

FeedNext ==
  /\ \/ Request
     \/ Transaction
     \/ \E m \in Matches, d \in Dates \cup {NoDate} : Redate(m, d)
     \/ \E k \in DOMAIN fate : Consume(k)
     \/ Prune
     \/ Elapse
  /\ Watch

FeedSpec == FeedInit /\ [][FeedNext]_feedVars

-----------------------------------------------------------------------------
FeedTypeOK ==
  /\ now \in 0..MaxClock
  /\ scheduledAt \in [Matches -> Dates \cup {NoDate}]
  /\ fate \in Seq(Nat \cup {Never, Gone})
  /\ askedAt \in 0..MaxClock \cup {Never}
  /\ query \in {"rows", "today", "next", "last", "done"}
  /\ rows \in [Followed -> [match : Matches \cup {NoMatch}, date : Dates \cup {NoDate}]]
  /\ state \in {"rows", "no_matches", "split"}
  /\ next \in [Followed -> Matches \cup {NoMatch}]
  /\ last \in [Followed -> Matches \cup {NoMatch}]
  /\ failed \in BOOLEAN
  /\ onShow \subseteq Matches

(* A match that was seen to end, not before its date, never comes back as  *)
(* a match to come: neither while the event waits, nor when the pusher has *)
(* consumed it, nor when Job A has deleted it, which it may do between the *)
(* clock reading of a request and its query.  Only a new date or a new     *)
(* rise brings it back.  (Without a date the row does come back.)          *)
EndedStaysOut ==
  \A t \in {now, askedAt} \ {Never}, m \in Matches :
    Upcoming(m, t) /\ status[m] = "scheduled" /\ Dated(m) =>
      \A k \in DOMAIN events :
        events[k].match = m /\ events[k].kind = "finished"
          => events[k].at < scheduledAt[m]

(* A match that is fit for a card at every moment of a request is not      *)
(* missed between its two queries: a follow who has one gets a card that   *)
(* is not empty, though the match may be raised, put out and completed     *)
(* while the request runs.                                                 *)
NobodyMissed ==
  askedAt # Never /\ query = "done" /\ ~failed =>
    \A m \in onShow, p \in Followed :
      p \in PlayersOf[m] => next[p] # NoMatch \/ last[p] # NoMatch

(* The widget says that no follow plays today only if its rows do not say  *)
(* otherwise, unless that match was cancelled or moved between the two     *)
(* queries.                                                                *)
SplitMeansNobodyToday ==
  [][state # "split" /\ state' = "split" =>
       \A p \in Followed :
         rows[p].match # NoMatch /\ IsToday(rows[p].date, askedAt) =>
           \/ status[rows[p].match] = "cancelled"
           \/ scheduledAt[rows[p].match] # rows[p].date]_feedVars
=============================================================================

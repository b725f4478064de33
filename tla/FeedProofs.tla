----------------------------- MODULE FeedProofs ------------------------------
(***************************************************************************)
(* What the screens show, for any number of matches, follows and events    *)
(* and any dates.                                                          *)
(***************************************************************************)
EXTENDS Feed, LiveStoreProofs

(* The clock, and the request that read it not long ago.                   *)
Clocks ==
  /\ now \in 0..MaxClock
  /\ askedAt \in 0..MaxClock \cup {Never}
  /\ askedAt # Never => askedAt <= now /\ now <= askedAt + MaxRequest

LEMMA ClocksInvariant == FeedSpec => []Clocks
  <1> USE FeedAssumption
  <1>1. FeedInit => Clocks
    BY DEF FeedInit, Clocks
  <1>2. Clocks /\ [FeedNext]_feedVars => Clocks'
    <2> SUFFICES ASSUME Clocks, [FeedNext]_feedVars PROVE Clocks'
      OBVIOUS
    <2> USE DEF Clocks
    <2>1. CASE Request
      <3>1. now' = now /\ askedAt' \in {askedAt, now, Never}
        BY <2>1 DEF Request, BeginHome, BeginWidget, Begin, ReadRows, ReadToday, ReadNext,
                    ReadLast, LastFails, End
      <3>2. now \in Nat /\ now <= now + MaxRequest
        OBVIOUS
      <3>3. CASE askedAt' = askedAt
        BY <3>1, <3>3
      <3>4. CASE askedAt' = now
        BY <3>1, <3>2, <3>4
      <3>5. CASE askedAt' = Never
        BY <3>1, <3>5
      <3> QED BY <3>1, <3>3, <3>4, <3>5
    <2>2. CASE Elapse
      BY <2>2 DEF Elapse, requestVars
    <2>3. ASSUME Transaction \/ (\E m \in Matches, d \in Dates \cup {NoDate} : Redate(m, d))
                   \/ (\E k \in DOMAIN fate : Consume(k)) \/ Prune
          PROVE  Clocks'
      BY <2>3 DEF Transaction, Redate, Consume, Prune, requestVars
    <2>4. CASE UNCHANGED feedVars
      BY <2>4 DEF feedVars, requestVars
    <2> QED BY <2>1, <2>2, <2>3, <2>4 DEF FeedNext
  <1> QED BY <1>1, <1>2, PTL DEF FeedSpec

(* Only its transactions write the store.                                  *)
LEMMA OnlyTransactions ==
  ASSUME Clocks, [FeedNext]_feedVars
  PROVE  [StoreNext]_storeVars
  <1> USE FeedAssumption
  <1>1. CASE Transaction
    <2>1. PICK m \in Matches :
            \/ FlipLive(m, Api, 0, now)
            \/ FlipOut(m, now)
            \/ RetireCreatedMatches({m})
            \/ \E s \in PipelineStatuses, winner \in BOOLEAN : PipelineWrites(m, s, winner)
      BY <1>1 DEF Transaction
    <2>2. now \in Times /\ Api \in {"livetennisapi"}
      BY DEF Clocks, Api
    <2>3. CASE FlipLive(m, Api, 0, now)
      BY <2>2, <2>3 DEF StoreNext
    <2>4. CASE FlipOut(m, now)
      BY <2>2, <2>4 DEF StoreNext
    <2>5. CASE RetireCreatedMatches({m})
      <3>1. RetireCreatedMatches({m} \cap Created)
        BY <2>5 DEF RetireCreatedMatches, Retirable
      <3> QED BY <3>1 DEF StoreNext
    <2>6. CASE \E s \in PipelineStatuses, winner \in BOOLEAN : PipelineWrites(m, s, winner)
      BY <2>6 DEF StoreNext
    <2> QED BY <2>1, <2>3, <2>4, <2>5, <2>6
  <1>2. CASE ~Transaction
    BY <1>2 DEF FeedNext, Request, Redate, Consume, Prune, Elapse, feedVars, storeVars
  <1> QED BY <1>1, <1>2

(* The store under the screens is the store: what is proved of StoreSpec   *)
(* holds of it, whatever is read, consumed, pruned or moved beside it.     *)
THEOREM FeedImplementsStore == FeedSpec => StoreSpec
  <1>1. FeedInit => StoreInit
    BY DEF FeedInit
  <1>2. Clocks /\ [FeedNext]_feedVars => [StoreNext]_storeVars
    BY OnlyTransactions
  <1> QED BY <1>1, <1>2, ClocksInvariant, PTL DEF FeedSpec, StoreSpec

-----------------------------------------------------------------------------
(* Each event is from the past, was consumed after it was written, and is  *)
(* Gone only when it is older than the retention.                          *)
FateOf(k) ==
  /\ events[k].at \in Nat /\ events[k].at <= now
  /\ fate[k] \in Nat => events[k].at <= fate[k]
  /\ fate[k] = Gone => events[k].at + Retention < now

Fates ==
  /\ fate \in Seq(Nat \cup {Never, Gone})
  /\ Len(fate) = Len(events)
  /\ \A k \in 1..Len(events) : FateOf(k)

LEMMA OneEventAtMost ==
  ASSUME Clocks, StoreTypeOK, Transaction
  PROVE  events' = events \/ \E e \in Event : e.at = now /\ events' = Append(events, e)
  <1>1. now \in Times
    BY FeedAssumption DEF Clocks
  <1>2. ASSUME NEW m \in Matches, NEW kind \in {"live", "finished"}
        PROVE  EventOf(m, kind, now) \in Event /\ EventOf(m, kind, now).at = now
    BY <1>1 DEF EventOf, Event
  <1>3. PICK m \in Matches :
          \/ FlipLive(m, Api, 0, now)
          \/ FlipOut(m, now)
          \/ RetireCreatedMatches({m})
          \/ \E s \in PipelineStatuses, winner \in BOOLEAN : PipelineWrites(m, s, winner)
    BY DEF Transaction
  <1> QED BY <1>2, <1>3 DEF FlipLive, FlipOut, RetireCreatedMatches, PipelineWrites

LEMMA FatesStep ==
  ASSUME Clocks, Clocks', StoreTypeOK, Fates, [FeedNext]_feedVars
  PROVE  Fates'
  <1> USE FeedAssumption
  <1>0. now \in Nat /\ now' \in Nat
    BY DEF Clocks
  <1>1. CASE Transaction
    <2>1. now' = now
      BY <1>1 DEF Transaction
    <2>2. CASE events' = events
      BY <1>1, <2>1, <2>2 DEF Transaction, Queued, Fates, FateOf
    <2>3. ASSUME NEW e \in Event, e.at = now, events' = Append(events, e), events' # events
          PROVE  Fates'
      <3>1. fate' = Append(fate, Never)
        BY <1>1, <2>3 DEF Transaction, Queued
      <3>2. events \in Seq(Event)
        BY DEF StoreTypeOK
      <3>3. /\ fate' \in Seq(Nat \cup {Never, Gone})
            /\ Len(fate') = Len(events')
            /\ Len(events') = Len(events) + 1
        BY <2>3, <3>1, <3>2 DEF Fates
      <3>4. ASSUME NEW k \in 1..Len(events') PROVE FateOf(k)'
        <4>1. CASE k = Len(events) + 1
          <5>1. events'[k] = e /\ fate'[k] = Never
            BY <2>3, <3>1, <3>2, <4>1 DEF Fates
          <5> QED BY <1>0, <2>1, <2>3, <5>1 DEF FateOf
        <4>2. CASE k \in 1..Len(events)
          <5>1. events'[k] = events[k] /\ fate'[k] = fate[k]
            BY <2>3, <3>1, <3>2, <4>2 DEF Fates
          <5> QED BY <2>1, <4>2, <5>1 DEF Fates, FateOf
        <4> QED BY <3>2, <3>3, <4>1, <4>2
      <3> QED BY <3>3, <3>4 DEF Fates
    <2> QED BY <1>1, <2>2, <2>3, OneEventAtMost
  <1>2. ASSUME NEW k \in DOMAIN fate, Consume(k) PROVE Fates'
    <2>1. /\ fate' = [fate EXCEPT ![k] = now]
          /\ events' = events /\ now' = now
      BY <1>2 DEF Consume, storeVars
    <2>2. fate' \in Seq(Nat \cup {Never, Gone}) /\ Len(fate') = Len(fate)
      BY <1>0, <2>1 DEF Fates
    <2>3. ASSUME NEW j \in 1..Len(events) PROVE FateOf(j)'
      <3>1. fate'[j] = IF j = k THEN now ELSE fate[j]
        BY <2>1 DEF Fates
      <3> QED BY <1>0, <2>1, <3>1 DEF Fates, FateOf
    <2> QED BY <2>1, <2>2, <2>3 DEF Fates
  <1>3. CASE Prune
    <2>1. /\ fate' = [k \in DOMAIN fate |->
                        IF fate[k] \in Nat /\ fate[k] + Retention < now THEN Gone ELSE fate[k]]
          /\ events' = events /\ now' = now
      BY <1>3 DEF Prune, storeVars
    <2>2. fate' \in Seq(Nat \cup {Never, Gone}) /\ Len(fate') = Len(fate)
      <3>1. DOMAIN fate = 1..Len(fate) /\ Len(fate) \in Nat
        BY DEF Fates
      <3>2. \A k \in 1..Len(fate) : fate[k] \in Nat \cup {Never, Gone}
        BY DEF Fates
      <3>3. fate' \in [1..Len(fate) -> Nat \cup {Never, Gone}]
        BY <2>1, <3>1, <3>2
      <3> QED BY <3>1, <3>3
    <2>3. ASSUME NEW j \in 1..Len(events) PROVE FateOf(j)'
      <3>1. fate'[j] = IF fate[j] \in Nat /\ fate[j] + Retention < now THEN Gone ELSE fate[j]
        BY <2>1 DEF Fates
      <3>2. FateOf(j)
        BY DEF Fates
      <3>3. CASE fate[j] \in Nat /\ fate[j] + Retention < now
        <4>1. events[j].at + Retention < now
          BY <1>0, <3>2, <3>3 DEF FateOf
        <4> QED BY <2>1, <3>1, <3>2, <3>3, <4>1 DEF FateOf
      <3>4. CASE ~(fate[j] \in Nat /\ fate[j] + Retention < now)
        BY <2>1, <3>1, <3>2, <3>4 DEF FateOf
      <3> QED BY <3>3, <3>4
    <2> QED BY <2>1, <2>2, <2>3 DEF Fates
  <1>4. CASE Elapse
    <2>1. now' = now + 1 /\ events' = events /\ fate' = fate
      BY <1>4 DEF Elapse, storeVars, rowVars
    <2>2. ASSUME NEW k \in 1..Len(events) PROVE FateOf(k)'
      BY <1>0, <2>1, <2>2 DEF Fates, FateOf
    <2> QED BY <2>1, <2>2 DEF Fates
  <1>5. CASE Request \/ (\E m \in Matches, d \in Dates \cup {NoDate} : Redate(m, d))
               \/ UNCHANGED feedVars
    <2>1. events' = events /\ fate' = fate /\ now' = now
      BY <1>5 DEF Request, Redate, feedVars, storeVars, rowVars
    <2> QED BY <2>1 DEF Fates, FateOf
  <1> QED BY <1>1, <1>2, <1>3, <1>4, <1>5 DEF FeedNext

(* Every event's story is in order in every reachable state.               *)
LEMMA FatesInvariant == FeedSpec => []Fates
  <1>1. FeedInit => Fates
    BY DEF FeedInit, StoreInit, Fates
  <1>2. Clocks /\ Clocks' /\ StoreTypeOK /\ Fates /\ [FeedNext]_feedVars => Fates'
    BY FatesStep
  <1> QED BY <1>1, <1>2, ClocksInvariant, FeedImplementsStore, StoreTypeCorrect, PTL DEF FeedSpec

Dating == scheduledAt \in [Matches -> Dates \cup {NoDate}]

LEMMA DatingInvariant == FeedSpec => []Dating
  <1>1. FeedInit => Dating
    BY DEF FeedInit, Dating
  <1>2. Dating /\ [FeedNext]_feedVars => Dating'
    BY DEF Dating, FeedNext, Request, Transaction, Redate, Consume, Prune, Elapse, rowVars, feedVars
  <1> QED BY <1>1, <1>2, PTL DEF FeedSpec

(* A match that was seen to end, not before its date, never comes back as  *)
(* a match to come, whatever is consumed and pruned and whenever a request *)
(* read its clock: what Job A deletes is older by the length of a request  *)
(* than what the cut-off of the screens lets through.                      *)
THEOREM EndedStayOut == FeedSpec => []EndedStaysOut
  <1>1. Clocks /\ Fates /\ Dating => EndedStaysOut
    <2> SUFFICES ASSUME Clocks, Fates, Dating,
                        NEW t \in {now, askedAt} \ {Never}, NEW m \in Matches,
                        Upcoming(m, t), status[m] = "scheduled", Dated(m),
                        NEW k \in DOMAIN events,
                        events[k].match = m, events[k].kind = "finished"
                 PROVE  events[k].at < scheduledAt[m]
      BY DEF EndedStaysOut
    <2> USE FeedAssumption
    <2>1. now \in Nat /\ t \in Nat /\ now <= t + MaxRequest
      <3>1. now \in Nat
        BY DEF Clocks
      <3>2. CASE t = now
        BY <3>1, <3>2
      <3>3. CASE t = askedAt /\ askedAt # Never
        BY <3>1, <3>3 DEF Clocks
      <3> QED BY <3>2, <3>3
    <2>2. k \in 1..Len(events) /\ FateOf(k)
      <3>1. DOMAIN events = 1..Len(events)
        BY DEF Clocks
      <3> QED BY <3>1 DEF Fates
    <2>3. scheduledAt[m] \in Nat /\ scheduledAt[m] + Grace >= t
      BY DEF Dating, Dated, Upcoming
    <2>4. ~SeenEnding(m)
      BY DEF Upcoming
    <2>5. CASE fate[k] = Gone
      BY <2>1, <2>2, <2>3, <2>5 DEF FateOf
    <2>6. CASE fate[k] # Gone
      BY <2>2, <2>3, <2>4, <2>6 DEF SeenEnding, FateOf
    <2> QED BY <2>5, <2>6
  <1> QED BY <1>1, ClocksInvariant, FatesInvariant, DatingInvariant, PTL

-----------------------------------------------------------------------------
(* What the queries return.                                                *)
LEMMA NextIsOwn ==
  ASSUME NEW p, NEW t, NEW m \in NextMatches(p, t)
  PROVE  /\ m \in MatchesOf(p) \cup {NoMatch}
         /\ m = NoMatch => \A n \in MatchesOf(p) : ~Upcoming(n, t)
  BY FeedAssumption DEF NextMatches, FirstOf, MatchesOf

LEMMA LastIsOwn ==
  ASSUME NEW p, NEW t, NEW m \in LastMatches(p, t)
  PROVE  /\ m \in MatchesOf(p) \cup {NoMatch}
         /\ m = NoMatch => \A n \in MatchesOf(p) : ~Recent(n, t)
  BY FeedAssumption DEF LastMatches, FirstOf, MatchesOf

Row == [match : Matches \cup {NoMatch}, date : Dates \cup {NoDate}]

(* The request's variables.                                                *)
Locals ==
  /\ query \in {"rows", "today", "next", "last", "done"}
  /\ rows \in [Followed -> Row]
  /\ \A p \in Followed : rows[p].match # NoMatch => p \in PlayersOf[rows[p].match]
  /\ state \in {"rows", "no_matches", "split"}
  /\ next \in [Followed -> Matches \cup {NoMatch}]
  /\ last \in [Followed -> Matches \cup {NoMatch}]
  /\ failed \in BOOLEAN

LEMMA LocalsStep ==
  ASSUME Dating, Locals, [FeedNext]_feedVars
  PROVE  Locals'
  <1> USE FeedAssumption
  <1>1. ASSUME NEW q, Reading(q), q \in {"rows", "today", "next", "last"}
        PROVE  query' \in {"rows", "today", "next", "last", "done"}
    BY <1>1 DEF Reading, After
  <1>2. CASE BeginHome \/ BeginWidget
    BY <1>2 DEF BeginHome, BeginWidget, Begin, After, Locals
  <1>3. CASE ReadRows
    <2>1. PICK f \in [Followed -> Matches \cup {NoMatch}] :
            /\ \A p \in Followed : f[p] \in NextMatches(p, askedAt)
            /\ rows' = [p \in Followed |->
                          [match |-> f[p],
                           date  |-> IF f[p] = NoMatch THEN NoDate ELSE scheduledAt[f[p]]]]
      BY <1>3 DEF ReadRows
    <2>2. ASSUME NEW p \in Followed
          PROVE  /\ [match |-> f[p],
                     date  |-> IF f[p] = NoMatch THEN NoDate ELSE scheduledAt[f[p]]] \in Row
                 /\ f[p] # NoMatch => p \in PlayersOf[f[p]]
      <3>1. f[p] \in MatchesOf(p) \cup {NoMatch}
        BY <2>1, NextIsOwn
      <3> QED BY <3>1 DEF MatchesOf, Dating, Row
    <2>3. /\ rows' \in [Followed -> Row]
          /\ \A p \in Followed : rows'[p].match # NoMatch => p \in PlayersOf[rows'[p].match]
      BY <2>1, <2>2
    <2> QED BY <1>1, <1>3, <2>3 DEF ReadRows, Locals
  <1>4. ASSUME NEW others \in BOOLEAN, ReadToday(others) PROVE Locals'
    <2>1. rows' \in [Followed -> Row] /\ \A p \in Followed : rows'[p].match = NoMatch
      BY <1>4 DEF ReadToday, NoRows, Row
    <2>2. state' \in {"rows", "no_matches", "split"}
      <3> DEFINE A == \A p \in Followed : rows[p].match = NoMatch /\ p \notin Entered
                 B == others /\ \A m \in OnToday(askedAt) : PlayersOf[m] = {}
      <3>1. state' = CASE A -> "no_matches" [] B -> "split" [] OTHER -> "rows"
        BY <1>4 DEF ReadToday
      <3> HIDE DEF A, B
      <3> QED BY <3>1
    <2> QED BY <1>1, <1>4, <2>1, <2>2 DEF ReadToday, Locals
  <1>5. CASE ReadNext
    BY <1>1, <1>5 DEF ReadNext, Locals
  <1>6. CASE ReadLast
    BY <1>1, <1>6 DEF ReadLast, Locals
  <1>7. CASE LastFails
    BY <1>1, <1>7 DEF LastFails, Locals
  <1>8. CASE End
    BY <1>8 DEF End, Locals, NoRows, NoCards, Row
  <1>9. CASE UNCHANGED requestVars
    BY <1>9 DEF requestVars, Locals
  <1>10. CASE ~Request
    BY <1>9, <1>10 DEF FeedNext, Transaction, Redate, Consume, Prune, Elapse, feedVars, requestVars
  <1> QED BY <1>2, <1>3, <1>4, <1>5, <1>6, <1>7, <1>8, <1>10 DEF Request

LEMMA LocalsInvariant == FeedSpec => []Locals
  <1>1. FeedInit => Locals
    <2>1. [match |-> NoMatch, date |-> NoDate] \in Row
      BY DEF Row
    <2>2. /\ NoRows \in [Followed -> Row]
          /\ \A p \in Followed : NoRows[p].match = NoMatch
          /\ NoCards \in [Followed -> Matches \cup {NoMatch}]
      BY <2>1 DEF NoRows, NoCards
    <2> QED BY <2>2 DEF FeedInit, Locals
  <1>2. Dating /\ Locals /\ [FeedNext]_feedVars => Locals'
    BY LocalsStep
  <1> QED BY <1>1, <1>2, DatingInvariant, PTL DEF FeedSpec

LEMMA OnShowInvariant == FeedSpec => [](onShow \subseteq Matches)
  <1>1. FeedInit => onShow \subseteq Matches
    BY DEF FeedInit
  <1>2. onShow \subseteq Matches /\ [FeedNext]_feedVars => (onShow \subseteq Matches)'
    <2>1. Fit' \subseteq Matches
      BY DEF Fit
    <2> QED BY <2>1 DEF FeedNext, Watch, feedVars
  <1> QED BY <1>1, <1>2, PTL DEF FeedSpec

(* The tables, the clock and the request are well typed.                   *)
THEOREM FeedTypeCorrect == FeedSpec => []FeedTypeOK
  <1>1. Clocks /\ Fates /\ Dating /\ Locals /\ onShow \subseteq Matches => FeedTypeOK
    BY DEF FeedTypeOK, Clocks, Fates, Dating, Locals, Row
  <1> QED BY <1>1, ClocksInvariant, FatesInvariant, DatingInvariant, LocalsInvariant,
             OnShowInvariant, PTL

(* The widget's `split` is true of the rows it was decided from: a follow  *)
(* with a row of today would have been found among the matches of the day, *)
(* were the match not cancelled or moved since.                            *)
THEOREM SplitIsTrue == FeedSpec => SplitMeansNobodyToday
  <1>1. StoreTypeOK /\ Dating /\ Locals /\ [FeedNext]_feedVars =>
          [state # "split" /\ state' = "split" =>
             \A p \in Followed :
               rows[p].match # NoMatch /\ IsToday(rows[p].date, askedAt) =>
                 \/ status[rows[p].match] = "cancelled"
                 \/ scheduledAt[rows[p].match] # rows[p].date]_feedVars
    <2> SUFFICES ASSUME StoreTypeOK, Dating, Locals, FeedNext,
                        state # "split", state' = "split", NEW p \in Followed,
                        rows[p].match # NoMatch, IsToday(rows[p].date, askedAt),
                        status[rows[p].match] # "cancelled",
                        scheduledAt[rows[p].match] = rows[p].date
                 PROVE  FALSE
      OBVIOUS
    <2>1. PICK others \in BOOLEAN : ReadToday(others)
      BY DEF FeedNext, Request, BeginHome, BeginWidget, Begin, ReadRows, ReadNext, ReadLast,
             LastFails, End, Transaction, Redate, Consume, Prune, Elapse, requestVars
    <2> DEFINE A == \A f \in Followed : rows[f].match = NoMatch /\ f \notin Entered
               B == others /\ \A m \in OnToday(askedAt) : PlayersOf[m] = {}
    <2>2. B
      <3>1. state' = CASE A -> "no_matches" [] B -> "split" [] OTHER -> "rows"
        BY <2>1 DEF ReadToday
      <3> HIDE DEF A, B
      <3> QED BY <3>1
    <2>3. /\ rows[p].match \in Matches
          /\ p \in PlayersOf[rows[p].match]
      BY DEF Locals, Row
    <2>4. rows[p].match \in OnToday(askedAt)
      BY <2>3 DEF OnToday, StoreTypeOK, Status
    <2> QED BY <2>2, <2>3, <2>4
  <1> QED BY <1>1, DatingInvariant, LocalsInvariant, FeedImplementsStore, StoreTypeCorrect, PTL
          DEF FeedSpec, SplitMeansNobodyToday

-----------------------------------------------------------------------------
(* Between the two queries: a match on show either gave its follow a next  *)
(* match or was completed when the first of them ran, and still is.        *)
Halfway ==
  askedAt # Never /\ query = "last" =>
    \A m \in onShow, p \in Followed :
      p \in PlayersOf[m] => next[p] # NoMatch \/ status[m] = "completed"

ResultsStay == \A m \in Matches : status[m] = "completed" => status'[m] = "completed"

LEMMA HalfwayStep ==
  ASSUME onShow \subseteq Matches, Locals, Halfway, NobodyMissed, ResultsStay,
         [FeedNext]_feedVars
  PROVE  Halfway' /\ NobodyMissed'
  <1>1. /\ onShow' = onShow \/ onShow' \subseteq Fit'
        /\ askedAt # Never => onShow' \subseteq onShow
    BY DEF FeedNext, Watch, feedVars
  <1>2. ASSUME UNCHANGED <<storeVars, rowVars, askedAt>> PROVE Fit' = Fit
    BY <1>2 DEF storeVars, rowVars, Fit, Upcoming, SeenEnding, Dated, Recent
  <1>3. CASE ReadNext /\ UNCHANGED <<storeVars, rowVars>> /\ Watch
    <2> SUFFICES ASSUME askedAt' # Never, NEW m \in onShow', NEW p \in Followed,
                        p \in PlayersOf[m]
                 PROVE  next'[p] # NoMatch \/ status'[m] = "completed"
      BY <1>3 DEF ReadNext, Reading, After, Halfway, NobodyMissed
    <2>1. m \in Fit /\ m \in MatchesOf(p) /\ status' = status
      BY <1>2, <1>3 DEF Watch, ReadNext, Fit, MatchesOf, storeVars
    <2>2. CASE Upcoming(m, askedAt)
      BY <1>3, <2>1, <2>2, NextIsOwn DEF ReadNext
    <2>3. CASE Recent(m, askedAt)
      BY <2>1, <2>3 DEF Recent
    <2> QED BY <2>1, <2>2, <2>3 DEF Fit
  <1>4. CASE ReadLast /\ UNCHANGED <<storeVars, rowVars>> /\ Watch
    <2> SUFFICES ASSUME askedAt' # Never, NEW m \in onShow', NEW p \in Followed,
                        p \in PlayersOf[m], next'[p] = NoMatch
                 PROVE  last'[p] # NoMatch
      BY <1>4 DEF ReadLast, Reading, After, Halfway, NobodyMissed
    <2>1. m \in Fit /\ m \in onShow /\ m \in MatchesOf(p)
      BY <1>2, <1>4 DEF Watch, ReadLast, Fit, MatchesOf
    <2>2. status[m] = "completed"
      BY <1>4, <2>1 DEF ReadLast, Reading, Halfway
    <2>3. Recent(m, askedAt)
      BY <2>1, <2>2 DEF Fit, Upcoming
    <2> QED BY <1>4, <2>1, <2>3, LastIsOwn DEF ReadLast
  <1>5. CASE BeginHome \/ BeginWidget
    BY <1>5 DEF BeginHome, BeginWidget, Begin, After, Halfway, NobodyMissed
  <1>6. CASE ReadRows \/ (\E others \in BOOLEAN : ReadToday(others)) \/ LastFails \/ End
    BY <1>6 DEF ReadRows, ReadToday, LastFails, End, Reading, After, Halfway, NobodyMissed
  <1>7. CASE UNCHANGED requestVars
    <2>1. onShow' \subseteq onShow \/ askedAt' = Never
      BY <1>1, <1>7 DEF requestVars
    <2>2. Halfway'
      BY <1>7, <2>1 DEF Halfway, ResultsStay, requestVars
    <2>3. NobodyMissed'
      BY <1>7, <2>1 DEF NobodyMissed, requestVars
    <2> QED BY <2>2, <2>3
  <1>8. CASE ~Request
    <2>1. UNCHANGED requestVars
      BY <1>8 DEF FeedNext, Transaction, Redate, Consume, Prune, Elapse, feedVars, requestVars
    <2> QED BY <1>7, <2>1
  <1>9. CASE Request
    <2>1. CASE FeedNext
      BY <1>3, <1>4, <1>5, <1>6, <1>9, <2>1 DEF Request, FeedNext
    <2>2. CASE UNCHANGED feedVars
      BY <1>7, <2>2 DEF feedVars
    <2> QED BY <2>1, <2>2
  <1> QED BY <1>8, <1>9

(* No follow with a match on show throughout a request is left without a   *)
(* card: what leaves the first query does so by being completed, and the   *)
(* second comes later (fillSeason).                                        *)
THEOREM NobodyIsMissed == FeedSpec => []NobodyMissed
  <1>1. FeedInit => Halfway /\ NobodyMissed
    BY DEF FeedInit, Halfway, NobodyMissed
  <1>2. [ResultsStay]_storeVars => ResultsStay
    BY DEF ResultsStay, storeVars
  <1>3. onShow \subseteq Matches /\ Locals /\ Halfway /\ NobodyMissed /\ [FeedNext]_feedVars
          /\ [ResultsStay]_storeVars => Halfway' /\ NobodyMissed'
    BY <1>2, HalfwayStep
  <1>4. ResultKept <=> [][ResultsStay]_storeVars
    BY DEF ResultKept, ResultsStay
  <1> QED BY <1>1, <1>3, <1>4, OnShowInvariant, LocalsInvariant, FeedImplementsStore,
             ResultIsKept, PTL DEF FeedSpec
=============================================================================

----------------------------- MODULE QuotaProofs -----------------------------
(***************************************************************************)
(* Proofs about the governor (Governor) and the two jobs that spend the    *)
(* quota (Quota).                                                          *)
(***************************************************************************)
EXTENDS Quota, Bounds, FiniteSetTheorems, WellFoundedInduction, TLAPS

-----------------------------------------------------------------------------
(* The calendar and the sums of the snapshot.                              *)

LEMMA Constants ==
  /\ MaxClock \in Nat /\ Times = 0..MaxClock
  /\ Day \in Nat \ {0} /\ Never \notin Int
  /\ DailyQuota \in Nat /\ Reserve \in Nat /\ StaleDailyCap \in Nat
  /\ MinInterval \in Nat /\ MaxInterval \in Nat /\ MinInterval <= MaxInterval
  /\ StaleInterval \in Nat /\ StaleAfter \in Nat /\ TickSlack \in Nat
  /\ WatchLead \in Nat /\ WatchTail \in Nat
  /\ Retries \in Nat /\ Unknown \in Nat /\ ResolveMax \in Nat
  /\ Timeout \in Nat /\ MaxRefresh \in Nat /\ MaxFaults \in Nat
  /\ Batches \in Nat \ {0} /\ Slots \subseteq Nat
<1>1. /\ Day \in Nat /\ DailyQuota \in Nat /\ Reserve \in Nat
      /\ MinInterval \in Nat /\ MaxInterval \in Nat
      /\ StaleInterval \in Nat /\ StaleDailyCap \in Nat /\ StaleAfter \in Nat
      /\ TickSlack \in Nat /\ WatchLead \in Nat /\ WatchTail \in Nat
  BY GovernorAssumption
<1>2. /\ Retries \in Nat /\ Batches \in Nat /\ Unknown \in Nat
      /\ ResolveMax \in Nat /\ Timeout \in Nat /\ MaxRefresh \in Nat
      /\ MaxFaults \in Nat
  BY QuotaAssumption
<1>3. /\ Day > 0 /\ MinInterval <= MaxInterval /\ Never \notin Int
      /\ Batches > 0 /\ Slots \subseteq Nat
      /\ MaxClock \in Nat /\ Times = 0..MaxClock
  BY GovernorAssumption, QuotaAssumption
<1>4. Day \in Nat \ {0} /\ Batches \in Nat \ {0}
  BY <1>1, <1>2, <1>3
<1> QED
  BY <1>1, <1>2, <1>3, <1>4, Zenon

LEMMA Calendar ==
  /\ \A t \in Times : DayOf(t) \in Days
  /\ \A s, t \in Times : s <= t => DayOf(s) <= DayOf(t)
  /\ Days \subseteq Nat /\ IsFiniteSet(Days)
<1>1. \A s, t \in Nat : s <= t => s \div Day <= t \div Day
  BY Constants
<1>2. \A t \in Nat : t \div Day \in Nat
  BY Constants
<1> HIDE DEF MaxClock
<1>3. IsFiniteSet(Days)
  <2>1. MaxClock \div Day \in Int /\ 0 \in Int
    BY <1>2, Constants
  <2> QED
    BY <2>1, FS_Interval DEF Days, DayOf
<1>4. Times \subseteq Nat /\ \A t \in Times : t <= MaxClock
  BY Constants
<1>5. \A s, t \in Times : s <= t => DayOf(s) <= DayOf(t)
  BY <1>1, <1>4 DEF DayOf
<1>6. \A t \in Times : DayOf(t) \in Nat /\ DayOf(t) <= DayOf(MaxClock)
  BY <1>1, <1>2, <1>4, Constants DEF DayOf
<1>7. DayOf(MaxClock) \in Nat
  BY <1>2, Constants DEF DayOf
<1> QED
  BY <1>3, <1>5, <1>6, <1>7 DEF Days

(* The query's sum from the start of a day on is no less than any later    *)
(* day's.                                                                  *)
LEMMA SumSinceBounds ==
  ASSUME NEW c \in [Days -> Nat], NEW now \in Times, NEW d \in Days,
         DayOf(now) <= d
  PROVE  SumSince(c, now) \in Nat /\ c[d] <= SumSince(c, now)
<1> DEFINE S == {e \in Days : e >= DayOf(now)}
<1>1. S \subseteq Days /\ IsFiniteSet(S)
  BY Calendar, FS_Subset
<1>2. d \in S
  BY Calendar
<1> DEFINE h == CHOOSE f : IsSum(c, S, f)
<1>3. SumSince(c, now) = h[S]
  BY DEF SumSince, MapThenSumSet, MapThenFoldSet, IsSum, AnyOf
<1>4. \A e \in S : c[e] \in Nat /\ c[e] \in Int
  OBVIOUS
<1> HIDE DEF S
<1>5. IsSum(c, S, h)
  BY <1>1, <1>4, SumsExist
<1> HIDE DEF h
<1>6. h[S] \in Nat /\ \A e \in S : c[e] <= h[S]
  BY <1>1, <1>4, <1>5, SumBoundsParts
<1> QED
  BY <1>2, <1>3, <1>6

-----------------------------------------------------------------------------
(* The invariant.                                                          *)

Busy(j) == pc[j] # "idle"

(* A job at work has a row, started not after the clock; one at rest has   *)
(* none.  Only Job B polls, and only the row of Job A is closed while its  *)
(* run goes on.                                                            *)
RowsFit ==
  /\ \A j \in Jobs : IF Busy(j) THEN row[j].started \in 0..clock
                                ELSE row[j] = NoRow
  /\ row[Poll].finished = Never
  /\ row[Refresh].finished # Never => row[Refresh].finished \in 0..clock
  /\ row[Refresh].cause # "stale_safe"

(* Where Job B stands, its page and its look-ups agree.                    *)
PlacesFit ==
  /\ pc[Poll] = "board" => asked[Poll].page \in 1..MaxPagesPerRun
  /\ pc[Poll] = "player" => lookups.left > 0 /\ lookups.mapped < ResolveMax
  /\ pc[Refresh] = "fixtures" => asked[Refresh].page \in 1..MaxPagesPerRun

(* What the vendor got and the counts do not show was lost.                *)
CountsFit == \A d \in Days : sent[Poll][d] + sent[Refresh][d] <= spent[d] + lost

OpenStale(d) == IF row[Poll].cause = "stale_safe" /\ RunDay(Poll) = d
                THEN row[Poll].requests ELSE 0

StaleCountsFit ==
  \A d \in Days :
    /\ staleSpent[d] + OpenStale(d) <= staleSent[d]
    /\ staleSent[d] <= staleSpent[d] + OpenStale(d) + lost

PollsFit ==
  /\ lastPoll # Never => lastPoll \in 0..clock
  /\ polledAt # Never => polledAt \in 0..clock
  /\ lost = 0 => lastPoll = polledAt

QuotaInv == QuotaTypeOK /\ RowsFit /\ PlacesFit /\ CountsFit /\ StaleCountsFit /\ PollsFit

-----------------------------------------------------------------------------
(* The invariant is inductive.  Half of the type invariant is about what a *)
(* request changes.                                                        *)

LedgerTypes ==
  /\ spent \in [Days -> Nat]
  /\ staleSpent \in [Days -> Nat]
  /\ lastPoll \in Instants
  /\ lastRefresh \in Instants
  /\ row \in [Jobs -> [started : Instants, finished : Instants, requests : Nat,
                       cause : Modes \cup {"none"}]]
  /\ sent \in [Jobs -> [Days -> Nat]]
  /\ staleSent \in [Days -> Nat]
  /\ polledAt \in Instants
  /\ crashes \in Nat /\ lost \in Nat /\ crashes + lost <= MaxFaults

PlaceTypes ==
  /\ clock \in Times
  /\ \E S \in SUBSET Fixtures : schedule \in [S -> Announced]
  /\ refreshes \in 0..MaxRefresh
  /\ DOMAIN pc = Jobs
  /\ pc[Poll] \in {"idle", "board", "rows", "player"}
  /\ pc[Refresh] \in {"idle", "fixtures", "write", "close", "usage"}
  /\ asked \in [Jobs -> [batch : 0..Batches, page : 0..MaxPagesPerRun]]
  /\ lookups \in [left : 0..Unknown, mapped : 0..ResolveMax]
  /\ failed \in [Jobs -> BOOLEAN]

LEMMA TypesSplit == QuotaTypeOK <=> LedgerTypes /\ PlaceTypes
BY DEF QuotaTypeOK, LedgerTypes, PlaceTypes

LEMMA RunDays ==
  ASSUME QuotaInv, NEW j \in Jobs, Busy(j)
  PROVE  /\ row[j].started \in Times /\ RunDay(j) \in Days
         /\ row[j].started # Never
         /\ RunDay(j) <= DayOf(clock) /\ DayOf(clock) \in Days
<1>1. row[j].started \in 0..clock /\ clock \in Times
  BY DEF QuotaInv, RowsFit, QuotaTypeOK
<1> HIDE DEF MaxClock
<1>2. row[j].started \in Times /\ row[j].started <= clock /\ row[j].started # Never
  BY <1>1, Constants
<1> QED
  BY <1>1, <1>2, Calendar DEF RunDay

(* A request and its counts: what it adds to the ledger, and that all that *)
(* is said of the ledger stays true.                                       *)
LEMMA RequestKeeps ==
  ASSUME QuotaInv, NEW j \in Jobs, NEW n \in 0..(Retries + 1), Request(j, n),
         UNCHANGED <<clock, crashes>>
  PROVE  /\ LedgerTypes' /\ CountsFit' /\ StaleCountsFit' /\ PollsFit'
         /\ Busy(j) /\ lost <= lost'
         /\ \A i \in Jobs : i # j => row'[i] = row[i]
         /\ IF pc[j] = "usage" THEN row'[j] = NoRow
            ELSE /\ row'[j].started = row[j].started
                 /\ row'[j].finished = row[j].finished
                 /\ row'[j].cause = row[j].cause
         /\ \A i \in Jobs, d \in Days :
              sent'[i][d] = sent[i][d] + (IF i = j /\ d = RunDay(j) THEN n ELSE 0)
         /\ \A d \in Days :
              staleSent'[d] = staleSent[d]
                + (IF row[j].cause = "stale_safe" /\ d = RunDay(j) THEN n ELSE 0)
<1> HIDE DEF MaxClock
<1>1. Busy(j) /\ Asking(j)
  BY DEF Request, Asking, Busy
<1>2. RunDay(j) \in Days /\ row[j].started \in Times /\ row[j].started \in 0..clock
      /\ row[j].started # Never
  BY <1>1, RunDays DEF QuotaInv, RowsFit
<1>3. n \in Nat /\ 0 \in Nat /\ Retries \in Nat /\ MaxFaults \in Nat
  BY Constants
<1>4. PICK u \in 0..n : /\ crashes + lost + u <= MaxFaults
                        /\ lost' = lost + u
                        /\ Count(j, n - u)
  BY DEF Request
<1>5. n - u \in Nat /\ u \in Nat /\ n - u <= n
  BY <1>3, <1>4
<1>6. LedgerTypes /\ PlaceTypes
  BY TypesSplit DEF QuotaInv
<1>7. /\ sent' = [sent EXCEPT ![j][RunDay(j)] = @ + n]
      /\ staleSent' = IF row[j].cause = "stale_safe"
                      THEN [staleSent EXCEPT ![RunDay(j)] = @ + n] ELSE staleSent
      /\ polledAt' = IF j = Poll /\ n > 0 THEN row[j].started ELSE polledAt
  BY DEF Request, Send
<1>8. /\ spent' = [spent EXCEPT ![RunDay(j)] = @ + (n - u)]
      /\ row' = [row EXCEPT ![j] = IF pc[j] = "usage" THEN NoRow
                                   ELSE [row[j] EXCEPT !.requests = @ + (n - u)]]
      /\ lastPoll' = IF j = Poll /\ n - u > 0 THEN row[j].started ELSE lastPoll
      /\ lastRefresh' = IF row[j].finished # Never /\ n - u > 0
                        THEN row[j].finished ELSE lastRefresh
      /\ staleSpent' = staleSpent
  BY <1>4 DEF Count
<1>9. \A i \in Jobs, d \in Days :
        sent'[i][d] = sent[i][d] + (IF i = j /\ d = RunDay(j) THEN n ELSE 0)
  BY <1>2, <1>3, <1>6, <1>7 DEF LedgerTypes
<1>10. \A d \in Days :
        staleSent'[d] = staleSent[d]
          + (IF row[j].cause = "stale_safe" /\ d = RunDay(j) THEN n ELSE 0)
  BY <1>2, <1>3, <1>6, <1>7 DEF LedgerTypes
<1>11. \A d \in Days :
         spent'[d] = spent[d] + (IF d = RunDay(j) THEN n - u ELSE 0)
  BY <1>2, <1>5, <1>6, <1>8 DEF LedgerTypes
<1>12. NoRow \in [started : Instants, finished : Instants, requests : Nat,
                  cause : Modes \cup {"none"}]
  BY DEF NoRow, Instants
<1>13. /\ row' \in [Jobs -> [started : Instants, finished : Instants, requests : Nat,
                             cause : Modes \cup {"none"}]]
       /\ \A i \in Jobs : i # j => row'[i] = row[i]
       /\ IF pc[j] = "usage" THEN row'[j] = NoRow
          ELSE /\ row'[j].started = row[j].started
               /\ row'[j].finished = row[j].finished
               /\ row'[j].cause = row[j].cause
               /\ row'[j].requests = row[j].requests + (n - u)
  <2> DEFINE Rows == [started : Instants, finished : Instants, requests : Nat,
                      cause : Modes \cup {"none"}]
             new == IF pc[j] = "usage" THEN NoRow
                    ELSE [row[j] EXCEPT !.requests = @ + (n - u)]
  <2>1. row \in [Jobs -> Rows] /\ row[j] \in Rows /\ row[j].requests \in Nat
    BY <1>6 DEF LedgerTypes
  <2>2. [row[j] EXCEPT !.requests = row[j].requests + (n - u)] \in Rows
    BY <1>5, <2>1
  <2>3. new \in Rows
    BY <2>2, <1>12
  <2>4. row' = [row EXCEPT ![j] = new]
    BY <1>8
  <2>5. pc[j] # "usage" => /\ new.started = row[j].started
                           /\ new.finished = row[j].finished
                           /\ new.cause = row[j].cause
                           /\ new.requests = row[j].requests + (n - u)
    BY <2>1
  <2>6. pc[j] = "usage" => new = NoRow
    OBVIOUS
  <2> HIDE DEF Rows, new
  <2>7. row' \in [Jobs -> Rows] /\ row'[j] = new
        /\ \A i \in Jobs : i # j => row'[i] = row[i]
    BY <2>1, <2>3, <2>4
  <2> QED
    BY <2>5, <2>6, <2>7 DEF Rows
<1>14. LedgerTypes'
  <2>1. spent' \in [Days -> Nat] /\ staleSpent' \in [Days -> Nat]
    BY <1>2, <1>5, <1>6, <1>8 DEF LedgerTypes
  <2>2. sent' \in [Jobs -> [Days -> Nat]] /\ staleSent' \in [Days -> Nat]
    BY <1>2, <1>3, <1>6, <1>7 DEF LedgerTypes
  <2>3. lastPoll' \in Instants /\ lastRefresh' \in Instants /\ polledAt' \in Instants
    BY <1>2, <1>6, <1>7, <1>8 DEF LedgerTypes, Instants
  <2>4. crashes' \in Nat /\ lost' \in Nat /\ crashes' + lost' <= MaxFaults
    BY <1>4, <1>5, <1>6 DEF LedgerTypes
  <2> QED
    BY <1>13, <2>1, <2>2, <2>3, <2>4 DEF LedgerTypes
<1>15. CountsFit'
  <2> SUFFICES ASSUME NEW d \in Days
               PROVE  sent'[Poll][d] + sent'[Refresh][d] <= spent'[d] + lost'
    BY DEF CountsFit
  <2>1. /\ sent[Poll][d] \in Nat /\ sent[Refresh][d] \in Nat /\ spent[d] \in Nat
        /\ lost \in Nat
    BY <1>6 DEF LedgerTypes, Jobs
  <2>2. sent[Poll][d] + sent[Refresh][d] <= spent[d] + lost
    BY DEF QuotaInv, CountsFit
  <2>3. \/ j = Poll /\ sent'[Poll][d] = sent[Poll][d] + (IF d = RunDay(j) THEN n ELSE 0)
           /\ sent'[Refresh][d] = sent[Refresh][d]
        \/ j = Refresh /\ sent'[Refresh][d] = sent[Refresh][d] + (IF d = RunDay(j) THEN n ELSE 0)
           /\ sent'[Poll][d] = sent[Poll][d]
    BY <1>3, <1>9, <2>1 DEF Jobs, Poll, Refresh
  <2> QED
    BY <1>3, <1>4, <1>5, <1>11, <2>1, <2>2, <2>3
<1>16. StaleCountsFit'
  <2> SUFFICES ASSUME NEW d \in Days
               PROVE  /\ staleSpent'[d] + OpenStale(d)' <= staleSent'[d]
                      /\ staleSent'[d] <= staleSpent'[d] + OpenStale(d)' + lost'
    BY DEF StaleCountsFit
  <2>1. /\ staleSpent[d] \in Nat /\ staleSent[d] \in Nat /\ lost \in Nat
        /\ row[Poll].requests \in Nat
    BY <1>6 DEF LedgerTypes, Jobs
  <2>2. /\ staleSpent[d] + OpenStale(d) <= staleSent[d]
        /\ staleSent[d] <= staleSpent[d] + OpenStale(d) + lost
    BY DEF QuotaInv, StaleCountsFit
  <2>3. row[Refresh].cause # "stale_safe"
    BY DEF QuotaInv, RowsFit
  <2>4. CASE j = Refresh
    <3>1. row'[Poll] = row[Poll]
      BY <1>13, <2>4 DEF Jobs, Poll, Refresh
    <3>2. OpenStale(d)' = OpenStale(d)
      BY <3>1 DEF OpenStale, RunDay
    <3>3. staleSent'[d] = staleSent[d]
      BY <1>10, <2>1, <2>3, <2>4
    <3> QED
      BY <1>4, <1>5, <1>8, <2>1, <2>2, <3>2, <3>3 DEF OpenStale
  <2>5. CASE j = Poll
    <3>1. pc[j] # "usage"
      BY <1>6, <2>5 DEF PlaceTypes
    <3>2. OpenStale(d)' = OpenStale(d) +
            (IF row[j].cause = "stale_safe" /\ d = RunDay(j) THEN n - u ELSE 0)
      BY <1>13, <2>1, <2>5, <3>1, <1>5 DEF OpenStale, RunDay
    <3> QED
      BY <1>3, <1>4, <1>5, <1>8, <1>10, <2>1, <2>2, <3>2 DEF OpenStale
  <2> QED
    BY <2>4, <2>5 DEF Jobs
<1>17. PollsFit'
  <2>1. lost \in Nat /\ clock' = clock /\ lost' = lost + u
    BY <1>4, <1>6 DEF LedgerTypes
  <2>2. PollsFit
    BY DEF QuotaInv
  <2>3. lastPoll' = IF j = Poll /\ n - u > 0 THEN row[j].started ELSE lastPoll
    BY <1>8
  <2>4. polledAt' = IF j = Poll /\ n > 0 THEN row[j].started ELSE polledAt
    BY <1>7
  <2>5. lastPoll' # Never => lastPoll' \in 0..clock'
    BY <1>2, <2>1, <2>2, <2>3 DEF PollsFit
  <2>6. polledAt' # Never => polledAt' \in 0..clock'
    BY <1>2, <2>1, <2>2, <2>4 DEF PollsFit
  <2>7. ASSUME lost' = 0
        PROVE  lastPoll' = polledAt'
    <3>1. lost = 0 /\ u = 0 /\ n - u = n
      BY <1>3, <1>5, <2>1, <2>7
    <3> QED
      BY <2>2, <2>3, <2>4, <3>1 DEF PollsFit
  <2> QED
    BY <2>5, <2>6, <2>7 DEF PollsFit
<1> QED
  BY <1>1, <1>4, <1>5, <1>6, <1>9, <1>10, <1>13, <1>14, <1>15, <1>16, <1>17 DEF LedgerTypes

LEMMA FailsIsRequest ==
  ASSUME NEW j \in Jobs, Fails(j) \/ Answered(j)
  PROVE  \E n \in 0..(Retries + 1) : Request(j, n)
<1>1. 1..(Retries + 1) \subseteq 0..(Retries + 1)
  BY Constants
<1> QED
  BY <1>1 DEF Fails, Answered

(* The rest of a step with a request: a job goes idle by its last one.     *)
LEMMA RequestStep ==
  ASSUME QuotaInv, NEW j \in Jobs, Fails(j) \/ Answered(j),
         UNCHANGED <<clock, crashes>>, PlaceTypes', PlacesFit',
         \A i \in Jobs : i # j => pc'[i] = pc[i],
         pc'[j] = "idle" <=> pc[j] = "usage"
  PROVE  QuotaInv'
<1>1. PICK n \in 0..(Retries + 1) : Request(j, n)
  BY FailsIsRequest
<1>2. /\ LedgerTypes' /\ CountsFit' /\ StaleCountsFit' /\ PollsFit'
      /\ Busy(j)
      /\ \A i \in Jobs : i # j => row'[i] = row[i]
      /\ IF pc[j] = "usage" THEN row'[j] = NoRow
         ELSE /\ row'[j].started = row[j].started
              /\ row'[j].finished = row[j].finished
              /\ row'[j].cause = row[j].cause
  BY <1>1, RequestKeeps
<1>3. QuotaTypeOK'
  BY <1>2 DEF QuotaTypeOK, LedgerTypes, PlaceTypes
<1>4. RowsFit'
  <2>1. RowsFit /\ PlaceTypes
    BY TypesSplit DEF QuotaInv
  <2>2. ASSUME NEW i \in Jobs
        PROVE  IF Busy(i)' THEN row'[i].started \in 0..clock' ELSE row'[i] = NoRow
    BY <1>2, <2>1 DEF RowsFit, Busy
  <2>3. ASSUME NEW i \in Jobs
        PROVE  \/ row'[i] = NoRow
               \/ row'[i].finished = row[i].finished /\ row'[i].cause = row[i].cause
    BY <1>2
  <2>4. NoRow.finished = Never /\ NoRow.cause # "stale_safe"
    BY DEF NoRow
  <2> QED
    BY <2>1, <2>2, <2>3, <2>4 DEF RowsFit, Jobs
<1> QED
  BY <1>2, <1>3, <1>4 DEF QuotaInv

LEMMA RequestingKeeps ==
  ASSUME QuotaInv,
         \/ \E j \in Jobs : NextPage(j)
         \/ BoardRead \/ BoardFails \/ PlayerRead \/ PlayerFails
         \/ BatchRead \/ BatchFails \/ ReconcileQuota
  PROVE  QuotaInv'
<1> USE TypesSplit, Constants DEF QuotaInv
<1> HIDE DEF MaxClock
<1>1. ASSUME NEW j \in Jobs, NextPage(j)
      PROVE  QuotaInv'
  <2> DEFINE AskedFor == [batch : 0..Batches, page : 0..2]
  <2>1. asked \in [Jobs -> AskedFor] /\ asked[j] \in AskedFor /\ asked[j].page < 2
        /\ pc[j] \in {"board", "fixtures"}
    BY <1>1 DEF NextPage, PlaceTypes, MaxPagesPerRun
  <2>2. asked' = [asked EXCEPT ![j] = [asked[j] EXCEPT !.page = asked[j].page + 1]]
    BY <1>1 DEF NextPage, Ask
  <2>3. [asked[j] EXCEPT !.page = asked[j].page + 1] \in AskedFor
        /\ asked[j].page + 1 \in 1..2
    <3>1. asked[j].page \in 0..2 /\ asked[j].page < 2 /\ asked[j].batch \in 0..Batches
      BY <2>1
    <3>2. asked[j].page + 1 \in 1..2 /\ asked[j].page + 1 \in 0..2
      BY <3>1
    <3> QED
      BY <2>1, <3>2
  <2>4. /\ asked' \in [Jobs -> AskedFor] /\ asked'[j].page \in 1..2
        /\ \A i \in Jobs : i # j => asked'[i] = asked[i]
    BY <2>1, <2>2, <2>3
  <2>5. PlaceTypes'
    BY <1>1, <2>4 DEF NextPage, PlaceTypes, MaxPagesPerRun
  <2>6. PlacesFit'
    BY <1>1, <2>1, <2>4 DEF NextPage, PlacesFit, MaxPagesPerRun, Jobs
  <2> QED
    BY <1>1, <2>1, <2>5, <2>6, RequestStep DEF NextPage, PlaceTypes
<1>2. CASE BoardRead
  <2>1. PlaceTypes' /\ PlacesFit'
    BY <1>2 DEF BoardRead, PlaceTypes, PlacesFit, Goto, Ask, NotAsked, MaxPagesPerRun,
                Jobs, Poll, Refresh
  <2> QED
    BY <1>2, <2>1, RequestStep DEF BoardRead, PlaceTypes, Goto, Jobs
<1>3. CASE BoardFails
  <2>1. PlaceTypes' /\ PlacesFit'
    BY <1>3 DEF BoardFails, PlaceTypes, PlacesFit, Goto, Ask, NotAsked, MaxPagesPerRun,
                Jobs, Poll, Refresh
  <2> QED
    BY <1>3, <2>1, RequestStep DEF BoardFails, PlaceTypes, Goto, Jobs
<1>4. ASSUME NEW m \in 0..1, LookedUp(m), pc[Poll] = "player",
             Fails(Poll) \/ Answered(Poll)
      PROVE  QuotaInv'
  <2>1. PlaceTypes' /\ PlacesFit'
    BY <1>4 DEF LookedUp, PlaceTypes, PlacesFit, Goto, Ask, NotAsked, MaxPagesPerRun,
                Jobs, Poll, Refresh
  <2> QED
    BY <1>4, <2>1, RequestStep DEF LookedUp, PlaceTypes, Goto, Jobs
<1>5. CASE BatchRead
  <2>1. PlaceTypes' /\ PlacesFit'
    BY <1>5 DEF BatchRead, PlaceTypes, PlacesFit, Goto, Ask, NotAsked, FirstOf,
                MaxPagesPerRun, Jobs, Poll, Refresh
  <2> QED
    BY <1>5, <2>1, RequestStep DEF BatchRead, PlaceTypes, Goto, Jobs
<1>6. CASE BatchFails
  <2>1. PlaceTypes' /\ PlacesFit'
    BY <1>6 DEF BatchFails, PlaceTypes, PlacesFit, Goto, Ask, NotAsked,
                MaxPagesPerRun, Jobs, Poll, Refresh
  <2> QED
    BY <1>6, <2>1, RequestStep DEF BatchFails, PlaceTypes, Goto, Jobs
<1>7. CASE ReconcileQuota
  <2>1. PlaceTypes' /\ PlacesFit'
    BY <1>7 DEF ReconcileQuota, PlaceTypes, PlacesFit, Goto, Ask, NotAsked,
                MaxPagesPerRun, Jobs, Poll, Refresh
  <2> QED
    BY <1>7, <2>1, RequestStep DEF ReconcileQuota, PlaceTypes, Goto, Jobs
<1> QED
  BY <1>1, <1>2, <1>3, <1>4, <1>5, <1>6, <1>7 DEF PlayerRead, PlayerFails

(* A run begins: the job had no row and now has one, of this instant.      *)
LEMMA BeginKeeps ==
  ASSUME QuotaInv, NEW j \in Jobs, NEW cause \in Modes, NEW place,
         Begin(j, cause, place), refreshes' \in 0..MaxRefresh,
         \/ j = Poll /\ place = "board"
         \/ j = Refresh /\ place = "fixtures" /\ cause # "stale_safe"
  PROVE  QuotaInv' /\ Busy(j)' /\ RunDay(j)' = DayOf(clock)
<1> USE TypesSplit DEF QuotaInv
<1> HIDE DEF MaxClock
<1> DEFINE new == [started |-> clock, finished |-> Never, requests |-> 0,
                   cause |-> cause]
<1>1. /\ LedgerTypes /\ PlaceTypes /\ PlacesFit
      /\ clock \in Nat /\ clock \in Times /\ clock' = clock
      /\ Never \notin Int /\ Batches \in Nat \ {0}
  BY Constants DEF PlaceTypes, Begin
<1>2. /\ row' = [row EXCEPT ![j] = new] /\ row[j] = NoRow
      /\ pc' = [pc EXCEPT ![j] = place] /\ pc[j] = "idle"
      /\ asked' = [asked EXCEPT ![j] = [batch |-> 1, page |-> 1]]
  BY DEF Begin, StartRun, Goto, Ask, FirstOf, RowsFit, Busy
<1>3. LedgerTypes'
  <2>1. new \in [started : Instants, finished : Instants, requests : Nat,
                 cause : Modes \cup {"none"}]
    BY <1>1 DEF Instants
  <2>2. row' \in [Jobs -> [started : Instants, finished : Instants, requests : Nat,
                           cause : Modes \cup {"none"}]]
    BY <1>1, <1>2, <2>1 DEF LedgerTypes
  <2> QED
    BY <1>1, <2>2 DEF LedgerTypes, Begin, vendor
<1>4. PlaceTypes'
  <2>1. asked' \in [Jobs -> [batch : 0..Batches, page : 0..MaxPagesPerRun]]
    BY <1>1, <1>2 DEF PlaceTypes, MaxPagesPerRun
  <2> QED
    BY <1>1, <1>2, <2>1 DEF PlaceTypes, Begin, Jobs, Poll, Refresh
<1>5. PlacesFit'
  BY <1>1, <1>2 DEF PlacesFit, PlaceTypes, Begin, MaxPagesPerRun, Jobs, Poll, Refresh
<1>6. row'[j] = new /\ \A i \in Jobs : i # j => row'[i] = row[i] /\ pc'[i] = pc[i]
  BY <1>1, <1>2 DEF LedgerTypes, PlaceTypes
<1>7. RowsFit' /\ Busy(j)'
  <2>1. pc'[j] = place /\ place # "idle"
    BY <1>1, <1>2 DEF PlaceTypes
  <2>2. new.started \in 0..clock /\ new.finished = Never /\ new.cause = cause
    BY <1>1
  <2> HIDE DEF new
  <2> QED
    BY <1>1, <1>6, <2>1, <2>2 DEF RowsFit, Busy, Jobs, Poll, Refresh
<1>8. RunDay(j)' = DayOf(clock)
  BY <1>6 DEF RunDay
<1>9. CountsFit' /\ PollsFit'
  BY <1>1 DEF CountsFit, PollsFit, Begin, vendor
<1>10. StaleCountsFit'
  <2>1. ASSUME NEW d \in Days
        PROVE  OpenStale(d) = OpenStale(d)'
    <3>1. CASE j = Refresh
      BY <1>6, <3>1 DEF OpenStale, RunDay, Jobs, Poll, Refresh
    <3>2. CASE j = Poll
      <4>1. OpenStale(d) = 0
        BY <1>2, <3>2 DEF OpenStale, NoRow
      <4>2. OpenStale(d)' = 0
        BY <1>6, <3>2 DEF OpenStale
      <4> QED
        BY <4>1, <4>2
    <3> QED
      BY <3>1, <3>2 DEF Jobs
  <2> QED
    BY <2>1 DEF StaleCountsFit, Begin, vendor
<1>11. QuotaTypeOK'
  BY <1>3, <1>4 DEF QuotaTypeOK, LedgerTypes, PlaceTypes
<1> QED
  BY <1>5, <1>7, <1>8, <1>9, <1>10, <1>11

(* A run ends: with a crash, its requests leave both counts of the stale   *)
(* ones, and with FinishRun they enter the written one.                    *)
LEMMA RestKeeps ==
  ASSUME QuotaInv, NEW j \in Jobs,
         \/ Crash(j)
         \/ CloseCycle /\ j = Poll
         \/ CloseFailedRefresh /\ j = Refresh
  PROVE  QuotaInv' /\ ~Busy(j)' /\ (\A i \in Jobs : i # j => pc'[i] = pc[i])
         /\ (\A d \in Days : staleSent'[d] <= staleSent[d])
<1> USE TypesSplit DEF QuotaInv
<1> HIDE DEF MaxClock
<1>1. Rest(j) /\ Busy(j) /\ UNCHANGED <<clock, schedule, spent, lastPoll, lastRefresh,
                                        sent, polledAt, lost, refreshes>>
  BY DEF Crash, CloseCycle, CloseFailedRefresh, vendor, bounds, Busy, Jobs
<1>2. /\ LedgerTypes /\ PlaceTypes /\ PlacesFit /\ RowsFit
      /\ RunDay(j) \in Days /\ Never \notin Int /\ Batches \in Nat \ {0}
      /\ ResolveMax \in Nat /\ Unknown \in Nat /\ MaxFaults \in Nat
  BY <1>1, RunDays, Constants
<1>3. /\ row' = [row EXCEPT ![j] = NoRow]
      /\ pc' = [pc EXCEPT ![j] = "idle"]
      /\ asked' = [asked EXCEPT ![j] = NotAsked]
      /\ lookups' = IF j = Poll THEN NoLookups ELSE lookups
      /\ failed' = [failed EXCEPT ![j] = FALSE]
  BY <1>1 DEF Rest, Goto, Ask
<1>4. /\ row'[j] = NoRow /\ pc'[j] = "idle"
      /\ \A i \in Jobs : i # j => row'[i] = row[i] /\ pc'[i] = pc[i]
                                  /\ asked'[i] = asked[i]
  BY <1>2, <1>3 DEF LedgerTypes, PlaceTypes
<1>5. NoRow.finished = Never /\ NoRow.cause = "none"
  BY DEF NoRow
<1>6. PlaceTypes'
  <2>1. asked' \in [Jobs -> [batch : 0..Batches, page : 0..MaxPagesPerRun]]
    BY <1>2, <1>3 DEF PlaceTypes, NotAsked, MaxPagesPerRun
  <2>2. lookups' \in [left : 0..Unknown, mapped : 0..ResolveMax]
    BY <1>2, <1>3 DEF PlaceTypes, NoLookups
  <2>3. pc'[Poll] \in {pc[Poll], "idle"} /\ pc'[Refresh] \in {pc[Refresh], "idle"}
        /\ DOMAIN pc' = Jobs
    BY <1>2, <1>3 DEF PlaceTypes
  <2> QED
    BY <1>1, <1>2, <1>3, <2>1, <2>2, <2>3 DEF PlaceTypes
<1>7. PlacesFit'
  BY <1>2, <1>3, <1>4 DEF PlacesFit, Jobs, Poll, Refresh
<1>8. RowsFit'
  BY <1>1, <1>2, <1>4, <1>5 DEF RowsFit, Busy, Jobs, Poll, Refresh
<1>9. CountsFit' /\ PollsFit'
  BY <1>1 DEF CountsFit, PollsFit
<1>10. row' \in [Jobs -> [started : Instants, finished : Instants, requests : Nat,
                           cause : Modes \cup {"none"}]]
  <2>1. NoRow \in [started : Instants, finished : Instants, requests : Nat,
                   cause : Modes \cup {"none"}]
    BY DEF NoRow, Instants
  <2> QED
    BY <1>2, <1>3, <2>1 DEF LedgerTypes
<1>11. crashes' \in Nat /\ crashes' + lost' <= MaxFaults
  BY <1>1, <1>2 DEF LedgerTypes, Crash, CloseCycle, CloseFailedRefresh, bounds
<1>12. ASSUME NEW d \in Days
       PROVE  /\ OpenStale(d)' = (IF j = Poll THEN 0 ELSE OpenStale(d))
              /\ OpenStale(d) = (IF row[Poll].cause = "stale_safe" /\ RunDay(Poll) = d
                                 THEN row[Poll].requests ELSE 0)
  BY <1>4, <1>5 DEF OpenStale, RunDay, Jobs, Poll, Refresh
<1>13. row[j].requests \in Nat /\ row[Poll].requests \in Nat
  BY <1>2 DEF LedgerTypes, Jobs
<1>14. StaleCountsFit
  OBVIOUS
<1>15. CASE Crash(j)
  <2>1. /\ staleSpent' = staleSpent
        /\ staleSent' = IF row[j].cause = "stale_safe"
                        THEN [staleSent EXCEPT ![RunDay(j)] = @ - row[j].requests]
                        ELSE staleSent
    BY <1>15 DEF Crash
  <2>2. \A d \in Days :
          staleSent'[d] = staleSent[d] -
             (IF row[j].cause = "stale_safe" /\ d = RunDay(j)
              THEN row[j].requests ELSE 0)
    BY <1>2, <1>13, <2>1 DEF LedgerTypes
  <2>3. \A d \in Days :
          staleSent'[d] = staleSent[d] - (IF j = Poll THEN OpenStale(d) ELSE 0)
    BY <1>2, <1>12, <1>13, <2>2 DEF RowsFit, Jobs, LedgerTypes
  <2>4. ASSUME NEW d \in Days
        PROVE  /\ staleSent'[d] \in Nat /\ staleSent'[d] <= staleSent[d]
               /\ staleSpent'[d] + OpenStale(d)' <= staleSent'[d]
               /\ staleSent'[d] <= staleSpent'[d] + OpenStale(d)' + lost'
    <3>1. /\ staleSpent[d] \in Nat /\ staleSent[d] \in Nat /\ lost \in Nat
          /\ OpenStale(d) \in Nat
      BY <1>2, <1>12, <1>13 DEF LedgerTypes
    <3> QED
      BY <1>1, <1>12, <1>14, <2>1, <2>3, <3>1 DEF StaleCountsFit
  <2>5. staleSent' \in [Days -> Nat]
    BY <1>2, <2>1, <2>4 DEF LedgerTypes
  <2>6. LedgerTypes' /\ StaleCountsFit'
    BY <1>1, <1>2, <1>10, <1>11, <2>1, <2>4, <2>5 DEF LedgerTypes, StaleCountsFit
  <2>7. QuotaTypeOK'
    BY <1>6, <2>6 DEF QuotaTypeOK, LedgerTypes, PlaceTypes
  <2> QED
    BY <1>4, <1>7, <1>8, <1>9, <2>4, <2>6, <2>7 DEF Busy
<1>16. CASE ~Crash(j)
  <2>1. /\ staleSent' = staleSent
        /\ staleSpent' = IF j = Poll /\ row[Poll].cause = "stale_safe"
                         THEN [staleSpent EXCEPT ![RunDay(Poll)] = @ + row[Poll].requests]
                         ELSE staleSpent
    BY <1>16 DEF CloseCycle, CloseFailedRefresh, vendor, Poll, Refresh
  <2>2. \A d \in Days :
          staleSpent'[d] = staleSpent[d] + (IF j = Poll THEN OpenStale(d) ELSE 0)
    BY <1>2, <1>12, <1>13, <2>1 DEF LedgerTypes
  <2>3. staleSpent' \in [Days -> Nat]
    BY <1>2, <1>13, <2>1 DEF LedgerTypes
  <2>4. ASSUME NEW d \in Days
        PROVE  /\ staleSent'[d] <= staleSent[d]
               /\ staleSpent'[d] + OpenStale(d)' <= staleSent'[d]
               /\ staleSent'[d] <= staleSpent'[d] + OpenStale(d)' + lost'
    <3>1. /\ staleSpent[d] \in Nat /\ staleSent[d] \in Nat /\ lost \in Nat
          /\ OpenStale(d) \in Nat
      BY <1>2, <1>12, <1>13 DEF LedgerTypes
    <3> QED
      BY <1>1, <1>12, <1>14, <2>1, <2>2, <3>1 DEF StaleCountsFit
  <2>5. LedgerTypes' /\ StaleCountsFit'
    BY <1>1, <1>2, <1>10, <1>11, <2>1, <2>3, <2>4 DEF LedgerTypes, StaleCountsFit
  <2>6. QuotaTypeOK'
    BY <1>6, <2>5 DEF QuotaTypeOK, LedgerTypes, PlaceTypes
  <2> QED
    BY <1>4, <1>7, <1>8, <1>9, <2>4, <2>5, <2>6 DEF Busy
<1> QED
  BY <1>15, <1>16

(* The steps that leave the ledger alone, and the clock.                   *)
LEMMA QuietKeeps ==
  ASSUME QuotaInv,
         \/ LookUp \/ WriteSchedule \/ CloseRefresh \/ Elapse \/ UNCHANGED vars
  PROVE  QuotaInv' /\ (\A j \in Jobs : Busy(j)' <=> Busy(j))
         /\ (\A j \in Jobs : RunDay(j)' = RunDay(j) /\ row'[j].cause = row[j].cause)
         /\ UNCHANGED <<sent, staleSent, lost>>
<1> USE DEF QuotaInv
<1> HIDE DEF MaxClock
<1>1. /\ LedgerTypes /\ PlaceTypes /\ PlacesFit /\ RowsFit
      /\ CountsFit /\ StaleCountsFit /\ PollsFit
      /\ Never \notin Int /\ Batches \in Nat \ {0} /\ MaxFaults \in Nat
      /\ Times = 0..MaxClock /\ MaxClock \in Nat
  BY TypesSplit, Constants
<1> SUFFICES /\ LedgerTypes' /\ PlaceTypes' /\ PlacesFit' /\ RowsFit'
             /\ CountsFit' /\ StaleCountsFit' /\ PollsFit'
             /\ \A j \in Jobs : Busy(j)' <=> Busy(j)
             /\ \A j \in Jobs : RunDay(j)' = RunDay(j) /\ row'[j].cause = row[j].cause
             /\ UNCHANGED <<sent, staleSent, lost>>
  BY DEF QuotaTypeOK, LedgerTypes, PlaceTypes
<1>2. CASE LookUp
  <2>1. /\ UNCHANGED <<clock, table, schedule, vendor, bounds, lookups, failed>>
        /\ asked' = [asked EXCEPT ![Poll] = [batch |-> 1, page |-> 1]]
        /\ pc[Poll] = "rows" /\ pc' = [pc EXCEPT ![Poll] = "player"]
        /\ lookups.left > 0 /\ lookups.mapped < ResolveMax
    BY <1>2 DEF LookUp, Ask, FirstOf, Goto
  <2>2. PlaceTypes' /\ PlacesFit'
    BY <1>1, <2>1 DEF PlaceTypes, PlacesFit, MaxPagesPerRun, Jobs, Poll, Refresh, bounds
  <2>3. \A j \in Jobs : Busy(j)' <=> Busy(j)
    BY <1>1, <2>1 DEF Busy, PlaceTypes
  <2>4. /\ LedgerTypes' /\ CountsFit' /\ StaleCountsFit' /\ PollsFit' /\ RowsFit'
    BY <1>1, <2>1, <2>3 DEF LedgerTypes, CountsFit, StaleCountsFit, PollsFit, RowsFit,
                            OpenStale, RunDay, table, vendor, bounds
  <2> QED
    BY <2>1, <2>2, <2>3, <2>4 DEF RunDay, table, vendor, bounds
<1>3. CASE WriteSchedule
  <2>1. /\ UNCHANGED <<clock, table, vendor, bounds, asked, lookups>>
        /\ pc[Refresh] = "write" /\ pc' = [pc EXCEPT ![Refresh] = "close"]
        /\ failed' = failed \/ failed' = [failed EXCEPT ![Refresh] = TRUE]
    BY <1>3 DEF WriteSchedule, Goto
  <2>2. \E S \in SUBSET Fixtures : schedule' \in [S -> Announced]
    <3>1. CASE UNCHANGED schedule
      BY <1>1, <3>1 DEF PlaceTypes
    <3>2. CASE \E got \in Got(row[Refresh].started) :
                 UpsertSchedule(got, row[Refresh].started)
      <4>1. PICK got \in Got(row[Refresh].started) :
                   UpsertSchedule(got, row[Refresh].started)
        BY <3>2
      <4>2. PICK G \in SUBSET Fixtures : got \in [G -> Announced]
        BY DEF Got, Announced
      <4>3. PICK S \in SUBSET Fixtures : schedule \in [S -> Announced]
        BY <1>1 DEF PlaceTypes
      <4> DEFINE stored(f) == IF f \in DOMAIN got THEN got[f] ELSE schedule[f]
                 Kept(stale) == {g \in (DOMAIN got \cup DOMAIN schedule) \ stale :
                                   \/ stored(g) = Never
                                   \/ stored(g) >= row[Refresh].started - 2 * WatchTail}
      <4>4. PICK stale \in SUBSET (DOMAIN schedule \ (Timed \cup DOMAIN got)) :
              schedule' = [f \in Kept(stale) |-> stored(f)]
        BY <4>1 DEF UpsertSchedule
      <4>5. /\ Kept(stale) \in SUBSET Fixtures
            /\ \A f \in Kept(stale) : stored(f) \in Announced
        BY <4>2, <4>3
      <4> HIDE DEF Kept, stored
      <4> QED
        BY <4>4, <4>5
    <3> QED
      BY <1>3, <3>1, <3>2 DEF WriteSchedule
  <2>3. PlaceTypes' /\ PlacesFit'
    BY <1>1, <2>1, <2>2 DEF PlaceTypes, PlacesFit, Jobs, Poll, Refresh, bounds
  <2>4. \A j \in Jobs : Busy(j)' <=> Busy(j)
    BY <1>1, <2>1 DEF Busy, PlaceTypes
  <2>5. /\ LedgerTypes' /\ CountsFit' /\ StaleCountsFit' /\ PollsFit' /\ RowsFit'
    BY <1>1, <2>1, <2>4 DEF LedgerTypes, CountsFit, StaleCountsFit, PollsFit, RowsFit,
                            OpenStale, RunDay, table, vendor, bounds
  <2> QED
    BY <2>1, <2>3, <2>4, <2>5 DEF RunDay, table, vendor, bounds
<1>4. CASE CloseRefresh
  <2>1. /\ UNCHANGED <<clock, spent, staleSpent, lastPoll, schedule, vendor, lost,
                       refreshes, lookups, failed>>
        /\ asked' = [asked EXCEPT ![Refresh] = [batch |-> 1, page |-> 1]]
        /\ pc[Refresh] = "close" /\ pc' = [pc EXCEPT ![Refresh] = "usage"]
        /\ \/ /\ row' = [row EXCEPT ![Refresh] = [row[Refresh] EXCEPT !.finished = clock]]
              /\ lastRefresh' \in {clock, lastRefresh} /\ crashes' = crashes
           \/ /\ crashes + lost < MaxFaults /\ crashes' = crashes + 1
              /\ UNCHANGED <<row, lastRefresh>>
    BY <1>4 DEF CloseRefresh, Ask, FirstOf, Goto
  <2>2. clock \in Instants /\ clock \in Nat
    BY <1>1 DEF PlaceTypes, Instants
  <2>3. /\ row' \in [Jobs -> [started : Instants, finished : Instants, requests : Nat,
                              cause : Modes \cup {"none"}]]
        /\ row'[Poll] = row[Poll]
        /\ row'[Refresh].finished \in {clock, row[Refresh].finished}
        /\ row'[Refresh].started = row[Refresh].started
        /\ row'[Refresh].cause = row[Refresh].cause
    <3> DEFINE Row == [started : Instants, finished : Instants, requests : Nat,
                       cause : Modes \cup {"none"}]
               closed == [row[Refresh] EXCEPT !.finished = clock]
    <3>1. row \in [Jobs -> Row]
      BY <1>1 DEF LedgerTypes
    <3>2. Poll \in Jobs /\ Refresh \in Jobs /\ Poll # Refresh
      BY DEF Jobs, Poll, Refresh
    <3>3. row[Refresh] \in Row
      BY <3>1, <3>2
    <3>4. /\ closed \in Row /\ closed.finished = clock
          /\ closed.started = row[Refresh].started /\ closed.cause = row[Refresh].cause
      BY <2>2, <3>3
    <3> HIDE DEF Row, closed
    <3>5. CASE row' = [row EXCEPT ![Refresh] = closed]
      BY <3>1, <3>2, <3>4, <3>5 DEF Row
    <3>6. CASE row' = row
      BY <3>1, <3>6 DEF Row
    <3> QED BY <2>1, <3>5, <3>6 DEF closed
  <2>4. PlaceTypes' /\ PlacesFit'
    BY <1>1, <2>1 DEF PlaceTypes, PlacesFit, MaxPagesPerRun, Jobs, Poll, Refresh
  <2>5. \A j \in Jobs : Busy(j)' <=> Busy(j)
    BY <1>1, <2>1 DEF Busy, PlaceTypes
  <2>6. LedgerTypes'
    BY <1>1, <2>1, <2>2, <2>3 DEF LedgerTypes, vendor
  <2>7. RowsFit'
    <3>1. Busy(Refresh)
      BY <2>1 DEF Busy
    <3> QED
      BY <1>1, <2>1, <2>2, <2>3, <2>5, <3>1 DEF RowsFit, Jobs
  <2>8. CountsFit' /\ StaleCountsFit' /\ PollsFit'
    BY <1>1, <2>1, <2>3 DEF CountsFit, StaleCountsFit, PollsFit, OpenStale, RunDay, vendor
  <2>9. \A j \in Jobs : RunDay(j)' = RunDay(j) /\ row'[j].cause = row[j].cause
    BY <2>3 DEF RunDay, Jobs
  <2> QED
    BY <2>1, <2>4, <2>5, <2>6, <2>7, <2>8, <2>9 DEF vendor
<1>5. CASE Elapse
  <2>1. /\ clock' = clock + 1 /\ clock < MaxClock
        /\ UNCHANGED <<table, schedule, vendor, bounds, jobVars>>
    BY <1>5 DEF Elapse
  <2>2. clock' \in Times /\ \A t \in 0..clock : t \in 0..clock'
    BY <1>1, <2>1 DEF PlaceTypes
  <2>3. PlaceTypes' /\ PlacesFit' /\ LedgerTypes'
    BY <1>1, <2>1, <2>2 DEF PlaceTypes, PlacesFit, LedgerTypes, table, vendor, bounds,
                            jobVars
  <2>4. CountsFit' /\ StaleCountsFit'
    BY <1>1, <2>1 DEF CountsFit, StaleCountsFit, OpenStale, RunDay, table, vendor, bounds
  <2>5. PollsFit' /\ RowsFit'
    BY <1>1, <2>1, <2>2 DEF PollsFit, RowsFit, Busy, table, vendor, bounds, jobVars
  <2> QED
    BY <2>1, <2>3, <2>4, <2>5 DEF Busy, RunDay, table, vendor, bounds, jobVars
<1>6. CASE UNCHANGED vars
  BY <1>1, <1>6 DEF vars, table, vendor, bounds, jobVars, LedgerTypes, PlaceTypes,
     PlacesFit, RowsFit, CountsFit, StaleCountsFit, PollsFit, OpenStale, RunDay, Busy
<1> QED
  BY <1>2, <1>3, <1>4, <1>5, <1>6

LEMMA PickedModes ==
  ASSUME NEW s, NEW now, PickMode(s, now) # "asleep",
         s.active \in Nat
  PROVE  PickMode(s, now) \in {"active", "watching", "stale_safe"}
BY DEF PickMode

LEMMA DecideBegins ==
  ASSUME NEW now \in Times, NEW active \in 0..1, DecidePoll(now, active)
  PROVE  /\ Begin(Poll, PickMode(Snapshot(now, active), now), "board")
         /\ PickMode(Snapshot(now, active), now) \in {"active", "watching", "stale_safe"}
         /\ refreshes' = refreshes
<1>1. Snapshot(now, active).active \in Nat
  BY DEF Snapshot
<1> QED
  BY <1>1, PickedModes DEF DecidePoll, Polls

(* Every step is of one of these kinds.                                    *)
LEMMA StepKinds ==
  ASSUME [QuotaNext]_vars
  PROVE  \/ \E now \in Times, active \in 0..1 : DecidePoll(now, active)
         \/ StartRefresh
         \/ \E j \in Jobs : Crash(j)
         \/ CloseCycle \/ CloseFailedRefresh
         \/ \E j \in Jobs : NextPage(j)
         \/ BoardRead \/ BoardFails \/ PlayerRead \/ PlayerFails
         \/ BatchRead \/ BatchFails \/ ReconcileQuota
         \/ LookUp \/ WriteSchedule \/ CloseRefresh \/ Elapse \/ UNCHANGED vars
BY DEF QuotaNext, SkipTick

LEMMA QuotaStep ==
  ASSUME QuotaInv, [QuotaNext]_vars
  PROVE  QuotaInv'
<1>1. ASSUME NEW now \in Times, NEW active \in 0..1, DecidePoll(now, active)
      PROVE  QuotaInv'
  <2>1. refreshes' \in 0..MaxRefresh
    BY <1>1, DecideBegins DEF QuotaInv, QuotaTypeOK
  <2> QED
    BY <1>1, <2>1, DecideBegins, BeginKeeps DEF Modes, Jobs
<1>2. CASE StartRefresh
  <2>1. refreshes' \in 0..MaxRefresh
    BY <1>2, Constants DEF StartRefresh, QuotaInv, QuotaTypeOK
  <2> QED
    BY <1>2, <2>1, BeginKeeps DEF StartRefresh, Modes, Jobs
<1>3. CASE (\E j \in Jobs : Crash(j)) \/ CloseCycle \/ CloseFailedRefresh
  BY <1>3, RestKeeps DEF Jobs
<1> QED
  BY <1>1, <1>2, <1>3, StepKinds, RequestingKeeps, QuietKeeps

LEMMA QuotaStart == QuotaInit => QuotaInv
<1> SUFFICES ASSUME QuotaInit
             PROVE  QuotaInv
  OBVIOUS
<1> HIDE DEF MaxClock
<1>1. 0 \in Times /\ Batches \in Nat \ {0} /\ MaxFaults \in Nat /\ MaxRefresh \in Nat
      /\ Unknown \in Nat /\ ResolveMax \in Nat /\ Never \notin Int
  BY Constants
<1>2. NoRow \in [started : Instants, finished : Instants, requests : Nat,
                 cause : Modes \cup {"none"}]
      /\ NoRow.finished = Never /\ NoRow.cause = "none"
  BY DEF NoRow, Instants
<1>3. LedgerTypes
  BY <1>1, <1>2 DEF QuotaInit, LedgerTypes, Instants
<1>4. PlaceTypes
  <2>1. schedule \in [{} -> Announced]
    BY DEF QuotaInit
  <2>2. asked \in [Jobs -> [batch : 0..Batches, page : 0..MaxPagesPerRun]]
        /\ lookups \in [left : 0..Unknown, mapped : 0..ResolveMax]
    BY <1>1 DEF QuotaInit, NotAsked, NoLookups, MaxPagesPerRun
  <2>3. pc = [j \in Jobs |-> "idle"] /\ failed = [j \in Jobs |-> FALSE]
        /\ clock = 0 /\ refreshes = 0
    BY DEF QuotaInit
  <2>4. \E S \in SUBSET Fixtures : schedule \in [S -> Announced]
    BY <2>1
  <2> QED
    BY <1>1, <2>2, <2>3, <2>4 DEF PlaceTypes, Jobs
<1>5. RowsFit /\ PlacesFit /\ CountsFit /\ StaleCountsFit /\ PollsFit
  BY <1>2 DEF QuotaInit, RowsFit, PlacesFit, CountsFit, StaleCountsFit, PollsFit, Busy,
              OpenStale, Jobs
<1> QED
  BY <1>3, <1>4, <1>5, TypesSplit DEF QuotaInv

LEMMA QuotaInvariant == QuotaSpec => []QuotaInv
BY QuotaStart, QuotaStep, PTL DEF QuotaSpec

(* The rows, the counts and the places of both jobs stay well typed, for   *)
(* any quota, calendar, schedule and number of faults; that a crash never  *)
(* takes a count below zero is the part of it that needs an invariant.     *)
THEOREM QuotaTypeCorrect == QuotaSpec => []QuotaTypeOK
<1>1. QuotaInv => QuotaTypeOK
  BY DEF QuotaInv
<1> QED
  BY <1>1, QuotaInvariant, PTL

-----------------------------------------------------------------------------
(* What a poll may begin with.                                             *)

(* At the decision the snapshot's sum bounds the day's requests.           *)
LEMMA DecideBounds ==
  ASSUME QuotaInv, NEW now \in Times, NEW active \in 0..1, DecidePoll(now, active)
  PROVE  LET d == DayOf(clock)
             s == Snapshot(now, active)
         IN  /\ d \in Days
             /\ sent[Poll][d] + sent[Refresh][d] <= Budget + lost
             /\ PickMode(s, now) = "stale_safe" => staleSent[d] < StaleDailyCap + lost
<1> DEFINE d == DayOf(clock)
           s == Snapshot(now, active)
<1> HIDE DEF MaxClock
<1>1. /\ clock \in Times /\ now \in Times /\ now <= clock
      /\ spent \in [Days -> Nat] /\ staleSpent \in [Days -> Nat]
      /\ sent \in [Jobs -> [Days -> Nat]] /\ staleSent \in [Days -> Nat]
      /\ lost \in Nat /\ pc[Poll] = "idle"
  BY DEF DecidePoll, QuotaInv, QuotaTypeOK
<1>2. d \in Days /\ DayOf(now) <= d
  BY <1>1, Calendar
<1>3. /\ SumSince(spent, now) \in Nat /\ spent[d] <= SumSince(spent, now)
      /\ SumSince(staleSpent, now) \in Nat
      /\ staleSpent[d] <= SumSince(staleSpent, now)
  BY <1>1, <1>2, SumSinceBounds
<1>4. /\ DailyQuota - SumSince(spent, now) - Reserve >= MaxPagesPerRun
      /\ PickMode(s, now) = "stale_safe" => ~(SumSince(staleSpent, now) >= StaleDailyCap)
  BY DEF DecidePoll, Polls, Left, Snapshot
<1>5. sent[Poll][d] + sent[Refresh][d] <= spent[d] + lost
  BY <1>2 DEF QuotaInv, CountsFit
<1>6. staleSent[d] <= staleSpent[d] + lost
  <2>1. row[Poll] = NoRow
    BY <1>1 DEF QuotaInv, RowsFit, Busy, Jobs
  <2>2. OpenStale(d) = 0
    BY <2>1 DEF OpenStale, NoRow
  <2> QED
    BY <1>1, <1>2, <2>2 DEF QuotaInv, StaleCountsFit
<1>7. /\ sent[Poll][d] \in Nat /\ sent[Refresh][d] \in Nat /\ spent[d] \in Nat
      /\ staleSent[d] \in Nat /\ staleSpent[d] \in Nat
  BY <1>1, <1>2 DEF Jobs
<1> HIDE DEF d, s
<1>8. sent[Poll][d] + sent[Refresh][d] <= Budget + lost
  <2>1. DailyQuota \in Nat /\ Reserve \in Nat
    BY Constants
  <2> QED
    BY <1>1, <1>3, <1>4, <1>5, <1>7, <2>1 DEF Budget, MaxPagesPerRun
<1>9. PickMode(s, now) = "stale_safe" => staleSent[d] < StaleDailyCap + lost
  BY <1>1, <1>3, <1>4, <1>6, <1>7, Constants
<1> QED
  BY <1>2, <1>8, <1>9 DEF d, s

(* No other step takes Job B from rest to the board.                       *)
LEMMA OnlyDecideBegins ==
  ASSUME QuotaInv, [QuotaNext]_vars, BeginsPoll
  PROVE  \E now \in Times, active \in 0..1 : DecidePoll(now, active)
<1>1. /\ DOMAIN pc = Jobs /\ pc[Poll] = "idle" /\ pc'[Poll] = "board"
      /\ Poll # Refresh /\ Poll \in Jobs /\ Refresh \in Jobs
  BY DEF QuotaInv, QuotaTypeOK, BeginsPoll, Jobs, Poll, Refresh
<1>2. ~StartRefresh
  BY <1>1 DEF StartRefresh, Begin, Goto
<1>3. ~CloseCycle /\ ~CloseFailedRefresh /\ ~\E j \in Jobs : Crash(j)
  BY <1>1 DEF CloseCycle, CloseFailedRefresh, Crash, Rest, Goto
<1>4. /\ ~\E j \in Jobs : NextPage(j)
      /\ ~BoardRead /\ ~BoardFails /\ ~PlayerRead /\ ~PlayerFails
      /\ ~BatchRead /\ ~BatchFails /\ ~ReconcileQuota
  BY <1>1 DEF NextPage, BoardRead, BoardFails, PlayerRead, PlayerFails, BatchRead,
              BatchFails, ReconcileQuota, Goto
<1>5. ~LookUp /\ ~WriteSchedule /\ ~CloseRefresh /\ ~Elapse /\ ~UNCHANGED vars
  BY <1>1 DEF LookUp, WriteSchedule, CloseRefresh, Elapse, vars, jobVars, Goto
<1> QED
  BY <1>2, <1>3, <1>4, <1>5, StepKinds

(* Job B begins a cycle only with the reserve and a whole board left of    *)
(* all that both jobs have asked this day, whatever failed, crashed, was   *)
(* retried or was asked between the reading of the clock and the decision. *)
THEOREM BudgetKept == QuotaSpec => PollsWithinBudget
<1>1. QuotaInv /\ [QuotaNext]_vars =>
        (BeginsPoll => LET d == DayOf(clock)
                       IN  sent[Poll][d] + sent[Refresh][d] <= Budget + lost)
  BY OnlyDecideBegins, DecideBounds
<1>2. QuotaInv /\ [QuotaNext]_vars =>
        [BeginsPoll => LET d == DayOf(clock)
                       IN  sent[Poll][d] + sent[Refresh][d] <= Budget + lost]_vars
  BY <1>1
<1> QED
  BY <1>2, QuotaInvariant, PTL DEF QuotaSpec, PollsWithinBudget

-----------------------------------------------------------------------------
(* What a cycle may have cost so far, in requests with all their attempts. *)

Used == IF pc[Poll] = "board" THEN asked[Poll].page - 1
        ELSE MaxPagesPerRun + Unknown - lookups.left

Cost(k) == k * (Retries + 1)

(* The cycle under way began within the bound and has cost what it may;    *)
(* one that is over has cost no more than a whole cycle.                   *)
DayFits ==
  \A d \in Days :
    sent[Poll][d] <= Budget + lost
      + (IF Busy(Poll) /\ RunDay(Poll) = d THEN Cost(Used) ELSE CycleCost)

StaleFits ==
  \A d \in Days :
    staleSent[d] < StaleDailyCap + lost
      + (IF Busy(Poll) /\ row[Poll].cause = "stale_safe" /\ RunDay(Poll) = d
         THEN Cost(Used) ELSE CycleCost)

LEMMA Costs ==
  /\ CycleCost = Cost(MaxPagesPerRun + Unknown) /\ Cost(0) = 0
  /\ \A k \in Nat : Cost(k) \in Nat /\ Cost(k + 1) = Cost(k) + Retries + 1
  /\ \A k, m \in Nat : k <= m => Cost(k) <= Cost(m)
  /\ CycleCost \in Nat /\ CycleCost > 0
<1>1. Retries \in Nat /\ Unknown \in Nat
  BY Constants
<1>2. \A k, m \in Nat : k <= m => k * (Retries + 1) <= m * (Retries + 1)
  BY <1>1
<1>3. \A k \in Nat : k * (Retries + 1) \in Nat
                     /\ (k + 1) * (Retries + 1) = k * (Retries + 1) + Retries + 1
  BY <1>1
<1>4. 0 * (Retries + 1) = 0
  BY <1>1
<1>5. CycleCost = Cost(MaxPagesPerRun + Unknown)
  BY DEF CycleCost, Cost
<1>6. Cost(1) = Retries + 1 /\ Cost(1) <= Cost(MaxPagesPerRun + Unknown)
  BY <1>1, <1>2, <1>3, <1>4 DEF Cost, MaxPagesPerRun
<1>7. MaxPagesPerRun + Unknown \in Nat
  BY <1>1 DEF MaxPagesPerRun
<1> QED
  BY <1>1, <1>2, <1>3, <1>4, <1>5, <1>6, <1>7 DEF Cost

LEMMA UsedRange ==
  ASSUME QuotaInv
  PROVE  Used \in 0..(MaxPagesPerRun + Unknown)
<1>1. /\ lookups.left \in 0..Unknown /\ Unknown \in Nat
      /\ pc[Poll] = "board" => asked[Poll].page \in 1..MaxPagesPerRun
  BY Constants DEF QuotaInv, QuotaTypeOK, PlacesFit
<1> QED
  BY <1>1 DEF Used, MaxPagesPerRun

(* A request of Job B costs no more than one unit of its allowance.        *)
LEMMA PollRequestFits ==
  ASSUME QuotaInv, QuotaInv', DayFits, StaleFits,
         Fails(Poll) \/ Answered(Poll), UNCHANGED <<clock, crashes>>,
         Used' >= Used + 1, Busy(Poll)', pc[Poll] # "usage", Budget \in Int
  PROVE  DayFits' /\ StaleFits'
<1>1. PICK n \in 0..(Retries + 1) : Request(Poll, n)
  BY FailsIsRequest DEF Jobs
<1>2. /\ Busy(Poll) /\ lost <= lost'
      /\ row'[Poll].started = row[Poll].started
      /\ row'[Poll].cause = row[Poll].cause
      /\ \A d \in Days :
           sent'[Poll][d] = sent[Poll][d] + (IF d = RunDay(Poll) THEN n ELSE 0)
      /\ \A d \in Days :
           staleSent'[d] = staleSent[d]
             + (IF row[Poll].cause = "stale_safe" /\ d = RunDay(Poll) THEN n ELSE 0)
  BY <1>1, RequestKeeps DEF Jobs
<1>3. RunDay(Poll)' = RunDay(Poll)
  BY <1>2 DEF RunDay
<1>4. /\ lost \in Nat /\ lost' \in Nat /\ StaleDailyCap \in Nat
      /\ sent \in [Jobs -> [Days -> Nat]] /\ staleSent \in [Days -> Nat]
      /\ Retries \in Nat
  BY Constants DEF QuotaInv, QuotaTypeOK
<1>5. Used \in Nat /\ Used' \in Nat
  <2>1. Used' \in 0..(MaxPagesPerRun + Unknown) /\ Used \in 0..(MaxPagesPerRun + Unknown)
    <3>1. /\ lookups'.left \in 0..Unknown /\ Unknown \in Nat
          /\ pc'[Poll] = "board" => asked'[Poll].page \in 1..MaxPagesPerRun
      BY Constants DEF QuotaInv, QuotaTypeOK, PlacesFit
    <3> QED
      BY <3>1, UsedRange DEF Used, MaxPagesPerRun
  <2> QED
    BY <2>1, Constants DEF MaxPagesPerRun
<1>6. /\ Cost(Used) \in Nat /\ Cost(Used') \in Nat /\ CycleCost \in Nat
      /\ Cost(Used) + Retries + 1 <= Cost(Used')
  <2> DEFINE k == Used
             m == Used'
  <2>1. k \in Nat /\ m \in Nat /\ k + 1 \in Nat /\ k + 1 <= m
    BY <1>5
  <2> HIDE DEF k, m
  <2>2. /\ Cost(k) \in Nat /\ Cost(m) \in Nat /\ Cost(k + 1) <= Cost(m)
        /\ Cost(k + 1) = Cost(k) + Retries + 1
    BY <2>1, Costs
  <2>3. Cost(k) + Retries + 1 <= Cost(m)
    BY <2>2
  <2> QED
    BY <2>2, <2>3, Costs DEF k, m
<1>7. Cost(Used)' = Cost(Used')
  BY DEF Cost
<1>8. n \in Nat /\ n <= Retries + 1
  BY <1>4
<1>9. ASSUME NEW d \in Days
      PROVE  /\ sent'[Poll][d] <= Budget + lost'
                  + (IF Busy(Poll)' /\ RunDay(Poll)' = d THEN Cost(Used') ELSE CycleCost)
             /\ staleSent'[d] < StaleDailyCap + lost'
                  + (IF Busy(Poll)' /\ row'[Poll].cause = "stale_safe"
                          /\ RunDay(Poll)' = d
                     THEN Cost(Used') ELSE CycleCost)
  <2>1. sent[Poll][d] \in Nat /\ staleSent[d] \in Nat
    BY <1>4 DEF Jobs
  <2>2. /\ sent[Poll][d] <= Budget + lost
             + (IF RunDay(Poll) = d THEN Cost(Used) ELSE CycleCost)
        /\ staleSent[d] < StaleDailyCap + lost
             + (IF row[Poll].cause = "stale_safe" /\ RunDay(Poll) = d
                THEN Cost(Used) ELSE CycleCost)
    BY <1>2 DEF DayFits, StaleFits
  <2>3. sent'[Poll][d] <= Budget + lost'
          + (IF RunDay(Poll) = d THEN Cost(Used') ELSE CycleCost)
    BY <1>2, <1>4, <1>6, <1>8, <2>1, <2>2
  <2>4. staleSent'[d] < StaleDailyCap + lost'
          + (IF row[Poll].cause = "stale_safe" /\ RunDay(Poll) = d
             THEN Cost(Used') ELSE CycleCost)
    BY <1>2, <1>4, <1>6, <1>8, <2>1, <2>2
  <2> QED
    BY <1>2, <1>3, <2>3, <2>4
<1> QED
  BY <1>7, <1>9 DEF DayFits, StaleFits, CycleCost

(* A step that leaves Job B's run where it is, and the vendor too.         *)
LEMMA ElsewhereFits ==
  ASSUME QuotaInv, QuotaInv', DayFits, StaleFits,
         Used' = Used, Busy(Poll)' <=> Busy(Poll), RunDay(Poll)' = RunDay(Poll),
         row'[Poll].cause = row[Poll].cause, lost <= lost',
         \A d \in Days : sent'[Poll][d] = sent[Poll][d] /\ staleSent'[d] <= staleSent[d],
         Budget \in Int
  PROVE  DayFits' /\ StaleFits'
<1>1. /\ lost \in Nat /\ lost' \in Nat /\ StaleDailyCap \in Nat
      /\ sent \in [Jobs -> [Days -> Nat]] /\ staleSent \in [Days -> Nat]
      /\ staleSent' \in [Days -> Nat]
  BY Constants DEF QuotaInv, QuotaTypeOK
<1>2. Cost(Used) \in Nat /\ CycleCost \in Nat
  BY UsedRange, Costs, Constants DEF MaxPagesPerRun
<1>3. ASSUME NEW d \in Days
      PROVE  /\ sent'[Poll][d] <= Budget + lost'
                  + (IF Busy(Poll) /\ RunDay(Poll) = d THEN Cost(Used) ELSE CycleCost)
             /\ staleSent'[d] < StaleDailyCap + lost'
                  + (IF Busy(Poll) /\ row[Poll].cause = "stale_safe" /\ RunDay(Poll) = d
                     THEN Cost(Used) ELSE CycleCost)
  <2>1. sent[Poll][d] \in Nat /\ staleSent[d] \in Nat /\ staleSent'[d] \in Nat
    BY <1>1 DEF Jobs
  <2> QED
    BY <1>1, <1>2, <2>1 DEF DayFits, StaleFits
<1>4. Cost(Used)' = Cost(Used) /\ CycleCost' = CycleCost
  BY DEF Cost, CycleCost
<1> QED
  BY <1>3, <1>4 DEF DayFits, StaleFits

(* A cycle begins within the bound, with nothing used.                     *)
LEMMA DecideFits ==
  ASSUME QuotaInv, DayFits, StaleFits, Budget \in Int,
         NEW now \in Times, NEW active \in 0..1, DecidePoll(now, active)
  PROVE  DayFits' /\ StaleFits'
<1> DEFINE mode == PickMode(Snapshot(now, active), now)
<1>1. /\ DayOf(clock) \in Days
      /\ sent[Poll][DayOf(clock)] + sent[Refresh][DayOf(clock)] <= Budget + lost
      /\ mode = "stale_safe" => staleSent[DayOf(clock)] < StaleDailyCap + lost
  BY DecideBounds
<1>2. /\ Begin(Poll, mode, "board") /\ mode \in Modes /\ refreshes' \in 0..MaxRefresh
      /\ pc[Poll] = "idle" /\ Poll \in Jobs
  BY DecideBegins DEF Modes, DecidePoll, QuotaInv, QuotaTypeOK, Jobs
<1>3. RunDay(Poll)' = DayOf(clock) /\ Busy(Poll)'
  BY <1>2, BeginKeeps
<1> HIDE DEF mode
<1>4. /\ row' = [row EXCEPT ![Poll] = [started |-> clock, finished |-> Never,
                                       requests |-> 0, cause |-> mode]]
      /\ asked' = [asked EXCEPT ![Poll] = [batch |-> 1, page |-> 1]]
      /\ pc' = [pc EXCEPT ![Poll] = "board"]
      /\ UNCHANGED <<sent, staleSent, lost>>
  BY <1>2 DEF Begin, StartRun, Ask, FirstOf, Goto, vendor
<1>5. /\ DOMAIN pc = Jobs /\ DOMAIN asked = Jobs /\ DOMAIN row = Jobs
      /\ lost \in Nat /\ StaleDailyCap \in Nat
      /\ sent \in [Jobs -> [Days -> Nat]] /\ staleSent \in [Days -> Nat]
  BY Constants DEF QuotaInv, QuotaTypeOK
<1>6. row'[Poll].cause = mode /\ Used' = 0
  BY <1>2, <1>4, <1>5 DEF Used
<1>7. Cost(Used)' = 0 /\ CycleCost' = CycleCost /\ CycleCost \in Nat
  BY <1>6, Costs DEF Cost, CycleCost
<1>8. ASSUME NEW d \in Days
      PROVE  /\ sent[Poll][d] <= Budget + lost
                  + (IF DayOf(clock) = d THEN 0 ELSE CycleCost)
             /\ staleSent[d] < StaleDailyCap + lost
                  + (IF mode = "stale_safe" /\ DayOf(clock) = d THEN 0 ELSE CycleCost)
  <2>1. sent[Poll][d] \in Nat /\ sent[Refresh][d] \in Nat /\ staleSent[d] \in Nat
    BY <1>5 DEF Jobs
  <2>2. /\ sent[Poll][d] <= Budget + lost + CycleCost
        /\ staleSent[d] < StaleDailyCap + lost + CycleCost
    BY <1>2 DEF DayFits, StaleFits, Busy
  <2> QED
    BY <1>1, <1>5, <1>7, <2>1, <2>2
<1> QED
  BY <1>3, <1>4, <1>6, <1>7, <1>8 DEF DayFits, StaleFits

(* A cycle that is over has cost no more than a whole one.                 *)
LEMMA RestFits ==
  ASSUME QuotaInv, DayFits, StaleFits, Budget \in Int,
         CloseCycle \/ Crash(Poll)
  PROVE  DayFits' /\ StaleFits'
<1>1. /\ QuotaInv' /\ ~Busy(Poll)'
      /\ \A d \in Days : staleSent'[d] <= staleSent[d]
      /\ UNCHANGED <<sent, lost>>
  <2>1. UNCHANGED <<sent, lost>>
    BY DEF CloseCycle, Crash, vendor, bounds
  <2> QED
    BY <2>1, RestKeeps DEF Jobs
<1>2. /\ lost \in Nat /\ StaleDailyCap \in Nat
      /\ sent \in [Jobs -> [Days -> Nat]] /\ staleSent \in [Days -> Nat]
      /\ staleSent' \in [Days -> Nat]
  BY <1>1, Constants DEF QuotaInv, QuotaTypeOK
<1>3. Cost(Used) \in Nat /\ CycleCost \in Nat /\ Cost(Used) <= CycleCost
  <2>1. Used \in Nat /\ MaxPagesPerRun + Unknown \in Nat /\ Used <= MaxPagesPerRun + Unknown
    BY UsedRange, Constants DEF MaxPagesPerRun
  <2> QED
    BY <2>1, Costs
<1>4. ASSUME NEW d \in Days
      PROVE  /\ sent[Poll][d] <= Budget + lost + CycleCost
             /\ staleSent'[d] < StaleDailyCap + lost + CycleCost
  <2>1. sent[Poll][d] \in Nat /\ staleSent[d] \in Nat /\ staleSent'[d] \in Nat
    BY <1>2 DEF Jobs
  <2> QED
    BY <1>1, <1>2, <1>3, <2>1 DEF DayFits, StaleFits
<1>5. CycleCost' = CycleCost
  BY DEF CycleCost
<1> QED
  BY <1>1, <1>4, <1>5 DEF DayFits, StaleFits

LEMMA FitsStep ==
  ASSUME QuotaInv, DayFits, StaleFits, Budget \in Int, [QuotaNext]_vars
  PROVE  DayFits' /\ StaleFits'
<1>1. QuotaInv'
  BY QuotaStep
<1>2. /\ DOMAIN pc = Jobs /\ DOMAIN row = Jobs
      /\ asked \in [Jobs -> [batch : 0..Batches, page : 0..MaxPagesPerRun]]
      /\ lookups \in [left : 0..Unknown, mapped : 0..ResolveMax]
      /\ Unknown \in Nat /\ row[Refresh].cause # "stale_safe"
      /\ Poll \in Jobs /\ Refresh \in Jobs /\ Poll # Refresh
      /\ pc[Poll] \in {"idle", "board", "rows", "player"}
      /\ lost \in Nat /\ Retries \in Nat
      /\ sent \in [Jobs -> [Days -> Nat]] /\ staleSent \in [Days -> Nat]
  BY Constants DEF QuotaInv, QuotaTypeOK, RowsFit, Jobs, Poll, Refresh
<1>3. \A d \in Days : sent[Poll][d] \in Nat /\ staleSent[d] \in Nat
  BY <1>2
<1>4. CASE \E now \in Times, active \in 0..1 : DecidePoll(now, active)
  BY <1>4, DecideFits
<1>5. CASE CloseCycle \/ Crash(Poll)
  BY <1>5, RestFits
<1>6. CASE StartRefresh
  <2>1. /\ row' = [row EXCEPT ![Refresh] = [started |-> clock, finished |-> Never,
                                            requests |-> 0, cause |-> "refresh"]]
        /\ asked' = [asked EXCEPT ![Refresh] = [batch |-> 1, page |-> 1]]
        /\ pc' = [pc EXCEPT ![Refresh] = "fixtures"]
        /\ UNCHANGED <<sent, staleSent, lost, lookups>>
    BY <1>6 DEF StartRefresh, Begin, StartRun, Ask, FirstOf, Goto, vendor
  <2>2. row'[Poll] = row[Poll] /\ pc'[Poll] = pc[Poll] /\ asked'[Poll] = asked[Poll]
    BY <1>2, <2>1
  <2>3. /\ Used' = Used /\ (Busy(Poll)' <=> Busy(Poll))
        /\ RunDay(Poll)' = RunDay(Poll)
    BY <2>1, <2>2 DEF Used, Busy, RunDay
  <2> QED
    BY <1>1, <1>2, <1>3, <2>1, <2>2, <2>3, ElsewhereFits
<1>7. CASE CloseFailedRefresh \/ Crash(Refresh)
  <2>1. /\ row' = [row EXCEPT ![Refresh] = NoRow]
        /\ asked' = [asked EXCEPT ![Refresh] = NotAsked]
        /\ pc' = [pc EXCEPT ![Refresh] = "idle"]
        /\ UNCHANGED <<sent, lost, lookups>>
    BY <1>2, <1>7 DEF CloseFailedRefresh, Crash, Rest, Ask, Goto, vendor, bounds
  <2>2. row'[Poll] = row[Poll] /\ pc'[Poll] = pc[Poll] /\ asked'[Poll] = asked[Poll]
    BY <1>2, <2>1
  <2>3. /\ Used' = Used /\ (Busy(Poll)' <=> Busy(Poll))
        /\ RunDay(Poll)' = RunDay(Poll)
    BY <2>1, <2>2 DEF Used, Busy, RunDay
  <2>4. \A d \in Days : staleSent'[d] <= staleSent[d]
    BY <1>2, <1>7, RestKeeps
  <2> QED
    BY <1>1, <1>2, <1>3, <2>1, <2>2, <2>3, <2>4, ElsewhereFits
<1>8. CASE LookUp \/ WriteSchedule \/ CloseRefresh \/ Elapse \/ UNCHANGED vars
  <2>1. /\ Busy(Poll)' <=> Busy(Poll)
        /\ RunDay(Poll)' = RunDay(Poll) /\ row'[Poll].cause = row[Poll].cause
        /\ UNCHANGED <<sent, staleSent, lost>>
    BY <1>2, <1>8, QuietKeeps
  <2>2. /\ lookups' = lookups
        /\ \/ asked'[Poll] = asked[Poll] /\ pc'[Poll] = pc[Poll]
           \/ pc[Poll] = "rows" /\ pc'[Poll] = "player"
    <3>1. CASE LookUp
      BY <1>2, <3>1 DEF LookUp, Goto
    <3>2. CASE WriteSchedule \/ CloseRefresh
      BY <1>2, <3>2 DEF WriteSchedule, CloseRefresh, Ask, Goto
    <3>3. CASE Elapse \/ UNCHANGED vars
      BY <3>3 DEF Elapse, vars, jobVars
    <3> QED
      BY <1>8, <3>1, <3>2, <3>3
  <2>3. Used' = Used
    BY <2>2 DEF Used
  <2> QED
    BY <1>1, <1>2, <1>3, <2>1, <2>3, ElsewhereFits
<1>9. CASE BoardRead \/ BoardFails \/ PlayerRead \/ PlayerFails \/ NextPage(Poll)
  <2>1. /\ Fails(Poll) \/ Answered(Poll)
        /\ UNCHANGED <<clock, crashes>> /\ pc[Poll] # "usage"
    BY <1>2, <1>9 DEF BoardRead, BoardFails, PlayerRead, PlayerFails, LookedUp, NextPage
  <2>2. Used' >= Used + 1 /\ Busy(Poll)'
    <3>1. pc[Poll] = "board" => asked[Poll].page \in 1..MaxPagesPerRun
      BY DEF QuotaInv, PlacesFit
    <3>2. CASE BoardRead \/ BoardFails
      <4>1. lookups'.left \in 0..Unknown /\ pc[Poll] = "board" /\ pc'[Poll] = "rows"
        BY <1>2, <3>2 DEF BoardRead, BoardFails, Goto
      <4> QED
        BY <1>2, <3>1, <4>1 DEF Used, Busy, MaxPagesPerRun
    <3>3. CASE PlayerRead \/ PlayerFails
      <4>1. lookups'.left = lookups.left - 1 /\ pc[Poll] = "player" /\ pc'[Poll] = "rows"
        BY <1>2, <3>3 DEF PlayerRead, PlayerFails, LookedUp, Goto
      <4> QED
        BY <1>2, <4>1 DEF Used, Busy, MaxPagesPerRun
    <3>4. CASE NextPage(Poll)
      <4>1. pc[Poll] = "board" /\ pc'[Poll] = "board" /\ asked'[Poll].page = asked[Poll].page + 1
        BY <1>2, <3>4 DEF NextPage, Ask
      <4> QED
        BY <1>2, <3>1, <4>1 DEF Used, Busy, MaxPagesPerRun
    <3> QED
      BY <1>9, <3>2, <3>3, <3>4
  <2> QED
    BY <1>1, <2>1, <2>2, PollRequestFits
<1>10. CASE BatchRead \/ BatchFails \/ ReconcileQuota \/ NextPage(Refresh)
  <2>1. /\ Fails(Refresh) \/ Answered(Refresh)
        /\ UNCHANGED <<clock, crashes, lookups>>
        /\ pc'[Poll] = pc[Poll] /\ asked'[Poll] = asked[Poll]
    BY <1>2, <1>10 DEF BatchRead, BatchFails, ReconcileQuota, NextPage, Goto, Ask
  <2>2. PICK n \in 0..(Retries + 1) : Request(Refresh, n)
    BY <1>2, <2>1, FailsIsRequest
  <2>3. /\ row'[Poll] = row[Poll] /\ lost <= lost'
        /\ \A d \in Days : sent'[Poll][d] = sent[Poll][d] + 0
        /\ \A d \in Days : staleSent'[d] = staleSent[d] + 0
    BY <1>2, <2>1, <2>2, RequestKeeps
  <2>4. /\ Used' = Used /\ (Busy(Poll)' <=> Busy(Poll))
        /\ RunDay(Poll)' = RunDay(Poll)
    BY <2>1, <2>3 DEF Used, Busy, RunDay
  <2> QED
    BY <1>1, <1>3, <2>3, <2>4, ElsewhereFits
<1> QED
  BY <1>4, <1>5, <1>6, <1>7, <1>8, <1>9, <1>10, StepKinds DEF Jobs

(* Before the first request; the only use of a budget that is no debt.     *)
LEMMA FitsStart ==
  ASSUME QuotaInit, Budget \in Nat
  PROVE  DayFits /\ StaleFits
<1>1. \A d \in Days : sent[Poll][d] = 0 /\ staleSent[d] = 0
  BY DEF QuotaInit, Jobs
<1>2. lost = 0 /\ ~Busy(Poll) /\ StaleDailyCap \in Nat /\ CycleCost \in Nat /\ CycleCost > 0
  BY Costs, Constants DEF QuotaInit, Busy, Jobs
<1> QED
  BY <1>1, <1>2 DEF DayFits, StaleFits

LEMMA FitsInvariant ==
  ASSUME Budget \in Nat
  PROVE  QuotaSpec => [](QuotaInv /\ DayFits /\ StaleFits)
<1>1. QuotaInit => QuotaInv /\ DayFits /\ StaleFits
  BY QuotaStart, FitsStart
<1>2. QuotaInv /\ DayFits /\ StaleFits /\ [QuotaNext]_vars =>
        (QuotaInv /\ DayFits /\ StaleFits)'
  BY QuotaStep, FitsStep
<1> QED
  BY <1>1, <1>2, PTL DEF QuotaSpec

LEMMA FitsBound ==
  ASSUME QuotaInv, DayFits, StaleFits, Budget \in Int
  PROVE  DayBound /\ StaleBound
<1>1. /\ lost \in Nat /\ StaleDailyCap \in Nat
      /\ sent \in [Jobs -> [Days -> Nat]] /\ staleSent \in [Days -> Nat]
  BY Constants DEF QuotaInv, QuotaTypeOK
<1>2. Cost(Used) \in Nat /\ CycleCost \in Nat /\ Cost(Used) <= CycleCost
  <2>1. Used \in Nat /\ MaxPagesPerRun + Unknown \in Nat /\ Used <= MaxPagesPerRun + Unknown
    BY UsedRange, Constants DEF MaxPagesPerRun
  <2> QED
    BY <2>1, Costs
<1>3. ASSUME NEW d \in Days
      PROVE  /\ sent[Poll][d] <= Budget + CycleCost + lost
             /\ staleSent[d] < StaleDailyCap + CycleCost + lost
  <2>1. sent[Poll][d] \in Nat /\ staleSent[d] \in Nat
    BY <1>1 DEF Jobs
  <2> QED
    BY <1>1, <1>2, <2>1 DEF DayFits, StaleFits
<1> QED
  BY <1>3 DEF DayBound, StaleBound

(* However a day goes, Job B oversteps the governor's budget by one cycle  *)
(* at most: the decision is taken once a cycle, not once a request.  The   *)
(* quota must leave the reserve and a board, as the defaults do; nothing   *)
(* in the configuration sees to it.                                        *)
THEOREM DayBounded ==
  ASSUME Budget \in Nat
  PROVE  QuotaSpec => []DayBound
<1>1. QuotaInv /\ DayFits /\ StaleFits => DayBound
  BY FitsBound
<1> QED
  BY <1>1, FitsInvariant, PTL

(* With a stale schedule the poller's own cap holds to a cycle, the failed *)
(* polls included.                                                         *)
THEOREM StaleBounded ==
  ASSUME Budget \in Nat
  PROVE  QuotaSpec => []StaleBound
<1>1. QuotaInv /\ DayFits /\ StaleFits => StaleBound
  BY FitsBound
<1> QED
  BY <1>1, FitsInvariant, PTL

-----------------------------------------------------------------------------
(* What one writing of the schedule drops is a slot its answer did not     *)
(* list and that was over, by twice the tail, when the run began.          *)
LEMMA DroppedIsOver ==
  ASSUME QuotaInv, WriteSchedule, NEW f \in Timed, f \notin DOMAIN schedule'
  PROVE  schedule[f] + WatchTail < clock
<1> DEFINE now == row[Refresh].started
<1> HIDE DEF MaxClock
<1>1. now \in 0..clock /\ clock \in Nat
  <2>1. Busy(Refresh) /\ clock \in Times /\ Times \subseteq Nat
    BY Constants DEF WriteSchedule, Busy, QuotaInv, QuotaTypeOK
  <2> QED
    BY <2>1 DEF QuotaInv, RowsFit, Jobs
<1>2. WatchTail \in Nat /\ schedule[f] \in Nat /\ f \in DOMAIN schedule
  BY Constants DEF QuotaInv, QuotaTypeOK, Timed, Announced
<1>3. PICK got \in Got(now) : UpsertSchedule(got, now)
  BY DEF WriteSchedule, Timed
<1>4. PICK G : got \in [G -> {t \in Slots : t >= now - WatchTail} \cup {Never}]
  BY DEF Got
<1> DEFINE stored(g) == IF g \in DOMAIN got THEN got[g] ELSE schedule[g]
<1>5. PICK stale \in SUBSET (DOMAIN schedule \ (Timed \cup DOMAIN got)) :
        DOMAIN schedule' = {g \in (DOMAIN got \cup DOMAIN schedule) \ stale :
                              stored(g) = Never \/ stored(g) >= now - 2 * WatchTail}
  BY <1>3 DEF UpsertSchedule
<1>6. stored(f) # Never /\ ~(stored(f) >= now - 2 * WatchTail)
  BY <1>2, <1>5
<1>7. CASE f \in DOMAIN got
  <2>1. got[f] \in Slots /\ got[f] >= now - WatchTail /\ got[f] \in Nat
    BY <1>4, <1>6, <1>7, Constants
  <2> QED
    BY <1>1, <1>2, <1>6, <1>7, <2>1
<1>8. CASE f \notin DOMAIN got
  BY <1>1, <1>2, <1>6, <1>8
<1> QED
  BY <1>7, <1>8

(* A fixture with a time leaves the schedule only when its window is over: *)
(* an answer that does not list it, or one that broke off, leaves it be.   *)
THEOREM WindowsStay == QuotaSpec => WindowsKept
<1>1. ASSUME QuotaInv, [QuotaNext]_vars
      PROVE  \A f \in Timed \ DOMAIN schedule' : schedule[f] + WatchTail < clock
  <2>1. CASE WriteSchedule
    BY <1>1, <2>1, DroppedIsOver
  <2>2. CASE ~WriteSchedule
    <3>1. schedule' = schedule
      <4>1. CASE (\E now \in Times, active \in 0..1 : DecidePoll(now, active))
                 \/ StartRefresh
        BY <4>1 DEF DecidePoll, StartRefresh, Begin
      <4>2. CASE (\E j \in Jobs : Crash(j)) \/ CloseCycle \/ CloseFailedRefresh
        BY <4>2 DEF Crash, CloseCycle, CloseFailedRefresh
      <4>3. CASE \/ \E j \in Jobs : NextPage(j)
                 \/ BoardRead \/ BoardFails \/ PlayerRead \/ PlayerFails
                 \/ BatchRead \/ BatchFails \/ ReconcileQuota
        BY <4>3 DEF NextPage, BoardRead, BoardFails, PlayerRead, PlayerFails, LookedUp,
                    BatchRead, BatchFails, ReconcileQuota
      <4>4. CASE LookUp \/ CloseRefresh \/ Elapse \/ UNCHANGED vars
        BY <4>4 DEF LookUp, CloseRefresh, Elapse, vars
      <4> QED
        BY <1>1, <2>2, <4>1, <4>2, <4>3, <4>4, StepKinds
    <3> QED
      BY <3>1 DEF Timed
  <2> QED
    BY <2>1, <2>2
<1>2. QuotaInv /\ [QuotaNext]_vars =>
        [\A f \in Timed \ DOMAIN schedule' : schedule[f] + WatchTail < clock]_vars
  BY <1>1
<1> QED
  BY <1>2, QuotaInvariant, PTL DEF QuotaSpec, WindowsKept

-----------------------------------------------------------------------------
(* The windows in the order in which they open, and the scan of them.      *)

(* A set of windows with whole bounds.                                     *)
Windowed(S) == S \subseteq [from : Int, to : Int]

Sorted(s) == \A i, j \in DOMAIN s : i < j => s[i].from <= s[j].from

LEMMA OrderExists ==
  ASSUME NEW S, IsFiniteSet(S), Windowed(S)
  PROVE  /\ InOrder(S) \in SetToSeqs(S) /\ Sorted(InOrder(S))
<1> DEFINE Unsorted == {U \in SUBSET S : ~ \E s \in SetToSeqs(U) : Sorted(s)}
<1>1. Unsorted = {}
  <2> SUFFICES ASSUME Unsorted # {}
               PROVE  FALSE
    OBVIOUS
  <2>1. PICK U \in Unsorted : \A V \in Unsorted : V \subseteq U => V = U
    <3>1. Unsorted \subseteq SUBSET S
      OBVIOUS
    <3> HIDE DEF Unsorted
    <3> QED
      BY <3>1, SmallestSet
  <2>2. IsFiniteSet(U) /\ Windowed(U)
    BY <2>1, FS_Subset DEF Windowed
  <2>3. CASE U = {}
    <3> DEFINE s == [i \in 1..0 |-> i]
    <3>1. Cardinality(U) = 0
      BY <2>3, FS_EmptySet
    <3>2. s \in SetToSeqs(U) /\ Sorted(s)
      BY <3>1 DEF SetToSeqs, Sorted
    <3> QED
      BY <2>1, <3>2
  <2>4. CASE U # {}
    <3> DEFINE g == [w \in U |-> w.from]
    <3>1. g \in [U -> Int]
      BY <2>2 DEF Windowed
    <3>2. PICK m \in U : \A w \in U : g[w] <= g[m]
      <4> HIDE DEF g
      <4> QED
        BY <2>2, <2>4, <3>1, Largest
    <3> DEFINE V == U \ {m}
               n == Cardinality(V)
    <3>3. /\ IsFiniteSet(V) /\ n \in Nat /\ Cardinality(U) = n + 1
      <4>1. IsFiniteSet(V) /\ n = Cardinality(U) - 1
        BY <2>2, FS_RemoveElement
      <4>2. Cardinality(U) \in Nat /\ n \in Nat
        BY <2>2, <4>1, FS_CardinalityType
      <4> QED
        BY <4>1, <4>2
    <3>4. PICK q \in SetToSeqs(V) : Sorted(q)
      BY <2>1
    <3> DEFINE s == [i \in 1..(n + 1) |-> IF i = n + 1 THEN m ELSE q[i]]
    <3>5. /\ q \in [1..n -> V]
          /\ \A i, j \in 1..n : i # j => q[i] # q[j]
      BY <3>4 DEF SetToSeqs
    <3>6. \A w \in V : w \in U /\ w # m /\ w.from <= m.from
      BY <3>2
    <3> HIDE DEF V, n
    <3>7. \A i \in 1..(n + 1) : i = n + 1 \/ i \in 1..n
      BY <3>3
    <3>8. s \in SetToSeqs(U)
      <4>1. s \in [1..(n + 1) -> U]
        BY <3>5, <3>6, <3>7
      <4>2. \A i, j \in 1..(n + 1) : i # j => s[i] # s[j]
        BY <3>3, <3>5, <3>6, <3>7
      <4> HIDE DEF s
      <4> QED
        BY <3>3, <4>1, <4>2 DEF SetToSeqs
    <3>9. Sorted(s)
      <4>1. \A i, j \in 1..(n + 1) : i < j => i \in 1..n
        BY <3>3
      <4>2. \A i, j \in 1..n : i < j => q[i].from <= q[j].from
        BY <3>4, <3>5 DEF Sorted
      <4>3. \A i, j \in 1..(n + 1) : i < j => s[i].from <= s[j].from
        BY <3>3, <3>5, <3>6, <3>7, <4>1, <4>2
      <4>4. DOMAIN s = 1..(n + 1)
        OBVIOUS
      <4> HIDE DEF s
      <4> QED
        BY <4>3, <4>4 DEF Sorted
    <3> HIDE DEF s
    <3> QED
      BY <2>1, <3>8, <3>9
  <2> QED
    BY <2>3, <2>4
<1>2. \E s \in SetToSeqs(S) : Sorted(s)
  BY <1>1
<1>3. \E s \in SetToSeqs(S) : \A i, j \in DOMAIN s : i < j => s[i].from <= s[j].from
  BY <1>2 DEF Sorted
<1> QED
  BY <1>3 DEF InOrder, Sorted

(* It lists every window.                                                  *)
LEMMA OrderIsComplete ==
  ASSUME NEW S, IsFiniteSet(S), NEW s \in SetToSeqs(S)
  PROVE  /\ Cardinality(S) \in Nat /\ s \in [1..Cardinality(S) -> S]
         /\ \A w \in S : \E i \in 1..Cardinality(S) : w = s[i]
<1> DEFINE n == Cardinality(S)
<1>1. n \in Nat
  BY FS_CardinalityType
<1>2. s \in [1..n -> S] /\ \A i, j \in 1..n : i # j => s[i] # s[j]
  BY DEF SetToSeqs
<1>3. s \in Injection(1..n, S)
  BY <1>2 DEF Injection, IsInjective
<1>4. Cardinality(1..n) = n
  BY <1>1, FS_Interval
<1>5. s \in Surjection(1..n, S)
  BY <1>3, <1>4, FS_Injection
<1> QED
  BY <1>1, <1>2, <1>5 DEF Surjection

(* A stretch of time after all that is covered adds its length.            *)
LEMMA Adjoined ==
  ASSUME NEW C, IsFiniteSet(C), C \subseteq Int, NEW a \in Int, NEW b \in Int, a <= b,
         \A t \in C : t < a
  PROVE  /\ IsFiniteSet(C \cup a..(b - 1))
         /\ Cardinality(C \cup a..(b - 1)) = Cardinality(C) + (b - a)
<1>1. IsFiniteSet(a..(b - 1)) /\ Cardinality(a..(b - 1)) = b - a
  <2>1. b - 1 \in Int
    OBVIOUS
  <2>2. Cardinality(a..(b - 1)) = IF a > b - 1 THEN 0 ELSE (b - 1) - a + 1
    BY <2>1, FS_Interval
  <2>3. IsFiniteSet(a..(b - 1))
    BY <2>1, FS_Interval
  <2>4. (IF a > b - 1 THEN 0 ELSE (b - 1) - a + 1) = b - a
    OBVIOUS
  <2> QED
    BY <2>2, <2>3, <2>4
<1>2. C \cap (a..(b - 1)) = {}
  OBVIOUS
<1>3. Cardinality(C \cap (a..(b - 1))) = 0
  BY <1>2, FS_EmptySet
<1>4. Cardinality(C) \in Nat
  BY FS_CardinalityType
<1>5. /\ IsFiniteSet(C \cup a..(b - 1))
      /\ Cardinality(C \cup a..(b - 1)) =
           Cardinality(C) + Cardinality(a..(b - 1)) - Cardinality(C \cap (a..(b - 1)))
  BY <1>1, FS_Union
<1> QED
  BY <1>1, <1>3, <1>4, <1>5

-----------------------------------------------------------------------------
(* The scan, window by window.  After the first k it has counted what they *)
(* cover, and ends where the last of them does.                            *)

CoverOf(s, k) == UNION {s[i].from..(s[i].to - 1) : i \in 1..k}

Scanned(s, k, from, acc) ==
  /\ acc.end \in Int /\ acc.end >= from
  /\ \A i \in 1..k : s[i].to <= acc.end
  /\ acc.end = from \/ \E i \in 1..k : s[i].to = acc.end
  /\ IsFiniteSet(CoverOf(s, k)) /\ acc.done = Cardinality(CoverOf(s, k))

LEMMA ScanStep ==
  ASSUME NEW from \in Int, NEW n \in Nat, NEW s, Sorted(s), DOMAIN s = 1..n,
         \A i \in 1..n : /\ s[i] \in [from : Int, to : Int]
                         /\ from <= s[i].from /\ s[i].from < s[i].to,
         NEW k \in 0..n, k < n, NEW acc, Scanned(s, k, from, acc)
  PROVE  Scanned(s, k + 1, from, Absorb(acc, s[k + 1]))
<1> DEFINE w == s[k + 1]
           C == CoverOf(s, k)
           D == w.from..(w.to - 1)
<1>1. /\ k + 1 \in 1..n /\ 1..(k + 1) = 1..k \cup {k + 1}
      /\ \A i \in 1..k : i \in 1..n /\ i < k + 1
  OBVIOUS
<1>2. /\ w.from \in Int /\ w.to \in Int /\ w.from < w.to /\ from <= w.from
      /\ acc.end \in Int /\ acc.end >= from /\ acc.done = Cardinality(C)
      /\ IsFiniteSet(C)
  BY <1>1 DEF Scanned
<1>3. \A i \in 1..k : /\ s[i].from \in Int /\ s[i].to \in Int
                      /\ s[i].from <= w.from /\ s[i].to <= acc.end
  BY <1>1 DEF Sorted, Scanned
<1>4. CoverOf(s, k + 1) = C \cup D
  BY <1>1 DEF CoverOf
<1>5. C \subseteq Int /\ \A t \in C : t < acc.end
  <2> SUFFICES ASSUME NEW t \in C
               PROVE  t \in Int /\ t < acc.end
    OBVIOUS
  <2>1. PICK i \in 1..k : t \in s[i].from..(s[i].to - 1)
    BY DEF CoverOf
  <2> QED
    BY <1>2, <1>3, <2>1
<1>6. \A t \in Int : w.from <= t /\ t < acc.end => t \in C
  <2> TAKE t \in Int
  <2> HAVE w.from <= t /\ t < acc.end
  <2>1. ~(acc.end = from)
    BY <1>2
  <2>2. PICK i \in 1..k : s[i].to = acc.end
    BY <2>1 DEF Scanned
  <2>3. t \in s[i].from..(s[i].to - 1)
    BY <1>2, <1>3, <2>2
  <2> QED
    BY <2>3 DEF CoverOf
<1>10. ASSUME NEW e \in Int, w.to <= e, acc.end <= e
       PROVE  \A i \in 1..(k + 1) : s[i].to <= e
  <2> TAKE i \in 1..(k + 1)
  <2>1. CASE i = k + 1
    BY <2>1, <1>10
  <2>2. CASE i \in 1..k
    <3>1. s[i].to \in Int /\ s[i].to <= acc.end
      BY <2>2, <1>3
    <3> QED
      BY <3>1, <1>2, <1>10
  <2> QED
    BY <1>1, <2>1, <2>2
<1> HIDE DEF C
<1>7. CASE w.from > acc.end
  <2>1. Absorb(acc, w) = [done |-> acc.done + w.to - w.from, end |-> w.to]
    <3>1. ~(w.from <= acc.end)
      BY <1>2, <1>7
    <3> QED
      BY <1>7, <3>1 DEF Absorb
  <2>2. IsFiniteSet(C \cup D) /\ Cardinality(C \cup D) = Cardinality(C) + (w.to - w.from)
    <3>1. \A t \in C : t < w.from
      BY <1>2, <1>5, <1>7
    <3>2. w.from <= w.to
      BY <1>2
    <3> HIDE DEF w
    <3>3. /\ IsFiniteSet(C \cup w.from..(w.to - 1))
          /\ Cardinality(C \cup w.from..(w.to - 1)) = Cardinality(C) + (w.to - w.from)
      BY <1>2, <1>5, <3>1, <3>2, Adjoined
    <3> QED
      BY <3>3
  <2>3. Cardinality(C) \in Nat
    BY <1>2, FS_CardinalityType
  <2>4. acc.done + w.to - w.from = Cardinality(C) + (w.to - w.from)
    BY <1>2, <2>3
  <2>5. \A i \in 1..(k + 1) : s[i].to <= w.to
    <3>1. w.to \in Int /\ w.to <= w.to /\ acc.end <= w.to
      BY <1>2, <1>7
    <3> HIDE DEF w
    <3> QED
      BY <3>1, <1>10
  <2>6. w.to >= from /\ \E i \in 1..(k + 1) : s[i].to = w.to
    BY <1>1, <1>2
  <2> DEFINE next == Absorb(acc, w)
  <2>10. next.end = w.to /\ next.done = acc.done + w.to - w.from
    BY <2>1
  <2>11. Cardinality(CoverOf(s, k + 1)) = Cardinality(C) + (w.to - w.from)
    BY <1>4, <2>2
  <2>7. next.end = w.to /\ next.done = Cardinality(CoverOf(s, k + 1))
    BY <2>4, <2>10, <2>11
  <2>8. IsFiniteSet(CoverOf(s, k + 1))
    BY <1>4, <2>2
  <2> HIDE DEF next
  <2>9. Scanned(s, k + 1, from, next)
    BY <1>2, <2>5, <2>6, <2>7, <2>8 DEF Scanned
  <2> QED
    BY <2>9 DEF next
<1>8. CASE w.from <= acc.end /\ w.to > acc.end
  <2>1. Absorb(acc, w) = [done |-> acc.done + w.to - acc.end, end |-> w.to]
    <3>1. ~(w.from > acc.end)
      BY <1>2, <1>8
    <3> QED
      BY <1>8, <3>1 DEF Absorb
  <2>2. C \cup D = C \cup acc.end..(w.to - 1)
    BY <1>2, <1>6, <1>8
  <2>3. /\ IsFiniteSet(C \cup acc.end..(w.to - 1))
        /\ Cardinality(C \cup acc.end..(w.to - 1)) = Cardinality(C) + (w.to - acc.end)
    <3>1. acc.end <= w.to
      BY <1>2, <1>8
    <3> HIDE DEF w
    <3> QED
      BY <1>2, <1>5, <3>1, Adjoined
  <2>4. Cardinality(C) \in Nat
    BY <1>2, FS_CardinalityType
  <2>5. acc.done + w.to - acc.end = Cardinality(C) + (w.to - acc.end)
    BY <1>2, <2>4
  <2>6. \A i \in 1..(k + 1) : s[i].to <= w.to
    <3>1. w.to \in Int /\ w.to <= w.to /\ acc.end <= w.to
      BY <1>2, <1>8
    <3> HIDE DEF w
    <3> QED
      BY <3>1, <1>10
  <2>7. w.to >= from /\ \E i \in 1..(k + 1) : s[i].to = w.to
    BY <1>1, <1>2
  <2> DEFINE next == Absorb(acc, w)
  <2>11. next.end = w.to /\ next.done = acc.done + w.to - acc.end
    BY <2>1
  <2>12. Cardinality(CoverOf(s, k + 1)) = Cardinality(C) + (w.to - acc.end)
    BY <1>4, <2>2, <2>3
  <2>8. next.end = w.to /\ next.done = Cardinality(CoverOf(s, k + 1))
    BY <2>5, <2>11, <2>12
  <2>9. IsFiniteSet(CoverOf(s, k + 1))
    BY <1>4, <2>2, <2>3
  <2> HIDE DEF next
  <2>10. Scanned(s, k + 1, from, next)
    BY <1>2, <2>6, <2>7, <2>8, <2>9 DEF Scanned
  <2> QED
    BY <2>10 DEF next
<1>9. CASE w.to <= acc.end
  <2>1. Absorb(acc, w) = acc
    <3>1. ~(w.from > acc.end) /\ ~(w.to > acc.end)
      BY <1>2, <1>9
    <3> QED
      BY <3>1 DEF Absorb
  <2>2. C \cup D = C
    BY <1>2, <1>6, <1>9
  <2>3. \A i \in 1..(k + 1) : s[i].to <= acc.end
    <3>1. acc.end \in Int /\ acc.end <= acc.end
      BY <1>2
    <3> QED
      BY <3>1, <1>9, <1>10
  <2>4. acc.end = from \/ \E i \in 1..(k + 1) : s[i].to = acc.end
    BY <1>1 DEF Scanned
  <2> HIDE DEF D
  <2> QED
    BY <1>2, <1>4, <2>1, <2>2, <2>3, <2>4 DEF Scanned
<1> QED
  BY <1>2, <1>7, <1>8, <1>9

IsScan(s, base, T, h) ==
  h = [S \in SUBSET T |-> IF S = {} THEN base
                          ELSE Absorb(h[S \ {Max(S)}], s[Max(S)])]

(* The scan of a sequence is that of its prefixes, one after the other.    *)
LEMMA ScanCounts ==
  ASSUME NEW from \in Int, NEW n \in Nat, NEW s, Sorted(s), DOMAIN s = 1..n,
         \A i \in 1..n : /\ s[i] \in [from : Int, to : Int]
                         /\ from <= s[i].from /\ s[i].from < s[i].to
  PROVE  FoldLeft(Absorb, [done |-> 0, end |-> from], s).done = Cardinality(CoverOf(s, n))
<1> DEFINE base == [done |-> 0, end |-> from]
           h == CHOOSE g : IsScan(s, base, 1..n, g)
           Wrong == {k \in 0..n : ~Scanned(s, k, from, h[1..k])}
<1>1. FoldLeft(Absorb, base, s) = h[1..n]
  BY DEF FoldLeft, MapThenFoldSet, IsScan
<1>2. IsScan(s, base, 1..n, h)
  <2> DEFINE Accs == [done : Int, end : Int]
             step == [k \in 1..n |-> [acc \in Accs |-> Absorb(acc, s[k])]]
             pick == [S \in SUBSET (1..n) |-> Max(S)]
  <2>1. IsFiniteSet(1..n)
    BY FS_Interval
  <2>2. ASSUME NEW S \in SUBSET (1..n), S # {}
        PROVE  Max(S) \in S
    <3>1. IsFiniteSet(S)
      BY <2>1, FS_Subset
    <3>2. S \subseteq Int
      OBVIOUS
    <3> QED
      BY <2>2, <3>1, <3>2, LastOfFinite
  <2>3. Picks(pick, 1..n)
    BY <2>2 DEF Picks
  <2>4. step \in [1..n -> [Accs -> Accs]] /\ base \in Accs
    <3>1. \A k \in 1..n, acc \in Accs : Absorb(acc, s[k]) \in Accs
      <4> TAKE k \in 1..n, acc \in Accs
      <4>1. s[k].from \in Int /\ s[k].to \in Int /\ acc.done \in Int /\ acc.end \in Int
        OBVIOUS
      <4> QED
        BY <4>1 DEF Absorb
    <3>2. base \in Accs
      OBVIOUS
    <3> HIDE DEF Accs, base
    <3> QED
      BY <3>1, <3>2
  <2>5. PICK g : IsFold(step, base, pick, 1..n, g)
    <3> HIDE DEF step, pick, base
    <3> QED
      BY <2>1, <2>3, FoldsExist
  <2>6. \A S \in SUBSET (1..n) : g[S] \in Accs
    <3> HIDE DEF step, pick, base, Accs
    <3> QED
      BY <2>1, <2>3, <2>4, <2>5, FoldStays
  <2>7. ASSUME NEW S \in SUBSET (1..n), S # {}
        PROVE  step[pick[S]][g[S \ {pick[S]}]] = Absorb(g[S \ {Max(S)}], s[Max(S)])
    <3>1. pick[S] = Max(S) /\ Max(S) \in 1..n
      BY <2>2, <2>7
    <3>2. g[S \ {Max(S)}] \in Accs
      BY <2>6
    <3>3. step[Max(S)] = [acc \in Accs |-> Absorb(acc, s[Max(S)])]
      BY <3>1
    <3> HIDE DEF step, pick, Accs
    <3> QED
      BY <3>1, <3>2, <3>3
  <2>8. IsScan(s, base, 1..n, g)
    <3> HIDE DEF step, pick, base
    <3>1. g = [S \in SUBSET (1..n) |->
                 IF S = {} THEN base ELSE step[pick[S]][g[S \ {pick[S]}]]]
      BY <2>5 DEF IsFold
    <3>2. g = [S \in SUBSET (1..n) |->
                 IF S = {} THEN base ELSE Absorb(g[S \ {Max(S)}], s[Max(S)])]
      BY <2>7, <3>1
    <3> QED
      BY <3>2 DEF IsScan
  <2> QED
    BY <2>8
<1> HIDE DEF h, base
<1>3. Wrong = {}
  <2> SUFFICES ASSUME Wrong # {}
               PROVE  FALSE
    OBVIOUS
  <2>1. PICK k \in Wrong : \A l \in Wrong : k <= l
    <3>1. Wrong \in SUBSET Nat
      OBVIOUS
    <3> HIDE DEF Wrong
    <3> QED
      BY <3>1, LeastOfNat
  <2>2. CASE k = 0
    <3>1. 1..k = {}
      BY <2>2
    <3>2. h[1..k] = base
      BY <1>2, <3>1 DEF IsScan
    <3>3. CoverOf(s, k) = {}
      BY <3>1 DEF CoverOf
    <3>4. IsFiniteSet({}) /\ Cardinality({}) = 0
      BY FS_EmptySet
    <3>5. base.end = from /\ base.done = 0
      BY DEF base
    <3>6. Scanned(s, k, from, base)
      <4>1. base.end \in Int /\ base.end >= from /\ base.end = from
        BY <3>5
      <4>2. \A i \in 1..k : s[i].to <= base.end
        BY <3>1
      <4>3. IsFiniteSet(CoverOf(s, k)) /\ base.done = Cardinality(CoverOf(s, k))
        BY <3>3, <3>4, <3>5
      <4> QED
        BY <4>1, <4>2, <4>3 DEF Scanned
    <3> QED
      BY <3>2, <3>6
  <2>3. CASE k # 0
    <3> DEFINE l == k - 1
    <3>1. l \in 0..n /\ l < n /\ k \in 1..n /\ k = l + 1 /\ k \in Nat
      BY <2>3
    <3>2. ~(k <= l)
      BY <3>1
    <3>3. Scanned(s, l, from, h[1..l])
      BY <2>1, <3>1, <3>2
    <3>4. Scanned(s, l + 1, from, Absorb(h[1..l], s[l + 1]))
      <4> HIDE DEF l
      <4> QED
        BY <3>1, <3>3, ScanStep
    <3>5. Max(1..k) = k
      <4>1. IsFiniteSet(1..k)
        BY <3>1, FS_Interval
      <4>3. k \in 1..k /\ 1..k \subseteq Int
        BY <3>1
      <4>2. Max(1..k) \in 1..k /\ \A y \in 1..k : y <= Max(1..k)
        <5>1. 1..k # {}
          BY <4>3
        <5> QED
          BY <4>1, <4>3, <5>1, LastOfFinite
      <4> QED
        BY <3>1, <4>2, <4>3
    <3>6. 1..k \in SUBSET (1..n) /\ 1..k # {} /\ (1..k) \ {k} = 1..l
      <4>1. k \in 1..k /\ \A i \in 1..k : i \in 1..n
        BY <3>1
      <4>2. (1..k) \ {k} = 1..l
        BY <3>1
      <4> HIDE DEF l
      <4> QED
        BY <4>1, <4>2
    <3>7. h[1..k] = Absorb(h[1..l], s[k])
      BY <1>2, <3>5, <3>6 DEF IsScan
    <3>8. Scanned(s, k, from, h[1..k])
      BY <3>1, <3>4, <3>7
    <3> QED
      BY <3>8
  <2> QED
    BY <2>2, <2>3
<1>4. Scanned(s, n, from, h[1..n])
  BY <1>3
<1> QED
  BY <1>1, <1>4 DEF Scanned, base

LEMMA ClippedWindows ==
  ASSUME NEW W, Windowed(W), NEW from \in Int, NEW to \in Int
  PROVE  /\ IsFiniteSet(Clipped(W, from, to)) /\ Windowed(Clipped(W, from, to))
         /\ \A w \in Clipped(W, from, to) : /\ from <= w.from /\ w.from < w.to
                                            /\ w.to <= to
<1> DEFINE S == Clipped(W, from, to)
           P == (from..to) \X (from..to)
           g == [w \in S |-> <<w.from, w.to>>]
<1>1. ASSUME NEW w \in S
      PROVE  /\ w \in [from : Int, to : Int] /\ from <= w.from /\ w.from < w.to
             /\ w.to <= to
  <2>1. PICK v \in W : w = Clip(v, from, to)
    BY DEF Clipped
  <2>2. v.from \in Int /\ v.to \in Int
    BY DEF Windowed
  <2>3. w.from < w.to
    BY DEF Clipped
  <2> QED
    BY <2>1, <2>2, <2>3 DEF Clip
<1>2. IsFiniteSet(P)
  BY FS_Interval, FS_Product
<1>3. g \in Injection(S, P)
  <2>1. g \in [S -> P]
    BY <1>1
  <2>2. \A v, w \in S : g[v] = g[w] => v = w
    BY <1>1
  <2>3. DOMAIN g = S
    OBVIOUS
  <2> HIDE DEF g, S, P
  <2> QED
    BY <2>1, <2>2, <2>3 DEF Injection, IsInjective
<1>4. IsFiniteSet(S)
  <2> HIDE DEF g, S, P
  <2> QED
    BY <1>2, <1>3, FS_Injection
<1> QED
  BY <1>1, <1>4 DEF Windowed

(* Whatever the windows, merging them counts the instants of their union,  *)
(* each once.                                                              *)
LEMMA MinutesOfUnion ==
  ASSUME NEW W, Windowed(W), NEW from \in Int, NEW to \in Int
  PROVE  WatchMinutes(W, from, to) = Cardinality(Covered(W, from, to))
<1> DEFINE S == Clipped(W, from, to)
           s == InOrder(S)
           n == Cardinality(S)
<1>1. /\ IsFiniteSet(S) /\ Windowed(S)
      /\ \A w \in S : from <= w.from /\ w.from < w.to /\ w.to <= to
  BY ClippedWindows
<1>2. s \in SetToSeqs(S) /\ Sorted(s)
  BY <1>1, OrderExists
<1>3. n \in Nat /\ s \in [1..n -> S] /\ \A w \in S : \E i \in 1..n : w = s[i]
  BY <1>1, <1>2, OrderIsComplete
<1>4. \A i \in 1..n : /\ s[i] \in [from : Int, to : Int]
                      /\ from <= s[i].from /\ s[i].from < s[i].to
  BY <1>1, <1>3 DEF Windowed
<1>5. WatchMinutes(W, from, to) = FoldLeft(Absorb, [done |-> 0, end |-> from], s).done
  BY DEF WatchMinutes
<1>6. DOMAIN s = 1..n
  BY <1>3
<1>7. FoldLeft(Absorb, [done |-> 0, end |-> from], s).done = Cardinality(CoverOf(s, n))
  <2> HIDE DEF s, n, S
  <2> QED
    BY <1>2, <1>3, <1>4, <1>6, ScanCounts
<1>8. CoverOf(s, n) = Covered(W, from, to)
  <2>1. CoverOf(s, n) = {t \in from..(to - 1) : \E w \in S : w.from <= t /\ t < w.to}
    <3>1. \A t : t \in CoverOf(s, n) <=> \E i \in 1..n : t \in s[i].from..(s[i].to - 1)
      BY DEF CoverOf
    <3>2. \A t : t \in CoverOf(s, n) <=> \E w \in S : t \in w.from..(w.to - 1)
      BY <1>3, <3>1
    <3>3. \A w \in S : w.from \in Int /\ w.to \in Int
      BY <1>1 DEF Windowed
    <3> HIDE DEF S, s, n
    <3> QED
      BY <1>1, <3>2, <3>3
  <2>2. ASSUME NEW t \in from..(to - 1)
        PROVE  (\E w \in S : w.from <= t /\ t < w.to) <=> Watched(W, t)
    <3>1. ASSUME NEW v \in W
          PROVE  LET w == Clip(v, from, to)
                 IN  w.from <= t /\ t < w.to <=> v.from <= t /\ t < v.to
      <4>1. v.from \in Int /\ v.to \in Int
        BY DEF Windowed
      <4> QED
        BY <4>1 DEF Clip
    <3>2. ASSUME NEW v \in W, v.from <= t, t < v.to
          PROVE  Clip(v, from, to) \in S
      <4>1. v.from \in Int /\ v.to \in Int
        BY DEF Windowed
      <4>2. Clip(v, from, to).from < Clip(v, from, to).to
        BY <3>2, <4>1 DEF Clip
      <4> QED
        BY <4>2 DEF Clipped
    <3>3. \A w \in S : \E v \in W : w = Clip(v, from, to)
      BY DEF Clipped
    <3> HIDE DEF S
    <3> QED
      BY <3>1, <3>2, <3>3 DEF Watched
  <2> HIDE DEF S, s, n
  <2> QED
    BY <2>1, <2>2 DEF Covered
<1> QED
  BY <1>5, <1>7, <1>8

(* At every instant, and up to any horizon of the day, the poller spreads  *)
(* its budget over the time that some fixture of the schedule is really    *)
(* open, however the windows overlap, touch, repeat or reach over midnight.*)
THEOREM UnionWatched == QuotaSpec => []WatchIsUnion
<1>1. ASSUME QuotaInv
      PROVE  WatchIsUnion
  <2>1. clock \in Int /\ EndOfUTCDay(clock) \in Int
    <3>1. clock \in Times /\ Times \subseteq Nat /\ Day \in Nat \ {0}
      BY <1>1, Constants DEF QuotaInv, QuotaTypeOK
    <3>2. clock % Day \in Int
      BY <3>1
    <3> QED
      BY <3>1, <3>2 DEF EndOfUTCDay, DayStart
  <2>2. Windowed(Windows(clock))
    <3>1. \A f \in Timed : schedule[f] \in Int
      <4>1. PICK S \in SUBSET Fixtures : schedule \in [S -> Announced]
        BY <1>1 DEF QuotaInv, QuotaTypeOK
      <4>2. \A f \in Timed : schedule[f] \in Slots
        BY <4>1 DEF Timed, Announced
      <4>3. Slots \subseteq Int
        BY Constants
      <4> QED
        BY <4>2, <4>3
    <3>2. WatchLead \in Int /\ WatchTail \in Int
      BY Constants
    <3> QED
      BY <3>1, <3>2 DEF Windowed, Windows, Window
  <2> QED
    BY <2>1, <2>2, MinutesOfUnion DEF WatchIsUnion
<1>2. QuotaInv => WatchIsUnion
  BY <1>1
<1> QED
  BY <1>2, QuotaInvariant, PTL

-----------------------------------------------------------------------------
(* The interval between polls.                                             *)

LEMMA WatchIsNumber ==
  ASSUME NEW s, Windowed(s.windows), NEW now \in Int, NEW mode
  PROVE  ToWatch(s, now, mode) \in Int
<1>1. Horizon(now) \in Int
  <2>1. now % Day \in Int /\ WatchTail \in Int /\ Day \in Int
    BY Constants
  <2> QED
    BY <2>1 DEF Horizon, EndOfUTCDay, DayStart
<1>2. WatchMinutes(s.windows, now, Horizon(now)) \in Int
  <2> DEFINE C == Covered(s.windows, now, Horizon(now))
  <2>1. IsFiniteSet(now..(Horizon(now) - 1)) /\ C \subseteq now..(Horizon(now) - 1)
    BY <1>1, FS_Interval DEF Covered
  <2>2. IsFiniteSet(C)
    BY <2>1, FS_Subset
  <2>3. Cardinality(C) \in Nat
    BY <2>2, FS_CardinalityType
  <2> HIDE DEF C
  <2>4. WatchMinutes(s.windows, now, Horizon(now)) = Cardinality(C)
    BY <1>1, MinutesOfUnion DEF C
  <2> QED
    BY <2>3, <2>4
<1>3. ToWatch(s, now, mode) \in {WatchMinutes(s.windows, now, Horizon(now)),
                                  Horizon(now) - now}
  BY DEF ToWatch
<1> QED
  BY <1>1, <1>2, <1>3

(* With something left to spend, the interval is never below the floor,    *)
(* or it is that of stale_safe.                                            *)
LEMMA IntervalFloor ==
  ASSUME NEW s, Windowed(s.windows), NEW now \in Int, NEW mode,
         NEW left \in Nat, left > 0
  PROVE  LET need == RequiredInterval(s, now, mode, left)
         IN  need \in Int /\ (need = StaleInterval \/ need >= MinInterval)
<1> DEFINE watch == ToWatch(s, now, mode)
<1>1. watch \in Int
  BY WatchIsNumber
<1>2. MinInterval \in Nat /\ MaxInterval \in Nat /\ StaleInterval \in Nat
      /\ MinInterval <= MaxInterval
  BY Constants
<1> HIDE DEF watch
<1>3. watch \div left \in Int
  BY <1>1
<1>4. ASSUME NEW need \in Int
      PROVE  Clamp(need) \in Int /\ Clamp(need) >= MinInterval
  BY <1>2, <1>4 DEF Clamp
<1>5. Clamp(watch \div left) \in Int /\ Clamp(watch \div left) >= MinInterval
  BY <1>3, <1>4
<1>6. RequiredInterval(s, now, mode, left) \in {StaleInterval, MaxInterval,
                                                 Clamp(watch \div left)}
  <2>1. CASE mode = "stale_safe"
    BY <2>1 DEF RequiredInterval
  <2>2. CASE mode # "stale_safe" /\ watch <= 0
    BY <2>2 DEF RequiredInterval, watch
  <2>3. CASE mode # "stale_safe" /\ ~(watch <= 0)
    BY <2>3 DEF RequiredInterval, watch
  <2> QED
    BY <2>1, <2>2, <2>3
<1> QED
  BY <1>2, <1>5, <1>6

(* Two polls of the vendor lie apart by the floor interval, or by that of  *)
(* stale_safe: a poll that failed, was abandoned in a crash or was begun   *)
(* under a stale reading of the clock counts like any other.               *)
THEOREM PollsApart == QuotaSpec => PollsSpaced
<1>1. ASSUME QuotaInv, [QuotaNext]_vars, BeginsPoll, polledAt # Never, lost = 0
      PROVE  \/ clock - polledAt >= MinInterval - TickSlack
             \/ clock - polledAt >= StaleInterval - TickSlack
  <2>1. PICK now \in Times, active \in 0..1 : DecidePoll(now, active)
    BY <1>1, OnlyDecideBegins
  <2> DEFINE s == Snapshot(now, active)
             mode == PickMode(s, now)
             need == RequiredInterval(s, now, mode, Left(s))
  <2>2. /\ now <= clock /\ Left(s) >= MaxPagesPerRun /\ ~TooSoon(s, now, mode)
    BY <2>1 DEF DecidePoll, Polls
  <2>3. /\ now \in Nat /\ clock \in Nat /\ lastPoll = polledAt
        /\ polledAt \in 0..clock
    <3>1. clock \in Times /\ now \in Times /\ Times \subseteq Nat
      BY <1>1, Constants DEF QuotaInv, QuotaTypeOK
    <3> QED
      BY <1>1, <3>1 DEF QuotaInv, PollsFit
  <2>4. s.lastPoll = lastPoll /\ s.windows = Windows(now) /\ s.spent = SumSince(spent, now)
    BY DEF Snapshot
  <2>5. Windowed(s.windows)
    <3>1. PICK S \in SUBSET Fixtures : schedule \in [S -> Announced]
      BY <1>1 DEF QuotaInv, QuotaTypeOK
    <3>2. \A f \in Timed : schedule[f] \in Slots
      BY <3>1 DEF Timed, Announced
    <3>3. Slots \subseteq Int /\ WatchLead \in Int /\ WatchTail \in Int
      BY Constants
    <3>4. \A f \in Timed : schedule[f] \in Int
      BY <3>2, <3>3
    <3>5. Windowed(Windows(now))
      BY <3>3, <3>4 DEF Windowed, Windows, Window
    <3> QED
      BY <2>4, <3>5
  <2>6. Left(s) \in Nat /\ Left(s) > 0
    <3>1. SumSince(spent, now) \in Nat
      <4>1. now \in Times /\ clock \in Times /\ spent \in [Days -> Nat]
        BY <1>1 DEF QuotaInv, QuotaTypeOK
      <4>2. DayOf(now) \in Days
        BY <4>1, Calendar
      <4>3. DayOf(now) <= DayOf(now)
        <5>1. DayOf(now) \in Nat
          BY <4>2, Calendar
        <5> QED
          BY <5>1
      <4> QED
        BY <4>1, <4>2, <4>3, SumSinceBounds
    <3>2. DailyQuota \in Nat /\ Reserve \in Nat
      BY Constants
    <3> HIDE DEF s
    <3> QED
      BY <2>2, <2>4, <3>1, <3>2 DEF Left, MaxPagesPerRun
  <2>7. need \in Int /\ (need = StaleInterval \/ need >= MinInterval)
    <3>1. now \in Int
      BY <2>3
    <3> HIDE DEF s, mode
    <3> QED
      BY <2>5, <2>6, <3>1, IntervalFloor
  <2>8. ~(now - polledAt < need - TickSlack)
    <3> HIDE DEF s, mode
    <3> QED
      BY <1>1, <2>2, <2>3, <2>4 DEF TooSoon
  <2>9. MinInterval \in Nat /\ StaleInterval \in Nat /\ TickSlack \in Nat
    BY Constants
  <2> HIDE DEF need
  <2> QED
    BY <2>2, <2>3, <2>7, <2>8, <2>9
<1>2. QuotaInv /\ [QuotaNext]_vars =>
        [BeginsPoll /\ polledAt # Never /\ lost = 0 =>
           \/ clock - polledAt >= MinInterval - TickSlack
           \/ clock - polledAt >= StaleInterval - TickSlack]_vars
  BY <1>1
<1> QED
  BY <1>2, QuotaInvariant, PTL DEF QuotaSpec, PollsSpaced
=============================================================================

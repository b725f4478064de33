------------------------------- MODULE Quota --------------------------------
(***************************************************************************)
(* The two jobs that spend the vendor's daily quota, each alone under its  *)
(* own lock: Job B (`live`, poll.go), which asks the governor first, and   *)
(* Job A (`live-schedule`, schedule.go), which asks nobody and writes the  *)
(* windows the governor reads.  A step is one request with its retries and *)
(* their counts, or one statement.                                         *)
(***************************************************************************)
EXTENDS Governor

CONSTANTS Fixtures,   \* the vendor's fixtures of players we follow
          Slots,      \* the times a fixture may be announced for
          Retries,    \* RetryPolicy.Max: attempts after the first
          Batches,    \* batches of players Job A asks about
          Unknown,    \* rows of a board with one player we do not know
          ResolveMax, \* LIVE_RESOLVE_MAX_PER_CYCLE
          Timeout,    \* UpdateTimeout, of either job
          Times,      \* readings of the clock
          MaxRefresh, \* runs of Job A explored
          MaxFaults   \* crashes and failed writes of a count explored

(* Table live_ingest_runs is kept as what its queries read of it, and the  *)
(* row of the run under way.  What the vendor saw is kept beside it.       *)
VARIABLES clock,       \* the clock of database and instance
          spent,       \* requests_made, by the day the run started
          staleSpent,  \* of those, of runs whose mode says stale_safe
          lastPoll,    \* latest start of a live run with requests
          lastRefresh, \* latest end of a clean run of Job A with requests
          row,         \* the row of the run under way
          schedule,    \* table live_schedule: the slot of each fixture stored
          sent,        \* requests the vendor got of a job, by the run's day
          staleSent,   \* requests of the day for want of a fresh schedule
          polledAt,    \* start of the latest cycle that reached the vendor
          crashes,     \* crashes, and runs of Job A that could not be closed
          lost,        \* requests whose count could not be written
          refreshes,   \* runs of Job A so far
          pc,          \* where each job stands
          asked,       \* batch and page of the request under way
          lookups,     \* Job B: players it may still look up, and has mapped
          failed       \* an error has ended its requests

table == <<spent, staleSpent, lastPoll, lastRefresh, row>>
vendor == <<sent, staleSent, polledAt>>
bounds == <<crashes, lost, refreshes>>
jobVars == <<pc, asked, lookups, failed>>
vars == <<clock, table, schedule, vendor, bounds, jobVars>>

Poll == "live"
Refresh == "live-schedule"
Jobs == {Poll, Refresh}

MaxClock == Max(Times)

DayOf(t) == t \div Day

Days == 0..DayOf(MaxClock)

ASSUME QuotaAssumption ==
  /\ {Retries, Batches, Unknown, ResolveMax, Timeout, MaxRefresh,
      MaxFaults} \subseteq Nat
  /\ Batches > 0
  /\ Slots \subseteq Nat
  /\ MaxClock \in Nat /\ Times = 0..MaxClock

-----------------------------------------------------------------------------
(* LoadLiveSnapshot.  The sums go from the start of the day of `now` on.   *)

SumSince(counts, now) == MapThenSumSet(LAMBDA d : counts[d],
                                       {d \in Days : d >= DayOf(now)})

(* A fixture without a time (scheduled_at is NULL) opens no window.         *)
Announced == Slots \cup {Never}

Timed == {f \in DOMAIN schedule : schedule[f] # Never}

Windows(now) == {Window(schedule[f]) : f \in {g \in Timed : schedule[g] + WatchTail > now}}

(* The number of flags is LiveStore's; here it may be any.                 *)
Snapshot(now, active) ==
  [active |-> active, windows |-> Windows(now),
   spent |-> SumSince(spent, now), staleSpent |-> SumSince(staleSpent, now),
   lastPoll |-> lastPoll, lastRefresh |-> lastRefresh]

-----------------------------------------------------------------------------
Goto(j, to) == pc' = [pc EXCEPT ![j] = to]

NotAsked == [batch |-> 0, page |-> 0]

FirstOf(batch) == [batch |-> batch, page |-> 1]

Ask(j, request) == asked' = [asked EXCEPT ![j] = request]

NoLookups == [left |-> 0, mapped |-> 0]

NoRow == [started |-> Never, finished |-> Never, requests |-> 0, cause |-> "none"]

RunDay(j) == DayOf(row[j].started)

(* Back to the scheduler; the lock goes with the connection.               *)
Rest(j) == /\ Goto(j, "idle")
           /\ row' = [row EXCEPT ![j] = NoRow]
           /\ Ask(j, NotAsked)
           /\ lookups' = IF j = Poll THEN NoLookups ELSE lookups
           /\ failed' = [failed EXCEPT ![j] = FALSE]

StartRun(j, cause) ==
  row' = [row EXCEPT ![j] = [started |-> clock, finished |-> Never,
                             requests |-> 0, cause |-> cause]]

-----------------------------------------------------------------------------
(* Client.get: a request and its attempts, each counted before it is made. *)

Asking(j) == pc[j] \in {"board", "player", "fixtures", "usage"}

(* IncRunRequests.  A run with a request is a poll; a clean run of Job A   *)
(* with a request is a refresh, as of the time it was closed.  The request *)
(* for the usage is the last, and nobody looks at its row any more.        *)
Count(j, n) ==
  /\ spent' = [spent EXCEPT ![RunDay(j)] = @ + n]
  /\ row' = [row EXCEPT ![j] = IF pc[j] = "usage" THEN NoRow
                                ELSE [row[j] EXCEPT !.requests = @ + n]]
  /\ lastPoll' = IF j = Poll /\ n > 0 THEN row[j].started ELSE lastPoll
  /\ lastRefresh' = IF row[j].finished # Never /\ n > 0 THEN row[j].finished
                    ELSE lastRefresh
  /\ UNCHANGED staleSpent

Send(j, n) ==
  /\ sent' = [sent EXCEPT ![j][RunDay(j)] = @ + n]
  /\ staleSent' = IF row[j].cause = "stale_safe"
                  THEN [staleSent EXCEPT ![RunDay(j)] = @ + n] ELSE staleSent
  /\ polledAt' = IF j = Poll /\ n > 0 THEN row[j].started ELSE polledAt

(* Mutant of Request: a request is counted once, whatever the retries.     *)
RequestCountedOnce(j, attempts) ==
  /\ Asking(j)
  /\ Send(j, attempts)
  /\ Count(j, IF attempts = 0 THEN 0 ELSE 1)
  /\ UNCHANGED lost

(* A count that cannot be written is logged, and the request goes out all  *)
(* the same.                                                               *)
Request(j, attempts) ==
  /\ Asking(j)
  /\ Send(j, attempts)
  /\ \E uncounted \in 0..attempts :
       /\ crashes + lost + uncounted <= MaxFaults
       /\ lost' = lost + uncounted
       /\ Count(j, attempts - uncounted)

(* Answered at last, after transport errors, 429s or 5xx.                  *)
Answered(j) == \E attempts \in 1..(Retries + 1) : Request(j, attempts)

(* The attempts run out, one fails for good (4xx, a body that does not     *)
(* parse), there is a page too many, or the context ends.                  *)
Fails(j) == \E attempts \in 0..(Retries + 1) : Request(j, attempts)

(* Mutant of NextPage: one page too many.                                  *)
NextPageUnchecked(j) ==
  /\ pc[j] \in {"board", "fixtures"}
  /\ asked[j].page <= MaxPagesPerRun
  /\ Answered(j)
  /\ Ask(j, [asked[j] EXCEPT !.page = @ + 1])
  /\ UNCHANGED <<clock, schedule, crashes, refreshes, pc, lookups, failed>>

(* A page of the board or of a batch, and has_more.                        *)
NextPage(j) ==
  /\ pc[j] \in {"board", "fixtures"}
  /\ asked[j].page < MaxPagesPerRun
  /\ Answered(j)
  /\ Ask(j, [asked[j] EXCEPT !.page = @ + 1])
  /\ UNCHANGED <<clock, schedule, crashes, refreshes, pc, lookups, failed>>

-----------------------------------------------------------------------------
(* Either job.                                                             *)

Begin(j, cause, place) ==
  /\ pc[j] = "idle"
  /\ StartRun(j, cause)
  /\ Ask(j, FirstOf(1))
  /\ Goto(j, place)
  /\ UNCHANGED <<clock, spent, staleSpent, lastPoll, lastRefresh, schedule,
                 vendor, crashes, lost, lookups, failed>>

(* Switched off, lock held, refused by Decide; Job A: no player is mapped. *)
(* The row of a skipped tick has no requests and no part in any query.     *)
SkipTick(j) == pc[j] = "idle" /\ UNCHANGED vars

-----------------------------------------------------------------------------
(* Job B.  The clock is read first; then come the reconcile pass, the lock *)
(* and the snapshot.                                                       *)

DecidePoll(now, active) ==
  LET s == Snapshot(now, active)
  IN  /\ pc[Poll] = "idle"
      /\ now <= clock /\ clock - now <= Timeout
      /\ Polls(s, now)
      /\ Begin(Poll, PickMode(s, now), "board")
      /\ UNCHANGED refreshes

BoardRead ==
  /\ pc[Poll] = "board"
  /\ Answered(Poll)
  /\ \E n \in 0..Unknown : lookups' = [left |-> n, mapped |-> 0]
  /\ Ask(Poll, NotAsked)
  /\ Goto(Poll, "rows")
  /\ UNCHANGED <<clock, schedule, crashes, refreshes, failed>>

BoardFails ==
  /\ pc[Poll] = "board"
  /\ Fails(Poll)
  /\ failed' = [failed EXCEPT ![Poll] = TRUE]
  /\ Ask(Poll, NotAsked)
  /\ Goto(Poll, "rows")
  /\ UNCHANGED <<clock, schedule, crashes, refreshes, lookups>>

(* tryResolve: the cap is on players mapped, not on requests.  Whether a   *)
(* player is due again (ShouldTryResolve) is left open.                    *)
LookUp ==
  /\ pc[Poll] = "rows"
  /\ lookups.left > 0
  /\ lookups.mapped < ResolveMax
  /\ Ask(Poll, FirstOf(1))
  /\ Goto(Poll, "player")
  /\ UNCHANGED <<clock, table, schedule, vendor, bounds, lookups, failed>>

(* Mutant of LookedUp: a player who was not mapped is looked up again.     *)
LookedUpUntilMapped(mapped) ==
  /\ lookups' = [left |-> lookups.left - mapped, mapped |-> lookups.mapped + mapped]
  /\ Ask(Poll, NotAsked)
  /\ Goto(Poll, "rows")
  /\ UNCHANGED <<clock, schedule, crashes, refreshes, failed>>

LookedUp(mapped) ==
  /\ lookups' = [left |-> lookups.left - 1, mapped |-> lookups.mapped + mapped]
  /\ Ask(Poll, NotAsked)
  /\ Goto(Poll, "rows")
  /\ UNCHANGED <<clock, schedule, crashes, refreshes, failed>>

PlayerRead ==
  /\ pc[Poll] = "player"
  /\ Answered(Poll)
  /\ \E mapped \in 0..1 : LookedUp(mapped)

PlayerFails ==
  /\ pc[Poll] = "player"
  /\ Fails(Poll)
  /\ LookedUp(0)

(* Mutant of CloseCycle: a failed poll is closed without its mode.         *)
CloseCycleModeless ==
  /\ pc[Poll] = "rows"
  /\ staleSpent' = IF row[Poll].cause = "stale_safe" /\ ~failed[Poll]
                   THEN [staleSpent EXCEPT ![RunDay(Poll)] = @ + row[Poll].requests]
                   ELSE staleSpent
  /\ Rest(Poll)
  /\ UNCHANGED <<clock, spent, lastPoll, lastRefresh, schedule, vendor, bounds>>

(* FinishRun writes the mode, of a failed poll too; from here on the run   *)
(* counts towards the cap of its mode.                                     *)
CloseCycle ==
  /\ pc[Poll] = "rows"
  /\ staleSpent' = IF row[Poll].cause = "stale_safe"
                   THEN [staleSpent EXCEPT ![RunDay(Poll)] = @ + row[Poll].requests]
                   ELSE staleSpent
  /\ Rest(Poll)
  /\ UNCHANGED <<clock, spent, lastPoll, lastRefresh, schedule, vendor, bounds>>

-----------------------------------------------------------------------------
(* Job A.                                                                  *)

StartRefresh ==
  /\ refreshes < MaxRefresh
  /\ refreshes' = refreshes + 1
  /\ Begin(Refresh, "refresh", "fixtures")

BatchRead ==
  /\ pc[Refresh] = "fixtures"
  /\ Answered(Refresh)
  /\ IF asked[Refresh].batch < Batches
     THEN /\ Ask(Refresh, FirstOf(asked[Refresh].batch + 1))
          /\ UNCHANGED pc
     ELSE /\ Ask(Refresh, NotAsked)
          /\ Goto(Refresh, "write")
  /\ UNCHANGED <<clock, schedule, crashes, refreshes, lookups, failed>>

BatchFails ==
  /\ pc[Refresh] = "fixtures"
  /\ Fails(Refresh)
  /\ failed' = [failed EXCEPT ![Refresh] = TRUE]
  /\ Ask(Refresh, NotAsked)
  /\ Goto(Refresh, "write")
  /\ UNCHANGED <<clock, schedule, crashes, refreshes, lookups>>

(* The vendor lists no fixture long after its slot.                        *)
Got(now) == UNION {[S -> {t \in Slots : t >= now - WatchTail} \cup {Never}] :
                     S \in SUBSET Fixtures}

(* Mutant of UpsertSchedule: what this run did not return is deleted.      *)
UpsertScheduleByGeneration(got, now) == schedule' = got

(* A row is dropped when its time is well past or, if it has none, when the*)
(* vendor has not sent it for long (48 hours): which ones, is left open.   *)
UpsertSchedule(got, now) ==
  LET stored(f) == IF f \in DOMAIN got THEN got[f] ELSE schedule[f]
  IN  \E stale \in SUBSET (DOMAIN schedule \ (Timed \cup DOMAIN got)) :
        schedule' = [f \in {g \in (DOMAIN got \cup DOMAIN schedule) \ stale :
                              stored(g) = Never \/ stored(g) >= now - 2 * WatchTail}
                       |-> stored(f)]

(* What was fetched before an error is written like a whole answer.        *)
WriteSchedule ==
  /\ pc[Refresh] = "write"
  /\ \/ /\ LET now == row[Refresh].started
           IN  \E got \in Got(now) : UpsertSchedule(got, now)
        /\ UNCHANGED failed
     \/ /\ failed' = [failed EXCEPT ![Refresh] = TRUE]
        /\ UNCHANGED schedule
  /\ Goto(Refresh, "close")
  /\ UNCHANGED <<clock, table, vendor, bounds, asked, lookups>>

(* FinishRun, whose failure is only logged; then the vendor is asked for   *)
(* the usage, and the request counted on the closed run.                   *)
CloseRefresh ==
  /\ pc[Refresh] = "close"
  /\ ~failed[Refresh]
  /\ \/ /\ row' = [row EXCEPT ![Refresh].finished = clock]
        /\ lastRefresh' = IF row[Refresh].requests > 0 THEN clock ELSE lastRefresh
        /\ UNCHANGED crashes
     \/ /\ crashes + lost < MaxFaults
        /\ crashes' = crashes + 1
        /\ UNCHANGED <<row, lastRefresh>>
  /\ Ask(Refresh, FirstOf(1))
  /\ Goto(Refresh, "usage")
  /\ UNCHANGED <<clock, spent, staleSpent, lastPoll, schedule, vendor, lost,
                 refreshes, lookups, failed>>

CloseFailedRefresh ==
  /\ pc[Refresh] = "close"
  /\ failed[Refresh]
  /\ Rest(Refresh)
  /\ UNCHANGED <<clock, spent, staleSpent, lastPoll, lastRefresh, schedule,
                 vendor, bounds>>

ReconcileQuota ==
  /\ pc[Refresh] = "usage"
  /\ Fails(Refresh)
  /\ Ask(Refresh, NotAsked)
  /\ Goto(Refresh, "idle")
  /\ UNCHANGED <<clock, schedule, crashes, refreshes, lookups, failed>>

-----------------------------------------------------------------------------
(* A redeploy: the run stays open, without a mode.                         *)
Crash(j) ==
  /\ pc[j] # "idle"
  /\ crashes + lost < MaxFaults
  /\ crashes' = crashes + 1
  /\ staleSent' = IF row[j].cause = "stale_safe"
                  THEN [staleSent EXCEPT ![RunDay(j)] = @ - row[j].requests]
                  ELSE staleSent
  /\ Rest(j)
  /\ UNCHANGED <<clock, spent, staleSpent, lastPoll, lastRefresh, schedule,
                 sent, polledAt, lost, refreshes>>

(* No cycle outlives its timeout.                                          *)
Elapse ==
  /\ clock < MaxClock
  /\ \A j \in Jobs : pc[j] # "idle" => clock - row[j].started < Timeout
  /\ clock' = clock + 1
  /\ UNCHANGED <<table, schedule, vendor, bounds, jobVars>>

QuotaInit ==
  /\ clock = 0
  /\ spent = [d \in Days |-> 0]
  /\ staleSpent = [d \in Days |-> 0]
  /\ lastPoll = Never
  /\ lastRefresh = Never
  /\ row = [j \in Jobs |-> NoRow]
  /\ schedule = <<>>
  /\ sent = [j \in Jobs |-> [d \in Days |-> 0]]
  /\ staleSent = [d \in Days |-> 0]
  /\ polledAt = Never
  /\ crashes = 0
  /\ lost = 0
  /\ refreshes = 0
  /\ pc = [j \in Jobs |-> "idle"]
  /\ asked = [j \in Jobs |-> NotAsked]
  /\ lookups = NoLookups
  /\ failed = [j \in Jobs |-> FALSE]

QuotaNext ==
  \/ \E j \in Jobs : SkipTick(j) \/ NextPage(j) \/ Crash(j)
  \/ \E now \in Times, active \in 0..1 : DecidePoll(now, active)
  \/ BoardRead \/ BoardFails
  \/ LookUp \/ PlayerRead \/ PlayerFails
  \/ CloseCycle
  \/ StartRefresh
  \/ BatchRead \/ BatchFails
  \/ WriteSchedule \/ CloseRefresh \/ CloseFailedRefresh
  \/ ReconcileQuota
  \/ Elapse

QuotaSpec == QuotaInit /\ [][QuotaNext]_vars

-----------------------------------------------------------------------------
Modes == {"active", "watching", "stale_safe", "refresh"}

Instants == Times \cup {Never}

QuotaTypeOK ==
  /\ clock \in Times
  /\ spent \in [Days -> Nat]
  /\ staleSpent \in [Days -> Nat]
  /\ lastPoll \in Instants
  /\ lastRefresh \in Instants
  /\ row \in [Jobs -> [started : Instants, finished : Instants, requests : Nat,
                       cause : Modes \cup {"none"}]]
  /\ \E S \in SUBSET Fixtures : schedule \in [S -> Announced]
  /\ sent \in [Jobs -> [Days -> Nat]]
  /\ staleSent \in [Days -> Nat]
  /\ polledAt \in Instants
  /\ crashes \in Nat /\ lost \in Nat /\ crashes + lost <= MaxFaults
  /\ refreshes \in 0..MaxRefresh
  /\ DOMAIN pc = Jobs
  /\ pc[Poll] \in {"idle", "board", "rows", "player"}
  /\ pc[Refresh] \in {"idle", "fixtures", "write", "close", "usage"}
  /\ asked \in [Jobs -> [batch : 0..Batches, page : 0..MaxPagesPerRun]]
  /\ lookups \in [left : 0..Unknown, mapped : 0..ResolveMax]
  /\ failed \in [Jobs -> BOOLEAN]

(* What one cycle of Job B may really cost: both pages of the board and    *)
(* every player of it that is unknown, each tried to the end.              *)
CycleCost == (MaxPagesPerRun + Unknown) * (Retries + 1)

Budget == DailyQuota - Reserve - MaxPagesPerRun

BeginsPoll == pc[Poll] = "idle" /\ pc'[Poll] = "board"

(* Job B begins a cycle only if all the vendor has been asked this day, by *)
(* both jobs, in runs that failed, crashed or are still under way, retries *)
(* and look-ups included, leaves the reserve and a board of two pages.     *)
PollsWithinBudget ==
  [][BeginsPoll => LET d == DayOf(clock)
                   IN  sent[Poll][d] + sent[Refresh][d] <= Budget + lost]_vars

(* So however the day goes, Job B oversteps the governor's budget by one   *)
(* cycle at most; what Job A spends after that is on top.                  *)
DayBound == \A d \in Days : sent[Poll][d] <= Budget + CycleCost + lost

(* With a stale schedule the poller keeps asking, but no more than its own *)
(* daily cap and one cycle, crashed cycles aside: a failed poll counts.    *)
StaleBound == \A d \in Days : staleSent[d] < StaleDailyCap + CycleCost + lost

(* The vendor is never polled twice within the shortest interval, whatever *)
(* became of the first poll.                                               *)
PollsSpaced ==
  [][BeginsPoll /\ polledAt # Never /\ lost = 0 =>
       \/ clock - polledAt >= MinInterval - TickSlack
       \/ clock - polledAt >= StaleInterval - TickSlack]_vars

(* A fixture with a time leaves the schedule only when its window is over: *)
(* neither an answer without it (the match is on court) nor a fetch that   *)
(* broke off shuts the poller's eyes.  The vendor alone can, by sending the*)
(* fixture again without a time.                                           *)
WindowsKept ==
  [][\A f \in Timed \ DOMAIN schedule' : schedule[f] + WatchTail < clock]_vars

(* The time still to watch, up to any horizon of the day, is that of the   *)
(* union of the windows the schedule opens at this instant.                *)
WatchIsUnion ==
  \A to \in clock..EndOfUTCDay(clock) :
    WatchMinutes(Windows(clock), clock, to) =
      Cardinality(Covered(Windows(clock), clock, to))
=============================================================================

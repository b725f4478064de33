------------------------------ MODULE LivePoll ------------------------------
(***************************************************************************)
(* Job B, the live poller (internal/updater/live/poll.go), as run by       *)
(* several instances of the service on one database, with the content      *)
(* pipeline, hand flips and board replays beside it.                       *)
(*                                                                         *)
(* A process step is one statement or transaction: everything read before  *)
(* it may be stale when it commits.  Time is seen only through readings of *)
(* the clock: no two cycles begin at the same instant, and any of the      *)
(* lengths in Gaps may lie between them.                                   *)
(***************************************************************************)
EXTENDS LiveStore, Debounce, FiniteSetsExt

CONSTANTS Inst,       \* instances of the service (two overlap on a deploy)
          Replays,    \* requests to the dev endpoint that replays a board
          DevFlips,   \* whether the dev endpoints that flip by hand are used
          Boards,     \* the boards the vendor may return: sets of rows
          Extras,     \* in-scope rows of a board that match no row of ours
          MinGap,     \* the shortest interval Decide ever allows, less slack
          RunTTL,     \* 2 * UpdateTimeout, after which a run is abandoned
          Gaps,       \* how far the clock may move between two readings
          PollUntil,  \* nothing is polled or flipped by hand after this
          MaxClock,   \* the clock stops here
          MaxRuns,    \* runs that reach the vendor or a replayed board
          MaxCrashes, \* crashes and redeploys explored
          Free        \* the poll lock is not held

VARIABLES clock,   \* the database clock at its latest reading
          runs,    \* table live_ingest_runs, job 'live', with observations
          lock,    \* who holds the advisory lock LiveLockPoll
          crashes, \* how many crashes so far
          pc,      \* where each process stands
          at,      \* its reading of the clock (now)
          todo,    \* matches its current loop still has to visit
          run,     \* its run id
          prev,    \* rows_in_scope of the previous successful run, 0 if none,
                   \* or Unread
          held,    \* its snapshot of the flags
          board,   \* rows of the board still to be read
          inScope, \* in-scope rows of the board
          seen,    \* matches found on the board
          row      \* the row, or the remark, being applied

localVars == <<pc, at, todo, run, prev, held, board, inScope, seen, row>>
pollVars == <<clock, runs, lock, crashes, localVars>>
vars == <<storeVars, pollVars>>

Procs == Inst \cup Replays

Rows == Matches \X BoardStates

(* LiveFlagRow: what a snapshot tells of a flag.                           *)
Held == [state     : {"on_court", "suspended"},
         flippedAt : Times,
         misses    : Nat]

ASSUME PollAssumption ==
  /\ Inst \cap Replays = {}
  /\ Free \notin Inst
  /\ NoFlag \notin Held
  /\ DevFlips \in BOOLEAN
  /\ Boards \subseteq SUBSET Rows
  /\ \A rows \in Boards : IsFiniteSet(rows)
  /\ Extras \subseteq Nat
  /\ Gaps \subseteq Nat \ {0}
  /\ {MinGap, RunTTL, PollUntil, MaxClock, MaxRuns, MaxCrashes} \subseteq Nat
  /\ Times = 0..MaxClock
  /\ RunIds = 0..MaxRuns

-----------------------------------------------------------------------------
(* Readings of the clock.                                                  *)

ReadClock(gap) ==
  clock' = IF clock + gap <= MaxClock THEN clock + gap ELSE MaxClock

CanPoll == clock < PollUntil /\ Len(runs) < MaxRuns

-----------------------------------------------------------------------------
(* Queries on live_ingest_runs and live_flags.                             *)

Good == {r \in DOMAIN runs : runs[r].outcome = "ok"}

(* Mutant of Misses: a failed run counts as an absence.                    *)
MissesAnyRun(m) == Cardinality({r \in DOMAIN runs : /\ runs[r].outcome # "open"
                                                    /\ r > flags[m].lastSeen})

(* HeldLiveFlags: finished runs without error since the match was seen.    *)
Misses(m) == Cardinality({r \in Good : r > flags[m].lastSeen})

HeldRow(m) == [state |-> flags[m].state, flippedAt |-> flags[m].flippedAt,
               misses |-> Misses(m)]

HeldLiveFlags == [m \in Matches |->
                    IF flags[m] # NoFlag /\ flags[m].source = Api
                    THEN HeldRow(m) ELSE NoFlag]

ApiFlags == {m \in Matches : flags[m] # NoFlag /\ flags[m].source = Api}

OrphanFlags == {m \in ApiFlags : status[m] # "live"}

(* Mutant of StaleFlags: the comparison is swapped.                        *)
StaleFlagsSwapped(now) ==
  {m \in ApiFlags : MaxLiveAge > 0 /\ flags[m].flippedAt > now - MaxLiveAge}

StaleFlags(now) ==
  {m \in ApiFlags : MaxLiveAge > 0 /\ flags[m].flippedAt < now - MaxLiveAge}

PrevSuccessfulInScope == IF Good = {} THEN 0 ELSE runs[Max(Good)].inScope

(* That query failed.  To the guard it is the same as no run at all.       *)
Unread == -1

(* Mutant of TooSoon: the interval is not enforced.                        *)
NeverTooSoon(now) == FALSE

(* last_poll_at: only runs that made a request count.                      *)
TooSoon(now) ==
  \E r \in DOMAIN runs : runs[r].asked /\ now - runs[r].started < MinGap

NewRun(now) == [started |-> now, asked |-> FALSE, outcome |-> "open",
                inScope |-> 0, observed |-> {}]

StartRun(p, now) == /\ runs' = Append(runs, NewRun(now))
                    /\ run' = [run EXCEPT ![p] = Len(runs) + 1]

-----------------------------------------------------------------------------
(* Process bookkeeping.                                                    *)

Goto(p, to) == pc' = [pc EXCEPT ![p] = to]

NoRow == [match |-> NoFlag, sig |-> "absent"]

NothingHeld == [m \in Matches |-> NoFlag]

(* The process forgets the cycle and gives the lock back.  The connection  *)
(* that holds the lock dies with a crash, so a crash frees it too.         *)
Forget(p) == /\ Goto(p, "idle")
             /\ at' = [at EXCEPT ![p] = 0]
             /\ todo' = [todo EXCEPT ![p] = {}]
             /\ run' = [run EXCEPT ![p] = 0]
             /\ prev' = [prev EXCEPT ![p] = 0]
             /\ held' = [held EXCEPT ![p] = NothingHeld]
             /\ board' = [board EXCEPT ![p] = {}]
             /\ inScope' = [inScope EXCEPT ![p] = 0]
             /\ seen' = [seen EXCEPT ![p] = {}]
             /\ row' = [row EXCEPT ![p] = NoRow]
             /\ lock' = IF lock = p THEN Free ELSE lock

FinishRun(p, outcome) ==
  runs' = [runs EXCEPT ![run[p]].outcome = outcome,
                       ![run[p]].inScope = inScope[p]]

(* The cycle is over; FinishRun runs on a context of its own.              *)
CloseCycle(p, outcome) ==
  /\ FinishRun(p, outcome)
  /\ Forget(p)
  /\ UNCHANGED <<storeVars, clock, crashes>>

-----------------------------------------------------------------------------
(* reconcile: before the kill switch, before and outside the lock.         *)

BeginCycle(i) ==
  /\ pc[i] = "idle"
  /\ \E gap \in Gaps : ReadClock(gap)
  /\ at' = [at EXCEPT ![i] = clock']
  /\ todo' = [todo EXCEPT ![i] = OrphanFlags]
  /\ Goto(i, "orphans")
  /\ UNCHANGED <<storeVars, runs, lock, crashes, run, prev, held, board,
                 inScope, seen, row>>

(* The next match of either loop.                                          *)
Visit(i, m) ==
  /\ pc[i] \in {"orphans", "stale"}
  /\ m \in todo[i]
  /\ todo' = [todo EXCEPT ![i] = @ \ {m}]

(* Mutant of PutOut: the flag is deleted outside a transaction of its own. *)
PutOutRaw(i, m) ==
  /\ Visit(i, m)
  /\ flags' = [flags EXCEPT ![m] = NoFlag]
  /\ UNCHANGED <<status, decided, events>>
  /\ UNCHANGED <<clock, runs, lock, crashes, pc, at, run, prev, held, board,
                 inScope, seen, row>>

PutOut(i, m) ==
  /\ Visit(i, m)
  /\ FlipOut(m, at[i])
  /\ UNCHANGED <<clock, runs, lock, crashes, pc, at, run, prev, held, board,
                 inScope, seen, row>>

(* A transaction that fails is logged and skipped.                         *)
PutOutFails(i, m) ==
  /\ Visit(i, m)
  /\ UNCHANGED storeVars
  /\ UNCHANGED <<clock, runs, lock, crashes, pc, at, run, prev, held, board,
                 inScope, seen, row>>

ListStale(i) ==
  /\ pc[i] = "orphans"
  /\ todo[i] = {}
  /\ todo' = [todo EXCEPT ![i] = StaleFlags(at[i])]
  /\ \E old \in SUBSET Created : RetireCreatedMatches(old)
  /\ Goto(i, "stale")
  /\ UNCHANGED <<clock, runs, lock, crashes, at, run, prev, held, board,
                 inScope, seen, row>>

-----------------------------------------------------------------------------
(* The kill switch, the janitor, the lock, the decision.                   *)

Abandoned(now) == {r \in DOMAIN runs : /\ runs[r].outcome = "open"
                                       /\ runs[r].started < now - RunTTL}

SweepAbandonedRuns(now) ==
  runs' = [r \in DOMAIN runs |->
             IF r \in Abandoned(now) THEN [runs[r] EXCEPT !.outcome = "error"]
                                     ELSE runs[r]]

(* Before the lock, so a run of another instance that is still under way   *)
(* may be closed here; its own FinishRun overwrites the verdict.           *)
SweepRuns(i) ==
  /\ pc[i] = "stale"
  /\ todo[i] = {}
  /\ SweepAbandonedRuns(at[i])
  /\ Goto(i, "lock")
  /\ UNCHANGED <<storeVars, clock, lock, crashes, at, todo, run, prev, held,
                 board, inScope, seen, row>>

(* Mutant of TakeLock: the answer of the try-lock is not looked at.        *)
TakeLockAnyway(i) ==
  /\ pc[i] = "lock"
  /\ lock' = i
  /\ Goto(i, "decide")
  /\ UNCHANGED <<storeVars, clock, runs, crashes, at, todo, run, prev, held,
                 board, inScope, seen, row>>

TakeLock(i) ==
  /\ pc[i] = "lock"
  /\ lock = Free
  /\ lock' = i
  /\ Goto(i, "decide")
  /\ UNCHANGED <<storeVars, clock, runs, crashes, at, todo, run, prev, held,
                 board, inScope, seen, row>>

(* Switched off; the lock is taken; asleep, quota spent, too soon.  The    *)
(* row a skipped tick leaves is one no query of this module counts, so it  *)
(* is not kept.                                                            *)
SkipTick(i) ==
  /\ pc[i] \in {"stale", "lock", "decide"}
  /\ todo[i] = {}
  /\ Forget(i)
  /\ UNCHANGED <<storeVars, clock, runs, crashes>>

(* The one thing Decide never does is poll too soon after the last poll.   *)
(* The number the collapse guard compares with is a query of its own; when *)
(* it fails the error is logged and the cycle goes on without it.          *)
DecidePoll(i) ==
  /\ pc[i] = "decide"
  /\ CanPoll
  /\ ~TooSoon(at[i])
  /\ StartRun(i, clock)
  /\ \E baseline \in {PrevSuccessfulInScope, Unread} :
       prev' = [prev EXCEPT ![i] = baseline]
  /\ Goto(i, "fetch")
  /\ UNCHANGED <<storeVars, clock, lock, crashes, at, todo, held, board, inScope,
                 seen, row>>

(* DevLiveIngest: the same pass over a saved board, with no lock and no    *)
(* decision, and the start of the run for its clock.                       *)
BeginReplay(r) ==
  /\ pc[r] = "idle"
  /\ CanPoll
  /\ ReadClock(1)
  /\ StartRun(r, clock')
  /\ at' = [at EXCEPT ![r] = clock']
  /\ prev' = [prev EXCEPT ![r] = PrevSuccessfulInScope]
  /\ Goto(r, "fetch")
  /\ UNCHANGED <<storeVars, lock, crashes, todo, held, board, inScope, seen,
                 row>>

(* The query for the baseline fails: the request ends and leaves its run   *)
(* open.                                                                   *)
ReplayFails(r) ==
  /\ pc[r] = "idle"
  /\ CanPoll
  /\ ReadClock(1)
  /\ runs' = Append(runs, NewRun(clock'))
  /\ UNCHANGED <<storeVars, lock, crashes, localVars>>

-----------------------------------------------------------------------------
(* PollLive and Ingest.                                                    *)

Asked(p) == [runs EXCEPT ![run[p]].asked = p \in Inst]

(* No board, or a board with no row in it: nothing is observed or swept.   *)
FetchFails(p) ==
  /\ pc[p] = "fetch"
  /\ runs' = [Asked(p) EXCEPT ![run[p]].outcome = "error"]
  /\ Forget(p)
  /\ UNCHANGED <<storeVars, clock, crashes>>

Fetch(p) ==
  /\ pc[p] = "fetch"
  /\ runs' = Asked(p)
  /\ \E rows \in Boards, extra \in Extras :
       /\ board' = [board EXCEPT ![p] = rows]
       /\ inScope' = [inScope EXCEPT ![p] = Cardinality(rows) + extra]
  /\ held' = [held EXCEPT ![p] = HeldLiveFlags]
  /\ Goto(p, "rows")
  /\ UNCHANGED <<storeVars, clock, lock, crashes, at, todo, run, prev, seen,
                 row>>

(* FindMatchByPlayers, then AppendObservation.                             *)
MatchRow(p, m, sig) ==
  /\ pc[p] = "rows"
  /\ <<m, sig>> \in board[p]
  /\ status[m] \in {"scheduled", "live"}
  /\ board' = [board EXCEPT ![p] = @ \ {<<m, sig>>}]
  /\ seen' = [seen EXCEPT ![p] = @ \cup {m}]
  /\ runs' = [runs EXCEPT ![run[p]].observed = @ \cup {m}]
  /\ row' = [row EXCEPT ![p] = [match |-> m, sig |-> sig]]
  /\ Goto(p, "apply")
  /\ UNCHANGED <<storeVars, clock, lock, crashes, at, todo, run, prev, held,
                 inScope>>

(* no_match_row: to the review queue, which no query here reads.           *)
DropRow(p, m, sig) ==
  /\ pc[p] = "rows"
  /\ <<m, sig>> \in board[p]
  /\ status[m] \notin {"scheduled", "live"}
  /\ board' = [board EXCEPT ![p] = @ \ {<<m, sig>>}]
  /\ UNCHANGED <<storeVars, clock, runs, lock, crashes, pc, at, todo, run,
                 prev, held, inScope, seen, row>>

Known(p, m) == IF held[p][m] = NoFlag
               THEN [held |-> FALSE, state |-> "on_court", misses |-> 0]
               ELSE [held |-> TRUE, state |-> held[p][m].state,
                     misses |-> held[p][m].misses]

Age(p, m) == IF held[p][m] = NoFlag THEN 0 ELSE at[p] - held[p][m].flippedAt

ActionFor(p, m, sig) == Derive(Known(p, m), sig, Age(p, m))

(* applyAction; the suspend and resume actions go on to a second statement.*)
ApplyAction(p, m, sig) ==
  LET act == ActionFor(p, m, sig)
  IN  \/ /\ act = "enter_live"
         /\ FlipLive(m, Api, run[p], at[p])
      \/ /\ act \in {"leave_live", "force_exit"}
         /\ FlipOut(m, at[p])
      \/ /\ act \in {"suspend", "resume"} \/ (act = "none" /\ sig # "absent"
                                               /\ Known(p, m).held)
         /\ MarkFlagSeen(m, run[p], StateAfter(Known(p, m), act))
      \/ /\ act = "none"
         /\ sig = "absent" \/ ~Known(p, m).held
         /\ UNCHANGED storeVars

Remarks(p) == ActionFor(p, row[p].match, row[p].sig) \in {"suspend", "resume"}

ApplyRow(p) ==
  /\ pc[p] = "apply"
  /\ ApplyAction(p, row[p].match, row[p].sig)
  /\ Goto(p, IF Remarks(p) THEN "remark" ELSE "rows")
  /\ row' = IF Remarks(p) THEN row ELSE [row EXCEPT ![p] = NoRow]
  /\ UNCHANGED <<clock, runs, lock, crashes, at, todo, run, prev, held, board,
                 inScope, seen>>

AppendRemark(p) ==
  /\ pc[p] = "remark"
  /\ AppendLiveEvent(row[p].match,
                     IF row[p].sig = "suspended" THEN "suspended" ELSE "resumed",
                     at[p])
  /\ Goto(p, "rows")
  /\ row' = [row EXCEPT ![p] = NoRow]
  /\ UNCHANGED <<clock, runs, lock, crashes, at, todo, run, prev, held, board,
                 inScope, seen>>

CollapseMinRows == 3

Holding(p) == {m \in Matches : held[p][m] # NoFlag}

(* Mutant of Collapsed: the run before is not compared with.               *)
CollapsedNever(p) == inScope[p] = 0 /\ Holding(p) # {} /\ prev[p] = 0

Collapsed(p) == /\ prev[p] >= CollapseMinRows
                /\ Holding(p) # {}
                /\ inScope[p] * 2 < prev[p]

(* The guard closes the run as failed, so it is no absence for anyone.     *)
TripGuard(p) ==
  /\ pc[p] = "rows"
  /\ board[p] = {}
  /\ Collapsed(p)
  /\ CloseCycle(p, "error")

BeginSweep(p) ==
  /\ pc[p] = "rows"
  /\ board[p] = {}
  /\ ~Collapsed(p)
  /\ todo' = [todo EXCEPT ![p] = Holding(p) \ seen[p]]
  /\ Goto(p, "sweep")
  /\ UNCHANGED <<storeVars, clock, runs, lock, crashes, at, run, prev, held,
                 board, inScope, seen, row>>

SweepAbsent(p, m) ==
  /\ pc[p] = "sweep"
  /\ m \in todo[p]
  /\ ApplyAction(p, m, "absent")
  /\ todo' = [todo EXCEPT ![p] = @ \ {m}]
  /\ UNCHANGED <<clock, runs, lock, crashes, pc, at, run, prev, held, board,
                 inScope, seen, row>>

FinishCycle(p) ==
  /\ pc[p] = "sweep"
  /\ todo[p] = {}
  /\ CloseCycle(p, "ok")

(* Mutant of AbortIngest: the error does not reach the run.                *)
AbortIngestUnnoticed(p) ==
  /\ pc[p] \in {"rows", "apply", "remark", "sweep"}
  /\ CloseCycle(p, "ok")

(* A statement of Ingest fails: the cycle stops where it is.               *)
AbortIngest(p) ==
  /\ pc[p] \in {"rows", "apply", "remark", "sweep"}
  /\ CloseCycle(p, "error")

-----------------------------------------------------------------------------
(* What happens around the poller.                                         *)

Crash(i) ==
  /\ pc[i] # "idle"
  /\ crashes < MaxCrashes
  /\ crashes' = crashes + 1
  /\ Forget(i)
  /\ UNCHANGED <<storeVars, clock, runs>>

DevFlip(m) ==
  /\ DevFlips
  /\ clock < PollUntil
  /\ ReadClock(1)
  /\ FlipLive(m, "dev", 0, clock') \/ FlipOut(m, clock')
  /\ UNCHANGED <<runs, lock, crashes, localVars>>

Pipeline(m) ==
  /\ \E s \in PipelineStatuses, winner \in BOOLEAN : PipelineWrites(m, s, winner)
  /\ UNCHANGED pollVars

-----------------------------------------------------------------------------
PollInit ==
  /\ StoreInit
  /\ clock = 0
  /\ runs = <<>>
  /\ lock = Free
  /\ crashes = 0
  /\ pc = [p \in Procs |-> "idle"]
  /\ at = [p \in Procs |-> 0]
  /\ todo = [p \in Procs |-> {}]
  /\ run = [p \in Procs |-> 0]
  /\ prev = [p \in Procs |-> 0]
  /\ held = [p \in Procs |-> NothingHeld]
  /\ board = [p \in Procs |-> {}]
  /\ inScope = [p \in Procs |-> 0]
  /\ seen = [p \in Procs |-> {}]
  /\ row = [p \in Procs |-> NoRow]

Ingest(p) ==
  \/ FetchFails(p) \/ Fetch(p)
  \/ \E m \in Matches, sig \in BoardStates : MatchRow(p, m, sig) \/ DropRow(p, m, sig)
  \/ ApplyRow(p) \/ AppendRemark(p)
  \/ TripGuard(p) \/ BeginSweep(p)
  \/ \E m \in Matches : SweepAbsent(p, m)
  \/ FinishCycle(p) \/ AbortIngest(p)

Cycle(i) ==
  \/ BeginCycle(i)
  \/ \E m \in Matches : PutOut(i, m) \/ PutOutFails(i, m)
  \/ ListStale(i)
  \/ SweepRuns(i) \/ TakeLock(i) \/ SkipTick(i) \/ DecidePoll(i)
  \/ Ingest(i)

PollNext ==
  \/ \E i \in Inst : Cycle(i) \/ Crash(i)
  \/ \E r \in Replays : BeginReplay(r) \/ ReplayFails(r) \/ Ingest(r)
  \/ \E m \in Matches : DevFlip(m) \/ Pipeline(m)

PollSpec == PollInit /\ [][PollNext]_vars

-----------------------------------------------------------------------------
(* Types of the poller's own variables, over the values a reading of the   *)
(* tables can give.                                                        *)
Run == [started  : Times,
        asked    : BOOLEAN,
        outcome  : {"open", "ok", "error"},
        inScope  : Nat,
        observed : SUBSET Matches]

Steps == {"idle", "orphans", "stale", "lock", "decide", "fetch", "rows",
          "apply", "remark", "sweep"}

PollTypeOK ==
  /\ StoreTypeOK
  /\ clock \in Times
  /\ runs \in Seq(Run)
  /\ Len(runs) <= MaxRuns
  /\ lock \in Inst \cup {Free}
  /\ crashes \in 0..MaxCrashes
  /\ pc \in [Procs -> Steps]
  /\ at \in [Procs -> Times]
  /\ todo \in [Procs -> SUBSET Matches]
  /\ run \in [Procs -> RunIds]
  /\ prev \in [Procs -> Nat \cup {Unread}]
  /\ held \in [Procs -> [Matches -> Held \cup {NoFlag}]]
  /\ board \in [Procs -> SUBSET Rows]
  /\ inScope \in [Procs -> Nat]
  /\ seen \in [Procs -> SUBSET Matches]
  /\ row \in [Procs -> [match : Matches, sig : BoardStates] \cup {NoRow}]

(* The lock does its work: between taking it and giving it back an         *)
(* instance is alone, so the snapshot it decides on cannot be changed by   *)
(* another poll.                                                           *)
OnePollAtATime ==
  \A i \in Inst : pc[i] \in {"decide", "fetch", "rows", "apply", "remark",
                             "sweep"} <=> lock = i

(* Matches a run has read on its board, and the good runs after the last   *)
(* run that read m: the absences of m, counted from the observations and   *)
(* not from last_seen_run_id.                                              *)
AbsentSince(m) == {r \in Good : \A s \in DOMAIN runs :
                                  m \in runs[s].observed => s < r}

(* A match the boards have stopped showing does not outlive the third      *)
(* successful one: whatever crashed, was swept or ran beside, no card is   *)
(* ever three good boards behind (HeldLiveFlags, MarkFlagSeen and Derive   *)
(* together).                                                              *)
AbsencesBounded ==
  \A m \in ApiFlags : Cardinality(AbsentSince(m)) < MissThreshold

LeavesOnAbsence(p, m) == /\ pc[p] = "sweep"
                         /\ m \in todo[p]
                         /\ todo' = [todo EXCEPT ![p] = @ \ {m}]
                         /\ flags[m] # NoFlag
                         /\ flags'[m] = NoFlag
                         /\ ActionFor(p, m, "absent") = "leave_live"

(* The good runs after the last good run that saw m.                       *)
GoodAbsences(m) == {r \in Good : \A s \in Good : m \in runs[s].observed => s < r}

(* The dear exit: a match goes out for want of being seen only if the      *)
(* board of this run does not show it and neither did those of two good    *)
(* runs, with no good run in between that saw it.  (A run that read the    *)
(* match and failed before its flag was marked seen is no sighting.)       *)
ThreeBoards ==
  [][\A p \in Procs, m \in Matches :
       LeavesOnAbsence(p, m) =>
         /\ m \notin runs[run[p]].observed
         /\ Cardinality(GoodAbsences(m) \ {run[p]}) >= MissThreshold - 1]_vars

(* A board that lost half of the rows we follow since the last good one is *)
(* a broken source: no match goes out for being absent from it, whoever    *)
(* else polled meanwhile, except in a cycle that could not read what the   *)
(* last good run counted ("the collapse guard is blind this cycle").       *)
CollapseEndsNothing ==
  [][\A p \in Procs, m \in Matches :
       LeavesOnAbsence(p, m) =>
         \/ prev[p] = Unread
         \/ PrevSuccessfulInScope < CollapseMinRows
         \/ 2 * inScope[p] >= PrevSuccessfulInScope]_vars

(* What MatchStillLive relies on to tell the periods of a match apart:     *)
(* every `live` event of an earlier period is older than the flag.         *)
PeriodsOrdered ==
  \A m \in Matches :
    flags[m] # NoFlag =>
      \A k \in Transitions(m) :
        events[k].kind = "live" =>
          \/ events[k].at < flags[m].flippedAt
          \/ \A j \in Transitions(m) : j <= k

(* A step of either loop of reconcile that puts a card out.                *)
PutsOut(i, m) == /\ pc[i] \in {"orphans", "stale"}
                 /\ m \in todo[i]
                 /\ todo' = [todo EXCEPT ![i] = @ \ {m}]
                 /\ flags[m] # NoFlag
                 /\ flags'[m] = NoFlag

(* "The flag is there and the match is no longer live; or the match hangs  *)
(* live longer than allowed": the two reasons for which reconcile says it  *)
(* puts a card out.                                                        *)
ReconcileHasReason ==
  [][\A i \in Inst, m \in Matches :
       PutsOut(i, m) =>
         \/ status[m] # "live"
         \/ MaxLiveAge > 0 /\ at[i] - flags[m].flippedAt > MaxLiveAge]_vars

(* The remarks made in the current period of m.                            *)
RemarksOf(m) ==
  {k \in DOMAIN events :
     /\ events[k].match = m
     /\ events[k].kind \in {"suspended", "resumed"}
     /\ \A j \in Transitions(m) : j < k}

LastRemark(m) == IF RemarksOf(m) = {} THEN "resumed"
                 ELSE events[Max(RemarksOf(m))].kind

(* Once no cycle is under way, the last remark of a live period says what  *)
(* the flag says: every rain delay and every end of one is announced.      *)
RemarksAgree ==
  (\A p \in Procs : pc[p] = "idle") =>
    \A m \in ApiFlags : LastRemark(m) = IF flags[m].state = "suspended"
                                        THEN "suspended" ELSE "resumed"

-----------------------------------------------------------------------------
(* Whatever the interleaving, all the poller, the replays and the dev      *)
(* endpoints do to the shared tables is a sequence of whole transactions   *)
(* of LiveStore, each as its guard allows at the time it commits.          *)
ImplementsStore == StoreSpec

(* The scheduler runs the job of a live instance on every tick, switch or  *)
(* no switch, and a transaction that is tried again and again does not     *)
(* fail for ever.  No poll need ever succeed.                              *)
Fairness(i) == /\ WF_vars(Cycle(i))
               /\ \A m \in Matches : SF_vars(PutOut(i, m))

PollFairSpec == PollSpec /\ \A i \in Inst : Fairness(i)

(* No card burns for ever: the flag the poller raised goes out even if     *)
(* the vendor never answers again and every later tick is skipped.         *)
FlagsGoOut == \A m \in Matches : m \in ApiFlags ~> m \notin ApiFlags
=============================================================================

# A TLA+ development of the tennis backend

The backend serves an iOS app: tournaments, draws, matches and followed players
out of a PostgreSQL database that another program, the *content pipeline*
(`tennis-data-storage`), fills. What this service does on its own is the **live
status**: it makes matches of a vendor's fixtures, polls the vendor's board of
live matches on a small daily quota, decides which matches are live, writes that
beside the pipeline into the same rows, and lights and puts out a card (Live
Activity) on the phones of followers through Apple's push service. That part has
the concurrency, the crashes, the retries and the budget. What the service shows
of the rows (the home screen, the widget, the slice of a draw) is read-only but
not simple: it is computed from rows that others are in the middle of writing.
Both are specified here.

## 1. The system

| Component (source) | State | Operations | Modules |
|---|---|---|---|
| Live store and outbox (`internal/storage/live.go`, `live_poll.go`, `live_create.go`) | `matches.status`, `winner_side`; tables `live_flags`, `live_events` | `FlipLive`, `FlipOut`, `MarkFlagSeen`, `AppendLiveEvent`, `RetireCreatedMatches`; the pipeline writes the same rows | `LivePeriods`, `LiveStore` |
| Debounce (`updater/live/derive.go`) | none (pure) | `Derive` | `Debounce` |
| Poller, Job B (`updater/live/poll.go`) | `live_ingest_runs`, `live_observations`, an advisory lock, the snapshot of a cycle | reconcile, lock, decide, fetch, ingest, sweep, `FinishRun` | `LivePoll`, `Quota`, `Intake` |
| Governor (`updater/live/decide.go`) | none (pure) | `Decide`, `WatchMinutes` | `Governor` |
| Schedule refresh, Job A (`updater/live/schedule.go`) | `live_schedule`, its runs, its own lock | fetch fixtures, `UpsertSchedule`, usage check, match creation, pruning | `Quota`, `Intake`, `Feed` |
| Match creation (`schedule.go`, `live_create.go`) | rows of `matches` under keys of its own | `createMatches`, `CreateMatchFromFixture` | `Intake` |
| Lazy resolver (`poll.go`, `live_resolve.go`) | `external_ids`, `live_resolve_attempts` | `tryResolve`, `FindMatchByPlayers` | `Intake`, `Quota` (its cost) |
| Vendor client (`internal/livesource/client.go`) | the count of requests | paging, retries | `Quota` |
| Pusher (`updater/live/push.go`, `live_push.go`) | `live_activity_sessions`, `device_push_tokens`, claims of the outbox, its own lock | sweep by age, claim, start, end, retry | `LivePush` |
| Push API, dev API (`api/push.go`, `api/dev.go`) | as above | token registrations; hand flips, board replay | `LivePush`, `LivePoll` |
| Scheduler (`internal/scheduler`) | cron entries | runs a job per tick, never twice at once in one instance, under a timeout | fairness and guards |
| APNs client (`internal/apns`) | cached signing key | `Send` | its answers, in `LivePush` |
| Home screen and widget (`storage/feed.go`) | none of their own | a request of several queries | `Feed` |
| Bracket and draw (`bracket_slice.go`, `draw_tree.go`, `draw_card.go`) | none (pure, over a tree of rows) | `BuildBracketSlice`, `relevantFollowed`, `completeDrawCard` | `Bracket` |
| Header, roster, users, players, tournaments, schema, start-up | | read-only queries, single-statement writes | not modelled |

How they interact: everything goes through the database. Job B and Job A write
their request counts into one table, from which Job B's governor reads the
day's spending; Job A writes the windows Job B wakes up for and the rows Job B
finds; Job B writes flags and events in one transaction; the pusher is the only
consumer of the events; Job A deletes those consumed long ago, though the screens
rely on them to know what has ended; the phones give tokens back through the API
while a push is under way. During a deploy two instances run all of this on one
database, and advisory locks, which die with their connection, are what keeps
them apart.

What is hard to get right there, and what makes each part correct:

- *Store.* A status change, its flag and its event are one transaction beside a
  pipeline that writes the same row. Flag and outbox must never disagree; a
  result must survive the restoring of a status.
- *Poller.* A card goes out after three successful boards in a row without the
  match. Failed runs, crashed runs, runs of others, a board that lists a match
  twice and a board that lost half its rows must not bend that count; and with
  the feed dead for good, the card must still go out.
- *Intake.* A meeting has one row, though the vendor lists it twice, a person
  corrects the links between two statements and the pipeline publishes the same
  match; a guess must not raise a stranger's match nor replace a person's word.
- *Governor and quota.* Two jobs under different locks spend one budget, with
  retries, crashes and uncounted requests, and nobody tests two jobs at once.
- *Pusher.* At least once towards Apple, at most one card per follower and
  session, with a slot taken before the push, a crash in between, dead tokens.
- *Screens.* Queries without a common snapshot, over rows that move meanwhile; a
  tree of which the import has written only a part.

## 2. The modules

### LivePeriods, LiveStore: what ingest promises, and the transactions

`LivePeriods` is the abstract specification: a match is not live, or live since
an instant; a period opens with one `live` and closes with one `finished`
announcement; remarks (rain delays) come in between or a little late.

`LiveStore` has one action per transaction. `FlipLive` is the whole of
`storage.FlipLive`: guard under the row lock, restoring status chosen, upsert of
the flag, event row. `FlipOut` restores the prior status only where the row is
still `live`, removes the flag and writes the event. Callers and clocks are left
to the modules that extend it. `status` and `decided` are columns of `matches`
(a completed or decided row carries a result), `flags` is `live_flags` with
`NoFlag` for a missing row, `events` is the outbox in id order. `PipelineWrites`
is external: it writes any status of `PipelineStatuses`, and a completed match
gets its winner.

`ImplementsPeriods` is the refinement: `since` is `flippedAt` of the flag, the
feed is the outbox.

### Debounce, Governor

`Derive` as an operator on the known state, the signal of a row (or `absent`)
and the age of the flag, and `StateAfter`, the state it leaves. `Decide` and
`WatchMinutes` as operators over a snapshot record, in the order of the code:
mode, empty budget, cap of `stale_safe`, interval. `WatchMinutes` is the fold of
the code's loop (`Absorb`) over the windows in some order by their opening
(`InOrder`); `Covered` is what it is to compute, the instants some window covers.

### LivePoll: Job B

Every step is one statement or transaction; what was read earlier may be stale
by then. `BeginCycle` reads the clock and the orphans; `PutOut` and
`ListStale` are `reconcile`, outside the lock as in the code; `SweepRuns`,
`TakeLock` and `DecidePoll` follow; `Fetch` or `FetchFails`; `MatchRow`,
`DropRow`, `ApplyRow` (whole `applyAction` of a row), `AppendRemark` (its second
statement); `TripGuard` or `BeginSweep`, `SweepAbsent`, `FinishCycle`.
`AbortIngest` is any statement of `Ingest` failing; `Crash` leaves the run open
and frees the lock. The number the collapse guard compares with is a query of its
own, and when it fails the poller logs that "the collapse guard is blind this
cycle" and goes on: `DecidePoll` reads it or leaves `prev` at `Unread`. Beside the
poller: `BeginReplay` (the dev endpoint runs the same `Ingest` without the lock)
and `ReplayFails` (there the same failing query ends the request and leaves its
run open), `DevFlip`, `Pipeline`. Local variables of the Go
functions are functions of the process (`at` is `now`, `held` the flags read
before the first row, `seen` the matches on the board).

Abstractions: `DBNow` and `OrphanFlags` are one step, so are `LoadLiveSnapshot`,
`StartRun` and `PrevSuccessfulInScope`; the interval is reduced to the shortest
one (`MinGap`), the rest of `Decide` being in `Governor`; rows of skipped ticks
are not kept (no query here reads them); rows of the board that are ambiguous,
out of the window or without a match of ours are `Extras` (how a row finds its
match is in `Intake`); identical rows of a board are one; a failed `FinishRun`
has the effect of a crash at that place; a replay does not crash; the pod clock
of the dev endpoints is the database clock. The runs have one match each (the
store's have two): the matches of a board share nothing but the lock, the run
and its in-scope count, in which other rows of ours appear as `Extras`. The
proofs are for any number.

### Intake: how rows come to be and are found again

Job A: `BeginCreate` reads the confirmed editions and the links,
`CheckFixture` looks for a row of the same pair in the edition (the pipeline's
or ours), `MoveMatch` moves one of ours or `InsertMatch` makes one, whose conflict
on `import_key` takes over the time and nothing else; `CreateFails` is a failing
statement. Job B: `BeginTick` retires rows of ours that were never played (or
fails to), `ReadBoard` reads the links, `KnownRow` finds the match of a board
row, `Ask` asks about the one unknown player of a row, and `Refused`,
`Unrecorded` and `Guessed` are how `tryResolve` ends. Beside them `LeaveLive`
(`FlipOut`), the pipeline (`Publish`, `Conclude`) and the person who reviews the
links and confirms the editions.

Abstractions: the two participants of a row are the set of its players, both
rows of `match_participants` assumed written (they are one transaction); a page
of fixtures and a board are met row by row, and nothing keeps the vendor from
listing a match under two ids; a name is what it fits (`Fits`), not its
letters. `Found` leaves out that the query asks for singles and for exactly two
participants, so it finds no less than the code does. `BackoffKept` is about
refusals on record: one whose recording failed (`Unrecorded`) has no backoff to
keep. Both keys of a board row may be linked to one player, and then a match
of his with anyone is found: `RaisedForItsPlayers` has that exception because
the query has it. Rounds that are not in the dictionary, qualifying and fixtures
without a time make no row and are left out.

### Quota: Job B and Job A against the vendor's quota

A step is one request with its attempts and their counts, or one statement.
`Request` counts before it sends, per attempt, as `Client.attempt` does; a count
that cannot be written is logged and lost. `NextPage`, `BoardRead`,
`BoardFails`, `LookUp`, `PlayerRead`, `PlayerFails`, `CloseCycle` are Job B;
`StartRefresh`, `BatchRead`, `BatchFails`, `WriteSchedule`, `CloseRefresh`,
`CloseFailedRefresh`, `ReconcileQuota` are Job A. `Elapse` moves
the clock and no job outlives `Timeout`, as the context of the scheduler has it.
`DecidePoll` decides on an instant read up to `Timeout` earlier: the clock is
read before the lock is taken and the tables are.

The table of runs is kept as what its queries read of it: sums of requests by
the day a run started, of those whose mode says `stale_safe`, the latest start
of a poll with requests, the latest end of a clean refresh, and the row under
way. The variables `sent`, `staleSent` and `polledAt` are not the program's:
they record what the vendor saw, and the properties compare the two.

Abstractions: the number of flags is any; whether a player is due again is open
(it is in `Intake`); a run that straddles midnight is charged, here as in the
queries, to the day it began, while the vendor may charge the next day (at most
one cycle per job); skipped runs, abandoned-run sweeps and pruning touch nothing
these queries read; which fixtures without a time (`Never`) are old enough to be
dropped, 48 hours in the code, is left open, since they open no window; the vendor
is assumed to list no fixture later than `WatchTail` after its slot; each job is
one process, because of its lock (two instances and the lock itself are in
`LivePoll`). `FinishRun` failing is a crash for Job B; for Job A, where the run
goes on, it is a branch of `CloseRefresh`.

### LivePush

`BeginTick` reads the clock and the sessions past their age, `ListSessions`,
`CloseUnsent`, `SendEnd` close sessions, `TakeLock`, `ClaimLiveEvents`,
`NextEvent`, `Recheck` (`MatchStillLive`), `ListAudience`, `OpenSession`,
`SendStart`, `ReleaseSlot`, `DropToken`, `Consume`, `FailEvent`; `StatementFails`
and `Crash` are the faults. Apple and the phone are external: a send is answered
`ok`, `lost` (delivered, answer lost), `refused` or `gone`. `cards` records what
was delivered: for which event, under which session, whether Apple said so. The
API's two token registrations run beside it, at any time: a follower may have no
device at first, or get one after the audience was read. The ingest side appears
as `Raise` and `Lower`, the two transactions of `LiveStore`, at strictly
increasing instants (`PeriodsOrdered` of `LivePoll` is what justifies that), and
the content pipeline as `Pipeline`: it may finish a row whose flag stands.
`reachable` is not the program's: it remembers the audience as `ListAudience` read
it, after `targets`, the list the pusher works off, has shrunk.

### Feed: the home screen and the widget

A request reads the clock once and then makes its queries, each a step:
`ReadRows` and `ReadToday` (`widgetRows`), `ReadNext` and `ReadLast`
(`fillSeason`); `LastFails` is the error that costs only the results. Beside it
`LiveStore`'s transactions, the pusher's `Consume`, Job A's `Prune`
(`PruneLiveTables`) and the pipeline that moves the dates (`Redate`).
`Upcoming` is the condition of `nextMatchPerPlayer` with
`notFinishedByIngest`, `Recent` that of `lastMatchPerPlayer`.

Abstractions: the matches of strangers are a boolean (some today or none);
follows are few enough that neither the widget's three rows nor the hundred
matches of the day are cut; upcoming tournaments are a constant (`Entered`); the
clocks of the pods and of the database are one; a request takes no longer than
`MaxRequest`, and `Grace + MaxRequest <= Retention` is the assumption
everything rests on: twelve hours and some seconds against seven days. What
`onShow` records is not the program's. The state `same_tournament`, the
roster, the tournaments block, the highlights and the wording are left out.

Three things the model shows and no property forbids, since nothing in the
repository promises otherwise: a row *without a date* that was seen to end is a
match to come again once its events are pruned; a live match is hidden behind an
earlier scheduled row of the same player that is still within the grace
(`order by scheduled_at`, where `nextMatchPerEdition` puts live rows first); and
a live match of yesterday's date does not count as "plays today", so the widget
may show strangers' matches (`split`) while a follow is on court.

### Bracket: the slice of a draw and the whole draw

A node is `<<depth, pos>>`. `Import`, `Finish`, `NextDay` are the tree as an
import that lags behind the results leaves it, with byes, rows that are missing,
sides that are not known yet and rounds without times. Over it, as operators:
`RelevantFollowed` (`relevantFollowed`, with its ranking), `FirstColumn`,
`Chosen` and `BuildBracketSlice`, with the note, the end node and the box that
opens; `FillDrawRound` and `Card` (`completeDrawCard`). Only the nodes a follow
can reach are kept.

Left out of the tree: rows that are completed without a winner, rows that are
cancelled, and rows whose time is changed. An import that lags is one whose later
rounds are missing or not filled in yet; the row of a match a player has behind
him is always there, but for his bye.

What the code does and a reader may not expect: `bracketNote` may speak of a
follow who is in no box of the slice; one row without a position, as Job A makes
them, switches the completion of the draw off; without a time an outcome stays
fresh for ever, so a player who is out keeps a slice. The synthetic ids of empty
boxes need fewer than a thousand matches a round, which is an assumption of the
module.

### The instances

`MCLivePoll`, `MCLivePush`, `MCQuota` name model values. `MCTables` holds an
instance of `Intake` and one of `Bracket`, `MCFeed` one of `LiveStore` and one of
`Feed`, each pair side by side in one run: the first state says which of the two
a behaviour is of (`part`), and the other keeps still. They share nothing.

## 3. The runs

Deadlock is checked everywhere but in `tables`, where a draw is over at some
point and the clock stops; elsewhere a tick, a clock or the pipeline can always
step.

| Run | Question | Bounds and why they suffice |
|---|---|---|
| `store` | `OutboxAgrees`, `ResultKept`, `ImplementsPeriods`; `EndedStaysOut`, `NobodyMissed`, `SplitMeansNobodyToday` | Two matches (one created by the service, whose prior status differs), any caller, three events: each transaction meets every state of the row the others leave. For the screens: a request over a match that is raised, put out, dated anew and has two events, beside another of the same follow that keeps still; a day of one tick, so that midnight falls into a request, and the tightest retention the assumption allows. |
| `poll_two` | `OnePollAtATime`, `PeriodsOrdered`, `AbsencesBounded`, `ThreeBoards` | Two instances, one of them killed at any step, failed runs and failed queries, four runs (one that raises, three absences, or a return in between), any interleaving of statements: the lock, abandoned runs and stale snapshots all occur. Boards list a match once (`PeriodsOrdered` needs it); twice is the next run's. |
| `poll_guard` | `ThreeBoards`, `CollapseEndsNothing` | One match, listed once or twice with different states, and up to three further rows of ours, so that the in-scope count of the last good run can be at the guard's threshold of three or above it and the next fall below half; in any cycle the count may be unreadable. Five runs: one that raises, two absences, a run that sees the match and fails, a third absence. |
| `poll_live` | `FlagsGoOut`, `ImplementsStore` | Everyone at once, on boards that may collapse, under fairness; polls stop early (`PollUntil`), the clock runs on past the age limit. |
| `push_cards` | `RetriesReachAll`, `RecheckIsExact` | Two pushers, two followers with or without a device, which may be registered at any time, two attempts, refusals and lost answers. Three events, so that a match is live twice, events of the earlier period wait in the queue and the card of the first period may still hold the slot when the second begins; a pipeline that finishes the row under a standing flag. No fault: the property speaks of none. |
| `push_ends` | `OneCardPerSession`, `SessionsEnd`, `OutOfTurnOnlyOnRetry` | Three events, so that a match is live twice; ages the clock reaches; two pushers, one fault, refusals and dead tokens; fairness. |
| `quota` | `QuotaTypeOK`, `DayBound`, `StaleBound`, `PollsWithinBudget`, `PollsSpaced` | A day and a half (a midnight is crossed), one retry, two pages, one unknown player, one fault: every way a request can be spent occurs within one cycle and the budget allows two cycles in a day. No fixtures; the windows have the next run. |
| `windows` | `WatchIsUnion`, `WindowsKept` | Two fixtures at two overlapping slots or without a time, two refreshes of two batches, whole or partial, late enough for pruning to bite; the poller beside them. |
| `tables` | Intake: `IntakeTypeOK`, `OwnPairsDistinct`, `CancelledIsFinal`, `MovesOwnMeeting`, `RaisedForItsPlayers`, `BackoffKept`, `CreatedRowsEnd`. Bracket: `BracketTypeOK`, `SliceOnCard`, `SliceWhilePlaying`, `DefaultShowsFollow`, `CouldMeetIsTrue`, `PendingIsOpen`, `SliceNeverTurnsBack` | Two players, three keys (one fits the wrong player), a meeting that the vendor lists twice, a row of the pipeline, a fault, four instants: every way a link and a row can disagree. Three follows in a draw of sixteen, who meet in the first round, in the quarter-finals or in the final; byes; rounds with and without times; a row without a position. |
| `remarks_lost` | `RemarksAgree` is violated | see Findings |
| `card_lost` | `ConsumedMeansSent` is violated | see Findings |
| `late_exit` | `ReconcileHasReason` is violated | see Findings |

What the less obvious properties say:

- `AbsencesBounded` and `ThreeBoards` count absences from the observations, not
  from `last_seen_run_id`: no card survives a third good board without the match,
  and none goes out before it. They count good boards since the last *good* board
  with the match. A run that read the match but failed before its flag was marked
  counts for nothing, so the good boards without the match before and after it
  add up to three: "in a row" (`derive.go:57`) is true of good boards, not of all.
- `CollapseEndsNothing`: no match goes out for being absent from a board that
  lost more than half of our rows since the last good one, but in a cycle whose
  query for that number failed. In such a cycle the guard is blind, as the code
  says itself, and the third absence on a broken board ends the match.
- `OneCardPerSession`: a follower with a card that Apple confirmed is sent no
  second one while the session of the first is open. It is a promise per
  session, not per live period: an end event out of turn, or the sweep by age,
  closes a session, and a retried `live` event then sends another card. A card
  whose answer was lost is not counted, since no code could know of it.
- `OutOfTurnOnlyOnRetry`: how an end event of the earlier period can put out a
  card of the later one. `RetryAfter` is one tick in the run, so most of the
  cases it meets there are events of one batch.
- `RetriesReachAll` is what remains of "only success consumes it" without
  crashes and dead tokens; with a crash it is false (`card_lost`). It speaks of
  the followers who had a device when the audience was last read: who registers
  the first one between that query and `ConsumeLiveEvent`, or later, gets no card
  for this period, since nothing asks for the audience again. Of the others one may
  be passed over for one reason: the end of an earlier period has not been pushed
  to him yet (it was refused, or comes later in the same batch), and his open
  session keeps him out of the audience (`not exists … ended_at is null`). When
  that end is pushed at last, the new period of the match has no card for him:
  its event was consumed. The code has no other memory of who is owed a card.
- `RecheckIsExact`: the status and two instants compared by `MatchStillLive`
  decide as the whole outbox and the row would. Two questions are in it: is the
  event the last transition announced, and has the pipeline finished the row while
  the flag stands, which no event says yet.
- `WindowsKept` speaks of fixtures that have a time. The upsert takes over a NULL,
  so the vendor can close a window by sending the fixture again without one.
- `PollsWithinBudget` speaks of what the vendor received, not of what was
  counted: at the moment a poll begins, all requests of both jobs of the day,
  also of runs failed, crashed or still under way, fit `quota - reserve - 2`, but
  for counts that could not be written.
- `DayBound`, `StaleBound`: hence Job B oversteps by one cycle at most, whose true
  cost is `(2 + unknown players) * attempts`, not the two the reserve of
  `maxPagesPerRun` suggests. With the defaults (100, 20, four attempts) a poll
  may begin at 78 requests and cost 8 for the board and 4 per unknown player,
  and Job A may come on top: "The quota cannot be overrun"
  (`docs/live-status-ingest.md:711`) holds thanks to the reserve in practice, not
  by construction.
- `OwnPairsDistinct`, `MovesOwnMeeting`: what the check by pair and the conflict
  on `import_key` together achieve while the links are corrected between them.
- `EndedStaysOut`: a dated match seen to end does not come back as a match to
  come, whether its event waits, is consumed or is pruned, even for a request
  whose clock reading is from before the pruning.
- `NobodyMissed`: the matches to come are read before the results, so a match
  that ends in between is seen by one of the two queries.
- `SliceOnCard`: the slice adds neighbours of its own accord, the whole draw is
  filled below its deepest round only; the two must agree on what is drawn. They
  do not in a draw whose only rows are semi-finals and the final: the slice shows
  both semi-finals, the card those with a row.
- `SliceNeverTurnsBack`: though players are dropped a day after they went out and
  rows come late, the first column never moves to an earlier round.
- `PendingIsOpen` asks for rounds with times, a day apart; without, the end node
  may be called pending although it was played.

Each property of each passing run has a mutant, a plausible bug in one mapped
definition, that makes TLC find it violated under the same configuration.
Mutated definitions stand before the ones they mutate and are marked as such.

Symmetry is used for instances, pushers, followers and fixtures where the run has
only invariants and action properties.

### Fairness

`PollFairSpec`: weak fairness of an instance's whole cycle, since the scheduler
starts the job on every tick and every statement has a timeout; strong fairness
of each `PutOut`, since that transaction may fail now and then but is retried on
every tick and does not fail for ever. No fetch ever needs to succeed.
`PushFairSpec`: weak fairness of a tick. `IntakeFairSpec` (in `tables`
`TablesSpec`): weak fairness of `BeginTick` and `EndTick`, the scheduler again,
and of `Answered`, since a request has a timeout; Job A, the pipeline and the
reviewers owe nothing. The other runs are safety only and assume none.

## 4. Findings

- **A rain delay can be lost** (`remarks_lost`). `applyAction` marks the flag
  suspended and announces it in two statements. If the second fails, the flag
  already says so and no later cycle sees a transition. The handoff document
  promises the event exactly once per transition.
- **A card can be lost** (`card_lost`). The slot (an open session) is taken
  before the push. A process that stops in between, or a `DeleteSession` that
  fails, leaves it taken; the retry finds no audience and consumes the event,
  though "only success consumes it".
- **A fresh card can be put out** (`late_exit`). `reconcile` gives two reasons for
  putting a card out: the match is no longer live, or has been for too long. Its
  lists are read before and outside the lock, and `FlipOut` asks only whether the
  match has a flag. Two instances, as during a deploy, list the same overdue flag;
  one puts it out, polls and raises the match again; the other puts out the fresh
  card. With one instance the same can befall an orphan that the pipeline sets live
  between the list and the transaction. The next poll raises the match again, so
  the followers see a card go and another come.

## 5. Proofs

All theorems are for every value of the constants that satisfies the assumption
of the module: any number of matches, players, instances, followers, faults. A
theorem that needs more says so in its ASSUME; those hypotheses are listed here
with what goes wrong without them. Each inductive invariant was checked by TLC on
the run of its properties before it was proved.

**`LiveStoreProofs`.** `StoreTypeCorrect`. `ResultIsKept`: no step takes a
completed match back; it needs the invariant `CompletedDecided` (a completed row
carries its winner), since `FlipLive` refuses by the winner, not by the status
alone. `OutboxAlwaysAgrees` and `FlagsAreAnnounced`: neither property is
inductive; `OutboxInv` adds, per match, that the last transition in the outbox is
the one the flag shows. `AppendAnnounces` says what appending an event does to
the transitions of a match; every transaction is then one of three cases (no
event, a remark, a transition). `StoreImplementsPeriods`: the store implements
`LivePeriods` if the pipeline cannot put a row back to `scheduled`
(`PipelineMovesOn`). The assumption is needed: a pipeline that does could make
the service raise a match whose flag still stands, and the period would open
twice. The poller's orphan sweep exists for exactly that case, and `poll_live`
runs with such a pipeline.

**`LivePollProofs`.** `PollInv` is the types and `OnePollAtATime` together: the
steps between the try-lock and the end of a cycle are taken by the holder of the
lock alone, and a crash frees it. Each step of an instance, of a replay, of the
dev endpoints or of the pipeline is a transaction of `LiveStore` or leaves its
tables alone; hence `PollImplementsStore`, and `PollKeepsResults` carries the
store's theorems over to every interleaving of pollers.

What a poller *knows* takes two more invariants.

- `MissInv`, for `AbsencesAreBounded`, `ExitTakesThree`, `CollapseIsNoExit`. Its
  core is the tie between what the code counts and what the boards showed:
  `last_seen_run_id` names a run that observed the match, no good run did so
  later (`TrueMarks`); the snapshot of a cycle tells the misses of every flag not
  yet marked, though other flags are being written (`TrueSnapshot`); the sweep
  leaves no flag behind that has missed three (`TrueSweep`); and the count the
  guard compares with is that of the last good run, unless the query for it failed
  (`OwnRun`). Hypothesis: no board is replayed (`Replays = {}`). A replay runs `Ingest` without the lock, and
  one that ends between the snapshot and the sweep of a poll is an absence that
  neither counts; TLC finds `AbsencesBounded` violated then.
- `ClockInv`, for `PeriodsAreOrdered`: every announcement was made under a run that
  asked the vendor, and before a cycle raises a match all that was announced of it
  is older than the cycle's reading of the clock. Hypotheses: no replays and no
  flips by hand (both announce without asking the vendor, so that nothing keeps
  them apart; with a replay TLC finds `PeriodsOrdered` violated); a distance between polls
  (`MinGap > 0`, the floor of `Decide`); boards that list a match once
  (`ListedOnce`), since a board that shows it finished and live would end and open
  a period at one instant.

**`LivePushProofs`.** `PushInv` has a part per table and `Places` and `Slots`:
past the sweep the holder of the lock is alone; the slot it holds while sending
is the only open session of that follower and match; the session of a confirmed
card is never the one that is given back. From it `PushTypeCorrect` and
`CardsPerSession`. `PushImplementsStore`: beside the ingest the pusher only reads
the store's tables. `RecheckDecides` needs more: the times of the outbox increase
(`OutboxOrder`), the store's `OutboxAgrees`, and `LastAnnounced`, that for a
standing flag there is a last transition, whatever the pipeline has made of the row.

`EndsInTurn` (any faults) rests on `TurnInv`: the claim goes by id and the lock
keeps batches apart, so when an event has been claimed, so has every earlier one,
and an event in hand for the first time has none behind it but its own batch
(`Hands`, `QueueOrder`). `RetriesReach` rests on `ReachInv`: while a live event is
in hand after its re-check, no end and no card of a later period has been settled
(`TurnFits`); without faults an open session is
being sent or has a card (`OpenAreCarded`), so that nobody is kept out of the
audience for nothing; and whoever of the audience (`reachable`) the event has not
reached is on the list of the pusher that holds it, unless the pusher has already
noted a failure (`NoneLeft`).

**`IntakeProofs`.** Two halves. `RowsKept`: whatever step is taken, a row keeps
its edition and its players, and a row of ours comes to be by `InsertMatch`
alone. `Relies`: what a job relies on between two statements (the fixture it
writes was known and confirmed, no other row of ours has its pair, the key it
asks about was due). The theorems follow: `OwnPairsAreDistinct`,
`OwnMeetingsAreMoved`, `CancelledStaysCancelled`, `PipelineRowsAreKept`,
`StartedRowsKeepTheirTime`, `EditionsAreConfirmed`, `ReviewsStand`,
`BackoffIsKept`, `RaisedForPlayers`. Check and insert are two steps here and one
transaction in the code; that no other row of ours slips in between rests on the
lock of Job A, which the model has as its being one process.

**`QuotaProofs`** (with `Bounds`). `QuotaInv` says what was counted of what was
sent: per day, the vendor got no more than the counts show and those that were
lost (`CountsFit`, `StaleCountsFit`), the last poll on record is the last there
was unless a count was lost (`PollsFit`), and a row under way is not one of the
sums yet (`RowsFit`). `BudgetKept` and `PollsApart` follow at the step that
decides: `DecidePoll` reads the clock earlier than the tables, and an old reading
sums over more days and sees less time passed, never the reverse. `DayBounded` and
`StaleBounded` add what a cycle may have cost so far, place by place (`DayFits`,
`StaleFits`). They need `Budget \in Nat`, a quota that leaves the reserve and a
board: with less, the governor's budget is negative, Job B never polls and the
bound may itself be below zero. Nothing in the configuration sees to it; the
defaults do. `WindowsStay` and `QuotaTypeCorrect` follow from `QuotaInv`.

`UnionWatched`: the scan of `WatchMinutes` over the sorted windows counts the union
of the windows, for any schedule. The loop invariant is `Scanned`: after `k` windows
`end` is the greatest end so far and `done` the size of what they cover. The sort is
`InOrder`, *some* sequence of the windows by opening time, because `sort.Slice` is
not stable and windows that open together come in either order.

Folds and sums are recursive functions over finite sets. The induction theorems of
the library take an operator and are out of reach, so `Bounds` argues by the
smallest counterexample: a set of finite sets has a member with no other inside it
(`SmallestSet`, from the well-foundedness of `<` on the cardinalities), and from it
come the existence of the fold (`FoldsExist`), that it keeps what each step keeps
(`FoldStays`), and that a sum of naturals is no less than its terms
(`SumBoundsParts`).

**`BracketProofs`** (with `Bounds`).
`SlicesAreTrees`, that no box of a slice is joined to one it does not feed, and
`SlicesAreOnCards`, for every tree an import can leave.
`SiblingsOfSiblings`: the code adds neighbours to the map it ranges over, so Go
may or may not visit them; as the neighbour of a neighbour is the match itself,
it makes no difference. `RanksAreOrdered`: the ranking of the follows is strict
and total, so the order of the rows does not matter.

What the slice says of a player rests on `TreeInv`: whoever stands in a node came
there from below (`SidesCame`), has won all that lies behind him but his bye
(`OnTheirWay`), who is drawn stands there from the first day (`DrawnStand`), and
no match is played before its day (`PlayedInTime`). From it `BracketTypeCorrect`,
`DefaultIsFollow`, `MeetingsAreOpen`, and `SliceMovesOn`: rows are added and
results stay, so the match in focus of a follow never moves to an earlier round,
and a follow who drops out takes none back. Two theorems have a
hypothesis. `PlayersAreShown` asks for more than two rounds or no byes: in a draw of
four with a bye somebody comes to the final without a match, and TLC shows that he
has no slice once the other follow's defeat has grown old. `PendingIsTrue` asks for
`Window <= 1`: outcomes are fresh no longer than rounds are apart, as
`relevanceWindow`'s 24 hours and rounds on different days are.

**`FeedProofs`.** `FeedImplementsStore`. `EndedStayOut` from `Fates` (an event is
consumed after it was written and `Gone` only when older than the retention),
`Clocks` (a request is never older than `MaxRequest`) and the assumption on
grace and retention. `NobodyIsMissed` from `Halfway`: between the two queries, a
follow without a next card has no match on show that is to come, so those left
are results. `SplitIsTrue` and `FeedTypeCorrect`.

Proved and not run, because a proof for all values needs no instance beside it:
the type invariants `StoreTypeOK`, `PollTypeOK`, `PushTypeOK`, `FeedTypeOK`, and
`FlagAnnounced`, `OnlyConfirmedEditions`, `PipelineRowsKept`,
`StartedKeepsTime`, `ReviewStands`, `SliceIsTree`. TLC had found each of them to
hold before it was proved.

Only model-checked: the liveness properties `FlagsGoOut`, `SessionsEnd` and
`CreatedRowsEnd`, whose fairness the prover cannot reason about. Of the
properties above with a hypothesis the runs check instances that satisfy it; with
replays and flips by hand (`poll_live`) only what holds there is checked. Every
other invariant and action property of a passing run is a theorem, and
`StoreImplementsPeriods`, `PollImplementsStore`, `PushImplementsStore` and
`FeedImplementsStore` are the refinements. No module here uses RECURSIVE.

## 6. Not modelled

The read-only API (players, tournaments, matches, roster, header, highlights),
the ranking of the featured match, users and follows (single statements), the
schema run at start-up, configuration, the stub updaters, parsing of the vendor's
answers and matching by name, panic recovery and shutdown of the scheduler, the
cache of the APNs signing key (a refusal, which `LivePush` has, is all that could
come of it), the review queue `live_unmatched` (written for a person to read), and
the pruning of the journals other than the events: what it deletes is weeks old,
closed or unused, and the queries of the jobs do not reach that far back.

Hazards without a property: which of its cards a late token belongs to
(`live_push.go:218`), since the code gives a card no identity to compare; the
live match hidden behind another (`feed.go:150`), described under Feed; and the mark
that a poll sets back beside a replay with a later id (`live_poll.go:198`): then runs
that saw the match count as absences, and nothing bounds that for the dev endpoint.

What is left: `OwnPairsDistinct` for two instances of Job A with its lock as a
variable; a bound on what replays can add to the absences; two rows per poll run
in `LivePoll`; the state `same_tournament` of the widget.

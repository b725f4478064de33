------------------------------- MODULE Intake -------------------------------
(***************************************************************************)
(* How rows of table matches come to be and are found again: Job A makes   *)
(* matches of the vendor's fixtures (updater/live/schedule.go,             *)
(* storage/live_create.go), Job B looks up players it does not know        *)
(* (tryResolve, storage/live_resolve.go), finds the row of a board and     *)
(* retires rows of ours that were never played (updater/live/poll.go).     *)
(*                                                                         *)
(* The two jobs run under locks of their own, so one process stands for    *)
(* each.  A step is one statement or one request.  The content pipeline    *)
(* and the person who reviews the mappings write beside them.  A page and  *)
(* a board are met a row at a time; nothing in the code keeps the vendor   *)
(* from naming a match twice.                                              *)
(***************************************************************************)
EXTENDS Integers, Sequences, FiniteSets

CONSTANTS Players,     \* rows of table players
          Keys,        \* the vendor's ids of players
          Fixtures,    \* the vendor's ids of matches
          KeysOf,      \* KeysOf[f]: the two keys a fixture names
          Tournaments, \* the vendor's ids of tournaments
          TournamentOf, \* the tournament of a fixture
          Editions,    \* our editions
          EditionOf,   \* the edition a tournament is mapped to
          PipelineKeys, \* import keys of the content pipeline
          Meetings,    \* the pairs whose matches it publishes
          Who,         \* who a key really is: a player, or Stranger
          Fits,        \* Fits[k]: the players the name of k may single out
          Stranger,    \* someone who is not in table players
          Reviewed,    \* keys a person linked before the start
          MaxClock,    \* the clock stops here
          StartTimes,  \* times a match may be set for
          TTL,         \* createdMatchTTL
          MatchWindow, \* LIVE_MATCH_WINDOW
          MaxResolves, \* LIVE_RESOLVE_MAX_PER_CYCLE
          Backoffs,    \* Backoffs[n]: the wait after n refusals
          MaxFaults,   \* failed statements and crashes explored
          NoRow, NoLink

VARIABLES clock,    \* the database clock, as the latest tick read it
          matches,  \* table matches by import_key, NoRow where there is none
          links,    \* table external_ids, the players
          confirmed, \* tournaments whose mapping a person confirmed
          tries,    \* table live_resolve_attempts
          faults,   \* how many faults so far
          pcA,      \* where Job A stands
          editions, \* the confirmed tournaments it read
          players,  \* the links it read
          draft,    \* the fixture it is writing, and its time
          existing, \* the row it found for the pair
          pcB,      \* where Job B stands
          resolved, \* the links it read
          looking,  \* the row whose unknown player it asks about
          successes \* res.Resolved

tables == <<matches, links, confirmed, tries>>
jobA == <<pcA, editions, players, draft, existing>>
jobB == <<pcB, resolved, looking, successes>>
vars == <<clock, tables, faults, jobA, jobB>>

ImportKeys == Fixtures \cup PipelineKeys
Times == 0..MaxClock
Status == {"scheduled", "live", "completed", "cancelled"}
Row == [edition : Editions, sides : SUBSET Players,
        at : StartTimes, status : Status]
Links == [Keys -> Players \cup {NoLink}]
Drafts == [fixture : Fixtures, at : StartTimes]
NoLinks == [k \in Keys |-> NoLink]

ASSUME IntakeAssumption ==
  /\ Fixtures \cap PipelineKeys = {}
  /\ KeysOf \in [Fixtures -> {{k, l} : k, l \in Keys}]
  /\ TournamentOf \in [Fixtures -> Tournaments]
  /\ EditionOf \in [Tournaments -> Editions]
  /\ Who \in [Keys -> Players \cup {Stranger}]
  /\ Fits \in [Keys -> SUBSET Players]
  /\ Stranger \notin Players
  /\ Meetings \subseteq {{p, q} : p, q \in Players}
  /\ Reviewed \subseteq Keys
  /\ \A k \in Reviewed : Who[k] \in Players
  /\ StartTimes \subseteq Nat
  /\ {MaxClock, TTL, MatchWindow, MaxResolves, MaxFaults} \subseteq Nat
  /\ Len(Backoffs) > 0
  /\ \A n \in 1..Len(Backoffs) : Backoffs[n] \in Nat
  /\ NoRow \notin Row \cup ImportKeys \cup Drafts
  /\ NoLink \notin Players \cup {Stranger}

-----------------------------------------------------------------------------
Fault == faults < MaxFaults /\ faults' = faults + 1

(* The rows of ours are those under a key with ImportKeyPrefix.            *)
Ours(k) == k \in Fixtures

Exists(k) == matches[k] # NoRow

Is(k, status) == Exists(k) /\ matches[k].status = status

Turn(ks, status) ==
  matches' = [k \in ImportKeys |->
                IF k \in ks THEN [matches[k] EXCEPT !.status = status]
                            ELSE matches[k]]

(* The keys of a fixture, as a reading of the links has them.              *)
Known(map, f) == \A k \in KeysOf[f] : map[k] # NoLink

Pair(map, f) == {map[k] : k \in KeysOf[f]}

-----------------------------------------------------------------------------
(* Job A: createMatches.                                                   *)

ResolveEditions == confirmed

(* Job A has its page and reads both mappings once.                        *)
BeginCreate ==
  /\ pcA = "idle"
  /\ editions' = ResolveEditions
  /\ players' = links
  /\ pcA' = "each"
  /\ UNCHANGED <<clock, tables, faults, draft, existing, jobB>>

(* A fixture of a main draw with a time; the others are left out.          *)
Creatable(f) == TournamentOf[f] \in editions /\ Known(players, f)

EditionOfFixture(f) == EditionOf[TournamentOf[f]]

(* Mutant of MatchesOf: one side will do.                                  *)
MatchesOfEither(f) ==
  {k \in ImportKeys : /\ Exists(k)
                      /\ matches[k].edition = EditionOfFixture(f)
                      /\ Pair(players, f) \cap matches[k].sides # {}}

(* Mutant of MatchesOf: only the row of this very fixture is looked for.   *)
MatchesOfKey(f) ==
  {k \in ImportKeys : /\ Exists(k)
                      /\ matches[k].edition = EditionOfFixture(f)
                      /\ k = f
                      /\ Pair(players, f) \subseteq matches[k].sides}

(* Any match of the two in the edition, whatever its round and status.     *)
MatchesOf(f) ==
  {k \in ImportKeys : /\ Exists(k)
                      /\ matches[k].edition = EditionOfFixture(f)
                      /\ Pair(players, f) \subseteq matches[k].sides}

Movable(k, t) == Ours(k) /\ matches[k].at # t /\ matches[k].status = "scheduled"

(* `limit 1` without an order: any of them.  A row that needs no new time  *)
(* is left alone.                                                          *)
CheckFixture(f, t) ==
  /\ pcA = "each"
  /\ Creatable(f)
  /\ \/ /\ MatchesOf(f) = {}
        /\ pcA' = "insert"
        /\ UNCHANGED existing
     \/ \E k \in MatchesOf(f) :
          /\ Movable(k, t)
          /\ pcA' = "move"
          /\ existing' = k
  /\ draft' = [fixture |-> f, at |-> t]
  /\ UNCHANGED <<clock, tables, faults, editions, players, jobB>>

FixtureDone == /\ pcA' = "each"
               /\ draft' = NoRow
               /\ existing' = NoRow
               /\ UNCHANGED <<editions, players>>

(* The update has the guard again: the row may have gone live or ended.    *)
MoveMatch ==
  /\ pcA = "move"
  /\ matches' = IF Movable(existing, draft.at)
                THEN [matches EXCEPT ![existing].at = draft.at] ELSE matches
  /\ FixtureDone
  /\ UNCHANGED <<clock, links, confirmed, tries, faults, jobB>>

NewRow == [edition |-> EditionOfFixture(draft.fixture),
           sides |-> Pair(players, draft.fixture),
           at |-> draft.at, status |-> "scheduled"]

(* Mutant of InsertMatch: the conflict rewrites the whole row.             *)
InsertMatchAfresh ==
  /\ pcA = "insert"
  /\ matches' = [matches EXCEPT ![draft.fixture] = NewRow]
  /\ FixtureDone
  /\ UNCHANGED <<clock, links, confirmed, tries, faults, jobB>>

(* On a conflict of import_key only the time is taken over: the row keeps  *)
(* its status and, by `on conflict do nothing`, its participants, even     *)
(* when a corrected link says they are others.                             *)
InsertMatch ==
  /\ pcA = "insert"
  /\ matches' = IF Exists(draft.fixture)
                THEN [matches EXCEPT ![draft.fixture].at = draft.at]
                ELSE [matches EXCEPT ![draft.fixture] = NewRow]
  /\ FixtureDone
  /\ UNCHANGED <<clock, links, confirmed, tries, faults, jobB>>

RestA == /\ pcA' = "idle"
         /\ editions' = {}
         /\ players' = NoLinks
         /\ draft' = NoRow
         /\ existing' = NoRow

EndCreate ==
  /\ pcA = "each"
  /\ RestA
  /\ UNCHANGED <<clock, tables, faults, jobB>>

(* A statement fails or the process stops: the transaction of the fixture  *)
(* is rolled back and the rest of the page is left to the next run.        *)
CreateFails ==
  /\ pcA \in {"move", "insert"}
  /\ Fault
  /\ RestA
  /\ UNCHANGED <<clock, tables, jobB>>

-----------------------------------------------------------------------------
(* Job B: the tick, with the retirement that comes before everything else. *)

(* Mutant of Retirable: only the rows that have just become so.            *)
RetirableNow(t) ==
  {k \in ImportKeys : Ours(k) /\ Is(k, "scheduled") /\ matches[k].at + TTL + 1 = t}

(* A row of ours that is scheduled carries no flag (LiveStore).            *)
Retirable(t) ==
  {k \in ImportKeys : Ours(k) /\ Is(k, "scheduled") /\ matches[k].at + TTL < t}

ReadClock == clock' = IF clock < MaxClock THEN clock + 1 ELSE clock

BeginTick ==
  /\ pcB = "idle"
  /\ ReadClock
  /\ \/ Turn(Retirable(clock'), "cancelled") /\ UNCHANGED faults
     \/ Fault /\ UNCHANGED matches
  /\ pcB' = "tick"
  /\ UNCHANGED <<links, confirmed, tries, jobA, resolved, looking, successes>>

(* The tick polls nothing, has seen the whole board, or breaks off.        *)
EndTick ==
  /\ pcB \in {"tick", "rows"}
  /\ pcB' = "idle"
  /\ resolved' = NoLinks
  /\ looking' = NoRow
  /\ successes' = 0
  /\ UNCHANGED <<clock, tables, faults, jobA>>

ReadBoard ==
  /\ pcB = "tick"
  /\ resolved' = links
  /\ pcB' = "rows"
  /\ UNCHANGED <<clock, tables, faults, jobA, looking, successes>>

(* Mutant of Found: a match of either player.                              *)
FoundEither(pair, t) ==
  {k \in ImportKeys : /\ Is(k, "scheduled") \/ Is(k, "live")
                      /\ matches[k].at \in (t - MatchWindow)..(t + MatchWindow)
                      /\ pair \cap matches[k].sides # {}}

(* FindMatchByPlayers, around the time of the fixture or, without one, now.*)
(* The code also wants a singles match with just two participants: here all*)
(* are, so that no row is spared for another reason.                       *)
Found(pair, t) ==
  {k \in ImportKeys : /\ Is(k, "scheduled") \/ Is(k, "live")
                      /\ matches[k].at \in (t - MatchWindow)..(t + MatchWindow)
                      /\ pair \subseteq matches[k].sides}

(* Exactly one row, or none is touched; FlipLive raises a scheduled one.   *)
Raise(pair, t) ==
  Turn({k \in ImportKeys : Found(pair, t) = {k} /\ Is(k, "scheduled")}, "live")

KnownRow(f, t) ==
  /\ pcB = "rows"
  /\ Known(resolved, f)
  /\ Raise(Pair(resolved, f), t)
  /\ UNCHANGED <<clock, links, confirmed, tries, faults, jobA, jobB>>

(* A row with one side unknown; with both unknown it is none of ours.      *)
Missing(f) == {k \in KeysOf[f] : resolved[k] = NoLink}

MissingKey(f) == CHOOSE k \in KeysOf[f] : k \in Missing(f)

(* ShouldTryResolve.                                                       *)
Backoff(n) == Backoffs[IF n <= Len(Backoffs) THEN n ELSE Len(Backoffs)]

(* Mutant of Due: the wait of the first refusal, for ever.                 *)
DueSoon(k) == tries[k].attempts > 0 => clock - tries[k].last >= Backoff(1)

Due(k) ==
  tries[k].attempts > 0 => clock - tries[k].last >= Backoff(tries[k].attempts)

(* Mutant of Ask: the limit of a cycle is not looked at.                   *)
AskOn(f) ==
  /\ pcB = "rows"
  /\ Cardinality(Missing(f)) = 1
  /\ Due(MissingKey(f))
  /\ looking' = f
  /\ pcB' = "answer"
  /\ UNCHANGED <<clock, tables, faults, jobA, resolved, successes>>

Ask(f) ==
  /\ pcB = "rows"
  /\ Cardinality(Missing(f)) = 1
  /\ successes < MaxResolves
  /\ Due(MissingKey(f))
  /\ looking' = f
  /\ pcB' = "answer"
  /\ UNCHANGED <<clock, tables, faults, jobA, resolved, successes>>

LookedUp == looking' = NoRow /\ pcB' = "rows" /\ UNCHANGED resolved

(* The request failed, or the name fits nobody, or more than one player:   *)
(* RecordResolveAttempt, if the statement goes through, which is not       *)
(* looked at.                                                              *)
Refused ==
  /\ pcB = "answer"
  /\ \/ /\ tries' = [tries EXCEPT ![MissingKey(looking)] =
                       [attempts |-> @.attempts + 1, last |-> clock]]
        /\ UNCHANGED faults
     \/ Fault /\ UNCHANGED tries
  /\ LookedUp
  /\ UNCHANGED <<clock, matches, links, confirmed, jobA, successes>>

(* The gender of the known side, or the write of the link, fails: nothing  *)
(* is recorded, and the next row asks again.                               *)
Unrecorded ==
  /\ pcB = "answer"
  /\ Fault
  /\ LookedUp
  /\ UNCHANGED <<clock, tables, jobA, successes>>

(* `on conflict do nothing`.                                               *)
UpsertPlayerMapping(k, p) ==
  links' = IF links[k] = NoLink THEN [links EXCEPT ![k] = p] ELSE links

(* Exactly one player fits the name; who that is, if anyone, depends on    *)
(* whom the pipeline has put into table players.  The row goes on with the *)
(* guess, not with what the table says, and `resolved` is not told.        *)
Guessed(t) ==
  /\ pcB = "answer"
  /\ \E p \in Fits[MissingKey(looking)] :
       /\ UpsertPlayerMapping(MissingKey(looking), p)
       /\ Raise(Pair([resolved EXCEPT ![MissingKey(looking)] = p], looking), t)
  /\ successes' = successes + 1
  /\ LookedUp
  /\ UNCHANGED <<clock, confirmed, tries, faults, jobA>>

(* FlipOut: a row of ours ends as cancelled, one of the pipeline as it was.*)
LeaveLive(k) ==
  /\ Is(k, "live")
  /\ Turn({k}, IF Ours(k) THEN "cancelled" ELSE "scheduled")
  /\ UNCHANGED <<clock, links, confirmed, tries, faults, jobA, jobB>>

-----------------------------------------------------------------------------
(* Beside the jobs.                                                        *)

(* The pipeline publishes a match, under a key of its own, without looking *)
(* at ours, and writes its result.                                         *)
Publish(k, edition, meeting, t) ==
  /\ ~Exists(k)
  /\ matches' = [matches EXCEPT ![k] = [edition |-> edition, sides |-> meeting,
                                        at |-> t, status |-> "scheduled"]]
  /\ UNCHANGED <<clock, links, confirmed, tries, faults, jobA, jobB>>

Conclude(k) ==
  /\ Is(k, "scheduled") \/ Is(k, "live")
  /\ Turn({k}, "completed")
  /\ UNCHANGED <<clock, links, confirmed, tries, faults, jobA, jobB>>

(* A person reviews the guess of a key, or the mapping of a tournament.    *)
ReviewLink(k) ==
  /\ links' = [links EXCEPT ![k] = IF Who[k] = Stranger THEN NoLink ELSE Who[k]]
  /\ UNCHANGED <<clock, matches, confirmed, tries, faults, jobA, jobB>>

ConfirmEdition(t) ==
  /\ confirmed' = confirmed \cup {t}
  /\ UNCHANGED <<clock, matches, links, tries, faults, jobA, jobB>>

-----------------------------------------------------------------------------
IntakeInit ==
  /\ clock = 0
  /\ matches = [k \in ImportKeys |-> NoRow]
  /\ links = [k \in Keys |-> IF k \in Reviewed THEN Who[k] ELSE NoLink]
  /\ confirmed = {}
  /\ tries = [k \in Keys |-> [attempts |-> 0, last |-> 0]]
  /\ faults = 0
  /\ pcA = "idle"
  /\ editions = {}
  /\ players = NoLinks
  /\ draft = NoRow
  /\ existing = NoRow
  /\ pcB = "idle"
  /\ resolved = NoLinks
  /\ looking = NoRow
  /\ successes = 0

Create == \/ BeginCreate \/ EndCreate \/ CreateFails
          \/ \E f \in Fixtures, t \in StartTimes : CheckFixture(f, t)
          \/ MoveMatch \/ InsertMatch

Poll == \/ BeginTick \/ EndTick \/ ReadBoard
        \/ \E f \in Fixtures : \/ Ask(f)
                               \/ \E t \in StartTimes \cup {clock} : KnownRow(f, t)
        \/ Refused \/ Unrecorded
        \/ \E t \in StartTimes \cup {clock} : Guessed(t)

IntakeNext ==
  \/ Create
  \/ Poll
  \/ \E k \in ImportKeys : LeaveLive(k)
  \/ \E k \in PipelineKeys :
       \/ \E e \in Editions, p \in Meetings, t \in StartTimes : Publish(k, e, p, t)
       \/ Conclude(k)
  \/ \E k \in Keys : ReviewLink(k)
  \/ \E t \in Tournaments : ConfirmEdition(t)

IntakeSpec == IntakeInit /\ [][IntakeNext]_vars

-----------------------------------------------------------------------------
IntakeTypeOK ==
  /\ clock \in Times
  /\ matches \in [ImportKeys -> Row \cup {NoRow}]
  /\ links \in Links /\ players \in Links /\ resolved \in Links
  /\ confirmed \subseteq Tournaments /\ editions \subseteq Tournaments
  /\ tries \in [Keys -> [attempts : Nat, last : Times]]
  /\ faults \in 0..MaxFaults
  /\ pcA \in {"idle", "each", "move", "insert"}
  /\ draft \in IF pcA \in {"move", "insert"} THEN Drafts ELSE {NoRow}
  /\ existing \in IF pcA = "move" THEN ImportKeys ELSE {NoRow}
  /\ pcB \in {"idle", "tick", "rows", "answer"}
  /\ looking \in IF pcB = "answer" THEN Fixtures ELSE {NoRow}
  /\ successes \in 0..MaxResolves

(* A meeting has one row of ours in an edition, whatever ids the vendor    *)
(* gives it, however its keys are linked and corrected and whatever the    *)
(* pipeline publishes between the check and the insert                     *)
(* (CreateMatchFromFixture, checks 2 and 4).                               *)
OwnPairsDistinct ==
  \A f, g \in Fixtures :
    /\ f # g
    /\ Exists(f) /\ Exists(g)
    /\ matches[f].edition = matches[g].edition
    => matches[f].sides # matches[g].sides

(* No row is made on a guess about the draw: the tournament of every row   *)
(* of ours was confirmed to be its edition (ResolveEditions).              *)
OnlyConfirmedEditions ==
  \A f \in Fixtures :
    Exists(f) => /\ TournamentOf[f] \in confirmed
                 /\ matches[f].edition = EditionOfFixture(f)

(* "A row of the pipeline we never touch": whatever the jobs do, a row the *)
(* pipeline published keeps its players and its time and is not cancelled  *)
(* (CreateMatchFromFixture, RetireCreatedMatches, FlipOut).                *)
PipelineRowsKept ==
  [][\A k \in PipelineKeys :
       Exists(k) => /\ matches'[k].sides = matches[k].sides
                    /\ matches'[k].at = matches[k].at
                    /\ matches'[k].status # "cancelled"]_vars

(* A row of ours that has been retired, or has been live and went out, is  *)
(* at its end: no later fixture, corrected link or conflict on import_key  *)
(* makes it someone's next match again (RetireCreatedMatches, FlipOut,     *)
(* CreateMatchFromFixture).                                                *)
CancelledIsFinal ==
  [][\A f \in Fixtures :
       Is(f, "cancelled") => Exists(f)' /\ matches'[f].status = "cancelled"]_vars

(* Job A moves the time of a row of ours only for the fixture it was made  *)
(* for or for a fixture whose players, as it read them, stand in the row,  *)
(* however the links were corrected since (CreateMatchFromFixture).        *)
MovesOwnMeeting ==
  [][\A f \in Fixtures :
       Exists(f) /\ matches'[f].at # matches[f].at =>
         f = draft.fixture \/ Pair(players, draft.fixture) \subseteq matches[f].sides]_vars

(* A row of ours whose match is being played or is over keeps the time it  *)
(* was found by, unless its fixture now names a pair without a row in the  *)
(* edition: a link was corrected, and the conflict takes the time over.    *)
StartedKeepsTime ==
  [][\A f \in Fixtures :
       Exists(f) /\ matches[f].status # "scheduled" =>
         \/ matches'[f].at = matches[f].at
         \/ /\ f = draft.fixture
            /\ ~(Pair(players, f) \subseteq matches[f].sides)]_vars

(* A person's answer stands: the guess of a request that was on its way    *)
(* while the key was reviewed does not replace it (UpsertPlayerMapping).   *)
ReviewStands ==
  [][\A k \in Keys : links[k] = Who[k] => links'[k] = Who[k]]_vars

(* The links a board row may be judged by: as they were read at the start  *)
(* of the cycle, or guessed for this row.                                  *)
LinksUsed(f) ==
  {used \in [KeysOf[f] -> Players] :
     \A k \in KeysOf[f] : IF resolved[k] # NoLink THEN used[k] = resolved[k]
                                                  ELSE used[k] \in Fits[k]}

(* A card for the wrong match is always the doing of a wrong link: a row   *)
(* is raised for a board row whose keys were linked to the two players of  *)
(* it, or both of them to one: then any match of his will do, since nothing*)
(* keeps a name from fitting the player it plays against                   *)
(* (FindMatchByPlayers, tryResolve).                                       *)
RaisedForItsPlayers ==
  [][\A k \in ImportKeys :
       Is(k, "scheduled") /\ matches'[k].status = "live" =>
         \E f \in Fixtures : \E used \in LinksUsed(f) :
           \/ Pair(used, f) = matches[k].sides
           \/ \E p \in matches[k].sides : Pair(used, f) = {p}]_vars

(* The vendor is asked in vain about a key only after the wait that the    *)
(* refusals on record call for, however many rows and boards name it       *)
(* (ShouldTryResolve, RecordResolveAttempt).  A refusal whose recording    *)
(* failed, which the code only logs, is not among them.                    *)
BackoffKept ==
  [][\A k \in Keys :
       tries'[k] # tries[k] /\ tries[k].attempts > 0 =>
         tries'[k].last - tries[k].last >= Backoff(tries[k].attempts)]_vars

Answered == Refused \/ \E t \in StartTimes \cup {clock} : Guessed(t)

(* The ticks come, and a board ends: the scheduler runs Job B on every     *)
(* tick, switch or no switch, and a request has a timeout.                 *)
IntakeFairSpec ==
  /\ IntakeSpec
  /\ WF_vars(BeginTick) /\ WF_vars(EndTick)
  /\ WF_vars(Answered)

(* A row of ours that its time has left behind before the clock stops.      *)
Overdue(f) == Is(f, "scheduled") /\ matches[f].at + TTL < MaxClock

(* Matches that were made of fixtures and never played do not stay anyone's*)
(* next match for ever, whatever happens to the vendor, to Job A and to the*)
(* switches, and though a retirement may fail (RetireCreatedMatches).      *)
CreatedRowsEnd ==
  (\E f \in Fixtures : Overdue(f)) ~> (\A f \in Fixtures : ~Overdue(f))
=============================================================================

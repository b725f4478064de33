------------------------------ MODULE LiveStore ------------------------------
(***************************************************************************)
(* The tables the live pipeline shares and the transactions on them        *)
(* (internal/storage/live.go, live_poll.go, live_create.go).  Each action  *)
(* is one committed transaction; who calls it, and with which clock        *)
(* reading, is left to the modules that extend this one.                   *)
(*                                                                         *)
(*   status, decided   columns status and winner_side of table matches     *)
(*   flags             table live_flags, NoFlag where there is no row      *)
(*   events            table live_events, the outbox, in id order          *)
(***************************************************************************)
EXTENDS Integers, Sequences, FiniteSets

CONSTANTS Matches,          \* rows of table matches
          Created,          \* those this service inserted from a fixture
          PipelineStatuses, \* the statuses the content pipeline may write
          Times,            \* clock readings
          RunIds,           \* ids of live_ingest_runs; 0 stands for NULL
          NoFlag            \* no row in live_flags

VARIABLES status, decided, flags, events

storeVars == <<status, decided, flags, events>>

Status == {"scheduled", "live", "completed", "cancelled"}

Api == "livetennisapi"

Flag == [source    : {Api, "dev"},
         state     : {"on_court", "suspended"},
         prior     : {"scheduled", "cancelled"},
         flippedAt : Times,
         lastSeen  : RunIds]

Event == [match : Matches,
          kind  : {"live", "finished", "suspended", "resumed"},
          at    : Times]

ASSUME StoreAssumption ==
  /\ Created \subseteq Matches
  /\ PipelineStatuses \subseteq Status
  /\ Times \subseteq Nat
  /\ RunIds \subseteq Nat
  /\ NoFlag \notin Flag
  /\ NoFlag \notin Times

-----------------------------------------------------------------------------
EventOf(m, kind, at) == [match |-> m, kind |-> kind, at |-> at]

(* Mutant of CanRaise: the second call for a live match is not refused.    *)
CanRaiseTwice(m) == status[m] \in {"scheduled", "live"} /\ ~decided[m]

(* The guard of FlipLive, read under the row lock.                         *)
CanRaise(m) == status[m] = "scheduled" /\ ~decided[m]

(* A row created from a fixture must not come back as a scheduled match in *)
(* the past, so the status to restore is chosen when the flag is raised.   *)
PriorStatus(m) == IF m \in Created THEN "cancelled" ELSE "scheduled"

NewFlag(m, source, run, at) ==
  [source |-> source, state |-> "on_court", prior |-> PriorStatus(m),
   flippedAt |-> at, lastSeen |-> run]

(* One transaction: status, flag (upsert) and outbox row, or nothing at    *)
(* all when the match is already live or the guard refuses it.             *)
FlipLive(m, source, run, at) ==
  /\ \/ /\ CanRaise(m)
        /\ status' = [status EXCEPT ![m] = "live"]
        /\ flags' = [flags EXCEPT ![m] = NewFlag(m, source, run, at)]
        /\ events' = Append(events, EventOf(m, "live", at))
     \/ /\ ~CanRaise(m)
        /\ UNCHANGED <<status, flags, events>>
  /\ UNCHANGED decided

(* Mutant of FlipOut: the status is restored whatever it is by now.        *)
FlipOutBlind(m, at) ==
  /\ flags[m] # NoFlag
  /\ status' = [status EXCEPT ![m] = flags[m].prior]
  /\ flags' = [flags EXCEPT ![m] = NoFlag]
  /\ events' = Append(events, EventOf(m, "finished", at))
  /\ UNCHANGED decided

(* Mutant of FlipOut: nothing is announced for a row the pipeline took.    *)
FlipOutSilent(m, at) ==
  /\ flags[m] # NoFlag
  /\ status' = [status EXCEPT ![m] = IF @ = "live" THEN flags[m].prior ELSE @]
  /\ flags' = [flags EXCEPT ![m] = NoFlag]
  /\ events' = IF status[m] = "live"
               THEN Append(events, EventOf(m, "finished", at)) ELSE events
  /\ UNCHANGED decided

(* One transaction: the status is restored only if the row is still live,  *)
(* the flag is deleted and the event written in any case.                  *)
FlipOut(m, at) ==
  /\ \/ /\ flags[m] # NoFlag
        /\ status' = [status EXCEPT ![m] = IF @ = "live" THEN flags[m].prior
                                                         ELSE @]
        /\ flags' = [flags EXCEPT ![m] = NoFlag]
        /\ events' = Append(events, EventOf(m, "finished", at))
     \/ /\ flags[m] = NoFlag
        /\ UNCHANGED <<status, flags, events>>
  /\ UNCHANGED decided

(* A single UPDATE: no row, no effect.                                     *)
MarkFlagSeen(m, run, state) ==
  /\ flags' = IF flags[m] = NoFlag THEN flags
              ELSE [flags EXCEPT ![m].lastSeen = run, ![m].state = state]
  /\ UNCHANGED <<status, decided, events>>

AppendLiveEvent(m, kind, at) ==
  /\ events' = Append(events, EventOf(m, kind, at))
  /\ UNCHANGED <<status, decided, flags>>

(* The rows of ours that are scheduled and carry no flag; whether the date *)
(* of such a row has passed is not modelled, so any of them may have.      *)
Retirable == {m \in Created : status[m] = "scheduled" /\ flags[m] = NoFlag}

RetireCreatedMatches(old) ==
  /\ status' = [m \in Matches |-> IF m \in old \cap Retirable
                                  THEN "cancelled" ELSE status[m]]
  /\ UNCHANGED <<decided, flags, events>>

(* The content pipeline owns the row: it moves the status as it likes and  *)
(* is done with the match once a result is written.                        *)
PipelineWrites(m, s, winner) ==
  /\ ~decided[m]
  /\ s = "completed" => winner
  /\ status' = [status EXCEPT ![m] = s]
  /\ decided' = [decided EXCEPT ![m] = winner]
  /\ UNCHANGED <<flags, events>>

-----------------------------------------------------------------------------
(* Any caller, in any order, with any reading of the clock.                *)
StoreInit ==
  /\ decided \in [Matches -> BOOLEAN]
  /\ status = [m \in Matches |-> IF decided[m] THEN "completed"
                                               ELSE "scheduled"]
  /\ flags = [m \in Matches |-> NoFlag]
  /\ events = <<>>

StoreNext ==
  \E m \in Matches :
    \/ \E source \in {Api, "dev"}, run \in RunIds, at \in Times :
         FlipLive(m, source, run, at)
    \/ \E at \in Times : FlipOut(m, at)
    \/ \E run \in RunIds, state \in {"on_court", "suspended"} :
         MarkFlagSeen(m, run, state)
    \/ \E kind \in {"suspended", "resumed"}, at \in Times :
         AppendLiveEvent(m, kind, at)
    \/ \E old \in SUBSET Created : RetireCreatedMatches(old)
    \/ \E s \in PipelineStatuses, winner \in BOOLEAN :
         PipelineWrites(m, s, winner)

StoreSpec == StoreInit /\ [][StoreNext]_storeVars

-----------------------------------------------------------------------------
StoreTypeOK ==
  /\ status \in [Matches -> Status]
  /\ decided \in [Matches -> BOOLEAN]
  /\ flags \in [Matches -> Flag \cup {NoFlag}]
  /\ events \in Seq(Event)

Transitions(m) == {k \in DOMAIN events : /\ events[k].match = m
                                         /\ events[k].kind \in {"live", "finished"}}

(* The outbox and the flags never disagree: a match carries a flag exactly *)
(* when the last transition announced for it is `live`, and the flag was   *)
(* raised at the very instant that announcement bears.  A crash between    *)
(* the writes of FlipLive or FlipOut, or a write that one of them forgets, *)
(* would lose a push or send one for a transition that never happened.     *)
OutboxAgrees ==
  \A m \in Matches :
    \A k \in Transitions(m) :
      (\A j \in Transitions(m) : j <= k) =>
        IF flags[m] = NoFlag
        THEN events[k].kind = "finished"
        ELSE events[k].kind = "live" /\ events[k].at = flags[m].flippedAt

(* No flag without an announcement: the part of OutboxAgrees that speaks   *)
(* of a match nothing was ever announced for.                              *)
FlagAnnounced == \A m \in Matches : flags[m] # NoFlag => Transitions(m) # {}

(* A result the pipeline has written is never overwritten: FlipLive only   *)
(* leaves `scheduled`, FlipOut only `live`, the retirement only            *)
(* `scheduled`, whatever was read before the pipeline's write.             *)
ResultKept ==
  [][\A m \in Matches : status[m] = "completed" => status'[m] = "completed"]_storeVars

Periods == INSTANCE LivePeriods
             WITH NotLive <- NoFlag,
                  since <- [m \in Matches |-> IF flags[m] = NoFlag THEN NoFlag
                                              ELSE flags[m].flippedAt],
                  feed <- events

(* As long as the pipeline does not put a row this service holds live back *)
(* to `scheduled`, the outbox is a well-formed feed of live periods:       *)
(* `live` and `finished` alternate for every match.                        *)
ImplementsPeriods == Periods!PeriodsSpec
=============================================================================

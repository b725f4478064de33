------------------------------ MODULE LivePush ------------------------------
(***************************************************************************)
(* The pusher (internal/updater/live/push.go and                           *)
(* internal/storage/live_push.go): the only consumer of the outbox.  It    *)
(* turns a `live` event into a card on the phone of every follower and a   *)
(* `finished` event into its end, through Apple's push service.            *)
(*                                                                         *)
(* The ingest side appears as the two transactions of LiveStore that write *)
(* to the outbox, at clock readings of their own, and the content pipeline *)
(* writes the rows beside them.  A step of a pusher is one statement or    *)
(* one request; what Apple and the phones do is external.                  *)
(***************************************************************************)
EXTENDS LiveStore, FiniteSetsExt

CONSTANTS Users,         \* followers of the matches
          Pushers,       \* instances of the service
          MaxTokens,     \* device tokens a user may have registered
          MaxAttempts,   \* PUSH_MAX_ATTEMPTS
          BatchSize,     \* PUSH_BATCH_SIZE
          RetryAfter,    \* PUSH_RETRY_AFTER
          MaxSessionAge, \* PUSH_MAX_SESSION_AGE; 0 is "never"
          PushEnabled,   \* PUSH_ENABLED
          Answers,       \* what a send may come to, see Answer
          Gaps,          \* how far the clock may move between two readings
          MaxClock,      \* the clock stops here
          MaxEvents,     \* longest outbox explored
          MaxFaults,     \* failed statements and crashes explored
          Never,         \* NULL in a time column
          NoToken,       \* NULL in update_token
          Free           \* the push lock is not held

VARIABLES clock,    \* the database clock at its latest reading
          claimed,  \* live_events.claimed_at
          attempts, \* live_events.attempts
          consumed, \* the events whose consumed_at is not null
          sessions, \* table live_activity_sessions, in id order
          devices,  \* how many device_push_tokens a user has
          cards,    \* what Apple was told to show, oldest first; external
          lock,     \* who holds the advisory lock LiveLockPush
          faults,   \* how many faults so far
          pc,       \* where each pusher stands
          now,      \* its reading of the clock
          batch,    \* claimed events it has not come to yet
          event,    \* the event being handled
          targets,  \* users it still has to start a card for
          reachable,\* who had a device when it read the audience; auxiliary,
                    \* no step depends on it
          closing,  \* sessions it still has to close, as it read them
          slot,     \* the session opened for the push being sent
          failed    \* whether a push of this event has failed

tables == <<claimed, attempts, consumed, sessions, devices>>
localPush == <<pc, now, batch, event, targets, reachable, closing, slot, failed>>
pushVars == <<storeVars, clock, tables, cards, lock, faults, localPush>>

(* Delivered, but the answer was lost; refused for now (429, 5xx, 403,     *)
(* BadDeviceToken, a timeout); the token is dead (410 Unregistered).       *)
Answer == {"ok", "lost", "refused", "gone"}

ASSUME PushAssumption ==
  /\ IsFiniteSet(Users)
  /\ Free \notin Pushers
  /\ {MaxTokens, MaxAttempts, BatchSize, RetryAfter, MaxSessionAge} \subseteq Nat
  /\ {MaxClock, MaxEvents, MaxFaults} \subseteq Nat
  /\ PushEnabled \in BOOLEAN
  /\ Answers \subseteq Answer
  /\ Gaps \subseteq Nat \ {0}
  /\ Times = 0..MaxClock
  /\ 0 \in RunIds
  /\ Never \notin Times
  /\ NoToken \notin Nat

-----------------------------------------------------------------------------
ReadClock(gap) ==
  clock' = IF clock + gap <= MaxClock THEN clock + gap ELSE MaxClock

Fault == faults < MaxFaults /\ faults' = faults + 1

(* Queries.                                                                *)

OpenFor(u, m) == {s \in DOMAIN sessions : /\ sessions[s].state = "open"
                                          /\ sessions[s].user = u
                                          /\ sessions[s].match = m}

(* A session as a query returns it.                                        *)
ReadSession(s) == [id |-> s, token |-> sessions[s].token]

StaleSessions(t) ==
  {ReadSession(s) : s \in {x \in DOMAIN sessions :
                             /\ sessions[x].state = "open"
                             /\ MaxSessionAge > 0
                             /\ sessions[x].startedAt < t - MaxSessionAge}}

OpenSessionsForMatch(m) ==
  {ReadSession(s) : s \in {x \in DOMAIN sessions :
                             sessions[x].state = "open" /\ sessions[x].match = m}}

(* Mutant of MatchStillLive: any period of the match will do.              *)
MatchLiveAtAll(k) ==
  LET m == events[k].match IN status[m] = "live" /\ flags[m] # NoFlag

(* And another: the flag alone is asked, not what the row says by now.     *)
FlagStillUp(k) ==
  LET m == events[k].match
  IN  flags[m] # NoFlag /\ flags[m].flippedAt <= events[k].at

MatchStillLive(k) ==
  LET m == events[k].match
  IN  /\ status[m] = "live"
      /\ flags[m] # NoFlag
      /\ flags[m].flippedAt <= events[k].at

StartAudience(m) == {u \in Users : devices[u] > 0 /\ OpenFor(u, m) = {}}

Claimable(t) == {k \in DOMAIN events :
                   /\ k \notin consumed
                   /\ attempts[k] < MaxAttempts
                   /\ claimed[k] = Never \/ claimed[k] < t - RetryAfter}

(* `order by id limit $1`.                                                 *)
FirstOf(S) == {k \in S : Cardinality({j \in S : j < k}) < BatchSize}

-----------------------------------------------------------------------------
(* Process bookkeeping.                                                    *)

Goto(i, to) == pc' = [pc EXCEPT ![i] = to]

Rest(i) == /\ Goto(i, "idle")
           /\ now' = [now EXCEPT ![i] = 0]
           /\ batch' = [batch EXCEPT ![i] = {}]
           /\ event' = [event EXCEPT ![i] = 0]
           /\ targets' = [targets EXCEPT ![i] = {}]
           /\ reachable' = [reachable EXCEPT ![i] = {}]
           /\ closing' = [closing EXCEPT ![i] = {}]
           /\ slot' = [slot EXCEPT ![i] = 0]
           /\ failed' = [failed EXCEPT ![i] = FALSE]
           /\ lock' = IF lock = i THEN Free ELSE lock

(* The phones: a card is named by its place in cards, and its update token *)
(* by the card.  `known` is no one's state: the answer came through.       *)
Light(s, k, answer) ==
  cards' = IF answer \in {"ok", "lost"}
           THEN Append(cards, [user |-> sessions[s].user, match |-> sessions[s].match,
                               event |-> k, session |-> s,
                               lit |-> TRUE, known |-> answer = "ok"])
           ELSE cards

PutOutCard(token) == cards' = [cards EXCEPT ![token].lit = FALSE]

-----------------------------------------------------------------------------
(* Update, up to the lock.  sweepStale comes first, switch or no switch.   *)

BeginTick(i) ==
  /\ pc[i] = "idle"
  /\ \E gap \in Gaps : ReadClock(gap)
  /\ now' = [now EXCEPT ![i] = clock']
  /\ closing' = [closing EXCEPT ![i] = StaleSessions(clock')]
  /\ Goto(i, "sweep")
  /\ UNCHANGED <<storeVars, tables, cards, lock, faults, batch, event, targets,
                 reachable, slot, failed>>

EndTick(i) ==
  /\ pc[i] = "sweep"
  /\ closing[i] = {}
  /\ ~PushEnabled \/ lock # Free
  /\ Rest(i)
  /\ UNCHANGED <<storeVars, clock, tables, cards, faults>>

(* Mutant of TakeLock: the lock is not asked for.                          *)
TakeLockAnyway(i) ==
  /\ pc[i] = "sweep"
  /\ closing[i] = {}
  /\ PushEnabled
  /\ Goto(i, "claim")
  /\ UNCHANGED <<storeVars, clock, tables, cards, lock, faults, now, batch,
                 event, targets, reachable, closing, slot, failed>>

TakeLock(i) ==
  /\ pc[i] = "sweep"
  /\ closing[i] = {}
  /\ PushEnabled
  /\ lock = Free
  /\ lock' = i
  /\ Goto(i, "claim")
  /\ UNCHANGED <<storeVars, clock, tables, cards, faults, now, batch, event,
                 targets, reachable, closing, slot, failed>>

ClaimLiveEvents(i) ==
  /\ pc[i] = "claim"
  /\ LET ids == FirstOf(Claimable(now[i]))
     IN  /\ claimed' = [k \in DOMAIN claimed |-> IF k \in ids THEN now[i]
                                                 ELSE claimed[k]]
         /\ attempts' = [k \in DOMAIN attempts |->
                           IF k \in ids THEN attempts[k] + 1 ELSE attempts[k]]
         /\ batch' = [batch EXCEPT ![i] = ids]
  /\ Goto(i, "batch")
  /\ UNCHANGED <<storeVars, clock, consumed, sessions, devices, cards, lock,
                 faults, now, event, targets, reachable, closing, slot,
                 failed>>

EndBatch(i) ==
  /\ pc[i] = "batch"
  /\ batch[i] = {}
  /\ Rest(i)
  /\ UNCHANGED <<storeVars, clock, tables, cards, faults>>

(* `returning` promises no order.                                          *)
NextEvent(i, k) ==
  /\ pc[i] = "batch"
  /\ k \in batch[i]
  /\ batch' = [batch EXCEPT ![i] = @ \ {k}]
  /\ event' = [event EXCEPT ![i] = k]
  /\ Goto(i, CASE events[k].kind = "live" -> "start"
               [] events[k].kind = "finished" -> "end"
               [] OTHER -> "done")
  /\ UNCHANGED <<storeVars, clock, tables, cards, lock, faults, now, targets,
                 reachable, closing, slot, failed>>

-----------------------------------------------------------------------------
(* pushStart.                                                              *)

Recheck(i) ==
  /\ pc[i] = "start"
  /\ Goto(i, IF MatchStillLive(event[i]) THEN "audience" ELSE "done")
  /\ UNCHANGED <<storeVars, clock, tables, cards, lock, faults, now, batch,
                 event, targets, reachable, closing, slot, failed>>

ListAudience(i) ==
  /\ pc[i] = "audience"
  /\ targets' = [targets EXCEPT ![i] = StartAudience(events[event[i]].match)]
  /\ reachable' = [reachable EXCEPT ![i] = {u \in Users : devices[u] > 0}]
  /\ Goto(i, "each")
  /\ UNCHANGED <<storeVars, clock, tables, cards, lock, faults, now, batch,
                 event, closing, slot, failed>>

NewSession(u, m, t) == [user |-> u, match |-> m, startedAt |-> t,
                        token |-> NoToken, state |-> "open"]

(* `on conflict do nothing`: a slot that is taken ends the matter.         *)
OpenSession(i, u) ==
  LET m == events[event[i]].match
  IN  /\ pc[i] = "each"
      /\ u \in targets[i]
      /\ \/ /\ OpenFor(u, m) = {}
            /\ sessions' = Append(sessions, NewSession(u, m, now[i]))
            /\ slot' = [slot EXCEPT ![i] = Len(sessions) + 1]
            /\ Goto(i, "send")
            /\ UNCHANGED targets
         \/ /\ OpenFor(u, m) # {}
            /\ targets' = [targets EXCEPT ![i] = @ \ {u}]
            /\ UNCHANGED <<sessions, slot, pc>>
      /\ UNCHANGED <<storeVars, clock, claimed, attempts, consumed, devices,
                     cards, lock, faults, now, batch, event, reachable,
                     closing, failed>>

(* The statement fails: counted against the event, on to the next user.    *)
OpenSessionFails(i, u) ==
  /\ pc[i] = "each"
  /\ u \in targets[i]
  /\ Fault
  /\ targets' = [targets EXCEPT ![i] = @ \ {u}]
  /\ failed' = [failed EXCEPT ![i] = TRUE]
  /\ UNCHANGED <<storeVars, clock, tables, cards, lock, pc, now, batch, event,
                 reachable, closing, slot>>

(* Apple's answer to a start push.  send drops the device token that Apple *)
(* calls dead, as far as the statement succeeds.  A dead token is one of   *)
(* the MaxFaults, whichever way the statement goes.                        *)
DropToken(u, answer) ==
  \/ /\ answer = "gone" /\ Fault
     /\ \/ devices' = [devices EXCEPT ![u] = @ - 1]
        \/ UNCHANGED devices
  \/ answer # "gone" /\ UNCHANGED <<devices, faults>>

(* Mutant of SendStart: the slot is given back whatever Apple answered.    *)
SendStartAndRelease(i, answer) ==
  LET u == sessions[slot[i]].user
  IN  /\ pc[i] = "send"
      /\ Light(slot[i], event[i], answer)
      /\ DropToken(u, answer)
      /\ failed' = [failed EXCEPT ![i] = @ \/ answer \in {"lost", "refused"}]
      /\ targets' = [targets EXCEPT ![i] = @ \ {u}]
      /\ Goto(i, "release")
      /\ UNCHANGED <<storeVars, clock, claimed, attempts, consumed, sessions,
                     lock, now, batch, event, reachable, closing, slot>>

(* A push that failed gives the slot back and fails the event, except for  *)
(* a dead token, which no retry can help.                                  *)
SendStart(i, answer) ==
  LET u == sessions[slot[i]].user
  IN  /\ pc[i] = "send"
      /\ Light(slot[i], event[i], answer)
      /\ DropToken(u, answer)
      /\ failed' = [failed EXCEPT ![i] = @ \/ answer \in {"lost", "refused"}]
      /\ targets' = [targets EXCEPT ![i] = @ \ {u}]
      /\ IF answer = "ok"
         THEN slot' = [slot EXCEPT ![i] = 0] /\ Goto(i, "each")
         ELSE UNCHANGED slot /\ Goto(i, "release")
      /\ UNCHANGED <<storeVars, clock, claimed, attempts, consumed, sessions,
                     lock, now, batch, event, reachable, closing>>

(* DeleteSession; when it fails the slot stays taken.                      *)
ReleaseSlot(i) ==
  /\ pc[i] = "release"
  /\ \/ /\ sessions' = [sessions EXCEPT ![slot[i]].state = "deleted"]
        /\ UNCHANGED faults
     \/ Fault /\ UNCHANGED sessions
  /\ slot' = [slot EXCEPT ![i] = 0]
  /\ Goto(i, "each")
  /\ UNCHANGED <<storeVars, clock, claimed, attempts, consumed, devices, cards,
                 lock, now, batch, event, targets, reachable, closing, failed>>

-----------------------------------------------------------------------------
(* pushEnd and sweepStale; endSession and closeSession.                    *)

ListSessions(i) ==
  /\ pc[i] = "end"
  /\ closing' = [closing EXCEPT ![i] = OpenSessionsForMatch(events[event[i]].match)]
  /\ Goto(i, "each")
  /\ UNCHANGED <<storeVars, clock, tables, cards, lock, faults, now, batch,
                 event, targets, reachable, slot, failed>>

(* The sessions are taken in the order of their ids.                       *)
Foremost(i, s) == s \in closing[i] /\ \A x \in closing[i] : s.id <= x.id

Closing(i) == pc[i] \in {"each", "sweep"}

(* closeSession.  The sweep tries twice and does not mind a failure,       *)
(* pushEnd fails the event.  A row that is gone stays gone.                *)
CloseSession(i, s) ==
  \/ /\ sessions' = [sessions EXCEPT ![s.id].state =
                        IF @ = "deleted" THEN @ ELSE "ended"]
     /\ UNCHANGED <<faults, failed>>
  \/ /\ Fault
     /\ failed' = [failed EXCEPT ![i] = pc[i] = "each"]
     /\ UNCHANGED sessions

(* A session without an update token is closed without a push.             *)
CloseUnsent(i, s) ==
  /\ Closing(i)
  /\ Foremost(i, s)
  /\ s.token = NoToken
  /\ CloseSession(i, s)
  /\ closing' = [closing EXCEPT ![i] = @ \ {s}]
  /\ UNCHANGED <<storeVars, clock, claimed, attempts, consumed, devices, cards,
                 lock, pc, now, batch, event, targets, reachable, slot>>

EndPush(s, answer) ==
  IF answer \in {"ok", "lost"} THEN PutOutCard(s.token) ELSE UNCHANGED cards

(* Mutant of SendEnd: the sweep, too, keeps what it could not put out.     *)
SendEndOrKeep(i, s, answer) ==
  /\ Closing(i)
  /\ Foremost(i, s)
  /\ s.token # NoToken
  /\ EndPush(s, answer)
  /\ IF answer \in {"ok", "gone"}
     THEN CloseSession(i, s)
     ELSE /\ failed' = [failed EXCEPT ![i] = @ \/ pc[i] = "each"]
          /\ UNCHANGED <<sessions, faults>>
  /\ closing' = [closing EXCEPT ![i] = @ \ {s}]
  /\ UNCHANGED <<storeVars, clock, claimed, attempts, consumed, devices, lock,
                 pc, now, batch, event, targets, reachable, slot>>

(* The end push, and the close that follows it.  When Apple refuses,       *)
(* pushEnd leaves the session open for the next attempt, while the sweep   *)
(* closes it all the same.                                                 *)
SendEnd(i, s, answer) ==
  /\ Closing(i)
  /\ Foremost(i, s)
  /\ s.token # NoToken
  /\ EndPush(s, answer)
  /\ IF answer \in {"ok", "gone"} \/ pc[i] = "sweep"
     THEN CloseSession(i, s)
     ELSE /\ failed' = [failed EXCEPT ![i] = TRUE]
          /\ UNCHANGED <<sessions, faults>>
  /\ closing' = [closing EXCEPT ![i] = @ \ {s}]
  /\ UNCHANGED <<storeVars, clock, claimed, attempts, consumed, devices, lock,
                 pc, now, batch, event, targets, reachable, slot>>

-----------------------------------------------------------------------------
(* The end of an event: consumed when nothing failed, else left to the     *)
(* next attempt.                                                           *)
AllPushed(i) == pc[i] = "each" /\ targets[i] = {} /\ closing[i] = {}

(* Mutant of Consume: a failed push does not count.                        *)
ConsumeAnyway(i) ==
  /\ pc[i] = "done" \/ AllPushed(i)
  /\ consumed' = consumed \cup {event[i]}
  /\ event' = [event EXCEPT ![i] = 0]
  /\ reachable' = [reachable EXCEPT ![i] = {}]
  /\ failed' = [failed EXCEPT ![i] = FALSE]
  /\ Goto(i, "batch")
  /\ UNCHANGED <<storeVars, clock, claimed, attempts, sessions, devices, cards,
                 lock, faults, now, batch, targets, closing, slot>>

Consume(i) ==
  /\ pc[i] = "done" \/ (AllPushed(i) /\ ~failed[i])
  /\ consumed' = consumed \cup {event[i]}
  /\ event' = [event EXCEPT ![i] = 0]
  /\ reachable' = [reachable EXCEPT ![i] = {}]
  /\ Goto(i, "batch")
  /\ UNCHANGED <<storeVars, clock, claimed, attempts, sessions, devices, cards,
                 lock, faults, now, batch, targets, closing, slot, failed>>

FailEvent(i) ==
  /\ AllPushed(i)
  /\ failed[i]
  /\ event' = [event EXCEPT ![i] = 0]
  /\ reachable' = [reachable EXCEPT ![i] = {}]
  /\ failed' = [failed EXCEPT ![i] = FALSE]
  /\ Goto(i, "batch")
  /\ UNCHANGED <<storeVars, clock, tables, cards, lock, faults, now, batch,
                 targets, closing, slot>>

(* A query of the event, or the write of consumed_at, fails.               *)
StatementFails(i) ==
  /\ pc[i] \in {"start", "audience", "end", "done"} \/ (AllPushed(i) /\ ~failed[i])
  /\ Fault
  /\ event' = [event EXCEPT ![i] = 0]
  /\ reachable' = [reachable EXCEPT ![i] = {}]
  /\ Goto(i, "batch")
  /\ UNCHANGED <<storeVars, clock, tables, cards, lock, now, batch, targets,
                 closing, slot, failed>>

(* A redeploy or a cancelled context; the lock dies with its connection.   *)
Crash(i) ==
  /\ pc[i] # "idle"
  /\ Fault
  /\ Rest(i)
  /\ UNCHANGED <<storeVars, clock, tables, cards>>

-----------------------------------------------------------------------------
(* Around the pusher.                                                      *)

NewEventRow ==
  /\ claimed' = Append(claimed, Never)
  /\ attempts' = Append(attempts, 0)

(* The ingest side raises or lowers a match.                               *)
Raise(m) ==
  /\ Len(events) < MaxEvents
  /\ clock < MaxClock
  /\ CanRaise(m)
  /\ ReadClock(1)
  /\ FlipLive(m, Api, 0, clock')
  /\ NewEventRow
  /\ UNCHANGED <<consumed, sessions, devices, cards, lock, faults, localPush>>

Lower(m) ==
  /\ Len(events) < MaxEvents
  /\ clock < MaxClock
  /\ flags[m] # NoFlag
  /\ ReadClock(1)
  /\ FlipOut(m, clock')
  /\ NewEventRow
  /\ UNCHANGED <<consumed, sessions, devices, cards, lock, faults, localPush>>

(* The content pipeline takes the row, gives it back or finishes the match *)
(* and leaves the flag and the outbox as they are.                         *)
Pipeline(m) ==
  /\ \E s \in PipelineStatuses, winner \in BOOLEAN : PipelineWrites(m, s, winner)
  /\ UNCHANGED <<clock, tables, cards, lock, faults, localPush>>

RegisterPushToken(u) ==
  /\ devices[u] < MaxTokens
  /\ devices' = [devices EXCEPT ![u] = @ + 1]
  /\ UNCHANGED <<storeVars, clock, claimed, attempts, consumed, sessions, cards,
                 lock, faults, localPush>>

(* The phone sends the token of a card it shows; SetSessionUpdateToken     *)
(* puts it on the open session of that user and match, whichever it is.    *)
RegisterActivityToken(c) ==
  /\ cards[c].lit
  /\ \E s \in OpenFor(cards[c].user, cards[c].match) :
       sessions' = [sessions EXCEPT ![s].token = c]
  /\ UNCHANGED <<storeVars, clock, claimed, attempts, consumed, devices, cards,
                 lock, faults, localPush>>

-----------------------------------------------------------------------------
PushInit ==
  /\ StoreInit
  /\ clock = 0
  /\ claimed = <<>>
  /\ attempts = <<>>
  /\ consumed = {}
  /\ sessions = <<>>
  /\ devices \in [Users -> 0..MaxTokens]
  /\ cards = <<>>
  /\ lock = Free
  /\ faults = 0
  /\ pc = [i \in Pushers |-> "idle"]
  /\ now = [i \in Pushers |-> 0]
  /\ batch = [i \in Pushers |-> {}]
  /\ event = [i \in Pushers |-> 0]
  /\ targets = [i \in Pushers |-> {}]
  /\ reachable = [i \in Pushers |-> {}]
  /\ closing = [i \in Pushers |-> {}]
  /\ slot = [i \in Pushers |-> 0]
  /\ failed = [i \in Pushers |-> FALSE]

Tick(i) ==
  \/ BeginTick(i) \/ EndTick(i) \/ TakeLock(i)
  \/ ClaimLiveEvents(i) \/ EndBatch(i)
  \/ \E k \in DOMAIN events : NextEvent(i, k)
  \/ Recheck(i) \/ ListAudience(i)
  \/ \E u \in Users : OpenSession(i, u) \/ OpenSessionFails(i, u)
  \/ \E answer \in Answers : SendStart(i, answer)
  \/ ReleaseSlot(i)
  \/ ListSessions(i)
  \/ \E s \in closing[i] : \/ CloseUnsent(i, s)
                           \/ \E answer \in Answers : SendEnd(i, s, answer)
  \/ Consume(i) \/ FailEvent(i) \/ StatementFails(i)

PushNext ==
  \/ \E i \in Pushers : Tick(i) \/ Crash(i)
  \/ \E m \in Matches : Raise(m) \/ Lower(m) \/ Pipeline(m)
  \/ \E u \in Users : RegisterPushToken(u)
  \/ \E c \in DOMAIN cards : RegisterActivityToken(c)

PushSpec == PushInit /\ [][PushNext]_pushVars

(* The scheduler keeps running an instance's ticks, and a tick that has    *)
(* begun runs on: no await in it is without a timeout.                     *)
PushFairSpec == PushSpec /\ \A i \in Pushers : WF_pushVars(Tick(i))

-----------------------------------------------------------------------------
Place == {"idle", "sweep", "claim", "batch", "start", "audience", "each",
          "send", "release", "end", "done"}

Card == [user : Users, match : Matches, event : Nat \ {0},
         session : Nat \ {0}, lit : BOOLEAN, known : BOOLEAN]

SessionRow == [user : Users, match : Matches, startedAt : Times,
               token : DOMAIN cards \cup {NoToken},
               state : {"open", "ended", "deleted"}]

(* An event is never claimed more often than PUSH_MAX_ATTEMPTS allows, an  *)
(* update token is that of a card, and every reference of a pusher is to a *)
(* row that exists.                                                        *)
PushTypeOK ==
  /\ StoreTypeOK
  /\ clock \in Times
  /\ claimed \in Seq(Times \cup {Never}) /\ Len(claimed) = Len(events)
  /\ attempts \in Seq(0..MaxAttempts) /\ Len(attempts) = Len(events)
  /\ consumed \subseteq DOMAIN events
  /\ sessions \in Seq(SessionRow)
  /\ devices \in [Users -> 0..MaxTokens]
  /\ cards \in Seq(Card)
  /\ lock \in Pushers \cup {Free}
  /\ faults \in 0..MaxFaults
  /\ pc \in [Pushers -> Place]
  /\ now \in [Pushers -> Times]
  /\ batch \in [Pushers -> SUBSET DOMAIN events]
  /\ event \in [Pushers -> DOMAIN events \cup {0}]
  /\ targets \in [Pushers -> SUBSET Users]
  /\ reachable \in [Pushers -> SUBSET Users]
  /\ closing \in [Pushers -> SUBSET [id : DOMAIN sessions,
                                     token : DOMAIN cards \cup {NoToken}]]
  /\ slot \in [Pushers -> DOMAIN sessions \cup {0}]
  /\ failed \in [Pushers -> BOOLEAN]

(* A follower who has been sent a card of a match, and Apple said so, is   *)
(* sent another only when the session of the first has been ended: through *)
(* refusals, retries of the event, crashes anywhere, a second instance and *)
(* its sweep the slot is taken before the push, kept once Apple said yes,  *)
(* and no row but the one of the failed push is deleted (OpenSession,      *)
(* pushStart, DeleteSession).                                              *)
OneCardPerSession ==
  \A c, d \in DOMAIN cards :
    /\ cards[c].known /\ c < d
    /\ cards[c].user = cards[d].user
    /\ cards[c].match = cards[d].match
    => sessions[cards[c].session].state = "ended"

(* Event k is the one pusher i is about to be rid of.                      *)
Consumes(i, k) == event[i] = k /\ k \in consumed' \ consumed

SentFor(u, k) == \E c \in DOMAIN cards : cards[c].user = u /\ cards[c].event = k

(* "Only success consumes it": when a live event is marked consumed while  *)
(* its period lasts, every follower who had a device when the audience was *)
(* read has been sent the card of that period (pushStart,                  *)
(* ConsumeLiveEvent).                                                      *)
ConsumedMeansSent ==
  [][\A i \in Pushers, k \in DOMAIN events :
       Consumes(i, k) /\ MatchStillLive(k)
         => \A u \in reachable[i] : SentFor(u, k)]_pushVars

(* Follower u has been sent the card of event k, or one of an earlier      *)
(* period of the match whose end has not been pushed: no `finished` event  *)
(* between the two has been consumed.                                      *)
Reached(u, k) ==
  \E c \in DOMAIN cards :
    /\ cards[c].user = u
    /\ cards[c].match = events[k].match
    /\ cards[c].event <= k
    /\ \A e \in Transitions(events[k].match) \cap consumed :
         events[e].kind = "finished" => e < cards[c].event \/ e > k

(* What remains of it without a crash, a failed statement or a dead token: *)
(* whatever Apple refuses and however many answers are lost, an event is   *)
(* not consumed until every follower who had a device when the audience    *)
(* was last read is reached; the only ones passed over are those whose     *)
(* last card has not been put out.  (Who registers his first device later  *)
(* gets no card for this period: nothing asks for the audience again.)     *)
RetriesReachAll ==
  [][\A i \in Pushers, k \in DOMAIN events :
       faults = 0 /\ Consumes(i, k)
         => \A u \in reachable[i] : Reached(u, k)]_pushVars

(* An end event puts out the card of a later period only when it is being  *)
(* retried, or was claimed in one batch with the event of that period: the *)
(* claim goes by id and the lock keeps batches apart, but `returning`      *)
(* orders nothing within a batch, and a retry comes when it comes          *)
(* (ClaimLiveEvents, pushEnd).                                             *)
OutOfTurnOnlyOnRetry ==
  [][\A i \in Pushers, c \in DOMAIN cards :
       /\ pc[i] = "each"
       /\ closing'[i] # closing[i]
       /\ cards[c].lit /\ ~cards'[c].lit
       => \/ cards[c].event < event[i]
          \/ attempts[event[i]] > 1
          \/ claimed[event[i]] = claimed[cards[c].event]]_pushVars

(* The re-check before a start push compares instants, never the outbox,   *)
(* and yet it lets an event through exactly when the event is the last     *)
(* transition announced for its match and the row is still live: neither   *)
(* what else waits in the queue nor what the pipeline has made of the row  *)
(* under a standing flag misleads it (MatchStillLive).                     *)
RecheckIsExact ==
  [][\A i \in Pushers :
       pc[i] = "start" /\ pc'[i] \in {"audience", "done"} =>
         (pc'[i] = "audience" <=>
            /\ status[events[event[i]].match] = "live"
            /\ \A j \in Transitions(events[event[i]].match) : j <= event[i])]_pushVars

(* No session stays open for ever: sweepStale closes it by age, whatever   *)
(* Apple answers and however many end events were lost.  Of the sessions   *)
(* that come of age before the clock of the model stops.                   *)
SessionsEnd ==
  \A s \in 1..(MaxEvents * MaxAttempts * Cardinality(Users)) :
    (s \in DOMAIN sessions /\ sessions[s].startedAt + MaxSessionAge < MaxClock)
      ~> (s \in DOMAIN sessions /\ sessions[s].state # "open")
=============================================================================

--------------------------- MODULE LivePushProofs ----------------------------
(***************************************************************************)
(* What is proved of the pusher for any number of followers, instances,    *)
(* matches and attempts.                                                   *)
(*                                                                         *)
(* PushInv, the inductive invariant, has a part for each table and one for *)
(* what a pusher may rely on between two statements: the holder of the     *)
(* lock is alone past the sweep, its slot is the only open session of that *)
(* follower, and no one else gives a slot back.                            *)
(*                                                                         *)
(* Three more invariants stand on it: LastAnnounced, that a match with a   *)
(* flag has a last transition; TurnInv, that events are claimed in their   *)
(* order, a batch at a time; ReachInv, that whom a live event has not      *)
(* reached is still on a pusher's list.                                    *)
(***************************************************************************)
EXTENDS LivePush, LiveStoreProofs, FiniteSetTheorems

(* The outbox in its order: later rows bear later times.                   *)
OutboxOrder ==
  /\ clock \in Times
  /\ \A k \in DOMAIN events : events[k].at <= clock
  /\ \A j, k \in DOMAIN events : j < k => events[j].at < events[k].at

QueueTypes ==
  /\ claimed \in Seq(Times \cup {Never}) /\ Len(claimed) = Len(events)
  /\ attempts \in Seq(0..MaxAttempts) /\ Len(attempts) = Len(events)
  /\ consumed \subseteq DOMAIN events

CardTypes ==
  /\ sessions \in Seq(SessionRow)
  /\ cards \in Seq(Card)
  /\ closing \in [Pushers -> SUBSET [id : DOMAIN sessions,
                                     token : DOMAIN cards \cup {NoToken}]]

LocalTypes ==
  /\ lock \in Pushers \cup {Free}
  /\ faults \in 0..MaxFaults
  /\ pc \in [Pushers -> Place]
  /\ now \in [Pushers -> Times]
  /\ batch \in [Pushers -> SUBSET DOMAIN events]
  /\ event \in [Pushers -> DOMAIN events \cup {0}]
  /\ targets \in [Pushers -> SUBSET Users]
  /\ reachable \in [Pushers -> SUBSET Users]
  /\ slot \in [Pushers -> DOMAIN sessions \cup {0}]
  /\ failed \in [Pushers -> BOOLEAN]

Sending == {"send", "release"}

(* Where a pusher stands tells what it holds.                              *)
Places ==
  /\ devices \in [Users -> 0..MaxTokens]
  /\ \A i \in Pushers :
       /\ pc[i] \notin {"idle", "sweep"} <=> lock = i
       /\ pc[i] \in {"idle", "sweep"} => targets[i] = {}
       /\ pc[i] \notin {"idle", "sweep", "claim", "batch"} => event[i] # 0
       /\ pc[i] = "start" => events[event[i]].kind = "live"
       /\ slot[i] # 0 <=> pc[i] \in Sending
       /\ pc[i] = "send" => sessions[slot[i]].user \in targets[i]
       /\ \A u \in targets[i] : devices[u] > 0

(* A card that Apple confirmed has a session of its own that no one gives  *)
(* back; a slot taken for a push is the only open session of its follower. *)
Slots ==
  /\ \A c \in DOMAIN cards :
       cards[c].known =>
         LET s == cards[c].session
         IN  /\ s \in DOMAIN sessions
             /\ sessions[s].user = cards[c].user
             /\ sessions[s].match = cards[c].match
             /\ sessions[s].state # "deleted"
             /\ \A i \in Pushers : slot[i] # s
  /\ \A i \in Pushers :
       pc[i] = "send" =>
         /\ sessions[slot[i]].state # "deleted"
         /\ \A s \in DOMAIN sessions \ {slot[i]} :
              /\ sessions[s].user = sessions[slot[i]].user
              /\ sessions[s].match = sessions[slot[i]].match
              => sessions[s].state # "open"

PushInv == /\ StoreTypeOK /\ OutboxOrder /\ QueueTypes /\ CardTypes
           /\ LocalTypes /\ Places /\ Slots /\ OneCardPerSession

LEMMA TypesOfPush == PushInv => PushTypeOK
  BY DEF PushInv, OutboxOrder, QueueTypes, CardTypes, LocalTypes, Places, PushTypeOK

-----------------------------------------------------------------------------
(* The ingest writes one event, later than all before it.                  *)
Ingests == \E m \in Matches : Raise(m) \/ Lower(m)

LEMMA IngestWrites ==
  ASSUME StoreTypeOK, OutboxOrder, NEW m \in Matches, Raise(m) \/ Lower(m)
  PROVE  /\ clock' = clock + 1 /\ clock' \in Times /\ NewEventRow
         /\ \E kind \in {"live", "finished"} : events' = Append(events, EventOf(m, kind, clock'))
         /\ [StoreNext]_storeVars
         /\ UNCHANGED <<consumed, sessions, devices, cards, lock, faults, localPush>>
  <1>1. /\ MaxClock \in Nat /\ Times = 0..MaxClock /\ 0 \in RunIds /\ NoFlag \notin Flag
    BY PushAssumption, StoreAssumption
  <1>2. clock' = clock + 1 /\ clock' \in Times /\ NewEventRow
    BY <1>1 DEF Raise, Lower, ReadClock, OutboxOrder
  <1>3. CASE Raise(m)
    <2>1. /\ status' = [status EXCEPT ![m] = "live"]
          /\ flags' = [flags EXCEPT ![m] = NewFlag(m, Api, 0, clock')]
          /\ events' = Append(events, EventOf(m, "live", clock'))
      BY <1>3 DEF Raise, FlipLive
    <2>2. StoreNext
      BY <1>1, <1>2, <1>3 DEF Raise, StoreNext
    <2> QED BY <1>2, <1>3, <2>1, <2>2 DEF Raise
  <1>4. CASE Lower(m)
    <2>1. /\ status' = [status EXCEPT ![m] = IF @ = "live" THEN flags[m].prior ELSE @]
          /\ flags' = [flags EXCEPT ![m] = NoFlag]
          /\ events' = Append(events, EventOf(m, "finished", clock'))
      BY <1>4 DEF Lower, FlipOut
    <2>2. StoreNext
      BY <1>1, <1>2, <1>4 DEF Lower, StoreNext
    <2> QED BY <1>2, <1>4, <2>1, <2>2 DEF Lower
  <1> QED BY <1>3, <1>4

(* The pipeline moves a row and leaves flags and outbox alone.             *)
Pipelines == \E m \in Matches : Pipeline(m)

LEMMA PipelineKeeps ==
  ASSUME Pipelines
  PROVE  /\ StoreNext
         /\ UNCHANGED <<flags, events, clock, claimed, attempts, consumed, sessions,
                        devices, cards, lock, faults, localPush>>
  <1>1. PICK m \in Matches, s \in PipelineStatuses, winner \in BOOLEAN :
          PipelineWrites(m, s, winner)
    BY DEF Pipelines, Pipeline
  <1>2. StoreNext
    BY <1>1 DEF StoreNext
  <1> QED BY <1>1, <1>2 DEF Pipelines, Pipeline, PipelineWrites, tables

(* A step is one of a pusher, of the ingest, of the pipeline or of a       *)
(* phone.                                                                  *)
Phones == (\E u \in Users : RegisterPushToken(u))
          \/ \E c \in DOMAIN cards : RegisterActivityToken(c)

LEMMA OnlyIngestWrites ==
  ASSUME [PushNext]_pushVars
  PROVE  /\ Ingests \/ Pipelines \/ UNCHANGED storeVars
         /\ Ingests \/ UNCHANGED <<flags, events>>
  <1>1. ASSUME NEW i, Tick(i) PROVE UNCHANGED storeVars
    <2>1. ASSUME NEW k, NextEvent(i, k) PROVE UNCHANGED storeVars
      BY <2>1 DEF NextEvent
    <2>2. ASSUME NEW u, OpenSession(i, u) \/ OpenSessionFails(i, u) PROVE UNCHANGED storeVars
      BY <2>2 DEF OpenSession, OpenSessionFails
    <2>3. ASSUME NEW answer, SendStart(i, answer) PROVE UNCHANGED storeVars
      BY <2>3 DEF SendStart
    <2>4. ASSUME NEW s, NEW answer, CloseUnsent(i, s) \/ SendEnd(i, s, answer)
          PROVE  UNCHANGED storeVars
      BY <2>4 DEF CloseUnsent, SendEnd
    <2>5. CASE BeginTick(i) \/ EndTick(i) \/ TakeLock(i) \/ ClaimLiveEvents(i) \/ EndBatch(i)
      BY <2>5 DEF BeginTick, EndTick, TakeLock, ClaimLiveEvents, EndBatch
    <2>6. CASE Recheck(i) \/ ListAudience(i) \/ ReleaseSlot(i) \/ ListSessions(i)
               \/ Consume(i) \/ FailEvent(i) \/ StatementFails(i)
      BY <2>6 DEF Recheck, ListAudience, ReleaseSlot, ListSessions, Consume, FailEvent,
                  StatementFails
    <2> QED BY <1>1, <2>1, <2>2, <2>3, <2>4, <2>5, <2>6 DEF Tick
  <1>2. ASSUME NEW i, Crash(i) PROVE UNCHANGED storeVars
    BY <1>2 DEF Crash
  <1>3. ASSUME Phones PROVE UNCHANGED storeVars
    BY <1>3 DEF Phones, RegisterPushToken, RegisterActivityToken
  <1>4. ASSUME UNCHANGED pushVars PROVE UNCHANGED storeVars
    BY <1>4 DEF pushVars
  <1>5. Ingests \/ Pipelines \/ UNCHANGED storeVars
    BY <1>1, <1>2, <1>3, <1>4 DEF PushNext, Ingests, Pipelines, Phones
  <1> QED BY <1>5, PipelineKeeps DEF storeVars

LEMMA ClockMoves ==
  ASSUME OutboxOrder, [PushNext]_pushVars, ~Ingests
  PROVE  clock' \in Times /\ clock <= clock'
  <1>1. /\ MaxClock \in Nat /\ Times = 0..MaxClock /\ Gaps \subseteq Nat
    BY PushAssumption
  <1>2. ASSUME NEW i, BeginTick(i) PROVE clock' \in Times /\ clock <= clock'
    <2>1. PICK gap \in Gaps : ReadClock(gap)
      BY <1>2 DEF BeginTick
    <2>2. gap \in Nat /\ clock \in 0..MaxClock
      BY <1>1 DEF OutboxOrder
    <2> QED BY <1>1, <2>1, <2>2 DEF ReadClock
  <1>3. CASE UNCHANGED clock
    BY <1>1, <1>3 DEF OutboxOrder
  <1>4. ASSUME NEW i, Tick(i) PROVE BeginTick(i) \/ UNCHANGED clock
    <2>1. ASSUME NEW k, NextEvent(i, k) PROVE UNCHANGED clock
      BY <2>1 DEF NextEvent
    <2>2. ASSUME NEW u, OpenSession(i, u) \/ OpenSessionFails(i, u) PROVE UNCHANGED clock
      BY <2>2 DEF OpenSession, OpenSessionFails
    <2>3. ASSUME NEW answer, SendStart(i, answer) PROVE UNCHANGED clock
      BY <2>3 DEF SendStart
    <2>4. ASSUME NEW s, NEW answer, CloseUnsent(i, s) \/ SendEnd(i, s, answer)
          PROVE  UNCHANGED clock
      BY <2>4 DEF CloseUnsent, SendEnd
    <2>5. CASE EndTick(i) \/ TakeLock(i) \/ ClaimLiveEvents(i) \/ EndBatch(i)
      BY <2>5 DEF EndTick, TakeLock, ClaimLiveEvents, EndBatch
    <2>6. CASE Recheck(i) \/ ListAudience(i) \/ ReleaseSlot(i) \/ ListSessions(i)
               \/ Consume(i) \/ FailEvent(i) \/ StatementFails(i)
      BY <2>6 DEF Recheck, ListAudience, ReleaseSlot, ListSessions, Consume, FailEvent,
                  StatementFails
    <2> QED BY <1>4, <2>1, <2>2, <2>3, <2>4, <2>5, <2>6 DEF Tick
  <1>5. ASSUME NEW i, Crash(i) PROVE UNCHANGED clock
    BY <1>5 DEF Crash
  <1>6. ASSUME Phones PROVE UNCHANGED clock
    BY <1>6 DEF Phones, RegisterPushToken, RegisterActivityToken
  <1>7. ASSUME UNCHANGED pushVars PROVE UNCHANGED clock
    BY <1>7 DEF pushVars
  <1>8. ASSUME Pipelines PROVE UNCHANGED clock
    BY <1>8, PipelineKeeps
  <1> QED BY <1>2, <1>3, <1>4, <1>5, <1>6, <1>7, <1>8 DEF PushNext, Ingests, Pipelines, Phones

LEMMA OutboxOrderKept ==
  ASSUME StoreTypeOK, OutboxOrder, [PushNext]_pushVars
  PROVE  OutboxOrder'
  <1>1. Len(events) \in Nat /\ DOMAIN events = 1..Len(events)
        /\ \A k \in DOMAIN events : events[k].at \in Nat
    <2>1. Times \subseteq Nat
      BY StoreAssumption
    <2>2. events \in Seq(Event)
      BY DEF StoreTypeOK
    <2>3. Len(events) \in Nat /\ DOMAIN events = 1..Len(events)
      BY <2>2
    <2>4. \A k \in DOMAIN events : events[k] \in Event
      BY <2>2, <2>3
    <2>5. \A e \in Event : e.at \in Nat
      BY <2>1 DEF Event
    <2> QED BY <2>3, <2>4, <2>5
  <1>2. clock \in Nat
    BY StoreAssumption DEF OutboxOrder
  <1>3. ASSUME NEW m \in Matches, Raise(m) \/ Lower(m) PROVE OutboxOrder'
    <2>1. clock' = clock + 1 /\ clock' \in Times
      BY <1>3, IngestWrites
    <2>2. PICK kind \in {"live", "finished"} : events' = Append(events, EventOf(m, kind, clock'))
      BY <1>3, IngestWrites
    <2>3. /\ DOMAIN events' = 1..(Len(events) + 1)
          /\ \A k \in DOMAIN events : events'[k] = events[k]
          /\ events'[Len(events) + 1].at = clock'
      BY <1>1, <2>2 DEF StoreTypeOK, EventOf
    <2> QED BY <1>1, <1>2, <2>1, <2>3 DEF OutboxOrder
  <1>4. CASE ~Ingests
    <2>1. clock' \in Times /\ clock <= clock' /\ UNCHANGED events
      BY <1>4, ClockMoves, OnlyIngestWrites
    <2>2. clock' \in Nat
      BY <2>1, StoreAssumption
    <2> QED BY <1>1, <1>2, <2>1, <2>2 DEF OutboxOrder
  <1> QED BY <1>3, <1>4 DEF Ingests

-----------------------------------------------------------------------------
(* The steps of a pusher, one lemma each.                                  *)
PushRest == QueueTypes /\ CardTypes /\ LocalTypes /\ Places /\ Slots /\ OneCardPerSession

LEMMA Constants == /\ MaxClock \in Nat /\ Times = 0..MaxClock /\ Times \subseteq Nat
                   /\ 0 \in Times /\ Free \notin Pushers
                   /\ MaxAttempts \in Nat /\ MaxFaults \in Nat /\ MaxTokens \in Nat
                   /\ Never \notin Times /\ NoToken \notin Nat
  BY PushAssumption

LEMMA Rows ==
  ASSUME CardTypes
  PROVE  /\ Len(sessions) \in Nat /\ DOMAIN sessions = 1..Len(sessions)
         /\ Len(cards) \in Nat /\ DOMAIN cards = 1..Len(cards)
         /\ \A s \in DOMAIN sessions :
              /\ sessions[s] \in SessionRow
              /\ sessions[s].user \in Users /\ sessions[s].match \in Matches
              /\ sessions[s].token \in DOMAIN cards \cup {NoToken}
              /\ sessions[s].state \in {"open", "ended", "deleted"}
         /\ \A c \in DOMAIN cards : cards[c] \in Card
  <1>1. sessions \in Seq(SessionRow) /\ cards \in Seq(Card)
    BY DEF CardTypes
  <1>2. /\ Len(sessions) \in Nat /\ DOMAIN sessions = 1..Len(sessions)
        /\ Len(cards) \in Nat /\ DOMAIN cards = 1..Len(cards)
    BY <1>1
  <1>3. /\ \A s \in DOMAIN sessions : sessions[s] \in SessionRow
        /\ \A c \in DOMAIN cards : cards[c] \in Card
    BY <1>1, <1>2
  <1>4. \A r \in SessionRow : /\ r.user \in Users /\ r.match \in Matches
                              /\ r.token \in DOMAIN cards \cup {NoToken}
                              /\ r.state \in {"open", "ended", "deleted"}
    BY DEF SessionRow
  <1> QED BY <1>2, <1>3, <1>4

LEMMA FaultTypes == ASSUME faults \in 0..MaxFaults, Fault PROVE faults' \in 0..MaxFaults
  BY Constants DEF Fault

LEMMA BeginTickKeeps ==
  ASSUME PushInv, NEW i \in Pushers, BeginTick(i), clock' \in Times
  PROVE  PushRest'
  <1>1. QueueTypes'
    BY DEF PushInv, QueueTypes, BeginTick, storeVars, tables
  <1>2. CardTypes'
    <2>1. StaleSessions(clock') \in SUBSET [id : DOMAIN sessions, token : DOMAIN cards \cup {NoToken}]
      <3>1. \A s \in DOMAIN sessions : sessions[s].token \in DOMAIN cards \cup {NoToken}
        BY Rows DEF PushInv
      <3> QED BY <3>1 DEF StaleSessions, ReadSession
    <2>2. UNCHANGED <<sessions, cards>> /\ closing' = [closing EXCEPT ![i] = StaleSessions(clock')]
      BY DEF BeginTick, tables
    <2> QED BY <2>1, <2>2 DEF PushInv, CardTypes, SessionRow
  <1>3. LocalTypes'
    BY DEF PushInv, LocalTypes, BeginTick, storeVars, tables, Goto, Place
  <1>4. Places'
    BY DEF PushInv, LocalTypes, Places, BeginTick, storeVars, tables, Goto, Sending
  <1>5. Slots' /\ OneCardPerSession'
    BY DEF PushInv, LocalTypes, Slots, OneCardPerSession, BeginTick, tables, Goto
  <1> QED BY <1>1, <1>2, <1>3, <1>4, <1>5 DEF PushRest

LEMMA RestKeeps ==
  ASSUME PushInv, NEW i \in Pushers, Rest(i), faults' \in 0..MaxFaults,
         UNCHANGED <<storeVars, tables, cards>>
  PROVE  PushRest'
  <1>1. QueueTypes'
    BY DEF PushInv, QueueTypes, storeVars, tables
  <1>2. CardTypes'
    BY DEF PushInv, CardTypes, SessionRow, Rest, tables
  <1>3. LocalTypes'
    BY Constants DEF PushInv, LocalTypes, Rest, storeVars, tables, Goto, Place
  <1>4. Places'
    BY Constants DEF PushInv, LocalTypes, Places, Rest, storeVars, tables, Goto, Sending
  <1>5. Slots' /\ OneCardPerSession'
    BY DEF PushInv, LocalTypes, CardTypes, Slots, OneCardPerSession, Rest, tables, Goto
  <1> QED BY <1>1, <1>2, <1>3, <1>4, <1>5 DEF PushRest

LEMMA TakeLockKeeps ==
  ASSUME PushInv, NEW i \in Pushers, TakeLock(i)
  PROVE  PushRest'
  <1>1. QueueTypes'
    BY DEF PushInv, QueueTypes, TakeLock, storeVars, tables
  <1>2. CardTypes'
    BY DEF PushInv, CardTypes, SessionRow, TakeLock, tables
  <1>3. LocalTypes'
    BY DEF PushInv, LocalTypes, TakeLock, storeVars, tables, Goto, Place
  <1>4. Places'
    BY Constants DEF PushInv, LocalTypes, Places, TakeLock, storeVars, tables, Goto, Sending
  <1>5. Slots' /\ OneCardPerSession'
    BY DEF PushInv, LocalTypes, Slots, OneCardPerSession, TakeLock, tables, Goto
  <1> QED BY <1>1, <1>2, <1>3, <1>4, <1>5 DEF PushRest

LEMMA ClaimKeeps ==
  ASSUME PushInv, NEW i \in Pushers, ClaimLiveEvents(i)
  PROVE  PushRest'
  <1> DEFINE ids == FirstOf(Claimable(now[i]))
  <1>1. /\ ids \subseteq DOMAIN events
        /\ \A k \in ids : attempts[k] < MaxAttempts
    BY DEF FirstOf, Claimable
  <1>2. /\ claimed' = [k \in DOMAIN claimed |-> IF k \in ids THEN now[i] ELSE claimed[k]]
        /\ attempts' = [k \in DOMAIN attempts |-> IF k \in ids THEN attempts[k] + 1 ELSE attempts[k]]
        /\ batch' = [batch EXCEPT ![i] = ids]
    BY DEF ClaimLiveEvents
  <1> HIDE DEF ids
  <1>3. QueueTypes'
    <2>1. /\ claimed \in Seq(Times \cup {Never}) /\ Len(claimed) = Len(events)
          /\ attempts \in Seq(0..MaxAttempts) /\ Len(attempts) = Len(events)
          /\ now[i] \in Times
      BY DEF PushInv, QueueTypes, LocalTypes
    <2>2. claimed' \in Seq(Times \cup {Never}) /\ Len(claimed') = Len(events)
      BY <1>2, <2>1
    <2>3. /\ DOMAIN attempts = 1..Len(events) /\ Len(events) \in Nat
          /\ \A k \in DOMAIN attempts : attempts[k] \in 0..MaxAttempts
      <3>1. DOMAIN attempts = 1..Len(attempts) /\ Len(attempts) \in Nat
        BY <2>1
      <3>2. \A k \in DOMAIN attempts : attempts[k] \in 0..MaxAttempts
        <4> DEFINE Bound == 0..MaxAttempts
        <4>1. attempts \in Seq(Bound)
          BY <2>1
        <4> HIDE DEF Bound
        <4>2. \A k \in DOMAIN attempts : attempts[k] \in Bound
          BY <3>1, <4>1
        <4> QED BY <4>2 DEF Bound
      <3> QED BY <2>1, <3>1, <3>2
    <2>4. \A k \in DOMAIN attempts :
            (IF k \in ids THEN attempts[k] + 1 ELSE attempts[k]) \in 0..MaxAttempts
      BY <1>1, <2>3, Constants
    <2>5. attempts' \in Seq(0..MaxAttempts) /\ Len(attempts') = Len(events)
      BY <1>2, <2>3, <2>4
    <2> QED BY <2>2, <2>5 DEF PushInv, QueueTypes, ClaimLiveEvents, storeVars
  <1>4. CardTypes'
    BY DEF PushInv, CardTypes, SessionRow, ClaimLiveEvents
  <1>5. LocalTypes'
    BY <1>1, <1>2 DEF PushInv, LocalTypes, ClaimLiveEvents, storeVars, Goto, Place
  <1>6. Places'
    BY DEF PushInv, LocalTypes, Places, ClaimLiveEvents, storeVars, Goto, Sending
  <1>7. Slots' /\ OneCardPerSession'
    BY DEF PushInv, LocalTypes, Slots, OneCardPerSession, ClaimLiveEvents, Goto
  <1> QED BY <1>3, <1>4, <1>5, <1>6, <1>7 DEF PushRest

LEMMA NextEventKeeps ==
  ASSUME PushInv, NEW i \in Pushers, NEW k \in DOMAIN events, NextEvent(i, k)
  PROVE  PushRest'
  <1>1. QueueTypes'
    BY DEF PushInv, QueueTypes, NextEvent, storeVars, tables
  <1>2. CardTypes'
    BY DEF PushInv, CardTypes, SessionRow, NextEvent, tables
  <1>3. LocalTypes'
    BY DEF PushInv, LocalTypes, NextEvent, storeVars, tables, Goto, Place
  <1>4. k # 0
    BY DEF PushInv, StoreTypeOK
  <1>5. Places'
    BY <1>4 DEF PushInv, LocalTypes, Places, NextEvent, storeVars, tables, Goto, Sending
  <1>6. Slots' /\ OneCardPerSession'
    BY DEF PushInv, LocalTypes, Slots, OneCardPerSession, NextEvent, tables, Goto
  <1> QED BY <1>1, <1>2, <1>3, <1>5, <1>6 DEF PushRest

LEMMA RecheckKeeps ==
  ASSUME PushInv, NEW i \in Pushers, Recheck(i)
  PROVE  PushRest'
  <1>1. QueueTypes'
    BY DEF PushInv, QueueTypes, Recheck, storeVars, tables
  <1>2. CardTypes'
    BY DEF PushInv, CardTypes, SessionRow, Recheck, tables
  <1>3. LocalTypes'
    BY DEF PushInv, LocalTypes, Recheck, storeVars, tables, Goto, Place
  <1>4. Places'
    BY DEF PushInv, LocalTypes, Places, Recheck, storeVars, tables, Goto, Sending
  <1>5. Slots' /\ OneCardPerSession'
    BY DEF PushInv, LocalTypes, Slots, OneCardPerSession, Recheck, tables, Goto
  <1> QED BY <1>1, <1>2, <1>3, <1>4, <1>5 DEF PushRest

LEMMA ListAudienceKeeps ==
  ASSUME PushInv, NEW i \in Pushers, ListAudience(i)
  PROVE  PushRest'
  <1>1. QueueTypes'
    BY DEF PushInv, QueueTypes, ListAudience, storeVars, tables
  <1>2. CardTypes'
    BY DEF PushInv, CardTypes, SessionRow, ListAudience, tables
  <1>3. LocalTypes'
    BY DEF PushInv, LocalTypes, ListAudience, StartAudience, storeVars, tables, Goto, Place
  <1>4. Places'
    BY DEF PushInv, LocalTypes, Places, ListAudience, StartAudience, storeVars, tables, Goto,
           Sending
  <1>5. Slots' /\ OneCardPerSession'
    BY DEF PushInv, LocalTypes, Slots, OneCardPerSession, ListAudience, tables, Goto
  <1> QED BY <1>1, <1>2, <1>3, <1>4, <1>5 DEF PushRest

LEMMA ListSessionsKeeps ==
  ASSUME PushInv, NEW i \in Pushers, ListSessions(i)
  PROVE  PushRest'
  <1>1. QueueTypes'
    BY DEF PushInv, QueueTypes, ListSessions, storeVars, tables
  <1>2. CardTypes'
    <2> DEFINE found == OpenSessionsForMatch(events[event[i]].match)
    <2>1. found \in SUBSET [id : DOMAIN sessions, token : DOMAIN cards \cup {NoToken}]
      <3>1. \A s \in DOMAIN sessions : sessions[s].token \in DOMAIN cards \cup {NoToken}
        BY Rows DEF PushInv
      <3> QED BY <3>1 DEF OpenSessionsForMatch, ReadSession
    <2>2. UNCHANGED <<sessions, cards>> /\ closing' = [closing EXCEPT ![i] = found]
      BY DEF ListSessions, tables
    <2> QED BY <2>1, <2>2 DEF PushInv, CardTypes, SessionRow
  <1>3. LocalTypes'
    BY DEF PushInv, LocalTypes, ListSessions, storeVars, tables, Goto, Place
  <1>4. Places'
    BY DEF PushInv, LocalTypes, Places, ListSessions, storeVars, tables, Goto, Sending
  <1>5. Slots' /\ OneCardPerSession'
    BY DEF PushInv, LocalTypes, Slots, OneCardPerSession, ListSessions, tables, Goto
  <1> QED BY <1>1, <1>2, <1>3, <1>4, <1>5 DEF PushRest

(* A slot is taken: it is the last row, and the only open one.             *)
LEMMA OpenSessionKeeps ==
  ASSUME PushInv, NEW i \in Pushers, NEW u \in Users, OpenSession(i, u)
  PROVE  PushRest'
  <1>1. QueueTypes'
    BY DEF PushInv, QueueTypes, OpenSession, storeVars
  <1>2. u \in targets[i] /\ pc[i] = "each" /\ lock = i
    BY DEF OpenSession, PushInv, Places, LocalTypes
  <1>3. CASE sessions' = sessions
    <2>1. /\ UNCHANGED <<sessions, slot, pc>>
          /\ targets' = [targets EXCEPT ![i] = @ \ {u}]
      <3>1. sessions' # Append(sessions, NewSession(u, events[event[i]].match, now[i]))
        BY <1>3, Rows DEF PushInv, CardTypes
      <3> QED BY <3>1 DEF OpenSession
    <2>2. CardTypes'
      BY <2>1 DEF PushInv, CardTypes, SessionRow, OpenSession
    <2>3. LocalTypes'
      BY <2>1 DEF PushInv, LocalTypes, OpenSession, storeVars
    <2>4. Places'
      BY <1>2, <2>1 DEF PushInv, LocalTypes, Places, OpenSession, storeVars, Sending
    <2>5. Slots' /\ OneCardPerSession'
      BY <2>1 DEF PushInv, Slots, OneCardPerSession, OpenSession
    <2> QED BY <1>1, <2>2, <2>3, <2>4, <2>5 DEF PushRest
  <1>4. CASE sessions' # sessions
    <2> DEFINE m == events[event[i]].match
               n == Len(sessions) + 1
               row == NewSession(u, m, now[i])
    <2>1. /\ OpenFor(u, m) = {}
          /\ sessions' = Append(sessions, row)
          /\ slot' = [slot EXCEPT ![i] = n]
          /\ pc' = [pc EXCEPT ![i] = "send"]
          /\ UNCHANGED targets
      BY <1>4 DEF OpenSession, Goto
    <2>2. event[i] # 0
      BY <1>2 DEF PushInv, Places
    <2>3. m \in Matches
      <3>1. event[i] \in DOMAIN events /\ events \in Seq(Event)
        BY <2>2 DEF PushInv, LocalTypes, StoreTypeOK
      <3>2. events[event[i]] \in Event
        BY <3>1
      <3> QED BY <3>2 DEF Event
    <2>4. row \in SessionRow /\ row.user = u /\ row.match = m /\ row.state = "open"
      BY <2>3 DEF NewSession, SessionRow, PushInv, LocalTypes
    <2> HIDE DEF m, row
    <2>5. /\ sessions' \in Seq(SessionRow) /\ DOMAIN sessions' = 1..n
          /\ n \in Nat \ {0} /\ n \notin DOMAIN sessions
          /\ DOMAIN sessions \subseteq DOMAIN sessions'
          /\ \A s \in DOMAIN sessions : sessions'[s] = sessions[s]
          /\ sessions'[n] = row
      BY <2>1, <2>4, Rows DEF PushInv, CardTypes
    <2>6. UNCHANGED <<cards, closing, devices, event, events, lock, batch, now, faults, failed,
                      reachable>>
      BY DEF OpenSession, storeVars
    <2>7. CardTypes'
      BY <2>5, <2>6 DEF PushInv, CardTypes, SessionRow
    <2>8. LocalTypes'
      BY <2>1, <2>5, <2>6 DEF PushInv, LocalTypes, Place
    <2>9. Places'
      BY <1>2, <2>1, <2>2, <2>4, <2>5, <2>6 DEF PushInv, LocalTypes, Places, Sending
    <2>10. Slots'
      <3>1. \A s \in DOMAIN sessions : sessions[s].user = u /\ sessions[s].match = m
                                       => sessions[s].state # "open"
        BY <2>1 DEF OpenFor
      <3>2. \A j \in Pushers : j # i => pc'[j] # "send" /\ slot'[j] = slot[j]
        BY <1>2, <2>1 DEF PushInv, Places, LocalTypes
      <3>3. slot'[i] = n
        BY <2>1 DEF PushInv, LocalTypes
      <3>4. \A c \in DOMAIN cards :
              cards[c].known =>
                LET s == cards[c].session
                IN  /\ s \in DOMAIN sessions' /\ sessions'[s] = sessions[s]
                    /\ \A j \in Pushers : slot'[j] # s
        BY <2>5, <3>2, <3>3 DEF PushInv, Slots
      <3>5. \A c \in DOMAIN cards' :
              cards'[c].known =>
                LET s == cards'[c].session
                IN  /\ s \in DOMAIN sessions'
                    /\ sessions'[s].user = cards'[c].user
                    /\ sessions'[s].match = cards'[c].match
                    /\ sessions'[s].state # "deleted"
                    /\ \A j \in Pushers : slot'[j] # s
        BY <2>6, <3>4 DEF PushInv, Slots
      <3>6. \A s \in DOMAIN sessions' \ {n} : s \in DOMAIN sessions
        BY <2>5, Rows DEF PushInv
      <3> QED BY <2>4, <2>5, <3>1, <3>2, <3>3, <3>5, <3>6 DEF Slots
    <2>11. OneCardPerSession'
      BY <2>5, <2>6 DEF PushInv, Slots, OneCardPerSession
    <2> QED BY <1>1, <2>7, <2>8, <2>9, <2>10, <2>11 DEF PushRest
  <1> QED BY <1>3, <1>4

LEMMA OpenSessionFailsKeeps ==
  ASSUME PushInv, NEW i \in Pushers, NEW u \in Users, OpenSessionFails(i, u)
  PROVE  PushRest'
  <1>1. faults' \in 0..MaxFaults
    BY FaultTypes DEF PushInv, LocalTypes, OpenSessionFails
  <1>2. QueueTypes'
    BY DEF PushInv, QueueTypes, OpenSessionFails, storeVars, tables
  <1>3. CardTypes'
    BY DEF PushInv, CardTypes, SessionRow, OpenSessionFails, tables
  <1>4. LocalTypes'
    BY <1>1 DEF PushInv, LocalTypes, OpenSessionFails, storeVars, tables
  <1>5. Places'
    BY DEF PushInv, LocalTypes, Places, OpenSessionFails, storeVars, tables, Sending
  <1>6. Slots' /\ OneCardPerSession'
    BY DEF PushInv, Slots, OneCardPerSession, OpenSessionFails, tables
  <1> QED BY <1>2, <1>3, <1>4, <1>5, <1>6 DEF PushRest

(* Apple's answer; only a confirmed push leaves a card that counts.        *)
LEMMA SendStartKeeps ==
  ASSUME PushInv, NEW i \in Pushers, NEW answer \in Answer, SendStart(i, answer)
  PROVE  PushRest'
  <1> DEFINE s0 == slot[i]
             u0 == sessions[s0].user
  <1>1. /\ pc[i] = "send" /\ lock = i /\ event[i] # 0 /\ s0 # 0
        /\ u0 \in targets[i] /\ devices[u0] > 0
    BY DEF SendStart, PushInv, Places, Sending
  <1>2. /\ s0 \in DOMAIN sessions /\ u0 \in Users
        /\ sessions[s0].match \in Matches
        /\ event[i] \in Nat \ {0} /\ s0 \in Nat \ {0}
    <2>1. s0 \in DOMAIN sessions /\ event[i] \in DOMAIN events
      BY <1>1 DEF PushInv, LocalTypes
    <2>2. DOMAIN events = 1..Len(events) /\ Len(events) \in Nat
      BY DEF PushInv, StoreTypeOK
    <2> QED BY <1>1, <2>1, <2>2, Rows DEF PushInv
  <1>3. /\ targets' = [targets EXCEPT ![i] = @ \ {u0}]
        /\ failed' = [failed EXCEPT ![i] = @ \/ answer \in {"lost", "refused"}]
        /\ Light(s0, event[i], answer)
        /\ DropToken(u0, answer)
        /\ \/ answer = "ok" /\ slot' = [slot EXCEPT ![i] = 0] /\ pc' = [pc EXCEPT ![i] = "each"]
           \/ answer # "ok" /\ slot' = slot /\ pc' = [pc EXCEPT ![i] = "release"]
        /\ UNCHANGED <<storeVars, claimed, attempts, consumed, sessions, lock, now, batch,
                       event, reachable, closing>>
    BY DEF SendStart, Goto
  <1>4. /\ faults' \in 0..MaxFaults /\ devices' \in [Users -> 0..MaxTokens]
        /\ \A u \in Users \ {u0} : devices'[u] = devices[u]
    <2>1. CASE answer = "gone" /\ Fault /\ devices' = [devices EXCEPT ![u0] = @ - 1]
      BY <1>1, <1>2, <2>1, FaultTypes, Constants DEF PushInv, LocalTypes, Places
    <2>2. CASE answer = "gone" /\ Fault /\ UNCHANGED devices
      BY <2>2, FaultTypes DEF PushInv, LocalTypes, Places
    <2>3. CASE UNCHANGED <<devices, faults>>
      BY <2>3 DEF PushInv, LocalTypes, Places
    <2> QED BY <1>3, <2>1, <2>2, <2>3 DEF DropToken
  <1> DEFINE card == [user |-> u0, match |-> sessions[s0].match, event |-> event[i],
                      session |-> s0, lit |-> TRUE, known |-> answer = "ok"]
  <1>5. \/ cards' = cards /\ answer # "ok"
        \/ cards' = Append(cards, card)
    BY <1>3 DEF Light
  <1>6. card \in Card
    BY <1>2 DEF Card
  <1>7. card.known = (answer = "ok") /\ card.session = s0 /\ card.user = u0
        /\ card.match = sessions[s0].match
    OBVIOUS
  <1> HIDE DEF card, s0, u0
  <1>8. /\ cards' \in Seq(Card)
        /\ DOMAIN cards \subseteq DOMAIN cards'
        /\ \A c \in DOMAIN cards : cards'[c] = cards[c]
        /\ \A c \in DOMAIN cards' \ DOMAIN cards : cards'[c] = card
        /\ \A c \in DOMAIN cards, d \in DOMAIN cards' \ DOMAIN cards : c < d
        /\ \A c, d \in DOMAIN cards' \ DOMAIN cards : c = d
        /\ answer # "ok" => \A c \in DOMAIN cards' : cards'[c].known => c \in DOMAIN cards
    <2>1. cards \in Seq(Card)
      BY DEF PushInv, CardTypes
    <2>2. CASE cards' = cards
      BY <2>1, <2>2, Rows DEF PushInv
    <2>3. CASE cards' = Append(cards, card)
      <3>1. /\ cards' \in Seq(Card) /\ DOMAIN cards' = 1..(Len(cards) + 1)
            /\ \A c \in 1..Len(cards) : cards'[c] = cards[c]
            /\ cards'[Len(cards) + 1] = card
        BY <1>6, <2>1, <2>3
      <3>2. Len(cards) \in Nat /\ DOMAIN cards = 1..Len(cards)
        BY Rows DEF PushInv
      <3>3. DOMAIN cards' \ DOMAIN cards = {Len(cards) + 1}
        BY <3>1, <3>2
      <3>4. answer # "ok" => ~card.known
        BY <1>7
      <3>5. answer # "ok" => \A c \in DOMAIN cards' : cards'[c].known => c \in DOMAIN cards
        BY <3>1, <3>3, <3>4
      <3> QED BY <3>1, <3>2, <3>3, <3>5
    <2> QED BY <1>5, <2>2, <2>3
  <1>9. QueueTypes'
    BY <1>3 DEF PushInv, QueueTypes, storeVars
  <1>10. CardTypes'
    <2>1. SessionRow \subseteq SessionRow'
      BY <1>8 DEF SessionRow
    <2>2. sessions \in Seq(SessionRow')
      BY <2>1, Rows DEF PushInv, CardTypes
    <2> QED BY <1>3, <1>8, <2>2 DEF PushInv, CardTypes
  <1>11. LocalTypes'
    BY <1>3, <1>4 DEF PushInv, LocalTypes, storeVars, Place
  <1>12. Places'
    <2>1. \A u \in Users : u # u0 => devices'[u] = devices[u]
      BY <1>4
    <2>2. \A j \in Pushers : j # i => targets[j] = {}
      BY <1>1 DEF PushInv, Places
    <2>3. \A j \in Pushers : targets'[j] \subseteq targets[j] \ {u0}
      BY <1>3, <2>2 DEF PushInv, LocalTypes
    <2>4. \A j \in Pushers : \A u \in targets'[j] : devices'[u] > 0
      BY <2>1, <2>3 DEF PushInv, Places, LocalTypes
    <2> QED BY <1>1, <1>3, <1>4, <2>3, <2>4 DEF PushInv, LocalTypes, Places, storeVars, Sending
  <1>13. \A j \in Pushers : j # i => pc'[j] = pc[j] /\ pc[j] # "send" /\ slot[j] = 0
    BY <1>1, <1>3 DEF PushInv, Places, LocalTypes, Sending
  <1>14. Slots'
    <2>1. \A j \in Pushers : pc'[j] # "send"
      BY <1>3, <1>13 DEF PushInv, LocalTypes
    <2>2. \A c \in DOMAIN cards :
            cards[c].known => \A j \in Pushers : slot'[j] # cards[c].session
      BY <1>3, Rows DEF PushInv, Slots, LocalTypes
    <2>3. answer = "ok" => \A j \in Pushers : slot'[j] # s0
      BY <1>2, <1>3, <1>13 DEF PushInv, LocalTypes
    <2>4. sessions[s0].state # "deleted"
      BY <1>1 DEF PushInv, Slots, s0
    <2> QED BY <1>2, <1>3, <1>7, <1>8, <2>1, <2>2, <2>3, <2>4 DEF PushInv, Slots, u0
  <1>15. OneCardPerSession'
    <2>1. \A c \in DOMAIN cards :
            cards[c].known /\ cards[c].user = u0 /\ cards[c].match = sessions[s0].match
            => sessions[cards[c].session].state = "ended"
      <3>1. \A c \in DOMAIN cards :
              cards[c].known =>
                /\ cards[c].session \in DOMAIN sessions
                /\ sessions[cards[c].session].user = cards[c].user
                /\ sessions[cards[c].session].match = cards[c].match
                /\ sessions[cards[c].session].state # "deleted"
                /\ cards[c].session # s0
        BY DEF PushInv, Slots, s0
      <3>2. \A s \in DOMAIN sessions \ {s0} :
              sessions[s].user = u0 /\ sessions[s].match = sessions[s0].match
              => sessions[s].state # "open"
        BY <1>1 DEF PushInv, Slots, s0, u0
      <3> QED BY <3>1, <3>2, Rows DEF PushInv
    <2>2. ASSUME NEW c \in DOMAIN cards', NEW d \in DOMAIN cards', cards'[c].known, c < d,
                 cards'[c].user = cards'[d].user, cards'[c].match = cards'[d].match
          PROVE  sessions[cards'[c].session].state = "ended"
      <3>1. c \in DOMAIN cards
        <4>1. \A x \in DOMAIN cards : x \in Nat
          BY Rows DEF PushInv
        <4>2. \A x \in DOMAIN cards' : x \in Nat
          BY <1>8
        <4> QED BY <1>8, <2>2, <4>1, <4>2
      <3>2. CASE d \in DOMAIN cards
        BY <1>8, <2>2, <3>1, <3>2 DEF PushInv, OneCardPerSession
      <3>3. CASE d \notin DOMAIN cards
        BY <1>7, <1>8, <2>1, <2>2, <3>1, <3>3
      <3> QED BY <3>2, <3>3
    <2> QED BY <1>3, <2>2 DEF OneCardPerSession
  <1> QED BY <1>9, <1>10, <1>11, <1>12, <1>14, <1>15 DEF PushRest

(* A session ends, a token is put on it, a slot is given back: the rows    *)
(* keep their follower and match, and none is opened again.                *)
LEMMA RowsUpdated ==
  ASSUME PushInv, DOMAIN sessions' = DOMAIN sessions, DOMAIN cards' = DOMAIN cards,
         \A c \in DOMAIN cards :
            /\ cards'[c].known = cards[c].known
            /\ cards'[c].session = cards[c].session
            /\ cards'[c].user = cards[c].user
            /\ cards'[c].match = cards[c].match,
         \A c \in DOMAIN cards : cards[c].known =>
            sessions'[cards[c].session].state \in {sessions[cards[c].session].state, "ended"},
         \A s \in DOMAIN sessions :
            /\ sessions'[s].user = sessions[s].user
            /\ sessions'[s].match = sessions[s].match
            /\ sessions'[s].state = "open" => sessions[s].state = "open",
         \A j \in Pushers : slot'[j] \in {slot[j], 0},
         \A j \in Pushers : pc'[j] = "send" =>
            /\ pc[j] = "send" /\ slot'[j] = slot[j] /\ slot[j] \in DOMAIN sessions
            /\ sessions'[slot[j]].state \in {sessions[slot[j]].state, "ended"}
  PROVE  Slots' /\ OneCardPerSession'
  <1>1. \A c \in DOMAIN cards : cards[c].known =>
          cards[c].session \in DOMAIN sessions /\ cards[c].session # 0
    BY Rows DEF PushInv, Slots
  <1>2. Slots'
    BY <1>1 DEF PushInv, Slots
  <1>3. OneCardPerSession'
    BY <1>1 DEF PushInv, OneCardPerSession
  <1> QED BY <1>2, <1>3

LEMMA ReleaseSlotKeeps ==
  ASSUME PushInv, NEW i \in Pushers, ReleaseSlot(i)
  PROVE  PushRest'
  <1>1. /\ pc[i] = "release" /\ slot[i] \in DOMAIN sessions /\ lock = i
    BY DEF ReleaseSlot, PushInv, Places, LocalTypes, Sending
  <1>2. QueueTypes'
    BY DEF PushInv, QueueTypes, ReleaseSlot, storeVars
  <1>3. faults' \in 0..MaxFaults
    BY FaultTypes DEF PushInv, LocalTypes, ReleaseSlot
  <1>4. /\ sessions' \in Seq(SessionRow) /\ DOMAIN sessions' = DOMAIN sessions
        /\ \A s \in DOMAIN sessions :
             /\ sessions'[s].user = sessions[s].user
             /\ sessions'[s].match = sessions[s].match
             /\ sessions'[s].state = "open" => sessions[s].state = "open"
             /\ s # slot[i] => sessions'[s] = sessions[s]
    <2>1. CASE UNCHANGED sessions
      BY <2>1 DEF PushInv, CardTypes
    <2>2. CASE sessions' = [sessions EXCEPT ![slot[i]].state = "deleted"]
      <3>1. [sessions[slot[i]] EXCEPT !.state = "deleted"] \in SessionRow
        BY <1>1, Rows DEF PushInv, SessionRow
      <3>2. sessions' = [sessions EXCEPT ![slot[i]] = [sessions[slot[i]] EXCEPT !.state = "deleted"]]
        BY <2>2
      <3>3. sessions' \in Seq(SessionRow)
        BY <1>1, <3>1, <3>2 DEF PushInv, CardTypes
      <3>4. sessions[slot[i]] \in SessionRow
        BY <1>1, Rows DEF PushInv
      <3> QED BY <1>1, <2>2, <3>3, <3>4 DEF SessionRow
    <2> QED BY <2>1, <2>2 DEF ReleaseSlot
  <1>5. CardTypes'
    BY <1>4 DEF PushInv, CardTypes, SessionRow, ReleaseSlot
  <1>6. LocalTypes'
    BY <1>3, <1>4 DEF PushInv, LocalTypes, ReleaseSlot, storeVars, Goto, Place
  <1>7. Places'
    BY <1>1, <1>4 DEF PushInv, LocalTypes, Places, ReleaseSlot, storeVars, Goto, Sending
  <1>8. Slots' /\ OneCardPerSession'
    <2>1. \A c \in DOMAIN cards : cards[c].known => cards[c].session # slot[i]
      BY DEF PushInv, Slots
    <2>2. \A c \in DOMAIN cards : cards[c].known => cards[c].session \in DOMAIN sessions
      BY DEF PushInv, Slots
    <2>3. \A j \in Pushers : pc'[j] # "send" /\ slot'[j] \in {slot[j], 0}
      BY <1>1 DEF PushInv, Places, LocalTypes, ReleaseSlot, Goto
    <2> QED BY <1>4, <2>1, <2>2, <2>3, RowsUpdated DEF ReleaseSlot
  <1> QED BY <1>2, <1>5, <1>6, <1>7, <1>8 DEF PushRest

LEMMA CloseKeeps ==
  ASSUME PushInv, NEW i \in Pushers, NEW s \in closing[i],
         CloseSession(i, s)
           \/ (failed' = [failed EXCEPT ![i] = TRUE] /\ UNCHANGED <<sessions, faults>>),
         cards' = cards \/ (s.token # NoToken /\ PutOutCard(s.token)),
         closing' = [closing EXCEPT ![i] = @ \ {s}],
         UNCHANGED <<storeVars, claimed, attempts, consumed, devices, lock, pc, now, batch,
                     event, targets, reachable, slot>>
  PROVE  PushRest'
  <1>1. s.id \in DOMAIN sessions /\ s.token \in DOMAIN cards \cup {NoToken}
    BY DEF PushInv, CardTypes
  <1>2. faults' \in 0..MaxFaults /\ failed' \in [Pushers -> BOOLEAN]
    BY FaultTypes DEF PushInv, LocalTypes, CloseSession
  <1>3. /\ sessions' \in Seq(SessionRow) /\ DOMAIN sessions' = DOMAIN sessions
        /\ \A x \in DOMAIN sessions :
             /\ sessions'[x].user = sessions[x].user
             /\ sessions'[x].match = sessions[x].match
             /\ sessions'[x].state \in {sessions[x].state, "ended"}
    <2>1. CASE UNCHANGED sessions
      BY <2>1 DEF PushInv, CardTypes
    <2> DEFINE to == IF sessions[s.id].state = "deleted" THEN "deleted" ELSE "ended"
               row == [sessions[s.id] EXCEPT !.state = to]
    <2>2. CASE sessions' = [sessions EXCEPT ![s.id] = row]
      <3>1. sessions[s.id] \in SessionRow
        BY <1>1, Rows DEF PushInv
      <3>2. row \in SessionRow
        BY <3>1 DEF SessionRow
      <3>3. /\ row.user = sessions[s.id].user /\ row.match = sessions[s.id].match
            /\ row.state \in {sessions[s.id].state, "ended"}
        BY <3>1 DEF SessionRow
      <3> HIDE DEF row
      <3>4. sessions' \in Seq(SessionRow)
        BY <1>1, <2>2, <3>2 DEF PushInv, CardTypes
      <3> QED BY <1>1, <2>2, <3>3, <3>4
    <2> QED BY <2>1, <2>2 DEF CloseSession
  <1>4. /\ cards' \in Seq(Card) /\ DOMAIN cards' = DOMAIN cards
        /\ \A c \in DOMAIN cards :
             /\ cards'[c].known = cards[c].known
             /\ cards'[c].session = cards[c].session
             /\ cards'[c].user = cards[c].user
             /\ cards'[c].match = cards[c].match
    <2>1. CASE cards' = cards
      BY <2>1 DEF PushInv, CardTypes
    <2> DEFINE card == [cards[s.token] EXCEPT !.lit = FALSE]
    <2>2. CASE s.token # NoToken /\ cards' = [cards EXCEPT ![s.token] = card]
      <3>1. s.token \in DOMAIN cards /\ cards[s.token] \in Card
        BY <1>1, <2>2, Rows DEF PushInv
      <3>2. card \in Card
        BY <3>1 DEF Card
      <3>3. /\ card.known = cards[s.token].known /\ card.session = cards[s.token].session
            /\ card.user = cards[s.token].user /\ card.match = cards[s.token].match
        BY <3>1 DEF Card
      <3> HIDE DEF card
      <3>4. cards' \in Seq(Card)
        BY <2>2, <3>1, <3>2 DEF PushInv, CardTypes
      <3> QED BY <2>2, <3>1, <3>3, <3>4
    <2> QED BY <2>1, <2>2 DEF PutOutCard
  <1>5. QueueTypes'
    BY DEF PushInv, QueueTypes, storeVars
  <1>6. CardTypes'
    <2>1. SessionRow = SessionRow'
      BY <1>4 DEF SessionRow
    <2> QED BY <1>3, <1>4, <2>1 DEF PushInv, CardTypes
  <1>7. LocalTypes'
    BY <1>2, <1>3 DEF PushInv, LocalTypes, storeVars
  <1>8. Places'
    BY <1>3 DEF PushInv, LocalTypes, Places, storeVars, Sending
  <1>9. Slots' /\ OneCardPerSession'
    <2>1. \A c \in DOMAIN cards : cards[c].known => cards[c].session \in DOMAIN sessions
      BY DEF PushInv, Slots
    <2>2. \A j \in Pushers : pc[j] = "send" => slot[j] \in DOMAIN sessions
      BY DEF PushInv, LocalTypes, Places, Sending
    <2> QED BY <1>3, <1>4, <2>1, <2>2, RowsUpdated
  <1> QED BY <1>5, <1>6, <1>7, <1>8, <1>9 DEF PushRest

LEMMA EndsKeep ==
  ASSUME PushInv, NEW i \in Pushers, NEW s \in closing[i], NEW answer \in Answer,
         CloseUnsent(i, s) \/ SendEnd(i, s, answer)
  PROVE  PushRest'
  <1>1. CASE CloseUnsent(i, s)
    BY <1>1, CloseKeeps DEF CloseUnsent
  <1>2. CASE SendEnd(i, s, answer)
    BY <1>2, CloseKeeps DEF SendEnd, EndPush
  <1> QED BY <1>1, <1>2

LEMMA EventEndKeeps ==
  ASSUME PushInv, NEW i \in Pushers, pc[i] \in {"start", "audience", "end", "done", "each"},
         consumed' = consumed \cup {event[i]} \/ UNCHANGED consumed,
         faults' \in 0..MaxFaults,
         event' = [event EXCEPT ![i] = 0],
         reachable' = [reachable EXCEPT ![i] = {}],
         pc' = [pc EXCEPT ![i] = "batch"],
         failed' \in {failed, [failed EXCEPT ![i] = FALSE]},
         UNCHANGED <<storeVars, claimed, attempts, sessions, devices, cards, lock, now, batch,
                     targets, closing, slot>>
  PROVE  PushRest'
  <1>1. event[i] \in DOMAIN events
    BY DEF PushInv, LocalTypes, Places
  <1>2. QueueTypes'
    BY <1>1 DEF PushInv, QueueTypes, storeVars
  <1>3. CardTypes'
    BY DEF PushInv, CardTypes, SessionRow
  <1>4. LocalTypes'
    BY DEF PushInv, LocalTypes, storeVars, Place
  <1>5. Places'
    BY DEF PushInv, LocalTypes, Places, storeVars, Sending
  <1>6. Slots' /\ OneCardPerSession'
    BY DEF PushInv, LocalTypes, Slots, OneCardPerSession
  <1> QED BY <1>2, <1>3, <1>4, <1>5, <1>6 DEF PushRest

LEMMA TickKeeps ==
  ASSUME PushInv, NEW i \in Pushers, Tick(i), clock' \in Times
  PROVE  PushRest'
  <1>1. Answers \subseteq Answer
    BY PushAssumption
  <1>2. faults \in 0..MaxFaults
    BY DEF PushInv, LocalTypes
  <1>3. ASSUME NEW k \in DOMAIN events, NextEvent(i, k) PROVE PushRest'
    BY <1>3, NextEventKeeps
  <1>4. ASSUME NEW u \in Users, OpenSession(i, u) \/ OpenSessionFails(i, u) PROVE PushRest'
    BY <1>4, OpenSessionKeeps, OpenSessionFailsKeeps
  <1>5. ASSUME NEW answer \in Answers, SendStart(i, answer) PROVE PushRest'
    BY <1>1, <1>5, SendStartKeeps
  <1>6. ASSUME NEW s \in closing[i], CloseUnsent(i, s) PROVE PushRest'
    <2>1. "ok" \in Answer
      BY DEF Answer
    <2> QED BY <1>6, <2>1, EndsKeep
  <1>7. ASSUME NEW s \in closing[i], NEW answer \in Answers, SendEnd(i, s, answer) PROVE PushRest'
    BY <1>1, <1>7, EndsKeep
  <1>8. CASE EndTick(i) \/ EndBatch(i)
    BY <1>2, <1>8, RestKeeps DEF EndTick, EndBatch
  <1>9. CASE BeginTick(i) \/ TakeLock(i) \/ ClaimLiveEvents(i) \/ Recheck(i)
             \/ ListAudience(i) \/ ListSessions(i) \/ ReleaseSlot(i)
    BY <1>9, BeginTickKeeps, TakeLockKeeps, ClaimKeeps, RecheckKeeps, ListAudienceKeeps,
       ListSessionsKeeps, ReleaseSlotKeeps
  <1>10. CASE Consume(i)
    BY <1>2, <1>10, EventEndKeeps DEF Consume, AllPushed, Goto
  <1>11. CASE FailEvent(i)
    BY <1>2, <1>11, EventEndKeeps DEF FailEvent, AllPushed, Goto, tables
  <1>12. CASE StatementFails(i)
    BY <1>2, <1>12, EventEndKeeps, FaultTypes DEF StatementFails, AllPushed, Goto, tables
  <1> QED BY <1>3, <1>4, <1>5, <1>6, <1>7, <1>8, <1>9, <1>10, <1>11, <1>12 DEF Tick

LEMMA IngestKeeps ==
  ASSUME PushInv, NEW m \in Matches, Raise(m) \/ Lower(m)
  PROVE  PushRest'
  <1>1. /\ NewEventRow
        /\ UNCHANGED <<consumed, sessions, devices, cards, lock, faults, localPush>>
    BY IngestWrites DEF PushInv
  <1>2. PICK kind \in {"live", "finished"} : events' = Append(events, EventOf(m, kind, clock'))
    BY IngestWrites DEF PushInv
  <1>3. /\ Len(events) \in Nat /\ DOMAIN events = 1..Len(events)
        /\ Len(events') = Len(events) + 1 /\ DOMAIN events' = 1..(Len(events) + 1)
        /\ \A k \in DOMAIN events : events'[k] = events[k]
    BY <1>2 DEF PushInv, StoreTypeOK
  <1>4. DOMAIN events \subseteq DOMAIN events'
    BY <1>3
  <1>5. QueueTypes'
    <2>1. claimed' \in Seq(Times \cup {Never}) /\ Len(claimed') = Len(claimed) + 1
      BY <1>1 DEF PushInv, QueueTypes, NewEventRow
    <2>2. attempts' \in Seq(0..MaxAttempts) /\ Len(attempts') = Len(attempts) + 1
      <3>1. 0 \in 0..MaxAttempts
        BY Constants
      <3> DEFINE Bound == 0..MaxAttempts
      <3>2. attempts \in Seq(Bound) /\ 0 \in Bound /\ attempts' = Append(attempts, 0)
        BY <1>1, <3>1 DEF PushInv, QueueTypes, NewEventRow
      <3> HIDE DEF Bound
      <3>3. attempts' \in Seq(Bound) /\ Len(attempts') = Len(attempts) + 1
        BY <3>2
      <3> QED BY <3>3 DEF Bound
    <2> QED BY <1>1, <1>3, <1>4, <2>1, <2>2 DEF PushInv, QueueTypes
  <1>6. CardTypes'
    BY <1>1 DEF PushInv, CardTypes, SessionRow, localPush
  <1>7. LocalTypes'
    BY <1>1, <1>4 DEF PushInv, LocalTypes, localPush
  <1>8. Places'
    <2>1. \A i \in Pushers : pc[i] = "start" => events'[event[i]].kind = "live"
      <3>1. \A i \in Pushers : pc[i] = "start" => event[i] \in DOMAIN events
        BY DEF PushInv, LocalTypes, Places
      <3> QED BY <1>3, <3>1 DEF PushInv, Places
    <2> QED BY <1>1, <2>1 DEF PushInv, Places, localPush
  <1>9. Slots' /\ OneCardPerSession'
    BY <1>1 DEF PushInv, Slots, OneCardPerSession, localPush
  <1> QED BY <1>5, <1>6, <1>7, <1>8, <1>9 DEF PushRest

LEMMA PhonesKeep == ASSUME PushInv, Phones PROVE PushRest'
  <1>1. ASSUME NEW u \in Users, RegisterPushToken(u) PROVE PushRest'
    <2>1. QueueTypes'
      BY <1>1 DEF PushInv, QueueTypes, RegisterPushToken, storeVars
    <2>2. CardTypes' /\ LocalTypes'
      BY <1>1 DEF PushInv, CardTypes, SessionRow, LocalTypes, RegisterPushToken, localPush,
                  storeVars
    <2>3. devices' \in [Users -> 0..MaxTokens] /\ \A x \in Users : devices'[x] >= devices[x]
      BY <1>1, Constants DEF PushInv, Places, RegisterPushToken
    <2>4. Places'
      <3>1. \A i \in Pushers : \A x \in targets[i] : x \in Users /\ devices[x] \in Nat
        BY DEF PushInv, Places, LocalTypes
      <3>2. \A i \in Pushers : \A x \in targets[i] : devices'[x] > 0
        BY <2>3, <3>1 DEF PushInv, Places
      <3> QED BY <1>1, <2>3, <3>2 DEF PushInv, Places, RegisterPushToken, localPush, storeVars
    <2>5. Slots' /\ OneCardPerSession'
      BY <1>1 DEF PushInv, Slots, OneCardPerSession, RegisterPushToken, localPush
    <2> QED BY <2>1, <2>2, <2>4, <2>5 DEF PushRest
  <1>2. ASSUME NEW c \in DOMAIN cards, RegisterActivityToken(c) PROVE PushRest'
    <2>1. PICK s \in DOMAIN sessions : sessions' = [sessions EXCEPT ![s].token = c]
      BY <1>2 DEF RegisterActivityToken, OpenFor
    <2>2. UNCHANGED <<storeVars, clock, claimed, attempts, consumed, devices, cards,
                      lock, faults, localPush>>
      BY <1>2 DEF RegisterActivityToken
    <2> DEFINE row == [sessions[s] EXCEPT !.token = c]
    <2>3. sessions[s] \in SessionRow
      BY Rows DEF PushInv
    <2>4. /\ row \in SessionRow /\ row.user = sessions[s].user
          /\ row.match = sessions[s].match /\ row.state = sessions[s].state
      BY <2>3 DEF SessionRow
    <2>5. sessions' = [sessions EXCEPT ![s] = row]
      BY <2>1
    <2> HIDE DEF row
    <2>6. /\ sessions' \in Seq(SessionRow) /\ DOMAIN sessions' = DOMAIN sessions
          /\ \A x \in DOMAIN sessions :
               /\ sessions'[x].user = sessions[x].user
               /\ sessions'[x].match = sessions[x].match
               /\ sessions'[x].state = sessions[x].state
      <3>1. sessions' \in Seq(SessionRow)
        BY <2>4, <2>5 DEF PushInv, CardTypes
      <3> QED BY <2>4, <2>5, <3>1
    <2>7. QueueTypes'
      BY <2>2 DEF PushInv, QueueTypes, storeVars
    <2>8. CardTypes'
      <3>1. SessionRow' = SessionRow
        BY <2>2 DEF SessionRow
      <3> QED BY <2>2, <2>6, <3>1 DEF PushInv, CardTypes, localPush
    <2>9. LocalTypes' /\ Places'
      BY <2>2, <2>6 DEF PushInv, LocalTypes, Places, localPush, storeVars, Sending
    <2>10. Slots' /\ OneCardPerSession'
      <3>1. \A x \in DOMAIN cards : cards[x].known => cards[x].session \in DOMAIN sessions
        BY DEF PushInv, Slots
      <3>2. \A j \in Pushers : pc[j] = "send" => slot[j] \in DOMAIN sessions
        BY DEF PushInv, LocalTypes, Places, Sending
      <3> QED BY <2>2, <2>6, <3>1, <3>2, RowsUpdated DEF localPush
    <2> QED BY <2>7, <2>8, <2>9, <2>10 DEF PushRest
  <1> QED BY <1>1, <1>2 DEF Phones

LEMMA PipelinesKeep == ASSUME PushInv, Pipelines PROVE PushRest'
  <1>1. UNCHANGED <<flags, events, clock, claimed, attempts, consumed, sessions, devices,
                    cards, lock, faults, localPush>>
    BY PipelineKeeps
  <1>2. QueueTypes' /\ CardTypes' /\ LocalTypes'
    BY <1>1 DEF PushInv, QueueTypes, CardTypes, SessionRow, LocalTypes, localPush
  <1>3. Places' /\ Slots' /\ OneCardPerSession'
    BY <1>1 DEF PushInv, Places, Slots, OneCardPerSession, localPush
  <1> QED BY <1>2, <1>3 DEF PushRest

LEMMA PushStep == ASSUME PushInv, [PushNext]_pushVars PROVE PushInv'
  <1>1. OutboxOrder'
    BY OutboxOrderKept DEF PushInv
  <1>2. StoreTypeOK'
    <2>1. ASSUME Ingests PROVE StoreNext \/ UNCHANGED storeVars
      BY <2>1, IngestWrites DEF Ingests, PushInv
    <2>2. [StoreNext]_storeVars
      BY <2>1, OnlyIngestWrites, PipelineKeeps
    <2> QED BY <2>2, StoreTypeStep DEF PushInv
  <1>3. clock' \in Times
    BY <1>1 DEF OutboxOrder
  <1>4. CASE UNCHANGED pushVars
    <2>1. UNCHANGED <<storeVars, clock, claimed, attempts, consumed, sessions, devices, cards,
                      lock, faults, localPush>>
      BY <1>4 DEF pushVars, tables
    <2>2. QueueTypes' /\ CardTypes' /\ LocalTypes'
      BY <2>1 DEF PushInv, QueueTypes, CardTypes, SessionRow, LocalTypes, localPush, storeVars
    <2>3. Places' /\ Slots' /\ OneCardPerSession'
      BY <2>1 DEF PushInv, Places, Slots, OneCardPerSession, localPush, storeVars
    <2> QED BY <1>1, <1>2, <2>2, <2>3 DEF PushInv
  <1>5. ASSUME NEW i \in Pushers, Crash(i) PROVE PushRest'
    <2>1. faults' \in 0..MaxFaults
      BY <1>5, FaultTypes DEF PushInv, LocalTypes, Crash
    <2> QED BY <1>5, <2>1, RestKeeps DEF Crash
  <1>6. ASSUME NEW i \in Pushers, Tick(i) PROVE PushRest'
    BY <1>3, <1>6, TickKeeps
  <1>7. ASSUME NEW m \in Matches, Raise(m) \/ Lower(m) PROVE PushRest'
    BY <1>7, IngestKeeps
  <1>8. CASE PushNext
    <2>1. PushRest'
      BY <1>5, <1>6, <1>7, <1>8, PhonesKeep, PipelinesKeep DEF PushNext, Phones, Pipelines
    <2> QED BY <1>1, <1>2, <2>1 DEF PushInv, PushRest
  <1> QED BY <1>4, <1>8

LEMMA PushStart == PushInit => PushInv
  <1> SUFFICES ASSUME PushInit PROVE PushInv
    OBVIOUS
  <1>1. StoreTypeOK
    BY StoreAssumption DEF PushInit, StoreInit, StoreTypeOK, Status
  <1>2. events = <<>> /\ claimed = <<>> /\ attempts = <<>> /\ sessions = <<>> /\ cards = <<>>
    BY DEF PushInit, StoreInit
  <1>3. OutboxOrder
    BY <1>2, Constants DEF PushInit, StoreInit, OutboxOrder
  <1>4. QueueTypes
    BY <1>2 DEF PushInit, QueueTypes
  <1>5. CardTypes
    BY <1>2 DEF PushInit, CardTypes
  <1>6. LocalTypes
    BY Constants DEF PushInit, LocalTypes, Place
  <1>7. Places
    BY Constants DEF PushInit, Places, Sending
  <1>8. Slots /\ OneCardPerSession
    BY <1>2 DEF PushInit, Slots, OneCardPerSession
  <1> QED BY <1>1, <1>3, <1>4, <1>5, <1>6, <1>7, <1>8 DEF PushInv

LEMMA PushInvariant == PushSpec => []PushInv
  BY PushStart, PushStep, PTL DEF PushSpec

-----------------------------------------------------------------------------
(* The types of the pusher: among others no event is claimed more often    *)
(* than PUSH_MAX_ATTEMPTS allows.                                          *)
THEOREM PushTypeCorrect == PushSpec => []PushTypeOK
  BY PushInvariant, TypesOfPush, PTL

(* Any number of instances, followers, refusals, retries and crashes: no   *)
(* second card beside the confirmed one whose session is open.             *)
THEOREM CardsPerSession == PushSpec => []OneCardPerSession
  <1>1. PushInv => OneCardPerSession
    BY DEF PushInv
  <1> QED BY <1>1, PushInvariant, PTL

(* To the tables of the live store the pusher only adds readers.           *)
THEOREM PushImplementsStore == PushSpec => StoreSpec
  <1>1. PushInit => StoreInit
    BY DEF PushInit
  <1>2. PushInv /\ [PushNext]_pushVars => [StoreNext]_storeVars
    BY IngestWrites, OnlyIngestWrites, PipelineKeeps DEF PushInv, Ingests
  <1> QED BY <1>1, <1>2, PushInvariant, PTL DEF PushSpec, StoreSpec

-----------------------------------------------------------------------------
(* Nothing but the re-check takes a pusher from there on.                  *)
LEMMA OnlyRecheck ==
  ASSUME PushInv, [PushNext]_pushVars, NEW i \in Pushers,
         pc[i] = "start", pc'[i] \in {"audience", "done"}
  PROVE  Recheck(i) /\ UNCHANGED storeVars
  <1>1. pc \in [Pushers -> Place] /\ pc'[i] # pc[i]
    BY DEF PushInv, LocalTypes
  <1>2. ASSUME NEW j \in Pushers, Tick(j) PROVE Recheck(i)
    <2>1. ASSUME NEW k, NextEvent(j, k) PROVE FALSE
      BY <1>1, <2>1 DEF NextEvent, Goto
    <2>2. ASSUME NEW u, OpenSession(j, u) \/ OpenSessionFails(j, u) PROVE FALSE
      BY <1>1, <2>2 DEF OpenSession, OpenSessionFails, Goto
    <2>3. ASSUME NEW answer, SendStart(j, answer) PROVE FALSE
      BY <1>1, <2>3 DEF SendStart, Goto
    <2>4. ASSUME NEW s, NEW answer, CloseUnsent(j, s) \/ SendEnd(j, s, answer) PROVE FALSE
      BY <1>1, <2>4 DEF CloseUnsent, SendEnd
    <2>5. CASE BeginTick(j) \/ EndTick(j) \/ TakeLock(j) \/ ClaimLiveEvents(j) \/ EndBatch(j)
      BY <1>1, <2>5 DEF BeginTick, EndTick, TakeLock, ClaimLiveEvents, EndBatch, Rest, Goto
    <2>6. CASE ListAudience(j) \/ ReleaseSlot(j) \/ ListSessions(j) \/ Consume(j)
               \/ FailEvent(j) \/ StatementFails(j)
      BY <1>1, <2>6 DEF ListAudience, ReleaseSlot, ListSessions, Consume, FailEvent,
                        StatementFails, AllPushed, Goto
    <2>7. CASE Recheck(j)
      BY <1>1, <2>7 DEF Recheck, Goto
    <2> QED BY <1>2, <2>1, <2>2, <2>3, <2>4, <2>5, <2>6, <2>7 DEF Tick
  <1>3. ASSUME NEW j \in Pushers, Crash(j) PROVE FALSE
    BY <1>1, <1>3 DEF Crash, Rest, Goto
  <1>4. ASSUME Phones PROVE FALSE
    BY <1>1, <1>4 DEF Phones, RegisterPushToken, RegisterActivityToken, localPush
  <1>5. ASSUME NEW m \in Matches, Raise(m) \/ Lower(m) PROVE FALSE
    BY <1>1, <1>5 DEF Raise, Lower, localPush
  <1>6. ASSUME UNCHANGED pushVars \/ Pipelines PROVE FALSE
    BY <1>1, <1>6, PipelineKeeps DEF pushVars, localPush
  <1>7. Recheck(i)
    BY <1>2, <1>3, <1>4, <1>5, <1>6 DEF PushNext, Phones, Pipelines
  <1> QED BY <1>7 DEF Recheck

(* A flag has been announced, and by the last transition of its match.     *)
LastAnnounced ==
  \A m \in Matches :
    flags[m] # NoFlag =>
      \E k \in Transitions(m) : \A j \in Transitions(m) : j <= k

LEMMA LastAnnouncedKept ==
  ASSUME StoreTypeOK, OutboxOrder, LastAnnounced, [PushNext]_pushVars
  PROVE  LastAnnounced'
  <1>1. CASE UNCHANGED <<flags, events>>
    BY <1>1 DEF LastAnnounced, Transitions
  <1>2. ASSUME NEW m \in Matches, Raise(m) \/ Lower(m) PROVE LastAnnounced'
    <2> SUFFICES ASSUME NEW x \in Matches, flags'[x] # NoFlag
                 PROVE  \E k \in Transitions(x)' : \A j \in Transitions(x)' : j <= k
      BY DEF LastAnnounced
    <2>1. PICK kind \in {"live", "finished"} : events' = Append(events, EventOf(m, kind, clock'))
      BY <1>2, IngestWrites
    <2> DEFINE e == EventOf(m, kind, clock')
    <2>2. clock' \in Times
      BY <1>2, IngestWrites
    <2>3. e \in Event /\ e.match = m /\ e.kind \in {"live", "finished"}
      BY <2>1, <2>2 DEF EventOf, Event
    <2> HIDE DEF e
    <2>4. /\ Transitions(x)' = IF m = x THEN Transitions(x) \cup {Len(events) + 1}
                               ELSE Transitions(x)
          /\ Transitions(x) \subseteq 1..Len(events)
      BY <2>1, <2>3, AppendAnnounces DEF StoreTypeOK, e
    <2>5. Len(events) \in Nat
      BY DEF StoreTypeOK
    <2>6. CASE x = m
      BY <2>4, <2>5, <2>6
    <2>7. CASE x # m
      <3>1. flags'[x] = flags[x]
        BY <1>2, <2>7 DEF Raise, Lower, FlipLive, FlipOut, StoreTypeOK
      <3> QED BY <2>4, <2>7, <3>1 DEF LastAnnounced
    <2> QED BY <2>6, <2>7
  <1> QED BY <1>1, <1>2, OnlyIngestWrites DEF Ingests

LEMMA LastAnnouncedInvariant == PushSpec => []LastAnnounced
  <1>1. PushInit => LastAnnounced
    BY DEF PushInit, StoreInit, LastAnnounced
  <1>2. PushInv /\ LastAnnounced /\ [PushNext]_pushVars => LastAnnounced'
    BY LastAnnouncedKept DEF PushInv
  <1> QED BY <1>1, <1>2, PushInvariant, PTL DEF PushSpec

(* Two instants decide what the whole outbox would say.                    *)
LEMMA StillLiveIsLast ==
  ASSUME PushInv, OutboxAgrees, LastAnnounced, NEW k \in DOMAIN events,
         events[k].kind = "live"
  PROVE  /\ events[k].match \in Matches /\ k \in Transitions(events[k].match)
         /\ MatchStillLive(k) <=> /\ status[events[k].match] = "live"
                                  /\ \A j \in Transitions(events[k].match) : j <= k
  <1> DEFINE m == events[k].match
  <1>1. events[k] \in Event /\ events[k].at \in Nat
    <2>1. events \in Seq(Event)
      BY DEF PushInv, StoreTypeOK
    <2>2. events[k] \in Event
      BY <2>1
    <2> QED BY <2>2, StoreAssumption DEF Event
  <1>2. m \in Matches /\ k \in Transitions(m)
    BY <1>1 DEF Event, Transitions
  <1>3. /\ DOMAIN events \subseteq Nat
        /\ \A x \in DOMAIN events : events[x].at \in Nat
    <2>1. events \in Seq(Event)
      BY DEF PushInv, StoreTypeOK
    <2>2. DOMAIN events = 1..Len(events) /\ Len(events) \in Nat
      BY <2>1
    <2>3. \A x \in DOMAIN events : events[x] \in Event
      BY <2>1, <2>2
    <2>4. \A e \in Event : e.at \in Nat
      BY StoreAssumption DEF Event
    <2> QED BY <2>2, <2>3, <2>4
  <1>4. ASSUME MatchStillLive(k), NEW j \in Transitions(m) PROVE j <= k
    <2>1. flags[m] # NoFlag /\ flags[m].flippedAt <= events[k].at
      BY <1>4 DEF MatchStillLive
    <2>2. PICK last \in Transitions(m) : \A x \in Transitions(m) : x <= last
      BY <1>2, <2>1 DEF LastAnnounced
    <2>3. events[last].at = flags[m].flippedAt
      BY <1>2, <2>1, <2>2 DEF OutboxAgrees
    <2>4. last \in DOMAIN events /\ j \in DOMAIN events
      BY DEF Transitions
    <2>5. ~(k < last)
      BY <1>3, <2>1, <2>3, <2>4 DEF PushInv, OutboxOrder
    <2> QED BY <1>3, <2>2, <2>4, <2>5
  <1>5. ASSUME status[m] = "live", \A j \in Transitions(m) : j <= k PROVE MatchStillLive(k)
    <2>1. flags[m] # NoFlag /\ events[k].at = flags[m].flippedAt
      BY <1>2, <1>5 DEF OutboxAgrees
    <2> QED BY <1>1, <1>5, <2>1 DEF MatchStillLive
  <1> QED BY <1>2, <1>4, <1>5 DEF MatchStillLive

LEMMA OutboxAgreesHere == PushSpec => []OutboxAgrees
  BY PushImplementsStore, OutboxAlwaysAgrees, PTL

(* Whatever the pipeline makes of the rows, the re-check compares two      *)
(* instants and decides by them what the outbox would say: of a row that   *)
(* is still live, that no later transition was announced.                  *)
THEOREM RecheckDecides == PushSpec => RecheckIsExact
  <1> DEFINE Exact ==
        \A i \in Pushers :
          pc[i] = "start" /\ pc'[i] \in {"audience", "done"} =>
            (pc'[i] = "audience" <=>
               /\ status[events[event[i]].match] = "live"
               /\ \A j \in Transitions(events[event[i]].match) : j <= event[i])
  <1>1. PushInv /\ OutboxAgrees /\ LastAnnounced /\ [PushNext]_pushVars => [Exact]_pushVars
    <2> SUFFICES ASSUME PushInv, OutboxAgrees, LastAnnounced, [PushNext]_pushVars,
                        NEW i \in Pushers, pc[i] = "start", pc'[i] \in {"audience", "done"}
                 PROVE  pc'[i] = "audience" <=>
                          /\ status[events[event[i]].match] = "live"
                          /\ \A j \in Transitions(events[event[i]].match) : j <= event[i]
      OBVIOUS
    <2>1. event[i] \in DOMAIN events /\ events[event[i]].kind = "live"
      BY DEF PushInv, LocalTypes, Places
    <2>2. pc'[i] = "audience" <=> MatchStillLive(event[i])
      BY OnlyRecheck DEF Recheck, Goto, PushInv, LocalTypes
    <2> QED BY <2>1, <2>2, StillLiveIsLast
  <1> QED BY <1>1, OutboxAgreesHere, PushInvariant, LastAnnouncedInvariant, PTL
          DEF PushSpec, RecheckIsExact

-----------------------------------------------------------------------------
(* The claim goes by id and one batch at a time: when a later event has    *)
(* been claimed, so has every earlier one, and an event in hand for the    *)
(* first time has behind it none but its own batch.                        *)
InHand(i) == batch[i] \cup ({event[i]} \ {0})

Hands ==
  \A i \in Pushers :
    /\ InHand(i) # {} => pc[i] \notin {"idle", "sweep", "claim"}
    /\ pc[i] = "batch" => event[i] = 0
    /\ \A k \in InHand(i) :
         /\ attempts[k] > 0
         /\ claimed[k] = now[i]
         /\ attempts[k] = 1 =>
              \A j \in DOMAIN events : j > k /\ attempts[j] > 0 => claimed[j] = now[i]

QueueOrder ==
  /\ \A j, k \in DOMAIN events : j < k /\ attempts[k] > 0 => attempts[j] > 0
  /\ \A k \in DOMAIN events : attempts[k] = 0 => k \notin consumed /\ claimed[k] = Never
  /\ \A c \in DOMAIN cards : cards[c].event \in DOMAIN events /\ attempts[cards[c].event] > 0

TurnInv == Hands /\ QueueOrder

LEMMA QueueRows ==
  ASSUME PushInv
  PROVE  /\ Len(events) \in Nat /\ DOMAIN events = 1..Len(events)
         /\ DOMAIN attempts = DOMAIN events /\ DOMAIN claimed = DOMAIN events
         /\ Len(attempts) = Len(events) /\ Len(claimed) = Len(events)
         /\ \A k \in DOMAIN events : attempts[k] \in Nat /\ attempts[k] <= MaxAttempts
         /\ \A i \in Pushers : /\ InHand(i) \subseteq DOMAIN events
                               /\ event[i] # 0 => event[i] \in InHand(i)
  <1>1. Len(events) \in Nat /\ DOMAIN events = 1..Len(events)
    BY DEF PushInv, StoreTypeOK
  <1>2. DOMAIN attempts = 1..Len(events) /\ DOMAIN claimed = 1..Len(events)
        /\ Len(attempts) = Len(events) /\ Len(claimed) = Len(events)
    BY DEF PushInv, QueueTypes
  <1> DEFINE Bound == 0..MaxAttempts
  <1>3. attempts \in Seq(Bound)
    BY DEF PushInv, QueueTypes
  <1>4. \A b \in Bound : b \in Nat /\ b <= MaxAttempts
    BY Constants
  <1> HIDE DEF Bound
  <1>5. \A k \in DOMAIN attempts : attempts[k] \in Bound
    BY <1>3
  <1>6. \A i \in Pushers : batch[i] \subseteq DOMAIN events /\ event[i] \in DOMAIN events \cup {0}
    BY DEF PushInv, LocalTypes
  <1> QED BY <1>1, <1>2, <1>4, <1>5, <1>6 DEF InHand

(* `order by id limit $1` passes no claimable event over.                  *)
LEMMA FirstIsClosed ==
  ASSUME NEW n \in Nat, NEW S \in SUBSET (1..n), NEW k \in FirstOf(S), NEW j \in S, j < k
  PROVE  j \in FirstOf(S)
  <1> DEFINE Before(x) == {y \in S : y < x}
  <1>1. k \in S /\ Cardinality(Before(k)) < BatchSize
    BY DEF FirstOf
  <1>2. IsFiniteSet(S)
    <2>1. IsFiniteSet(1..n)
      BY FS_Interval
    <2> QED BY <2>1, FS_Subset
  <1>3. Before(k) \in SUBSET S
    OBVIOUS
  <1>4. IsFiniteSet(Before(k))
    BY <1>2, <1>3, FS_Subset
  <1>5. Before(j) \in SUBSET Before(k)
    <2>1. j \in 1..n /\ k \in 1..n /\ S \subseteq 1..n
      BY <1>1
    <2>2. \A y \in 1..n : y < j => y < k
      BY <2>1
    <2> QED BY <2>1, <2>2
  <1> HIDE DEF Before
  <1>6. IsFiniteSet(Before(j)) /\ Cardinality(Before(j)) <= Cardinality(Before(k))
    BY <1>4, <1>5, FS_Subset
  <1>7. Cardinality(Before(j)) \in Nat /\ Cardinality(Before(k)) \in Nat
    BY <1>4, <1>6, FS_CardinalityType
  <1>8. BatchSize \in Nat
    BY PushAssumption
  <1>9. Cardinality(Before(j)) < BatchSize
    BY <1>1, <1>6, <1>7, <1>8
  <1> QED BY <1>9 DEF FirstOf, Before

(* What all the steps but the claim and the ingest have in common.         *)
LEMMA HandsKept ==
  ASSUME PushInv, TurnInv, UNCHANGED <<events, claimed, attempts>>,
         \A j \in Pushers :
           /\ InHand(j)' \subseteq InHand(j)
           /\ InHand(j)' # {} => /\ pc'[j] \notin {"idle", "sweep", "claim"}
                                 /\ now'[j] = now[j]
           /\ pc'[j] = "batch" => event'[j] = 0,
         \A k \in consumed' : k \in consumed \/ \E j \in Pushers : k \in InHand(j),
         \A c \in DOMAIN cards' :
           \/ \E d \in DOMAIN cards : cards'[c].event = cards[d].event
           \/ \E j \in Pushers : cards'[c].event \in InHand(j)
  PROVE  TurnInv'
  <1>1. Hands'
    BY DEF TurnInv, Hands
  <1>2. \A j \in Pushers : \A k \in InHand(j) : k \in DOMAIN events /\ attempts[k] > 0
    BY QueueRows DEF TurnInv, Hands
  <1>3. \A k \in DOMAIN events : attempts[k] \in Nat
    BY QueueRows
  <1>4. \A k \in DOMAIN events' : attempts'[k] = 0 => k \notin consumed' /\ claimed'[k] = Never
    <2> SUFFICES ASSUME NEW k \in DOMAIN events, attempts[k] = 0
                 PROVE  k \notin consumed'
      BY DEF TurnInv, QueueOrder
    <2> QED BY <1>2 DEF TurnInv, QueueOrder
  <1>5. \A c \in DOMAIN cards' : cards'[c].event \in DOMAIN events'
                                 /\ attempts'[cards'[c].event] > 0
    BY <1>2 DEF TurnInv, QueueOrder
  <1>6. \A j, k \in DOMAIN events' : j < k /\ attempts'[k] > 0 => attempts'[j] > 0
    BY DEF TurnInv, QueueOrder
  <1>7. QueueOrder'
    BY <1>4, <1>5, <1>6 DEF QueueOrder
  <1> QED BY <1>1, <1>7 DEF TurnInv

LEMMA ClaimInTurn ==
  ASSUME PushInv, TurnInv, NEW i \in Pushers, ClaimLiveEvents(i)
  PROVE  TurnInv'
  <1> DEFINE S == Claimable(now[i])
             ids == FirstOf(S)
  <1>1. /\ pc[i] = "claim" /\ pc' = [pc EXCEPT ![i] = "batch"]
        /\ batch' = [batch EXCEPT ![i] = ids]
        /\ UNCHANGED <<events, consumed, cards, now, event>>
        /\ claimed' = [k \in DOMAIN claimed |-> IF k \in ids THEN now[i] ELSE claimed[k]]
        /\ attempts' = [k \in DOMAIN attempts |-> IF k \in ids THEN attempts[k] + 1 ELSE attempts[k]]
    BY DEF ClaimLiveEvents, Goto, storeVars
  <1>2. /\ S \in SUBSET (1..Len(events)) /\ Len(events) \in Nat /\ ids \subseteq S
        /\ DOMAIN events = 1..Len(events)
    BY QueueRows DEF Claimable, FirstOf
  <1>3. \A k \in S : k \notin consumed /\ attempts[k] < MaxAttempts
    BY DEF Claimable
  <1>4. \A k \in DOMAIN events : attempts[k] = 0 /\ 0 < MaxAttempts => k \in S
    BY DEF Claimable, TurnInv, QueueOrder
  <1>5. \A k \in ids, j \in S : j < k => j \in ids
    BY <1>2, FirstIsClosed
  <1> HIDE DEF S, ids
  <1>6. \A k \in DOMAIN events :
          /\ attempts[k] \in Nat
          /\ attempts'[k] = IF k \in ids THEN attempts[k] + 1 ELSE attempts[k]
          /\ claimed'[k] = IF k \in ids THEN now[i] ELSE claimed[k]
    BY <1>1, QueueRows
  <1>7. \A j, k \in DOMAIN events : j < k /\ (attempts[k] > 0 \/ k \in ids)
                                    => attempts[j] > 0 \/ j \in ids
    <2> SUFFICES ASSUME NEW j \in DOMAIN events, NEW k \in DOMAIN events, j < k, k \in ids,
                        attempts[j] = 0
                 PROVE  j \in ids
      BY <1>6 DEF TurnInv, QueueOrder
    <2>1. 0 < MaxAttempts
      BY <1>2, <1>3, <1>6, Constants
    <2> QED BY <1>4, <1>5, <2>1
  <1>8. \A j, k \in DOMAIN events' : j < k /\ attempts'[k] > 0 => attempts'[j] > 0
    BY <1>1, <1>6, <1>7
  <1>9. \A k \in DOMAIN events' : attempts'[k] = 0 => k \notin consumed' /\ claimed'[k] = Never
    BY <1>1, <1>6 DEF TurnInv, QueueOrder
  <1>10. \A c \in DOMAIN cards' : cards'[c].event \in DOMAIN events'
                                  /\ attempts'[cards'[c].event] > 0
    BY <1>1, <1>6 DEF TurnInv, QueueOrder
  <1>11. lock = i /\ event[i] = 0 /\ \A j \in Pushers : j # i => pc[j] \in {"idle", "sweep"}
    <2>1. lock = i /\ \A j \in Pushers : j # i => pc[j] \in {"idle", "sweep"}
      BY <1>1 DEF PushInv, Places
    <2>2. event[i] = 0
      BY <1>1 DEF TurnInv, Hands, InHand
    <2> QED BY <2>1, <2>2
  <1>12. \A j \in Pushers : j # i => InHand(j)' = {}
    BY <1>1, <1>11 DEF TurnInv, Hands, InHand, PushInv, LocalTypes
  <1>13. InHand(i)' = ids /\ pc'[i] = "batch" /\ event'[i] = 0
    BY <1>1, <1>11 DEF InHand, PushInv, LocalTypes
  <1>14. \A k \in ids : /\ attempts'[k] > 0 /\ claimed'[k] = now'[i]
                        /\ attempts'[k] = 1 =>
                             \A j \in DOMAIN events' : j > k /\ attempts'[j] > 0 => claimed'[j] = now'[i]
    <2> TAKE k \in ids
    <2>1. k \in DOMAIN events /\ attempts[k] \in Nat
      BY <1>2, <1>6
    <2>2. attempts'[k] = attempts[k] + 1 /\ claimed'[k] = now[i] /\ now'[i] = now[i]
      BY <1>1, <1>6, <2>1
    <2>3. ASSUME attempts[k] = 0, NEW j \in DOMAIN events, j > k, attempts'[j] > 0
          PROVE  claimed'[j] = now[i]
      <3>1. attempts[j] = 0 \/ attempts[j] > 0
        BY <1>6
      <3>2. ~(attempts[j] > 0)
        BY <2>1, <2>3 DEF TurnInv, QueueOrder
      <3>3. j \in ids
        BY <1>6, <2>3, <3>1, <3>2
      <3> QED BY <1>6, <3>3
    <2>4. attempts'[k] = 1 => attempts[k] = 0
      BY <2>1, <2>2
    <2>5. DOMAIN events' = DOMAIN events
      BY <1>1
    <2>6. attempts'[k] > 0
      BY <2>1, <2>2
    <2> QED BY <2>2, <2>3, <2>4, <2>5, <2>6
  <1>15. \A j \in Pushers : j # i => pc'[j] = pc[j]
    BY <1>1 DEF PushInv, LocalTypes
  <1>16. Hands'
    <2> SUFFICES ASSUME NEW j \in Pushers
                 PROVE  /\ InHand(j)' # {} => pc'[j] \notin {"idle", "sweep", "claim"}
                        /\ pc'[j] = "batch" => event'[j] = 0
                        /\ \A k \in InHand(j)' :
                             /\ attempts'[k] > 0
                             /\ claimed'[k] = now'[j]
                             /\ attempts'[k] = 1 =>
                                  \A x \in DOMAIN events' : x > k /\ attempts'[x] > 0
                                                            => claimed'[x] = now'[j]
      BY DEF Hands
    <2>1. CASE j = i
      BY <1>13, <1>14, <2>1
    <2>2. CASE j # i
      BY <1>11, <1>12, <1>15, <2>2
    <2> QED BY <2>1, <2>2
  <1> QED BY <1>8, <1>9, <1>10, <1>16 DEF TurnInv, QueueOrder

LEMMA IngestInTurn ==
  ASSUME PushInv, TurnInv, NEW m \in Matches, Raise(m) \/ Lower(m)
  PROVE  TurnInv'
  <1>1. /\ NewEventRow
        /\ UNCHANGED <<consumed, cards, pc, now, batch, event>>
    BY IngestWrites DEF PushInv, localPush
  <1>2. PICK kind \in {"live", "finished"} : events' = Append(events, EventOf(m, kind, clock'))
    BY IngestWrites DEF PushInv
  <1> DEFINE n == Len(events) + 1
  <1>3. /\ DOMAIN events' = 1..n /\ DOMAIN events = 1..Len(events) /\ Len(events) \in Nat
        /\ attempts'[n] = 0 /\ claimed'[n] = Never
        /\ \A k \in DOMAIN events : attempts'[k] = attempts[k] /\ claimed'[k] = claimed[k]
    <2>1. DOMAIN events' = 1..n /\ DOMAIN events = 1..Len(events) /\ Len(events) \in Nat
      BY <1>2, QueueRows DEF PushInv, StoreTypeOK
    <2> DEFINE Bound == 0..MaxAttempts
    <2>2. attempts \in Seq(Bound) /\ claimed \in Seq(Times \cup {Never})
          /\ Len(attempts) = Len(events) /\ Len(claimed) = Len(events)
      BY DEF PushInv, QueueTypes
    <2> HIDE DEF Bound
    <2>3. attempts'[n] = 0 /\ \A k \in 1..Len(events) : attempts'[k] = attempts[k]
      BY <1>1, <2>1, <2>2 DEF NewEventRow
    <2>4. claimed'[n] = Never /\ \A k \in 1..Len(events) : claimed'[k] = claimed[k]
      BY <1>1, <2>1, <2>2 DEF NewEventRow
    <2> QED BY <2>1, <2>3, <2>4
  <1>4. \A k \in DOMAIN events : attempts[k] \in Nat
    BY QueueRows
  <1>5. \A j, k \in DOMAIN events' : j < k /\ attempts'[k] > 0 => attempts'[j] > 0
    BY <1>3, <1>4 DEF TurnInv, QueueOrder
  <1>6. \A k \in DOMAIN events' : attempts'[k] = 0 => k \notin consumed' /\ claimed'[k] = Never
    BY <1>1, <1>3 DEF TurnInv, QueueOrder, PushInv, QueueTypes
  <1>7. \A c \in DOMAIN cards' : cards'[c].event \in DOMAIN events'
                                 /\ attempts'[cards'[c].event] > 0
    BY <1>1, <1>3 DEF TurnInv, QueueOrder
  <1>8. \A j \in Pushers : InHand(j)' = InHand(j) /\ InHand(j) \subseteq DOMAIN events
    BY <1>1, QueueRows DEF InHand
  <1>9. Hands'
    BY <1>1, <1>3, <1>8 DEF TurnInv, Hands
  <1> QED BY <1>5, <1>6, <1>7, <1>9 DEF TurnInv, QueueOrder


(* A step of one pusher, who takes nothing in hand.                        *)
LEMMA OneHand ==
  ASSUME PushInv, TurnInv, NEW i \in Pushers, UNCHANGED <<events, claimed, attempts>>,
         \A j \in Pushers \ {i} : /\ batch'[j] = batch[j] /\ event'[j] = event[j]
                                  /\ now'[j] = now[j] /\ pc'[j] = pc[j],
         batch'[i] \cup ({event'[i]} \ {0}) \subseteq InHand(i),
         \/ /\ pc'[i] \notin {"idle", "sweep", "claim"}
            /\ now'[i] = now[i]
         \/ batch'[i] = {} /\ event'[i] = 0,
         pc'[i] = "batch" => event'[i] = 0,
         consumed' \subseteq consumed \cup InHand(i),
         \A c \in DOMAIN cards' :
           \/ \E d \in DOMAIN cards : cards'[c].event = cards[d].event
           \/ cards'[c].event \in InHand(i)
  PROVE  TurnInv'
  <1>1. \A j \in Pushers :
          /\ InHand(j)' \subseteq InHand(j)
          /\ InHand(j)' # {} => /\ pc'[j] \notin {"idle", "sweep", "claim"}
                                /\ now'[j] = now[j]
          /\ pc'[j] = "batch" => event'[j] = 0
    <2> SUFFICES ASSUME NEW j \in Pushers
                 PROVE  /\ InHand(j)' \subseteq InHand(j)
                        /\ InHand(j)' # {} => /\ pc'[j] \notin {"idle", "sweep", "claim"}
                                              /\ now'[j] = now[j]
                        /\ pc'[j] = "batch" => event'[j] = 0
      OBVIOUS
    <2>1. CASE j = i
      BY <2>1 DEF InHand
    <2>2. CASE j # i
      <3>1. InHand(j)' = InHand(j) /\ pc'[j] = pc[j] /\ now'[j] = now[j] /\ event'[j] = event[j]
        BY <2>2 DEF InHand
      <3> QED BY <3>1 DEF TurnInv, Hands
    <2> QED BY <2>1, <2>2
  <1> QED BY <1>1, HandsKept

(* A step that moves only the place of a pusher, within an event.          *)
LEMMA WorkInTurn ==
  ASSUME PushInv, TurnInv, NEW i \in Pushers,
         UNCHANGED <<events, claimed, attempts, batch, event, now, consumed>>,
         \/ pc' = pc
         \/ /\ pc[i] \notin {"idle", "sweep", "claim", "batch"}
            /\ pc'[i] \notin {"idle", "sweep", "claim", "batch"}
            /\ \A j \in Pushers \ {i} : pc'[j] = pc[j],
         \A c \in DOMAIN cards' :
           \/ \E d \in DOMAIN cards : cards'[c].event = cards[d].event
           \/ cards'[c].event \in InHand(i)
  PROVE  TurnInv'
  <1>1. \A j \in Pushers : InHand(j)' = InHand(j)
    BY DEF InHand
  <1> QED BY <1>1, HandsKept DEF TurnInv, Hands

LEMMA RestInTurn ==
  ASSUME PushInv, TurnInv, NEW i \in Pushers, Rest(i),
         UNCHANGED <<storeVars, tables, cards>>
  PROVE  TurnInv'
  <1>1. /\ pc' = [pc EXCEPT ![i] = "idle"] /\ now' = [now EXCEPT ![i] = 0]
        /\ batch' = [batch EXCEPT ![i] = {}] /\ event' = [event EXCEPT ![i] = 0]
        /\ UNCHANGED <<events, claimed, attempts, consumed, cards>>
    BY DEF Rest, Goto, storeVars, tables
  <1>2. /\ \A j \in Pushers \ {i} : /\ batch'[j] = batch[j] /\ event'[j] = event[j]
                                    /\ now'[j] = now[j] /\ pc'[j] = pc[j]
        /\ batch'[i] = {} /\ event'[i] = 0 /\ pc'[i] = "idle"
    BY <1>1 DEF PushInv, LocalTypes
  <1> QED BY <1>1, <1>2, OneHand

LEMMA EventEndInTurn ==
  ASSUME PushInv, TurnInv, NEW i \in Pushers,
         pc[i] \in {"start", "audience", "end", "done", "each"},
         consumed' = consumed \cup {event[i]} \/ UNCHANGED consumed,
         event' = [event EXCEPT ![i] = 0],
         pc' = [pc EXCEPT ![i] = "batch"],
         UNCHANGED <<storeVars, claimed, attempts, cards, now, batch>>
  PROVE  TurnInv'
  <1>1. event[i] \in InHand(i) /\ batch[i] \subseteq InHand(i)
    BY DEF InHand, PushInv, Places
  <1>2. /\ \A j \in Pushers \ {i} : event'[j] = event[j] /\ pc'[j] = pc[j]
        /\ event'[i] = 0 /\ pc'[i] = "batch"
        /\ UNCHANGED <<events, claimed, attempts>>
    BY DEF PushInv, LocalTypes, storeVars
  <1> QED BY <1>1, <1>2, OneHand

LEMMA TickInTurn ==
  ASSUME PushInv, TurnInv, NEW i \in Pushers, Tick(i)
  PROVE  TurnInv'
  <1> USE DEF storeVars, tables
  <1>1. pc \in [Pushers -> Place] /\ pc[i] \in Place
    BY DEF PushInv, LocalTypes
  <1>2. \A c \in DOMAIN cards : \E d \in DOMAIN cards : cards[c].event = cards[d].event
    OBVIOUS
  <1>3. CASE BeginTick(i)
    <2>1. /\ pc[i] = "idle" /\ pc' = [pc EXCEPT ![i] = "sweep"]
          /\ now' = [now EXCEPT ![i] = clock']
          /\ UNCHANGED <<events, claimed, attempts, consumed, cards, batch, event>>
      BY <1>3 DEF BeginTick, Goto
    <2>2. batch[i] = {} /\ event[i] = 0
      BY <2>1 DEF TurnInv, Hands, InHand
    <2>3. /\ \A j \in Pushers \ {i} : now'[j] = now[j] /\ pc'[j] = pc[j]
          /\ pc'[i] = "sweep"
      BY <1>1, <2>1 DEF PushInv, LocalTypes
    <2> QED BY <1>2, <2>1, <2>2, <2>3, OneHand
  <1>4. CASE EndTick(i) \/ EndBatch(i)
    BY <1>4, RestInTurn DEF EndTick, EndBatch
  <1>5. CASE TakeLock(i)
    <2>1. /\ pc[i] = "sweep" /\ pc' = [pc EXCEPT ![i] = "claim"]
          /\ UNCHANGED <<events, claimed, attempts, consumed, cards, batch, event, now>>
      BY <1>5 DEF TakeLock, Goto
    <2>2. batch[i] = {} /\ event[i] = 0
      BY <2>1 DEF TurnInv, Hands, InHand
    <2>3. pc'[i] = "claim" /\ \A j \in Pushers \ {i} : pc'[j] = pc[j]
      BY <1>1, <2>1
    <2> QED BY <1>2, <2>1, <2>2, <2>3, OneHand
  <1>6. CASE ClaimLiveEvents(i)
    BY <1>6, ClaimInTurn
  <1>7. ASSUME NEW k \in DOMAIN events, NextEvent(i, k) PROVE TurnInv'
    <2>1. /\ pc[i] = "batch" /\ k \in batch[i]
          /\ batch' = [batch EXCEPT ![i] = @ \ {k}] /\ event' = [event EXCEPT ![i] = k]
          /\ UNCHANGED <<events, claimed, attempts, consumed, cards, now>>
      BY <1>7 DEF NextEvent
    <2>2. \E to \in {"start", "end", "done"} : pc' = [pc EXCEPT ![i] = to]
      BY <1>7 DEF NextEvent, Goto
    <2>3. /\ \A j \in Pushers \ {i} : /\ batch'[j] = batch[j] /\ event'[j] = event[j]
                                      /\ pc'[j] = pc[j]
          /\ pc'[i] \in {"start", "end", "done"}
          /\ batch'[i] = batch[i] \ {k} /\ event'[i] = k
      BY <1>1, <2>1, <2>2 DEF PushInv, LocalTypes
    <2>4. batch'[i] \cup ({event'[i]} \ {0}) \subseteq InHand(i)
      BY <2>1, <2>3 DEF InHand
    <2> QED BY <1>2, <2>1, <2>3, <2>4, OneHand
  <1>8. CASE Recheck(i) \/ ListAudience(i) \/ ListSessions(i)
    <2>1. /\ pc[i] \in {"start", "audience", "end"}
          /\ \E to \in {"audience", "done", "each"} : pc' = [pc EXCEPT ![i] = to]
          /\ UNCHANGED <<events, claimed, attempts, consumed, cards, batch, event, now>>
      BY <1>8 DEF Recheck, ListAudience, ListSessions, Goto
    <2> QED BY <1>1, <1>2, <2>1, WorkInTurn
  <1>9. ASSUME NEW u \in Users, OpenSession(i, u) \/ OpenSessionFails(i, u) PROVE TurnInv'
    <2>1. /\ pc[i] = "each" /\ (pc' = [pc EXCEPT ![i] = "send"] \/ pc' = pc)
          /\ UNCHANGED <<events, claimed, attempts, consumed, cards, batch, event, now>>
      BY <1>9 DEF OpenSession, OpenSessionFails, Goto
    <2> QED BY <1>1, <1>2, <2>1, WorkInTurn
  <1>10. CASE ReleaseSlot(i)
    <2>1. /\ pc[i] = "release" /\ pc' = [pc EXCEPT ![i] = "each"]
          /\ UNCHANGED <<events, claimed, attempts, consumed, cards, batch, event, now>>
      BY <1>10 DEF ReleaseSlot, Goto
    <2> QED BY <1>1, <1>2, <2>1, WorkInTurn
  <1>11. ASSUME NEW answer \in Answers, SendStart(i, answer) PROVE TurnInv'
    <2>1. /\ pc[i] = "send"
          /\ \E to \in {"each", "release"} : pc' = [pc EXCEPT ![i] = to]
          /\ Light(slot[i], event[i], answer)
          /\ UNCHANGED <<events, claimed, attempts, consumed, batch, event, now>>
      BY <1>11 DEF SendStart, Goto
    <2>2. event[i] \in InHand(i)
      BY <2>1 DEF InHand, PushInv, Places
    <2>3. \A c \in DOMAIN cards' : \/ \E d \in DOMAIN cards : cards'[c].event = cards[d].event
                                   \/ cards'[c].event \in InHand(i)
      <3>1. CASE cards' = cards
        BY <1>2, <3>1
      <3> DEFINE row == [user |-> sessions[slot[i]].user, match |-> sessions[slot[i]].match,
                         event |-> event[i], session |-> slot[i], lit |-> TRUE,
                         known |-> answer = "ok"]
      <3>2. CASE cards' = Append(cards, row)
        <4>1. row.event = event[i]
          OBVIOUS
        <4> HIDE DEF row
        <4>2. \A c \in DOMAIN cards' : \/ c \in DOMAIN cards /\ cards'[c] = cards[c]
                                      \/ cards'[c] = row
          BY <3>2, Rows DEF PushInv, CardTypes
        <4> QED BY <2>2, <4>1, <4>2
      <3> QED BY <2>1, <3>1, <3>2 DEF Light
    <2> QED BY <1>1, <2>1, <2>3, WorkInTurn
  <1>12. ASSUME NEW s \in closing[i], NEW answer,
                CloseUnsent(i, s) \/ SendEnd(i, s, answer)
         PROVE  TurnInv'
    <2>1. UNCHANGED <<events, claimed, attempts, consumed, batch, event, now, pc>>
      BY <1>12 DEF CloseUnsent, SendEnd
    <2>2. cards' = cards \/ cards' = [cards EXCEPT ![s.token].lit = FALSE]
      BY <1>12 DEF CloseUnsent, SendEnd, EndPush, PutOutCard
    <2>3. \A c \in DOMAIN cards' : \E d \in DOMAIN cards : cards'[c].event = cards[d].event
      <3>1. \A c \in DOMAIN cards : cards[c] \in Card
        BY Rows DEF PushInv
      <3> QED BY <2>2, <3>1 DEF Card
    <2> QED BY <2>1, <2>3, WorkInTurn
  <1>13. CASE Consume(i)
    BY <1>13, EventEndInTurn DEF Consume, AllPushed, Goto
  <1>14. CASE FailEvent(i) \/ StatementFails(i)
    BY <1>14, EventEndInTurn DEF FailEvent, StatementFails, AllPushed, Goto
  <1> QED BY <1>3, <1>4, <1>5, <1>6, <1>7, <1>8, <1>9, <1>10, <1>11, <1>12, <1>13, <1>14 DEF Tick

LEMMA TurnStep == ASSUME PushInv, TurnInv, [PushNext]_pushVars PROVE TurnInv'
  <1>1. \A c \in DOMAIN cards : \E d \in DOMAIN cards : cards[c].event = cards[d].event
    OBVIOUS
  <1>2. ASSUME UNCHANGED <<events, claimed, attempts, consumed, cards, pc, now, batch, event>>
        PROVE  TurnInv'
    <2>1. \A j \in Pushers : InHand(j)' = InHand(j)
      BY <1>2 DEF InHand
    <2> QED BY <1>1, <1>2, <2>1, HandsKept DEF TurnInv, Hands
  <1>3. ASSUME NEW i \in Pushers, Crash(i) PROVE TurnInv'
    BY <1>3, RestInTurn DEF Crash
  <1>4. ASSUME Phones PROVE TurnInv'
    <2>1. UNCHANGED <<events, claimed, attempts, consumed, cards, localPush>>
      BY <1>4 DEF Phones, RegisterPushToken, RegisterActivityToken, storeVars
    <2> QED BY <1>2, <2>1 DEF localPush
  <1>5. CASE UNCHANGED pushVars \/ Pipelines
    <2>1. UNCHANGED <<events, claimed, attempts, consumed, cards, localPush>>
      BY <1>5, PipelineKeeps DEF pushVars, tables, storeVars
    <2> QED BY <1>2, <2>1 DEF localPush
  <1> QED BY <1>3, <1>4, <1>5, TickInTurn, IngestInTurn DEF PushNext, Phones, Pipelines

LEMMA TurnInvariant == PushSpec => []TurnInv
  <1>1. PushInit => TurnInv
    BY DEF PushInit, StoreInit, TurnInv, Hands, QueueOrder, InHand
  <1>2. PushInv /\ TurnInv /\ [PushNext]_pushVars => TurnInv'
    BY TurnStep
  <1> QED BY <1>1, <1>2, PushInvariant, PTL DEF PushSpec

(* An end event that puts out a card of a later period is on a retry, or   *)
(* in the batch that took the two: in any run, whatever fails or crashes   *)
(* and however many instances there are.                                   *)
THEOREM EndsInTurn == PushSpec => OutOfTurnOnlyOnRetry
  <1> DEFINE InTurnOrRetried ==
        \A i \in Pushers, c \in DOMAIN cards :
          /\ pc[i] = "each"
          /\ closing'[i] # closing[i]
          /\ cards[c].lit /\ ~cards'[c].lit
          => \/ cards[c].event < event[i]
             \/ attempts[event[i]] > 1
             \/ claimed[event[i]] = claimed[cards[c].event]
  <1>1. PushInv /\ TurnInv => InTurnOrRetried
    <2> SUFFICES ASSUME PushInv, TurnInv, NEW i \in Pushers, NEW c \in DOMAIN cards,
                        pc[i] = "each", ~(cards[c].event < event[i]), ~(attempts[event[i]] > 1)
                 PROVE  claimed[event[i]] = claimed[cards[c].event]
      OBVIOUS
    <2> DEFINE e == event[i]
               k == cards[c].event
    <2>1. e \in InHand(i) /\ e \in DOMAIN events
      BY QueueRows DEF PushInv, Places
    <2>2. k \in DOMAIN events /\ attempts[k] > 0
      BY DEF TurnInv, QueueOrder
    <2>3. attempts[e] = 1 /\ claimed[e] = now[i]
      BY <2>1, QueueRows DEF TurnInv, Hands
    <2>4. k = e \/ k > e
      BY <2>1, <2>2, QueueRows
    <2> QED BY <2>1, <2>2, <2>3, <2>4 DEF TurnInv, Hands
  <1> QED BY <1>1, PushInvariant, TurnInvariant, PTL DEF OutOfTurnOnlyOnRetry

-----------------------------------------------------------------------------
(* What the consumption of a live event rests on.  A pusher that is past   *)
(* the re-check of a live event, and one that closes the sessions of a     *)
(* match that is over.                                                     *)
Kind(i) == events[event[i]].kind
Of(i) == events[event[i]].match
Starting(i) == pc[i] \in {"audience", "each", "send", "release"} /\ Kind(i) = "live"
Ending(i) == pc[i] = "each" /\ Kind(i) = "finished"

LiveOf(m) == {k \in Transitions(m) : events[k].kind = "live"}
EndsOf(m) == {k \in Transitions(m) : events[k].kind = "finished"}

(* A card is of a `live` event of its match, with a row for its session.   *)
CardsFit ==
  \A c \in DOMAIN cards :
    /\ cards[c].event \in LiveOf(cards[c].match)
    /\ cards[c].session \in DOMAIN sessions
    /\ sessions[cards[c].session].user = cards[c].user
    /\ sessions[cards[c].session].match = cards[c].match

(* The place of a pusher tells the kind of its event, and whom it serves.  *)
KindFits(i) ==
  /\ pc[i] \in {"audience", "send", "release"} => Kind(i) = "live"
  /\ pc[i] = "each" => Kind(i) \in {"live", "finished"}
  /\ pc[i] = "end" => Kind(i) = "finished"
  /\ pc[i] = "done" => Kind(i) # "finished"
  /\ reachable[i] # {} => pc[i] \in {"each", "send", "release"} /\ Kind(i) = "live"
  /\ targets[i] # {} => pc[i] \in {"each", "send", "release"} /\ Kind(i) = "live"
  /\ pc[i] \in Sending => sessions[slot[i]].match = Of(i)

(* No later transition of the match has been shown or settled while its    *)
(* live event is in hand.                                                  *)
TurnFits(i) ==
  Starting(i) =>
    /\ \A e \in EndsOf(Of(i)) \cap consumed : e < event[i]
    /\ \A c \in DOMAIN cards : cards[c].match = Of(i) => cards[c].event <= event[i]

(* Without faults a pusher leaves nobody behind: whoever has an open       *)
(* session of a match that is over is on the list, and so is whoever had a *)
(* device and the live event has not reached.                              *)
NoneLeft(i) ==
  /\ Ending(i) /\ ~failed[i] =>
       \A s \in DOMAIN sessions :
         sessions[s].state = "open" /\ sessions[s].match = Of(i) =>
           \E x \in closing[i] : x.id = s
  /\ Starting(i) /\ pc[i] # "audience" /\ ~failed[i] =>
       \A u \in reachable[i] : u \in targets[i] \/ Reached(u, event[i])

(* Without faults an open session has a card, unless it is being sent, and *)
(* a card whose session is open has no settled end after it.               *)
OpenAreCarded ==
  /\ \A s \in DOMAIN sessions :
       sessions[s].state = "open" =>
         \/ \E i \in Pushers : slot[i] = s
         \/ \E c \in DOMAIN cards : cards[c].session = s
  /\ \A c \in DOMAIN cards :
       sessions[cards[c].session].state = "open" =>
         \A e \in EndsOf(cards[c].match) \cap consumed : e < cards[c].event

ReachInv ==
  /\ CardsFit
  /\ \A i \in Pushers : KindFits(i) /\ TurnFits(i)
  /\ faults = 0 => OpenAreCarded /\ \A i \in Pushers : NoneLeft(i)

-----------------------------------------------------------------------------
(* A step that shows nobody a card, opens no session and settles no event: *)
(* sessions may only end, and the outbox may only grow.                    *)
Quiet ==
  /\ DOMAIN events \subseteq DOMAIN events' /\ \A k \in DOMAIN events : events'[k] = events[k]
  /\ DOMAIN sessions' = DOMAIN sessions
  /\ \A s \in DOMAIN sessions : /\ sessions'[s].user = sessions[s].user
                                /\ sessions'[s].match = sessions[s].match
                                /\ sessions'[s].state = "open" => sessions[s].state = "open"
  /\ DOMAIN cards' = DOMAIN cards
  /\ \A c \in DOMAIN cards : /\ cards'[c].event = cards[c].event
                             /\ cards'[c].match = cards[c].match
                             /\ cards'[c].user = cards[c].user
                             /\ cards'[c].session = cards[c].session
  /\ consumed' = consumed
  /\ faults' = 0 => faults = 0

LEMMA QuietSets ==
  ASSUME PushInv, Quiet
  PROVE  \A m : /\ Transitions(m) \subseteq Transitions(m)'
                /\ LiveOf(m) \subseteq LiveOf(m)' /\ EndsOf(m) \subseteq EndsOf(m)'
                /\ EndsOf(m)' \cap consumed' = EndsOf(m) \cap consumed
  <1>1. consumed \subseteq DOMAIN events
    BY DEF PushInv, QueueTypes
  <1>2. /\ DOMAIN events \subseteq DOMAIN events' /\ consumed' = consumed
        /\ \A k \in DOMAIN events : events'[k] = events[k]
    BY DEF Quiet
  <1> QED BY <1>1, <1>2 DEF LiveOf, EndsOf, Transitions

LEMMA QuietReached ==
  ASSUME PushInv, Quiet, NEW u, NEW k \in DOMAIN events, Reached(u, k)
  PROVE  Reached(u, k)'
  <1> DEFINE m == events[k].match
  <1>1. events'[k] = events[k] /\ DOMAIN cards' = DOMAIN cards
    BY DEF Quiet
  <1>2. PICK c \in DOMAIN cards :
          /\ cards[c].user = u /\ cards[c].match = m /\ cards[c].event <= k
          /\ \A e \in Transitions(m) \cap consumed :
               events[e].kind = "finished" => e < cards[c].event \/ e > k
    BY DEF Reached
  <1>3. /\ cards'[c].event = cards[c].event /\ cards'[c].match = cards[c].match
        /\ cards'[c].user = cards[c].user
    BY DEF Quiet
  <1>4. ASSUME NEW e \in Transitions(m)' \cap consumed', events'[e].kind = "finished"
        PROVE  e \in Transitions(m) \cap consumed /\ events[e].kind = "finished"
    <2>1. e \in DOMAIN events /\ events'[e] = events[e] /\ e \in consumed
      BY <1>4 DEF PushInv, QueueTypes, Quiet
    <2> QED BY <1>1, <1>4, <2>1 DEF Transitions
  <1> QED BY <1>1, <1>2, <1>3, <1>4 DEF Reached

LEMMA QuietTables ==
  ASSUME PushInv, ReachInv, Quiet,
         faults' = 0 => \A j \in Pushers : slot[j] \in DOMAIN sessions
                          /\ sessions'[slot[j]].state = "open" => slot'[j] = slot[j]
  PROVE  CardsFit' /\ (faults' = 0 => OpenAreCarded')
  <1>1. CardsFit'
    BY QuietSets DEF ReachInv, CardsFit, Quiet
  <1>2. ASSUME faults' = 0 PROVE OpenAreCarded'
    <2>1. OpenAreCarded
      BY <1>2 DEF Quiet, ReachInv
    <2>2. \A s \in DOMAIN sessions' :
            sessions'[s].state = "open" =>
              \/ \E i \in Pushers : slot'[i] = s
              \/ \E c \in DOMAIN cards' : cards'[c].session = s
      BY <1>2, <2>1 DEF OpenAreCarded, Quiet
    <2>3. \A c \in DOMAIN cards :
            sessions'[cards[c].session].state = "open" =>
              \A e \in consumed' : /\ e \in DOMAIN events' /\ events'[e].match = cards[c].match
                                   /\ events'[e].kind = "finished"
                                   => e < cards[c].event
      <3> SUFFICES ASSUME NEW c \in DOMAIN cards, sessions'[cards[c].session].state = "open",
                          NEW e \in consumed, events'[e].match = cards[c].match,
                          events'[e].kind = "finished"
                   PROVE  e < cards[c].event
        BY DEF Quiet
      <3>1. e \in DOMAIN events /\ events'[e] = events[e]
        BY DEF Quiet, PushInv, QueueTypes
      <3>2. e \in EndsOf(cards[c].match) \cap consumed
        BY <3>1 DEF EndsOf, Transitions
      <3>3. sessions[cards[c].session].state = "open"
        BY DEF Quiet, ReachInv, CardsFit
      <3> QED BY <2>1, <3>2, <3>3 DEF OpenAreCarded
    <2>4. \A c \in DOMAIN cards :
            /\ cards'[c].event = cards[c].event /\ cards'[c].match = cards[c].match
            /\ cards'[c].session = cards[c].session
      BY DEF Quiet
    <2>5. DOMAIN cards' = DOMAIN cards
      BY DEF Quiet
    <2> QED BY <2>2, <2>3, <2>4, <2>5 DEF OpenAreCarded, EndsOf, Transitions
  <1> QED BY <1>1, <1>2

(* A pusher that stands still in such a step.                              *)
LEMMA QuietPusher ==
  ASSUME PushInv, ReachInv, Quiet, NEW i \in Pushers,
         pc'[i] = pc[i], event'[i] = event[i], targets'[i] = targets[i],
         reachable'[i] = reachable[i],
         slot'[i] = slot[i], closing'[i] = closing[i], failed'[i] = failed[i]
  PROVE  KindFits(i)' /\ TurnFits(i)' /\ (faults' = 0 => NoneLeft(i)')
  <1>1. KindFits(i) /\ TurnFits(i)
    BY DEF ReachInv
  <1>2. CASE pc[i] \in {"idle", "sweep", "claim", "batch"}
    BY <1>1, <1>2 DEF KindFits, TurnFits, NoneLeft, Starting, Ending, Sending
  <1>3. CASE pc[i] \notin {"idle", "sweep", "claim", "batch"}
    <2>0. PICK k, m : k = event[i] /\ m = events[k].match
      OBVIOUS
    <2>1. k \in DOMAIN events /\ (pc[i] \in Sending => slot[i] \in DOMAIN sessions)
      BY <1>3, <2>0 DEF PushInv, LocalTypes, Places
    <2>2. events'[k] = events[k]
      BY <2>1 DEF Quiet
    <2>3. KindFits(i)'
      <3>1. \A j \in Transitions(m) : j \in Transitions(m)'
        BY QuietSets
      <3>2. pc[i] \in Sending => sessions'[slot[i]].match = sessions[slot[i]].match
        BY <2>1 DEF Quiet
      <3>3. \A j : j \in Transitions(Of(i))' <=> j \in Transitions(m)'
        BY <2>0, <2>2 DEF Of, Transitions
      <3>4. \A j : j \in Transitions(Of(i)) <=> j \in Transitions(m)
        BY <2>0 DEF Of
      <3> QED BY <1>1, <2>0, <2>2, <3>1, <3>2, <3>3, <3>4 DEF KindFits, Kind, Of, Sending
    <2>4. TurnFits(i)'
      <3>1. \A e \in consumed' : e \in EndsOf(Of(i))' <=> e \in EndsOf(m)
        <4>1. \A e \in consumed' : e \in DOMAIN events /\ events'[e] = events[e]
                                   /\ e \in DOMAIN events'
          BY DEF PushInv, QueueTypes, Quiet
        <4> QED BY <2>0, <2>2, <4>1 DEF EndsOf, Transitions, Of
      <3>2. Starting(i)' => Starting(i)
        BY <2>0, <2>2 DEF Starting, Kind
      <3>3. Of(i)' = m /\ Of(i) = m /\ event'[i] = k
        BY <2>0, <2>2 DEF Of
      <3>4. Starting(i)' => /\ \A e \in EndsOf(m) \cap consumed : e < k
                            /\ \A c \in DOMAIN cards : cards[c].match = m => cards[c].event <= k
        BY <1>1, <2>0, <3>2, <3>3 DEF TurnFits
      <3>5. Starting(i)' => /\ \A e \in EndsOf(Of(i))' \cap consumed' : e < k
                            /\ \A c \in DOMAIN cards' : cards'[c].match = m => cards'[c].event <= k
        BY <3>1, <3>4 DEF Quiet
      <3> QED BY <3>3, <3>5 DEF TurnFits
    <2>5. ASSUME faults' = 0 PROVE NoneLeft(i)'
      <3>1. NoneLeft(i)
        BY <2>5 DEF Quiet, ReachInv
      <3>2. \A u : Reached(u, k) => Reached(u, k)'
        BY <2>1, QuietReached
      <3>3. ASSUME Ending(i)', ~failed'[i], NEW s \in DOMAIN sessions',
                   sessions'[s].state = "open", sessions'[s].match = Of(i)'
            PROVE  \E x \in closing'[i] : x.id = s
        BY <2>0, <2>2, <3>1, <3>3 DEF NoneLeft, Ending, Kind, Of, Quiet
      <3>4. ASSUME Starting(i)', pc'[i] # "audience", ~failed'[i], NEW u \in reachable'[i]
            PROVE  u \in targets'[i] \/ Reached(u, k)'
        BY <2>0, <2>2, <3>1, <3>2, <3>4 DEF NoneLeft, Starting, Kind
      <3> QED BY <2>0, <3>3, <3>4 DEF NoneLeft, Reached
    <2> QED BY <2>3, <2>4, <2>5
  <1> QED BY <1>2, <1>3


(* Where a pusher holds no promise yet, or none any more.                  *)
LEMMA AwayFits ==
  ASSUME NEW i \in Pushers, targets'[i] = {}, reachable'[i] = {},
         pc'[i] \in {"idle", "sweep", "claim", "batch", "start"}
  PROVE  KindFits(i)' /\ TurnFits(i)' /\ NoneLeft(i)'
  BY DEF KindFits, TurnFits, NoneLeft, Starting, Ending, Sending

LEMMA OthersAway ==
  ASSUME PushInv, ReachInv, NEW i \in Pushers, pc[i] \notin {"idle", "sweep"}
  PROVE  /\ lock = i
         /\ \A j \in Pushers \ {i} : /\ pc[j] \in {"idle", "sweep"} /\ targets[j] = {}
                                     /\ slot[j] = 0 /\ reachable[j] = {}
  BY DEF PushInv, Places, Sending, ReachInv, KindFits

(* In a quiet step only the pusher that moves has to be looked at.         *)
LEMMA QuietStep ==
  ASSUME PushInv, ReachInv, Quiet, NEW i \in Pushers,
         \A j \in Pushers \ {i} :
           /\ pc'[j] = pc[j] /\ event'[j] = event[j] /\ targets'[j] = targets[j]
           /\ slot'[j] = slot[j] /\ closing'[j] = closing[j] /\ failed'[j] = failed[j]
           /\ reachable'[j] = reachable[j],
         faults' = 0 /\ slot[i] \in DOMAIN sessions /\ sessions'[slot[i]].state = "open"
           => slot'[i] = slot[i],
         KindFits(i)', TurnFits(i)', faults' = 0 => NoneLeft(i)'
  PROVE  ReachInv'
  <1>1. CardsFit' /\ (faults' = 0 => OpenAreCarded')
    BY QuietTables
  <1>2. \A j \in Pushers : KindFits(j)' /\ TurnFits(j)' /\ (faults' = 0 => NoneLeft(j)')
    <2> TAKE j \in Pushers
    <2>1. CASE j = i
      BY <2>1
    <2>2. CASE j # i
      BY <2>2, QuietPusher
    <2> QED BY <2>1, <2>2
  <1> QED BY <1>1, <1>2 DEF ReachInv

LEMMA QuietSame ==
  ASSUME UNCHANGED <<events, sessions, cards, consumed>>,
         faults' = 0 => faults = 0
  PROVE  Quiet
  BY DEF Quiet

LEMMA NoFaultYet ==
  ASSUME PushInv
  PROVE  /\ Fault => faults' # 0
         /\ 0 \notin DOMAIN sessions
         /\ \A j \in Pushers : pc[j] \notin Sending => slot[j] = 0
  <1>1. faults \in Nat
    BY Constants DEF PushInv, LocalTypes
  <1> QED BY <1>1, Rows DEF Fault, PushInv, Places

LEMMA RestReaches ==
  ASSUME PushInv, ReachInv, NEW i \in Pushers, Rest(i),
         UNCHANGED <<storeVars, tables, cards>>,
         Fault \/ (pc[i] \notin Sending /\ faults' = faults)
  PROVE  ReachInv'
  <1>1. /\ pc' = [pc EXCEPT ![i] = "idle"] /\ event' = [event EXCEPT ![i] = 0]
        /\ targets' = [targets EXCEPT ![i] = {}] /\ closing' = [closing EXCEPT ![i] = {}]
        /\ slot' = [slot EXCEPT ![i] = 0] /\ failed' = [failed EXCEPT ![i] = FALSE]
        /\ reachable' = [reachable EXCEPT ![i] = {}]
    BY DEF Rest, Goto
  <1>2. /\ \A j \in Pushers \ {i} :
             /\ pc'[j] = pc[j] /\ event'[j] = event[j] /\ targets'[j] = targets[j]
             /\ slot'[j] = slot[j] /\ closing'[j] = closing[j] /\ failed'[j] = failed[j]
             /\ reachable'[j] = reachable[j]
        /\ pc'[i] = "idle" /\ targets'[i] = {} /\ reachable'[i] = {}
    BY <1>1 DEF PushInv, LocalTypes, CardTypes
  <1>3. Quiet
    BY NoFaultYet, QuietSame DEF storeVars, tables
  <1>4. KindFits(i)' /\ TurnFits(i)' /\ NoneLeft(i)'
    BY <1>2, AwayFits
  <1>5. faults' = 0 => slot[i] \notin DOMAIN sessions
    BY NoFaultYet
  <1> QED BY <1>2, <1>3, <1>4, <1>5, QuietStep

(* A step of one pusher on its own variables, the slot excepted.           *)
Own(i) ==
  /\ \A j \in Pushers \ {i} :
       /\ pc'[j] = pc[j] /\ event'[j] = event[j] /\ targets'[j] = targets[j]
       /\ closing'[j] = closing[j] /\ failed'[j] = failed[j] /\ reachable'[j] = reachable[j]
  /\ slot' = slot

LEMMA OwnStep ==
  ASSUME PushInv, ReachInv, Quiet, NEW i \in Pushers, Own(i),
         KindFits(i)', TurnFits(i)', faults' = 0 => NoneLeft(i)'
  PROVE  ReachInv'
  BY QuietStep DEF Own

(* Up to the lock, the claim, and the end of an event without success.     *)
LEMMA AwayReaches ==
  ASSUME PushInv, ReachInv, NEW i \in Pushers,
         BeginTick(i) \/ TakeLock(i) \/ ClaimLiveEvents(i) \/ FailEvent(i) \/ StatementFails(i)
  PROVE  ReachInv'
  <1> USE DEF storeVars, tables, Goto
  <1>1. KindFits(i)
    BY DEF ReachInv
  <1>2. /\ UNCHANGED <<events, sessions, cards, consumed, devices, slot>>
        /\ faults' = faults \/ Fault
    BY DEF BeginTick, TakeLock, ClaimLiveEvents, FailEvent, StatementFails
  <1>3. Quiet
    BY <1>2, NoFaultYet, QuietSame
  <1>4. /\ targets' = targets
        /\ \E to \in {"sweep", "claim", "batch"} : pc' = [pc EXCEPT ![i] = to]
        /\ event' = event \/ event' = [event EXCEPT ![i] = 0]
        /\ closing' = closing \/ closing' = [closing EXCEPT ![i] = StaleSessions(clock')]
        /\ failed' = failed \/ failed' = [failed EXCEPT ![i] = FALSE]
        /\ reachable' = reachable \/ reachable' = [reachable EXCEPT ![i] = {}]
    BY DEF BeginTick, TakeLock, ClaimLiveEvents, FailEvent, StatementFails
  <1>5. targets[i] = {}
    <2>1. CASE BeginTick(i) \/ TakeLock(i)
      BY <2>1 DEF BeginTick, TakeLock, PushInv, Places
    <2>2. CASE ClaimLiveEvents(i) \/ FailEvent(i) \/ StatementFails(i)
      BY <1>1, <2>2 DEF ClaimLiveEvents, FailEvent, StatementFails, AllPushed, KindFits
    <2> QED BY <2>1, <2>2
  <1>6. /\ \A j \in Pushers \ {i} :
             /\ pc'[j] = pc[j] /\ event'[j] = event[j] /\ targets'[j] = targets[j]
             /\ closing'[j] = closing[j] /\ failed'[j] = failed[j]
             /\ reachable'[j] = reachable[j]
        /\ pc'[i] \in {"sweep", "claim", "batch"} /\ targets'[i] = {}
    BY <1>4, <1>5 DEF PushInv, LocalTypes, CardTypes
  <1>8. reachable'[i] = {}
    <2>1. CASE BeginTick(i) \/ TakeLock(i) \/ ClaimLiveEvents(i)
      BY <1>1, <2>1 DEF BeginTick, TakeLock, ClaimLiveEvents, KindFits
    <2>2. CASE FailEvent(i) \/ StatementFails(i)
      BY <2>2 DEF FailEvent, StatementFails, PushInv, LocalTypes
    <2> QED BY <2>1, <2>2
  <1>7. KindFits(i)' /\ TurnFits(i)' /\ NoneLeft(i)'
    BY <1>6, <1>8, AwayFits
  <1> QED BY <1>2, <1>3, <1>6, <1>7, OwnStep DEF Own

LEMMA NextEventReaches ==
  ASSUME PushInv, ReachInv, NEW i \in Pushers, NEW k \in DOMAIN events,
         NextEvent(i, k)
  PROVE  ReachInv'
  <1> USE DEF storeVars, tables
  <1>1. KindFits(i)
    BY DEF ReachInv
  <1>2. /\ pc[i] = "batch" /\ event' = [event EXCEPT ![i] = k]
        /\ UNCHANGED <<events, sessions, cards, consumed, devices, faults, slot, targets,
                       reachable, closing, failed>>
    BY DEF NextEvent
  <1>3. Quiet
    BY <1>2, QuietSame
  <1>4. /\ \A j \in Pushers \ {i} : pc'[j] = pc[j] /\ event'[j] = event[j]
        /\ event'[i] = k
        /\ \/ pc'[i] = "start" /\ events[k].kind = "live"
           \/ pc'[i] = "end" /\ events[k].kind = "finished"
           \/ pc'[i] = "done" /\ events[k].kind \notin {"live", "finished"}
    BY <1>2 DEF PushInv, LocalTypes, NextEvent, Goto
  <1>5. targets'[i] = {} /\ reachable'[i] = {}
    BY <1>1, <1>2 DEF KindFits
  <1>6. KindFits(i)' /\ TurnFits(i)' /\ NoneLeft(i)'
    BY <1>2, <1>4, <1>5 DEF KindFits, TurnFits, NoneLeft, Starting, Ending, Kind, Sending
  <1> QED BY <1>2, <1>3, <1>4, <1>6, OwnStep DEF Own

(* The event a pusher keeps in hand in a quiet step.                       *)
LEMMA SameEvent ==
  ASSUME PushInv, Quiet, NEW i \in Pushers, event'[i] = event[i], event[i] # 0
  PROVE  /\ event[i] \in DOMAIN events
         /\ Kind(i)' = Kind(i) /\ Of(i)' = Of(i)
         /\ \A u : Reached(u, event[i]) => Reached(u, event[i])'
  <1>1. PICK k : k = event[i]
    OBVIOUS
  <1>2. k \in DOMAIN events /\ events'[k] = events[k] /\ event'[i] = k
    BY <1>1 DEF PushInv, LocalTypes, Quiet
  <1>3. \A u : Reached(u, k) => Reached(u, k)'
    BY <1>2, QuietReached
  <1>4. \A u : Reached(u, event[i])' <=> Reached(u, k)'
    BY <1>1, <1>2 DEF Reached
  <1> QED BY <1>1, <1>2, <1>3, <1>4 DEF Kind, Of

LEMMA TurnStays ==
  ASSUME PushInv, ReachInv, Quiet, NEW i \in Pushers, event'[i] = event[i], Starting(i)
  PROVE  TurnFits(i)'
  <1>1. event[i] # 0 /\ TurnFits(i)
    BY DEF PushInv, Places, Starting, ReachInv
  <1>2. PICK k, m : k = event[i] /\ m = Of(i)
    OBVIOUS
  <1>3. Of(i)' = m /\ event'[i] = k
    BY <1>1, <1>2, SameEvent
  <1>4. /\ \A e \in EndsOf(m) \cap consumed : e < k
        /\ \A c \in DOMAIN cards : cards[c].match = m => cards[c].event <= k
    BY <1>1, <1>2 DEF TurnFits
  <1>5. \A e \in consumed' : e \in EndsOf(Of(i))' => e \in EndsOf(m)
    <2>1. \A e \in consumed' : e \in DOMAIN events /\ events'[e] = events[e]
      BY DEF PushInv, QueueTypes, Quiet
    <2> QED BY <1>3, <2>1 DEF EndsOf, Transitions
  <1>6. \A c \in DOMAIN cards' : cards'[c].match = m => cards'[c].event <= k
    BY <1>4 DEF Quiet
  <1>7. \A e \in EndsOf(Of(i))' \cap consumed' : e < k
    BY <1>4, <1>5 DEF Quiet
  <1> QED BY <1>3, <1>6, <1>7 DEF TurnFits

(* Whoever has an open session has been sent a card that no end settled.   *)
LEMMA OpenIsReached ==
  ASSUME PushInv, ReachInv, faults = 0, NEW i \in Pushers, pc[i] \in {"audience", "each"},
         Kind(i) = "live", NEW u \in Users, OpenFor(u, Of(i)) # {}
  PROVE  Reached(u, event[i])
  <1> DEFINE k == event[i]
             m == Of(i)
  <1>1. OpenAreCarded /\ TurnFits(i) /\ Starting(i) /\ k # 0 /\ k \in DOMAIN events
    BY DEF ReachInv, Starting, PushInv, Places, LocalTypes
  <1>2. PICK s \in DOMAIN sessions :
          sessions[s].state = "open" /\ sessions[s].user = u /\ sessions[s].match = m
    BY DEF OpenFor
  <1>3. \A j \in Pushers : slot[j] # s
    <2>1. slot[i] = 0 /\ 0 \notin DOMAIN sessions
      BY NoFaultYet DEF Sending
    <2> QED BY <2>1, OthersAway
  <1>4. PICK c \in DOMAIN cards : cards[c].session = s
    BY <1>1, <1>2, <1>3 DEF OpenAreCarded
  <1>5. /\ cards[c].user = u /\ cards[c].match = m /\ cards[c].event \in LiveOf(m)
    BY <1>2, <1>4 DEF ReachInv, CardsFit
  <1>6. cards[c].event <= k
    BY <1>1, <1>5 DEF TurnFits
  <1>7. \A e \in EndsOf(m) \cap consumed : e < cards[c].event
    BY <1>1, <1>2, <1>4, <1>5 DEF OpenAreCarded
  <1> QED BY <1>5, <1>6, <1>7 DEF Reached, Of, EndsOf

LEMMA RecheckReaches ==
  ASSUME PushInv, OutboxAgrees, LastAnnounced, ReachInv, NEW i \in Pushers,
         Recheck(i)
  PROVE  ReachInv'
  <1> USE DEF storeVars, tables
  <1>1. /\ pc[i] = "start"
        /\ UNCHANGED <<events, sessions, cards, consumed, devices, faults, slot, event, targets,
                       reachable, closing, failed>>
    BY DEF Recheck
  <1>2. Quiet
    BY <1>1, QuietSame
  <1>3. /\ \A j \in Pushers \ {i} : pc'[j] = pc[j]
        /\ pc'[i] = IF MatchStillLive(event[i]) THEN "audience" ELSE "done"
    BY DEF Recheck, Goto, PushInv, LocalTypes
  <1>4. PICK k, m : k = event[i] /\ m = events[k].match
    OBVIOUS
  <1>5. /\ k \in DOMAIN events /\ events[k].kind = "live" /\ k \in Nat /\ targets[i] = {}
        /\ DOMAIN events \subseteq Nat /\ reachable[i] = {}
    <2>1. k \in DOMAIN events /\ events[k].kind = "live"
      BY <1>1, <1>4 DEF PushInv, Places, LocalTypes
    <2>2. targets[i] = {} /\ reachable[i] = {}
      BY <1>1 DEF ReachInv, KindFits
    <2>3. DOMAIN events \subseteq Nat
      BY QueueRows
    <2> QED BY <2>1, <2>2, <2>3
  <1>6. /\ m \in Matches
        /\ MatchStillLive(k) => \A j \in Transitions(m) : j <= k
    BY <1>4, <1>5, StillLiveIsLast
  <1>7. /\ Kind(i)' = "live" /\ Of(i)' = m /\ event'[i] = k
        /\ targets'[i] = {} /\ reachable'[i] = {}
    BY <1>1, <1>4, <1>5 DEF Kind, Of
  <1>8. \A x : /\ EndsOf(x)' = EndsOf(x) /\ Transitions(x)' = Transitions(x)
    BY <1>1 DEF EndsOf, Transitions
  <1>9. Transitions(m) \subseteq DOMAIN events
    BY DEF Transitions
  <1>10. CASE MatchStillLive(k)
    <2>1. pc'[i] = "audience"
      BY <1>3, <1>4, <1>10
    <2>2. \A j \in Transitions(m) : j <= k
      BY <1>6, <1>10
    <2>3. \A e \in EndsOf(m) : e < k
      <3>1. k \notin EndsOf(m) /\ EndsOf(m) \subseteq Transitions(m)
        BY <1>5 DEF EndsOf
      <3> QED BY <1>5, <1>9, <2>2, <3>1
    <2>4. \A c \in DOMAIN cards : cards[c].match = m => cards[c].event <= k
      BY <2>2 DEF ReachInv, CardsFit, LiveOf
    <2>5. TurnFits(i)'
      <3>1. \A e \in EndsOf(Of(i))' : e < k
        BY <1>1, <1>7, <2>3 DEF EndsOf, Transitions
      <3> QED BY <1>1, <1>7, <2>4, <3>1 DEF TurnFits
    <2>6. KindFits(i)' /\ NoneLeft(i)'
      BY <1>7, <2>1 DEF KindFits, NoneLeft, Ending, Sending
    <2> QED BY <1>1, <1>2, <1>3, <2>5, <2>6, OwnStep DEF Own
  <1>11. CASE ~MatchStillLive(k)
    <2>1. pc'[i] = "done"
      BY <1>3, <1>4, <1>11
    <2>5. KindFits(i)'
      BY <1>7, <2>1 DEF KindFits, Sending
    <2>6. TurnFits(i)' /\ NoneLeft(i)'
      BY <2>1 DEF TurnFits, NoneLeft, Starting, Ending
    <2> QED BY <1>1, <1>2, <1>3, <2>5, <2>6, OwnStep DEF Own
  <1> QED BY <1>10, <1>11

LEMMA ListAudienceReaches ==
  ASSUME PushInv, ReachInv, NEW i \in Pushers, ListAudience(i)
  PROVE  ReachInv'
  <1> USE DEF storeVars, tables
  <1>1. /\ pc[i] = "audience"
        /\ UNCHANGED <<events, sessions, cards, consumed, devices, faults, slot, event,
                       closing, failed>>
    BY DEF ListAudience
  <1>2. Quiet
    BY <1>1, QuietSame
  <1>3. /\ \A j \in Pushers \ {i} : /\ pc'[j] = pc[j] /\ targets'[j] = targets[j]
                                    /\ reachable'[j] = reachable[j]
        /\ pc'[i] = "each" /\ targets'[i] = StartAudience(Of(i))
        /\ reachable'[i] = {u \in Users : devices[u] > 0}
    BY DEF ListAudience, Goto, PushInv, LocalTypes, Of
  <1>4. Kind(i) = "live" /\ Starting(i) /\ event[i] # 0
    BY <1>1 DEF ReachInv, KindFits, Starting, PushInv, Places
  <1>5. Kind(i)' = "live" /\ TurnFits(i)' /\ \A u : Reached(u, event[i]) => Reached(u, event[i])'
    BY <1>1, <1>2, <1>4, SameEvent, TurnStays
  <1>6. KindFits(i)'
    BY <1>3, <1>5 DEF KindFits, Sending
  <1>7. ASSUME faults' = 0 PROVE NoneLeft(i)'
    <2>1. \A u \in reachable'[i] : u \in targets'[i] \/ Reached(u, event[i])'
      <3> SUFFICES ASSUME NEW u \in Users, devices[u] > 0, u \notin targets'[i]
                   PROVE  Reached(u, event[i])
        BY <1>3, <1>5
      <3>1. OpenFor(u, Of(i)) # {}
        BY <1>3 DEF StartAudience
      <3> QED BY <1>1, <1>4, <1>7, <3>1, OpenIsReached
    <2> QED BY <1>1, <1>3, <1>5, <2>1 DEF NoneLeft, Ending
  <1> QED BY <1>1, <1>2, <1>3, <1>5, <1>6, <1>7, OwnStep DEF Own

LEMMA ListSessionsReaches ==
  ASSUME PushInv, ReachInv, NEW i \in Pushers, ListSessions(i)
  PROVE  ReachInv'
  <1> USE DEF storeVars, tables
  <1>1. /\ pc[i] = "end"
        /\ UNCHANGED <<events, sessions, cards, consumed, devices, faults, slot, event,
                       targets, reachable, failed>>
    BY DEF ListSessions
  <1>2. Quiet
    BY <1>1, QuietSame
  <1>3. /\ \A j \in Pushers \ {i} : pc'[j] = pc[j] /\ closing'[j] = closing[j]
        /\ pc'[i] = "each" /\ closing'[i] = OpenSessionsForMatch(Of(i))
    BY DEF ListSessions, Goto, PushInv, LocalTypes, CardTypes, Of
  <1>4. Kind(i) = "finished" /\ event[i] # 0 /\ targets[i] = {} /\ reachable[i] = {}
    BY <1>1 DEF ReachInv, KindFits, PushInv, Places
  <1>5. Kind(i)' = "finished" /\ Of(i)' = Of(i)
    BY <1>1, <1>2, <1>4, SameEvent
  <1>6. KindFits(i)' /\ TurnFits(i)'
    BY <1>1, <1>3, <1>4, <1>5 DEF KindFits, TurnFits, Starting, Sending
  <1>7. NoneLeft(i)'
    <2>1. \A s \in DOMAIN sessions : sessions[s].state = "open" /\ sessions[s].match = Of(i)
                                     => \E x \in closing'[i] : x.id = s
      <3> SUFFICES ASSUME NEW s \in DOMAIN sessions, sessions[s].state = "open",
                          sessions[s].match = Of(i)
                   PROVE  \E x \in closing'[i] : x.id = s
        OBVIOUS
      <3>1. ReadSession(s) \in closing'[i]
        BY <1>3 DEF OpenSessionsForMatch
      <3>2. ReadSession(s).id = s
        BY DEF ReadSession
      <3> QED BY <3>1, <3>2
    <2> QED BY <1>1, <1>5, <2>1 DEF NoneLeft, Starting
  <1> QED BY <1>1, <1>2, <1>3, <1>6, <1>7, OwnStep DEF Own

(* A target whose slot is taken has been reached; a new slot is its own    *)
(* pusher's; a failed statement is a fault.                                *)
LEMMA OpenSessionReaches ==
  ASSUME PushInv, ReachInv, NEW i \in Pushers, NEW u \in Users, OpenSession(i, u)
  PROVE  ReachInv'
  <1> USE DEF storeVars, tables
  <1>1. /\ pc[i] = "each" /\ u \in targets[i]
        /\ UNCHANGED <<events, cards, consumed, devices, faults, event, reachable, closing,
                       failed>>
    BY DEF OpenSession
  <1>2. Kind(i) = "live" /\ Starting(i) /\ event[i] # 0 /\ KindFits(i) /\ TurnFits(i)
    BY <1>1 DEF ReachInv, KindFits, Starting, PushInv, Places
  <1>3. CASE /\ OpenFor(u, Of(i)) # {} /\ targets' = [targets EXCEPT ![i] = @ \ {u}]
             /\ UNCHANGED <<sessions, slot, pc>>
    <2>1. Quiet
      BY <1>1, <1>3, QuietSame
    <2>2. /\ \A j \in Pushers \ {i} : targets'[j] = targets[j]
          /\ targets'[i] = targets[i] \ {u}
      BY <1>3 DEF PushInv, LocalTypes
    <2>3. Kind(i)' = "live" /\ TurnFits(i)' /\ \A x : Reached(x, event[i]) => Reached(x, event[i])'
      BY <1>1, <1>2, <2>1, SameEvent, TurnStays
    <2>4. KindFits(i)'
      BY <1>1, <1>3, <2>3 DEF KindFits, Sending
    <2>5. ASSUME faults' = 0 PROVE NoneLeft(i)'
      <3>1. Reached(u, event[i]) /\ NoneLeft(i)
        BY <1>1, <1>2, <1>3, <2>5, OpenIsReached DEF ReachInv
      <3>2. \A x \in reachable[i] : ~failed[i] => x \in targets'[i] \/ Reached(x, event[i])'
        BY <1>1, <1>2, <2>2, <2>3, <3>1 DEF NoneLeft
      <3> QED BY <1>1, <1>3, <2>3, <3>2 DEF NoneLeft, Ending
    <2> QED BY <1>1, <1>3, <2>1, <2>2, <2>3, <2>4, <2>5, OwnStep DEF Own
  <1> DEFINE m == Of(i)
             n == Len(sessions) + 1
             row == NewSession(u, m, now[i])
  <1>4. CASE /\ sessions' = Append(sessions, row) /\ slot' = [slot EXCEPT ![i] = n]
             /\ pc' = [pc EXCEPT ![i] = "send"] /\ UNCHANGED targets
    <2>1. row.match = m /\ row.user = u
      BY DEF NewSession
    <2>2. PICK mm : mm = m
      OBVIOUS
    <2> HIDE DEF row
    <2>3. /\ DOMAIN sessions' = DOMAIN sessions \cup {n} /\ n \notin DOMAIN sessions
          /\ \A s \in DOMAIN sessions : sessions'[s] = sessions[s]
          /\ sessions'[n] = row
      BY <1>4, Rows DEF PushInv, CardTypes
    <2>4. /\ \A j \in Pushers \ {i} : pc'[j] = pc[j] /\ slot'[j] = slot[j]
          /\ pc'[i] = "send" /\ slot'[i] = n
      BY <1>4 DEF PushInv, LocalTypes
    <2>5. CardsFit'
      <3>1. \A x : LiveOf(x)' = LiveOf(x)
        BY <1>1 DEF LiveOf, Transitions
      <3>2. \A c \in DOMAIN cards : cards[c].event \in LiveOf(cards[c].match)'
        BY <1>1 DEF ReachInv, CardsFit, LiveOf, Transitions
      <3> QED BY <1>1, <2>3, <3>2 DEF ReachInv, CardsFit, LiveOf, Transitions
    <2>6. ASSUME faults' = 0 PROVE OpenAreCarded'
      <3>1. OpenAreCarded
        BY <1>1, <2>6 DEF ReachInv
      <3>2. \A s \in DOMAIN sessions' :
              sessions'[s].state = "open" =>
                (\E j \in Pushers : slot'[j] = s) \/ \E c \in DOMAIN cards' : cards'[c].session = s
        <4>1. \A j \in Pushers \ {i} : slot'[j] = slot[j]
          BY <2>4
        <4>2. slot[i] = 0 /\ 0 \notin DOMAIN sessions
          BY <1>1, NoFaultYet DEF Sending
        <4> QED BY <1>1, <2>3, <2>4, <3>1, <4>2 DEF OpenAreCarded
      <3>3. \A c \in DOMAIN cards :
              /\ cards[c].session \in DOMAIN sessions
              /\ sessions'[cards[c].session] = sessions[cards[c].session]
        BY <2>3 DEF ReachInv, CardsFit
      <3> QED BY <1>1, <3>1, <3>2, <3>3 DEF OpenAreCarded, EndsOf, Transitions
    <2>7. KindFits(i)'
      <3>1. Kind(i)' = "live" /\ Of(i)' = m
        BY <1>1, <1>2 DEF Kind, Of
      <3>2. sessions'[slot'[i]].match = m
        BY <2>1, <2>3, <2>4
      <3> QED BY <2>4, <3>1, <3>2 DEF KindFits
    <2>8. TurnFits(i)'
      <3>1. Starting(i) /\ event' = event
        BY <1>1, <1>2
      <3> QED BY <1>1, <1>2, <3>1 DEF TurnFits, EndsOf, Transitions, Of
    <2>9. ASSUME faults' = 0 PROVE NoneLeft(i)'
      <3>1. NoneLeft(i)
        BY <1>1, <2>9 DEF ReachInv
      <3>2. \A x \in reachable[i] : ~failed[i] => x \in targets[i] \/ Reached(x, event[i])
        BY <1>1, <1>2, <3>1 DEF NoneLeft
      <3> QED BY <1>1, <1>4, <2>4, <3>2 DEF NoneLeft, Ending, Reached, Transitions
    <2>10. \A j \in Pushers \ {i} : KindFits(j)' /\ TurnFits(j)' /\ NoneLeft(j)'
      <3> TAKE j \in Pushers \ {i}
      <3>1. pc'[j] \in {"idle", "sweep"} /\ targets'[j] = {} /\ reachable'[j] = {}
        BY <1>1, <1>4, <2>4, OthersAway
      <3> QED BY <3>1, AwayFits
    <2> QED BY <2>5, <2>6, <2>7, <2>8, <2>9, <2>10 DEF ReachInv
  <1> QED BY <1>3, <1>4 DEF OpenSession, Goto, Of

LEMMA OpenSessionFailsReaches ==
  ASSUME PushInv, ReachInv, NEW i \in Pushers, NEW u \in Users,
         OpenSessionFails(i, u)
  PROVE  ReachInv'
  <1> USE DEF storeVars, tables
  <1>1. /\ pc[i] = "each" /\ u \in targets[i] /\ faults' # 0
        /\ UNCHANGED <<events, sessions, cards, consumed, devices, event, reachable, closing, slot, pc>>
    BY NoFaultYet DEF OpenSessionFails
  <1>2. Kind(i) = "live" /\ Starting(i) /\ event[i] # 0
    BY <1>1 DEF ReachInv, KindFits, Starting, PushInv, Places
  <1>3. Quiet
    BY <1>1, QuietSame
  <1>4. \A j \in Pushers \ {i} : targets'[j] = targets[j] /\ failed'[j] = failed[j]
    BY DEF OpenSessionFails, PushInv, LocalTypes
  <1>5. Kind(i)' = "live" /\ TurnFits(i)'
    BY <1>1, <1>2, <1>3, SameEvent, TurnStays
  <1>6. KindFits(i)'
    BY <1>1, <1>5 DEF KindFits, Sending
  <1> QED BY <1>1, <1>3, <1>4, <1>5, <1>6, OwnStep DEF Own


(* Apple's answer: a card for the follower, or a push that has failed.     *)
LEMMA SendStartReaches ==
  ASSUME PushInv, ReachInv, NEW i \in Pushers, NEW answer \in Answer,
         SendStart(i, answer)
  PROVE  ReachInv'
  <1> DEFINE s0 == slot[i]
             u0 == sessions[s0].user
             k == event[i]
             m == Of(i)
  <1>1. /\ pc[i] = "send" /\ k # 0 /\ Kind(i) = "live" /\ Starting(i)
        /\ KindFits(i) /\ TurnFits(i)
    BY DEF SendStart, ReachInv, KindFits, Starting, PushInv, Places
  <1>2. /\ s0 \in DOMAIN sessions /\ sessions[s0].match = m /\ u0 \in Users
        /\ k \in DOMAIN events
    BY <1>1, Rows DEF KindFits, Sending, PushInv, LocalTypes, Places
  <1>3. /\ targets' = [targets EXCEPT ![i] = @ \ {u0}]
        /\ failed' = [failed EXCEPT ![i] = @ \/ answer \in {"lost", "refused"}]
        /\ Light(s0, k, answer)
        /\ DropToken(u0, answer)
        /\ \/ answer = "ok" /\ slot' = [slot EXCEPT ![i] = 0] /\ pc' = [pc EXCEPT ![i] = "each"]
           \/ answer # "ok" /\ slot' = slot /\ pc' = [pc EXCEPT ![i] = "release"]
        /\ UNCHANGED <<events, flags, consumed, sessions, event, reachable, closing>>
    BY DEF SendStart, Goto, storeVars
  <1>4. /\ faults' = 0 => faults = 0 /\ answer # "gone"
        /\ answer \in {"ok", "lost", "refused", "gone"}
    BY <1>3, NoFaultYet DEF DropToken, Answer
  <1> DEFINE card == [user |-> u0, match |-> sessions[s0].match, event |-> k,
                      session |-> s0, lit |-> TRUE, known |-> answer = "ok"]
             lights == answer \in {"ok", "lost"}
  <1>5. card.user = u0 /\ card.match = m /\ card.event = k /\ card.session = s0
    BY <1>2
  <1>6. cards' = IF lights THEN Append(cards, card) ELSE cards
    BY <1>3 DEF Light
  <1>7. PICK u, s, e, mm : u = u0 /\ s = s0 /\ e = k /\ mm = m
    OBVIOUS
  <1> HIDE DEF card
  <1>8. /\ DOMAIN cards \subseteq DOMAIN cards'
        /\ \A c \in DOMAIN cards : cards'[c] = cards[c]
        /\ \A c \in DOMAIN cards' \ DOMAIN cards : lights /\ cards'[c] = card
        /\ lights => \E c \in DOMAIN cards' : cards'[c] = card
    BY <1>6, Rows DEF PushInv, CardTypes
  <1>9. /\ \A j \in Pushers \ {i} : pc'[j] = pc[j] /\ slot'[j] = slot[j] /\ targets'[j] = targets[j]
        /\ targets'[i] = targets[i] \ {u} /\ pc'[i] \in {"each", "release"}
        /\ pc'[i] = "each" => answer = "ok"
        /\ pc'[i] = "release" => slot'[i] = s
        /\ ~failed'[i] => ~failed[i] /\ answer \notin {"lost", "refused"}
    BY <1>1, <1>3, <1>7 DEF PushInv, LocalTypes
  <1>10. /\ \A c \in DOMAIN cards' \ DOMAIN cards :
              /\ cards'[c].user = u /\ cards'[c].match = mm
              /\ cards'[c].event = e /\ cards'[c].session = s
         /\ lights => \E c \in DOMAIN cards' : /\ cards'[c].user = u /\ cards'[c].match = mm
                                               /\ cards'[c].event = e /\ cards'[c].session = s
    BY <1>5, <1>7, <1>8
  <1>11. /\ e \in DOMAIN events /\ events[e].kind = "live" /\ events[e].match = mm
         /\ s \in DOMAIN sessions /\ sessions[s].user = u /\ sessions[s].match = mm
         /\ event[i] = e /\ event' = event /\ sessions' = sessions /\ events' = events
         /\ e \in Nat
    BY <1>1, <1>2, <1>3, <1>7, QueueRows DEF Kind, Of
  <1>12. \A x : LiveOf(x)' = LiveOf(x) /\ EndsOf(x)' = EndsOf(x)
    BY <1>3 DEF LiveOf, EndsOf, Transitions
  <1>13. CardsFit'
    <2>1. e \in LiveOf(mm)
      BY <1>11 DEF LiveOf, Transitions
    <2>2. ASSUME NEW c \in DOMAIN cards'
          PROVE  /\ cards'[c].event \in LiveOf(cards'[c].match)
                 /\ cards'[c].session \in DOMAIN sessions
                 /\ sessions[cards'[c].session].user = cards'[c].user
                 /\ sessions[cards'[c].session].match = cards'[c].match
      <3>1. CASE c \in DOMAIN cards
        BY <1>8, <3>1 DEF ReachInv, CardsFit
      <3>2. CASE c \notin DOMAIN cards
        BY <1>10, <1>11, <2>1, <3>2
      <3> QED BY <3>1, <3>2
    <2> QED BY <1>11, <2>2 DEF CardsFit, LiveOf, Transitions
  <1>14. \A x \in EndsOf(mm) \cap consumed : x < e
    BY <1>1, <1>7 DEF TurnFits
  <1>15. ASSUME faults' = 0 PROVE OpenAreCarded'
    <2>1. OpenAreCarded
      BY <1>4, <1>15 DEF ReachInv
    <2>2. ASSUME NEW x \in DOMAIN sessions, sessions[x].state = "open"
          PROVE  (\E j \in Pushers : slot'[j] = x) \/ \E c \in DOMAIN cards' : cards'[c].session = x
      <3>1. CASE \E c \in DOMAIN cards : cards[c].session = x
        BY <1>8, <3>1
      <3>2. CASE \E j \in Pushers : slot[j] = x
        <4>1. PICK j \in Pushers : slot[j] = x
          BY <3>2
        <4>2. CASE j # i
          BY <1>9, <4>1, <4>2
        <4>3. CASE j = i /\ pc'[i] = "release"
          BY <1>7, <1>9, <4>1, <4>3
        <4>4. CASE j = i /\ pc'[i] = "each"
          BY <1>7, <1>9, <1>10, <4>1, <4>4
        <4> QED BY <1>9, <4>2, <4>3, <4>4
      <3> QED BY <2>1, <2>2, <3>1, <3>2 DEF OpenAreCarded
    <2>3. ASSUME NEW c \in DOMAIN cards', sessions[cards'[c].session].state = "open",
                 NEW x \in EndsOf(cards'[c].match) \cap consumed
          PROVE  x < cards'[c].event
      <3>1. CASE c \in DOMAIN cards
        BY <1>8, <2>1, <2>3, <3>1 DEF OpenAreCarded
      <3>2. CASE c \notin DOMAIN cards
        BY <1>10, <1>14, <2>3, <3>2
      <3> QED BY <3>1, <3>2
    <2> QED BY <1>3, <2>1, <2>2, <2>3 DEF OpenAreCarded, EndsOf, Transitions
  <1>16. Kind(i)' = "live" /\ Of(i)' = mm /\ event'[i] = e
    BY <1>11 DEF Kind, Of
  <1>17. KindFits(i)'
    BY <1>9, <1>11, <1>16 DEF KindFits, Sending
  <1>18. TurnFits(i)'
    <2>1. \A c \in DOMAIN cards : cards[c].match = mm => cards[c].event <= e
      BY <1>1, <1>7 DEF TurnFits
    <2>2. \A c \in DOMAIN cards' : cards'[c].match = mm => cards'[c].event <= e
      BY <1>8, <1>10, <1>11, <2>1
    <2>3. \A x \in EndsOf(Of(i))' : x \in EndsOf(mm)
      BY <1>11, <1>16 DEF EndsOf, Transitions
    <2> QED BY <1>3, <1>14, <1>16, <2>2, <2>3 DEF TurnFits
  <1>19. ASSUME faults' = 0 PROVE NoneLeft(i)'
    <2>1. NoneLeft(i) /\ answer # "gone"
      BY <1>4, <1>19 DEF ReachInv
    <2>2. ASSUME ~failed'[i], NEW x \in reachable[i]
          PROVE  x \in targets'[i] \/ Reached(x, e)'
      <3>1. x \in targets[i] \/ Reached(x, e)
        BY <1>1, <1>7, <1>9, <2>1, <2>2 DEF NoneLeft
      <3>2. Reached(x, e) => Reached(x, e)'
        BY <1>3, <1>8, <1>11 DEF Reached, Transitions
      <3>3. lights
        BY <1>4, <1>9, <2>1, <2>2
      <3>4. Reached(u, e)'
        <4>1. PICK c \in DOMAIN cards' : /\ cards'[c].user = u /\ cards'[c].match = mm
                                         /\ cards'[c].event = e
          BY <1>10, <3>3
        <4>2. \A x0 \in Transitions(mm)' \cap consumed' : events'[x0].kind = "finished" => x0 < e
          BY <1>3, <1>11, <1>14 DEF EndsOf, Transitions
        <4> QED BY <1>11, <4>1, <4>2 DEF Reached
      <3> QED BY <1>9, <3>1, <3>2, <3>4
    <2>3. \A x : Reached(x, event[i])' <=> Reached(x, e)'
      BY <1>11 DEF Reached
    <2> QED BY <1>3, <1>16, <2>1, <2>2, <2>3 DEF NoneLeft, Ending
  <1>20. \A j \in Pushers \ {i} : KindFits(j)' /\ TurnFits(j)' /\ NoneLeft(j)'
    <2> TAKE j \in Pushers \ {i}
    <2>1. pc'[j] \in {"idle", "sweep"} /\ targets'[j] = {} /\ reachable'[j] = {}
      BY <1>1, <1>3, <1>9, OthersAway
    <2> QED BY <2>1, AwayFits
  <1> QED BY <1>13, <1>15, <1>17, <1>18, <1>19, <1>20 DEF ReachInv

LEMMA ReleaseSlotReaches ==
  ASSUME PushInv, ReachInv, NEW i \in Pushers, ReleaseSlot(i)
  PROVE  ReachInv'
  <1> USE DEF storeVars
  <1>1. /\ pc[i] = "release" /\ slot[i] \in DOMAIN sessions
        /\ UNCHANGED <<events, cards, consumed, devices, event, targets, reachable, closing,
                       failed>>
    BY DEF ReleaseSlot, PushInv, Places, LocalTypes, Sending
  <1>2. Kind(i) = "live" /\ Starting(i) /\ event[i] # 0
    BY <1>1 DEF ReachInv, KindFits, Starting, PushInv, Places
  <1>3. /\ \A j \in Pushers \ {i} : pc'[j] = pc[j] /\ slot'[j] = slot[j]
        /\ pc'[i] = "each" /\ slot'[i] = 0
    BY DEF ReleaseSlot, Goto, PushInv, LocalTypes
  <1>4. /\ DOMAIN sessions' = DOMAIN sessions
        /\ \A s \in DOMAIN sessions : /\ sessions'[s].user = sessions[s].user
                                      /\ sessions'[s].match = sessions[s].match
                                      /\ sessions'[s].state = "open" => sessions[s].state = "open"
        /\ faults' = 0 => faults = 0 /\ sessions'[slot[i]].state # "open"
    <2>1. CASE UNCHANGED sessions /\ Fault
      BY <2>1, NoFaultYet
    <2>2. CASE UNCHANGED faults /\ sessions' = [sessions EXCEPT ![slot[i]].state = "deleted"]
      <3>1. sessions[slot[i]] \in SessionRow
        BY <1>1, Rows DEF PushInv
      <3>2. DOMAIN sessions' = DOMAIN sessions /\ \A s \in DOMAIN sessions :
              sessions'[s] = IF s = slot[i] THEN [sessions[s] EXCEPT !.state = "deleted"]
                                            ELSE sessions[s]
        BY <1>1, <2>2
      <3> QED BY <1>1, <2>2, <3>1, <3>2 DEF SessionRow
    <2> QED BY <2>1, <2>2 DEF ReleaseSlot
  <1>5. Quiet
    BY <1>1, <1>4 DEF Quiet
  <1>6. Kind(i)' = "live" /\ TurnFits(i)' /\ \A x : Reached(x, event[i]) => Reached(x, event[i])'
    BY <1>1, <1>2, <1>5, SameEvent, TurnStays
  <1>7. KindFits(i)'
    BY <1>3, <1>6 DEF KindFits, Sending
  <1>8. ASSUME faults' = 0 PROVE NoneLeft(i)'
    <2>1. NoneLeft(i)
      BY <1>4, <1>8 DEF ReachInv
    <2>2. \A x \in reachable[i] : ~failed[i] => x \in targets[i] \/ Reached(x, event[i])'
      BY <1>1, <1>2, <1>6, <2>1 DEF NoneLeft
    <2> QED BY <1>1, <1>3, <1>6, <2>2 DEF NoneLeft, Ending
  <1> QED BY <1>1, <1>3, <1>4, <1>5, <1>6, <1>7, <1>8, QuietStep

(* A session is closed: by the sweep, or for an end event, where it leaves *)
(* the list only with its row closed or with the event failed.             *)
LEMMA CloseReaches ==
  ASSUME PushInv, ReachInv, NEW i \in Pushers, NEW s \in closing[i],
         Closing(i),
         \/ CloseSession(i, s)
         \/ /\ failed' = [failed EXCEPT ![i] = TRUE]
            /\ UNCHANGED <<sessions, faults>>,
         cards' = cards \/ (s.token # NoToken /\ PutOutCard(s.token)),
         closing' = [closing EXCEPT ![i] = @ \ {s}],
         UNCHANGED <<storeVars, claimed, attempts, consumed, devices, lock, pc, now, batch,
                     event, targets, reachable, slot>>
  PROVE  ReachInv'
  <1>1. s.id \in DOMAIN sessions /\ s.token \in DOMAIN cards \cup {NoToken}
    BY DEF PushInv, CardTypes
  <1>2. /\ DOMAIN sessions' = DOMAIN sessions
        /\ \A x \in DOMAIN sessions : /\ sessions'[x].user = sessions[x].user
                                      /\ sessions'[x].match = sessions[x].match
                                      /\ sessions'[x].state = "open" => sessions[x].state = "open"
        /\ \/ faults' # 0
           \/ faults' = faults /\ failed' = failed /\ sessions'[s.id].state # "open"
           \/ faults' = faults /\ failed' = [failed EXCEPT ![i] = TRUE]
        /\ \A j \in Pushers \ {i} : failed'[j] = failed[j]
    <2>1. CASE Fault /\ failed' = [failed EXCEPT ![i] = pc[i] = "each"] /\ UNCHANGED sessions
      BY <2>1, NoFaultYet DEF PushInv, LocalTypes
    <2>2. CASE failed' = [failed EXCEPT ![i] = TRUE] /\ UNCHANGED <<sessions, faults>>
      BY <2>2 DEF PushInv, LocalTypes
    <2> DEFINE to == IF sessions[s.id].state = "deleted" THEN "deleted" ELSE "ended"
    <2>3. CASE /\ sessions' = [sessions EXCEPT ![s.id] = [sessions[s.id] EXCEPT !.state = to]]
               /\ UNCHANGED <<faults, failed>>
      <3>1. sessions[s.id] \in SessionRow /\ to # "open"
        BY <1>1, Rows DEF PushInv
      <3>2. /\ DOMAIN sessions' = DOMAIN sessions
            /\ \A x \in DOMAIN sessions : x # s.id => sessions'[x] = sessions[x]
            /\ sessions'[s.id] = [sessions[s.id] EXCEPT !.state = to]
        BY <1>1, <2>3
      <3> HIDE DEF to
      <3>3. /\ sessions'[s.id].user = sessions[s.id].user
            /\ sessions'[s.id].match = sessions[s.id].match
            /\ sessions'[s.id].state = to
        BY <3>1, <3>2 DEF SessionRow
      <3> QED BY <2>3, <3>1, <3>2, <3>3
    <2> QED BY <2>1, <2>2, <2>3 DEF CloseSession
  <1>3. /\ DOMAIN cards' = DOMAIN cards
        /\ \A c \in DOMAIN cards : /\ cards'[c].event = cards[c].event
                                   /\ cards'[c].match = cards[c].match
                                   /\ cards'[c].user = cards[c].user
                                   /\ cards'[c].session = cards[c].session
    <2>1. CASE s.token # NoToken /\ cards' = [cards EXCEPT ![s.token].lit = FALSE]
      <3>1. s.token \in DOMAIN cards /\ cards[s.token] \in Card
        BY <1>1, <2>1, Rows DEF PushInv
      <3> QED BY <2>1, <3>1 DEF Card
    <2> QED BY <2>1 DEF PutOutCard
  <1>4. Quiet
    <2>1. faults' = 0 => faults = 0
      BY <1>2
    <2> QED BY <1>2, <1>3, <2>1 DEF Quiet, storeVars
  <1>5. /\ \A j \in Pushers \ {i} : closing'[j] = closing[j]
        /\ closing'[i] = closing[i] \ {s}
    BY DEF PushInv, CardTypes
  <1>6. CASE pc[i] = "sweep"
    <2>1. targets'[i] = {} /\ reachable'[i] = {} /\ pc'[i] = "sweep"
      BY <1>6 DEF PushInv, Places, ReachInv, KindFits
    <2>2. KindFits(i)' /\ TurnFits(i)' /\ NoneLeft(i)'
      BY <2>1, AwayFits
    <2> QED BY <1>2, <1>4, <1>5, <2>2, OwnStep DEF Own
  <1>7. CASE pc[i] = "each"
    <2>1. event[i] # 0 /\ KindFits(i)
      BY <1>7 DEF ReachInv, PushInv, Places
    <2>2. /\ Kind(i)' = Kind(i) /\ Of(i)' = Of(i)
          /\ \A x : Reached(x, event[i]) => Reached(x, event[i])'
      BY <2>1, <1>4, SameEvent
    <2>3. KindFits(i)'
      BY <1>7, <2>1, <2>2 DEF KindFits, Sending
    <2>4. TurnFits(i)'
      <3>1. CASE Starting(i)
        BY <1>4, <3>1, TurnStays
      <3>2. CASE ~Starting(i)
        BY <2>2, <3>2 DEF TurnFits, Starting
      <3> QED BY <3>1, <3>2
    <2>5. ASSUME faults' = 0 PROVE NoneLeft(i)'
      <3>1. NoneLeft(i) /\ (failed'[i] \/ (failed' = failed /\ sessions'[s.id].state # "open"))
        BY <1>2, <2>5 DEF ReachInv, PushInv, LocalTypes
      <3>2. CASE failed'[i]
        BY <3>2 DEF NoneLeft
      <3>3. CASE failed' = failed /\ sessions'[s.id].state # "open"
        <4>1. ASSUME Ending(i), ~failed[i], NEW x \in DOMAIN sessions, sessions'[x].state = "open",
                     sessions'[x].match = Of(i)
              PROVE  \E y \in closing'[i] : y.id = x
          <5>1. PICK y \in closing[i] : y.id = x
            BY <1>2, <3>1, <4>1 DEF NoneLeft
          <5>2. y # s
            BY <3>3, <4>1, <5>1
          <5> QED BY <1>5, <5>1, <5>2
        <4>2. ASSUME Starting(i), ~failed[i], NEW u \in reachable[i]
              PROVE  u \in targets[i] \/ Reached(u, event[i])'
          BY <1>7, <2>2, <3>1, <4>2 DEF NoneLeft
        <4> QED BY <1>2, <2>2, <3>3, <4>1, <4>2 DEF NoneLeft, Ending, Starting
      <3> QED BY <3>1, <3>2, <3>3
    <2> QED BY <1>2, <1>4, <1>5, <2>3, <2>4, <2>5, OwnStep DEF Own
  <1> QED BY <1>6, <1>7 DEF Closing

(* A `finished` event is settled only when no session of its match is open.*)
LEMMA ConsumeReaches ==
  ASSUME PushInv, ReachInv, NEW i \in Pushers, Consume(i)
  PROVE  ReachInv'
  <1> USE DEF storeVars
  <1>1. /\ UNCHANGED <<events, sessions, devices, cards, faults, targets, closing, slot, failed>>
        /\ consumed' = consumed \cup {event[i]}
        /\ pc[i] \in {"done", "each"} /\ event[i] # 0
    BY DEF Consume, AllPushed, PushInv, Places
  <1>2. /\ \A j \in Pushers \ {i} : pc'[j] = pc[j]
        /\ pc'[i] = "batch"
    BY DEF Consume, Goto, PushInv, LocalTypes
  <1>3. targets[i] = {} /\ reachable'[i] = {} /\ \A j \in Pushers \ {i} : reachable'[j] = reachable[j]
    <2>1. KindFits(i)
      BY DEF ReachInv
    <2> QED BY <2>1 DEF Consume, AllPushed, KindFits, PushInv, LocalTypes
  <1>4. CardsFit'
    BY <1>1 DEF ReachInv, CardsFit, LiveOf, Transitions
  <1>5. ASSUME faults' = 0 PROVE OpenAreCarded'
    <2>1. OpenAreCarded /\ NoneLeft(i) /\ KindFits(i)
      BY <1>1, <1>5 DEF ReachInv
    <2>2. ASSUME NEW c \in DOMAIN cards, sessions[cards[c].session].state = "open",
                 NEW e \in EndsOf(cards[c].match) \cap consumed'
          PROVE  e < cards[c].event
      <3>1. CASE e \in consumed
        BY <2>1, <2>2, <3>1 DEF OpenAreCarded
      <3>2. CASE e = event[i]
        <4>1. Kind(i) = "finished" /\ Of(i) = cards[c].match
          BY <2>2, <3>2 DEF Kind, Of, EndsOf, Transitions
        <4>2. pc[i] = "each" /\ closing[i] = {} /\ ~failed[i]
          BY <2>1, <4>1 DEF KindFits, Consume, AllPushed
        <4>3. sessions[cards[c].session].match = Of(i) /\ cards[c].session \in DOMAIN sessions
          BY <4>1 DEF ReachInv, CardsFit
        <4> QED BY <2>1, <2>2, <4>1, <4>2, <4>3 DEF NoneLeft, Ending
      <3> QED BY <1>1, <3>1, <3>2
    <2> QED BY <1>1, <2>1, <2>2 DEF OpenAreCarded, EndsOf, Transitions
  <1>6. \A j \in Pushers : KindFits(j)' /\ TurnFits(j)' /\ NoneLeft(j)'
    <2> TAKE j \in Pushers
    <2>1. pc'[j] \in {"idle", "sweep", "batch"} /\ targets'[j] = {} /\ reachable'[j] = {}
      BY <1>1, <1>2, <1>3, OthersAway
    <2> QED BY <2>1, AwayFits
  <1> QED BY <1>4, <1>5, <1>6 DEF ReachInv

LEMMA TickReaches ==
  ASSUME PushInv, OutboxAgrees, LastAnnounced, ReachInv, NEW i \in Pushers, Tick(i)
  PROVE  ReachInv'
  <1>1. Answers \subseteq Answer
    BY PushAssumption
  <1>2. CASE EndTick(i) \/ EndBatch(i)
    BY <1>2, RestReaches DEF EndTick, EndBatch, Sending
  <1>3. ASSUME NEW k \in DOMAIN events, NextEvent(i, k) PROVE ReachInv'
    BY <1>3, NextEventReaches
  <1>4. ASSUME NEW u \in Users, OpenSession(i, u) \/ OpenSessionFails(i, u) PROVE ReachInv'
    BY <1>4, OpenSessionReaches, OpenSessionFailsReaches
  <1>5. ASSUME NEW answer \in Answers, SendStart(i, answer) PROVE ReachInv'
    BY <1>1, <1>5, SendStartReaches
  <1>6. ASSUME NEW s \in closing[i], CloseUnsent(i, s) PROVE ReachInv'
    BY <1>6, CloseReaches DEF CloseUnsent
  <1>7. ASSUME NEW s \in closing[i], NEW answer \in Answers, SendEnd(i, s, answer) PROVE ReachInv'
    BY <1>7, CloseReaches DEF SendEnd, EndPush
  <1>8. CASE BeginTick(i) \/ TakeLock(i) \/ ClaimLiveEvents(i) \/ FailEvent(i) \/ StatementFails(i)
    BY <1>8, AwayReaches
  <1>9. CASE Recheck(i) \/ ListAudience(i) \/ ListSessions(i) \/ ReleaseSlot(i) \/ Consume(i)
    BY <1>9, RecheckReaches, ListAudienceReaches, ListSessionsReaches, ReleaseSlotReaches,
       ConsumeReaches
  <1> QED BY <1>2, <1>3, <1>4, <1>5, <1>6, <1>7, <1>8, <1>9 DEF Tick

(* The ingest and the phones leave every pusher where it stands.           *)
LEMMA AroundReaches ==
  ASSUME PushInv, ReachInv, Quiet, UNCHANGED localPush
  PROVE  ReachInv'
  <1>1. CardsFit' /\ (faults' = 0 => OpenAreCarded')
    BY QuietTables DEF localPush
  <1>2. \A j \in Pushers : KindFits(j)' /\ TurnFits(j)' /\ (faults' = 0 => NoneLeft(j)')
    BY QuietPusher DEF localPush
  <1> QED BY <1>1, <1>2 DEF ReachInv

LEMMA ReachStep ==
  ASSUME PushInv, OutboxAgrees, LastAnnounced, ReachInv, [PushNext]_pushVars
  PROVE  ReachInv'
  <1>1. ASSUME NEW i \in Pushers, Tick(i) PROVE ReachInv'
    BY <1>1, TickReaches
  <1>2. ASSUME NEW i \in Pushers, Crash(i) PROVE ReachInv'
    BY <1>2, RestReaches DEF Crash
  <1>3. ASSUME NEW m \in Matches, Raise(m) \/ Lower(m) PROVE ReachInv'
    <2>1. PICK kind \in {"live", "finished"} : events' = Append(events, EventOf(m, kind, clock'))
      BY <1>3, IngestWrites DEF PushInv
    <2>2. UNCHANGED <<consumed, sessions, devices, cards, lock, faults, localPush>>
      BY <1>3, IngestWrites DEF PushInv
    <2>3. DOMAIN events \subseteq DOMAIN events' /\ \A k \in DOMAIN events : events'[k] = events[k]
      BY <2>1 DEF PushInv, StoreTypeOK
    <2>4. Quiet
      BY <2>2, <2>3 DEF Quiet
    <2> QED BY <2>2, <2>4, AroundReaches
  <1>4. ASSUME NEW u \in Users, RegisterPushToken(u) PROVE ReachInv'
    <2>1. Quiet /\ UNCHANGED localPush
      BY <1>4 DEF RegisterPushToken, Quiet, storeVars
    <2> QED BY <2>1, AroundReaches
  <1>5. ASSUME NEW c \in DOMAIN cards, RegisterActivityToken(c) PROVE ReachInv'
    <2>1. PICK s \in DOMAIN sessions : sessions' = [sessions EXCEPT ![s].token = c]
      BY <1>5 DEF RegisterActivityToken, OpenFor
    <2>2. UNCHANGED <<events, consumed, devices, cards, faults, localPush>>
      BY <1>5 DEF RegisterActivityToken, storeVars
    <2>3. sessions[s] \in SessionRow
      BY Rows DEF PushInv
    <2>4. /\ DOMAIN sessions' = DOMAIN sessions
          /\ \A x \in DOMAIN sessions :
               sessions'[x] = IF x = s THEN [sessions[x] EXCEPT !.token = c] ELSE sessions[x]
      BY <2>1
    <2>5. Quiet
      BY <2>2, <2>3, <2>4 DEF Quiet, SessionRow
    <2> QED BY <2>2, <2>5, AroundReaches
  <1>6. CASE UNCHANGED pushVars
    <2>1. Quiet /\ UNCHANGED localPush
      BY <1>6, QuietSame DEF pushVars, tables, storeVars
    <2> QED BY <2>1, AroundReaches
  <1>7. CASE Pipelines
    <2>1. Quiet /\ UNCHANGED localPush
      BY <1>7, PipelineKeeps, QuietSame
    <2> QED BY <2>1, AroundReaches
  <1> QED BY <1>1, <1>2, <1>3, <1>4, <1>5, <1>6, <1>7 DEF PushNext, Pipelines

LEMMA ReachInvariant == PushSpec => []ReachInv
  <1>1. PushInit => ReachInv
    <2> SUFFICES ASSUME PushInit PROVE ReachInv
      OBVIOUS
    <2>1. events = <<>> /\ sessions = <<>> /\ cards = <<>> /\ consumed = {}
      BY DEF PushInit, StoreInit
    <2>2. CardsFit /\ OpenAreCarded
      BY <2>1 DEF CardsFit, OpenAreCarded
    <2>3. \A i \in Pushers : KindFits(i) /\ TurnFits(i) /\ NoneLeft(i)
      BY DEF PushInit, KindFits, TurnFits, NoneLeft, Starting, Ending, Sending
    <2> QED BY <2>2, <2>3 DEF ReachInv
  <1>2. PushInv /\ OutboxAgrees /\ LastAnnounced /\ ReachInv /\ [PushNext]_pushVars => ReachInv'
    BY ReachStep
  <1> QED BY <1>1, <1>2, PushInvariant, OutboxAgreesHere, LastAnnouncedInvariant, PTL DEF PushSpec

(* Only the end of an event settles it, and only its own.                  *)
LEMMA OnlyConsume ==
  ASSUME [PushNext]_pushVars, NEW k \in consumed' \ consumed
  PROVE  \E i \in Pushers : Consume(i) /\ k = event[i]
  <1>1. ASSUME NEW i \in Pushers, Tick(i), ~Consume(i) PROVE UNCHANGED consumed
    <2>1. ASSUME NEW x, NextEvent(i, x) PROVE UNCHANGED consumed
      BY <2>1 DEF NextEvent, tables
    <2>2. ASSUME NEW u, OpenSession(i, u) \/ OpenSessionFails(i, u) PROVE UNCHANGED consumed
      BY <2>2 DEF OpenSession, OpenSessionFails, tables
    <2>3. ASSUME NEW answer, SendStart(i, answer) PROVE UNCHANGED consumed
      BY <2>3 DEF SendStart
    <2>4. ASSUME NEW s, NEW answer, CloseUnsent(i, s) \/ SendEnd(i, s, answer)
          PROVE  UNCHANGED consumed
      BY <2>4 DEF CloseUnsent, SendEnd
    <2>5. CASE BeginTick(i) \/ EndTick(i) \/ TakeLock(i) \/ ClaimLiveEvents(i) \/ EndBatch(i)
      BY <2>5 DEF BeginTick, EndTick, TakeLock, ClaimLiveEvents, EndBatch, tables
    <2>6. CASE Recheck(i) \/ ListAudience(i) \/ ReleaseSlot(i) \/ ListSessions(i)
               \/ FailEvent(i) \/ StatementFails(i)
      BY <2>6 DEF Recheck, ListAudience, ReleaseSlot, ListSessions, FailEvent,
                  StatementFails, tables
    <2> QED BY <1>1, <2>1, <2>2, <2>3, <2>4, <2>5, <2>6 DEF Tick
  <1>2. ASSUME NEW i \in Pushers, Crash(i) PROVE UNCHANGED consumed
    BY <1>2 DEF Crash, tables
  <1>3. ASSUME NEW m \in Matches, Raise(m) \/ Lower(m) PROVE UNCHANGED consumed
    BY <1>3 DEF Raise, Lower
  <1>4. ASSUME Phones PROVE UNCHANGED consumed
    BY <1>4 DEF Phones, RegisterPushToken, RegisterActivityToken
  <1>5. ASSUME UNCHANGED pushVars \/ Pipelines PROVE UNCHANGED consumed
    BY <1>5, PipelineKeeps DEF pushVars, tables
  <1>6. PICK i \in Pushers : Consume(i)
    BY <1>1, <1>2, <1>3, <1>4, <1>5 DEF PushNext, Phones, Pipelines
  <1> QED BY <1>6 DEF Consume

(* As long as nothing fails on this side, whatever Apple refuses and loses *)
(* and whatever pipeline, phones and other instances do meanwhile, a live  *)
(* event is not consumed before it has reached every follower who had a    *)
(* device when its audience was last read.                                 *)
THEOREM RetriesReach == PushSpec => RetriesReachAll
  <1> DEFINE Reaches ==
        \A i \in Pushers, k \in DOMAIN events :
          faults = 0 /\ Consumes(i, k) => \A u \in reachable[i] : Reached(u, k)
  <1>1. PushInv /\ ReachInv /\ [PushNext]_pushVars => [Reaches]_pushVars
    <2> SUFFICES ASSUME PushInv, ReachInv, [PushNext]_pushVars,
                        NEW i \in Pushers, NEW k \in DOMAIN events, faults = 0,
                        Consumes(i, k), NEW u \in reachable[i]
                 PROVE  Reached(u, k)
      OBVIOUS
    <2>1. PICK j \in Pushers : Consume(j) /\ k = event[j]
      BY OnlyConsume DEF Consumes
    <2>2. pc[i] \in {"each", "send", "release"} /\ Kind(i) = "live" /\ NoneLeft(i)
      BY DEF ReachInv, KindFits
    <2>3. i = j
      BY <2>1, <2>2, OthersAway DEF Consume, AllPushed
    <2>4. AllPushed(i) /\ ~failed[i] /\ k = event[i]
      BY <2>1, <2>2, <2>3 DEF Consume
    <2> QED BY <2>2, <2>4 DEF NoneLeft, Starting, AllPushed
  <1> QED BY <1>1, PushInvariant, ReachInvariant, PTL DEF PushSpec, RetriesReachAll
=============================================================================

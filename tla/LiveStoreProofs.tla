--------------------------- MODULE LiveStoreProofs ---------------------------
(***************************************************************************)
(* What holds of the store's transactions for any number of matches, runs, *)
(* clock readings and callers.                                             *)
(***************************************************************************)
EXTENDS LiveStore, TLAPS

(* Every transaction keeps the tables well typed.                          *)
LEMMA StoreTypeStep ==
  ASSUME StoreTypeOK, [StoreNext]_storeVars
  PROVE  StoreTypeOK'
<1> USE StoreAssumption
<1> USE DEF StoreTypeOK
<1>1. ASSUME NEW m \in Matches, NEW source \in {Api, "dev"},
             NEW run \in RunIds, NEW at \in Times,
             FlipLive(m, source, run, at)
      PROVE  StoreTypeOK'
  <2>1. NewFlag(m, source, run, at) \in Flag
    BY DEF NewFlag, Flag, PriorStatus
  <2>2. EventOf(m, "live", at) \in Event
    BY DEF EventOf, Event
  <2>3. "live" \in Status
    BY DEF Status
  <2>4. CASE CanRaise(m)
    <3>1. /\ status' = [status EXCEPT ![m] = "live"]
          /\ flags' = [flags EXCEPT ![m] = NewFlag(m, source, run, at)]
          /\ events' = Append(events, EventOf(m, "live", at))
          /\ decided' = decided
      BY <1>1, <2>4 DEF FlipLive
    <3>2. status' \in [Matches -> Status] /\ decided' \in [Matches -> BOOLEAN]
      BY <2>3, <3>1
    <3>3. flags' \in [Matches -> Flag \cup {NoFlag}]
      BY <2>1, <3>1
    <3>4. events' \in Seq(Event)
      BY <2>2, <3>1
    <3> QED BY <3>2, <3>3, <3>4
  <2>5. CASE ~CanRaise(m)
    BY <1>1, <2>5 DEF FlipLive
  <2> QED BY <2>4, <2>5
<1>2. ASSUME NEW m \in Matches, NEW at \in Times, FlipOut(m, at)
      PROVE  StoreTypeOK'
  <2>1. EventOf(m, "finished", at) \in Event
    BY DEF EventOf, Event
  <2>2. ASSUME flags[m] # NoFlag PROVE flags[m].prior \in Status
    BY <2>2 DEF Flag, Status
  <2>3. CASE flags[m] # NoFlag
    <3>1. /\ status' = [status EXCEPT ![m] = IF @ = "live" THEN flags[m].prior
                                                           ELSE @]
          /\ flags' = [flags EXCEPT ![m] = NoFlag]
          /\ events' = Append(events, EventOf(m, "finished", at))
          /\ decided' = decided
      BY <1>2, <2>3 DEF FlipOut
    <3>2. status' \in [Matches -> Status] /\ decided' \in [Matches -> BOOLEAN]
      BY <2>2, <2>3, <3>1
    <3>3. flags' \in [Matches -> Flag \cup {NoFlag}]
      BY <3>1
    <3>4. events' \in Seq(Event)
      BY <2>1, <3>1
    <3> QED BY <3>2, <3>3, <3>4
  <2>4. CASE flags[m] = NoFlag
    BY <1>2, <2>4 DEF FlipOut
  <2> QED BY <2>3, <2>4
<1>3. ASSUME NEW m \in Matches, NEW run \in RunIds,
             NEW state \in {"on_court", "suspended"},
             MarkFlagSeen(m, run, state)
      PROVE  StoreTypeOK'
  <2>1. ASSUME flags[m] # NoFlag
        PROVE  [[flags[m] EXCEPT !.lastSeen = run]
                   EXCEPT !.state = state] \in Flag
    BY <2>1 DEF Flag
  <2> QED BY <1>3, <2>1 DEF MarkFlagSeen, Flag
<1>4. ASSUME NEW m \in Matches, NEW kind \in {"suspended", "resumed"},
             NEW at \in Times, AppendLiveEvent(m, kind, at)
      PROVE  StoreTypeOK'
  <2>1. EventOf(m, kind, at) \in Event
    BY DEF EventOf, Event
  <2> QED BY <1>4, <2>1 DEF AppendLiveEvent
<1>5. ASSUME NEW old \in SUBSET Created, RetireCreatedMatches(old)
      PROVE  StoreTypeOK'
  BY <1>5 DEF RetireCreatedMatches, Status
<1>6. ASSUME NEW m \in Matches, NEW s \in PipelineStatuses,
             NEW winner \in BOOLEAN, PipelineWrites(m, s, winner)
      PROVE  StoreTypeOK'
  BY <1>6 DEF PipelineWrites
<1>7. CASE UNCHANGED storeVars
  BY <1>7 DEF storeVars
<1> QED BY <1>1, <1>2, <1>3, <1>4, <1>5, <1>6, <1>7 DEF StoreNext

(* The tables are well typed in every reachable state.                     *)
THEOREM StoreTypeCorrect == StoreSpec => []StoreTypeOK
<1>1. StoreInit => StoreTypeOK
  BY StoreAssumption DEF StoreInit, StoreTypeOK, Status, Event, Flag
<1>2. StoreTypeOK /\ [StoreNext]_storeVars => StoreTypeOK'
  BY StoreTypeStep
<1> QED BY <1>1, <1>2, PTL DEF StoreSpec

(* A completed match is one the pipeline is done with.                     *)
CompletedDecided == \A m \in Matches : status[m] = "completed" => decided[m]

LEMMA CompletedDecidedInvariant == StoreSpec => []CompletedDecided
<1>1. StoreInit => CompletedDecided
  BY DEF StoreInit, CompletedDecided
<1>2. StoreTypeOK /\ CompletedDecided /\ [StoreNext]_storeVars
        => CompletedDecided'
  <2> SUFFICES ASSUME StoreTypeOK, CompletedDecided, [StoreNext]_storeVars,
                      NEW x \in Matches, status'[x] = "completed"
               PROVE  decided'[x]
    BY DEF CompletedDecided
  <2> USE DEF StoreTypeOK, CompletedDecided
  <2>1. ASSUME NEW m \in Matches, NEW source \in {Api, "dev"},
               NEW run \in RunIds, NEW at \in Times,
               FlipLive(m, source, run, at)
        PROVE  decided'[x]
    BY <2>1 DEF FlipLive
  <2>2. ASSUME NEW m \in Matches, NEW at \in Times, FlipOut(m, at)
        PROVE  decided'[x]
    <3>1. flags[m] # NoFlag => flags[m].prior # "completed"
      BY DEF Flag
    <3> QED BY <2>2, <3>1 DEF FlipOut
  <2>3. ASSUME NEW m \in Matches, NEW run, NEW state, MarkFlagSeen(m, run, state)
        PROVE  decided'[x]
    BY <2>3 DEF MarkFlagSeen
  <2>4. ASSUME NEW m \in Matches, NEW kind, NEW at, AppendLiveEvent(m, kind, at)
        PROVE  decided'[x]
    BY <2>4 DEF AppendLiveEvent
  <2>5. ASSUME NEW old \in SUBSET Created, RetireCreatedMatches(old)
        PROVE  decided'[x]
    BY <2>5 DEF RetireCreatedMatches
  <2>6. ASSUME NEW m \in Matches, NEW s \in PipelineStatuses,
               NEW winner \in BOOLEAN, PipelineWrites(m, s, winner)
        PROVE  decided'[x]
    BY <2>6 DEF PipelineWrites
  <2>7. CASE UNCHANGED storeVars
    BY <2>7 DEF storeVars
  <2> QED BY <2>1, <2>2, <2>3, <2>4, <2>5, <2>6, <2>7 DEF StoreNext
<1> QED BY <1>1, <1>2, StoreTypeCorrect, PTL DEF StoreSpec

(* No transaction, however stale what its caller read, replaces a result   *)
(* the pipeline has written (the guards of FlipLive and FlipOut).          *)
THEOREM ResultIsKept == StoreSpec => ResultKept
<1>1. StoreTypeOK /\ CompletedDecided /\ [StoreNext]_storeVars =>
        [\A m \in Matches : status[m] = "completed" =>
                              status'[m] = "completed"]_storeVars
  <2> SUFFICES ASSUME StoreTypeOK, CompletedDecided, StoreNext,
                      NEW x \in Matches, status[x] = "completed"
               PROVE  status'[x] = "completed"
    OBVIOUS
  <2> USE DEF StoreTypeOK
  <2>1. ASSUME NEW m \in Matches, NEW source \in {Api, "dev"},
               NEW run \in RunIds, NEW at \in Times,
               FlipLive(m, source, run, at)
        PROVE  status'[x] = "completed"
    BY <2>1 DEF FlipLive, CanRaise
  <2>2. ASSUME NEW m \in Matches, NEW at \in Times, FlipOut(m, at)
        PROVE  status'[x] = "completed"
    BY <2>2 DEF FlipOut
  <2>3. ASSUME NEW m \in Matches, NEW run, NEW state, MarkFlagSeen(m, run, state)
        PROVE  status'[x] = "completed"
    BY <2>3 DEF MarkFlagSeen
  <2>4. ASSUME NEW m \in Matches, NEW kind, NEW at, AppendLiveEvent(m, kind, at)
        PROVE  status'[x] = "completed"
    BY <2>4 DEF AppendLiveEvent
  <2>5. ASSUME NEW old \in SUBSET Created, RetireCreatedMatches(old)
        PROVE  status'[x] = "completed"
    BY <2>5 DEF RetireCreatedMatches, Retirable
  <2>6. ASSUME NEW m \in Matches, NEW s \in PipelineStatuses,
               NEW winner \in BOOLEAN, PipelineWrites(m, s, winner)
        PROVE  status'[x] = "completed"
    BY <2>6 DEF PipelineWrites, CompletedDecided
  <2> QED BY <2>1, <2>2, <2>3, <2>4, <2>5, <2>6 DEF StoreNext
<1> QED BY <1>1, StoreTypeCorrect, CompletedDecidedInvariant, PTL
        DEF StoreSpec, ResultKept

-----------------------------------------------------------------------------
(* Appending to the outbox adds at most one transition, at the end, and    *)
(* leaves the others as they were.                                         *)
LEMMA AppendAnnounces ==
  ASSUME events \in Seq(Event), NEW e \in Event, NEW m \in Matches,
         events' = Append(events, e)
  PROVE  /\ Transitions(m)' = IF e.match = m /\ e.kind \in {"live", "finished"}
                              THEN Transitions(m) \cup {Len(events) + 1}
                              ELSE Transitions(m)
         /\ \A k \in Transitions(m) : events'[k] = events[k]
         /\ Transitions(m) \subseteq 1..Len(events)
         /\ events'[Len(events) + 1] = e
<1>1. /\ DOMAIN events = 1..Len(events)
      /\ DOMAIN events' = 1..(Len(events) + 1)
      /\ \A k \in 1..Len(events) : events'[k] = events[k]
      /\ events'[Len(events) + 1] = e
      /\ Len(events) \in Nat
  OBVIOUS
<1>2. Transitions(m) \subseteq 1..Len(events)
  BY <1>1 DEF Transitions
<1>3. \A k \in 1..(Len(events) + 1) :
        k \in Transitions(m)' <=>
          \/ k \in Transitions(m)
          \/ k = Len(events) + 1 /\ e.match = m /\ e.kind \in {"live", "finished"}
  BY <1>1 DEF Transitions
<1>4. Transitions(m)' \subseteq 1..(Len(events) + 1)
  BY <1>1 DEF Transitions
<1>5. CASE e.match = m /\ e.kind \in {"live", "finished"}
  <2>1. Transitions(m)' = Transitions(m) \cup {Len(events) + 1}
    BY <1>1, <1>2, <1>3, <1>4, <1>5
  <2> QED BY <1>1, <1>2, <1>5, <2>1
<1>6. CASE ~(e.match = m /\ e.kind \in {"live", "finished"})
  <2>1. \A k : k \in Transitions(m)' <=> k \in Transitions(m)
    <3>1. 1..Len(events) \subseteq 1..(Len(events) + 1)
      BY <1>1
    <3> QED BY <1>2, <1>3, <1>4, <1>6, <3>1
  <2>2. Transitions(m)' = Transitions(m)
    BY <2>1
  <2> QED BY <1>1, <1>2, <1>6, <2>2
<1> QED BY <1>5, <1>6

(* The outbox invariant: OutboxAgrees is inductive once it also says that  *)
(* a flag has been announced, for a first `finished` needs a first `live`. *)
OutboxInv == OutboxAgrees /\ FlagAnnounced

LEMMA OutboxInvariant == StoreSpec => [](StoreTypeOK /\ OutboxInv)
<1> USE StoreAssumption
<1>1. StoreInit => OutboxInv
  BY DEF StoreInit, OutboxInv, OutboxAgrees, FlagAnnounced, Transitions
<1>2. StoreTypeOK /\ OutboxInv /\ [StoreNext]_storeVars => OutboxInv'
  <2> SUFFICES ASSUME StoreTypeOK, OutboxInv, [StoreNext]_storeVars
               PROVE  OutboxInv'
    OBVIOUS
  <2> DEFINE Agrees(x) ==
        /\ \A k \in Transitions(x) :
             (\A j \in Transitions(x) : j <= k) =>
               IF flags[x] = NoFlag
               THEN events[k].kind = "finished"
               ELSE events[k].kind = "live" /\ events[k].at = flags[x].flippedAt
        /\ flags[x] # NoFlag => Transitions(x) # {}
  <2>0. /\ OutboxInv <=> \A x \in Matches : Agrees(x)
        /\ OutboxInv' <=> \A x \in Matches : Agrees(x)'
    BY DEF OutboxInv, OutboxAgrees, FlagAnnounced
  <2>1. SUFFICES ASSUME NEW x \in Matches PROVE Agrees(x)'
    BY <2>0
  <2>2. Agrees(x)
    BY <2>0
  \* Nothing is announced and the flag of x keeps the columns that matter.
  <2>3. ASSUME events' = events,
               \/ flags'[x] = flags[x]
               \/ /\ flags[x] # NoFlag /\ flags'[x] # NoFlag
                  /\ flags'[x].flippedAt = flags[x].flippedAt
        PROVE  Agrees(x)'
    BY <2>2, <2>3 DEF Transitions
  \* Something is announced that is no transition of x.
  <2>4. ASSUME NEW e \in Event, events' = Append(events, e),
               e.match # x \/ e.kind \notin {"live", "finished"},
               flags'[x] = flags[x]
        PROVE  Agrees(x)'
    <3>1. /\ Transitions(x)' = Transitions(x)
          /\ \A k \in Transitions(x) : events'[k] = events[k]
      BY <2>4, AppendAnnounces DEF StoreTypeOK
    <3> QED BY <2>2, <2>4, <3>1
  \* A transition of x is announced.
  <2>5. ASSUME NEW e \in Event, events' = Append(events, e),
               e.match = x, e.kind \in {"live", "finished"},
               IF flags'[x] = NoFlag THEN e.kind = "finished"
               ELSE e.kind = "live" /\ e.at = flags'[x].flippedAt
        PROVE  Agrees(x)'
    <3>1. /\ Transitions(x)' = Transitions(x) \cup {Len(events) + 1}
          /\ Transitions(x) \subseteq 1..Len(events)
          /\ events'[Len(events) + 1] = e
      BY <2>5, AppendAnnounces DEF StoreTypeOK
    <3>2. Len(events) \in Nat
      BY DEF StoreTypeOK
    <3>3. ASSUME NEW k \in Transitions(x)',
                 \A j \in Transitions(x)' : j <= k
          PROVE  k = Len(events) + 1
      BY <3>1, <3>2, <3>3
    <3> QED BY <2>5, <3>1, <3>3
  <2> HIDE DEF Agrees
  <2>6. ASSUME NEW m \in Matches, NEW source \in {Api, "dev"},
               NEW run \in RunIds, NEW at \in Times,
               FlipLive(m, source, run, at)
        PROVE  Agrees(x)'
    <3>1. CASE ~CanRaise(m)
      BY <2>3, <2>6, <3>1 DEF FlipLive
    <3>2. CASE CanRaise(m)
      <4>1. /\ EventOf(m, "live", at) \in Event
            /\ EventOf(m, "live", at).match = m
            /\ EventOf(m, "live", at).kind = "live"
            /\ EventOf(m, "live", at).at = at
        BY DEF EventOf, Event
      <4>2. /\ NewFlag(m, source, run, at) # NoFlag
            /\ NewFlag(m, source, run, at).flippedAt = at
        BY DEF NewFlag, Flag, PriorStatus
      <4>3. /\ events' = Append(events, EventOf(m, "live", at))
            /\ flags' = [flags EXCEPT ![m] = NewFlag(m, source, run, at)]
        BY <2>6, <3>2 DEF FlipLive
      <4>4. CASE x = m
        <5>1. flags'[x] = NewFlag(m, source, run, at)
          BY <4>3, <4>4 DEF StoreTypeOK
        <5> QED BY <2>5, <4>1, <4>2, <4>3, <4>4, <5>1
      <4>5. CASE x # m
        <5>1. flags'[x] = flags[x]
          BY <4>3, <4>5 DEF StoreTypeOK
        <5> QED BY <2>4, <4>1, <4>3, <4>5, <5>1
      <4> QED BY <4>4, <4>5
    <3> QED BY <3>1, <3>2
  <2>7. ASSUME NEW m \in Matches, NEW at \in Times, FlipOut(m, at)
        PROVE  Agrees(x)'
    <3>1. CASE flags[m] = NoFlag
      BY <2>3, <2>7, <3>1 DEF FlipOut
    <3>2. CASE flags[m] # NoFlag
      <4>1. /\ EventOf(m, "finished", at) \in Event
            /\ EventOf(m, "finished", at).match = m
            /\ EventOf(m, "finished", at).kind = "finished"
        BY DEF EventOf, Event
      <4>2. /\ events' = Append(events, EventOf(m, "finished", at))
            /\ flags' = [flags EXCEPT ![m] = NoFlag]
        BY <2>7, <3>2 DEF FlipOut
      <4>3. CASE x = m
        <5>1. flags'[x] = NoFlag
          BY <4>2, <4>3 DEF StoreTypeOK
        <5> QED BY <2>5, <4>1, <4>2, <4>3, <5>1
      <4>4. CASE x # m
        <5>1. flags'[x] = flags[x]
          BY <4>2, <4>4 DEF StoreTypeOK
        <5> QED BY <2>4, <4>1, <4>2, <4>4, <5>1
      <4> QED BY <4>3, <4>4
    <3> QED BY <3>1, <3>2
  <2>8. ASSUME NEW m \in Matches, NEW run \in RunIds,
               NEW state \in {"on_court", "suspended"},
               MarkFlagSeen(m, run, state)
        PROVE  Agrees(x)'
    <3>1. events' = events
      BY <2>8 DEF MarkFlagSeen
    <3>2. CASE flags[m] = NoFlag \/ x # m
      <4>1. flags'[x] = flags[x]
        BY <2>8, <3>2 DEF MarkFlagSeen, StoreTypeOK
      <4> QED BY <2>3, <3>1, <4>1
    <3>3. CASE flags[m] # NoFlag /\ x = m
      <4>1. flags[x] \in Flag
        BY <3>3 DEF StoreTypeOK
      <4>2. flags'[x] = [[flags[x] EXCEPT !.lastSeen = run]
                            EXCEPT !.state = state]
        BY <2>8, <3>3 DEF MarkFlagSeen, StoreTypeOK
      <4>3. flags'[x] \in Flag /\ flags'[x].flippedAt = flags[x].flippedAt
        BY <4>1, <4>2 DEF Flag
      <4>4. flags'[x] # NoFlag
        BY <4>3
      <4> QED BY <2>3, <3>1, <3>3, <4>3, <4>4
    <3> QED BY <3>2, <3>3
  <2>9. ASSUME NEW m \in Matches, NEW kind \in {"suspended", "resumed"},
               NEW at \in Times, AppendLiveEvent(m, kind, at)
        PROVE  Agrees(x)'
    <3>1. /\ EventOf(m, kind, at) \in Event
          /\ EventOf(m, kind, at).kind = kind
      BY DEF EventOf, Event
    <3> QED BY <2>4, <2>9, <3>1 DEF AppendLiveEvent
  <2>10. ASSUME NEW old \in SUBSET Created, RetireCreatedMatches(old)
         PROVE  Agrees(x)'
    BY <2>3, <2>10 DEF RetireCreatedMatches
  <2>11. ASSUME NEW m \in Matches, NEW s \in PipelineStatuses,
                NEW winner \in BOOLEAN, PipelineWrites(m, s, winner)
         PROVE  Agrees(x)'
    BY <2>3, <2>11 DEF PipelineWrites
  <2>12. CASE UNCHANGED storeVars
    BY <2>3, <2>12 DEF storeVars
  <2> QED BY <2>6, <2>7, <2>8, <2>9, <2>10, <2>11, <2>12 DEF StoreNext
<1> QED BY <1>1, <1>2, StoreTypeCorrect, PTL DEF StoreSpec

(* The outbox and the flags agree in every reachable state.                *)
THEOREM OutboxAlwaysAgrees == StoreSpec => []OutboxAgrees
BY OutboxInvariant, PTL DEF OutboxInv

(* No match carries a flag whose announcement was lost (FlipLive).         *)
THEOREM FlagsAreAnnounced == StoreSpec => []FlagAnnounced
BY OutboxInvariant, PTL DEF OutboxInv

-----------------------------------------------------------------------------
(* A pipeline that moves a row on, and never back to `scheduled`.          *)
PipelineMovesOn == "scheduled" \notin PipelineStatuses

(* A match that carries a flag is no longer `scheduled`, so FlipLive never *)
(* overwrites a flag and never opens a period inside a period.             *)
FlaggedNotScheduled ==
  \A m \in Matches : flags[m] # NoFlag => status[m] # "scheduled"

LEMMA FlaggedNotScheduledInvariant ==
  ASSUME PipelineMovesOn
  PROVE  StoreSpec => []FlaggedNotScheduled
<1>1. StoreInit => FlaggedNotScheduled
  BY DEF StoreInit, FlaggedNotScheduled
<1>2. StoreTypeOK /\ FlaggedNotScheduled /\ [StoreNext]_storeVars
        => FlaggedNotScheduled'
  <2> SUFFICES ASSUME StoreTypeOK, FlaggedNotScheduled, [StoreNext]_storeVars,
                      NEW x \in Matches, flags'[x] # NoFlag
               PROVE  status'[x] # "scheduled"
    BY DEF FlaggedNotScheduled
  <2> USE DEF StoreTypeOK, FlaggedNotScheduled
  <2>1. ASSUME NEW m \in Matches, NEW source \in {Api, "dev"},
               NEW run \in RunIds, NEW at \in Times,
               FlipLive(m, source, run, at)
        PROVE  status'[x] # "scheduled"
    BY <2>1 DEF FlipLive
  <2>2. ASSUME NEW m \in Matches, NEW at \in Times, FlipOut(m, at)
        PROVE  status'[x] # "scheduled"
    BY <2>2 DEF FlipOut
  <2>3. ASSUME NEW m \in Matches, NEW run, NEW state, MarkFlagSeen(m, run, state)
        PROVE  status'[x] # "scheduled"
    <3>1. flags[x] # NoFlag
      BY <2>3 DEF MarkFlagSeen
    <3> QED BY <2>3, <3>1 DEF MarkFlagSeen
  <2>4. ASSUME NEW m \in Matches, NEW kind, NEW at, AppendLiveEvent(m, kind, at)
        PROVE  status'[x] # "scheduled"
    BY <2>4 DEF AppendLiveEvent
  <2>5. ASSUME NEW old \in SUBSET Created, RetireCreatedMatches(old)
        PROVE  status'[x] # "scheduled"
    BY <2>5 DEF RetireCreatedMatches
  <2>6. ASSUME NEW m \in Matches, NEW s \in PipelineStatuses,
               NEW winner \in BOOLEAN, PipelineWrites(m, s, winner)
        PROVE  status'[x] # "scheduled"
    BY <2>6, PipelineMovesOn DEF PipelineWrites, PipelineMovesOn
  <2>7. CASE UNCHANGED storeVars
    BY <2>7 DEF storeVars
  <2> QED BY <2>1, <2>2, <2>3, <2>4, <2>5, <2>6, <2>7 DEF StoreNext
<1> QED BY <1>1, <1>2, StoreTypeCorrect, PTL DEF StoreSpec

(* Under such a pipeline the tables are a feed of live periods: FlipLive   *)
(* begins one, FlipOut ends one, everything else is a remark or a stutter. *)
THEOREM StoreImplementsPeriods ==
  ASSUME PipelineMovesOn
  PROVE  StoreSpec => ImplementsPeriods
<1> DEFINE since == [m \in Matches |-> IF flags[m] = NoFlag THEN NoFlag
                                       ELSE flags[m].flippedAt]
<1> USE StoreAssumption
<1>1. StoreInit => Periods!PeriodsInit
  BY DEF StoreInit, Periods!PeriodsInit
<1>2. StoreTypeOK /\ FlaggedNotScheduled /\ [StoreNext]_storeVars
        => [Periods!PeriodsNext]_<<since, events>>
  <2> SUFFICES ASSUME StoreTypeOK, FlaggedNotScheduled, [StoreNext]_storeVars
               PROVE  Periods!PeriodsNext \/ UNCHANGED <<since, events>>
    OBVIOUS
  <2> USE DEF StoreTypeOK
  <2>1. ASSUME NEW m \in Matches, NEW source \in {Api, "dev"},
               NEW run \in RunIds, NEW at \in Times,
               FlipLive(m, source, run, at)
        PROVE  Periods!PeriodsNext \/ UNCHANGED <<since, events>>
    <3>1. CASE ~CanRaise(m)
      BY <2>1, <3>1 DEF FlipLive
    <3>2. CASE CanRaise(m)
      <4>1. flags[m] = NoFlag
        BY <3>2 DEF CanRaise, FlaggedNotScheduled
      <4>2. /\ NewFlag(m, source, run, at) # NoFlag
            /\ NewFlag(m, source, run, at).flippedAt = at
        BY DEF NewFlag, Flag, PriorStatus
      <4>3. /\ flags' = [flags EXCEPT ![m] = NewFlag(m, source, run, at)]
            /\ events' = Append(events, Periods!Announcement(m, "live", at))
        BY <2>1, <3>2 DEF FlipLive, EventOf, Periods!Announcement
      <4>4. since' = [since EXCEPT ![m] = at]
        BY <4>2, <4>3
      <4>5. Periods!BeginPeriod(m, at)
        BY <4>1, <4>3, <4>4 DEF Periods!BeginPeriod
      <4> QED BY <4>5 DEF Periods!PeriodsNext
    <3> QED BY <3>1, <3>2
  <2>2. ASSUME NEW m \in Matches, NEW at \in Times, FlipOut(m, at)
        PROVE  Periods!PeriodsNext \/ UNCHANGED <<since, events>>
    <3>1. CASE flags[m] = NoFlag
      BY <2>2, <3>1 DEF FlipOut
    <3>2. CASE flags[m] # NoFlag
      <4>1. since[m] # NoFlag
        BY <3>2 DEF Flag
      <4>2. /\ flags' = [flags EXCEPT ![m] = NoFlag]
            /\ events' = Append(events, Periods!Announcement(m, "finished", at))
        BY <2>2, <3>2 DEF FlipOut, EventOf, Periods!Announcement
      <4>3. since' = [since EXCEPT ![m] = NoFlag]
        BY <4>2
      <4>4. Periods!EndPeriod(m, at)
        BY <4>1, <4>2, <4>3 DEF Periods!EndPeriod
      <4> QED BY <4>4 DEF Periods!PeriodsNext
    <3> QED BY <3>1, <3>2
  <2>3. ASSUME NEW m \in Matches, NEW run \in RunIds,
               NEW state \in {"on_court", "suspended"},
               MarkFlagSeen(m, run, state)
        PROVE  UNCHANGED <<since, events>>
    <3>1. CASE flags[m] = NoFlag
      BY <2>3, <3>1 DEF MarkFlagSeen
    <3>2. CASE flags[m] # NoFlag
      <4>1. flags' = [flags EXCEPT ![m] = [[flags[m] EXCEPT !.lastSeen = run]
                                              EXCEPT !.state = state]]
        BY <2>3, <3>2 DEF MarkFlagSeen
      <4>2. flags'[m] \in Flag /\ flags'[m].flippedAt = flags[m].flippedAt
        BY <3>2, <4>1 DEF Flag
      <4>3. \A x \in Matches : x # m => flags'[x] = flags[x]
        BY <4>1
      <4>4. \A x \in Matches :
              (IF flags'[x] = NoFlag THEN NoFlag ELSE flags'[x].flippedAt)
                = (IF flags[x] = NoFlag THEN NoFlag ELSE flags[x].flippedAt)
        BY <3>2, <4>2, <4>3
      <4> QED BY <2>3, <4>4 DEF MarkFlagSeen
    <3> QED BY <3>1, <3>2
  <2>4. ASSUME NEW m \in Matches, NEW kind \in {"suspended", "resumed"},
               NEW at \in Times, AppendLiveEvent(m, kind, at)
        PROVE  Periods!PeriodsNext
    <3>1. Periods!Remark(m, kind, at)
      BY <2>4 DEF AppendLiveEvent, Periods!Remark, EventOf, Periods!Announcement
    <3> QED BY <3>1 DEF Periods!PeriodsNext
  <2>5. ASSUME NEW old \in SUBSET Created, RetireCreatedMatches(old)
        PROVE  UNCHANGED <<since, events>>
    BY <2>5 DEF RetireCreatedMatches
  <2>6. ASSUME NEW m \in Matches, NEW s \in PipelineStatuses,
               NEW winner \in BOOLEAN, PipelineWrites(m, s, winner)
        PROVE  UNCHANGED <<since, events>>
    BY <2>6 DEF PipelineWrites
  <2>7. CASE UNCHANGED storeVars
    BY <2>7 DEF storeVars
  <2> QED BY <2>1, <2>2, <2>3, <2>4, <2>5, <2>6, <2>7 DEF StoreNext
<1> QED BY <1>1, <1>2, StoreTypeCorrect, FlaggedNotScheduledInvariant, PTL
        DEF StoreSpec, ImplementsPeriods, Periods!PeriodsSpec, Periods!periodVars
=============================================================================

--------------------------- MODULE LivePollProofs ----------------------------
(***************************************************************************)
(* What is proved of the poller for any number of instances, replays,      *)
(* matches and boards.                                                     *)
(*                                                                         *)
(* Each of its steps is a transaction of LiveStore or leaves the tables of *)
(* the store alone, with a run id, a clock reading and a state that the    *)
(* types allow; so the poller implements the store, and what LiveStoreProofs*)
(* says of the transactions holds of every interleaving of the processes.  *)
(*                                                                         *)
(* Of what a poller knows speak two invariants on top of PollInv: MissInv  *)
(* counts the boards without a match, ClockInv dates the announcements.    *)
(* They hold where no board is replayed beside the poller: a replay does   *)
(* not take the lock.  Of reconcile, which acts outside the lock on lists  *)
(* it made before, nothing of the kind can be proved: see late_exit.       *)
(***************************************************************************)
EXTENDS LivePoll, LiveStoreProofs, Bounds, FiniteSetTheorems, TLAPS

(* The parts of PollTypeOK; and a process that applies a row has read one. *)
LocalTypes ==
  /\ pc \in [Procs -> Steps]
  /\ at \in [Procs -> Times]
  /\ todo \in [Procs -> SUBSET Matches]
  /\ run \in [Procs -> RunIds]
  /\ prev \in [Procs -> Nat \cup {Unread}]
  /\ held \in [Procs -> [Matches -> Held \cup {NoFlag}]]
  /\ board \in [Procs -> SUBSET Rows]
  /\ inScope \in [Procs -> Nat]
  /\ seen \in [Procs -> SUBSET Matches]
  /\ row \in [Procs -> [match : Matches, sig : BoardStates] \cup {NoRow}]
  /\ \A p \in Procs : pc[p] \in {"apply", "remark"} => row[p].match \in Matches

SharedTypes ==
  /\ clock \in Times
  /\ lock \in Inst \cup {Free}
  /\ crashes \in 0..MaxCrashes

RunTypes == runs \in Seq(Run) /\ Len(runs) <= MaxRuns

PollInv == StoreTypeOK /\ LocalTypes /\ SharedTypes /\ RunTypes /\ OnePollAtATime

LEMMA TypesOfPoll == PollInv => PollTypeOK
  BY DEF PollInv, LocalTypes, SharedTypes, RunTypes, PollTypeOK

-----------------------------------------------------------------------------
(* A process that forgets its cycle is well typed, whoever it is.          *)
LEMMA ForgetTypes ==
  ASSUME LocalTypes, NEW p \in Procs, Forget(p)
  PROVE  LocalTypes'
  <1>1. 0 \in Times /\ 0 \in RunIds
    BY PollAssumption
  <1>2. NothingHeld \in [Matches -> Held \cup {NoFlag}]
    BY DEF NothingHeld
  <1>3. "idle" \in Steps
    BY DEF Steps
  <1> QED BY <1>1, <1>2, <1>3 DEF LocalTypes, Forget, Goto

(* What the queries on the runs and the flags return.                      *)
LEMMA GoodRuns ==
  ASSUME RunTypes
  PROVE  /\ PrevSuccessfulInScope \in Nat
         /\ StoreTypeOK => HeldLiveFlags \in [Matches -> Held \cup {NoFlag}]
  <1>1. /\ Len(runs) \in Nat /\ DOMAIN runs = 1..Len(runs)
        /\ \A r \in DOMAIN runs : runs[r] \in Run
    BY DEF RunTypes
  <1>2. Good \in SUBSET ((-1)..Len(runs)) /\ Good \subseteq DOMAIN runs
    BY <1>1 DEF Good
  <1>3. ASSUME Good # {} PROVE runs[Max(Good)].inScope \in Nat
    <2>1. Max(Good) \in Good
      BY <1>1, <1>2, <1>3, MaxOfBounded
    <2> QED BY <1>1, <1>2, <2>1 DEF Run
  <1>4. PrevSuccessfulInScope \in Nat
    BY <1>3 DEF PrevSuccessfulInScope
  <1>5. ASSUME StoreTypeOK, NEW m \in Matches, flags[m] # NoFlag PROVE HeldRow(m) \in Held
    <2>1. flags[m] \in Flag
      BY <1>5 DEF StoreTypeOK
    <2>2. IsFiniteSet(1..Len(runs))
      BY <1>1, FS_Interval
    <2>3. {r \in Good : r > flags[m].lastSeen} \subseteq 1..Len(runs)
      BY <1>1, <1>2
    <2>4. Misses(m) \in Nat
      BY <2>2, <2>3, FS_Subset, FS_CardinalityType DEF Misses
    <2> QED BY <2>1, <2>4 DEF HeldRow, Held, Flag
  <1>6. StoreTypeOK => HeldLiveFlags \in [Matches -> Held \cup {NoFlag}]
    BY <1>5 DEF HeldLiveFlags
  <1> QED BY <1>4, <1>6

LEMMA StartRunTypes ==
  ASSUME LocalTypes, RunTypes, NEW p \in Procs, NEW now \in Times, CanPoll,
         StartRun(p, now)
  PROVE  RunTypes' /\ run' \in [Procs -> RunIds]
  <1>1. NewRun(now) \in Run
    BY DEF NewRun, Run
  <1>2. Len(runs) \in Nat /\ Len(runs) < MaxRuns /\ MaxRuns \in Nat /\ RunIds = 0..MaxRuns
    BY PollAssumption DEF RunTypes, CanPoll
  <1>3. Len(runs) + 1 \in RunIds
    BY <1>2
  <1>4. runs' \in Seq(Run) /\ Len(runs') = Len(runs) + 1
    BY <1>1 DEF StartRun, RunTypes
  <1> QED BY <1>2, <1>3, <1>4 DEF StartRun, RunTypes, LocalTypes

(* A table of runs with other columns is a table of runs.                  *)
LEMMA ReplacedRuns ==
  ASSUME NEW s \in Seq(Run), NEW t, DOMAIN t = DOMAIN s, t = [j \in DOMAIN t |-> t[j]],
         \A j \in DOMAIN s : t[j] \in Run
  PROVE  t \in Seq(Run) /\ Len(t) = Len(s)
  <1>1. DOMAIN s = 1..Len(s) /\ Len(s) \in Nat
    OBVIOUS
  <1>2. t \in [1..Len(s) -> Run]
    BY <1>1
  <1> QED BY <1>1, <1>2

LEMMA ClosedRuns ==
  ASSUME LocalTypes, RunTypes, NEW p \in Procs, NEW outcome \in {"ok", "error"},
         FinishRun(p, outcome)
  PROVE  RunTypes'
  <1>1. \A r \in DOMAIN runs : runs[r] \in Run
    BY DEF RunTypes
  <1>2. inScope[p] \in Nat
    BY DEF LocalTypes
  <1>3. DOMAIN runs' = DOMAIN runs /\ runs' = [j \in DOMAIN runs' |-> runs'[j]]
    BY DEF FinishRun, RunTypes
  <1>4. \A r \in DOMAIN runs : runs'[r] \in Run
    BY <1>1, <1>2 DEF FinishRun, Run
  <1> QED BY <1>3, <1>4, ReplacedRuns DEF RunTypes

LEMMA AskedRuns ==
  ASSUME RunTypes, NEW p \in Procs
  PROVE  /\ Asked(p) \in Seq(Run) /\ Len(Asked(p)) = Len(runs)
  <1>1. \A r \in DOMAIN runs : runs[r] \in Run
    BY DEF RunTypes
  <1>2. DOMAIN Asked(p) = DOMAIN runs /\ Asked(p) = [j \in DOMAIN Asked(p) |-> Asked(p)[j]]
    BY DEF Asked, RunTypes
  <1>3. ASSUME NEW r \in DOMAIN runs PROVE Asked(p)[r] \in Run
    <2>1. \A b \in BOOLEAN : [runs[r] EXCEPT !.asked = b] \in Run
      BY <1>1 DEF Run
    <2>2. (p \in Inst) = TRUE \/ (p \in Inst) = FALSE
      OBVIOUS
    <2>3. PICK b \in BOOLEAN : Asked(p) = [runs EXCEPT ![run[p]].asked = b]
      BY <2>2 DEF Asked
    <2>4. Asked(p)[r] = IF r = run[p] THEN [runs[r] EXCEPT !.asked = b] ELSE runs[r]
      BY <2>3
    <2> QED BY <1>1, <2>1, <2>4
  <1> QED BY <1>2, <1>3, ReplacedRuns DEF RunTypes

LEMMA RunsKept ==
  ASSUME LocalTypes, SharedTypes, RunTypes, [PollNext]_vars
  PROVE  RunTypes'
  <1>1. CASE UNCHANGED runs
    BY <1>1 DEF RunTypes
  <1>2. /\ Inst \subseteq Procs /\ Replays \subseteq Procs
        /\ \A r \in DOMAIN runs : runs[r] \in Run
    BY DEF Procs, RunTypes
  <1>3. ASSUME NEW i \in Inst, SweepRuns(i) PROVE RunTypes'
    <2>1. DOMAIN runs' = DOMAIN runs /\ runs' = [j \in DOMAIN runs' |-> runs'[j]]
      BY <1>3 DEF SweepRuns, SweepAbandonedRuns
    <2>2. \A r \in DOMAIN runs : runs'[r] \in Run
      BY <1>2, <1>3 DEF SweepRuns, SweepAbandonedRuns, Run
    <2> QED BY <2>1, <2>2, ReplacedRuns DEF RunTypes
  <1>4. ASSUME NEW i \in Inst, DecidePoll(i) PROVE RunTypes'
    BY <1>2, <1>4, StartRunTypes DEF DecidePoll, SharedTypes
  <1>5. ASSUME NEW r \in Replays, BeginReplay(r) \/ ReplayFails(r) PROVE RunTypes'
    <2>1. clock' \in Times
      BY <1>5, PollAssumption DEF BeginReplay, ReplayFails, ReadClock, SharedTypes
    <2>2. CASE BeginReplay(r)
      BY <1>2, <2>1, <2>2, StartRunTypes DEF BeginReplay
    <2>3. CASE ReplayFails(r)
      <3>1. NewRun(clock') \in Run
        BY <2>1 DEF NewRun, Run
      <3>2. runs' = Append(runs, NewRun(clock')) /\ Len(runs) < MaxRuns /\ MaxRuns \in Nat
        BY <2>3, PollAssumption DEF ReplayFails, CanPoll
      <3> QED BY <3>1, <3>2 DEF RunTypes
    <2> QED BY <1>5, <2>2, <2>3
  <1>6. ASSUME NEW p \in Procs, FetchFails(p) PROVE RunTypes'
    <2> DEFINE asked == Asked(p)
    <2>1. asked \in Seq(Run) /\ Len(asked) = Len(runs)
      BY AskedRuns
    <2>2. runs' = [asked EXCEPT ![run[p]].outcome = "error"]
      BY <1>6 DEF FetchFails
    <2> HIDE DEF asked
    <2>3. DOMAIN runs' = DOMAIN asked /\ runs' = [j \in DOMAIN runs' |-> runs'[j]]
      BY <2>1, <2>2
    <2>4. \A r \in DOMAIN asked : asked[r] \in Run
      BY <2>1
    <2>5. \A r \in DOMAIN asked : runs'[r] \in Run
      BY <2>1, <2>2, <2>4 DEF Run
    <2> QED BY <2>1, <2>3, <2>5, ReplacedRuns DEF RunTypes
  <1>7. ASSUME NEW p \in Procs, Fetch(p) PROVE RunTypes'
    BY <1>7, AskedRuns DEF Fetch, RunTypes
  <1>8. ASSUME NEW p \in Procs, NEW m \in Matches, NEW sig, MatchRow(p, m, sig)
        PROVE  RunTypes'
    <2>1. DOMAIN runs' = DOMAIN runs /\ runs' = [j \in DOMAIN runs' |-> runs'[j]]
      BY <1>8 DEF MatchRow, RunTypes
    <2>2. \A r \in DOMAIN runs : runs'[r] \in Run
      BY <1>2, <1>8 DEF MatchRow, Run
    <2> QED BY <2>1, <2>2, ReplacedRuns DEF RunTypes
  <1>9. ASSUME NEW p \in Procs, NEW outcome \in {"ok", "error"}, CloseCycle(p, outcome)
        PROVE  RunTypes'
    BY <1>9, ClosedRuns DEF CloseCycle
  <1>10. ASSUME NEW p \in Procs, Ingest(p) PROVE RunTypes'
    BY <1>1, <1>6, <1>7, <1>8, <1>9, <1>10
       DEF Ingest, DropRow, ApplyRow, AppendRemark, TripGuard, BeginSweep, SweepAbsent,
           FinishCycle, AbortIngest
  <1>11. ASSUME NEW i \in Inst, Cycle(i) PROVE RunTypes'
    BY <1>1, <1>2, <1>3, <1>4, <1>10, <1>11
       DEF Cycle, BeginCycle, PutOut, PutOutFails, ListStale, TakeLock, SkipTick
  <1> QED BY <1>1, <1>2, <1>5, <1>10, <1>11
          DEF PollNext, Crash, DevFlip, Pipeline, pollVars, vars

LEMMA SharedKept ==
  ASSUME SharedTypes, [PollNext]_vars
  PROVE  SharedTypes'
  <1>1. /\ MaxClock \in Nat /\ Times = 0..MaxClock /\ MaxCrashes \in Nat
        /\ Gaps \subseteq Nat
    BY PollAssumption
  <1>2. CASE UNCHANGED <<clock, lock, crashes>>
    BY <1>2 DEF SharedTypes
  <1>3. ASSUME NEW gap \in Nat, ReadClock(gap) PROVE clock' \in Times
    BY <1>1, <1>3 DEF ReadClock, SharedTypes
  <1>4. ASSUME NEW gap \in Nat, ReadClock(gap), UNCHANGED <<lock, crashes>>
        PROVE  SharedTypes'
    BY <1>3, <1>4 DEF SharedTypes
  <1>5. ASSUME NEW p, Forget(p) PROVE lock' \in Inst \cup {Free}
    BY <1>5 DEF Forget, SharedTypes
  <1>6. ASSUME NEW p, Forget(p), UNCHANGED <<clock, crashes>> PROVE SharedTypes'
    BY <1>5, <1>6 DEF SharedTypes
  <1>7. ASSUME NEW i \in Inst, Crash(i) PROVE SharedTypes'
    BY <1>1, <1>5, <1>7 DEF Crash, SharedTypes
  <1>8. ASSUME NEW i \in Inst, TakeLock(i) PROVE SharedTypes'
    BY <1>8 DEF TakeLock, SharedTypes
  <1>9. ASSUME NEW p \in Procs, Ingest(p) PROVE SharedTypes'
    BY <1>2, <1>6, <1>9
       DEF Ingest, FetchFails, Fetch, MatchRow, DropRow, ApplyRow, AppendRemark, TripGuard,
           BeginSweep, SweepAbsent, FinishCycle, AbortIngest, CloseCycle
  <1>10. ASSUME NEW i \in Inst, Cycle(i) PROVE SharedTypes'
    BY <1>1, <1>2, <1>4, <1>6, <1>8, <1>9, <1>10
       DEF Cycle, BeginCycle, PutOut, PutOutFails, ListStale, SweepRuns, SkipTick,
           DecidePoll, Procs
  <1>11. ASSUME NEW r \in Replays, BeginReplay(r) \/ ReplayFails(r) PROVE SharedTypes'
    BY <1>4, <1>11 DEF BeginReplay, ReplayFails
  <1>12. ASSUME NEW m, DevFlip(m) PROVE SharedTypes'
    BY <1>4, <1>12 DEF DevFlip
  <1> QED BY <1>2, <1>7, <1>9, <1>10, <1>11, <1>12
          DEF PollNext, Pipeline, pollVars, vars, Procs

-----------------------------------------------------------------------------
(* What the processes remember.                                            *)
LEMMA StepsOfCycle ==
  ASSUME StoreTypeOK, LocalTypes, SharedTypes, RunTypes, NEW p \in Procs,
         \/ BeginCycle(p) \/ ListStale(p) \/ SweepRuns(p) \/ TakeLock(p)
         \/ DecidePoll(p) \/ BeginReplay(p)
         \/ \E m \in Matches : PutOut(p, m) \/ PutOutFails(p, m)
  PROVE  LocalTypes'
  <1>1. {"idle", "orphans", "stale", "lock", "decide", "fetch"} \subseteq Steps
    BY DEF Steps
  <1>2. /\ Gaps \subseteq Nat /\ MaxClock \in Nat /\ Times = 0..MaxClock
        /\ clock \in Times
    BY PollAssumption DEF SharedTypes
  <1>3. CASE BeginCycle(p)
    <2>1. clock' \in Times
      BY <1>2, <1>3 DEF BeginCycle, ReadClock
    <2>2. OrphanFlags \subseteq Matches
      BY DEF OrphanFlags, ApiFlags
    <2> QED BY <1>1, <1>3, <2>1, <2>2 DEF BeginCycle, Goto, LocalTypes
  <1>4. CASE \E m \in Matches : PutOut(p, m) \/ PutOutFails(p, m)
    BY <1>4 DEF PutOut, PutOutFails, Visit, LocalTypes
  <1>5. CASE ListStale(p)
    <2>1. StaleFlags(at[p]) \subseteq Matches
      BY DEF StaleFlags, ApiFlags
    <2> QED BY <1>1, <1>5, <2>1 DEF ListStale, Goto, LocalTypes
  <1>6. CASE SweepRuns(p) \/ TakeLock(p)
    BY <1>1, <1>6 DEF SweepRuns, TakeLock, Goto, LocalTypes
  <1>7. CASE DecidePoll(p)
    <2>1. run' \in [Procs -> RunIds] /\ PrevSuccessfulInScope \in Nat
      BY <1>2, <1>7, StartRunTypes, GoodRuns DEF DecidePoll
    <2>2. PICK baseline \in Nat \cup {Unread} : prev' = [prev EXCEPT ![p] = baseline]
      BY <1>7, <2>1 DEF DecidePoll
    <2> QED BY <1>1, <1>7, <2>1, <2>2 DEF DecidePoll, Goto, LocalTypes
  <1>8. CASE BeginReplay(p)
    <2>1. clock' \in Times
      BY <1>2, <1>8 DEF BeginReplay, ReadClock
    <2>2. run' \in [Procs -> RunIds] /\ PrevSuccessfulInScope \in Nat
      BY <1>8, <2>1, StartRunTypes, GoodRuns DEF BeginReplay
    <2> QED BY <1>1, <1>8, <2>1, <2>2 DEF BeginReplay, Goto, LocalTypes
  <1> QED BY <1>3, <1>4, <1>5, <1>6, <1>7, <1>8

LEMMA StepsOfIngest ==
  ASSUME StoreTypeOK, LocalTypes, SharedTypes, RunTypes, NEW p \in Procs, Ingest(p)
  PROVE  LocalTypes'
  <1>1. {"rows", "apply", "remark", "sweep"} \subseteq Steps
    BY DEF Steps
  <1>2. CASE Fetch(p)
    <2>1. PICK rows \in Boards, extra \in Extras :
            /\ board' = [board EXCEPT ![p] = rows]
            /\ inScope' = [inScope EXCEPT ![p] = Cardinality(rows) + extra]
      BY <1>2 DEF Fetch
    <2>2. rows \subseteq Rows /\ IsFiniteSet(rows) /\ extra \in Nat
      BY PollAssumption
    <2>3. Cardinality(rows) \in Nat
      BY <2>2, FS_CardinalityType
    <2>4. Cardinality(rows) + extra \in Nat
      BY <2>2, <2>3
    <2>5. HeldLiveFlags \in [Matches -> Held \cup {NoFlag}]
      BY GoodRuns
    <2> QED BY <1>1, <1>2, <2>1, <2>2, <2>4, <2>5 DEF Fetch, Goto, LocalTypes
  <1>3. ASSUME NEW m \in Matches, NEW sig \in BoardStates, MatchRow(p, m, sig)
        PROVE  LocalTypes'
    BY <1>1, <1>3 DEF MatchRow, Goto, LocalTypes
  <1>4. ASSUME NEW m \in Matches, NEW sig \in BoardStates, DropRow(p, m, sig)
        PROVE  LocalTypes'
    BY <1>4 DEF DropRow, LocalTypes
  <1>5. CASE ApplyRow(p)
    <2>1. CASE Remarks(p)
      <3>1. pc' = [pc EXCEPT ![p] = "remark"] /\ UNCHANGED row /\ pc[p] = "apply"
        BY <1>5, <2>1 DEF ApplyRow, Goto
      <3> QED BY <1>1, <1>5, <3>1 DEF ApplyRow, LocalTypes
    <2>2. CASE ~Remarks(p)
      <3>1. pc' = [pc EXCEPT ![p] = "rows"] /\ row' = [row EXCEPT ![p] = NoRow]
        BY <1>5, <2>2 DEF ApplyRow, Goto
      <3> QED BY <1>1, <1>5, <3>1 DEF ApplyRow, LocalTypes
    <2> QED BY <2>1, <2>2
  <1>6. CASE AppendRemark(p)
    BY <1>1, <1>6 DEF AppendRemark, Goto, LocalTypes
  <1>7. CASE BeginSweep(p)
    <2>1. Holding(p) \subseteq Matches
      BY DEF Holding
    <2> QED BY <1>1, <1>7, <2>1 DEF BeginSweep, Goto, LocalTypes
  <1>8. ASSUME NEW m \in Matches, SweepAbsent(p, m) PROVE LocalTypes'
    BY <1>8 DEF SweepAbsent, LocalTypes
  <1>9. CASE FetchFails(p) \/ TripGuard(p) \/ FinishCycle(p) \/ AbortIngest(p)
    BY <1>9, ForgetTypes DEF FetchFails, TripGuard, FinishCycle, AbortIngest, CloseCycle
  <1> QED BY <1>2, <1>3, <1>4, <1>5, <1>6, <1>7, <1>8, <1>9 DEF Ingest

LEMMA LocalsKept ==
  ASSUME StoreTypeOK, LocalTypes, SharedTypes, RunTypes, [PollNext]_vars
  PROVE  LocalTypes'
  <1>1. Inst \subseteq Procs /\ Replays \subseteq Procs
    BY DEF Procs
  <1>2. CASE UNCHANGED localVars
    BY <1>2 DEF LocalTypes, localVars
  <1>3. ASSUME NEW i \in Inst, Cycle(i) PROVE LocalTypes'
    BY <1>1, <1>3, StepsOfCycle, StepsOfIngest, ForgetTypes DEF Cycle, SkipTick
  <1>4. ASSUME NEW i \in Inst, Crash(i) PROVE LocalTypes'
    BY <1>1, <1>4, ForgetTypes DEF Crash
  <1>5. ASSUME NEW r \in Replays, BeginReplay(r) \/ Ingest(r) PROVE LocalTypes'
    BY <1>1, <1>5, StepsOfCycle, StepsOfIngest
  <1> QED BY <1>2, <1>3, <1>4, <1>5 DEF PollNext, ReplayFails, DevFlip, Pipeline, pollVars, vars

-----------------------------------------------------------------------------
(* The transactions of the poller are transactions of the store.           *)
LEMMA ApplyIsTransaction ==
  ASSUME LocalTypes, NEW p \in Procs, NEW m \in Matches, NEW sig, ApplyAction(p, m, sig)
  PROVE  [StoreNext]_storeVars
  <1>1. run[p] \in RunIds /\ at[p] \in Times
    BY DEF LocalTypes
  <1>2. ASSUME NEW act PROVE StateAfter(Known(p, m), act) \in {"on_court", "suspended"}
    <2>1. Known(p, m).state \in {"on_court", "suspended"}
      BY DEF Known, LocalTypes, Held
    <2> QED BY <2>1 DEF StateAfter
  <1> QED BY <1>1, <1>2 DEF ApplyAction, StoreNext, storeVars

LEMMA StepIsTransaction ==
  ASSUME StoreTypeOK, LocalTypes, SharedTypes, [PollNext]_vars
  PROVE  [StoreNext]_storeVars
  <1>1. CASE UNCHANGED storeVars
    BY <1>1
  <1>2. ASSUME NEW p \in Procs, Ingest(p) PROVE [StoreNext]_storeVars
    <2>1. CASE ApplyRow(p)
      <3>1. row[p].match \in Matches
        BY <2>1 DEF ApplyRow, LocalTypes
      <3> QED BY <2>1, <3>1, ApplyIsTransaction DEF ApplyRow
    <2>2. CASE AppendRemark(p)
      <3>1. row[p].match \in Matches /\ at[p] \in Times
        BY <2>2 DEF AppendRemark, LocalTypes
      <3> QED BY <2>2, <3>1 DEF AppendRemark, StoreNext
    <2>3. ASSUME NEW m \in Matches, SweepAbsent(p, m) PROVE [StoreNext]_storeVars
      BY <2>3, ApplyIsTransaction DEF SweepAbsent
    <2> QED BY <1>1, <1>2, <2>1, <2>2, <2>3
            DEF Ingest, FetchFails, Fetch, MatchRow, DropRow, TripGuard, BeginSweep,
                FinishCycle, AbortIngest, CloseCycle
  <1>3. ASSUME NEW i \in Inst, Cycle(i) PROVE [StoreNext]_storeVars
    <2>1. ASSUME NEW m \in Matches, PutOut(i, m) PROVE [StoreNext]_storeVars
      <3>1. at[i] \in Times
        BY DEF LocalTypes, Procs
      <3> QED BY <2>1, <3>1 DEF PutOut, StoreNext
    <2>2. ASSUME ListStale(i), NEW x \in Matches PROVE [StoreNext]_storeVars
      BY <2>2 DEF ListStale, StoreNext
    <2>3. ASSUME ListStale(i), Matches = {} PROVE UNCHANGED storeVars
      <3>1. PICK old \in SUBSET Created : RetireCreatedMatches(old)
        BY <2>3 DEF ListStale
      <3>2. status' = [m \in Matches |-> status[m]]
        BY <2>3, <3>1 DEF RetireCreatedMatches
      <3>3. status = [m \in Matches |-> status[m]]
        BY DEF StoreTypeOK
      <3> QED BY <3>1, <3>2, <3>3 DEF RetireCreatedMatches, storeVars
    <2> QED BY <1>1, <1>2, <1>3, <2>1, <2>2, <2>3
            DEF Cycle, BeginCycle, PutOutFails, SweepRuns, TakeLock, SkipTick, DecidePoll,
                Procs
  <1>4. ASSUME NEW m \in Matches, DevFlip(m) PROVE [StoreNext]_storeVars
    <2>1. clock' \in Times
      BY <1>4, PollAssumption DEF DevFlip, ReadClock, SharedTypes
    <2>2. 0 \in RunIds
      BY PollAssumption
    <2> QED BY <1>4, <2>1, <2>2 DEF DevFlip, StoreNext
  <1>5. ASSUME NEW m \in Matches, Pipeline(m) PROVE [StoreNext]_storeVars
    BY <1>5 DEF Pipeline, StoreNext
  <1> QED BY <1>1, <1>2, <1>3, <1>4, <1>5
          DEF PollNext, Crash, BeginReplay, ReplayFails, vars, Procs

-----------------------------------------------------------------------------
(* The lock: the steps an instance takes only while it holds it.           *)
Alone == {"decide", "fetch", "rows", "apply", "remark", "sweep"}

(* A process that stays on one side of Alone disturbs nobody.              *)
LEMMA SameSide ==
  ASSUME LocalTypes, OnePollAtATime, NEW p \in Procs, NEW to, Goto(p, to),
         UNCHANGED lock, to \in Alone <=> pc[p] \in Alone
  PROVE  OnePollAtATime'
  BY DEF OnePollAtATime, Goto, LocalTypes, Alone

(* Nor does one that gives the lock back as it stops.                      *)
LEMMA ForgetFrees ==
  ASSUME LocalTypes, OnePollAtATime, NEW p \in Procs, Forget(p)
  PROVE  OnePollAtATime'
  <1>1. Free \notin Inst
    BY PollAssumption
  <1>2. pc' = [pc EXCEPT ![p] = "idle"] /\ lock' = IF lock = p THEN Free ELSE lock
    BY DEF Forget, Goto
  <1> QED BY <1>1, <1>2 DEF OnePollAtATime, LocalTypes

LEMMA IngestIsAlone ==
  ASSUME LocalTypes, OnePollAtATime, NEW p \in Procs, Ingest(p)
  PROVE  OnePollAtATime'
  <1>1. CASE UNCHANGED <<pc, lock>>
    BY <1>1 DEF OnePollAtATime
  <1>2. CASE Fetch(p)
    BY <1>2, SameSide DEF Fetch, Alone
  <1>3. ASSUME NEW m, NEW sig, MatchRow(p, m, sig) PROVE OnePollAtATime'
    BY <1>3, SameSide DEF MatchRow, Alone
  <1>4. CASE ApplyRow(p)
    BY <1>4, SameSide DEF ApplyRow, Alone
  <1>5. CASE AppendRemark(p)
    BY <1>5, SameSide DEF AppendRemark, Alone
  <1>6. CASE BeginSweep(p)
    BY <1>6, SameSide DEF BeginSweep, Alone
  <1>7. CASE FetchFails(p) \/ TripGuard(p) \/ FinishCycle(p) \/ AbortIngest(p)
    BY <1>7, ForgetFrees DEF FetchFails, TripGuard, FinishCycle, AbortIngest, CloseCycle
  <1> QED BY <1>1, <1>2, <1>3, <1>4, <1>5, <1>6, <1>7 DEF Ingest, DropRow, SweepAbsent

LEMMA AloneKept ==
  ASSUME LocalTypes, OnePollAtATime, [PollNext]_vars
  PROVE  OnePollAtATime'
  <1>1. /\ Inst \subseteq Procs /\ Replays \subseteq Procs
        /\ Inst \cap Replays = {} /\ Free \notin Inst
    BY PollAssumption DEF Procs
  <1>2. CASE UNCHANGED <<pc, lock>>
    BY <1>2 DEF OnePollAtATime
  <1>3. ASSUME NEW i \in Inst, BeginCycle(i) \/ ListStale(i) \/ SweepRuns(i)
        PROVE  OnePollAtATime'
    BY <1>1, <1>3, SameSide DEF BeginCycle, ListStale, SweepRuns, Alone
  <1>4. ASSUME NEW i \in Inst, DecidePoll(i) PROVE OnePollAtATime'
    BY <1>1, <1>4, SameSide DEF DecidePoll, Alone
  <1>5. ASSUME NEW i \in Inst, TakeLock(i) PROVE OnePollAtATime'
    <2>1. /\ lock = Free /\ lock' = i /\ pc' = [pc EXCEPT ![i] = "decide"]
      BY <1>5 DEF TakeLock, Goto
    <2>2. ASSUME NEW j \in Inst, j # i
          PROVE  pc'[j] = pc[j] /\ ~(pc[j] \in Alone) /\ lock' # j
      BY <1>1, <2>1, <2>2 DEF OnePollAtATime, LocalTypes, Alone
    <2>3. pc'[i] = "decide"
      BY <1>1, <2>1 DEF LocalTypes
    <2> QED BY <2>1, <2>2, <2>3 DEF OnePollAtATime, Alone
  <1>6. ASSUME NEW i \in Inst, SkipTick(i) \/ Crash(i) PROVE OnePollAtATime'
    BY <1>1, <1>6, ForgetFrees DEF SkipTick, Crash
  <1>7. ASSUME NEW p \in Procs, Ingest(p) PROVE OnePollAtATime'
    BY <1>7, IngestIsAlone
  <1>8. ASSUME NEW i \in Inst, Cycle(i) PROVE OnePollAtATime'
    BY <1>1, <1>2, <1>3, <1>4, <1>5, <1>6, <1>7, <1>8 DEF Cycle, PutOut, PutOutFails
  <1>9. ASSUME NEW r \in Replays, BeginReplay(r) PROVE OnePollAtATime'
    <2>1. pc' = [pc EXCEPT ![r] = "fetch"] /\ UNCHANGED lock
      BY <1>9 DEF BeginReplay, Goto
    <2> QED BY <1>1, <2>1 DEF OnePollAtATime, LocalTypes
  <1> QED BY <1>1, <1>2, <1>6, <1>7, <1>8, <1>9
          DEF PollNext, ReplayFails, DevFlip, Pipeline, pollVars, localVars, vars

-----------------------------------------------------------------------------
LEMMA PollStarts ==
  ASSUME PollInit
  PROVE  PollInv
  <1>1. StoreTypeOK
    BY StoreAssumption DEF PollInit, StoreInit, StoreTypeOK, Status, Event, Flag
  <1>2. 0 \in Times /\ 0 \in RunIds /\ MaxRuns \in Nat /\ MaxCrashes \in Nat
    BY PollAssumption
  <1>3. NothingHeld \in [Matches -> Held \cup {NoFlag}]
    BY DEF NothingHeld
  <1>4. LocalTypes
    BY <1>2, <1>3 DEF PollInit, LocalTypes, Steps
  <1>5. SharedTypes /\ RunTypes
    BY <1>2 DEF PollInit, SharedTypes, RunTypes
  <1>6. OnePollAtATime
    BY PollAssumption DEF PollInit, OnePollAtATime, Procs
  <1> QED BY <1>1, <1>4, <1>5, <1>6 DEF PollInv

LEMMA PollInvariant == PollSpec => []PollInv
<1>1. PollInv /\ [PollNext]_vars => PollInv'
  <2> SUFFICES ASSUME PollInv, [PollNext]_vars PROVE PollInv'
    OBVIOUS
  <2>1. StoreTypeOK /\ LocalTypes /\ SharedTypes /\ RunTypes /\ OnePollAtATime
    BY DEF PollInv
  <2>2. StoreTypeOK'
    BY <2>1, StepIsTransaction, StoreTypeStep
  <2>3. LocalTypes' /\ SharedTypes' /\ RunTypes' /\ OnePollAtATime'
    BY <2>1, LocalsKept, SharedKept, RunsKept, AloneKept
  <2> QED BY <2>2, <2>3 DEF PollInv
<1> QED BY <1>1, PollStarts, PTL DEF PollSpec

(* Run ids, readings, snapshots and queues stay what the columns allow,    *)
(* however many instances and replays run (poll.go, live_poll.go).         *)
THEOREM PollTypeCorrect == PollSpec => []PollTypeOK
BY PollInvariant, TypesOfPoll, PTL

(* The advisory lock: any number of instances, crashing where they may,    *)
(* never are two between the try-lock and the end of their cycle.          *)
THEOREM PollsAreAlone == PollSpec => []OnePollAtATime
<1>1. PollInv => OnePollAtATime
  BY DEF PollInv
<1> QED BY <1>1, PollInvariant, PTL

(* The poller implements the store: what the instances, the replays and    *)
(* the dev endpoints do to the tables, however their steps interleave, is  *)
(* a sequence of LiveStore's transactions.                                 *)
THEOREM PollImplementsStore == PollSpec => ImplementsStore
<1>1. PollInit => StoreInit
  BY DEF PollInit
<1>2. PollInv /\ [PollNext]_vars => [StoreNext]_storeVars
  BY StepIsTransaction DEF PollInv
<1> QED BY <1>1, <1>2, PollInvariant, PTL DEF PollSpec, ImplementsStore, StoreSpec

(* So no interleaving of pollers takes a result back, and the outbox and   *)
(* the flags agree in every state between two of their steps.              *)
THEOREM PollKeepsResults == PollSpec => ResultKept /\ []OutboxAgrees
<1>1. PollSpec => StoreSpec
  BY PollImplementsStore DEF ImplementsStore
<1> QED BY <1>1, ResultIsKept, OutboxAlwaysAgrees, PTL

-----------------------------------------------------------------------------
(* What a cycle knows, when no board is replayed beside the poller: the    *)
(* lock then keeps every other run out of the way.                         *)

(* The steps of a cycle that has a run in the table, and those of them     *)
(* that follow its snapshot.                                               *)
Busy == Alone \ {"decide"}

Reading == Busy \ {"fetch"}

(* m has been read from the board and is about to be applied by p.         *)
InHand(p, m) == pc[p] = "apply" /\ row[p].match = m

(* A cycle under way writes the last run of the table, has seen what that  *)
(* run has observed, and compares with the last good run or with nothing.  *)
OwnRun(p) ==
  /\ run[p] = Len(runs)
  /\ run[p] \in DOMAIN runs
  /\ runs[run[p]].outcome # "ok"
  /\ runs[run[p]].observed = seen[p]
  /\ prev[p] \in {PrevSuccessfulInScope, Unread}

(* Its snapshot still tells the misses of every flag it has not marked,    *)
(* and a match it has seen is marked, out, or in hand.                     *)
TrueSnapshot(p) ==
  \A m \in Matches :
    /\ held[p][m] # NoFlag => held[p][m].misses <= Cardinality(GoodAbsences(m))
    /\ m \in ApiFlags /\ flags[m].lastSeen # run[p] =>
         /\ held[p][m] # NoFlag
         /\ held[p][m].misses = Misses(m)
         /\ m \in seen[p] => InHand(p, m)

(* The sweep is over matches held and not seen, after a board that has not *)
(* collapsed, and leaves no flag behind that has missed three.             *)
TrueSweep(p) ==
  /\ ~Collapsed(p)
  /\ todo[p] \subseteq Holding(p)
  /\ todo[p] \cap seen[p] = {}
  /\ \A m \in ApiFlags :
       flags[m].lastSeen # run[p] /\ m \notin todo[p] => Misses(m) + 1 < MissThreshold

Sound(p) ==
  /\ pc[p] \notin Reading => seen[p] = {}
  /\ pc[p] \in {"apply", "remark"} => row[p].match \in seen[p] /\ row[p].sig # "absent"
  /\ pc[p] \in Busy => OwnRun(p)
  /\ pc[p] \in Reading => TrueSnapshot(p)
  /\ pc[p] = "sweep" => TrueSweep(p)

(* last_seen_run_id names a run that saw the match, no good run saw it     *)
(* later, and fewer than three good runs have come since.                  *)
TrueMarks ==
  \A m \in ApiFlags :
    /\ flags[m].lastSeen \in DOMAIN runs
    /\ m \in runs[flags[m].lastSeen].observed
    /\ Misses(m) < MissThreshold
    /\ \A s \in Good : m \in runs[s].observed => s <= flags[m].lastSeen

MissInv == TrueMarks /\ \A p \in Procs : Sound(p)

(* The good runs, and what they saw and counted, are as they were.         *)
GoodStay ==
  /\ Good' = Good
  /\ \A r \in Good : /\ runs'[r].inScope = runs[r].inScope
                     /\ runs'[r].observed = runs[r].observed

LEMMA CountsStay ==
  ASSUME RunTypes, GoodStay
  PROVE  /\ PrevSuccessfulInScope' = PrevSuccessfulInScope
         /\ \A m \in Matches : GoodAbsences(m)' = GoodAbsences(m)
         /\ \A m \in Matches : flags'[m].lastSeen = flags[m].lastSeen => Misses(m)' = Misses(m)
  <1>1. Good' = Good
    BY DEF GoodStay
  <1>2. PrevSuccessfulInScope' = PrevSuccessfulInScope
    <2>1. CASE Good = {}
      BY <1>1, <2>1 DEF PrevSuccessfulInScope
    <2>2. CASE Good # {}
      <3>1. Good \in SUBSET ((-1)..Len(runs)) /\ Len(runs) \in Nat
        BY DEF Good, RunTypes
      <3>2. Max(Good) \in Good
        BY <2>2, <3>1, MaxOfBounded
      <3>3. Max(Good)' = Max(Good)
        BY <1>1 DEF Max
      <3> QED BY <1>1, <2>2, <3>2, <3>3 DEF PrevSuccessfulInScope, GoodStay
    <2> QED BY <2>1, <2>2
  <1>3. \A m \in Matches : GoodAbsences(m)' = GoodAbsences(m)
    BY <1>1 DEF GoodAbsences, GoodStay
  <1>4. ASSUME NEW m \in Matches, flags'[m].lastSeen = flags[m].lastSeen
        PROVE  Misses(m)' = Misses(m)
    BY <1>1, <1>4 DEF Misses
  <1> QED BY <1>2, <1>3, <1>4

(* A step that is not one of the cycle p: the runs keep what p reads of    *)
(* them, and of the flags of the poller it can only take some out.         *)
Gentle ==
  /\ DOMAIN runs' = DOMAIN runs
  /\ Len(runs') = Len(runs)
  /\ \A r \in DOMAIN runs : /\ runs'[r].inScope = runs[r].inScope
                            /\ runs'[r].observed = runs[r].observed
                            /\ runs'[r].outcome = "ok" <=> runs[r].outcome = "ok"
  /\ \A m \in ApiFlags' : m \in ApiFlags /\ flags'[m] = flags[m]

LEMMA GentleIsGood ==
  ASSUME RunTypes, Gentle
  PROVE  GoodStay
  BY DEF Gentle, GoodStay, Good

LEMMA MarksStay ==
  ASSUME RunTypes, TrueMarks, GoodStay, DOMAIN runs \subseteq DOMAIN runs',
         \A r \in DOMAIN runs : runs[r].observed \subseteq runs'[r].observed,
         \A m \in ApiFlags' : m \in ApiFlags /\ flags'[m] = flags[m]
  PROVE  TrueMarks'
  <1> SUFFICES ASSUME NEW m \in ApiFlags'
               PROVE  /\ flags'[m].lastSeen \in DOMAIN runs'
                      /\ m \in runs'[flags'[m].lastSeen].observed
                      /\ Misses(m)' < MissThreshold
                      /\ \A s \in Good' : m \in runs'[s].observed => s <= flags'[m].lastSeen
    BY DEF TrueMarks, MissThreshold
  <1>1. m \in Matches /\ m \in ApiFlags /\ flags'[m] = flags[m]
    BY DEF ApiFlags
  <1>2. Misses(m)' = Misses(m)
    BY <1>1, CountsStay
  <1>3. Good' = Good /\ \A r \in Good : runs'[r].observed = runs[r].observed
    BY DEF GoodStay
  <1> QED BY <1>1, <1>2, <1>3 DEF TrueMarks

Undisturbed(q) ==
  /\ pc'[q] = pc[q] /\ todo'[q] = todo[q] /\ run'[q] = run[q] /\ prev'[q] = prev[q]
  /\ held'[q] = held[q] /\ inScope'[q] = inScope[q] /\ seen'[q] = seen[q]
  /\ row'[q] = row[q]

LEMMA Bystander ==
  ASSUME RunTypes, NEW q \in Procs, Sound(q), Undisturbed(q), pc[q] \in Busy => Gentle
  PROVE  Sound(q)'
  <1>1. CASE pc[q] \notin Busy
    BY <1>1 DEF Sound, Undisturbed, Busy, Reading, Alone
  <1>2. CASE pc[q] \in Busy
    <2>1. GoodStay /\ Gentle
      BY <1>2, GentleIsGood
    <2>2. /\ PrevSuccessfulInScope' = PrevSuccessfulInScope
          /\ \A m \in Matches : GoodAbsences(m)' = GoodAbsences(m)
          /\ \A m \in Matches : flags'[m].lastSeen = flags[m].lastSeen => Misses(m)' = Misses(m)
      BY <2>1, CountsStay
    <2>3. /\ pc'[q] \notin Reading => seen'[q] = {}
          /\ pc'[q] \in {"apply", "remark"} => row'[q].match \in seen'[q] /\ row'[q].sig # "absent"
      BY DEF Sound, Undisturbed
    <2>4. OwnRun(q)'
      BY <1>2, <2>1, <2>2 DEF Sound, Undisturbed, OwnRun, Gentle
    <2>5. ASSUME pc'[q] \in Reading PROVE TrueSnapshot(q)'
      <3>1. TrueSnapshot(q)
        BY <2>5 DEF Sound, Undisturbed
      <3>2. ASSUME NEW m \in Matches, held'[q][m] # NoFlag
            PROVE  held'[q][m].misses <= Cardinality(GoodAbsences(m))'
        <4>1. GoodAbsences(m)' = GoodAbsences(m)
          BY <2>2
        <4> QED BY <3>1, <3>2, <4>1 DEF TrueSnapshot, Undisturbed
      <3>3. ASSUME NEW m \in Matches, m \in ApiFlags', flags'[m].lastSeen # run'[q]
            PROVE  /\ held'[q][m] # NoFlag
                   /\ held'[q][m].misses = Misses(m)'
                   /\ m \in seen'[q] => InHand(q, m)'
        <4>1. m \in ApiFlags /\ flags'[m] = flags[m]
          BY <2>1, <3>3 DEF Gentle
        <4>2. Misses(m)' = Misses(m)
          BY <2>2, <4>1
        <4> QED BY <3>1, <3>3, <4>1, <4>2 DEF TrueSnapshot, Undisturbed, InHand
      <3> QED BY <3>2, <3>3 DEF TrueSnapshot
    <2>6. ASSUME pc'[q] = "sweep" PROVE TrueSweep(q)'
      <3>1. TrueSweep(q)
        BY <2>6 DEF Sound, Undisturbed
      <3>2. /\ Collapsed(q)' = Collapsed(q) /\ Holding(q)' = Holding(q)
            /\ todo'[q] = todo[q] /\ seen'[q] = seen[q]
        BY DEF Collapsed, Holding, Undisturbed
      <3>3. ASSUME NEW m \in ApiFlags', flags'[m].lastSeen # run'[q], m \notin todo'[q]
            PROVE  Misses(m)' + 1 < MissThreshold
        <4>1. m \in ApiFlags /\ flags'[m] = flags[m] /\ m \in Matches
          BY <2>1, <3>3 DEF Gentle, ApiFlags
        <4>2. Misses(m)' = Misses(m)
          BY <2>2, <4>1
        <4> QED BY <3>1, <3>3, <4>1, <4>2 DEF TrueSweep, Undisturbed
      <3> QED BY <3>1, <3>2, <3>3 DEF TrueSweep, MissThreshold
    <2> QED BY <1>2, <2>3, <2>4, <2>5, <2>6 DEF Sound, Undisturbed
  <1> QED BY <1>1, <1>2
-----------------------------------------------------------------------------
LEMMA OthersWait ==
  ASSUME RunTypes, OnePollAtATime, Replays = {}, NEW i \in Procs, pc[i] \in Alone,
         \A q \in Procs : Sound(q), \A q \in Procs \ {i} : Undisturbed(q)
  PROVE  \A q \in Procs \ {i} : Sound(q)'
  <1> SUFFICES ASSUME NEW q \in Procs \ {i} PROVE Sound(q)'
    OBVIOUS
  <1>1. i \in Inst /\ q \in Inst
    BY DEF Procs
  <1>2. lock = i /\ lock # q
    BY <1>1 DEF OnePollAtATime, Alone
  <1>3. pc[q] \notin Busy
    BY <1>1, <1>2 DEF OnePollAtATime, Alone, Busy
  <1> QED BY <1>3, Bystander

(* A cycle that is over knows nothing.                                     *)
LEMMA OverIsSound ==
  ASSUME LocalTypes, NEW p \in Procs, Forget(p)
  PROVE  Sound(p)' /\ \A q \in Procs \ {p} : Undisturbed(q)
  <1>1. pc'[p] = "idle" /\ seen'[p] = {}
    BY DEF Forget, Goto, LocalTypes
  <1>2. \A q \in Procs \ {p} : Undisturbed(q)
    BY DEF Forget, Goto, LocalTypes, Undisturbed
  <1> QED BY <1>1, <1>2 DEF Sound, Busy, Reading, Alone

(* The misses of a flag are good runs that did not see its match.          *)
LEMMA MissesAreAbsences ==
  ASSUME RunTypes, StoreTypeOK, TrueMarks, NEW m \in ApiFlags
  PROVE  /\ Misses(m) \in Nat
         /\ Misses(m) <= Cardinality(GoodAbsences(m))
  <1>1. Len(runs) \in Nat /\ Good \subseteq 1..Len(runs)
    BY DEF RunTypes, Good
  <1>2. m \in Matches /\ flags[m].lastSeen \in Nat
    BY StoreAssumption DEF ApiFlags, StoreTypeOK, Flag
  <1> DEFINE missed == {r \in Good : r > flags[m].lastSeen}
  <1>3. missed \subseteq GoodAbsences(m)
    <2> SUFFICES ASSUME NEW r \in missed, NEW s \in Good, m \in runs[s].observed
                 PROVE  s < r
      BY DEF GoodAbsences
    <2>1. s <= flags[m].lastSeen
      BY DEF TrueMarks
    <2>2. r \in Nat /\ s \in Nat /\ r > flags[m].lastSeen
      BY <1>1
    <2> QED BY <1>2, <2>1, <2>2
  <1>4. IsFiniteSet(GoodAbsences(m))
    <2>1. GoodAbsences(m) \subseteq 1..Len(runs)
      BY <1>1 DEF GoodAbsences
    <2>2. IsFiniteSet(1..Len(runs))
      BY <1>1, FS_Interval
    <2> QED BY <2>1, <2>2, FS_Subset
  <1>5. IsFiniteSet(missed) /\ Cardinality(missed) <= Cardinality(GoodAbsences(m))
    BY <1>3, <1>4, FS_Subset
  <1> QED BY <1>5, FS_CardinalityType DEF Misses

(* DecidePoll: a run of one's own, the last of the table.                  *)
LEMMA DecideKeeps ==
  ASSUME StoreTypeOK, LocalTypes, SharedTypes, RunTypes, OnePollAtATime, MissInv,
         Replays = {}, NEW i \in Procs, DecidePoll(i)
  PROVE  MissInv'
  <1>1. Len(runs) \in Nat /\ DOMAIN runs = 1..Len(runs)
    BY DEF RunTypes
  <1>2. NewRun(clock) \in Run
    BY DEF NewRun, Run, SharedTypes
  <1>3. /\ runs' = Append(runs, NewRun(clock)) /\ run' = [run EXCEPT ![i] = Len(runs) + 1]
        /\ \E baseline \in {PrevSuccessfulInScope, Unread} :
             prev' = [prev EXCEPT ![i] = baseline]
        /\ pc[i] = "decide" /\ pc' = [pc EXCEPT ![i] = "fetch"]
        /\ UNCHANGED <<flags, at, todo, held, board, inScope, seen, row>>
    BY DEF DecidePoll, StartRun, Goto, storeVars
  <1>4. /\ Len(runs') = Len(runs) + 1
        /\ DOMAIN runs' = 1..(Len(runs) + 1)
        /\ \A r \in DOMAIN runs : runs'[r] = runs[r]
        /\ runs'[Len(runs) + 1] = NewRun(clock)
    BY <1>1, <1>2, <1>3 DEF RunTypes
  <1>5. NewRun(clock).outcome = "open" /\ NewRun(clock).observed = {}
    BY DEF NewRun
  <1>6. Good' = Good
    BY <1>1, <1>4, <1>5 DEF Good
  <1>7. GoodStay
    BY <1>1, <1>4, <1>6 DEF GoodStay, Good
  <1>8. TrueMarks'
    <2>1. \A m \in ApiFlags' : m \in ApiFlags /\ flags'[m] = flags[m]
      BY <1>3 DEF ApiFlags
    <2> QED BY <1>1, <1>4, <1>7, <2>1, MarksStay DEF MissInv
  <1>9. Sound(i)'
    <2>1. pc'[i] = "fetch" /\ seen'[i] = {} /\ run'[i] = Len(runs) + 1
          /\ prev'[i] \in {PrevSuccessfulInScope, Unread}
      BY <1>3 DEF LocalTypes, MissInv, Sound, Reading, Busy, Alone
    <2>2. PrevSuccessfulInScope' = PrevSuccessfulInScope
      BY <1>7, CountsStay
    <2>3. OwnRun(i)'
      BY <1>1, <1>4, <1>5, <2>1, <2>2 DEF OwnRun
    <2> QED BY <2>1, <2>3 DEF Sound, Reading, Busy, Alone
  <1>10. \A q \in Procs \ {i} : Undisturbed(q)
    BY <1>3 DEF LocalTypes, Undisturbed
  <1>11. \A q \in Procs \ {i} : Sound(q)'
    BY <1>3, <1>10, OthersWait DEF MissInv, Alone
  <1> QED BY <1>8, <1>9, <1>11 DEF MissInv

(* The cycle is over, and its run is none to count.                        *)
LEMMA FailureKeeps ==
  ASSUME LocalTypes, RunTypes, OnePollAtATime, MissInv, Replays = {}, NEW i \in Procs,
         pc[i] \in Alone, Forget(i), UNCHANGED flags,
         DOMAIN runs' = DOMAIN runs,
         \A r \in DOMAIN runs : r # run[i] => runs'[r] = runs[r],
         \A r \in DOMAIN runs : runs'[r].observed = runs[r].observed,
         run[i] \in DOMAIN runs => /\ runs[run[i]].outcome # "ok"
                                   /\ runs'[run[i]].outcome # "ok"
  PROVE  MissInv'
  <1>1. Good' = Good
    BY DEF Good
  <1>2. GoodStay
    BY <1>1 DEF GoodStay, Good
  <1>3. \A m \in ApiFlags' : m \in ApiFlags /\ flags'[m] = flags[m]
    BY DEF ApiFlags
  <1>4. TrueMarks'
    BY <1>2, <1>3, MarksStay DEF MissInv
  <1>5. Sound(i)' /\ \A q \in Procs \ {i} : Undisturbed(q)
    BY OverIsSound
  <1>6. \A q \in Procs \ {i} : Sound(q)'
    BY <1>5, OthersWait DEF MissInv
  <1> QED BY <1>4, <1>5, <1>6 DEF MissInv

LEMMA FailedRun ==
  ASSUME RunTypes, NEW p \in Procs, FinishRun(p, "error")
  PROVE  /\ DOMAIN runs' = DOMAIN runs
         /\ \A r \in DOMAIN runs : r # run[p] => runs'[r] = runs[r]
         /\ \A r \in DOMAIN runs : runs'[r].observed = runs[r].observed
         /\ run[p] \in DOMAIN runs => runs'[run[p]].outcome # "ok"
  <1>1. \A r \in DOMAIN runs : runs[r] \in Run
    BY DEF RunTypes
  <1> QED BY <1>1 DEF FinishRun, Run

LEMMA AbortKeeps ==
  ASSUME LocalTypes, RunTypes, OnePollAtATime, MissInv, Replays = {}, NEW i \in Procs,
         TripGuard(i) \/ AbortIngest(i)
  PROVE  MissInv'
  <1>1. pc[i] \in Busy /\ pc[i] \in Alone /\ CloseCycle(i, "error")
    BY DEF TripGuard, AbortIngest, Busy, Alone
  <1>2. OwnRun(i)
    BY <1>1 DEF MissInv, Sound
  <1>3. FinishRun(i, "error") /\ Forget(i) /\ UNCHANGED flags
    BY <1>1 DEF CloseCycle, storeVars
  <1> QED BY <1>1, <1>2, <1>3, FailedRun, FailureKeeps DEF OwnRun

LEMMA AskedKeeps ==
  ASSUME RunTypes, NEW p \in Procs
  PROVE  /\ DOMAIN Asked(p) = DOMAIN runs
         /\ \A r \in DOMAIN runs :
              /\ r # run[p] => Asked(p)[r] = runs[r]
              /\ Asked(p)[r].inScope = runs[r].inScope
              /\ Asked(p)[r].observed = runs[r].observed
              /\ Asked(p)[r].outcome = runs[r].outcome
  <1>1. \A r \in DOMAIN runs : runs[r] \in Run
    BY DEF RunTypes
  <1>2. PICK b : Asked(p) = [runs EXCEPT ![run[p]].asked = b]
    BY DEF Asked
  <1> QED BY <1>1, <1>2 DEF Run

LEMMA FetchFailsKeeps ==
  ASSUME LocalTypes, RunTypes, OnePollAtATime, MissInv, Replays = {}, NEW i \in Procs,
         FetchFails(i)
  PROVE  MissInv'
  <1>1. pc[i] \in Busy /\ pc[i] \in Alone /\ Forget(i) /\ UNCHANGED flags
    BY DEF FetchFails, Busy, Alone, storeVars
  <1>2. OwnRun(i)
    BY <1>1 DEF MissInv, Sound
  <1> DEFINE asked == Asked(i)
  <1>3. runs' = [asked EXCEPT ![run[i]].outcome = "error"]
    BY DEF FetchFails
  <1>4. asked \in Seq(Run) /\ Len(asked) = Len(runs)
    BY AskedRuns
  <1>5. /\ DOMAIN asked = DOMAIN runs
        /\ \A r \in DOMAIN runs : /\ r # run[i] => asked[r] = runs[r]
                                  /\ asked[r].observed = runs[r].observed
    BY AskedKeeps
  <1> HIDE DEF asked
  <1>6. \A r \in DOMAIN asked : asked[r] \in Run
    BY <1>4
  <1>7. /\ DOMAIN runs' = DOMAIN runs
        /\ \A r \in DOMAIN runs : r # run[i] => runs'[r] = runs[r]
        /\ \A r \in DOMAIN runs : runs'[r].observed = runs[r].observed
        /\ run[i] \in DOMAIN runs => runs'[run[i]].outcome # "ok"
    BY <1>3, <1>5, <1>6 DEF Run
  <1> QED BY <1>1, <1>2, <1>7, FailureKeeps DEF OwnRun
LEMMA FetchKeeps ==
  ASSUME StoreTypeOK, LocalTypes, RunTypes, OnePollAtATime, MissInv, Replays = {},
         NEW i \in Procs, Fetch(i)
  PROVE  MissInv'
  <1>1. /\ pc[i] = "fetch" /\ pc' = [pc EXCEPT ![i] = "rows"]
        /\ runs' = Asked(i) /\ held' = [held EXCEPT ![i] = HeldLiveFlags]
        /\ UNCHANGED <<flags, lock, todo, run, prev, seen, row>>
        /\ \A q \in Procs \ {i} : inScope'[q] = inScope[q]
    BY DEF Fetch, Goto, storeVars, LocalTypes
  <1>2. OwnRun(i) /\ seen[i] = {} /\ Sound(i)
    BY <1>1 DEF MissInv, Sound, Busy, Reading, Alone
  <1>3. /\ DOMAIN runs' = DOMAIN runs /\ Len(runs') = Len(runs)
        /\ \A r \in DOMAIN runs : /\ runs'[r].inScope = runs[r].inScope
                                  /\ runs'[r].observed = runs[r].observed
                                  /\ runs'[r].outcome = runs[r].outcome
    BY <1>1, AskedKeeps, AskedRuns
  <1>4. GoodStay
    BY <1>3 DEF GoodStay, Good
  <1>5. /\ PrevSuccessfulInScope' = PrevSuccessfulInScope
        /\ \A m \in Matches : GoodAbsences(m)' = GoodAbsences(m)
        /\ \A m \in Matches : flags'[m].lastSeen = flags[m].lastSeen => Misses(m)' = Misses(m)
    BY <1>4, CountsStay
  <1>6. TrueMarks'
    <2>1. \A m \in ApiFlags' : m \in ApiFlags /\ flags'[m] = flags[m]
      BY <1>1 DEF ApiFlags
    <2> QED BY <1>3, <1>4, <2>1, MarksStay DEF MissInv
  <1>7. TrueSnapshot(i)'
    <2>1. held'[i] = HeldLiveFlags /\ seen'[i] = {}
      BY <1>1, <1>2 DEF LocalTypes
    <2>2. ASSUME NEW m \in Matches, held'[i][m] # NoFlag
          PROVE  held'[i][m].misses <= Cardinality(GoodAbsences(m))'
      <3>1. m \in ApiFlags /\ held'[i][m] = HeldRow(m)
        BY <2>1, <2>2 DEF HeldLiveFlags, ApiFlags
      <3>2. Misses(m) <= Cardinality(GoodAbsences(m))
        BY <3>1, MissesAreAbsences DEF MissInv
      <3>3. GoodAbsences(m)' = GoodAbsences(m)
        BY <1>5
      <3> QED BY <3>1, <3>2, <3>3 DEF HeldRow
    <2>3. ASSUME NEW m \in Matches, m \in ApiFlags'
          PROVE  held'[i][m] # NoFlag /\ held'[i][m].misses = Misses(m)'
      <3>1. m \in ApiFlags
        BY <1>1, <2>3 DEF ApiFlags
      <3>2. held'[i][m] = HeldRow(m) /\ Misses(m)' = Misses(m)
        BY <1>1, <1>5, <2>1, <3>1 DEF HeldLiveFlags, ApiFlags
      <3>3. HeldRow(m) \in Held
        <4>1. flags[m] \in Flag /\ Misses(m) \in Nat
          BY <3>1, MissesAreAbsences DEF MissInv, ApiFlags, StoreTypeOK
        <4> QED BY <4>1 DEF HeldRow, Held, Flag
      <3> QED BY <3>2, <3>3, PollAssumption DEF HeldRow
    <2> QED BY <2>1, <2>2, <2>3 DEF TrueSnapshot
  <1>8. Sound(i)'
    <2>1. pc'[i] = "rows" /\ seen'[i] = seen[i] /\ run'[i] = run[i] /\ prev'[i] = prev[i]
      BY <1>1 DEF LocalTypes
    <2>2. OwnRun(i)'
      BY <1>2, <1>3, <1>5, <2>1 DEF OwnRun
    <2> QED BY <1>7, <2>1, <2>2 DEF Sound, Busy, Reading, Alone
  <1>9. \A q \in Procs \ {i} : Undisturbed(q)
    BY <1>1 DEF LocalTypes, Undisturbed
  <1>10. \A q \in Procs \ {i} : Sound(q)'
    BY <1>1, <1>9, OthersWait DEF MissInv, Alone
  <1> QED BY <1>6, <1>8, <1>10 DEF MissInv

LEMMA MatchRowKeeps ==
  ASSUME StoreTypeOK, LocalTypes, RunTypes, OnePollAtATime, MissInv, Replays = {},
         NEW i \in Procs, NEW m \in Matches, NEW sig \in BoardStates, MatchRow(i, m, sig)
  PROVE  MissInv'
  <1>1. /\ pc[i] = "rows" /\ pc' = [pc EXCEPT ![i] = "apply"]
        /\ runs' = [runs EXCEPT ![run[i]].observed = @ \cup {m}]
        /\ seen' = [seen EXCEPT ![i] = @ \cup {m}]
        /\ row' = [row EXCEPT ![i] = [match |-> m, sig |-> sig]]
        /\ UNCHANGED <<flags, lock, todo, run, prev, held, inScope>>
    BY DEF MatchRow, Goto, storeVars
  <1>2. OwnRun(i) /\ Sound(i) /\ TrueSnapshot(i)
    BY <1>1 DEF MissInv, Sound, Busy, Reading, Alone
  <1>3. \A r \in DOMAIN runs : runs[r] \in Run
    BY DEF RunTypes
  <1>4. /\ DOMAIN runs' = DOMAIN runs /\ Len(runs') = Len(runs)
        /\ \A r \in DOMAIN runs : /\ r # run[i] => runs'[r] = runs[r]
                                  /\ runs'[r].outcome = runs[r].outcome
                                  /\ runs[r].observed \subseteq runs'[r].observed
        /\ runs'[run[i]].observed = runs[run[i]].observed \cup {m}
    BY <1>1, <1>2, <1>3 DEF Run, OwnRun, RunTypes
  <1>5. GoodStay
    BY <1>2, <1>4 DEF GoodStay, Good, OwnRun
  <1>6. /\ PrevSuccessfulInScope' = PrevSuccessfulInScope
        /\ \A x \in Matches : GoodAbsences(x)' = GoodAbsences(x)
        /\ \A x \in Matches : flags'[x].lastSeen = flags[x].lastSeen => Misses(x)' = Misses(x)
    BY <1>5, CountsStay
  <1>7. TrueMarks'
    <2>1. \A x \in ApiFlags' : x \in ApiFlags /\ flags'[x] = flags[x]
      BY <1>1 DEF ApiFlags
    <2> QED BY <1>4, <1>5, <2>1, MarksStay DEF MissInv
  <1>8. /\ pc'[i] = "apply" /\ seen'[i] = seen[i] \cup {m} /\ run'[i] = run[i]
        /\ prev'[i] = prev[i] /\ held'[i] = held[i]
        /\ row'[i].match = m /\ row'[i].sig = sig
    BY <1>1 DEF LocalTypes
  <1>9. TrueSnapshot(i)'
    <2>1. ASSUME NEW x \in Matches, held'[i][x] # NoFlag
          PROVE  held'[i][x].misses <= Cardinality(GoodAbsences(x))'
      <3>1. GoodAbsences(x)' = GoodAbsences(x)
        BY <1>6
      <3> QED BY <1>2, <1>8, <2>1, <3>1 DEF TrueSnapshot
    <2>2. ASSUME NEW x \in Matches, x \in ApiFlags', flags'[x].lastSeen # run'[i]
          PROVE  /\ held'[i][x] # NoFlag /\ held'[i][x].misses = Misses(x)'
                 /\ x \in seen'[i] => InHand(i, x)'
      <3>1. x \in ApiFlags /\ flags[x].lastSeen # run[i] /\ Misses(x)' = Misses(x)
        BY <1>1, <1>6, <1>8, <2>2 DEF ApiFlags
      <3>2. x \notin seen[i]
        BY <1>1, <1>2, <3>1 DEF TrueSnapshot, InHand
      <3> QED BY <1>2, <1>8, <3>1, <3>2 DEF TrueSnapshot, InHand
    <2> QED BY <2>1, <2>2 DEF TrueSnapshot
  <1>10. Sound(i)'
    <2>1. OwnRun(i)'
      BY <1>2, <1>4, <1>6, <1>8 DEF OwnRun
    <2> QED BY <1>8, <1>9, <2>1 DEF Sound, Busy, Reading, Alone, BoardStates
  <1>11. \A q \in Procs \ {i} : Undisturbed(q)
    BY <1>1 DEF LocalTypes, Undisturbed
  <1>12. \A q \in Procs \ {i} : Sound(q)'
    BY <1>1, <1>11, OthersWait DEF MissInv, Alone
  <1> QED BY <1>7, <1>10, <1>12 DEF MissInv

-----------------------------------------------------------------------------
(* What the debounce can ask for.                                          *)
LEMMA DeriveAnswers ==
  ASSUME NEW cur, NEW sig, NEW age, cur.held \in BOOLEAN
  PROVE  /\ Derive(cur, sig, age) \in {"force_exit", "enter_live", "leave_live", "suspend",
                                       "resume", "none"}
         /\ Derive(cur, sig, age) = "enter_live" => ~cur.held
         /\ sig = "absent" /\ Derive(cur, sig, age) = "leave_live" => AbsentLongEnough(cur)
  BY DEF Derive, Overdue

(* Applying a row touches the flag of its match only, and that flag is out *)
(* afterwards, or marked with this run.                                    *)
LEMMA ApplyMarks ==
  ASSUME StoreTypeOK, LocalTypes, NEW p \in Procs, NEW m \in Matches, NEW sig,
         sig # "absent", TrueSnapshot(p), ApplyAction(p, m, sig)
  PROVE  /\ \A x \in Matches \ {m} : flags'[x] = flags[x]
         /\ m \in ApiFlags' => flags'[m].lastSeen = run[p]
  <1>1. flags \in [Matches -> Flag \cup {NoFlag}]
    BY DEF StoreTypeOK
  <1> DEFINE act == ActionFor(p, m, sig)
  <1>2. /\ Known(p, m).held \in BOOLEAN
        /\ Known(p, m).held <=> held[p][m] # NoFlag
    BY DEF Known
  <1>3. act = "enter_live" => held[p][m] = NoFlag
    BY <1>2, DeriveAnswers DEF ActionFor
  <1>4. m \in ApiFlags /\ held[p][m] = NoFlag => flags[m].lastSeen = run[p]
    BY DEF TrueSnapshot
  <1>5. CASE act = "enter_live" /\ FlipLive(m, Api, run[p], at[p])
    <2>1. CASE CanRaise(m)
      <3>1. flags' = [flags EXCEPT ![m] = NewFlag(m, Api, run[p], at[p])]
        BY <1>5, <2>1 DEF FlipLive
      <3> QED BY <1>1, <3>1 DEF NewFlag
    <2>2. CASE ~CanRaise(m)
      <3>1. flags' = flags
        BY <1>5, <2>2 DEF FlipLive
      <3> QED BY <1>3, <1>4, <1>5, <3>1 DEF ApiFlags
    <2> QED BY <2>1, <2>2
  <1>6. CASE FlipOut(m, at[p])
    BY <1>1, <1>6 DEF FlipOut, ApiFlags
  <1>7. ASSUME NEW state, MarkFlagSeen(m, run[p], state)
        PROVE  /\ \A x \in Matches \ {m} : flags'[x] = flags[x]
               /\ m \in ApiFlags' => flags'[m].lastSeen = run[p]
    <2>1. CASE flags[m] = NoFlag
      BY <1>7, <2>1 DEF MarkFlagSeen, ApiFlags
    <2>2. CASE flags[m] # NoFlag
      <3>1. flags[m] \in Flag
        BY <1>1, <2>2
      <3>2. flags' = [flags EXCEPT ![m].lastSeen = run[p], ![m].state = state]
        BY <1>7, <2>2 DEF MarkFlagSeen
      <3> QED BY <1>1, <3>1, <3>2 DEF Flag
    <2> QED BY <2>1, <2>2
  <1>8. CASE act = "none" /\ (sig = "absent" \/ ~Known(p, m).held) /\ UNCHANGED storeVars
    BY <1>2, <1>4, <1>8 DEF storeVars, ApiFlags
  <1> QED BY <1>5, <1>6, <1>7, <1>8 DEF ApplyAction

(* Sweeping a match that is held puts its flag out, or leaves it below the *)
(* threshold.                                                              *)
LEMMA SweepSpares ==
  ASSUME StoreTypeOK, LocalTypes, NEW p \in Procs, NEW m \in Holding(p),
         ApplyAction(p, m, "absent")
  PROVE  /\ \A x \in Matches \ {m} : flags'[x] = flags[x]
         /\ \/ flags'[m] = NoFlag
            \/ flags'[m] = flags[m] /\ held[p][m].misses + 1 < MissThreshold
  <1>1. flags \in [Matches -> Flag \cup {NoFlag}] /\ m \in Matches
    BY DEF StoreTypeOK, Holding
  <1> DEFINE act == ActionFor(p, m, "absent")
  <1>2. /\ Known(p, m).held \in BOOLEAN /\ Known(p, m).held
        /\ Known(p, m).misses = held[p][m].misses
    BY DEF Known, Holding
  <1>3. act \in {"force_exit", "leave_live", "none"}
    BY <1>2 DEF ActionFor, Derive, Overdue
  <1>4. act = "none" => ~AbsentLongEnough(Known(p, m))
    BY <1>2 DEF ActionFor, Derive, Overdue
  <1>5. CASE FlipOut(m, at[p])
    BY <1>1, <1>5 DEF FlipOut
  <1>6. CASE act = "none" /\ UNCHANGED storeVars
    <2>1. held[p][m].misses \in Nat
      <3>1. held[p][m] \in Held
        BY <1>1 DEF LocalTypes, Holding
      <3> QED BY <3>1 DEF Held
    <2>2. held[p][m].misses + 1 < MissThreshold
      BY <1>2, <1>4, <1>6, <2>1 DEF AbsentLongEnough, MissThreshold
    <2> QED BY <1>6, <2>2 DEF storeVars
  <1> QED BY <1>3, <1>5, <1>6 DEF ApplyAction
(* A step of a cycle that leaves the runs alone and is over some flags.    *)
LEMMA SameRuns ==
  ASSUME RunTypes, UNCHANGED runs
  PROVE  /\ GoodStay
         /\ PrevSuccessfulInScope' = PrevSuccessfulInScope
         /\ \A m \in Matches : GoodAbsences(m)' = GoodAbsences(m)
         /\ \A m \in Matches : flags'[m].lastSeen = flags[m].lastSeen => Misses(m)' = Misses(m)
  <1>1. GoodStay
    BY DEF GoodStay, Good
  <1> QED BY <1>1, CountsStay

LEMMA NoneLater ==
  ASSUME RunTypes, NEW p \in Procs, OwnRun(p)
  PROVE  {r \in Good : r > run[p]} = {} /\ \A s \in Good : s < run[p]
  <1>1. Len(runs) \in Nat /\ DOMAIN runs = 1..Len(runs) /\ run[p] = Len(runs)
    BY DEF RunTypes, OwnRun
  <1>2. \A s \in Good : s \in 1..Len(runs) /\ s # run[p]
    BY <1>1 DEF Good, OwnRun
  <1> QED BY <1>1, <1>2

LEMMA ApplyRowKeeps ==
  ASSUME StoreTypeOK, LocalTypes, RunTypes, OnePollAtATime, MissInv, Replays = {},
         NEW i \in Procs, ApplyRow(i)
  PROVE  MissInv'
  <1> DEFINE m == row[i].match
  <1>1. /\ pc[i] = "apply" /\ ApplyAction(i, m, row[i].sig)
        /\ pc' = [pc EXCEPT ![i] = IF Remarks(i) THEN "remark" ELSE "rows"]
        /\ row' = IF Remarks(i) THEN row ELSE [row EXCEPT ![i] = NoRow]
        /\ UNCHANGED <<runs, lock, todo, run, prev, held, inScope, seen>>
    BY DEF ApplyRow, Goto
  <1>2. /\ OwnRun(i) /\ TrueSnapshot(i)
        /\ m \in seen[i] /\ m \in Matches /\ row[i].sig # "absent"
    BY <1>1 DEF MissInv, Sound, Busy, Reading, Alone, LocalTypes
  <1>3. /\ GoodStay
        /\ PrevSuccessfulInScope' = PrevSuccessfulInScope
        /\ \A x \in Matches : GoodAbsences(x)' = GoodAbsences(x)
        /\ \A x \in Matches : flags'[x].lastSeen = flags[x].lastSeen => Misses(x)' = Misses(x)
    BY <1>1, SameRuns
  <1>4. /\ \A x \in Matches \ {m} : flags'[x] = flags[x]
        /\ m \in ApiFlags' => flags'[m].lastSeen = run[i]
    BY <1>1, <1>2, ApplyMarks
  <1>5. {r \in Good : r > run[i]} = {} /\ \A s \in Good : s < run[i]
    BY <1>2, NoneLater
  <1>6. OwnRun(i)'
    BY <1>1, <1>2, <1>3 DEF OwnRun
  <1>7. ASSUME NEW x \in ApiFlags', x # m
        PROVE  x \in Matches /\ x \in ApiFlags /\ flags'[x] = flags[x] /\ Misses(x)' = Misses(x)
    BY <1>3, <1>4, <1>7 DEF ApiFlags
  <1> HIDE DEF m
  <1>8. TrueMarks'
    <2> SUFFICES ASSUME NEW x \in ApiFlags'
                 PROVE  /\ flags'[x].lastSeen \in DOMAIN runs'
                        /\ x \in runs'[flags'[x].lastSeen].observed
                        /\ Misses(x)' < MissThreshold
                        /\ \A s \in Good' : x \in runs'[s].observed => s <= flags'[x].lastSeen
      BY DEF TrueMarks, MissThreshold
    <2>1. CASE x # m
      BY <1>1, <1>3, <1>7, <2>1 DEF MissInv, TrueMarks, GoodStay
    <2>2. CASE x = m
      <3>1. flags'[x].lastSeen = run[i]
        BY <1>4, <2>2
      <3>2. {r \in Good' : r > flags'[x].lastSeen} = {}
        BY <1>3, <1>5, <3>1 DEF GoodStay
      <3>3. Misses(x)' = 0
        BY <3>2, FS_EmptySet DEF Misses
      <3>4. \A s \in Good' : s <= flags'[x].lastSeen
        <4> SUFFICES ASSUME NEW s \in Good PROVE s <= run[i]
          BY <1>3, <3>1 DEF GoodStay
        <4>1. s < run[i] /\ s \in Nat /\ run[i] \in Nat
          BY <1>2, <1>5 DEF Good, OwnRun, RunTypes
        <4> QED BY <4>1
      <3> QED BY <1>1, <1>2, <2>2, <3>1, <3>3, <3>4 DEF OwnRun, MissThreshold
    <2> QED BY <2>1, <2>2
  <1>9. TrueSnapshot(i)'
    <2>1. ASSUME NEW x \in Matches, held'[i][x] # NoFlag
          PROVE  held'[i][x].misses <= Cardinality(GoodAbsences(x))'
      <3>1. GoodAbsences(x)' = GoodAbsences(x)
        BY <1>3
      <3> QED BY <1>1, <1>2, <2>1, <3>1 DEF TrueSnapshot
    <2>2. ASSUME NEW x \in Matches, x \in ApiFlags', flags'[x].lastSeen # run'[i]
          PROVE  /\ held'[i][x] # NoFlag /\ held'[i][x].misses = Misses(x)'
                 /\ x \in seen'[i] => InHand(i, x)'
      <3>1. x # m
        BY <1>1, <1>4, <2>2
      <3>2. x \in ApiFlags /\ flags[x].lastSeen # run[i] /\ Misses(x)' = Misses(x)
        BY <1>1, <1>7, <2>2, <3>1
      <3>3. ~InHand(i, x)
        BY <3>1 DEF InHand, m
      <3> QED BY <1>1, <1>2, <3>2, <3>3 DEF TrueSnapshot
    <2> QED BY <2>1, <2>2 DEF TrueSnapshot
  <1>10. Sound(i)'
    <2>1. CASE Remarks(i)
      <3>1. pc'[i] = "remark" /\ row' = row
        BY <1>1, <2>1 DEF LocalTypes
      <3> QED BY <1>1, <1>2, <1>6, <1>9, <3>1 DEF Sound, Busy, Reading, Alone, m
    <2>2. CASE ~Remarks(i)
      <3>1. pc'[i] = "rows"
        BY <1>1, <2>2 DEF LocalTypes
      <3> QED BY <1>6, <1>9, <3>1 DEF Sound, Busy, Reading, Alone
    <2> QED BY <2>1, <2>2
  <1>11. \A q \in Procs \ {i} : Undisturbed(q)
    <2> SUFFICES ASSUME NEW q \in Procs \ {i} PROVE Undisturbed(q)
      OBVIOUS
    <2>1. pc'[q] = pc[q] /\ row'[q] = row[q]
      BY <1>1 DEF LocalTypes
    <2> QED BY <1>1, <2>1 DEF Undisturbed
  <1>12. \A q \in Procs \ {i} : Sound(q)'
    BY <1>1, <1>11, OthersWait DEF MissInv, Alone
  <1> QED BY <1>8, <1>10, <1>12 DEF MissInv

LEMMA SweepKeeps ==
  ASSUME StoreTypeOK, LocalTypes, RunTypes, OnePollAtATime, MissInv, Replays = {},
         NEW i \in Procs, NEW m \in Matches, SweepAbsent(i, m)
  PROVE  MissInv'
  <1>1. /\ pc[i] = "sweep" /\ m \in todo[i] /\ ApplyAction(i, m, "absent")
        /\ todo' = [todo EXCEPT ![i] = @ \ {m}]
        /\ UNCHANGED <<runs, lock, pc, run, prev, held, inScope, seen, row>>
    BY DEF SweepAbsent
  <1>2. OwnRun(i) /\ TrueSnapshot(i) /\ TrueSweep(i) /\ m \in Holding(i)
    BY <1>1 DEF MissInv, Sound, Busy, Reading, Alone, TrueSweep
  <1>3. /\ GoodStay
        /\ PrevSuccessfulInScope' = PrevSuccessfulInScope
        /\ \A x \in Matches : GoodAbsences(x)' = GoodAbsences(x)
        /\ \A x \in Matches : flags'[x].lastSeen = flags[x].lastSeen => Misses(x)' = Misses(x)
    BY <1>1, SameRuns
  <1>4. /\ \A x \in Matches \ {m} : flags'[x] = flags[x]
        /\ \/ flags'[m] = NoFlag
           \/ flags'[m] = flags[m] /\ held[i][m].misses + 1 < MissThreshold
    BY <1>1, <1>2, SweepSpares
  <1>5. \A x \in ApiFlags' : x \in ApiFlags /\ flags'[x] = flags[x] /\ x \in Matches
    BY <1>4 DEF ApiFlags
  <1>6. TrueMarks'
    BY <1>1, <1>3, <1>5, MarksStay DEF MissInv
  <1>7. OwnRun(i)'
    BY <1>1, <1>2, <1>3 DEF OwnRun
  <1>8. ASSUME NEW x \in ApiFlags' PROVE Misses(x)' = Misses(x)
    BY <1>3, <1>5, <1>8
  <1>9. TrueSnapshot(i)'
    <2>1. ASSUME NEW x \in Matches, held'[i][x] # NoFlag
          PROVE  held'[i][x].misses <= Cardinality(GoodAbsences(x))'
      <3>1. GoodAbsences(x)' = GoodAbsences(x)
        BY <1>3
      <3> QED BY <1>1, <1>2, <2>1, <3>1 DEF TrueSnapshot
    <2>2. ASSUME NEW x \in Matches, x \in ApiFlags', flags'[x].lastSeen # run'[i]
          PROVE  /\ held'[i][x] # NoFlag /\ held'[i][x].misses = Misses(x)'
                 /\ x \in seen'[i] => InHand(i, x)'
      BY <1>1, <1>2, <1>5, <1>8, <2>2 DEF TrueSnapshot, InHand
    <2> QED BY <2>1, <2>2 DEF TrueSnapshot
  <1>10. TrueSweep(i)'
    <2>1. todo'[i] = todo[i] \ {m}
      BY <1>1 DEF LocalTypes
    <2>2. Collapsed(i)' = Collapsed(i) /\ Holding(i)' = Holding(i)
      BY <1>1 DEF Collapsed, Holding
    <2>3. ASSUME NEW x \in ApiFlags', flags'[x].lastSeen # run'[i], x \notin todo'[i]
          PROVE  Misses(x)' + 1 < MissThreshold
      <3>1. x \in ApiFlags /\ flags'[x] = flags[x] /\ x \in Matches /\ Misses(x)' = Misses(x)
        BY <1>5, <1>8
      <3>2. CASE x # m
        BY <1>1, <1>2, <2>1, <2>3, <3>1, <3>2 DEF TrueSweep
      <3>3. CASE x = m
        BY <1>1, <1>2, <1>4, <2>3, <3>1, <3>3 DEF TrueSnapshot, ApiFlags
      <3> QED BY <3>2, <3>3
    <2> QED BY <1>1, <1>2, <2>1, <2>2, <2>3 DEF TrueSweep, MissThreshold
  <1>11. Sound(i)'
    BY <1>1, <1>7, <1>9, <1>10 DEF Sound, Busy, Reading, Alone
  <1>12. \A q \in Procs \ {i} : Undisturbed(q)
    BY <1>1 DEF Undisturbed, LocalTypes
  <1>13. \A q \in Procs \ {i} : Sound(q)'
    BY <1>1, <1>12, OthersWait DEF MissInv, Alone
  <1> QED BY <1>6, <1>11, <1>13 DEF MissInv

(* A good run ends: what it saw is marked, what it did not see was swept.  *)
LEMMA FinishKeeps ==
  ASSUME StoreTypeOK, LocalTypes, RunTypes, OnePollAtATime, MissInv, Replays = {},
         NEW i \in Procs, FinishCycle(i)
  PROVE  MissInv'
  <1>1. /\ pc[i] = "sweep" /\ todo[i] = {} /\ FinishRun(i, "ok") /\ Forget(i)
        /\ UNCHANGED flags
    BY DEF FinishCycle, CloseCycle, storeVars
  <1>2. OwnRun(i) /\ TrueSnapshot(i) /\ TrueSweep(i)
    BY <1>1 DEF MissInv, Sound, Busy, Reading, Alone
  <1>3. \A r \in DOMAIN runs : runs[r] \in Run
    BY DEF RunTypes
  <1>4. /\ DOMAIN runs' = DOMAIN runs
        /\ \A r \in DOMAIN runs : /\ runs'[r].observed = runs[r].observed
                                  /\ r # run[i] => runs'[r] = runs[r]
        /\ runs'[run[i]].outcome = "ok"
    BY <1>1, <1>2, <1>3 DEF FinishRun, Run, OwnRun
  <1>5. Good' = Good \cup {run[i]}
    BY <1>2, <1>4 DEF Good, OwnRun
  <1>6. {r \in Good : r > run[i]} = {} /\ \A s \in Good : s < run[i]
    BY <1>2, NoneLater
  <1>7. /\ Len(runs) \in Nat /\ run[i] \in 1..Len(runs) /\ Good \subseteq 1..Len(runs)
    BY <1>2 DEF RunTypes, OwnRun, Good
  <1>8. TrueMarks'
    <2> SUFFICES ASSUME NEW m \in ApiFlags'
                 PROVE  /\ flags'[m].lastSeen \in DOMAIN runs'
                        /\ m \in runs'[flags'[m].lastSeen].observed
                        /\ Misses(m)' < MissThreshold
                        /\ \A s \in Good' : m \in runs'[s].observed => s <= flags'[m].lastSeen
      BY DEF TrueMarks, MissThreshold
    <2>1. m \in ApiFlags /\ m \in Matches /\ flags' = flags
      BY <1>1 DEF ApiFlags
    <2> DEFINE last == flags[m].lastSeen
    <2>2. /\ last \in DOMAIN runs /\ m \in runs[last].observed
          /\ \A s \in Good : m \in runs[s].observed => s <= last
      BY <2>1 DEF MissInv, TrueMarks
    <2>3. last \in Nat
      BY <2>2 DEF RunTypes
    <2> DEFINE later(S) == {r \in S : r > last}
    <2>4. Misses(m)' = Cardinality(later(Good')) /\ Misses(m) = Cardinality(later(Good))
      BY <2>1 DEF Misses
    <2> HIDE DEF last
    <2>5. CASE last = run[i]
      <3>1. later(Good') = {}
        BY <1>5, <1>6, <1>7, <2>5
      <3>2. Misses(m)' = 0
        BY <2>4, <3>1, FS_EmptySet
      <3>3. \A s \in Good' : s <= last
        <4> SUFFICES ASSUME NEW s \in Good' PROVE s <= run[i]
          BY <2>5
        <4> QED BY <1>5, <1>6, <1>7
      <3> QED BY <1>4, <2>1, <2>2, <3>2, <3>3 DEF last, MissThreshold
    <2>6. CASE last # run[i]
      <3>1. Misses(m) + 1 < MissThreshold /\ m \notin seen[i]
        BY <1>1, <1>2, <2>1, <2>6 DEF TrueSnapshot, TrueSweep, InHand, last
      <3>2. IsFiniteSet(later(Good))
        <4>1. later(Good) \subseteq 1..Len(runs)
          BY <1>7
        <4>2. IsFiniteSet(1..Len(runs))
          BY <1>7, FS_Interval
        <4> QED BY <4>1, <4>2, FS_Subset
      <3>3. later(Good') \subseteq later(Good) \cup {run[i]}
        BY <1>5
      <3>4. /\ IsFiniteSet(later(Good) \cup {run[i]})
            /\ Cardinality(later(Good) \cup {run[i]}) <= Cardinality(later(Good)) + 1
        <4>1. Cardinality(later(Good)) \in Nat
          BY <3>2, FS_CardinalityType
        <4> QED BY <3>2, <4>1, FS_AddElement
      <3>5. Cardinality(later(Good')) <= Cardinality(later(Good) \cup {run[i]})
        BY <3>3, <3>4, FS_Subset
      <3>6. Misses(m)' < MissThreshold
        <4>1. /\ Cardinality(later(Good)) \in Nat
              /\ Cardinality(later(Good) \cup {run[i]}) \in Nat
              /\ Cardinality(later(Good')) \in Nat
          BY <3>2, <3>3, <3>4, FS_Subset, FS_CardinalityType
        <4> QED BY <2>4, <3>1, <3>4, <3>5, <4>1 DEF MissThreshold
      <3>7. \A s \in Good' : m \in runs'[s].observed => s <= last
        BY <1>2, <1>4, <1>5, <2>2, <3>1 DEF OwnRun, Good
      <3> QED BY <1>4, <2>1, <2>2, <3>6, <3>7 DEF last
    <2> QED BY <2>5, <2>6
  <1>9. Sound(i)' /\ \A q \in Procs \ {i} : Undisturbed(q)
    BY <1>1, OverIsSound
  <1>10. \A q \in Procs \ {i} : Sound(q)'
    BY <1>1, <1>9, OthersWait DEF MissInv, Alone
  <1> QED BY <1>8, <1>9, <1>10 DEF MissInv
(* The last remark of a row, a row that is no match of ours, the end of    *)
(* the board.                                                              *)
LEMMA QuietStepKeeps ==
  ASSUME LocalTypes, RunTypes, OnePollAtATime, MissInv, Replays = {}, NEW i \in Procs,
         \/ AppendRemark(i) \/ BeginSweep(i)
         \/ \E m \in Matches, sig \in BoardStates : DropRow(i, m, sig)
  PROVE  MissInv'
  <1>1. /\ pc[i] \in {"remark", "rows"}
        /\ UNCHANGED <<flags, runs, lock, run, prev, held, inScope, seen>>
    BY DEF AppendRemark, BeginSweep, DropRow, storeVars, AppendLiveEvent
  <1>2. \/ pc'[i] = "rows"
        \/ /\ pc[i] = "rows" /\ pc'[i] = "sweep" /\ ~Collapsed(i)
           /\ todo' = [todo EXCEPT ![i] = Holding(i) \ seen[i]]
    <2>1. CASE AppendRemark(i)
      BY <2>1 DEF AppendRemark, Goto, LocalTypes
    <2>2. CASE BeginSweep(i)
      BY <2>2 DEF BeginSweep, Goto, LocalTypes
    <2>3. CASE \E m \in Matches, sig \in BoardStates : DropRow(i, m, sig)
      BY <2>3 DEF DropRow
    <2> QED BY <2>1, <2>2, <2>3
  <1>3. OwnRun(i) /\ TrueSnapshot(i)
    BY <1>1 DEF MissInv, Sound, Busy, Reading, Alone
  <1>4. /\ GoodStay
        /\ PrevSuccessfulInScope' = PrevSuccessfulInScope
        /\ \A x \in Matches : GoodAbsences(x)' = GoodAbsences(x)
        /\ \A x \in Matches : flags'[x].lastSeen = flags[x].lastSeen => Misses(x)' = Misses(x)
    BY <1>1, SameRuns
  <1>5. \A x \in ApiFlags' : x \in ApiFlags /\ flags'[x] = flags[x] /\ x \in Matches
    BY <1>1 DEF ApiFlags
  <1>6. TrueMarks'
    BY <1>1, <1>4, <1>5, MarksStay DEF MissInv
  <1>7. OwnRun(i)'
    BY <1>1, <1>3, <1>4 DEF OwnRun
  <1>8. ASSUME NEW x \in ApiFlags'
        PROVE  Misses(x)' = Misses(x)
    BY <1>4, <1>5
  <1>9. ASSUME NEW x \in ApiFlags', flags'[x].lastSeen # run'[i]
        PROVE  held[i][x] # NoFlag /\ held[i][x].misses = Misses(x) /\ x \notin seen[i]
    BY <1>1, <1>3, <1>5, <1>9 DEF TrueSnapshot, InHand
  <1>10. TrueSnapshot(i)'
    <2>1. ASSUME NEW x \in Matches, held'[i][x] # NoFlag
          PROVE  held'[i][x].misses <= Cardinality(GoodAbsences(x))'
      <3>1. GoodAbsences(x)' = GoodAbsences(x)
        BY <1>4
      <3> QED BY <1>1, <1>3, <2>1, <3>1 DEF TrueSnapshot
    <2>2. ASSUME NEW x \in Matches, x \in ApiFlags', flags'[x].lastSeen # run'[i]
          PROVE  /\ held'[i][x] # NoFlag /\ held'[i][x].misses = Misses(x)'
                 /\ x \in seen'[i] => InHand(i, x)'
      BY <1>1, <1>8, <1>9, <2>2
    <2> QED BY <2>1, <2>2 DEF TrueSnapshot
  <1>11. ASSUME pc'[i] = "sweep" PROVE TrueSweep(i)'
    <2>1. ~Collapsed(i) /\ todo' = [todo EXCEPT ![i] = Holding(i) \ seen[i]]
      BY <1>2, <1>11
    <2>2. todo'[i] = Holding(i) \ seen[i]
      BY <2>1 DEF LocalTypes
    <2>3. Collapsed(i)' = Collapsed(i) /\ Holding(i)' = Holding(i)
      BY <1>1 DEF Collapsed, Holding
    <2>4. ASSUME NEW x \in ApiFlags', flags'[x].lastSeen # run'[i], x \notin todo'[i]
          PROVE  Misses(x)' + 1 < MissThreshold
      <3>1. x \in Matches /\ held[i][x] # NoFlag /\ x \notin seen[i]
        BY <1>5, <1>9, <2>4
      <3>2. x \in todo'[i]
        BY <2>2, <3>1 DEF Holding
      <3> QED BY <2>4, <3>2
    <2> QED BY <1>1, <2>1, <2>2, <2>3, <2>4 DEF TrueSweep, MissThreshold
  <1>12. Sound(i)'
    BY <1>2, <1>7, <1>10, <1>11 DEF Sound, Busy, Reading, Alone
  <1>13. \A q \in Procs \ {i} : Undisturbed(q)
    BY <1>1 DEF AppendRemark, BeginSweep, DropRow, Goto, LocalTypes, Undisturbed
  <1>14. \A q \in Procs \ {i} : Sound(q)'
    BY <1>1, <1>13, OthersWait DEF MissInv, Alone
  <1> QED BY <1>6, <1>12, <1>14 DEF MissInv

(* What goes on beside the cycle under way: the ticks of the instances     *)
(* that do not hold the lock, crashes, flips by hand and the pipeline.     *)
LEMMA BesideKeeps ==
  ASSUME RunTypes, MissInv, NEW i \in Procs, Gentle, pc'[i] \notin Busy, seen'[i] = {},
         \A q \in Procs \ {i} : Undisturbed(q)
  PROVE  MissInv'
  <1>1. GoodStay
    BY GentleIsGood
  <1>2. TrueMarks'
    <2>1. /\ DOMAIN runs \subseteq DOMAIN runs'
          /\ \A r \in DOMAIN runs : runs[r].observed \subseteq runs'[r].observed
          /\ \A m \in ApiFlags' : m \in ApiFlags /\ flags'[m] = flags[m]
      BY DEF Gentle
    <2> QED BY <1>1, <2>1, MarksStay DEF MissInv
  <1>3. Sound(i)'
    BY DEF Sound, Busy, Reading, Alone
  <1>4. \A q \in Procs \ {i} : Sound(q)'
    BY Bystander DEF MissInv
  <1> QED BY <1>2, <1>3, <1>4 DEF MissInv

(* Flags that are put out, or raised by hand.                              *)
LEMMA OutIsGentle ==
  ASSUME StoreTypeOK, RunTypes, UNCHANGED runs, NEW m \in Matches, NEW at0,
         FlipOut(m, at0) \/ FlipLive(m, "dev", 0, at0)
  PROVE  Gentle
  <1>1. flags \in [Matches -> Flag \cup {NoFlag}]
    BY DEF StoreTypeOK
  <1>2. CASE flags' = flags
    BY <1>2 DEF Gentle, ApiFlags
  <1>3. CASE flags' = [flags EXCEPT ![m] = NoFlag]
    BY <1>1, <1>3 DEF Gentle, ApiFlags
  <1>4. CASE flags' = [flags EXCEPT ![m] = NewFlag(m, "dev", 0, at0)]
    <2>1. NewFlag(m, "dev", 0, at0).source # Api
      BY DEF NewFlag, Api
    <2>2. \A x \in ApiFlags' : x \in Matches /\ x # m
      BY <1>1, <1>4, <2>1 DEF ApiFlags
    <2> QED BY <1>1, <1>4, <2>2 DEF Gentle, ApiFlags
  <1> QED BY <1>2, <1>3, <1>4 DEF FlipOut, FlipLive

LEMMA StillIsGentle ==
  ASSUME UNCHANGED <<flags, runs>>
  PROVE  Gentle
  BY DEF Gentle, ApiFlags
LEMMA TickKeeps ==
  ASSUME StoreTypeOK, LocalTypes, RunTypes, MissInv, NEW i \in Procs,
         \/ BeginCycle(i) \/ ListStale(i) \/ SweepRuns(i) \/ TakeLock(i) \/ SkipTick(i)
         \/ Crash(i) \/ \E m \in Matches : PutOut(i, m) \/ PutOutFails(i, m)
  PROVE  MissInv'
  <1>1. Sound(i)
    BY DEF MissInv
  <1>2. CASE SkipTick(i) \/ Crash(i)
    <2>1. Forget(i) /\ UNCHANGED <<flags, runs>>
      BY <1>2 DEF SkipTick, Crash, storeVars
    <2>2. \A q \in Procs \ {i} : Undisturbed(q)
      BY <2>1, OverIsSound
    <2>3. pc'[i] = "idle" /\ seen'[i] = {}
      BY <2>1 DEF Forget, Goto, LocalTypes
    <2> QED BY <2>1, <2>2, <2>3, StillIsGentle, BesideKeeps DEF Busy, Alone
  <1>3. CASE BeginCycle(i) \/ ListStale(i) \/ TakeLock(i)
    <2>1. UNCHANGED <<flags, runs>>
      BY <1>3 DEF BeginCycle, ListStale, TakeLock, storeVars, RetireCreatedMatches
    <2>2. \A q \in Procs \ {i} : Undisturbed(q)
      BY <1>3 DEF BeginCycle, ListStale, TakeLock, Goto, LocalTypes, Undisturbed
    <2>3. pc[i] \notin Reading /\ pc'[i] \notin Busy /\ seen' = seen
      BY <1>3 DEF BeginCycle, ListStale, TakeLock, Goto, LocalTypes, Reading, Busy, Alone
    <2> QED BY <1>1, <2>1, <2>2, <2>3, StillIsGentle, BesideKeeps DEF Sound
  <1>4. CASE SweepRuns(i)
    <2>1. /\ pc[i] = "stale" /\ pc' = [pc EXCEPT ![i] = "lock"] /\ SweepAbandonedRuns(at[i])
          /\ UNCHANGED <<flags, todo, run, prev, held, inScope, seen, row>>
      BY <1>4 DEF SweepRuns, Goto, storeVars
    <2>2. \A r \in DOMAIN runs : runs[r] \in Run
      BY DEF RunTypes
    <2>3. DOMAIN runs' = DOMAIN runs /\ runs' = [j \in DOMAIN runs' |-> runs'[j]]
      BY <2>1 DEF SweepAbandonedRuns
    <2>4. \A r \in DOMAIN runs : /\ runs'[r].inScope = runs[r].inScope
                                 /\ runs'[r].observed = runs[r].observed
                                 /\ runs'[r].outcome = "ok" <=> runs[r].outcome = "ok"
                                 /\ runs'[r] \in Run
      BY <2>1, <2>2 DEF SweepAbandonedRuns, Abandoned, Run
    <2>5. Len(runs') = Len(runs)
      BY <2>3, <2>4, ReplacedRuns DEF RunTypes
    <2>6. Gentle
      BY <2>1, <2>3, <2>4, <2>5 DEF Gentle, ApiFlags
    <2>7. \A q \in Procs \ {i} : Undisturbed(q)
      BY <2>1 DEF LocalTypes, Undisturbed
    <2>8. pc'[i] = "lock" /\ seen'[i] = {}
      BY <1>1, <2>1 DEF LocalTypes, Sound, Reading, Busy, Alone
    <2> QED BY <2>6, <2>7, <2>8, BesideKeeps DEF Busy, Alone
  <1>5. ASSUME NEW m \in Matches, PutOut(i, m) \/ PutOutFails(i, m) PROVE MissInv'
    <2>1. /\ pc[i] \in {"orphans", "stale"} /\ todo' = [todo EXCEPT ![i] = @ \ {m}]
          /\ UNCHANGED <<runs, pc, run, prev, held, inScope, seen, row>>
          /\ FlipOut(m, at[i]) \/ UNCHANGED flags
      BY <1>5 DEF PutOut, PutOutFails, Visit, storeVars
    <2>2. Gentle
      BY <2>1, OutIsGentle, StillIsGentle
    <2>3. \A q \in Procs \ {i} : Undisturbed(q)
      BY <2>1 DEF LocalTypes, Undisturbed
    <2>4. pc'[i] \notin Busy /\ seen'[i] = {}
      BY <1>1, <2>1 DEF Sound, Reading, Busy, Alone
    <2> QED BY <2>2, <2>3, <2>4, BesideKeeps
  <1> QED BY <1>2, <1>3, <1>4, <1>5

LEMMA MissStep ==
  ASSUME PollInv, MissInv, Replays = {}, [PollNext]_vars
  PROVE  MissInv'
  <1>1. StoreTypeOK /\ LocalTypes /\ SharedTypes /\ RunTypes /\ OnePollAtATime
    BY DEF PollInv
  <1>2. Inst = Procs
    BY DEF Procs
  <1>3. ASSUME Gentle, UNCHANGED localVars PROVE MissInv'
    <2>1. \A q \in Procs : Sound(q)'
      BY <1>1, <1>3, Bystander DEF MissInv, Undisturbed, localVars
    <2>2. GoodStay
      BY <1>1, <1>3, GentleIsGood
    <2>3. TrueMarks'
      <3>1. /\ DOMAIN runs \subseteq DOMAIN runs'
            /\ \A r \in DOMAIN runs : runs[r].observed \subseteq runs'[r].observed
            /\ \A m \in ApiFlags' : m \in ApiFlags /\ flags'[m] = flags[m]
        BY <1>3 DEF Gentle
      <3> QED BY <1>1, <2>2, <3>1, MarksStay DEF MissInv
    <2> QED BY <2>1, <2>3 DEF MissInv
  <1>4. ASSUME NEW i \in Inst, Ingest(i) PROVE MissInv'
    <2>1. CASE FetchFails(i) \/ TripGuard(i) \/ AbortIngest(i)
      BY <1>1, <1>2, <2>1, FetchFailsKeeps, AbortKeeps
    <2>2. CASE Fetch(i)
      BY <1>1, <1>2, <2>2, FetchKeeps
    <2>3. ASSUME NEW m \in Matches, NEW sig \in BoardStates, MatchRow(i, m, sig) PROVE MissInv'
      BY <1>1, <1>2, <2>3, MatchRowKeeps
    <2>4. CASE ApplyRow(i)
      BY <1>1, <1>2, <2>4, ApplyRowKeeps
    <2>5. CASE \/ AppendRemark(i) \/ BeginSweep(i)
               \/ \E m \in Matches, sig \in BoardStates : DropRow(i, m, sig)
      BY <1>1, <1>2, <2>5, QuietStepKeeps
    <2>6. ASSUME NEW m \in Matches, SweepAbsent(i, m) PROVE MissInv'
      BY <1>1, <1>2, <2>6, SweepKeeps
    <2>7. CASE FinishCycle(i)
      BY <1>1, <1>2, <2>7, FinishKeeps
    <2> QED BY <1>4, <2>1, <2>2, <2>3, <2>4, <2>5, <2>6, <2>7 DEF Ingest
  <1>5. ASSUME NEW i \in Inst, Cycle(i) \/ Crash(i) PROVE MissInv'
    BY <1>1, <1>2, <1>4, <1>5, TickKeeps, DecideKeeps DEF Cycle
  <1>6. ASSUME NEW m \in Matches, DevFlip(m) PROVE MissInv'
    <2>1. UNCHANGED <<runs, localVars>> /\ (FlipOut(m, clock') \/ FlipLive(m, "dev", 0, clock'))
      BY <1>6 DEF DevFlip
    <2>2. Gentle
      BY <1>1, <2>1, OutIsGentle
    <2> QED BY <1>3, <2>1, <2>2
  <1>7. ASSUME NEW m \in Matches, Pipeline(m) PROVE MissInv'
    <2>1. UNCHANGED <<flags, runs, localVars>>
      BY <1>7 DEF Pipeline, PipelineWrites, pollVars
    <2> QED BY <1>3, <2>1, StillIsGentle
  <1>8. CASE UNCHANGED vars
    <2>1. UNCHANGED <<flags, runs, localVars>>
      BY <1>8 DEF vars, storeVars, pollVars
    <2> QED BY <1>3, <2>1, StillIsGentle
  <1> QED BY <1>5, <1>6, <1>7, <1>8 DEF PollNext

LEMMA MissInvariant ==
  ASSUME Replays = {}
  PROVE  PollSpec => [](PollInv /\ MissInv)
<1>1. PollInit => MissInv
  BY DEF PollInit, StoreInit, MissInv, TrueMarks, ApiFlags, Sound, Busy, Reading, Alone
<1>2. PollInv /\ MissInv /\ [PollNext]_vars => MissInv'
  BY MissStep
<1> QED BY <1>1, <1>2, PollInvariant, PTL DEF PollSpec

(* Where no board is replayed beside the poller, no card is ever three     *)
(* good boards behind, for any number of instances, matches, runs, crashes *)
(* and flips by hand: HeldLiveFlags counts, MarkFlagSeen resets and the    *)
(* sweep decides on the same runs (live_poll.go, poll.go, derive.go).      *)
THEOREM AbsencesAreBounded ==
  ASSUME Replays = {}
  PROVE  PollSpec => []AbsencesBounded
<1>1. PollInv /\ MissInv => AbsencesBounded
  <2> SUFFICES ASSUME PollInv, MissInv, NEW m \in ApiFlags
               PROVE  Cardinality(AbsentSince(m)) < MissThreshold
    BY DEF AbsencesBounded
  <2>1. RunTypes /\ StoreTypeOK /\ TrueMarks
    BY DEF PollInv, MissInv
  <2>2. Len(runs) \in Nat /\ Good \subseteq 1..Len(runs) /\ DOMAIN runs = 1..Len(runs)
    BY <2>1 DEF RunTypes, Good
  <2> DEFINE missed == {r \in Good : r > flags[m].lastSeen}
  <2>3. AbsentSince(m) \subseteq missed
    BY <2>1, <2>2 DEF AbsentSince, TrueMarks
  <2>4. IsFiniteSet(missed)
    <3>1. missed \subseteq 1..Len(runs)
      BY <2>2
    <3>2. IsFiniteSet(1..Len(runs))
      BY <2>2, FS_Interval
    <3> QED BY <3>1, <3>2, FS_Subset
  <2>5. /\ Cardinality(AbsentSince(m)) <= Cardinality(missed)
        /\ Cardinality(AbsentSince(m)) \in Nat /\ Cardinality(missed) \in Nat
    BY <2>3, <2>4, FS_Subset, FS_CardinalityType
  <2>6. Cardinality(missed) < MissThreshold
    BY <2>1 DEF TrueMarks, Misses
  <2> QED BY <2>5, <2>6 DEF MissThreshold
<1> QED BY <1>1, MissInvariant, PTL

(* Under the same hypothesis a match goes out for want of being seen only  *)
(* after two good boards, none of them and none between them showing it,   *)
(* and a third that does not show it either (Derive, poll.go's sweep).     *)
THEOREM ExitTakesThree ==
  ASSUME Replays = {}
  PROVE  PollSpec => ThreeBoards
<1> DEFINE Dear == \A p \in Procs, m \in Matches :
                     LeavesOnAbsence(p, m) =>
                       /\ m \notin runs[run[p]].observed
                       /\ Cardinality(GoodAbsences(m) \ {run[p]}) >= MissThreshold - 1
<1>1. PollInv /\ MissInv => Dear
  <2> SUFFICES ASSUME PollInv, MissInv, NEW p \in Procs, NEW m \in Matches,
                      LeavesOnAbsence(p, m)
               PROVE  /\ m \notin runs[run[p]].observed
                      /\ Cardinality(GoodAbsences(m) \ {run[p]}) >= MissThreshold - 1
    OBVIOUS
  <2>1. pc[p] = "sweep" /\ m \in todo[p] /\ ActionFor(p, m, "absent") = "leave_live"
    BY DEF LeavesOnAbsence
  <2>2. OwnRun(p) /\ TrueSnapshot(p) /\ TrueSweep(p)
    BY <2>1 DEF MissInv, Sound, Busy, Reading, Alone
  <2>3. m \notin runs[run[p]].observed
    BY <2>1, <2>2 DEF OwnRun, TrueSweep
  <2>4. held[p][m] # NoFlag /\ held[p][m] \in Held
    BY <2>1, <2>2 DEF TrueSweep, Holding, PollInv, LocalTypes
  <2>5. held[p][m].misses \in Nat /\ held[p][m].misses + 1 >= MissThreshold
    BY <2>1, <2>4 DEF Held, ActionFor, Derive, Known, Overdue, AbsentLongEnough
  <2>6. held[p][m].misses <= Cardinality(GoodAbsences(m))
    BY <2>2, <2>4 DEF TrueSnapshot
  <2>7. GoodAbsences(m) \ {run[p]} = GoodAbsences(m)
    BY <2>2 DEF OwnRun, GoodAbsences, Good
  <2>8. Cardinality(GoodAbsences(m)) \in Nat
    <3>1. Len(runs) \in Nat /\ GoodAbsences(m) \subseteq 1..Len(runs)
      BY DEF PollInv, RunTypes, GoodAbsences, Good
    <3>2. IsFiniteSet(1..Len(runs))
      BY <3>1, FS_Interval
    <3> QED BY <3>1, <3>2, FS_Subset, FS_CardinalityType
  <2>9. Cardinality(GoodAbsences(m)) >= MissThreshold - 1
    BY <2>5, <2>6, <2>8 DEF MissThreshold
  <2> QED BY <2>3, <2>7, <2>9
<1>2. PollSpec => [][Dear]_vars
  BY <1>1, MissInvariant, PTL
<1> QED BY <1>2 DEF ThreeBoards

(* And never for being absent from a board that lost half of the rows the  *)
(* last good run counted, but in a cycle whose query for that number       *)
(* failed: a number that was read cannot grow old under the lock, whoever  *)
(* crashed or closed a run meanwhile (poll.go's collapse guard).           *)
THEOREM CollapseIsNoExit ==
  ASSUME Replays = {}
  PROVE  PollSpec => CollapseEndsNothing
<1> DEFINE Guarded == \A p \in Procs, m \in Matches :
                        LeavesOnAbsence(p, m) =>
                          \/ prev[p] = Unread
                          \/ PrevSuccessfulInScope < CollapseMinRows
                          \/ 2 * inScope[p] >= PrevSuccessfulInScope
<1>1. PollInv /\ MissInv => Guarded
  <2> SUFFICES ASSUME PollInv, MissInv, NEW p \in Procs, NEW m \in Matches,
                      LeavesOnAbsence(p, m)
               PROVE  \/ prev[p] = Unread
                      \/ PrevSuccessfulInScope < CollapseMinRows
                      \/ 2 * inScope[p] >= PrevSuccessfulInScope
    OBVIOUS
  <2>1. pc[p] = "sweep" /\ m \in todo[p]
    BY DEF LeavesOnAbsence
  <2>2. OwnRun(p) /\ TrueSweep(p)
    BY <2>1 DEF MissInv, Sound, Busy, Reading, Alone
  <2>3. Holding(p) # {} /\ ~Collapsed(p)
        /\ prev[p] \in {PrevSuccessfulInScope, Unread}
    BY <2>1, <2>2 DEF OwnRun, TrueSweep
  <2>4. prev[p] \in Nat \cup {Unread} /\ inScope[p] \in Nat
    BY DEF PollInv, LocalTypes
  <2>5. CASE prev[p] # Unread
    <3>1. prev[p] \in Nat /\ prev[p] = PrevSuccessfulInScope
      BY <2>3, <2>4, <2>5
    <3> QED BY <2>3, <2>4, <3>1 DEF Collapsed, CollapseMinRows
  <2> QED BY <2>5
<1>2. PollSpec => [][Guarded]_vars
  BY <1>1, MissInvariant, PTL
<1> QED BY <1>2 DEF CollapseEndsNothing

-----------------------------------------------------------------------------
(* The clock: with neither replays nor flips by hand, and where a board    *)
(* lists a match once, the periods of a match follow each other in time.   *)

ListedOnce ==
  \A rows \in Boards : \A m \in Matches, s \in BoardStates, t \in BoardStates :
    <<m, s>> \in rows /\ <<m, t>> \in rows => s = t

LiveEvents(m) == {k \in DOMAIN events : events[k].match = m /\ events[k].kind = "live"}

(* Every announcement was made under a run that asked the vendor, and not  *)
(* before the reading it bears.                                            *)
AnnouncedByRuns ==
  \A m \in Matches : \A k \in LiveEvents(m) :
    \E r \in DOMAIN runs : runs[r].asked /\ events[k].at <= runs[r].started

(* Before a cycle raises a match, everything announced of it is older than *)
(* the reading of the clock the cycle began with.                          *)
InTime(p) ==
  /\ at[p] <= clock
  /\ pc[p] \in Busy => at[p] <= runs[run[p]].started
  /\ pc[p] \in Busy =>
       \A m \in Matches : m \notin seen[p] \/ InHand(p, m) =>
         \A k \in LiveEvents(m) : events[k].at < at[p]
  /\ pc[p] \in Reading =>
       /\ runs[run[p]].asked
       /\ \A m \in Matches, s \in BoardStates :
            <<m, s>> \in board[p] =>
              m \notin seen[p] /\ \A t \in BoardStates : <<m, t>> \in board[p] => s = t

Rising ==
  \A m \in Matches : \A j \in LiveEvents(m), k \in LiveEvents(m) :
    j < k => events[j].at < events[k].at

ClockInv == AnnouncedByRuns /\ Rising /\ \A p \in Procs : InTime(p)

(* What a step leaves of the runs and of the announcements.                *)
RunsGrow ==
  /\ DOMAIN runs \subseteq DOMAIN runs'
  /\ \A r \in DOMAIN runs : /\ runs'[r].started = runs[r].started
                            /\ runs[r].asked => runs'[r].asked

SameLives ==
  \A m \in Matches : /\ LiveEvents(m)' = LiveEvents(m)
                     /\ \A k \in LiveEvents(m) : events'[k] = events[k]

LEMMA NoNewLives ==
  ASSUME StoreTypeOK,
         \/ UNCHANGED events
         \/ \E m \in Matches, kind \in {"finished", "suspended", "resumed"}, t \in Times :
              events' = Append(events, EventOf(m, kind, t))
  PROVE  SameLives
  <1>1. CASE UNCHANGED events
    BY <1>1 DEF SameLives, LiveEvents
  <1>2. ASSUME NEW m \in Matches, NEW kind \in {"finished", "suspended", "resumed"},
               NEW t \in Times, events' = Append(events, EventOf(m, kind, t))
        PROVE  SameLives
    <2>1. /\ events \in Seq(Event)
          /\ Len(events) \in Nat /\ DOMAIN events = 1..Len(events)
          /\ EventOf(m, kind, t) \in Event
      BY DEF StoreTypeOK, EventOf, Event
    <2>2. /\ DOMAIN events' = 1..(Len(events) + 1)
          /\ \A k \in DOMAIN events : events'[k] = events[k]
          /\ events'[Len(events) + 1] = EventOf(m, kind, t)
      BY ONLY <1>2, <2>1
    <2>3. events'[Len(events) + 1].kind # "live"
      BY <2>2 DEF EventOf
    <2>4. ASSUME NEW x \in Matches
          PROVE  LiveEvents(x)' = LiveEvents(x)
      BY <2>1, <2>2, <2>3 DEF LiveEvents
    <2> QED BY <2>2, <2>4 DEF SameLives, LiveEvents
  <1> QED BY <1>1, <1>2

LEMMA AnnouncedStays ==
  ASSUME AnnouncedByRuns, Rising, RunsGrow, SameLives
  PROVE  AnnouncedByRuns' /\ Rising'
  <1>1. ASSUME NEW m \in Matches, NEW k \in LiveEvents(m)'
        PROVE  \E r \in DOMAIN runs' : runs'[r].asked /\ events'[k].at <= runs'[r].started
    <2>1. k \in LiveEvents(m) /\ events'[k] = events[k]
      BY <1>1 DEF SameLives
    <2>2. PICK r \in DOMAIN runs : runs[r].asked /\ events[k].at <= runs[r].started
      BY <2>1 DEF AnnouncedByRuns
    <2> QED BY <2>1, <2>2 DEF RunsGrow
  <1>2. ASSUME NEW m \in Matches, NEW j \in LiveEvents(m)', NEW k \in LiveEvents(m)', j < k
        PROVE  events'[j].at < events'[k].at
    BY <1>2 DEF SameLives, Rising
  <1> QED BY <1>1, <1>2 DEF AnnouncedByRuns, Rising

(* A process keeps its bearings while others step.                         *)
LEMMA InTimeStays ==
  ASSUME SharedTypes, LocalTypes, NEW p \in Procs, InTime(p), clock' \in Nat, clock <= clock',
         at'[p] = at[p], pc'[p] = pc[p],
         pc[p] \in Busy => /\ run[p] \in DOMAIN runs
                           /\ RunsGrow /\ SameLives
                           /\ run'[p] = run[p] /\ seen'[p] = seen[p] /\ row'[p] = row[p]
                           /\ board'[p] = board[p]
  PROVE  InTime(p)'
  <1>1. at[p] \in Nat /\ clock \in Nat
    BY PollAssumption DEF SharedTypes, LocalTypes
  <1>2. at'[p] <= clock'
    BY <1>1 DEF InTime
  <1>3. ASSUME pc[p] \in Busy
        PROVE  /\ at[p] <= runs'[run[p]].started
               /\ pc[p] \in Reading => runs'[run[p]].asked
    BY <1>3 DEF InTime, RunsGrow
  <1>4. ASSUME pc[p] \in Busy, NEW m \in Matches, m \notin seen'[p] \/ InHand(p, m)',
               NEW k \in LiveEvents(m)'
        PROVE  events'[k].at < at'[p]
    <2>1. m \notin seen[p] \/ InHand(p, m)
      BY <1>4 DEF InHand
    <2>2. k \in LiveEvents(m) /\ events'[k] = events[k]
      BY <1>4 DEF SameLives
    <2> QED BY <1>4, <2>1, <2>2 DEF InTime
  <1>5. Reading \subseteq Busy
    BY DEF Reading
  <1>6. ASSUME pc[p] \in Reading, NEW m \in Matches, NEW s \in BoardStates, <<m, s>> \in board'[p]
        PROVE  m \notin seen'[p] /\ \A t \in BoardStates : <<m, t>> \in board'[p] => s = t
    BY <1>5, <1>6 DEF InTime
  <1> QED BY <1>2, <1>3, <1>4, <1>5, <1>6 DEF InTime

(* A process outside of a cycle need only have read the clock.             *)
LEMMA IdleInTime ==
  ASSUME NEW p \in Procs, pc'[p] \notin Busy, at'[p] <= clock'
  PROVE  InTime(p)'
  BY DEF InTime, Reading
Untouched(q) ==
  /\ at'[q] = at[q] /\ pc'[q] = pc[q] /\ run'[q] = run[q] /\ seen'[q] = seen[q]
  /\ row'[q] = row[q] /\ board'[q] = board[q]

LEMMA OthersInTime ==
  ASSUME PollInv, MissInv, ClockInv, Replays = {}, NEW i \in Procs, clock' \in Nat,
         clock <= clock', \A q \in Procs \ {i} : Untouched(q),
         pc[i] \in Alone \/ (RunsGrow /\ SameLives)
  PROVE  \A q \in Procs \ {i} : InTime(q)'
  <1> SUFFICES ASSUME NEW q \in Procs \ {i} PROVE InTime(q)'
    OBVIOUS
  <1>1. SharedTypes /\ LocalTypes /\ InTime(q) /\ Untouched(q)
    BY DEF PollInv, ClockInv
  <1>2. i \in Inst /\ q \in Inst
    BY DEF Procs
  <1>3. pc[i] \in Alone => pc[q] \notin Busy
    BY <1>2 DEF PollInv, OnePollAtATime, Alone, Busy
  <1>4. pc[q] \in Busy => run[q] \in DOMAIN runs
    BY DEF MissInv, Sound, OwnRun
  <1> QED BY <1>1, <1>3, <1>4, InTimeStays DEF Untouched

LEMMA RunsSame ==
  ASSUME UNCHANGED runs
  PROVE  RunsGrow
  BY DEF RunsGrow

(* The end of a cycle.                                                     *)
LEMMA EndsInTime ==
  ASSUME PollInv, MissInv, ClockInv, Replays = {}, NEW i \in Procs, Forget(i),
         UNCHANGED <<clock, events>>, RunsGrow
  PROVE  ClockInv'
  <1>1. StoreTypeOK /\ LocalTypes /\ clock \in Nat
    BY PollAssumption DEF PollInv, SharedTypes
  <1>2. SameLives
    BY <1>1, NoNewLives
  <1>3. AnnouncedByRuns' /\ Rising'
    BY <1>2, AnnouncedStays DEF ClockInv
  <1>4. pc'[i] = "idle" /\ at'[i] = 0
    BY <1>1 DEF Forget, Goto, LocalTypes
  <1>5. InTime(i)'
    BY <1>1, <1>4, IdleInTime DEF Busy, Alone
  <1>6. \A q \in Procs \ {i} : Untouched(q)
    BY <1>1 DEF Forget, Goto, LocalTypes, Untouched
  <1>7. \A q \in Procs \ {i} : InTime(q)'
    BY <1>1, <1>2, <1>6, OthersInTime
  <1> QED BY <1>3, <1>5, <1>7 DEF ClockInv

LEMMA ClosedGrow ==
  ASSUME RunTypes, NEW p \in Procs, NEW outcome, FinishRun(p, outcome)
  PROVE  RunsGrow
  <1>1. \A r \in DOMAIN runs : runs[r] \in Run
    BY DEF RunTypes
  <1> QED BY <1>1 DEF FinishRun, RunsGrow, Run

LEMMA AskedGrow ==
  ASSUME RunTypes, NEW p \in Inst
  PROVE  /\ \A r \in DOMAIN runs : /\ Asked(p)[r].started = runs[r].started
                                   /\ runs[r].asked => Asked(p)[r].asked
         /\ run[p] \in DOMAIN runs => Asked(p)[run[p]].asked
  <1>1. \A r \in DOMAIN runs : runs[r] \in Run
    BY DEF RunTypes
  <1>2. Asked(p) = [runs EXCEPT ![run[p]].asked = TRUE]
    BY DEF Asked
  <1> QED BY <1>1, <1>2 DEF Run

LEMMA FailsInTime ==
  ASSUME PollInv, MissInv, ClockInv, Replays = {}, NEW i \in Procs,
         FetchFails(i) \/ TripGuard(i) \/ FinishCycle(i) \/ AbortIngest(i)
  PROVE  ClockInv'
  <1>1. RunTypes /\ i \in Inst
    BY DEF PollInv, Procs
  <1>2. Forget(i) /\ UNCHANGED <<clock, events>>
    BY DEF FetchFails, TripGuard, FinishCycle, AbortIngest, CloseCycle, storeVars
  <1>3. CASE TripGuard(i) \/ FinishCycle(i) \/ AbortIngest(i)
    <2>1. FinishRun(i, "ok") \/ FinishRun(i, "error")
      BY <1>3 DEF TripGuard, FinishCycle, AbortIngest, CloseCycle
    <2> QED BY <1>1, <1>2, <2>1, ClosedGrow, EndsInTime
  <1>4. CASE FetchFails(i)
    <2> DEFINE asked == Asked(i)
    <2>1. runs' = [asked EXCEPT ![run[i]].outcome = "error"]
      BY <1>4 DEF FetchFails
    <2>2. /\ asked \in Seq(Run) /\ DOMAIN asked = DOMAIN runs
          /\ \A r \in DOMAIN runs : /\ asked[r].started = runs[r].started
                                    /\ runs[r].asked => asked[r].asked
      BY <1>1, AskedRuns, AskedKeeps, AskedGrow DEF PollInv
    <2> HIDE DEF asked
    <2>3. \A r \in DOMAIN asked : asked[r] \in Run
      BY <2>2
    <2>4. RunsGrow
      BY <2>1, <2>2, <2>3 DEF RunsGrow, Run
    <2> QED BY <1>2, <2>4, EndsInTime
  <1> QED BY <1>3, <1>4

(* The decision: whatever asked before did so too long ago to be at this   *)
(* cycle's reading.                                                        *)
LEMMA DecideInTime ==
  ASSUME PollInv, MissInv, ClockInv, Replays = {}, MinGap > 0, NEW i \in Procs, DecidePoll(i)
  PROVE  ClockInv'
  <1>1. /\ StoreTypeOK /\ LocalTypes /\ RunTypes /\ clock \in Nat /\ clock \in Times
        /\ at[i] \in Nat /\ MinGap \in Nat
    BY PollAssumption DEF PollInv, SharedTypes, LocalTypes
  <1>2. /\ runs' = Append(runs, NewRun(clock)) /\ run' = [run EXCEPT ![i] = Len(runs) + 1]
        /\ pc[i] = "decide" /\ pc' = [pc EXCEPT ![i] = "fetch"] /\ ~TooSoon(at[i])
        /\ UNCHANGED <<events, clock, at, seen, row, board>>
    BY DEF DecidePoll, StartRun, Goto, storeVars
  <1>3. NewRun(clock) \in Run /\ NewRun(clock).started = clock
    BY <1>1 DEF NewRun, Run
  <1>4. /\ Len(runs) \in Nat /\ DOMAIN runs = 1..Len(runs) /\ DOMAIN runs' = 1..(Len(runs) + 1)
        /\ \A r \in DOMAIN runs : runs'[r] = runs[r] /\ runs[r] \in Run
        /\ runs'[Len(runs) + 1] = NewRun(clock)
    BY <1>1, <1>2, <1>3 DEF RunTypes
  <1>5. RunsGrow
    BY <1>4 DEF RunsGrow
  <1>6. SameLives
    BY <1>1, <1>2, NoNewLives
  <1>7. AnnouncedByRuns' /\ Rising'
    BY <1>5, <1>6, AnnouncedStays DEF ClockInv
  <1>8. ASSUME NEW m \in Matches, NEW k \in LiveEvents(m) PROVE events[k].at < at[i]
    <2>1. PICK r \in DOMAIN runs : runs[r].asked /\ events[k].at <= runs[r].started
      BY DEF ClockInv, AnnouncedByRuns
    <2>2. ~(at[i] - runs[r].started < MinGap)
      BY <1>2, <2>1 DEF TooSoon
    <2>3. runs[r].started \in Nat /\ events[k].at \in Nat
      <3>1. runs[r] \in Run /\ Times \subseteq Nat /\ k \in DOMAIN events
        BY <1>4, <2>1, StoreAssumption DEF LiveEvents
      <3>2. events[k] \in Event
        BY <1>1, <3>1 DEF StoreTypeOK
      <3> QED BY <3>1, <3>2 DEF Run, Event
    <2> QED BY <1>1, <2>1, <2>2, <2>3
  <1>9. /\ pc'[i] = "fetch" /\ run'[i] = Len(runs) + 1 /\ at'[i] = at[i] /\ clock' = clock
        /\ at[i] <= clock
    BY <1>1, <1>2 DEF LocalTypes, ClockInv, InTime
  <1>10. InTime(i)'
    <2>1. at'[i] <= clock' /\ at'[i] <= runs'[run'[i]].started
      BY <1>3, <1>4, <1>9
    <2>2. ASSUME NEW m \in Matches, NEW k \in LiveEvents(m)' PROVE events'[k].at < at'[i]
      BY <1>6, <1>8, <1>9, <2>2 DEF SameLives
    <2> QED BY <1>9, <2>1, <2>2 DEF InTime, Reading
  <1>11. \A q \in Procs \ {i} : Untouched(q)
    BY <1>1, <1>2 DEF LocalTypes, Untouched
  <1>12. \A q \in Procs \ {i} : InTime(q)'
    BY <1>1, <1>2, <1>5, <1>6, <1>9, <1>11, OthersInTime
  <1> QED BY <1>7, <1>10, <1>12 DEF ClockInv

LEMMA FetchInTime ==
  ASSUME PollInv, MissInv, ClockInv, Replays = {}, ListedOnce, NEW i \in Procs, Fetch(i)
  PROVE  ClockInv'
  <1>1. /\ StoreTypeOK /\ LocalTypes /\ RunTypes /\ clock \in Nat /\ i \in Inst
    BY PollAssumption DEF PollInv, SharedTypes, Procs
  <1>2. /\ pc[i] = "fetch" /\ pc' = [pc EXCEPT ![i] = "rows"] /\ runs' = Asked(i)
        /\ UNCHANGED <<events, clock, at, run, seen, row>>
        /\ \E rows \in Boards : board' = [board EXCEPT ![i] = rows]
    BY DEF Fetch, Goto, storeVars
  <1>3. run[i] \in DOMAIN runs /\ seen[i] = {} /\ InTime(i)
    BY <1>2 DEF MissInv, Sound, OwnRun, Busy, Reading, Alone, ClockInv
  <1>4. RunsGrow /\ runs'[run[i]].asked
    BY <1>1, <1>2, <1>3, AskedKeeps, AskedGrow DEF RunsGrow
  <1>5. SameLives
    BY <1>1, <1>2, NoNewLives
  <1>6. AnnouncedByRuns' /\ Rising'
    BY <1>4, <1>5, AnnouncedStays DEF ClockInv
  <1>7. /\ pc'[i] = "rows" /\ run'[i] = run[i] /\ at'[i] = at[i] /\ seen'[i] = {}
        /\ clock' = clock
    BY <1>1, <1>2, <1>3 DEF LocalTypes
  <1>8. InTime(i)'
    <2>1. at'[i] <= clock' /\ at'[i] <= runs'[run'[i]].started
      BY <1>2, <1>3, <1>4, <1>7 DEF InTime, RunsGrow, Busy, Alone
    <2>2. ASSUME NEW m \in Matches, NEW k \in LiveEvents(m)' PROVE events'[k].at < at'[i]
      BY <1>2, <1>3, <1>5, <1>7, <2>2 DEF SameLives, InTime, Busy, Alone
    <2>3. ASSUME NEW m \in Matches, NEW s \in BoardStates, <<m, s>> \in board'[i],
                 NEW t \in BoardStates, <<m, t>> \in board'[i]
          PROVE  s = t
      <3>1. board'[i] \in Boards
        BY <1>1, <1>2 DEF LocalTypes
      <3> QED BY <2>3, <3>1 DEF ListedOnce
    <2> QED BY <1>4, <1>7, <2>1, <2>2, <2>3 DEF InTime
  <1>9. \A q \in Procs \ {i} : Untouched(q)
    BY <1>1, <1>2 DEF LocalTypes, Untouched
  <1>10. \A q \in Procs \ {i} : InTime(q)'
    BY <1>1, <1>2, <1>4, <1>5, <1>7, <1>9, OthersInTime
  <1> QED BY <1>6, <1>8, <1>10 DEF ClockInv

LEMMA MatchRowInTime ==
  ASSUME PollInv, MissInv, ClockInv, Replays = {}, NEW i \in Procs, NEW m \in Matches,
         NEW sig \in BoardStates, MatchRow(i, m, sig)
  PROVE  ClockInv'
  <1>1. StoreTypeOK /\ LocalTypes /\ RunTypes /\ clock \in Nat
    BY PollAssumption DEF PollInv, SharedTypes
  <1>2. /\ pc[i] = "rows" /\ pc' = [pc EXCEPT ![i] = "apply"]
        /\ <<m, sig>> \in board[i]
        /\ board' = [board EXCEPT ![i] = @ \ {<<m, sig>>}]
        /\ runs' = [runs EXCEPT ![run[i]].observed = @ \cup {m}]
        /\ seen' = [seen EXCEPT ![i] = @ \cup {m}]
        /\ row' = [row EXCEPT ![i] = [match |-> m, sig |-> sig]]
        /\ UNCHANGED <<events, clock, at, run>>
    BY DEF MatchRow, Goto, storeVars
  <1>3. run[i] \in DOMAIN runs /\ InTime(i)
    BY <1>2 DEF MissInv, Sound, OwnRun, Busy, Alone, ClockInv
  <1>4. \A r \in DOMAIN runs : runs[r] \in Run
    BY <1>1 DEF RunTypes
  <1>5. RunsGrow
    BY <1>2, <1>4 DEF RunsGrow, Run
  <1>6. SameLives
    BY <1>1, <1>2, NoNewLives
  <1>7. AnnouncedByRuns' /\ Rising'
    BY <1>5, <1>6, AnnouncedStays DEF ClockInv
  <1>8. /\ pc'[i] = "apply" /\ run'[i] = run[i] /\ at'[i] = at[i] /\ seen'[i] = seen[i] \cup {m}
        /\ clock' = clock /\ board'[i] = board[i] \ {<<m, sig>>} /\ row'[i].match = m
    BY <1>1, <1>2 DEF LocalTypes
  <1>9. pc[i] \in Busy /\ pc[i] \in Reading
    BY <1>2 DEF Busy, Reading, Alone
  <1>10. m \notin seen[i] /\ \A t \in BoardStates : <<m, t>> \in board[i] => sig = t
    BY <1>2, <1>3, <1>9 DEF InTime
  <1>11. InTime(i)'
    <2>1. /\ at'[i] <= clock' /\ at'[i] <= runs'[run'[i]].started
          /\ runs'[run'[i]].asked
      BY <1>3, <1>5, <1>8, <1>9 DEF InTime, RunsGrow
    <2>2. ASSUME NEW x \in Matches, x \notin seen'[i] \/ InHand(i, x)', NEW k \in LiveEvents(x)'
          PROVE  events'[k].at < at'[i]
      <3>1. x \notin seen[i]
        BY <1>8, <1>10, <2>2 DEF InHand
      <3> QED BY <1>3, <1>6, <1>8, <1>9, <2>2, <3>1 DEF SameLives, InTime
    <2>3. ASSUME NEW x \in Matches, NEW s \in BoardStates, <<x, s>> \in board'[i]
          PROVE  /\ x \notin seen'[i]
                 /\ \A t \in BoardStates : <<x, t>> \in board'[i] => s = t
      <3>1. <<x, s>> \in board[i] /\ <<x, s>> # <<m, sig>>
        BY <1>8, <2>3
      <3>2. x \notin seen[i] /\ \A t \in BoardStates : <<x, t>> \in board[i] => s = t
        BY <1>3, <1>9, <3>1 DEF InTime
      <3>3. x # m
        BY <1>10, <3>1
      <3> QED BY <1>8, <3>2, <3>3
    <2> QED BY <1>8, <2>1, <2>2, <2>3 DEF InTime
  <1>12. \A q \in Procs \ {i} : Untouched(q)
    BY <1>1, <1>2 DEF LocalTypes, Untouched
  <1>13. \A q \in Procs \ {i} : InTime(q)'
    BY <1>1, <1>5, <1>6, <1>8, <1>12, OthersInTime
  <1> QED BY <1>7, <1>11, <1>13 DEF ClockInv

(* The steps of a cycle that read nothing and raise nothing.               *)
LEMMA QuietInTime ==
  ASSUME PollInv, MissInv, ClockInv, Replays = {}, NEW i \in Procs,
         pc[i] \in Reading, pc'[i] \in Reading, RunsGrow, SameLives,
         UNCHANGED <<clock, at, run, seen>>, board'[i] \subseteq board[i],
         \A m : InHand(i, m)' => InHand(i, m),
         \A q \in Procs \ {i} : Untouched(q)
  PROVE  ClockInv'
  <1>1. LocalTypes /\ clock \in Nat
    BY PollAssumption DEF PollInv, SharedTypes
  <1>2. AnnouncedByRuns' /\ Rising'
    BY AnnouncedStays DEF ClockInv
  <1>3. pc[i] \in Busy /\ pc'[i] \in Busy /\ InTime(i) /\ run[i] \in DOMAIN runs
    BY DEF Reading, ClockInv, MissInv, Sound, OwnRun
  <1>4. InTime(i)'
    <2>1. /\ at'[i] <= clock' /\ at'[i] <= runs'[run'[i]].started
          /\ runs'[run'[i]].asked
      BY <1>3 DEF InTime, RunsGrow
    <2>2. ASSUME NEW x \in Matches, x \notin seen'[i] \/ InHand(i, x)', NEW k \in LiveEvents(x)'
          PROVE  events'[k].at < at'[i]
      BY <1>3, <2>2 DEF SameLives, InTime
    <2>3. ASSUME NEW x \in Matches, NEW s \in BoardStates, <<x, s>> \in board'[i]
          PROVE  /\ x \notin seen'[i]
                 /\ \A t \in BoardStates : <<x, t>> \in board'[i] => s = t
      BY <2>3, <1>3 DEF InTime
    <2> QED BY <2>1, <2>2, <2>3 DEF InTime
  <1>5. \A q \in Procs \ {i} : InTime(q)'
    BY <1>1, OthersInTime
  <1> QED BY <1>2, <1>4, <1>5 DEF ClockInv

LEMMA QuietStepsInTime ==
  ASSUME PollInv, MissInv, ClockInv, Replays = {}, NEW i \in Procs,
         \/ AppendRemark(i) \/ BeginSweep(i)
         \/ \E m \in Matches : SweepAbsent(i, m)
         \/ \E m \in Matches, sig \in BoardStates : DropRow(i, m, sig)
  PROVE  ClockInv'
  <1>1. StoreTypeOK /\ LocalTypes /\ at[i] \in Times
    BY DEF PollInv, LocalTypes
  <1>2. CASE AppendRemark(i)
    <2>1. /\ pc[i] = "remark" /\ pc'[i] = "rows" /\ row[i].match \in Matches
          /\ UNCHANGED <<clock, runs, at, run, seen, board>>
      BY <1>1, <1>2 DEF AppendRemark, Goto, LocalTypes
    <2>2. SameLives
      BY <1>1, <1>2, <2>1, NoNewLives DEF AppendRemark, AppendLiveEvent
    <2>3. \A q \in Procs \ {i} : Untouched(q)
      BY <1>1, <1>2 DEF AppendRemark, Goto, LocalTypes, Untouched
    <2>4. \A m : ~InHand(i, m)'
      BY <2>1 DEF InHand
    <2> QED BY <2>1, <2>2, <2>3, <2>4, RunsSame, QuietInTime DEF Reading, Busy, Alone
  <1>3. CASE BeginSweep(i)
    <2>1. /\ pc[i] = "rows" /\ pc'[i] = "sweep"
          /\ UNCHANGED <<events, clock, runs, at, run, seen, board>>
      BY <1>1, <1>3 DEF BeginSweep, Goto, LocalTypes, storeVars
    <2>2. SameLives
      BY <1>1, <2>1, NoNewLives
    <2>3. \A q \in Procs \ {i} : Untouched(q)
      BY <1>1, <1>3 DEF BeginSweep, Goto, LocalTypes, Untouched
    <2>4. \A m : ~InHand(i, m)'
      BY <2>1 DEF InHand
    <2> QED BY <2>1, <2>2, <2>3, <2>4, RunsSame, QuietInTime DEF Reading, Busy, Alone
  <1>4. ASSUME NEW m \in Matches, SweepAbsent(i, m) PROVE ClockInv'
    <2>1. /\ pc[i] = "sweep" /\ m \in todo[i] /\ ApplyAction(i, m, "absent")
          /\ UNCHANGED <<pc, clock, runs, at, run, seen, board, row>>
      BY <1>4 DEF SweepAbsent
    <2>2. held[i][m] # NoFlag
      BY <2>1 DEF MissInv, Sound, TrueSweep, Holding
    <2>3. ActionFor(i, m, "absent") \in {"force_exit", "leave_live", "none"}
      BY <2>2 DEF ActionFor, Known, Derive, Overdue
    <2>4. FlipOut(m, at[i]) \/ UNCHANGED events
      BY <2>1, <2>3 DEF ApplyAction, storeVars
    <2>5. SameLives
      BY <1>1, <2>4, NoNewLives DEF FlipOut
    <2>6. \A q \in Procs \ {i} : Untouched(q)
      BY <2>1 DEF Untouched
    <2>7. \A x : InHand(i, x)' => InHand(i, x)
      BY <2>1 DEF InHand
    <2> QED BY <2>1, <2>5, <2>6, <2>7, RunsSame, QuietInTime DEF Reading, Busy, Alone
  <1>5. ASSUME NEW m \in Matches, NEW sig \in BoardStates, DropRow(i, m, sig) PROVE ClockInv'
    <2>1. /\ pc[i] = "rows" /\ pc' = pc /\ board' = [board EXCEPT ![i] = @ \ {<<m, sig>>}]
          /\ UNCHANGED <<events, clock, runs, at, run, seen, row>>
      BY <1>5 DEF DropRow, storeVars
    <2>2. SameLives
      BY <1>1, <2>1, NoNewLives
    <2>3. (\A q \in Procs \ {i} : Untouched(q)) /\ board'[i] \subseteq board[i]
      BY <1>1, <2>1 DEF LocalTypes, Untouched
    <2>4. \A x : InHand(i, x)' => InHand(i, x)
      BY <2>1 DEF InHand
    <2> QED BY <2>1, <2>2, <2>3, <2>4, RunsSame, QuietInTime DEF Reading, Busy, Alone
  <1> QED BY <1>2, <1>3, <1>4, <1>5

LEMMA ApplyRowInTime ==
  ASSUME PollInv, MissInv, ClockInv, Replays = {}, NEW i \in Procs, ApplyRow(i)
  PROVE  ClockInv'
  <1>0. PICK m \in Matches : m = row[i].match
    BY DEF ApplyRow, PollInv, LocalTypes
  <1>1. /\ StoreTypeOK /\ LocalTypes /\ at[i] \in Times /\ clock \in Nat
        /\ Times \subseteq Nat
    BY PollAssumption DEF PollInv, LocalTypes, SharedTypes
  <1>2. /\ pc[i] = "apply" /\ ApplyAction(i, m, row[i].sig)
        /\ pc' = [pc EXCEPT ![i] = IF Remarks(i) THEN "remark" ELSE "rows"]
        /\ row' = IF Remarks(i) THEN row ELSE [row EXCEPT ![i] = NoRow]
        /\ UNCHANGED <<clock, runs, at, run, board, seen>>
    BY <1>0 DEF ApplyRow, Goto
  <1>3. m \in Matches /\ m \in seen[i] /\ InTime(i) /\ run[i] \in DOMAIN runs
    BY <1>0, <1>1, <1>2 DEF MissInv, Sound, OwnRun, Busy, Alone, ClockInv
  <1>4. /\ pc'[i] \in {"remark", "rows"}
        /\ \A q \in Procs \ {i} : Untouched(q)
    <2>1. pc'[i] \in {"remark", "rows"}
      BY <1>1, <1>2 DEF LocalTypes
    <2>2. ASSUME NEW q \in Procs \ {i} PROVE Untouched(q)
      <3>1. pc'[q] = pc[q] /\ row'[q] = row[q]
        BY <1>1, <1>2 DEF LocalTypes
      <3> QED BY <1>2, <3>1 DEF Untouched
    <2> QED BY <2>1, <2>2
  <1>5. RunsGrow /\ pc[i] \in Reading /\ pc'[i] \in Reading /\ \A x : ~InHand(i, x)'
    BY <1>2, <1>4, RunsSame DEF Reading, Busy, Alone, InHand
  <1>6. CASE SameLives
    BY <1>2, <1>4, <1>5, <1>6, QuietInTime
  <1>7. CASE events' = Append(events, EventOf(m, "live", at[i]))
    <2> DEFINE n == Len(events) + 1
    <2>1. /\ events \in Seq(Event) /\ Len(events) \in Nat /\ DOMAIN events = 1..Len(events)
          /\ EventOf(m, "live", at[i]) \in Event
      BY <1>1, <1>3 DEF StoreTypeOK, EventOf, Event
    <2>2. /\ DOMAIN events' = 1..n
          /\ \A k \in DOMAIN events : events'[k] = events[k]
          /\ events'[n] = EventOf(m, "live", at[i])
      BY ONLY <1>7, <2>1
    <2>3. events'[n].match = m /\ events'[n].kind = "live" /\ events'[n].at = at[i]
      BY <2>2 DEF EventOf
    <2>4. ASSUME NEW k \in 1..n, events'[k].kind = "live"
          PROVE  k \in LiveEvents(events'[k].match) \/ (events'[k].match = m /\ k = n)
      <3>1. CASE k = n
        BY <2>3, <3>1
      <3>2. CASE k # n
        <4>1. k \in DOMAIN events
          BY <2>1, <3>2
        <4> QED BY <2>2, <2>4, <4>1 DEF LiveEvents
      <3> QED BY <3>1, <3>2
    <2>6. \A x \in Matches : \A k \in LiveEvents(x) : /\ events'[k] = events[k]
                                                      /\ k \in 1..Len(events)
      BY <2>1, <2>2 DEF LiveEvents
    <2> HIDE DEF n
    <2>7. \A k \in LiveEvents(m) : events[k].at < at[i]
      BY <1>0, <1>2, <1>3 DEF InTime, InHand, Busy, Alone
    <2>8. at[i] <= runs[run[i]].started /\ runs[run[i]].asked
      BY <1>2, <1>3 DEF InTime, Reading, Busy, Alone
    <2>9. AnnouncedByRuns'
      <3> SUFFICES ASSUME NEW x \in Matches, NEW k \in LiveEvents(x)'
                   PROVE  \E r \in DOMAIN runs : runs[r].asked /\ events'[k].at <= runs[r].started
        BY <1>2 DEF AnnouncedByRuns
      <3>0. k \in LiveEvents(x) \/ (x = m /\ k = n)
        <4>1. k \in 1..n /\ events'[k].match = x /\ events'[k].kind = "live"
          BY <2>2 DEF LiveEvents
        <4> QED BY <2>4, <4>1
      <3>1. CASE x = m /\ k = n
        BY <1>3, <2>3, <2>8, <3>1
      <3>2. CASE k \in LiveEvents(x)
        BY <2>6, <3>2 DEF ClockInv, AnnouncedByRuns
      <3> QED BY <3>0, <3>1, <3>2
    <2>10. Rising'
      <3> SUFFICES ASSUME NEW x \in Matches, NEW j \in LiveEvents(x)', NEW k \in LiveEvents(x)',
                          j < k
                   PROVE  events'[j].at < events'[k].at
        BY DEF Rising
      <3>0. /\ j \in LiveEvents(x) \/ (x = m /\ j = n)
            /\ k \in LiveEvents(x) \/ (x = m /\ k = n)
        <4>1. /\ j \in 1..n /\ events'[j].match = x /\ events'[j].kind = "live"
              /\ k \in 1..n /\ events'[k].match = x /\ events'[k].kind = "live"
          BY <2>2 DEF LiveEvents
        <4> QED BY <2>4, <4>1
      <3>1. CASE j \in LiveEvents(x) /\ k \in LiveEvents(x)
        BY <2>6, <3>1 DEF ClockInv, Rising
      <3>2. CASE j \in LiveEvents(x) /\ x = m /\ k = n
        BY <2>3, <2>6, <2>7, <3>2
      <3>3. CASE x = m /\ j = n
        <4>1. k \in 1..n
          BY <2>1, <2>2 DEF LiveEvents
        <4> QED BY <2>1, <3>3, <4>1 DEF n
      <3> QED BY <3>0, <3>1, <3>2, <3>3
    <2>11. InTime(i)'
      <3>1. /\ at'[i] <= clock' /\ at'[i] <= runs'[run'[i]].started /\ runs'[run'[i]].asked
        BY <1>2, <1>3, <2>8 DEF InTime
      <3>2. ASSUME NEW x \in Matches, x \notin seen'[i] \/ InHand(i, x)', NEW k \in LiveEvents(x)'
            PROVE  events'[k].at < at'[i]
        <4>1. x # m /\ x \notin seen[i]
          BY <1>2, <1>3, <1>5, <3>2
        <4>2. k \in 1..n /\ events'[k].match = x /\ events'[k].kind = "live"
          BY <2>2, <3>2 DEF LiveEvents
        <4>3. k \in LiveEvents(x)
          BY <2>4, <4>1, <4>2
        <4> QED BY <1>2, <1>3, <2>6, <4>1, <4>3 DEF InTime, Busy, Alone
      <3>3. ASSUME NEW x \in Matches, NEW s \in BoardStates, <<x, s>> \in board'[i]
            PROVE  /\ x \notin seen'[i]
                   /\ \A t \in BoardStates : <<x, t>> \in board'[i] => s = t
        BY <1>2, <1>3, <1>5, <3>3 DEF InTime
      <3> QED BY <1>5, <3>1, <3>2, <3>3 DEF InTime
    <2>12. \A q \in Procs \ {i} : InTime(q)'
      BY <1>1, <1>2, <1>4, OthersInTime DEF Alone
    <2> QED BY <2>9, <2>10, <2>11, <2>12 DEF ClockInv
  <1>8. \/ UNCHANGED events \/ events' = Append(events, EventOf(m, "finished", at[i]))
        \/ events' = Append(events, EventOf(m, "live", at[i]))
    BY <1>2 DEF ApplyAction, FlipLive, FlipOut, MarkFlagSeen, storeVars
  <1> QED BY <1>1, <1>3, <1>6, <1>7, <1>8, NoNewLives

LEMMA TickInTime ==
  ASSUME PollInv, MissInv, ClockInv, Replays = {}, NEW i \in Procs,
         \/ BeginCycle(i) \/ ListStale(i) \/ SweepRuns(i) \/ TakeLock(i)
         \/ \E m \in Matches : PutOut(i, m) \/ PutOutFails(i, m)
  PROVE  ClockInv'
  <1>1. /\ StoreTypeOK /\ LocalTypes /\ RunTypes /\ at[i] \in Times /\ clock \in Nat
        /\ Times \subseteq Nat /\ InTime(i) /\ MaxClock \in Nat /\ Gaps \subseteq Nat
        /\ clock <= MaxClock
    BY PollAssumption DEF PollInv, LocalTypes, SharedTypes, ClockInv
  <1>2. \A q \in Procs \ {i} : Untouched(q)
    BY <1>1 DEF BeginCycle, ListStale, SweepRuns, TakeLock, PutOut, PutOutFails, Visit, Goto,
                LocalTypes, Untouched
  <1>3. CASE BeginCycle(i)
    <2>1. PICK gap \in Gaps : ReadClock(gap)
      BY <1>3 DEF BeginCycle
    <2>2. clock' \in Nat /\ clock <= clock'
      BY <1>1, <2>1 DEF ReadClock
    <2>3. /\ pc'[i] = "orphans" /\ at'[i] = clock' /\ UNCHANGED <<events, runs>>
      BY <1>1, <1>3 DEF BeginCycle, Goto, LocalTypes, storeVars
    <2>4. RunsGrow /\ SameLives
      BY <1>1, <2>3, RunsSame, NoNewLives
    <2>5. InTime(i)'
      BY <2>2, <2>3, IdleInTime DEF Busy, Alone
    <2> QED BY <1>2, <2>2, <2>4, <2>5, OthersInTime, AnnouncedStays DEF ClockInv
  <1>4. CASE ~BeginCycle(i)
    <2>1. UNCHANGED <<clock, at>> /\ pc'[i] \in Steps \ Busy
      BY <1>1, <1>4 DEF ListStale, SweepRuns, TakeLock, PutOut, PutOutFails, Visit, Goto,
                        LocalTypes, Steps, Busy, Alone
    <2>2. InTime(i)'
      BY <1>1, <2>1, IdleInTime DEF InTime
    <2>3. RunsGrow
      <3>1. CASE UNCHANGED runs
        BY <3>1, RunsSame
      <3>2. CASE SweepRuns(i)
        <4>1. \A r \in DOMAIN runs : runs[r] \in Run
          BY <1>1 DEF RunTypes
        <4> QED BY <3>2, <4>1 DEF SweepRuns, SweepAbandonedRuns, RunsGrow, Run
      <3> QED BY <1>4, <3>1, <3>2 DEF ListStale, TakeLock, PutOut, PutOutFails
    <2>4. SameLives
      <3>1. CASE UNCHANGED events
        BY <1>1, <3>1, NoNewLives
      <3>2. ASSUME NEW m \in Matches, PutOut(i, m) PROVE SameLives
        BY <1>1, <3>2, NoNewLives DEF PutOut, FlipOut
      <3> QED BY <1>4, <3>1, <3>2
              DEF ListStale, SweepRuns, TakeLock, PutOutFails, RetireCreatedMatches, storeVars
    <2> QED BY <1>1, <1>2, <2>1, <2>2, <2>3, <2>4, OthersInTime, AnnouncedStays DEF ClockInv
  <1> QED BY <1>3, <1>4

LEMMA ClockStep ==
  ASSUME PollInv, MissInv, ClockInv, Replays = {}, ~DevFlips, MinGap > 0, ListedOnce,
         [PollNext]_vars
  PROVE  ClockInv'
  <1>1. StoreTypeOK /\ LocalTypes /\ RunTypes /\ SharedTypes /\ clock \in Nat
    BY PollAssumption DEF PollInv, SharedTypes
  <1>2. Inst = Procs
    BY DEF Procs
  <1>3. ASSUME NEW i \in Inst, Ingest(i) PROVE ClockInv'
    <2>1. ASSUME NEW m \in Matches, NEW sig \in BoardStates, MatchRow(i, m, sig) PROVE ClockInv'
      BY <1>2, <2>1, MatchRowInTime
    <2>2. CASE \/ AppendRemark(i) \/ BeginSweep(i)
               \/ \E m \in Matches : SweepAbsent(i, m)
               \/ \E m \in Matches, sig \in BoardStates : DropRow(i, m, sig)
      BY <1>2, <2>2, QuietStepsInTime
    <2> QED BY <1>2, <1>3, <2>1, <2>2, FailsInTime, FetchInTime, ApplyRowInTime DEF Ingest
  <1>4. ASSUME NEW i \in Inst, SkipTick(i) \/ Crash(i) PROVE ClockInv'
    <2>1. Forget(i) /\ UNCHANGED <<clock, events, runs>>
      BY <1>4 DEF SkipTick, Crash, storeVars
    <2> QED BY <1>2, <2>1, RunsSame, EndsInTime
  <1>5. ASSUME NEW i \in Inst, Cycle(i) PROVE ClockInv'
    BY <1>2, <1>3, <1>4, <1>5, TickInTime, DecideInTime DEF Cycle
  <1>6. CASE UNCHANGED <<events, clock, runs, localVars>>
    <2>1. RunsGrow /\ SameLives
      BY <1>1, <1>6, RunsSame, NoNewLives
    <2>2. ASSUME NEW p \in Procs PROVE InTime(p)'
      <3>1. InTime(p) /\ (pc[p] \in Busy => run[p] \in DOMAIN runs)
        BY DEF ClockInv, MissInv, Sound, OwnRun
      <3>2. /\ clock' = clock /\ at' = at /\ pc' = pc /\ run' = run /\ seen' = seen
            /\ row' = row /\ board' = board
        BY <1>6 DEF localVars
      <3> QED BY <1>1, <2>1, <3>1, <3>2, InTimeStays
    <2> QED BY <2>1, <2>2, AnnouncedStays DEF ClockInv
  <1>7. ASSUME NEW m \in Matches, Pipeline(m) PROVE ClockInv'
    BY <1>6, <1>7 DEF Pipeline, PipelineWrites, pollVars
  <1>8. ASSUME NEW m \in Matches, DevFlip(m) PROVE FALSE
    BY <1>8 DEF DevFlip
  <1> QED BY <1>4, <1>5, <1>6, <1>7, <1>8 DEF PollNext, vars, storeVars, pollVars

LEMMA PeriodsFromClock ==
  ASSUME StoreTypeOK, OutboxAgrees, Rising
  PROVE  PeriodsOrdered
  <1> SUFFICES ASSUME NEW m \in Matches, flags[m] # NoFlag, NEW k \in Transitions(m),
                      events[k].kind = "live", NEW j \in Transitions(m), ~(j <= k)
               PROVE  events[k].at < flags[m].flippedAt
    BY DEF PeriodsOrdered
  <1>1. Len(events) \in Nat /\ DOMAIN events = 1..Len(events)
    BY DEF StoreTypeOK
  <1>2. Transitions(m) \in SUBSET ((-1)..Len(events)) /\ Transitions(m) # {}
    BY <1>1 DEF Transitions
  <1> DEFINE last == Max(Transitions(m))
  <1>3. last \in Transitions(m) /\ \A l \in Transitions(m) : l <= last
    BY <1>1, <1>2, MaxOfBounded
  <1> HIDE DEF last
  <1>4. events[last].kind = "live" /\ events[last].at = flags[m].flippedAt
    BY <1>3 DEF OutboxAgrees
  <1>5. k < last
    BY <1>1, <1>3 DEF Transitions
  <1>6. k \in LiveEvents(m) /\ last \in LiveEvents(m)
    BY <1>3, <1>4 DEF Transitions, LiveEvents
  <1> QED BY <1>4, <1>5, <1>6 DEF Rising

(* What MatchStillLive compares: where nothing is replayed or flipped by   *)
(* hand, polls are apart (Decide) and a board lists a match once, every    *)
(* `live` event of an earlier period is older than the flag, for any       *)
(* number of instances and crashes and whatever the pipeline writes.       *)
THEOREM PeriodsAreOrdered ==
  ASSUME Replays = {}, ~DevFlips, MinGap > 0, ListedOnce
  PROVE  PollSpec => []PeriodsOrdered
<1>1. PollInit => ClockInv
  <2> SUFFICES ASSUME PollInit PROVE ClockInv
    OBVIOUS
  <2>1. events = <<>> /\ clock = 0
    BY DEF PollInit, StoreInit
  <2>2. \A m \in Matches : LiveEvents(m) = {}
    BY <2>1 DEF LiveEvents
  <2>3. \A p \in Procs : at[p] = 0 /\ pc[p] = "idle"
    BY DEF PollInit
  <2> QED BY <2>1, <2>2, <2>3
          DEF ClockInv, AnnouncedByRuns, Rising, InTime, Busy, Reading, Alone
<1>2. PollInv /\ MissInv /\ ClockInv /\ [PollNext]_vars => ClockInv'
  BY ClockStep
<1>3. PollSpec => []ClockInv
  BY <1>1, <1>2, MissInvariant, PTL DEF PollSpec
<1>4. PollInv /\ OutboxAgrees /\ ClockInv => PeriodsOrdered
  BY PeriodsFromClock DEF PollInv, ClockInv
<1> QED BY <1>3, <1>4, PollInvariant, PollKeepsResults, PTL
=============================================================================

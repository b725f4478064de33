------------------------------ MODULE Governor ------------------------------
(***************************************************************************)
(* Decide (internal/updater/live/decide.go): whether this tick of Job B    *)
(* asks the vendor, from a snapshot of the tables and an instant.  Instants*)
(* and durations are numbers of one unit, which stands for minutes.        *)
(***************************************************************************)
EXTENDS Integers, SequencesExt

CONSTANTS Day,           \* length of a day; days begin at its multiples (UTC)
          DailyQuota,    \* requests the vendor allows in a day
          Reserve,       \* requests the governor leaves alone
          MinInterval,   \* floor and
          MaxInterval,   \*   ceiling of the interval between polls
          StaleInterval, \* the interval of stale_safe
          StaleDailyCap, \* requests stale_safe may spend in a day
          StaleAfter,    \* age at which a schedule is stale
          TickSlack,     \* by how much an interval may be cut short
          WatchLead,     \* a window opens so long before the slot
          WatchTail,     \* and closes so long after it
          Never          \* an instant that has not been

ASSUME GovernorAssumption ==
  /\ {Day, DailyQuota, Reserve, MinInterval, MaxInterval, StaleInterval,
      StaleDailyCap, StaleAfter, TickSlack, WatchLead, WatchTail} \subseteq Nat
  /\ Day > 0
  /\ MinInterval <= MaxInterval
  /\ Never \notin Int

MaxPagesPerRun == 2

DayStart(now) == now - (now % Day)

EndOfUTCDay(now) == DayStart(now) + Day

Window(slot) == [from |-> slot - WatchLead, to |-> slot + WatchTail]

Watched(windows, now) == \E w \in windows : w.from <= now /\ now < w.to

PickMode(s, now) ==
  CASE s.active > 0 -> "active"
    [] s.active = 0 /\ Watched(s.windows, now) -> "watching"
    [] s.active = 0 /\ ~Watched(s.windows, now) ->
         IF s.lastRefresh = Never \/ now - s.lastRefresh > StaleAfter
         THEN "stale_safe" ELSE "asleep"

-----------------------------------------------------------------------------
(* WatchMinutes: the windows are cut to [from, to), sorted and merged.     *)

Clip(w, from, to) == [from |-> IF w.from < from THEN from ELSE w.from,
                      to   |-> IF w.to > to THEN to ELSE w.to]

Clipped(windows, from, to) ==
  {w \in {Clip(v, from, to) : v \in windows} : w.from < w.to}

(* Mutant of Absorb: every window counts in full.                          *)
AbsorbSummed(acc, w) == [done |-> acc.done + w.to - w.from, end |-> w.to]

(* The time covered up to acc.end, one more window taken in; windows come  *)
(* in the order in which they open.                                        *)
Absorb(acc, w) ==
  CASE w.from > acc.end -> [done |-> acc.done + w.to - w.from, end |-> w.to]
    [] w.from <= acc.end /\ w.to > acc.end ->
         [done |-> acc.done + w.to - acc.end, end |-> w.to]
    [] OTHER -> acc

(* Windows that open together come in either order.                        *)
InOrder(windows) ==
  CHOOSE s \in SetToSeqs(windows) :
    \A i, j \in DOMAIN s : i < j => s[i].from <= s[j].from

WatchMinutes(windows, from, to) ==
  FoldLeft(Absorb, [done |-> 0, end |-> from],
           InOrder(Clipped(windows, from, to))).done

-----------------------------------------------------------------------------
Horizon(now) == IF now + WatchTail < EndOfUTCDay(now) THEN now + WatchTail
                ELSE EndOfUTCDay(now)

(* Mutant of Clamp: no floor.                                              *)
ClampFromAbove(need) == IF need > MaxInterval THEN MaxInterval ELSE need

Clamp(need) == CASE need < MinInterval -> MinInterval
                 [] need > MaxInterval -> MaxInterval
                 [] OTHER -> need

(* A live match of which no window is left is watched to the horizon.      *)
ToWatch(s, now, mode) ==
  LET watch == WatchMinutes(s.windows, now, Horizon(now))
  IN  IF mode = "active" /\ watch <= 0 THEN Horizon(now) - now ELSE watch

RequiredInterval(s, now, mode, left) ==
  CASE mode = "stale_safe" -> StaleInterval
    [] mode # "stale_safe" /\ ToWatch(s, now, mode) <= 0 -> MaxInterval
    [] OTHER -> Clamp(ToWatch(s, now, mode) \div left)

Left(s) == DailyQuota - s.spent - Reserve

TooSoon(s, now, mode) ==
  /\ s.lastPoll # Never
  /\ now - s.lastPoll < RequiredInterval(s, now, mode, Left(s)) - TickSlack

(* The poll field of the decision; its reason only goes to the journal.    *)
Polls(s, now) ==
  LET mode == PickMode(s, now)
  IN  /\ mode # "asleep"
      /\ Left(s) >= MaxPagesPerRun
      /\ ~(mode = "stale_safe" /\ s.staleSpent >= StaleDailyCap)
      /\ ~TooSoon(s, now, mode)

-----------------------------------------------------------------------------
(* What WatchMinutes is to compute: the instants some window covers.       *)
Covered(windows, from, to) ==
  {t \in from..(to - 1) : Watched(windows, t)}
=============================================================================

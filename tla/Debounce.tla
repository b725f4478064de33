------------------------------ MODULE Debounce ------------------------------
(***************************************************************************)
(* Derive (internal/updater/live/derive.go): what to do about a match,     *)
(* given what we already know of it and what one board says.  Entry is     *)
(* cheap (one observation), exit is dear (a finish, or three absences).    *)
(***************************************************************************)
EXTENDS Integers

CONSTANT MaxLiveAge \* age at which a card is put out by force; 0 is "never"

ASSUME DebounceAssumption == MaxLiveAge \in Nat

MissThreshold == 3

BoardStates == {"on_court", "suspended", "finished"}

(* "absent" is Signal{Seen: false}.                                        *)
Signals == BoardStates \cup {"absent"}

Overdue(cur, age) == cur.held /\ MaxLiveAge > 0 /\ age >= MaxLiveAge

(* Mutant of AbsentLongEnough: one absence short.                          *)
AbsentEager(cur) == cur.misses + 2 >= MissThreshold

(* This absence is counted together with those of the runs before.         *)
AbsentLongEnough(cur) == cur.misses + 1 >= MissThreshold

Derive(cur, sig, age) ==
  LET calm == cur.held /\ ~Overdue(cur, age)
  IN  CASE Overdue(cur, age) -> "force_exit"
        [] ~cur.held /\ sig = "on_court" -> "enter_live"
        [] calm /\ sig = "absent" /\ AbsentLongEnough(cur) -> "leave_live"
        [] calm /\ sig = "finished" -> "leave_live"
        [] calm /\ sig = "suspended" /\ cur.state # "suspended" -> "suspend"
        [] calm /\ sig = "on_court" /\ cur.state = "suspended" -> "resume"
        [] OTHER -> "none"

(* FlagState.State after a step that leaves the match held; a board that   *)
(* shows the match neither suspended nor on court leaves it as it was.     *)
StateAfter(cur, act) == CASE act = "suspend" -> "suspended"
                          [] act = "resume" -> "on_court"
                          [] OTHER -> cur.state
=============================================================================

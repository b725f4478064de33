------------------------------ MODULE MCTables -------------------------------
(* Instances of Intake and of Bracket for TLC, which share nothing but a    *)
(* run: the first state says which of the two a behaviour is of, and the    *)
(* other keeps still.                                                       *)
(*                                                                          *)
(* Intake: a player, and his opponent, whom the vendor knows under two ids, *)
(* one of them under a name that fits the player.                           *)
(* Bracket: three followed players in a draw of sixteen, one of them        *)
(* without a rank, who meet early or late or not at all.                    *)
EXTENDS Intake, Bracket, TLC

CONSTANTS F, X, kF, kX, kY, f1, f2, tour, main, pub

MCKeysOf == f1 :> {kF, kX} @@ f2 :> {kF, kY}
MCTournamentOf == [f \in Fixtures |-> tour]
MCEditionOf == [t \in Tournaments |-> main]
MCWho == kF :> F @@ kX :> X @@ kY :> X
MCFits == kF :> {F} @@ kX :> {F} @@ kY :> {X}
MCBackoffs == <<1, 2>>

CONSTANTS a, b, c

MCRank == a :> 1 @@ b :> 5 @@ c :> 0
MCSlug == a :> 2 @@ b :> 1 @@ c :> 3

Seat(x, y, z) == a :> x @@ b :> y @@ c :> z
Daily == [d \in 0..Rounds - 1 |-> Rounds - 1 - d]
Untimed == [d \in 0..Rounds - 1 |-> MaxDay + 1]
Draw(seat, byes, day, all) ==
  [seat |-> seat, byes |-> byes, day |-> day, positioned |-> all]

(* A row without a position; the quarter-finals; both halves. With byes.    *)
Mixed == Draw(Seat(1, 2, 7), {}, Untimed, FALSE)
MCDraws == {Mixed, Draw(Seat(1, 3, 5), {1}, Daily, TRUE),
            Draw(Seat(1, 3, 9), {2}, Daily, TRUE)}

VARIABLE part

(* The intake at rest, and a draw without rows.                             *)
OfIntake == part = "intake" /\ UNCHANGED <<bracketVars, part>>
OfBracket == part = "bracket" /\ UNCHANGED <<vars, part>>

TablesInit ==
  /\ IntakeInit
  /\ \/ part = "bracket" /\ BracketInit
     \/ part = "intake" /\ draw = Mixed /\ rows = << >> /\ today = 0

TablesNext ==
  \/ OfIntake /\ IntakeNext
  \/ OfBracket /\ BracketNext

tablesVars == <<vars, bracketVars, part>>

TablesSpec ==
  /\ TablesInit /\ [][TablesNext]_tablesVars
  /\ WF_tablesVars(OfIntake /\ BeginTick)
  /\ WF_tablesVars(OfIntake /\ EndTick)
  /\ WF_tablesVars(OfIntake /\ Answered)
=============================================================================

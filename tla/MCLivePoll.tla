----------------------------- MODULE MCLivePoll -----------------------------
(* Instances of LivePoll for TLC.                                           *)
EXTENDS LivePoll, TLC

CONSTANTS m1, a, b, d

(* Every board with at most one row.                                        *)
ShortBoards == {rows \in SUBSET ({m1} \X BoardStates) : Cardinality(rows) <= 1}

(* The same, and one that carries the match twice, as two pages of a moving *)
(* list do; a finish is seen only there.                                    *)
OddBoards == {{}, {<<m1, "on_court">>}, {<<m1, "suspended">>},
              {<<m1, "on_court">>, <<m1, "finished">>}}

(* The two instances of a deploy are alike.                                 *)
Alike == Permutations({a, b})
=============================================================================

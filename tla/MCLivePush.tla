----------------------------- MODULE MCLivePush -----------------------------
(* Instances of LivePush for TLC.                                           *)
EXTENDS LivePush, TLC

CONSTANTS m1, u1, u2, a, b

(* Nothing tells two followers, or two pushers, apart.                      *)
Same == Permutations(Users) \cup Permutations(Pushers)
=============================================================================

------------------------------ MODULE MCQuota -------------------------------
(* Model values and small sets for Quota.                                  *)
EXTENDS Quota

CONSTANTS f1, f2

(* Nothing tells the two fixtures apart.                                   *)
Twins == Permutations(Fixtures)
=============================================================================

------------------------------- MODULE Bounds --------------------------------
(* Least and greatest members, of numbers, of families of sets and of        *)
(* orders, that the other proofs cite.                                       *)
EXTENDS Integers, FiniteSetsExt, FiniteSetTheorems, WellFoundedInduction, TLAPS

(* Every set of naturals has a least element, every bounded one a greatest.*)
LEMMA LeastOfNat ==
  ASSUME NEW S \in SUBSET Nat, S # {}
  PROVE  \E x \in S : \A y \in S : x <= y
  <1> DEFINE R == OpToRel(<, Nat)
  <1>1. IsWellFoundedOn(R, Nat)
    BY NatLessThanWellFounded
  <1>2. \A x, y \in Nat : <<y, x>> \in R <=> y < x
    BY DEF OpToRel
  <1> HIDE DEF R
  <1>3. PICK x \in S : \A y \in S : <<y, x>> \notin R
    BY <1>1, WFMin
  <1>4. \A y \in S : ~(y < x)
    BY <1>2, <1>3
  <1> QED BY <1>4

LEMMA MaxOfBounded ==
  ASSUME NEW N \in Nat, NEW S \in SUBSET ((-1)..N), S # {}
  PROVE  /\ Max(S) \in S
         /\ \A y \in S : y <= Max(S)
  <1> DEFINE T == {N - y : y \in S}
  <1>1. T \in SUBSET Nat /\ T # {}
    <2>1. \A y \in S : y \in (-1)..N
      OBVIOUS
    <2>2. \A y \in (-1)..N : N - y \in Nat
      OBVIOUS
    <2>3. \A y \in S : N - y \in Nat
      BY <2>1, <2>2
    <2>4. T \subseteq Nat
      BY <2>3
    <2>5. PICK y \in S : TRUE
      OBVIOUS
    <2>6. N - y \in T
      OBVIOUS
    <2> QED BY <2>4, <2>6
  <1>2. PICK z \in T : \A w \in T : z <= w
    BY <1>1, LeastOfNat
  <1>3. PICK x \in S : z = N - x
    BY <1>2
  <1>4. \A y \in S : x >= y
    <2> TAKE y \in S
    <2>1. N - x <= N - y
      BY <1>2, <1>3
    <2> QED BY <2>1
  <1>5. Max(S) \in S /\ \A y \in S : Max(S) >= y
    BY <1>4 DEF Max
  <1> QED BY <1>5

(* Induction over the subsets of a finite set, with a set in place of the  *)
(* predicate: any family of them that is not empty has a smallest member.  *)
LEMMA SmallestSet ==
  ASSUME NEW S, IsFiniteSet(S), NEW F, F \subseteq SUBSET S, F # {}
  PROVE  \E x \in F : \A y \in F : y \subseteq x => y = x
<1>1. IsWellFoundedOn(StrictSubsetOrdering(S), SUBSET S)
  BY FS_StrictSubsetOrderingWellFounded, FS_FiniteSubsetsOfFinite
<1>2. \E x \in F : \A y \in F : ~ (<<y, x>> \in StrictSubsetOrdering(S))
  BY <1>1, WFMin
<1> QED
  BY <1>2 DEF StrictSubsetOrdering

(* A function with whole values on a finite set is greatest somewhere.     *)
LEMMA Largest ==
  ASSUME NEW S, IsFiniteSet(S), S # {}, NEW g \in [S -> Int]
  PROVE  \E x \in S : \A y \in S : g[y] <= g[x]
<1> DEFINE Above(x) == {y \in S : g[y] >= g[x]}
           F == {Above(x) : x \in S}
<1>1. F \subseteq SUBSET S
  OBVIOUS
<1>6. F # {}
  <2>1. PICK x : x \in S
    OBVIOUS
  <2>2. Above(x) \in F
    BY <2>1
  <2> QED
    BY <2>2
<1>2. PICK A \in F : \A B \in F : B \subseteq A => B = A
  <2> HIDE DEF F
  <2> QED
    BY <1>1, <1>6, SmallestSet
<1>3. PICK x \in S : A = Above(x)
  BY <1>2
<1>4. \A y \in S : g[y] \in Int
  OBVIOUS
<1>5. ASSUME NEW y \in S, ~(g[y] <= g[x])
      PROVE  FALSE
  <2>1. Above(y) \subseteq Above(x) /\ x \in Above(x) /\ x \notin Above(y)
    BY <1>4, <1>5
  <2>2. Above(y) \in F
    OBVIOUS
  <2> HIDE DEF F, Above
  <2> QED
    BY <1>2, <1>3, <2>1, <2>2
<1> QED
  BY <1>5

LEMMA LastOfFinite ==
  ASSUME NEW S, IsFiniteSet(S), S # {}, S \subseteq Int
  PROVE  Max(S) \in S /\ \A y \in S : y <= Max(S)
<1> DEFINE g == [x \in S |-> x]
<1>1. g \in [S -> Int]
  OBVIOUS
<1>2. PICK x \in S : \A y \in S : g[y] <= g[x]
  <2> HIDE DEF g
  <2> QED
    BY <1>1, Largest
<1>3. \A y \in S : x >= y
  BY <1>2
<1> QED
  BY <1>3 DEF Max

(* A finite set has a first member in any order that is strict and total on*)
(* it; R holds the pairs of the order.                                     *)
LEMMA FirstOfOrder ==
  ASSUME NEW S, IsFiniteSet(S), S # {}, NEW R,
         \A x \in S : <<x, x>> \notin R,
         \A x, y \in S : x # y => <<x, y>> \in R \/ <<y, x>> \in R,
         \A x, y, z \in S : <<x, y>> \in R /\ <<y, z>> \in R => <<x, z>> \in R
  PROVE  \E x \in S : \A y \in S \ {x} : <<x, y>> \in R
<1> DEFINE UpTo(x) == {y \in S : y = x \/ <<y, x>> \in R}
           F == {UpTo(x) : x \in S}
<1>1. F \subseteq SUBSET S
  OBVIOUS
<1>2. F # {}
  <2>1. PICK x : x \in S
    OBVIOUS
  <2>2. UpTo(x) \in F
    BY <2>1
  <2> QED
    BY <2>2
<1>3. PICK A \in F : \A B \in F : B \subseteq A => B = A
  <2> HIDE DEF F
  <2> QED
    BY <1>1, <1>2, SmallestSet
<1>4. PICK x \in S : A = UpTo(x)
  BY <1>3
<1>5. ASSUME NEW y \in S, <<y, x>> \in R
      PROVE  FALSE
  <2>1. UpTo(y) \subseteq UpTo(x)
    BY <1>5
  <2>2. x \in UpTo(x) /\ x # y
    BY <1>5
  <2>3. <<x, y>> \notin R
    BY <1>5
  <2>4. x \notin UpTo(y) /\ UpTo(y) \in F
    BY <2>2, <2>3
  <2> HIDE DEF F, UpTo
  <2> QED
    BY <1>3, <1>4, <2>1, <2>2, <2>4
<1> QED
  BY <1>5

-----------------------------------------------------------------------------
(* A fold over the subsets of a finite set: h takes the element that pick  *)
(* picks, and folds the rest first.                                        *)
IsFold(step, base, pick, T, h) ==
  h = [s \in SUBSET T |-> IF s = {} THEN base ELSE step[pick[s]][h[s \ {pick[s]}]]]

Picks(pick, S) == \A s \in SUBSET S : s # {} => pick[s] \in s

(* Two such functions agree wherever both are defined,                     *)
LEMMA FoldsAgree ==
  ASSUME NEW step, NEW base, NEW pick, NEW S, IsFiniteSet(S), Picks(pick, S),
         NEW g, NEW h, NEW U, NEW V,
         S \subseteq U, S \subseteq V, IsFold(step, base, pick, U, g), IsFold(step, base, pick, V, h)
  PROVE  g[S] = h[S]
<1> DEFINE Apart == {s \in SUBSET S : g[s] # h[s]}
<1> SUFFICES ASSUME Apart # {}
             PROVE  FALSE
  OBVIOUS
<1>1. PICK s \in Apart : \A t \in Apart : t \subseteq s => t = s
  <2>1. Apart \subseteq SUBSET S
    OBVIOUS
  <2> HIDE DEF Apart
  <2> QED
    BY <2>1, SmallestSet
<1>2. s \in SUBSET U /\ s \in SUBSET V /\ s \in SUBSET S /\ g[s] # h[s]
  BY <1>1
<1>3. CASE s = {}
  BY <1>2, <1>3 DEF IsFold
<1>4. CASE s # {}
  <2> DEFINE r == s \ {pick[s]}
  <2>1. pick[s] \in s
    BY <1>2, <1>4 DEF Picks
  <2>2. r \in SUBSET S /\ r # s /\ r \subseteq s
    BY <1>2, <2>1
  <2>3. g[r] = h[r]
    BY <1>1, <2>2
  <2>4. g[s] = step[pick[s]][g[r]]
        /\ h[s] = step[pick[s]][h[r]]
    BY <1>2, <1>4 DEF IsFold
  <2> QED
    BY <1>2, <2>3, <2>4
<1> QED
  BY <1>3, <1>4

(* and there is one for every finite set.                                  *)
LEMMA FoldsExist ==
  ASSUME NEW step, NEW base, NEW pick, NEW S, IsFiniteSet(S), Picks(pick, S)
  PROVE  \E h : IsFold(step, base, pick, S, h)
<1> DEFINE Without == {T \in SUBSET S : ~ \E h : IsFold(step, base, pick, T, h)}
<1> SUFFICES ASSUME Without # {}
             PROVE  FALSE
  OBVIOUS
<1>1. PICK T \in Without : \A U \in Without : U \subseteq T => U = T
  <2>1. Without \subseteq SUBSET S
    OBVIOUS
  <2> HIDE DEF Without
  <2> QED
    BY <2>1, SmallestSet
<1> DEFINE H(U) == CHOOSE h : IsFold(step, base, pick, U, h)
           Less(s) == s \ {pick[s]}
           g == [s \in SUBSET T |-> IF s = {} THEN base
                              ELSE step[pick[s]][H(Less(s))[Less(s)]]]
<1>2. ASSUME NEW s \in SUBSET T, s # {}
      PROVE  Less(s) \in SUBSET T /\ Less(s) # T /\ Less(s) # s
             /\ IsFold(step, base, pick, Less(s), H(Less(s)))
  <2>1. pick[s] \in s
    BY <1>1, <1>2 DEF Picks
  <2>2. Less(s) \in SUBSET T /\ Less(s) # T /\ Less(s) # s
    BY <1>2, <2>1
  <2>3. \E h : IsFold(step, base, pick, Less(s), h)
    BY <1>1, <2>2
  <2> HIDE DEF Less
  <2> QED
    BY <2>2, <2>3
<1>3. ASSUME NEW s \in SUBSET T, s # {}
      PROVE  g[Less(s)] = H(Less(s))[Less(s)]
  <2> DEFINE r == Less(s)
  <2>1. r \in SUBSET T /\ IsFold(step, base, pick, r, H(r))
    BY <1>2, <1>3
  <2>2. CASE r = {}
    <3>1. H(r)[r] = base
      BY <2>1, <2>2 DEF IsFold
    <3> QED
      BY <3>1, <2>1, <2>2
  <2>3. CASE r # {}
    <3>1. Less(r) \in SUBSET r /\ Less(r) \in SUBSET S
          /\ IsFold(step, base, pick, Less(r), H(Less(r)))
      BY <2>1, <2>3, <1>2
    <3>2. IsFiniteSet(Less(r))
      BY <3>1, FS_Subset
    <3>6. Picks(pick, Less(r))
      BY <3>1 DEF Picks
    <3>3. H(r)[Less(r)] = H(Less(r))[Less(r)]
      <4> HIDE DEF H, Less
      <4> QED
      BY <2>1, <3>1, <3>2, <3>6, FoldsAgree
    <3>4. H(r)[r] = step[pick[r]][H(r)[Less(r)]]
      <4> HIDE DEF H
      <4> QED
      BY <2>1, <2>3 DEF IsFold
    <3>5. g[r] = step[pick[r]][H(Less(r))[Less(r)]]
      BY <2>1, <2>3
    <3> QED
      BY <3>3, <3>4, <3>5
  <2> HIDE DEF H, g, Less
  <2> QED
    BY <2>2, <2>3
<1>4. IsFold(step, base, pick, T, g)
  <2>1. g = [s \in SUBSET T |-> IF s = {} THEN base
                            ELSE step[pick[s]][g[Less(s)]]]
    <3>1. \A s \in SUBSET T : s # {} => g[Less(s)] = H(Less(s))[Less(s)]
      BY <1>3
    <3> HIDE DEF H, Less
    <3> QED
    BY <3>1
  <2> HIDE DEF g
  <2> QED
    BY <2>1 DEF IsFold
<1> QED
  BY <1>1, <1>4

-----------------------------------------------------------------------------

(* It stays among the values that its steps keep to.                       *)
LEMMA FoldStays ==
  ASSUME NEW A, NEW base \in A, NEW S, IsFiniteSet(S), NEW step \in [S -> [A -> A]],
         NEW pick, Picks(pick, S), NEW h, IsFold(step, base, pick, S, h)
  PROVE  \A s \in SUBSET S : h[s] \in A
<1> DEFINE Astray == {s \in SUBSET S : h[s] \notin A}
<1> SUFFICES ASSUME Astray # {}
             PROVE  FALSE
  OBVIOUS
<1>1. PICK s \in Astray : \A t \in Astray : t \subseteq s => t = s
  <2>1. Astray \subseteq SUBSET S
    OBVIOUS
  <2> HIDE DEF Astray
  <2> QED
    BY <2>1, SmallestSet
<1>2. CASE s = {}
  BY <1>1, <1>2 DEF IsFold
<1>3. CASE s # {}
  <2> DEFINE r == s \ {pick[s]}
  <2>1. pick[s] \in s /\ s \in SUBSET S
    BY <1>1, <1>3 DEF Picks
  <2>2. r \in SUBSET S /\ r # s /\ r \subseteq s
    BY <2>1
  <2>3. h[r] \in A
    BY <1>1, <2>2
  <2>4. h[s] = step[pick[s]][h[r]]
    BY <1>3, <2>1 DEF IsFold
  <2>5. step[pick[s]] \in [A -> A]
    BY <2>1
  <2> QED
    BY <1>1, <2>3, <2>4, <2>5
<1> QED
  BY <1>2, <1>3

-----------------------------------------------------------------------------
(* The sum of a function over a finite set of its arguments.               *)
AnyOf(s) == CHOOSE x \in s : TRUE

IsSum(c, T, h) ==
  h = [s \in SUBSET T |-> IF s = {} THEN 0 ELSE c[AnyOf(s)] + h[s \ {AnyOf(s)}]]

LEMMA SumsExist ==
  ASSUME NEW S, IsFiniteSet(S), NEW c, \A x \in S : c[x] \in Int
  PROVE  \E h : IsSum(c, S, h)
<1> DEFINE pick == [s \in SUBSET S |-> AnyOf(s)]
           step == [x \in S |-> [acc \in Int |-> c[x] + acc]]
<1>1. Picks(pick, S)
  BY DEF Picks, AnyOf
<1>2. step \in [S -> [Int -> Int]]
  OBVIOUS
<1>3. PICK h : IsFold(step, 0, pick, S, h)
  <2> HIDE DEF pick, step
  <2> QED
    BY <1>1, FoldsExist
<1>4. \A s \in SUBSET S : h[s] \in Int
  <2>1. 0 \in Int
    OBVIOUS
  <2> HIDE DEF pick, step
  <2> QED
    BY <1>1, <1>2, <1>3, <2>1, FoldStays
<1>5. ASSUME NEW s \in SUBSET S, s # {}
      PROVE  step[pick[s]][h[s \ {pick[s]}]] = c[AnyOf(s)] + h[s \ {AnyOf(s)}]
  <2>1. pick[s] = AnyOf(s) /\ AnyOf(s) \in S
    BY <1>5 DEF AnyOf
  <2>2. h[s \ {AnyOf(s)}] \in Int
    BY <1>4
  <2>3. step[AnyOf(s)] = [acc \in Int |-> c[AnyOf(s)] + acc]
    BY <2>1
  <2> HIDE DEF pick, step
  <2> QED
    BY <2>1, <2>2, <2>3
<1>6. IsSum(c, S, h)
  <2> HIDE DEF pick, step
  <2>1. h = [s \in SUBSET S |-> IF s = {} THEN 0 ELSE step[pick[s]][h[s \ {pick[s]}]]]
    BY <1>3 DEF IsFold
  <2>2. h = [s \in SUBSET S |-> IF s = {} THEN 0 ELSE c[AnyOf(s)] + h[s \ {AnyOf(s)}]]
    BY <1>5, <2>1
  <2> QED
    BY <2>2 DEF IsSum
<1> QED
  BY <1>6

(* The sum of a function over a finite set of its arguments is a number,   *)
(* and no part of it is larger than the whole.                             *)
LEMMA SumBoundsParts ==
  ASSUME NEW S, IsFiniteSet(S), NEW c, \A x \in S : c[x] \in Nat, NEW h, IsSum(c, S, h)
  PROVE  h[S] \in Nat /\ \A d \in S : c[d] <= h[S]
<1> DEFINE Wrong == {s \in SUBSET S : ~(h[s] \in Nat /\ \A d \in s : c[d] <= h[s])}
<1>1. Wrong = {}
  <2> SUFFICES ASSUME Wrong # {}
               PROVE  FALSE
    OBVIOUS
  <2>1. PICK s \in Wrong : \A t \in Wrong : t \subseteq s => t = s
    <3>1. Wrong \subseteq SUBSET S
      OBVIOUS
    <3> HIDE DEF Wrong
    <3> QED
      BY <3>1, SmallestSet
  <2>2. CASE s = {}
    BY <2>1, <2>2 DEF IsSum
  <2>3. CASE s # {}
    <3> DEFINE r == s \ {AnyOf(s)}
    <3>1. AnyOf(s) \in s /\ c[AnyOf(s)] \in Nat
      BY <2>1, <2>3 DEF AnyOf
    <3>2. r \in SUBSET S /\ r \notin Wrong
      BY <2>1, <3>1
    <3>3. h[s] = c[AnyOf(s)] + h[r]
      BY <2>1, <2>3 DEF IsSum
    <3>4. h[r] \in Nat /\ \A d \in r : c[d] <= h[r]
      BY <3>2
    <3>5. \A d \in s : c[d] \in Nat /\ (d = AnyOf(s) \/ d \in r)
      OBVIOUS
    <3>6. \A d \in s : c[d] <= h[s]
      <4> TAKE d \in s
      <4> HIDE DEF r
      <4>1. CASE d = AnyOf(s)
        BY <4>1, <3>1, <3>3, <3>4
      <4>2. CASE d \in r
        BY <4>2, <3>1, <3>3, <3>4, <3>5
      <4> QED
        BY <3>5, <4>1, <4>2
    <3>7. h[s] \in Nat
      BY <3>1, <3>3, <3>4
    <3> QED
      BY <3>6, <3>7
  <2> QED
    BY <2>2, <2>3
<1>2. S \in SUBSET S /\ S \notin Wrong
  BY <1>1
<1> QED
  BY <1>2
=============================================================================

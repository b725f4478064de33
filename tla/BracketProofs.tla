---------------------------- MODULE BracketProofs ----------------------------
(***************************************************************************)
(* What is proved of Bracket for a draw of any size, any follows and any   *)
(* order in which the rows come: that the slice is drawn as the tree has   *)
(* it, that the loop over its first column may visit the neighbours it     *)
(* adds or not, that every match of the slice is on the card of the draw,  *)
(* and that who is on his way has a slice that opens with a follow, says   *)
(* what is still to come and never turns back.                             *)
(*                                                                         *)
(* All of it rests on the positions of a node, its neighbour and the node  *)
(* they feed, and on TreeInv: the rows are nodes of the tree, and whoever  *)
(* stands in one has won all that lies behind him.                         *)
(***************************************************************************)
EXTENDS Bracket, Bounds, TLAPS

(* The tree of positions: neighbours are each other's, and feed one node.  *)
LEMMA Siblings ==
  ASSUME NEW pos \in Nat \ {0}
  PROVE  /\ SiblingPos(pos) \in Nat \ {0}
         /\ SiblingPos(SiblingPos(pos)) = pos
         /\ ParentPos(SiblingPos(pos)) = ParentPos(pos)
         /\ ParentPos(pos) \in Nat \ {0}
         /\ pos \in {2 * ParentPos(pos) - 1, 2 * ParentPos(pos)}
  BY DEF SiblingPos, ParentPos

(* Positions are added to the column while it is ranged over, so that the  *)
(* loop may come to the neighbours it has just added: they add no more,    *)
(* and the slice does not depend on the order of a Go map                  *)
(* (BuildBracketSlice).                                                    *)
THEOREM SiblingsOfSiblings ==
  ASSUME NEW positions \in SUBSET (Nat \ {0}), NEW d
  PROVE  WithSiblings(WithSiblings(positions, d), d) = WithSiblings(positions, d)
  <1> DEFINE Wanted(sib) == d = 1 \/ CountFollowed(<<d, sib>>) > 0
             added == {sib \in {SiblingPos(pos) : pos \in positions} : Wanted(sib)}
             again == {sib \in {SiblingPos(pos) : pos \in positions \cup added} : Wanted(sib)}
  <1>1. ASSUME NEW sib \in again PROVE sib \in positions \cup added
    <2>1. PICK pos \in positions \cup added : sib = SiblingPos(pos)
      OBVIOUS
    <2>2. CASE pos \in positions
      BY <2>1, <2>2
    <2>3. CASE pos \in added
      <3>1. PICK first \in positions : pos = SiblingPos(first)
        BY <2>3
      <3>2. sib = first
        BY <2>1, <3>1, Siblings
      <3> QED BY <3>2
    <2> QED BY <2>2, <2>3
  <1>2. /\ WithSiblings(positions, d) = positions \cup added
        /\ WithSiblings(positions \cup added, d) = positions \cup added \cup again
    BY DEF WithSiblings
  <1> QED BY <1>1, <1>2

(* lessRank puts any two follows in one order, so that sort.SliceStable    *)
(* has no choice: the highest ranked follow is one (relevantFollowed).     *)
THEOREM RanksAreOrdered ==
  ASSUME NEW p \in Followed, NEW q \in Followed, NEW r \in Followed
  PROVE  /\ ~LessRank(p, p)
         /\ p # q => LessRank(p, q) \/ LessRank(q, p)
         /\ LessRank(p, q) /\ LessRank(q, r) => LessRank(p, r)
  <1>1. \A x \in Followed : Rank[x] \in Nat /\ Slug[x] \in Nat
    BY BracketAssumption
  <1>2. p # q => Slug[p] # Slug[q]
    BY BracketAssumption
  <1> QED BY <1>1, <1>2 DEF LessRank

-----------------------------------------------------------------------------
(* The matches that feed the two matches of one pair.                      *)
LEMMA MinOfPair ==
  ASSUME NEW S \in SUBSET (Nat \ {0}), NEW n \in S,
         \A x, y \in S : ParentPos(x) = ParentPos(y)
  PROVE  Min(S) \in S
  <1> DEFINE c == ParentPos(n)
  <1>1. c \in Nat /\ \A x \in S : x \in {2 * c - 1, 2 * c}
    BY Siblings
  <1> HIDE DEF c
  <1>2. \E x \in S : \A y \in S : x <= y
    BY <1>1
  <1> QED BY <1>2 DEF Min

-----------------------------------------------------------------------------
(* The rows are nodes of the tree.                                         *)
RowsInTree == draw \in Draws /\ DOMAIN rows \subseteq Nodes

LEMMA NodeParts ==
  ASSUME NEW n \in Nodes
  PROVE  /\ n[1] \in 0..Rounds - 1 /\ n[2] \in 1..2^n[1]
         /\ n[2] \in Nat \ {0} /\ n[2] < 1000
         /\ n = <<n[1], n[2]>>
  <1>1. PICK d \in 0..Rounds - 1 : n \in {d} \X (1..2^d)
    BY DEF Nodes
  <1>2. 2^d \in 1..999
    BY BracketAssumption
  <1> QED BY <1>1, <1>2

LEMMA RowsStart == BracketInit => RowsInTree
  BY DEF BracketInit, RowsInTree

LEMMA RowsStep == RowsInTree /\ [BracketNext]_bracketVars => RowsInTree'
  <1> SUFFICES ASSUME RowsInTree, [BracketNext]_bracketVars PROVE RowsInTree'
    OBVIOUS
  <1>1. ASSUME NEW n \in Nodes, Import(n) PROVE RowsInTree'
    BY <1>1 DEF RowsInTree, Import
  <1>2. ASSUME NEW n \in Nodes, NEW w \in 1..2, Finish(n, w) PROVE RowsInTree'
    BY <1>2 DEF RowsInTree, Finish
  <1>3. CASE NextDay
    BY <1>3 DEF RowsInTree, NextDay
  <1>4. CASE UNCHANGED bracketVars
    BY <1>4 DEF RowsInTree, bracketVars
  <1> QED BY <1>1, <1>2, <1>3, <1>4 DEF BracketNext

-----------------------------------------------------------------------------
(* The column the slice begins with, and what stands in it.                *)
LEMMA FirstColumnOfSlice ==
  ASSUME RowsInTree
  PROVE  /\ FirstColumn(RelevantFollowed) \in 1..Rounds - 1
         /\ \A f \in RelevantFollowed : f.node \in Nodes
  <1> DEFINE depths == {1} \cup {f.node[1] : f \in RelevantFollowed}
  <1>1. Rounds \in Nat /\ Rounds > 1
    BY BracketAssumption
  <1>2. \A p, n : Focus(p, n).node = n
    BY DEF Focus
  <1>3. \A f \in RelevantFollowed : f.node \in Nodes
    BY <1>2 DEF RelevantFollowed, Foci, Latest, RowsInTree
  <1>4. \A f \in RelevantFollowed : f.node[1] \in 0..Rounds - 1
    BY <1>3, NodeParts
  <1>5. depths \in SUBSET ((-1)..Rounds) /\ depths # {} /\ 1 \in depths
    BY <1>1, <1>4
  <1>6. Max(depths) \in depths /\ \A d \in depths : d <= Max(depths)
    BY <1>1, <1>5, MaxOfBounded
  <1>7. Max(depths) \in 1..Rounds - 1
    BY <1>1, <1>4, <1>5, <1>6
  <1> QED BY <1>3, <1>7 DEF FirstColumn

(* A group is what feeds one match, and the groups shown feed one node.    *)
LEMMA GroupParts ==
  ASSUME NEW column, NEW d, NEW g \in Chosen(Groups(column, d))
  PROVE  /\ g.keys \subseteq column
         /\ g.next \in {ParentPos(pos) : pos \in column}
         /\ \A pos \in g.keys : ParentPos(pos) = g.next
         /\ ParentPos(g.next) = ParentPos(Foremost(Groups(column, d)).next)
  <1>1. g \in Groups(column, d)
    BY DEF Chosen
  <1>2. PICK p \in {ParentPos(pos) : pos \in column} :
          g = Group({pos \in column : ParentPos(pos) = p}, p, d)
    BY <1>1 DEF Groups
  <1>3. g.keys = {pos \in column : ParentPos(pos) = p} /\ g.next = p
    BY <1>2 DEF Group
  <1> QED BY <1>2, <1>3 DEF Chosen

LEMMA ColumnPositions ==
  ASSUME RowsInTree
  PROVE  LET d == FirstColumn(RelevantFollowed)
             column == WithSiblings(FocusPositions(RelevantFollowed, d), d)
         IN  /\ column \subseteq Nat \ {0}
             /\ d = 1 => \A pos \in column : ParentPos(pos) = 1
  <1> DEFINE d == FirstColumn(RelevantFollowed)
             positions == FocusPositions(RelevantFollowed, d)
             column == WithSiblings(positions, d)
  <1>1. positions \subseteq Nat \ {0}
    BY FirstColumnOfSlice, NodeParts DEF FocusPositions
  <1>2. column \subseteq Nat \ {0}
    BY <1>1, Siblings DEF WithSiblings
  <1>3. ASSUME d = 1 PROVE \A pos \in column : ParentPos(pos) = 1
    <2>1. 2^1 = 2
      OBVIOUS
    <2>2. \A n \in Nodes : n[1] = 1 => n[2] \in 1..2
      <3> TAKE n \in Nodes
      <3>1. n[2] \in 1..2^n[1]
        BY NodeParts
      <3> QED BY <2>1, <3>1
    <2>3. positions \subseteq 1..2
      BY <1>3, <2>2, FirstColumnOfSlice DEF FocusPositions
    <2>4. \A pos \in 1..2 : ParentPos(pos) = 1
      BY DEF ParentPos
    <2>5. \A pos \in positions : ParentPos(pos) = 1 /\ ParentPos(SiblingPos(pos)) = 1
      BY <1>1, <2>3, <2>4, Siblings
    <2> QED BY <2>5 DEF WithSiblings
  <1> QED BY <1>2, <1>3

(* The slice that is drawn is a piece of the tree: no bracket joins boxes  *)
(* that do not meet, in a draw of any size (BuildBracketSlice).            *)
THEOREM SlicesAreTrees == BracketSpec => []SliceIsTree
  <1>1. RowsInTree => SliceIsTree
    <2> DEFINE focus == RelevantFollowed
               d == FirstColumn(focus)
               column == WithSiblings(FocusPositions(focus, d), d)
               chosen == Chosen(Groups(column, d))
               slice == SliceOf(focus, d, chosen)
               nexts == {g.next : g \in chosen}
    <2> SUFFICES ASSUME RowsInTree, NEW n \in slice.boxes
                 PROVE  \/ n[1] = slice.first /\ Parent(n) \in slice.boxes
                        \/ /\ n[1] = slice.first - 1
                           /\ n = Final \/ Parent(n) = slice.end
      BY DEF SliceIsTree, BuildBracketSlice
    <2>1. /\ slice.first = d /\ slice.end = EndNode(d, chosen)
          /\ slice.boxes = ({d} \X UNION {g.keys : g \in chosen}) \cup ({d - 1} \X nexts)
      BY DEF SliceOf
    <2>2. d \in 1..Rounds - 1 /\ Rounds \in Nat
      BY FirstColumnOfSlice, BracketAssumption
    <2>3. column \subseteq Nat \ {0} /\ (d = 1 => \A pos \in column : ParentPos(pos) = 1)
      BY ColumnPositions
    <2>4. \A g \in chosen : /\ g.keys \subseteq column
                            /\ g.next \in {ParentPos(pos) : pos \in column}
                            /\ \A pos \in g.keys : ParentPos(pos) = g.next
                            /\ ParentPos(g.next) = ParentPos(Foremost(Groups(column, d)).next)
      BY GroupParts
    <2> HIDE DEF d, column, chosen, slice, focus
    <2>5. CASE n \in {d} \X UNION {g.keys : g \in chosen}
      <3>1. PICK g \in chosen : n[1] = d /\ n[2] \in g.keys
        BY <2>5
      <3>2. Parent(n) = <<d - 1, g.next>>
        BY <2>4, <3>1 DEF Parent
      <3> QED BY <2>1, <3>1, <3>2
    <2>6. CASE n \in {d - 1} \X nexts
      <3>1. PICK g \in chosen : n = <<d - 1, g.next>>
        BY <2>6
      <3>2. CASE d = 1
        BY <2>1, <2>3, <2>4, <3>1, <3>2 DEF Final
      <3>3. CASE d # 1
        <4>1. nexts \in SUBSET (Nat \ {0}) /\ g.next \in nexts
          BY <2>3, <2>4, Siblings
        <4>2. \A x, y \in nexts : ParentPos(x) = ParentPos(y)
          BY <2>4
        <4>3. Min(nexts) \in nexts
          BY <4>1, <4>2, MinOfPair
        <4>4. ParentPos(Min(nexts)) = ParentPos(g.next)
          BY <4>1, <4>2, <4>3
        <4>5. EndNode(d, chosen) = <<d - 2, ParentPos(g.next)>>
          BY <3>3, <4>4 DEF EndNode
        <4>6. Parent(n) = <<d - 2, ParentPos(g.next)>> /\ n[1] = d - 1
          BY <2>2, <3>1 DEF Parent
        <4> QED BY <2>1, <4>5, <4>6
      <3> QED BY <3>2, <3>3
    <2> QED BY <2>1, <2>5, <2>6
  <1> QED BY RowsStart, RowsStep, <1>1, PTL DEF BracketSpec

-----------------------------------------------------------------------------
(* The way of a player through the tree.  The rounds are few (a round has  *)
(* less than a thousand matches), so that the powers of two are known.     *)
LEMMA Powers ==
  /\ Rounds \in 2..10
  /\ \A k \in 0..Rounds : 2^k \in Nat \ {0}
  /\ \A k \in 0..Rounds - 1 : 2^(k + 1) = 2 * 2^k
  <1>1. Rounds \in Nat /\ Rounds > 1 /\ \A d \in 0..Rounds - 1 : 2^d \in 1..999
    BY BracketAssumption
  <1>2. 2^10 = 1024
    OBVIOUS
  <1>3. Rounds \in 2..10
    <2>1. ~(10 \in 0..Rounds - 1)
      <3> SUFFICES ASSUME NEW d \in 0..Rounds - 1, d = 10 PROVE FALSE
        OBVIOUS
      <3>1. 2^d \in 1..999
        BY <1>1
      <3>2. 2^d = 1024
        BY <1>2
      <3> QED BY <3>1, <3>2
    <2> QED BY <1>1, <2>1
  <1>4. /\ 2^0 = 1 /\ 2^1 = 2 /\ 2^2 = 4 /\ 2^3 = 8 /\ 2^4 = 16 /\ 2^5 = 32
        /\ 2^6 = 64 /\ 2^7 = 128 /\ 2^8 = 256 /\ 2^9 = 512
    OBVIOUS
  <1>6. \A k \in 0..9 : 2^(k + 1) = 2 * 2^k
    <2> SUFFICES ASSUME NEW k \in 0..9 PROVE 2^(k + 1) = 2 * 2^k
      OBVIOUS
    <2>1. CASE k = 0
      BY <1>4, <2>1
    <2>2. CASE k = 1
      BY <1>4, <2>2
    <2>3. CASE k = 2
      BY <1>4, <2>3
    <2>4. CASE k = 3
      BY <1>4, <2>4
    <2>5. CASE k = 4
      BY <1>4, <2>5
    <2>6. CASE k = 5
      BY <1>4, <2>6
    <2>7. CASE k = 6
      BY <1>4, <2>7
    <2>8. CASE k = 7
      BY <1>4, <2>8
    <2>9. CASE k = 8
      BY <1>4, <2>9
    <2>10. CASE k = 9
      BY <1>2, <1>4, <2>10
    <2> QED BY <2>1, <2>2, <2>3, <2>4, <2>5, <2>6, <2>7, <2>8, <2>9, <2>10
  <1>7. \A k \in 0..Rounds - 1 : k \in 0..9 /\ k \in Nat
    BY <1>3
  <1>8. \A k \in 0..Rounds - 1 : 2^k \in Nat \ {0} /\ 2^(k + 1) = 2 * 2^k
    <2> TAKE k \in 0..Rounds - 1
    <2>1. 2^k \in 1..999
      BY <1>1
    <2>2. 2^(k + 1) = 2 * 2^k
      BY <1>6, <1>7
    <2> QED BY <2>1, <2>2
  <1>9. 2^Rounds \in Nat \ {0}
    <2> DEFINE k == Rounds - 1
    <2>1. k \in 0..Rounds - 1 /\ Rounds = k + 1
      BY <1>3
    <2> HIDE DEF k
    <2>2. 2^k \in Nat \ {0} /\ 2^(k + 1) = 2 * 2^k
      BY <1>8, <2>1
    <2>3. 2^(k + 1) \in Nat \ {0}
      BY <2>2
    <2> QED BY <2>1, <2>3
  <1>10. \A k \in 0..Rounds : k \in 0..Rounds - 1 \/ k = Rounds
    BY <1>3
  <1>11. \A k \in 0..Rounds : 2^k \in Nat \ {0}
    <2> TAKE k \in 0..Rounds
    <2>1. CASE k \in 0..Rounds - 1
      BY <1>8, <2>1
    <2>2. CASE k = Rounds
      BY <1>9, <2>2
    <2> QED BY <1>10, <2>1, <2>2
  <1>12. \A k \in 0..Rounds - 1 : 2^(k + 1) = 2 * 2^k
    BY <1>8
  <1> QED BY <1>3, <1>11, <1>12

LEMMA DrawParts ==
  ASSUME draw \in Draws
  PROVE  /\ draw.seat \in [Followed -> 1..2^Rounds]
         /\ \A p, q \in Followed : p # q => draw.seat[p] # draw.seat[q]
         /\ \A d \in 0..Rounds - 1 : draw.day[d] \in 0..NoTime
         /\ \A p, q \in Followed :
              p # q /\ ParentPos(draw.seat[p]) \in draw.byes
                => ParentPos(draw.seat[p]) # ParentPos(draw.seat[q])
         /\ Nobody \notin Followed /\ Other \notin Followed /\ Other # Nobody
  BY BracketAssumption DEF Someone, ParentPos

LEMMA SeatPath ==
  ASSUME draw \in Draws, NEW p \in Followed, NEW d \in 0..Rounds - 1
  PROVE  /\ NodeAt(p, d)[1] = d /\ NodeAt(p, d)[2] \in Nat \ {0}
         /\ d > 0 => Parent(NodeAt(p, d)) = NodeAt(p, d - 1)
  <1> DEFINE a == draw.seat[p] - 1
             k == Rounds - d
  <1>1. a \in Nat
    <2>1. 2^Rounds \in Nat
      BY Powers
    <2>2. draw.seat[p] \in 1..2^Rounds
      BY DrawParts
    <2> QED BY <2>1, <2>2
  <1>2. k \in 0..Rounds /\ Rounds \in Nat /\ d \in Nat
    BY Powers
  <1>3. NodeAt(p, d) = <<d, a \div 2^k + 1>>
    BY DEF NodeAt
  <1>4. 2^k \in Nat \ {0}
    BY <1>2, Powers
  <1> HIDE DEF a
  <1>5. a \div 2^k \in Nat
    BY <1>1, <1>4
  <1>6. ASSUME d > 0
        PROVE  Parent(NodeAt(p, d)) = NodeAt(p, d - 1)
    <2>1. k \in 0..Rounds - 1 /\ Rounds - (d - 1) = k + 1
      BY <1>2, <1>6
    <2>2. 2^(k + 1) = 2 * 2^k
      BY <2>1, Powers
    <2>3. NodeAt(p, d - 1) = <<d - 1, a \div 2^(k + 1) + 1>>
      BY <2>1 DEF NodeAt, a
    <2> HIDE DEF k
    <2>4. ParentPos(a \div 2^k + 1) = (a \div 2^k) \div 2 + 1
      BY <1>5 DEF ParentPos
    <2>5. (a \div 2^k) \div 2 = a \div (2 * 2^k)
      BY <1>1, <1>4
    <2> QED BY <1>3, <2>2, <2>3, <2>4, <2>5 DEF Parent
  <1> QED BY <1>3, <1>5, <1>6

LEMMA Feeders ==
  ASSUME NEW n \in Nodes, n[1] < Rounds - 1, NEW i \in 1..2
  PROVE  /\ Feeder(n, i) \in Nodes /\ Parent(Feeder(n, i)) = n
         /\ Feeder(n, i)[1] = n[1] + 1
  <1>1. /\ n[1] \in 0..Rounds - 1 /\ n[2] \in 1..2^n[1] /\ n[2] \in Nat \ {0}
        /\ n = <<n[1], n[2]>> /\ Rounds \in Nat
    BY NodeParts, Powers
  <1>2. /\ n[1] + 1 \in 0..Rounds - 1 /\ 2^(n[1] + 1) = 2 * 2^n[1] /\ 2^n[1] \in Nat
        /\ n[1] + 1 - 1 = n[1]
    <2>1. n[1] + 1 \in 0..Rounds - 1 /\ n[1] + 1 - 1 = n[1] /\ n[1] \in 0..Rounds
      BY <1>1
    <2>2. 2^(n[1] + 1) = 2 * 2^n[1] /\ 2^n[1] \in Nat \ {0}
      BY <1>1, <2>1, Powers
    <2> QED BY <2>1, <2>2
  <1>3. 2 * n[2] - 2 + i \in 1..2^(n[1] + 1)
    BY <1>1, <1>2
  <1>4. ParentPos(2 * n[2] - 2 + i) = n[2]
    <2>1. CASE i = 1
      BY <1>1, <2>1 DEF ParentPos
    <2>2. CASE i = 2
      BY <1>1, <2>2 DEF ParentPos
    <2> QED BY <2>1, <2>2
  <1>5. Feeder(n, i) = <<n[1] + 1, 2 * n[2] - 2 + i>>
    BY DEF Feeder
  <1>6. Parent(Feeder(n, i)) = n
    BY <1>1, <1>2, <1>4, <1>5 DEF Parent
  <1> QED BY <1>2, <1>3, <1>5, <1>6 DEF Nodes

(* Every node but the final is one of the two that feed its parent.        *)
LEMMA FeedsParent ==
  ASSUME NEW n \in Nodes, n[1] > 0
  PROVE  /\ Parent(n) \in Nodes /\ Parent(n)[1] = n[1] - 1
         /\ \E i \in 1..2 : n = Feeder(Parent(n), i)
  <1>1. /\ n[1] \in 0..Rounds - 1 /\ n[2] \in 1..2^n[1] /\ n[2] \in Nat \ {0}
        /\ n = <<n[1], n[2]>> /\ Rounds \in Nat
    BY NodeParts, Powers
  <1> DEFINE k == n[1] - 1
             pos == ParentPos(n[2])
  <1>2. k \in 0..Rounds - 1 /\ k + 1 = n[1] /\ 2^(k + 1) = 2 * 2^k /\ 2^k \in Nat
    <2>1. k \in 0..Rounds - 1 /\ k \in 0..Rounds /\ k + 1 = n[1]
      BY <1>1
    <2> HIDE DEF k
    <2> QED BY <2>1, Powers
  <1>3. pos \in Nat \ {0} /\ n[2] \in {2 * pos - 1, 2 * pos}
    BY <1>1, Siblings
  <1>4. Parent(n) = <<k, pos>>
    BY DEF Parent
  <1> HIDE DEF k, pos
  <1>5. pos \in 1..2^k
    BY <1>1, <1>2, <1>3
  <1>6. Parent(n) \in Nodes
    BY <1>2, <1>4, <1>5 DEF Nodes
  <1>7. Feeder(Parent(n), 1) = <<k + 1, 2 * pos - 2 + 1>>
        /\ Feeder(Parent(n), 2) = <<k + 1, 2 * pos - 2 + 2>>
    BY <1>4 DEF Feeder
  <1>8. 2 * pos - 2 + 1 = 2 * pos - 1 /\ 2 * pos - 2 + 2 = 2 * pos
    BY <1>3
  <1>9. n = Feeder(Parent(n), 1) \/ n = Feeder(Parent(n), 2)
    BY <1>1, <1>2, <1>3, <1>7, <1>8
  <1> QED BY <1>4, <1>6, <1>9 DEF k

-----------------------------------------------------------------------------
(* What the import and the results keep true of the rows.                  *)

(* The rows that are there are matches that can be played.                 *)
RowsAreMatches ==
  \A n \in DOMAIN rows : rows[n] \in NodeRow /\ Reachable(n) /\ ~Bye(n)

(* A side that is known came from where the tree has it come from.         *)
SidesCame ==
  \A n \in DOMAIN rows, i \in 1..2 : Side(n, i) = Nobody \/ Side(n, i) \in Comers(n, i)

(* A follow stands on his way to the final and has won all that lies behind*)
(* him, his bye aside.                                                     *)
Passed(p, n) ==
  \A d \in n[1] + 1..Rounds - 1 : Bye(NodeAt(p, d)) \/ Winner(NodeAt(p, d)) = p

OnTheirWay ==
  \A n \in DOMAIN rows, p \in Followed :
    HasPlayer(n, p) => NodeAt(p, n[1]) = n /\ Passed(p, n)

(* Who is drawn stands there from the first day.                           *)
DrawnStand ==
  \A n \in Nodes, i \in 1..2 :
    Reachable(n) /\ ~Bye(n) /\ Drawn(n, i) # Nobody => HasRow(n) /\ Side(n, i) = Drawn(n, i)

(* A match is played by two, and not before its day.                       *)
PlayedInTime ==
  \A n \in DOMAIN rows :
    Completed(n) => /\ \A i \in 1..2 : Side(n, i) # Nobody
                    /\ At(n) = NoTime \/ At(n) <= today

TreeInv ==
  /\ RowsInTree /\ today \in 0..MaxDay
  /\ RowsAreMatches /\ SidesCame /\ OnTheirWay /\ DrawnStand /\ PlayedInTime

(* Who is drawn into a side has passed nothing but his bye.                *)
LEMMA DrawnIsOnHisWay ==
  ASSUME draw \in Draws, NEW n \in Nodes, NEW i \in 1..2, NEW p \in Followed,
         Drawn(n, i) = p
  PROVE  NodeAt(p, n[1]) = n /\ Passed(p, n)
  <1>1. /\ n[1] \in 0..Rounds - 1 /\ n[2] \in Nat \ {0} /\ n = <<n[1], n[2]>>
        /\ Rounds \in Nat /\ Rounds > 1
    BY NodeParts, Powers
  <1>2. Nobody \notin Followed /\ Other \notin Followed
    BY DrawParts
  <1>3. CASE n[1] = Rounds - 1
    <2> DEFINE seat == 2 * n[2] - 2 + i
    <2>1. Entrant(seat) = p
      BY <1>3 DEF Drawn
    <2>2. draw.seat[p] = seat
      <3>1. \E q \in Followed : draw.seat[q] = seat
        BY <1>2, <2>1 DEF Entrant
      <3> HIDE DEF seat
      <3> QED BY <2>1, <3>1 DEF Entrant
    <2>3. Rounds - n[1] = 1 /\ 2^1 = 2
      BY <1>1, <1>3
    <2>4. (seat - 1) \div 2 + 1 = n[2]
      <3>1. CASE i = 1
        BY <1>1, <3>1
      <3>2. CASE i = 2
        BY <1>1, <3>2
      <3> QED BY <3>1, <3>2
    <2>5. NodeAt(p, n[1]) = <<n[1], (seat - 1) \div 2 + 1>>
      BY <2>2, <2>3 DEF NodeAt
    <2>6. n[1] + 1..Rounds - 1 = {}
      BY <1>1, <1>3
    <2> HIDE DEF seat
    <2> QED BY <1>1, <2>4, <2>5, <2>6 DEF Passed
  <1>4. CASE n[1] # Rounds - 1
    <2> DEFINE spared == {q \in Followed : NodeAt(q, Rounds - 1) = Feeder(n, i)}
    <2>1. Bye(Feeder(n, i)) /\ spared # {} /\ p = CHOOSE q \in spared : TRUE
      BY <1>2, <1>4 DEF Drawn
    <2>2. p \in spared
      <3> HIDE DEF spared
      <3> QED BY <2>1
    <2>3. NodeAt(p, Rounds - 1) = Feeder(n, i) /\ Feeder(n, i)[1] = Rounds - 1
      BY <2>1, <2>2 DEF Bye
    <2>4. n[1] < Rounds - 1
      BY <1>1, <1>4
    <2>5. Parent(Feeder(n, i)) = n /\ Feeder(n, i)[1] = n[1] + 1
      BY <2>4, Feeders
    <2>6. Rounds - 1 - 1 = n[1] /\ Rounds - 1 \in 0..Rounds - 1 /\ Rounds - 1 > 0
      BY <1>1, <2>3, <2>5
    <2>7. NodeAt(p, n[1]) = n
      BY <2>3, <2>5, <2>6, SeatPath
    <2>8. n[1] + 1..Rounds - 1 = {Rounds - 1}
      BY <1>1, <2>6
    <2> QED BY <2>1, <2>3, <2>7, <2>8 DEF Passed
  <1> QED BY <1>3, <1>4

(* Who comes into a side, drawn or by winning, is on his way.              *)
LEMMA ComerIsOnHisWay ==
  ASSUME RowsInTree, RowsAreMatches, OnTheirWay,
         NEW n \in Nodes, NEW i \in 1..2, NEW p \in Followed, p \in Comers(n, i)
  PROVE  NodeAt(p, n[1]) = n /\ Passed(p, n)
  <1>1. /\ n[1] \in 0..Rounds - 1 /\ n = <<n[1], n[2]>> /\ Rounds \in Nat
        /\ draw \in Draws
    BY NodeParts, Powers DEF RowsInTree
  <1>2. Nobody \notin Followed /\ Other \notin Followed
    BY <1>1, DrawParts
  <1>3. CASE Drawn(n, i) # Nobody
    <2>1. Drawn(n, i) = p
      BY <1>3 DEF Comers
    <2> QED BY <1>1, <2>1, DrawnIsOnHisWay
  <1>4. CASE Drawn(n, i) = Nobody
    <2> DEFINE o == Feeder(n, i)
    <2>1. Winner(o) = p
      BY <1>2, <1>4 DEF Comers
    <2>2. HasRow(o) /\ rows[o].winner \in 1..2 /\ Side(o, rows[o].winner) = p
      <3>1. Completed(o) /\ Winner(o) = Side(o, rows[o].winner)
        BY <1>2, <2>1 DEF Winner
      <3>2. HasRow(o) /\ rows[o].winner # 0
        BY <3>1 DEF Completed
      <3>3. rows[o].winner \in 0..2
        BY <3>2 DEF RowsAreMatches, NodeRow, HasRow
      <3> QED BY <2>1, <3>1, <3>2, <3>3
    <2>3. HasPlayer(o, p) /\ o \in DOMAIN rows
      BY <2>2 DEF HasPlayer, HasRow
    <2>4. NodeAt(p, o[1]) = o /\ Passed(p, o)
      BY <2>3 DEF OnTheirWay
    <2>5. o[1] = n[1] + 1
      BY DEF Feeder
    <2>6. n[1] + 1 \in 0..Rounds - 1 /\ n[1] + 1 > 0 /\ n[1] + 1 - 1 = n[1]
      <3>1. o \in Nodes
        BY <2>3 DEF RowsInTree
      <3>2. o[1] \in 0..Rounds - 1
        BY <3>1, NodeParts
      <3> HIDE DEF o
      <3> QED BY <1>1, <2>5, <3>2
    <2>7. n[1] < Rounds - 1
      BY <1>1, <2>6
    <2>8. Parent(o) = n
      BY <2>7, Feeders
    <2>9. NodeAt(p, n[1]) = n
      <3> HIDE DEF o
      <3> QED BY <1>1, <2>4, <2>5, <2>6, <2>8, SeatPath
    <2>10. Passed(p, n)
      <3> HIDE DEF o
      <3>1. \A d \in n[1] + 1..Rounds - 1 : d = n[1] + 1 \/ d \in o[1] + 1..Rounds - 1
        BY <1>1, <2>5
      <3>2. NodeAt(p, n[1] + 1) = o
        BY <2>4, <2>5
      <3> QED BY <2>1, <2>4, <3>1, <3>2 DEF Passed
    <2> QED BY <2>9, <2>10
  <1> QED BY <1>3, <1>4

(* Nothing of the draw changes.                                            *)
LEMMA SameDraw ==
  ASSUME draw' = draw
  PROVE  /\ \A p, d : NodeAt(p, d)' = NodeAt(p, d)
         /\ \A n : Reachable(n)' = Reachable(n) /\ Bye(n)' = Bye(n) /\ At(n)' = At(n)
         /\ \A n, i : Drawn(n, i)' = Drawn(n, i)
  <1>1. \A p, d : NodeAt(p, d)' = NodeAt(p, d)
    BY DEF NodeAt
  <1>2. \A n : Reachable(n)' = Reachable(n) /\ Bye(n)' = Bye(n) /\ At(n)' = At(n)
    BY DEF Reachable, NodeAt, Bye, At
  <1>3. \A n, i : Drawn(n, i)' = Drawn(n, i)
    BY DEF Drawn, NodeAt, Entrant, Bye, Feeder
  <1> QED BY <1>1, <1>2, <1>3

LEMMA WinnerIsSide ==
  ASSUME RowsAreMatches, PlayedInTime, NEW n
  PROVE  /\ Completed(n) => /\ rows[n].winner \in 1..2 /\ n \in DOMAIN rows
                            /\ Winner(n) = Side(n, rows[n].winner)
                            /\ Winner(n) # Nobody /\ HasPlayer(n, Winner(n))
         /\ ~Completed(n) => Winner(n) = Nobody
  <1>1. ASSUME Completed(n)
        PROVE  /\ rows[n].winner \in 1..2 /\ n \in DOMAIN rows
               /\ Winner(n) = Side(n, rows[n].winner)
               /\ Winner(n) # Nobody /\ HasPlayer(n, Winner(n))
    <2>1. HasRow(n) /\ n \in DOMAIN rows /\ rows[n].winner # 0
      BY <1>1 DEF Completed, HasRow
    <2>2. rows[n].winner \in 1..2
      BY <2>1 DEF RowsAreMatches, NodeRow
    <2>3. Winner(n) = Side(n, rows[n].winner)
      BY <1>1 DEF Winner
    <2>4. Winner(n) # Nobody
      BY <1>1, <2>1, <2>2, <2>3 DEF PlayedInTime
    <2> QED BY <2>1, <2>2, <2>3, <2>4 DEF HasPlayer
  <1> QED BY <1>1 DEF Winner

(* What a step leaves: the rows and the sides that are known, and whoever  *)
(* has won.                                                                *)
Grows ==
  /\ draw' = draw
  /\ DOMAIN rows \subseteq DOMAIN rows'
  /\ \A n \in DOMAIN rows, i \in 1..2 : Side(n, i) # Nobody => Side(n, i)' = Side(n, i)
  /\ \A n : Winner(n) # Nobody => Winner(n)' = Winner(n)

LEMMA ComersStay ==
  ASSUME Grows, NEW n, NEW i \in 1..2, NEW x, x # Nobody, x \in Comers(n, i)
  PROVE  x \in Comers(n, i)'
  <1>1. /\ Drawn(n, i)' = Drawn(n, i) /\ Feeder(n, i)' = Feeder(n, i)
        /\ Reachable(Feeder(n, i))' = Reachable(Feeder(n, i))
    BY SameDraw DEF Grows, Feeder
  <1>2. CASE Drawn(n, i) # Nobody
    BY <1>1, <1>2 DEF Comers
  <1>3. CASE Drawn(n, i) = Nobody /\ Reachable(Feeder(n, i))
    <2>1. Winner(Feeder(n, i)) = x
      BY <1>3 DEF Comers
    <2>2. Winner(Feeder(n, i))' = x
      BY <2>1 DEF Grows, Feeder
    <2> QED BY <1>1, <1>3, <2>2 DEF Comers
  <1>4. CASE Drawn(n, i) = Nobody /\ ~Reachable(Feeder(n, i))
    BY <1>1, <1>4 DEF Comers
  <1> QED BY <1>2, <1>3, <1>4

LEMMA WayStays ==
  ASSUME Grows, Nobody \notin Followed, NEW p \in Followed, NEW n,
         NodeAt(p, n[1]) = n /\ Passed(p, n)
  PROVE  (NodeAt(p, n[1]) = n /\ Passed(p, n))'
  <1>1. NodeAt(p, n[1])' = NodeAt(p, n[1])
    BY SameDraw DEF Grows
  <1>2. ASSUME NEW d \in n[1] + 1..Rounds - 1
        PROVE  (Bye(NodeAt(p, d)) \/ Winner(NodeAt(p, d)) = p)'
    <2>1. NodeAt(p, d)' = NodeAt(p, d) /\ Bye(NodeAt(p, d))' = Bye(NodeAt(p, d))
      BY DEF Grows, NodeAt, Bye
    <2>2. CASE Bye(NodeAt(p, d))
      BY <2>1, <2>2
    <2>3. CASE Winner(NodeAt(p, d)) = p
      <3> DEFINE m == NodeAt(p, d)
      <3>1. Winner(m) # Nobody
        BY <2>3
      <3>2. \A o : Winner(o) # Nobody => Winner(o)' = Winner(o)
        BY DEF Grows
      <3>3. NodeAt(p, d)' = m
        BY <2>1
      <3>4. Winner(NodeAt(p, d))' = Winner(NodeAt(p, d))
        BY <3>1, <3>2 DEF Grows, NodeAt
      <3> QED BY <2>3, <3>4
    <2> QED BY <1>2, <2>2, <2>3 DEF Passed
  <1>3. Passed(p, n)'
    BY <1>2 DEF Passed
  <1> QED BY <1>1, <1>3

(* If every side that is known comes from where it should, the tree keeps. *)
LEMMA TreeKeeps ==
  ASSUME TreeInv, Grows, DOMAIN rows' \subseteq Nodes,
         \A n \in DOMAIN rows' : rows'[n] \in NodeRow /\ Reachable(n) /\ ~Bye(n),
         \A n \in DOMAIN rows', i \in 1..2 :
           Side(n, i)' = Nobody \/ Side(n, i)' \in Comers(n, i)
  PROVE  RowsInTree' /\ RowsAreMatches' /\ SidesCame' /\ OnTheirWay' /\ DrawnStand'
  <1>1. /\ RowsInTree /\ RowsAreMatches /\ OnTheirWay /\ DrawnStand
        /\ draw' = draw /\ Nobody \notin Followed
    BY DrawParts DEF TreeInv, RowsInTree, Grows
  <1>2. RowsInTree'
    BY <1>1 DEF RowsInTree, Nodes
  <1>3. RowsAreMatches'
    BY <1>1, SameDraw DEF RowsAreMatches, NodeRow, Someone
  <1>4. SidesCame'
    <2> SUFFICES ASSUME NEW n \in DOMAIN rows', NEW i \in 1..2, Side(n, i)' # Nobody
                 PROVE  Side(n, i)' \in Comers(n, i)'
      BY DEF SidesCame
    <2> DEFINE x == Side(n, i)'
    <2>1. x \in Comers(n, i) /\ x # Nobody
      OBVIOUS
    <2> HIDE DEF x
    <2>2. x \in Comers(n, i)'
      BY <2>1, ComersStay
    <2> QED BY <2>2 DEF x
  <1>5. OnTheirWay'
    <2> SUFFICES ASSUME NEW n \in DOMAIN rows', NEW p \in Followed, HasPlayer(n, p)'
                 PROVE  (NodeAt(p, n[1]) = n /\ Passed(p, n))'
      BY DEF OnTheirWay
    <2>1. PICK i \in 1..2 : Side(n, i)' = p
      BY DEF HasPlayer
    <2>2. p \in Comers(n, i)
      BY <1>1, <2>1
    <2>3. NodeAt(p, n[1]) = n /\ Passed(p, n)
      BY <1>1, <2>2, ComerIsOnHisWay
    <2> QED BY <1>1, <2>3, WayStays
  <1>6. DrawnStand'
    <2> SUFFICES ASSUME NEW n \in Nodes, NEW i \in 1..2, Reachable(n)', ~Bye(n)',
                        Drawn(n, i)' # Nobody
                 PROVE  HasRow(n)' /\ Side(n, i)' = Drawn(n, i)'
      BY DEF DrawnStand, Nodes
    <2>1. Reachable(n) /\ ~Bye(n) /\ Drawn(n, i)' = Drawn(n, i) /\ Drawn(n, i) # Nobody
      BY <1>1, SameDraw
    <2>2. HasRow(n) /\ Side(n, i) = Drawn(n, i)
      BY <1>1, <2>1 DEF DrawnStand
    <2>3. n \in DOMAIN rows /\ Side(n, i)' = Side(n, i)
      BY <2>1, <2>2 DEF HasRow, Grows
    <2> QED BY <2>1, <2>2, <2>3 DEF HasRow, Grows
  <1> QED BY <1>2, <1>3, <1>4, <1>5, <1>6

LEMMA ImportGrows ==
  ASSUME TreeInv, NEW n \in Nodes, Import(n)
  PROVE  /\ TreeInv' /\ Grows /\ UNCHANGED <<draw, today>>
         /\ \A m : Winner(m)' = Winner(m) /\ (Completed(m)' <=> Completed(m))
         /\ \A m, p : m # n => (HasPlayer(m, p)' <=> HasPlayer(m, p))
  <1>1. PICK x \in Comers(n, 1), y \in Comers(n, 2) :
          /\ HasRow(n) => Side(n, 1) \in {Nobody, x} /\ Side(n, 2) \in {Nobody, y}
          /\ rows' = [m \in DOMAIN rows \cup {n} |->
                        IF m = n THEN [sides |-> <<x, y>>, winner |-> 0] ELSE rows[m]]
    BY DEF Import
  <1>2. /\ Reachable(n) /\ ~Bye(n) /\ ~Completed(n) /\ UNCHANGED <<draw, today>>
        /\ RowsInTree /\ RowsAreMatches /\ PlayedInTime /\ SidesCame
    BY DEF Import, TreeInv
  <1>3. DOMAIN rows' = DOMAIN rows \cup {n} /\ rows'[n] = [sides |-> <<x, y>>, winner |-> 0]
        /\ \A m \in DOMAIN rows : m # n => rows'[m] = rows[m]
    BY <1>1
  <1>4. \A m : Completed(m)' <=> Completed(m)
    BY <1>2, <1>3 DEF Completed, HasRow
  <1>5. \A m : Winner(m)' = Winner(m)
    <2> TAKE m
    <2>1. CASE ~Completed(m)
      BY <1>4, <2>1 DEF Winner
    <2>2. CASE Completed(m)
      <3>1. m # n /\ m \in DOMAIN rows
        BY <1>2, <2>2 DEF Completed, HasRow
      <3> QED BY <1>3, <1>4, <3>1 DEF Winner, Side
    <2> QED BY <2>1, <2>2
  <1>6. Side(n, 1)' = x /\ Side(n, 2)' = y
        /\ \A m \in DOMAIN rows, i \in 1..2 : m # n => Side(m, i)' = Side(m, i)
    BY <1>3 DEF Side
  <1>7. Grows
    <2>1. ASSUME NEW m \in DOMAIN rows, NEW i \in 1..2, Side(m, i) # Nobody
          PROVE  Side(m, i)' = Side(m, i)
      <3>1. CASE m = n
        <4>1. Side(n, 1) \in {Nobody, x} /\ Side(n, 2) \in {Nobody, y}
          BY <1>1, <2>1, <3>1 DEF HasRow
        <4>2. CASE i = 1
          BY <1>6, <2>1, <3>1, <4>1, <4>2
        <4>3. CASE i = 2
          BY <1>6, <2>1, <3>1, <4>1, <4>3
        <4> QED BY <4>2, <4>3
      <3> QED BY <1>6, <2>1, <3>1
    <2> QED BY <1>2, <1>3, <1>5, <2>1 DEF Grows
  <1>8. x \in Someone \cup {Nobody} /\ y \in Someone \cup {Nobody}
    <2>1. \A m : Winner(m) \in Someone \cup {Nobody}
      <3> TAKE m
      <3>1. CASE ~Completed(m)
        BY <3>1 DEF Winner
      <3>2. CASE Completed(m)
        <4>1. m \in DOMAIN rows /\ rows[m].winner \in 1..2 /\ Winner(m) = Side(m, rows[m].winner)
          BY <1>2, <3>2, WinnerIsSide
        <4> QED BY <1>2, <4>1 DEF RowsAreMatches, NodeRow, Side
      <3> QED BY <3>1, <3>2
    <2>2. \A i \in 1..2 : Drawn(n, i) \in Someone \cup {Nobody}
      <3>1. \A seat : Entrant(seat) \in Someone
        BY DEF Entrant, Someone
      <3> TAKE i \in 1..2
      <3> DEFINE spared == {p \in Followed : NodeAt(p, Rounds - 1) = Feeder(n, i)}
      <3>2. spared # {} => (CHOOSE p \in spared : TRUE) \in Followed
        OBVIOUS
      <3> QED BY <3>1, <3>2 DEF Drawn, Someone
    <2> QED BY <2>1, <2>2 DEF Comers, Someone
  <1>9. /\ DOMAIN rows' \subseteq Nodes
        /\ \A m \in DOMAIN rows' : rows'[m] \in NodeRow /\ Reachable(m) /\ ~Bye(m)
        /\ \A m \in DOMAIN rows', i \in 1..2 :
             Side(m, i)' = Nobody \/ Side(m, i)' \in Comers(m, i)
    <2>1. DOMAIN rows' \subseteq Nodes
      BY <1>2, <1>3 DEF RowsInTree
    <2>2. rows'[n] \in NodeRow
      BY <1>3, <1>8 DEF NodeRow
    <2>3. \A m \in DOMAIN rows' : rows'[m] \in NodeRow /\ Reachable(m) /\ ~Bye(m)
      BY <1>2, <1>3, <2>2 DEF RowsAreMatches
    <2>4. \A m \in DOMAIN rows, i \in 1..2 :
            Side(m, i) = Nobody \/ Side(m, i) \in Comers(m, i)
      BY <1>2 DEF SidesCame
    <2>5. \A m \in DOMAIN rows', i \in 1..2 :
            Side(m, i)' = Nobody \/ Side(m, i)' \in Comers(m, i)
      <3> TAKE m \in DOMAIN rows', i \in 1..2
      <3>1. CASE m = n
        <4>1. i = 1 \/ i = 2
          OBVIOUS
        <4> QED BY <1>1, <1>6, <3>1, <4>1
      <3>2. CASE m # n
        <4>1. m \in DOMAIN rows /\ Side(m, i)' = Side(m, i)
          BY <1>3, <1>6, <3>2
        <4> QED BY <2>4, <4>1
      <3> QED BY <3>1, <3>2
    <2> QED BY <2>1, <2>3, <2>5
  <1>10. PlayedInTime'
    <2> SUFFICES ASSUME NEW m \in DOMAIN rows', Completed(m)'
                 PROVE  /\ \A i \in 1..2 : Side(m, i)' # Nobody
                        /\ At(m)' = NoTime \/ At(m)' <= today'
      BY DEF PlayedInTime, NoTime
    <2>1. Completed(m) /\ m # n /\ m \in DOMAIN rows
      BY <1>2, <1>4 DEF Completed, HasRow
    <2>2. At(m)' = At(m) /\ today' = today
      BY <1>2, SameDraw
    <2> QED BY <1>2, <1>6, <2>1, <2>2 DEF PlayedInTime
  <1>11. TreeInv'
    <2>1. RowsInTree' /\ RowsAreMatches' /\ SidesCame' /\ OnTheirWay' /\ DrawnStand'
      BY <1>7, <1>9, TreeKeeps
    <2> QED BY <1>2, <1>10, <2>1 DEF TreeInv
  <1>12. \A m, p : m # n => (HasPlayer(m, p)' <=> HasPlayer(m, p))
    BY <1>3, <1>6 DEF HasPlayer, HasRow
  <1> QED BY <1>2, <1>4, <1>5, <1>7, <1>11, <1>12

LEMMA FinishGrows ==
  ASSUME TreeInv, NEW n \in Nodes, NEW w \in 1..2, Finish(n, w)
  PROVE  /\ TreeInv' /\ Grows /\ UNCHANGED <<draw, today>>
         /\ DOMAIN rows' = DOMAIN rows
         /\ \A m, p : HasPlayer(m, p)' <=> HasPlayer(m, p)
  <1>1. /\ HasRow(n) /\ ~Completed(n) /\ (\A i \in 1..2 : Side(n, i) # Nobody)
        /\ (At(n) = NoTime \/ At(n) <= today)
        /\ rows' = [rows EXCEPT ![n].winner = w] /\ UNCHANGED <<draw, today>>
    BY DEF Finish
  <1>2. /\ RowsInTree /\ RowsAreMatches /\ PlayedInTime /\ SidesCame
    BY DEF TreeInv
  <1>3. /\ DOMAIN rows' = DOMAIN rows /\ n \in DOMAIN rows
        /\ \A m \in DOMAIN rows : m # n => rows'[m] = rows[m]
        /\ rows'[n] = [sides |-> rows[n].sides, winner |-> w]
    <2>1. n \in DOMAIN rows /\ rows[n] \in NodeRow
      BY <1>1, <1>2 DEF RowsAreMatches, HasRow
    <2> QED BY <1>1, <2>1 DEF NodeRow
  <1>4. \A m, i : m \in DOMAIN rows => Side(m, i)' = Side(m, i)
    BY <1>3 DEF Side
  <1>5. \A m : m # n => Winner(m)' = Winner(m) /\ (Completed(m)' <=> Completed(m))
    BY <1>3 DEF Winner, Completed, HasRow, Side
  <1>6. Winner(n) = Nobody
    BY <1>1 DEF Winner
  <1>7. Grows
    BY <1>1, <1>3, <1>4, <1>5, <1>6 DEF Grows
  <1>8. /\ DOMAIN rows' \subseteq Nodes
        /\ \A m \in DOMAIN rows' : rows'[m] \in NodeRow /\ Reachable(m) /\ ~Bye(m)
        /\ \A m \in DOMAIN rows', i \in 1..2 :
             Side(m, i)' = Nobody \/ Side(m, i)' \in Comers(m, i)
    <2>1. \A m \in DOMAIN rows' : rows'[m] \in NodeRow /\ Reachable(m) /\ ~Bye(m)
      <3> TAKE m \in DOMAIN rows'
      <3>1. rows[m] \in NodeRow /\ rows[n] \in NodeRow /\ Reachable(m) /\ ~Bye(m)
        BY <1>2, <1>3 DEF RowsAreMatches
      <3>2. rows'[m] \in NodeRow
        <4>1. rows'[n] \in NodeRow
          BY <1>3, <3>1 DEF NodeRow
        <4> QED BY <1>3, <3>1, <4>1
      <3> QED BY <3>1, <3>2
    <2>2. \A m \in DOMAIN rows', i \in 1..2 :
            Side(m, i)' = Nobody \/ Side(m, i)' \in Comers(m, i)
      BY <1>2, <1>3, <1>4 DEF SidesCame
    <2> QED BY <1>2, <1>3, <2>1, <2>2 DEF RowsInTree
  <1>9. PlayedInTime'
    <2> SUFFICES ASSUME NEW m \in DOMAIN rows', Completed(m)'
                 PROVE  /\ \A i \in 1..2 : Side(m, i)' # Nobody
                        /\ At(m)' = NoTime \/ At(m)' <= today'
      BY DEF PlayedInTime, NoTime
    <2>1. At(m)' = At(m) /\ today' = today /\ m \in DOMAIN rows
      BY <1>1, <1>3, SameDraw
    <2>2. (\A i \in 1..2 : Side(m, i) # Nobody) /\ (At(m) = NoTime \/ At(m) <= today)
      BY <1>1, <1>2, <1>5, <2>1 DEF PlayedInTime
    <2> QED BY <1>4, <2>1, <2>2
  <1>10. TreeInv'
    <2>1. RowsInTree' /\ RowsAreMatches' /\ SidesCame' /\ OnTheirWay' /\ DrawnStand'
      BY <1>7, <1>8, TreeKeeps
    <2> QED BY <1>1, <1>9, <2>1 DEF TreeInv
  <1>11. \A m, p : HasPlayer(m, p)' <=> HasPlayer(m, p)
    BY <1>3, <1>4 DEF HasPlayer, HasRow
  <1> QED BY <1>1, <1>3, <1>7, <1>10, <1>11

LEMMA DayGrows ==
  ASSUME TreeInv, NextDay \/ UNCHANGED bracketVars
  PROVE  TreeInv' /\ Grows /\ UNCHANGED <<draw, rows>> /\ today <= today'
  <1>1. UNCHANGED <<draw, rows>> /\ today' \in 0..MaxDay /\ today <= today' /\ MaxDay \in Nat
        /\ today \in 0..MaxDay
    BY BracketAssumption DEF NextDay, bracketVars, TreeInv
  <1>2. \A m : Winner(m)' = Winner(m) /\ (Completed(m)' <=> Completed(m))
    BY <1>1 DEF Winner, Completed, HasRow, Side
  <1>3. \A m, i : Side(m, i)' = Side(m, i)
    BY <1>1 DEF Side
  <1>4. Grows
    BY <1>1, <1>2, <1>3 DEF Grows
  <1>5. /\ DOMAIN rows' \subseteq Nodes
        /\ \A m \in DOMAIN rows' : rows'[m] \in NodeRow /\ Reachable(m) /\ ~Bye(m)
        /\ \A m \in DOMAIN rows', i \in 1..2 :
             Side(m, i)' = Nobody \/ Side(m, i)' \in Comers(m, i)
    BY <1>1, <1>3 DEF TreeInv, RowsInTree, RowsAreMatches, SidesCame
  <1>6. PlayedInTime'
    <2> SUFFICES ASSUME NEW m \in DOMAIN rows', Completed(m)'
                 PROVE  /\ \A i \in 1..2 : Side(m, i)' # Nobody
                        /\ At(m)' = NoTime \/ At(m)' <= today'
      BY DEF PlayedInTime, NoTime
    <2>1. At(m)' = At(m) /\ m \in DOMAIN rows /\ Completed(m)
      BY <1>1, <1>2, SameDraw
    <2>2. (\A i \in 1..2 : Side(m, i) # Nobody) /\ (At(m) = NoTime \/ At(m) <= today)
      BY <2>1 DEF TreeInv, PlayedInTime
    <2>3. At(m) \in Nat
      <3>1. m \in Nodes /\ draw \in Draws
        BY <2>1 DEF TreeInv, RowsInTree
      <3>2. draw.day[m[1]] \in 0..NoTime
        BY <3>1, NodeParts, DrawParts
      <3> QED BY <1>1, <3>2 DEF At, NoTime
    <2>4. At(m) <= today => At(m) <= today'
      BY <1>1, <2>3
    <2> QED BY <1>3, <2>1, <2>2, <2>4
  <1>7. RowsInTree' /\ RowsAreMatches' /\ SidesCame' /\ OnTheirWay' /\ DrawnStand'
    BY <1>4, <1>5, TreeKeeps
  <1> QED BY <1>1, <1>4, <1>6, <1>7 DEF TreeInv

LEMMA TreeStart == BracketInit => TreeInv
  <1> SUFFICES ASSUME BracketInit PROVE TreeInv
    OBVIOUS
  <1> DEFINE There == {m \in Nodes : /\ Reachable(m) /\ ~Bye(m)
                                     /\ \E i \in 1..2 : Drawn(m, i) # Nobody}
  <1>1. /\ draw \in Draws /\ today = 0 /\ MaxDay \in Nat
        /\ rows = [n \in There |-> [sides |-> <<Drawn(n, 1), Drawn(n, 2)>>, winner |-> 0]]
    BY BracketAssumption DEF BracketInit
  <1>2. \A n \in There : n \in Nodes /\ Reachable(n) /\ ~Bye(n)
    OBVIOUS
  <1>3. \A n \in There, i \in 1..2 : Side(n, i) = Drawn(n, i)
    BY <1>1 DEF Side
  <1>4. \A n : ~Completed(n)
    BY <1>1 DEF Completed, HasRow
  <1>5. \A n, i : Drawn(n, i) \in Someone \cup {Nobody}
    <2>1. \A seat : Entrant(seat) \in Someone
      BY DEF Entrant, Someone
    <2> TAKE n, i
    <2> DEFINE spared == {p \in Followed : NodeAt(p, Rounds - 1) = Feeder(n, i)}
    <2>2. spared # {} => (CHOOSE p \in spared : TRUE) \in Followed
      OBVIOUS
    <2> QED BY <2>1, <2>2 DEF Drawn, Someone
  <1>6. RowsInTree /\ DOMAIN rows = There
    BY <1>1, <1>2 DEF RowsInTree
  <1>7. RowsAreMatches
    <2> SUFFICES ASSUME NEW n \in There PROVE rows[n] \in NodeRow
      BY <1>2, <1>6 DEF RowsAreMatches
    <2>1. rows[n] = [sides |-> <<Drawn(n, 1), Drawn(n, 2)>>, winner |-> 0]
      BY <1>1
    <2> HIDE DEF There
    <2> QED BY <1>5, <2>1 DEF NodeRow
  <1>8. SidesCame
    BY <1>3, <1>6 DEF SidesCame, Comers
  <1>9. OnTheirWay
    <2> SUFFICES ASSUME NEW n \in There, NEW p \in Followed, HasPlayer(n, p)
                 PROVE  NodeAt(p, n[1]) = n /\ Passed(p, n)
      BY <1>6 DEF OnTheirWay
    <2>1. PICK i \in 1..2 : Drawn(n, i) = p
      BY <1>3 DEF HasPlayer
    <2>2. n \in Nodes
      BY <1>2
    <2> HIDE DEF There
    <2> QED BY <1>1, <2>1, <2>2, DrawnIsOnHisWay
  <1>10. DrawnStand
    BY <1>3, <1>6 DEF DrawnStand, HasRow
  <1>11. PlayedInTime /\ today \in 0..MaxDay
    BY <1>1, <1>4 DEF PlayedInTime
  <1> QED BY <1>6, <1>7, <1>8, <1>9, <1>10, <1>11 DEF TreeInv

LEMMA TreeStep == TreeInv /\ [BracketNext]_bracketVars => TreeInv'
  BY ImportGrows, FinishGrows, DayGrows DEF BracketNext

LEMMA TreeInvariant == BracketSpec => []TreeInv
  BY TreeStart, TreeStep, PTL DEF BracketSpec

-----------------------------------------------------------------------------
(* The follows that make the draw worth showing.                           *)

LEMMA FollowedFinite ==
  ASSUME draw \in Draws
  PROVE  IsFiniteSet(Followed)
  <1>1. draw.seat \in [Followed -> 1..2^Rounds]
        /\ \A p, q \in Followed : p # q => draw.seat[p] # draw.seat[q]
    BY DrawParts
  <1>2. draw.seat \in Injection(Followed, 1..2^Rounds)
    BY <1>1 DEF Injection, IsInjective
  <1>3. 2^Rounds \in Nat
    BY Powers
  <1>4. IsFiniteSet(1..2^Rounds)
    BY <1>3, FS_Interval
  <1> QED BY <1>2, <1>4, FS_Injection

LEMMA FocusParts ==
  ASSUME TreeInv, NEW f \in Foci
  PROVE  /\ f.player \in Followed /\ f.node \in DOMAIN rows /\ f.node \in Nodes
         /\ HasPlayer(f.node, f.player) /\ f.node = NodeAt(f.player, f.node[1])
         /\ \A o \in DOMAIN rows : HasPlayer(o, f.player) => f.node[1] <= o[1]
         /\ f = Focus(f.player, f.node)
  <1>1. PICK p \in Followed : f \in {Focus(p, n) : n \in Latest(DOMAIN rows, p)}
    BY DEF Foci
  <1>2. PICK n \in Latest(DOMAIN rows, p) : f = Focus(p, n)
    BY <1>1
  <1>3. f.player = p /\ f.node = n
    BY <1>2 DEF Focus
  <1>4. /\ n \in DOMAIN rows /\ HasPlayer(n, p)
        /\ \A o \in DOMAIN rows : HasPlayer(o, p) => n[1] <= o[1]
    BY DEF Latest
  <1>5. n \in Nodes /\ n = NodeAt(p, n[1])
    BY <1>4 DEF TreeInv, RowsInTree, OnTheirWay
  <1> QED BY <1>2, <1>3, <1>4, <1>5

LEMMA FocusOfPlayer ==
  ASSUME TreeInv, NEW f \in Foci, NEW g \in Foci, f.player = g.player
  PROVE  f = g
  <1>1. f.node[1] \in Nat /\ g.node[1] \in Nat
    BY FocusParts, NodeParts
  <1>2. f.node[1] <= g.node[1] /\ g.node[1] <= f.node[1]
    BY FocusParts
  <1>3. f.node = g.node
    BY <1>1, <1>2, FocusParts
  <1> QED BY <1>3, FocusParts

LEMMA FociFinite ==
  ASSUME TreeInv, NEW S \in SUBSET Foci
  PROVE  IsFiniteSet(S)
  <1> DEFINE player == [f \in S |-> f.player]
  <1>1. player \in [S -> Followed]
    BY FocusParts
  <1>2. \A f, g \in S : player[f] = player[g] => f = g
    BY FocusOfPlayer
  <1>3. player \in Injection(S, Followed)
    <2> HIDE DEF player
    <2> QED BY <1>1, <1>2 DEF Injection, IsInjective
  <1>4. IsFiniteSet(Followed)
    BY FollowedFinite DEF TreeInv, RowsInTree
  <1> HIDE DEF player
  <1> QED BY <1>3, <1>4, FS_Injection

(* There is a highest follow among any of them.                            *)
LEMMA HighestIsOne ==
  ASSUME TreeInv, NEW S \in SUBSET RelevantFollowed, S # {}
  PROVE  Highest(S) \in S
  <1> DEFINE R == {e \in S \X S : LessRank(e[1].player, e[2].player)}
  <1>1. \A f \in S : f \in Foci /\ f.player \in Followed
    BY FocusParts DEF RelevantFollowed
  <1>2. IsFiniteSet(S)
    BY <1>1, FociFinite
  <1>3. \A f, g \in S : <<f, g>> \in R <=> LessRank(f.player, g.player)
    OBVIOUS
  <1>4. \A f, g \in S : f # g => f.player # g.player
    BY <1>1, FocusOfPlayer
  <1> HIDE DEF R
  <1>5. \A f \in S : <<f, f>> \notin R
    BY <1>1, <1>3, RanksAreOrdered
  <1>6. \A f, g \in S : f # g => <<f, g>> \in R \/ <<g, f>> \in R
    BY <1>1, <1>3, <1>4, RanksAreOrdered
  <1>7. \A f, g, h \in S : <<f, g>> \in R /\ <<g, h>> \in R => <<f, h>> \in R
    BY <1>1, <1>3, RanksAreOrdered
  <1>8. \E f \in S : \A g \in S \ {f} : <<f, g>> \in R
    <2>1. S # {}
      OBVIOUS
    <2> QED BY ONLY <1>2, <1>5, <1>6, <1>7, <2>1, FirstOfOrder
  <1>9. \E f \in S : \A g \in S \ {f} : LessRank(f.player, g.player)
    BY <1>3, <1>8
  <1> QED BY <1>9 DEF Highest


-----------------------------------------------------------------------------
(* The first column and its groups.                                        *)
LEMMA PositionsInRound ==
  ASSUME TreeInv, NEW d, d = FirstColumn(RelevantFollowed)
  PROVE  FocusPositions(RelevantFollowed, d) \subseteq 1..2^d
  <1>1. \A f \in RelevantFollowed : f.node[1] = d => f.node[2] \in 1..2^d
    <2> TAKE f \in RelevantFollowed
    <2>1. f.node \in Nodes
      BY FirstColumnOfSlice DEF TreeInv
    <2> QED BY <2>1, NodeParts
  <1>2. 2^1 = 2
    OBVIOUS
  <1>3. ASSUME d = 1 PROVE 1..2 = 1..2^d
    BY <1>2, <1>3
  <1>4. \A pos \in 1..2 : d = 1 => pos \in 1..2^d
    BY <1>3
  <1> QED BY <1>1, <1>4 DEF FocusPositions

LEMMA ColumnInRound ==
  ASSUME NEW d \in 1..Rounds - 1, NEW positions \in SUBSET (1..2^d)
  PROVE  /\ WithSiblings(positions, d) \in SUBSET (1..2^d)
         /\ IsFiniteSet(WithSiblings(positions, d))
  <1> DEFINE k == d - 1
  <1>1. k \in 0..Rounds - 1 /\ d = k + 1 /\ k \in 0..Rounds
    BY Powers
  <1> HIDE DEF k
  <1>2. 2^k \in Nat \ {0} /\ 2^d = 2 * 2^k
    BY <1>1, Powers
  <1>3. \A pos \in 1..2^d : SiblingPos(pos) \in 1..2^d
    BY <1>2 DEF SiblingPos
  <1>4. WithSiblings(positions, d) \in SUBSET (1..2^d)
    BY <1>3 DEF WithSiblings
  <1>5. 2^d \in Nat
    BY <1>2
  <1>6. IsFiniteSet(1..2^d)
    BY <1>5, FS_Interval
  <1> QED BY <1>4, <1>6, FS_Subset

LEMMA CountIsWhole ==
  ASSUME TreeInv, NEW n
  PROVE  CountFollowed(n) \in Nat
  <1>1. IsFiniteSet(Followed)
    BY FollowedFinite DEF TreeInv, RowsInTree
  <1>2. IsFiniteSet({p \in Followed : HasPlayer(n, p)})
    BY <1>1, FS_Subset
  <1> QED BY <1>2, FS_CardinalityType DEF CountFollowed

LEMMA SumIsWhole ==
  ASSUME TreeInv, NEW keys, IsFiniteSet(keys), NEW d
  PROVE  FollowedIn(keys, d) \in Nat
  <1> DEFINE c == [pos \in keys |-> CountFollowed(<<d, pos>>)]
             Sums(h) == h = [s \in SUBSET keys |->
                               IF s = {} THEN 0
                               ELSE CountFollowed(<<d, AnyOf(s)>>) + h[s \ {AnyOf(s)}]]
             sum == CHOOSE h : Sums(h)
  <1>1. \A pos \in keys : c[pos] \in Nat /\ c[pos] \in Int
    <2>1. \A pos \in keys : CountFollowed(<<d, pos>>) \in Nat
      BY CountIsWhole
    <2> QED BY <2>1
  <1>2. \A s \in SUBSET keys : s # {} => c[AnyOf(s)] = CountFollowed(<<d, AnyOf(s)>>)
    BY DEF AnyOf
  <1>3. FollowedIn(keys, d) = sum[keys]
    BY DEF FollowedIn, MapThenSumSet, MapThenFoldSet, AnyOf
  <1> HIDE DEF c
  <1>4. PICK h : IsSum(c, keys, h)
    BY <1>1, SumsExist
  <1>5. Sums(h)
    BY <1>2, <1>4 DEF IsSum
  <1>6. Sums(sum)
    <2> HIDE DEF Sums
    <2> QED BY <1>5
  <1> HIDE DEF sum
  <1>7. IsSum(c, keys, sum)
    BY <1>2, <1>6 DEF IsSum
  <1>8. sum[keys] \in Nat
    <2> HIDE DEF Sums
    <2> QED BY <1>1, <1>7, SumBoundsParts
  <1> QED BY <1>3, <1>8

LEMMA DayIsWhole ==
  ASSUME TreeInv, NEW keys, NEW d
  PROVE  Min({NoTime} \cup {At(n) : n \in ({d} \X keys) \cap DOMAIN rows}) \in Nat
  <1> DEFINE days == {NoTime} \cup {At(n) : n \in ({d} \X keys) \cap DOMAIN rows}
  <1>1. NoTime \in Nat
    BY BracketAssumption DEF NoTime
  <1>2. ASSUME NEW n \in DOMAIN rows PROVE At(n) \in Nat
    <2>1. n \in Nodes /\ draw \in Draws
      BY <1>2 DEF TreeInv, RowsInTree
    <2>2. n[1] \in 0..Rounds - 1
      BY <2>1, NodeParts
    <2>3. draw.day[n[1]] \in 0..NoTime
      BY <2>1, <2>2, DrawParts
    <2> QED BY <1>1, <2>3 DEF At
  <1>3. days \in SUBSET Nat /\ days # {}
    BY <1>1, <1>2
  <1> HIDE DEF days
  <1>4. \E x \in days : \A y \in days : x <= y
    BY <1>3, LeastOfNat
  <1>5. Min(days) \in days
    BY <1>4 DEF Min
  <1> QED BY <1>3, <1>5 DEF days

(* The groups of a column are put in one order, and one is foremost.       *)
LEMMA ForemostIsOne ==
  ASSUME TreeInv, NEW d, NEW column, column \subseteq Nat \ {0}, IsFiniteSet(column),
         column # {}
  PROVE  Foremost(Groups(column, d)) \in Groups(column, d)
  <1> DEFINE groups == Groups(column, d)
             next == [g \in groups |-> g.next]
             R == {e \in groups \X groups : Before(e[1], e[2])}
             All == {ParentPos(pos) : pos \in column}
             Of(p) == {pos \in column : ParentPos(pos) = p}
  <1>1. \A g \in groups : \E p \in All : g = Group(Of(p), p, d)
    BY DEF Groups
  <1>2. \A p : /\ Group(Of(p), p, d).next = p
               /\ Group(Of(p), p, d).count = FollowedIn(Of(p), d)
               /\ Group(Of(p), p, d).first
                    = Min({NoTime} \cup {At(n) : n \in ({d} \X Of(p)) \cap DOMAIN rows})
    BY DEF Group
  <1>3. \A p : IsFiniteSet(Of(p))
    BY FS_Subset
  <1>4. \A p : FollowedIn(Of(p), d) \in Nat
    <2> HIDE DEF Of
    <2> QED BY <1>3, SumIsWhole
  <1>5. \A g \in groups : g.count \in Nat /\ g.first \in Nat
    <2> TAKE g \in groups
    <2>1. PICK p \in All : g = Group(Of(p), p, d)
      BY <1>1
    <2> HIDE DEF Of, groups
    <2>2. g.count = FollowedIn(Of(p), d)
          /\ g.first = Min({NoTime} \cup {At(n) : n \in ({d} \X Of(p)) \cap DOMAIN rows})
      BY <1>2, <2>1
    <2> QED BY <1>4, <2>2, DayIsWhole
  <1>6. All \subseteq Nat
    BY Siblings
  <1>7. \A g \in groups : g.next \in All /\ g = Group(Of(g.next), g.next, d)
    <2> HIDE DEF Of, All, groups
    <2> QED BY <1>1, <1>2
  <1>8. \A g, h \in groups : g # h => g.next # h.next
    <2> HIDE DEF Of, All, groups
    <2> QED BY <1>7
  <1>9. IsFiniteSet(All)
    <2> DEFINE lowest == [p \in All |-> CHOOSE pos \in column : ParentPos(pos) = p]
    <2>1. \A p \in All : lowest[p] \in column /\ ParentPos(lowest[p]) = p
      OBVIOUS
    <2>2. lowest \in [All -> column]
      BY <2>1
    <2> HIDE DEF lowest, All
    <2>3. \A p, q \in All : lowest[p] = lowest[q] => p = q
      BY <2>1
    <2>4. lowest \in Injection(All, column)
      BY <2>2, <2>3 DEF Injection, IsInjective
    <2> QED BY <2>4, FS_Injection
  <1>10. IsFiniteSet(groups)
    <2> HIDE DEF groups, All, Of
    <2>1. next \in [groups -> All]
      BY <1>7
    <2>2. \A g, h \in groups : next[g] = next[h] => g = h
      BY <1>8
    <2> HIDE DEF next
    <2>3. next \in Injection(groups, All)
      BY <2>1, <2>2 DEF Injection, IsInjective
    <2> QED BY <1>9, <2>3, FS_Injection
  <1>11. groups # {}
    <2>1. PICK pos \in column : TRUE
      OBVIOUS
    <2>2. Group(Of(ParentPos(pos)), ParentPos(pos), d) \in groups
      BY <2>1 DEF Groups
    <2> QED BY <2>2
  <1>12. \A g, h \in groups : <<g, h>> \in R <=> Before(g, h)
    OBVIOUS
  <1>13. \A g \in groups : g.next \in Nat /\ g.count \in Nat /\ g.first \in Nat
    BY <1>5, <1>6, <1>7
  <1> HIDE DEF groups, R, All, Of
  <1>14. \A g \in groups : <<g, g>> \notin R
    BY <1>12, <1>13 DEF Before
  <1>15. \A g, h \in groups : g # h => <<g, h>> \in R \/ <<h, g>> \in R
    BY <1>8, <1>12, <1>13 DEF Before
  <1>16. \A g, h, k \in groups : <<g, h>> \in R /\ <<h, k>> \in R => <<g, k>> \in R
    BY <1>12, <1>13 DEF Before
  <1>17. \E g \in groups : \A h \in groups \ {g} : <<g, h>> \in R
    BY ONLY <1>10, <1>11, <1>14, <1>15, <1>16, FirstOfOrder
  <1>18. \E g \in groups : \A h \in groups \ {g} : Before(g, h)
    BY <1>12, <1>17
  <1> QED BY <1>18 DEF Foremost, groups


(* The groups that are shown: one of them holds what put it in focus.      *)
LEMMA ChosenParts ==
  ASSUME TreeInv, NEW d \in 1..Rounds - 1, NEW positions \in SUBSET (1..2^d), positions # {},
         NEW column, column = WithSiblings(positions, d),
         NEW chosen, chosen = Chosen(Groups(column, d))
  PROVE  /\ chosen # {}
         /\ \A g \in chosen : /\ <<d - 1, g.next>> \in Nodes
                              /\ g.keys = {pos \in column : ParentPos(pos) = g.next}
                              /\ {d} \X g.keys \subseteq Nodes
                              /\ \E pos \in positions : pos \in g.keys
  <1>1. /\ column \subseteq 1..2^d /\ IsFiniteSet(column) /\ positions \subseteq column
        /\ d \in Nat /\ 2^d \in Nat /\ d \in 0..Rounds - 1
    <2>1. d \in 0..Rounds - 1 /\ d \in 0..Rounds /\ d \in Nat
      BY Powers
    <2>2. 2^d \in Nat
      BY <2>1, Powers
    <2>3. column \subseteq 1..2^d /\ IsFiniteSet(column)
      BY ColumnInRound
    <2>4. positions \subseteq column
      BY DEF WithSiblings
    <2> QED BY <2>1, <2>2, <2>3, <2>4
  <1>2. column \subseteq Nat \ {0} /\ column # {}
    <2>1. \A pos \in 1..2^d : pos \in Nat \ {0}
      BY <1>1
    <2> QED BY <1>1, <2>1
  <1>3. Foremost(Groups(column, d)) \in Groups(column, d)
    BY <1>1, <1>2, ForemostIsOne
  <1>4. Foremost(Groups(column, d)) \in chosen
    BY <1>3 DEF Chosen
  <1>5. ASSUME NEW g \in chosen
        PROVE  /\ <<d - 1, g.next>> \in Nodes
               /\ g.keys = {pos \in column : ParentPos(pos) = g.next}
               /\ {d} \X g.keys \subseteq Nodes
               /\ \E pos \in positions : pos \in g.keys
    <2>1. PICK p \in {ParentPos(pos) : pos \in column} :
            g = Group({pos \in column : ParentPos(pos) = p}, p, d)
      BY DEF Chosen, Groups
    <2>2. g.next = p /\ g.keys = {pos \in column : ParentPos(pos) = p}
      BY <2>1 DEF Group
    <2>3. PICK pos \in column : ParentPos(pos) = p
      BY <2>1
    <2>4. \A o \in column : <<d, o>> \in Nodes
      BY <1>1 DEF Nodes
    <2>5. <<d - 1, p>> \in Nodes
      <3>1. <<d, pos>> \in Nodes /\ <<d, pos>>[1] > 0
        BY <1>1, <2>4
      <3>2. Parent(<<d, pos>>) = <<d - 1, p>>
        BY <2>3 DEF Parent
      <3> QED BY <3>1, <3>2, FeedsParent
    <2>6. {d} \X g.keys \subseteq Nodes
      BY <2>2, <2>4
    <2>7. \E o \in positions : o \in g.keys
      <3>1. CASE pos \in positions
        BY <2>2, <2>3, <3>1
      <3>2. CASE pos \notin positions
        <4>1. PICK o \in positions : pos = SiblingPos(o)
          BY <2>3, <3>2 DEF WithSiblings
        <4>2. o \in Nat \ {0} /\ o \in column
          BY <1>1, <1>2
        <4>3. ParentPos(o) = p
          BY <2>3, <4>1, <4>2, Siblings
        <4> QED BY <2>2, <4>2, <4>3
      <3> QED BY <3>1, <3>2
    <2> QED BY <2>2, <2>5, <2>6, <2>7
  <1> QED BY <1>4, <1>5

(* The one node of depth zero is the final.                                *)
LEMMA OneFinal ==
  ASSUME NEW n \in Nodes, n[1] = 0
  PROVE  n = Final
  <1>1. 2^0 = 1
    OBVIOUS
  <1>2. n[2] \in 1..2^n[1]
    BY NodeParts
  <1>3. n = <<n[1], n[2]>>
    BY NodeParts
  <1>4. n[2] = 1
    BY <1>1, <1>2
  <1> QED BY <1>3, <1>4 DEF Final

(* Some match in focus is among the boxes of the slice.                    *)
LEMMA SomeoneIsHere ==
  ASSUME TreeInv, NEW d, d = FirstColumn(RelevantFollowed),
         NEW positions, positions = FocusPositions(RelevantFollowed, d), positions # {},
         NEW chosen, chosen = Chosen(Groups(WithSiblings(positions, d), d)),
         NEW boxes, boxes = ({d} \X UNION {g.keys : g \in chosen})
                            \cup ({d - 1} \X {g.next : g \in chosen})
  PROVE  /\ d \in 1..Rounds - 1 /\ positions \in SUBSET (1..2^d)
         /\ boxes \subseteq Nodes /\ EndNode(d, chosen) \in Nodes
         /\ \E f \in RelevantFollowed : f.node \in boxes
  <1>1. d \in 1..Rounds - 1 /\ positions \in SUBSET (1..2^d)
    BY FirstColumnOfSlice, PositionsInRound DEF TreeInv
  <1>2. /\ chosen # {}
        /\ \A g \in chosen : /\ <<d - 1, g.next>> \in Nodes
                             /\ {d} \X g.keys \subseteq Nodes
                             /\ \E pos \in positions : pos \in g.keys
    BY <1>1, ChosenParts
  <1>3. boxes \subseteq Nodes
    <2> SUFFICES ASSUME NEW n \in boxes PROVE n \in Nodes
      OBVIOUS
    <2>1. CASE n \in {d} \X UNION {g.keys : g \in chosen}
      <3>1. PICK g \in chosen : n \in {d} \X g.keys
        BY <2>1
      <3> QED BY <1>2, <3>1
    <2>2. CASE n \in {d - 1} \X {g.next : g \in chosen}
      <3>1. PICK g \in chosen : n = <<d - 1, g.next>>
        BY <2>2
      <3> QED BY <1>2, <3>1
    <2> QED BY <2>1, <2>2
  <1>4. PICK g \in chosen, pos \in positions : pos \in g.keys
    BY <1>2
  <1>5. <<d, pos>> \in boxes /\ <<d - 1, g.next>> \in boxes
    BY <1>4
  <1>6. \A f \in RelevantFollowed : f.node \in Nodes
    BY FirstColumnOfSlice DEF TreeInv
  <1>7. \E f \in RelevantFollowed : f.node \in boxes
    <2>1. CASE \E f \in RelevantFollowed : f.node[1] = d /\ f.node[2] = pos
      <3>1. PICK f \in RelevantFollowed : f.node[1] = d /\ f.node[2] = pos
        BY <2>1
      <3>2. f.node = <<d, pos>>
        BY <1>6, <3>1, NodeParts
      <3> QED BY <1>5, <3>2
    <2>2. CASE d = 1 /\ \E f \in RelevantFollowed : f.node[1] = 0
      <3>1. PICK f \in RelevantFollowed : f.node[1] = 0
        BY <2>2
      <3>2. f.node = Final
        BY <1>6, <3>1, OneFinal
      <3>3. <<d - 1, g.next>> = Final
        <4>1. <<d - 1, g.next>> \in Nodes /\ <<d - 1, g.next>>[1] = 0
          BY <1>2, <2>2
        <4> QED BY <4>1, OneFinal
      <3> QED BY <1>5, <3>2, <3>3
    <2> QED BY <2>1, <2>2, <1>4 DEF FocusPositions
  <1>8. EndNode(d, chosen) \in Nodes
    <2>1. CASE d = 1
      <3>1. 2^0 = 1
        OBVIOUS
      <3>2. 0 \in 0..Rounds - 1 /\ 1 \in 1..2^0
        BY <3>1, Powers
      <3>3. <<0, 1>> \in {0} \X (1..2^0)
        BY <3>2
      <3>4. Final \in Nodes
        BY <3>2, <3>3 DEF Final, Nodes
      <3> QED BY <2>1, <3>4 DEF EndNode
    <2>2. CASE d # 1
      <3> DEFINE nexts == {h.next : h \in chosen}
      <3>1. \A h \in chosen : /\ h.next \in {ParentPos(o) : o \in WithSiblings(positions, d)}
                              /\ ParentPos(h.next)
                                   = ParentPos(Foremost(Groups(WithSiblings(positions, d), d)).next)
        BY GroupParts
      <3>2. WithSiblings(positions, d) \subseteq 1..2^d
        BY <1>1, ColumnInRound
      <3>3. \A o \in WithSiblings(positions, d) : o \in Nat \ {0}
        BY <1>1, <3>2, Powers
      <3>4. nexts \in SUBSET (Nat \ {0}) /\ g.next \in nexts
        BY <1>4, <3>1, <3>3, Siblings
      <3>5. \A x, y \in nexts : ParentPos(x) = ParentPos(y)
        BY <3>1
      <3>6. Min(nexts) \in nexts
        BY <3>4, <3>5, MinOfPair
      <3>7. ParentPos(Min(nexts)) = ParentPos(g.next)
        BY <3>4, <3>5, <3>6
      <3>8. EndNode(d, chosen) = Parent(<<d - 1, g.next>>)
        <4>1. d - 1 - 1 = d - 2
          BY <1>1
        <4> QED BY <2>2, <3>7, <4>1 DEF EndNode, Parent
      <3>9. <<d - 1, g.next>> \in Nodes /\ <<d - 1, g.next>>[1] > 0
        BY <1>1, <1>2, <2>2
      <3> QED BY <3>8, <3>9, FeedsParent
    <2> QED BY <2>1, <2>2
  <1> QED BY <1>1, <1>3, <1>7, <1>8

(* The box that opens.                                                     *)
LEMMA OpenIsFollow ==
  ASSUME TreeInv, NEW d, NEW boxes, \E f \in RelevantFollowed : f.node \in boxes
  PROVE  LET open == DefaultKey(RelevantFollowed, d, boxes)
         IN  open \in boxes /\ \E f \in RelevantFollowed : HasPlayer(open, f.player)
  <1> DEFINE here == {f \in RelevantFollowed : f.node \in boxes}
             free == {f \in here : ~Completed(f.node)}
             known == /\ Final \in boxes /\ Completed(Final)
                      /\ \E f \in RelevantFollowed : HasPlayer(Final, f.player)
  <1>1. /\ here \subseteq RelevantFollowed /\ here # {}
        /\ free \subseteq RelevantFollowed /\ free \subseteq here
    OBVIOUS
  <1>2. free # {} => Highest(free) \in here
    <2> HIDE DEF here, free
    <2> QED BY <1>1, HighestIsOne
  <1>3. Highest(here) \in here
    <2> HIDE DEF here
    <2> QED BY <1>1, HighestIsOne
  <1>4. \A f \in here : f.node \in boxes /\ f \in RelevantFollowed /\ HasPlayer(f.node, f.player)
    BY FocusParts DEF RelevantFollowed
  <1>5. DefaultKey(RelevantFollowed, d, boxes)
          = IF known THEN Final
            ELSE IF free # {} THEN Highest(free).node
            ELSE IF here # {} THEN Highest(here).node
            ELSE <<d, Min({n[2] : n \in {o \in boxes : o[1] = d}})>>
    BY DEF DefaultKey
  <1>6. CASE known
    BY <1>5, <1>6
  <1>7. CASE ~known
    <2> HIDE DEF known, here, free
    <2>1. \/ DefaultKey(RelevantFollowed, d, boxes) = Highest(free).node /\ free # {}
          \/ DefaultKey(RelevantFollowed, d, boxes) = Highest(here).node
      BY <1>1, <1>5, <1>7
    <2> QED BY <1>2, <1>3, <1>4, <2>1
  <1> QED BY <1>6, <1>7


-----------------------------------------------------------------------------
(* The slice is what it is said to be.                                     *)

(* It is made of whole columns of the tree, and is none but if nobody is   *)
(* worth showing, or if the row he came to the final by is not there.      *)
LEMMA SliceParts ==
  ASSUME TreeInv, NEW d, d = FirstColumn(RelevantFollowed),
         NEW positions, positions = FocusPositions(RelevantFollowed, d), positions # {},
         NEW chosen, chosen = Chosen(Groups(WithSiblings(positions, d), d)),
         NEW slice, slice = SliceOf(RelevantFollowed, d, chosen)
  PROVE  /\ slice \in BracketSlice
         /\ slice.boxes = ({d} \X UNION {g.keys : g \in chosen})
                          \cup ({d - 1} \X {g.next : g \in chosen})
         /\ slice.end = EndNode(d, chosen) /\ slice.kind = EndKind(d)
         /\ slice.note = NoteKind(RelevantFollowed, d, chosen)
         /\ slice.open \in slice.boxes
         /\ \E f \in RelevantFollowed : HasPlayer(slice.open, f.player)
         /\ slice.more # RelevantFollowed
  <1> DEFINE boxes == ({d} \X UNION {g.keys : g \in chosen})
                      \cup ({d - 1} \X {g.next : g \in chosen})
             more == {f \in RelevantFollowed : ~\E n \in boxes : HasPlayer(n, f.player)}
             open == DefaultKey(RelevantFollowed, d, boxes)
             note == NoteKind(RelevantFollowed, d, chosen)
  <1>1. slice = [first |-> d, boxes |-> boxes, end |-> EndNode(d, chosen),
                 kind |-> EndKind(d), note |-> note, more |-> more,
                 open |-> open, recent |-> RecentResults]
    BY DEF SliceOf
  <1>2. /\ d \in 1..Rounds - 1 /\ boxes \subseteq Nodes /\ EndNode(d, chosen) \in Nodes
        /\ \E f \in RelevantFollowed : f.node \in boxes
    <2> HIDE DEF boxes
    <2>1. boxes = ({d} \X UNION {g.keys : g \in chosen}) \cup ({d - 1} \X {g.next : g \in chosen})
      BY DEF boxes
    <2>2. /\ TreeInv /\ d = FirstColumn(RelevantFollowed)
          /\ positions = FocusPositions(RelevantFollowed, d) /\ positions # {}
          /\ chosen = Chosen(Groups(WithSiblings(positions, d), d))
      OBVIOUS
    <2> QED BY ONLY <2>1, <2>2, SomeoneIsHere
  <1>3. open \in boxes /\ \E f \in RelevantFollowed : HasPlayer(open, f.player)
    <2> HIDE DEF boxes
    <2> QED BY <1>2, OpenIsFollow
  <1>4. \A f \in RelevantFollowed : /\ HasPlayer(f.node, f.player) /\ f \in FollowedFocus
    <2> TAKE f \in RelevantFollowed
    <2>1. /\ f.player \in Followed /\ f.node \in Nodes /\ HasPlayer(f.node, f.player)
          /\ f = Focus(f.player, f.node)
      BY FocusParts DEF RelevantFollowed
    <2>2. Focus(f.player, f.node) \in FollowedFocus
      BY <2>1 DEF Focus, FollowedFocus
    <2> QED BY <2>1, <2>2
  <1>5. more \in SUBSET FollowedFocus /\ more # RelevantFollowed
    <2> HIDE DEF boxes
    <2> QED BY <1>2, <1>4
  <1>6. EndKind(d) \in {"champion", "pending"}
    BY DEF EndKind
  <1>7. note \in {"champion", "could_meet", "in_round", "plays", "played"}
    BY DEF NoteKind
  <1>8. RecentResults \in SUBSET Nodes
    BY DEF RecentResults, LastPlayed, Latest, Played, TreeInv, RowsInTree
  <1> HIDE DEF boxes, more, open, note
  <1>9. slice \in BracketSlice
    BY <1>1, <1>2, <1>3, <1>5, <1>6, <1>7, <1>8 DEF BracketSlice
  <1>10. /\ slice.boxes = boxes /\ slice.end = EndNode(d, chosen) /\ slice.kind = EndKind(d)
         /\ slice.note = note /\ slice.open = open /\ slice.more = more
    BY <1>1
  <1>11. boxes = ({d} \X UNION {g.keys : g \in chosen}) \cup ({d - 1} \X {g.next : g \in chosen})
    BY DEF boxes
  <1>12. slice.note = NoteKind(RelevantFollowed, d, chosen)
    BY <1>10 DEF note
  <1>13. slice.open \in slice.boxes /\ \E f \in RelevantFollowed : HasPlayer(slice.open, f.player)
    BY <1>3, <1>10
  <1>14. slice.more # RelevantFollowed
    BY <1>5, <1>10
  <1> QED BY <1>9, <1>10, <1>11, <1>12, <1>13, <1>14

LEMMA SliceIsOf ==
  ASSUME BuildBracketSlice # NoSlice
  PROVE  LET d == FirstColumn(RelevantFollowed)
             positions == FocusPositions(RelevantFollowed, d)
         IN  /\ positions # {}
             /\ BuildBracketSlice = SliceOf(RelevantFollowed, d,
                                            Chosen(Groups(WithSiblings(positions, d), d)))
  BY DEF BuildBracketSlice

(* The rows are matches of the tree, and the slice, if there is one, is of *)
(* its nodes (loadDrawTrees, BuildBracketSlice).                           *)
THEOREM BracketTypeCorrect == BracketSpec => []BracketTypeOK
  <1>1. TreeInv => BracketTypeOK
    <2> SUFFICES ASSUME TreeInv PROVE BracketTypeOK
      OBVIOUS
    <2>1. BuildBracketSlice \in BracketSlice \cup {NoSlice}
      <3> SUFFICES ASSUME BuildBracketSlice # NoSlice PROVE BuildBracketSlice \in BracketSlice
        OBVIOUS
      <3> QED BY SliceIsOf, SliceParts
    <2> QED BY <2>1 DEF TreeInv, RowsInTree, RowsAreMatches, BracketTypeOK
  <1> QED BY TreeInvariant, <1>1, PTL

(* The box that opens with the card is in the slice and shows a player for *)
(* whom the card is there, whatever rows are missing (defaultKey).         *)
THEOREM DefaultIsFollow == BracketSpec => []DefaultShowsFollow
  <1>1. TreeInv => DefaultShowsFollow
    <2> SUFFICES ASSUME TreeInv, BuildBracketSlice # NoSlice
                 PROVE  /\ BuildBracketSlice.open \in BuildBracketSlice.boxes
                        /\ \E f \in RelevantFollowed : HasPlayer(BuildBracketSlice.open, f.player)
      BY DEF DefaultShowsFollow
    <2> QED BY SliceIsOf, SliceParts
  <1> QED BY TreeInvariant, <1>1, PTL


-----------------------------------------------------------------------------
(* What a match in focus says of its player.                               *)
LEMMA Behind ==
  ASSUME TreeInv, NEW p \in Followed, NEW m \in DOMAIN rows, HasPlayer(m, p),
         NEW d \in m[1] + 1..Rounds - 1
  PROVE  Bye(NodeAt(p, d)) \/ Winner(NodeAt(p, d)) = p
  BY DEF TreeInv, OnTheirWay, Passed

LEMMA WonBehind ==
  ASSUME TreeInv, NEW p \in Followed, NEW m \in DOMAIN rows, HasPlayer(m, p),
         NEW n \in DOMAIN rows, HasPlayer(n, p), m[1] < n[1]
  PROVE  Winner(n) = p
  <1>1. n = NodeAt(p, n[1]) /\ ~Bye(n) /\ n \in Nodes /\ m \in Nodes
    BY DEF TreeInv, OnTheirWay, RowsAreMatches, RowsInTree
  <1>2. n[1] \in m[1] + 1..Rounds - 1
    <2>1. m[1] \in Nat /\ n[1] \in 0..Rounds - 1
      BY <1>1, NodeParts
    <2> QED BY <2>1
  <1>3. Bye(NodeAt(p, n[1])) \/ Winner(NodeAt(p, n[1])) = p
    BY <1>2, Behind
  <1> QED BY <1>1, <1>3

LEMMA HasFocus ==
  ASSUME TreeInv, NEW p \in Followed, NEW n \in DOMAIN rows, HasPlayer(n, p)
  PROVE  \E m \in DOMAIN rows : /\ Focus(p, m) \in Foci /\ HasPlayer(m, p)
                                /\ \A o \in DOMAIN rows : HasPlayer(o, p) => m[1] <= o[1]
  <1> DEFINE depths == {o[1] : o \in {q \in DOMAIN rows : HasPlayer(q, p)}}
  <1>1. depths \in SUBSET Nat
    <2>1. \A o \in DOMAIN rows : o[1] \in Nat
      BY NodeParts DEF TreeInv, RowsInTree
    <2> QED BY <2>1
  <1>2. depths # {}
    OBVIOUS
  <1> HIDE DEF depths
  <1>3. PICK d \in depths : \A e \in depths : d <= e
    BY <1>1, <1>2, LeastOfNat
  <1>4. PICK m \in DOMAIN rows : HasPlayer(m, p) /\ m[1] = d
    BY DEF depths
  <1>5. \A o \in DOMAIN rows : HasPlayer(o, p) => m[1] <= o[1]
    BY <1>3, <1>4 DEF depths
  <1>6. m \in Latest(DOMAIN rows, p)
    BY <1>4, <1>5 DEF Latest
  <1> QED BY <1>4, <1>5, <1>6 DEF Foci

(* Who is not out by the match in focus has lost none.                     *)
LEMMA InFocusUnbeaten ==
  ASSUME TreeInv, NEW f \in Foci, ~f.eliminated
  PROVE  ~Lost(f.player)
  <1> DEFINE p == f.player
             m == f.node
  <1>1. /\ p \in Followed /\ m \in DOMAIN rows /\ HasPlayer(m, p) /\ m = NodeAt(p, m[1])
        /\ \A o \in DOMAIN rows : HasPlayer(o, p) => m[1] <= o[1]
        /\ f = Focus(p, m)
    BY FocusParts
  <1> HIDE DEF p, m
  <1>2. Winner(m) \in {Nobody, p}
    <2>1. Focus(p, m).eliminated = (Winner(m) \notin {Nobody, p})
      BY DEF Focus
    <2> QED BY <1>1, <2>1
  <1> SUFFICES ASSUME NEW n \in DOMAIN rows, Completed(n), HasPlayer(n, p), Winner(n) # p
               PROVE  FALSE
    BY DEF Lost, Played, p
  <1>3. n = NodeAt(p, n[1]) /\ n \in Nodes /\ m \in Nodes
    BY <1>1 DEF TreeInv, OnTheirWay, RowsInTree
  <1>4. m[1] \in Nat /\ n[1] \in Nat
    BY <1>3, NodeParts
  <1>5. CASE m[1] = n[1]
    <2>1. n = m
      BY <1>1, <1>3, <1>5
    <2>2. Winner(m) # Nobody
      <3>1. rows[m].winner \in 1..2
        <4>1. rows[m].winner \in 0..2 /\ rows[m].winner # 0
          BY <1>1, <2>1 DEF TreeInv, RowsAreMatches, NodeRow, Completed
        <4> QED BY <4>1
      <3>2. Side(m, rows[m].winner) # Nobody
        BY <1>1, <2>1, <3>1 DEF TreeInv, PlayedInTime
      <3> QED BY <2>1, <3>2 DEF Winner
    <2> QED BY <1>2, <2>1, <2>2
  <1>6. CASE m[1] # n[1]
    <2>1. m[1] < n[1]
      BY <1>1, <1>4, <1>6
    <2> QED BY <1>1, <2>1, WonBehind
  <1> QED BY <1>5, <1>6

(* The first column is that of the match in focus that lies furthest back, *)
(* and of none, if all of them are finals.                                 *)
LEMMA FirstIsFurthest ==
  ASSUME TreeInv, NEW d, d = FirstColumn(RelevantFollowed)
  PROVE  /\ \A f \in RelevantFollowed : f.node[1] <= d
         /\ d = 1 \/ \E f \in RelevantFollowed : f.node[1] = d
  <1> DEFINE depths == {1} \cup {f.node[1] : f \in RelevantFollowed}
  <1>1. Rounds \in Nat /\ Rounds > 1
    BY BracketAssumption
  <1>2. \A f \in RelevantFollowed : f.node[1] \in 0..Rounds - 1
    BY FirstColumnOfSlice, NodeParts DEF TreeInv
  <1>3. depths \in SUBSET ((-1)..Rounds) /\ depths # {}
    BY <1>1, <1>2
  <1>4. d \in depths /\ \A e \in depths : e <= d
    BY <1>1, <1>3, MaxOfBounded DEF FirstColumn
  <1> QED BY <1>4

(* A user who follows a player with a match to come has a slice: in any    *)
(* draw in which nobody comes to the final by a bye (relevantFollowed,     *)
(* BuildBracketSlice).                                                     *)
THEOREM PlayersAreShown ==
  ASSUME Rounds > 2 \/ \A d \in Draws : d.byes = {}
  PROVE  BracketSpec => []SliceWhilePlaying
  <1>1. TreeInv => SliceWhilePlaying
    <2> SUFFICES ASSUME TreeInv, NEW p \in Followed, NEW n \in DOMAIN rows,
                        HasPlayer(n, p), ~Completed(n)
                 PROVE  /\ BuildBracketSlice # NoSlice
                        /\ BuildBracketSlice.more # RelevantFollowed
      BY DEF SliceWhilePlaying
    <2>1. PICK m \in DOMAIN rows :
            /\ Focus(p, m) \in Foci /\ HasPlayer(m, p)
            /\ \A o \in DOMAIN rows : HasPlayer(o, p) => m[1] <= o[1]
      BY HasFocus
    <2>2. m = n
      <3>1. /\ m \in Nodes /\ n \in Nodes /\ m = NodeAt(p, m[1]) /\ n = NodeAt(p, n[1])
            /\ m[1] <= n[1] /\ p # Nobody
        BY <2>1, DrawParts DEF TreeInv, RowsInTree, OnTheirWay
      <3>2. m[1] \in Nat /\ n[1] \in Nat
        BY <3>1, NodeParts
      <3>3. CASE m[1] < n[1]
        <4>1. Winner(n) = p
          BY <2>1, <3>3, WonBehind
        <4> QED BY <3>1, <4>1 DEF Winner
      <3> QED BY <3>1, <3>2, <3>3
    <2>3. Focus(p, n) \in RelevantFollowed
      <3>1. Winner(n) = Nobody /\ p # Nobody
        BY DrawParts DEF Winner, TreeInv, RowsInTree
      <3>2. ~Focus(p, n).eliminated /\ ~Focus(p, n).champion
        BY <3>1 DEF Focus
      <3> QED BY <2>1, <2>2, <3>2 DEF RelevantFollowed, Relevant
    <2> DEFINE d == FirstColumn(RelevantFollowed)
               positions == FocusPositions(RelevantFollowed, d)
               chosen == Chosen(Groups(WithSiblings(positions, d), d))
    <2>4. positions # {}
      <3>1. CASE \E f \in RelevantFollowed : f.node[1] = d
        BY <3>1 DEF FocusPositions
      <3>2. CASE ~\E f \in RelevantFollowed : f.node[1] = d
        <4> DEFINE f == Focus(p, n)
        <4>1. d = 1 /\ n[1] <= d
          <5>1. d = 1 /\ f.node[1] <= d
            BY <2>3, <3>2, FirstIsFurthest
          <5>2. f.node = n
            BY DEF Focus
          <5> QED BY <5>1, <5>2
        <4>2. n[1] = 0 /\ n \in Nodes
          <5>1. n[1] # d
            BY <2>3, <3>2 DEF Focus
          <5>2. n \in Nodes
            BY DEF TreeInv, RowsInTree
          <5> QED BY <4>1, <5>1, <5>2, NodeParts
        <4>3. 1 \in n[1] + 1..Rounds - 1 /\ 1 \in 0..Rounds - 1
          BY <4>2, Powers
        <4>4. ~Bye(NodeAt(p, 1))
          <5>1. draw \in Draws
            BY DEF TreeInv, RowsInTree
          <5>2. CASE Rounds > 2
            <6>1. Rounds - 1 # 1
              BY <5>2, Powers
            <6> QED BY <6>1 DEF Bye, NodeAt
          <5>3. CASE \A e \in Draws : e.byes = {}
            BY <5>1, <5>3 DEF Bye
          <5> QED BY <5>2, <5>3
        <4>5. Winner(NodeAt(p, 1)) = p
          BY <4>3, <4>4, Behind
        <4> DEFINE c == NodeAt(p, 1)
        <4>6. c \in DOMAIN rows /\ HasPlayer(c, p)
          <5>1. p # Nobody
            BY DrawParts DEF TreeInv, RowsInTree
          <5>2. Completed(c) /\ Side(c, rows[c].winner) = p
            BY <4>5, <5>1 DEF Winner
          <5>3. c \in DOMAIN rows
            BY <5>2 DEF Completed, HasRow
          <5>4. rows[c].winner \in 1..2
            <6>1. rows[c].winner \in 0..2 /\ rows[c].winner # 0
              BY <5>2, <5>3 DEF TreeInv, RowsAreMatches, NodeRow, Completed
            <6> QED BY <6>1
          <5> QED BY <5>2, <5>3, <5>4 DEF HasPlayer, HasRow
        <4>7. c[1] = 1 /\ c \in Nodes
          BY <4>6 DEF NodeAt, TreeInv, RowsInTree
        <4>8. c = <<1, c[2]>> /\ c[2] \in 1..2
          <5>1. 2^1 = 2
            OBVIOUS
          <5>2. c = <<c[1], c[2]>> /\ c[2] \in 1..2^c[1]
            BY <4>7, NodeParts
          <5> HIDE DEF c
          <5> QED BY <4>7, <5>1, <5>2
        <4>9. HasPlayer(<<d, c[2]>>, p)
          BY <4>1, <4>6, <4>8
        <4>10. f \in RelevantFollowed /\ f.node[1] = 0 /\ f.player = p
          BY <2>3, <4>2 DEF Focus
        <4> HIDE DEF c, f
        <4> QED BY <4>1, <4>8, <4>9, <4>10 DEF FocusPositions
      <3> QED BY <3>1, <3>2
    <2>5. BuildBracketSlice = SliceOf(RelevantFollowed, d, chosen)
      BY <2>3, <2>4 DEF BuildBracketSlice
    <2>6. SliceOf(RelevantFollowed, d, chosen) \in BracketSlice
          /\ SliceOf(RelevantFollowed, d, chosen).more # RelevantFollowed
      <3> DEFINE slice == SliceOf(RelevantFollowed, d, chosen)
      <3>1. /\ d = FirstColumn(RelevantFollowed) /\ positions = FocusPositions(RelevantFollowed, d)
            /\ chosen = Chosen(Groups(WithSiblings(positions, d), d))
            /\ slice = SliceOf(RelevantFollowed, d, chosen)
        OBVIOUS
      <3>2. slice \in BracketSlice /\ slice.more # RelevantFollowed
        <4> HIDE DEF d, positions, chosen, slice
        <4> QED BY <2>4, <3>1, SliceParts
      <3> QED BY <3>2
    <2> QED BY <2>5, <2>6, BracketAssumption
  <1> QED BY TreeInvariant, <1>1, PTL


-----------------------------------------------------------------------------
(* A match has been won by whom the next one names, if it has been played. *)
LEMMA SideWon ==
  ASSUME TreeInv, NEW n \in DOMAIN rows, NEW i \in 1..2, Feeder(n, i) \in DOMAIN rows,
         n[1] < Rounds - 1, Side(n, i) # Nobody
  PROVE  Winner(Feeder(n, i)) = Side(n, i)
  <1>1. ~Bye(Feeder(n, i)) /\ Reachable(Feeder(n, i))
    BY DEF TreeInv, RowsAreMatches
  <1>2. Drawn(n, i) = Nobody
    <2>1. n[1] # Rounds - 1
      BY NodeParts DEF TreeInv, RowsInTree
    <2> QED BY <1>1, <2>1 DEF Drawn
  <1>3. Side(n, i) \in Comers(n, i)
    BY DEF TreeInv, SidesCame
  <1> QED BY <1>1, <1>2, <1>3 DEF Comers

LEMMA SidesKnown ==
  ASSUME TreeInv, NEW n, Completed(n)
  PROVE  /\ n \in DOMAIN rows /\ Winner(n) # Nobody
         /\ \E i \in 1..2 : Winner(n) = Side(n, i)
         /\ \A i \in 1..2 : Side(n, i) # Nobody
  <1>1. n \in DOMAIN rows /\ rows[n].winner # 0
    BY DEF Completed, HasRow
  <1>2. rows[n].winner \in 0..2
    BY <1>1 DEF TreeInv, RowsAreMatches, NodeRow
  <1>3. rows[n].winner \in 1..2
    BY <1>1, <1>2
  <1>4. \A i \in 1..2 : Side(n, i) # Nobody
    BY <1>1 DEF TreeInv, PlayedInTime
  <1> QED BY <1>1, <1>3, <1>4 DEF Winner

(* "They could meet" is said of two follows whom nobody has beaten and who *)
(* are a match away from each other, however late the import is            *)
(* (bracketNote, subtreeHasActive).                                        *)
THEOREM MeetingsAreOpen == BracketSpec => []CouldMeetIsTrue
  <1>1. TreeInv => CouldMeetIsTrue
    <2> DEFINE d == FirstColumn(RelevantFollowed)
               positions == FocusPositions(RelevantFollowed, d)
               column == WithSiblings(positions, d)
               chosen == Chosen(Groups(column, d))
               slice == SliceOf(RelevantFollowed, d, chosen)
    <2> SUFFICES ASSUME TreeInv, BuildBracketSlice # NoSlice,
                        BuildBracketSlice.note = "could_meet"
                 PROVE  \E p, q \in Followed :
                          /\ p # q /\ ~Lost(p) /\ ~Lost(q)
                          /\ \E n, o \in BuildBracketSlice.boxes :
                               /\ n # o /\ HasPlayer(n, p) /\ HasPlayer(o, q)
                               /\ Parent(n) = Parent(o) /\ Parent(n) \in BuildBracketSlice.boxes
                               /\ ~Completed(Parent(n))
      BY DEF CouldMeetIsTrue
    <2>1. positions # {} /\ BuildBracketSlice = slice
      BY SliceIsOf
    <2>2. /\ d = FirstColumn(RelevantFollowed) /\ positions = FocusPositions(RelevantFollowed, d)
          /\ column = WithSiblings(positions, d)
          /\ chosen = Chosen(Groups(column, d)) /\ slice = SliceOf(RelevantFollowed, d, chosen)
      OBVIOUS
    <2> HIDE DEF d, positions, column, chosen, slice
    <2>3. d \in 1..Rounds - 1 /\ positions \in SUBSET (1..2^d)
      BY <2>2, FirstColumnOfSlice, PositionsInRound DEF TreeInv
    <2>4. /\ slice.boxes = ({d} \X UNION {g.keys : g \in chosen})
                           \cup ({d - 1} \X {g.next : g \in chosen})
          /\ slice.note = NoteKind(RelevantFollowed, d, chosen)
      BY <2>1, <2>2, SliceParts
    <2>5. PICK g \in chosen : /\ Active(RelevantFollowed, <<d, 2 * g.next - 1>>)
                              /\ Active(RelevantFollowed, <<d, 2 * g.next>>)
      BY <2>1, <2>4 DEF NoteKind
    <2> DEFINE x == g.next
               n == <<d, 2 * x - 1>>
               o == <<d, 2 * x>>
               c == <<d - 1, x>>
    <2>6. PICK f \in RelevantFollowed : /\ ~f.eliminated /\ HasPlayer(n, f.player)
                                        /\ Winner(n) \in {Nobody, f.player}
      BY <2>5 DEF Active
    <2>7. PICK h \in RelevantFollowed : /\ ~h.eliminated /\ HasPlayer(o, h.player)
                                        /\ Winner(o) \in {Nobody, h.player}
      BY <2>5 DEF Active
    <2> DEFINE p == f.player
               q == h.player
    <2>8. /\ p \in Followed /\ q \in Followed /\ ~Lost(p) /\ ~Lost(q)
      BY <2>6, <2>7, FocusParts, InFocusUnbeaten DEF RelevantFollowed
    <2>9. /\ n \in DOMAIN rows /\ o \in DOMAIN rows /\ n \in Nodes /\ o \in Nodes
          /\ n = NodeAt(p, d) /\ o = NodeAt(q, d)
      BY <2>6, <2>7, <2>8 DEF HasPlayer, HasRow, TreeInv, RowsInTree, OnTheirWay
    <2>10. /\ c \in Nodes /\ g.keys = {pos \in column : ParentPos(pos) = x}
           /\ \E pos \in positions : pos \in g.keys
      BY <2>1, <2>2, <2>3, ChosenParts
    <2>11. x \in Nat \ {0} /\ d \in Nat /\ d - 1 < Rounds - 1
      <3>1. c[2] \in Nat \ {0}
        BY <2>10, NodeParts
      <3> QED BY <2>3, <3>1, Powers
    <2>12. p # q
      <3>1. n # o
        BY <2>11
      <3> QED BY <2>9, <3>1
    <2>13. ParentPos(2 * x - 1) = x /\ ParentPos(2 * x) = x
           /\ SiblingPos(2 * x - 1) = 2 * x /\ SiblingPos(2 * x) = 2 * x - 1
      <3> HIDE DEF x
      <3>1. (2 * x - 1 + 1) \div 2 = x /\ (2 * x + 1) \div 2 = x
        BY <2>11
      <3>2. (2 * x - 1 + 1) % 2 = 0 /\ (2 * x + 1) % 2 = 1
        BY <2>11
      <3>3. 2 * x - 1 + 1 - 2 * 0 = 2 * x /\ 2 * x + 1 - 2 * 1 = 2 * x - 1
        BY <2>11
      <3> QED BY <3>1, <3>2, <3>3 DEF ParentPos, SiblingPos
    <2>14. Parent(n) = c /\ Parent(o) = c
      BY <2>13 DEF Parent
    <2>15. CountFollowed(n) > 0 /\ CountFollowed(o) > 0
      <3> SUFFICES ASSUME NEW m, NEW r \in Followed, HasPlayer(m, r) PROVE CountFollowed(m) > 0
        BY <2>6, <2>7, <2>8
      <3> DEFINE S == {s \in Followed : HasPlayer(m, s)}
      <3>1. IsFiniteSet(S) /\ S # {}
        BY FollowedFinite, FS_Subset DEF TreeInv, RowsInTree
      <3> HIDE DEF S
      <3>2. Cardinality(S) \in Nat /\ Cardinality(S) # 0
        BY <3>1, FS_EmptySet, FS_CardinalityType
      <3> QED BY <3>2 DEF CountFollowed, S
    <2>16. 2 * x - 1 \in column /\ 2 * x \in column
      <3>1. PICK pos \in positions : pos \in g.keys
        BY <2>10
      <3>2. pos \in column /\ ParentPos(pos) = x
        BY <2>10, <3>1
      <3>3. pos \in Nat \ {0}
        <4>1. d \in 0..Rounds
          BY <2>3, Powers
        <4>2. 2^d \in Nat
          BY <4>1, Powers
        <4>3. pos \in 1..2^d
          BY <2>3, <3>1
        <4> QED BY <4>2, <4>3
      <3>4. pos = 2 * x - 1 \/ pos = 2 * x
        BY <3>2, <3>3, Siblings
      <3> HIDE DEF n, o
      <3>5. CASE pos = 2 * x - 1
        <4>1. 2 * x \in column
          BY <2>2, <2>13, <2>15, <3>1, <3>5 DEF WithSiblings, o
        <4> QED BY <3>2, <3>5, <4>1
      <3>6. CASE pos = 2 * x
        <4>1. 2 * x - 1 \in column
          BY <2>2, <2>13, <2>15, <3>1, <3>6 DEF WithSiblings, n
        <4> QED BY <3>2, <3>6, <4>1
      <3> QED BY <3>4, <3>5, <3>6
    <2>17. n \in slice.boxes /\ o \in slice.boxes /\ c \in slice.boxes
      <3>1. 2 * x - 1 \in g.keys /\ 2 * x \in g.keys
        BY <2>10, <2>13, <2>16
      <3> QED BY <2>4, <3>1
    <2>18. ~Completed(c)
      <3> SUFFICES ASSUME Completed(c) PROVE FALSE
        OBVIOUS
      <3>1. /\ c \in DOMAIN rows /\ \E i \in 1..2 : Winner(c) = Side(c, i)
            /\ \A i \in 1..2 : Side(c, i) # Nobody
        BY SidesKnown
      <3>2. Feeder(c, 1) = n /\ Feeder(c, 2) = o
        <4>1. /\ d - 1 + 1 = d
              /\ 2 * x - 2 + 1 = 2 * x - 1 /\ 2 * x - 2 + 2 = 2 * x
          BY <2>11
        <4> QED BY <4>1 DEF Feeder
      <3>3. c[1] < Rounds - 1
        BY <2>11
      <3> HIDE DEF c, n, o
      <3>4. Winner(n) = Side(c, 1) /\ Winner(o) = Side(c, 2)
        BY <2>9, <3>1, <3>2, <3>3, SideWon
      <3>5. Side(c, 1) = p /\ Side(c, 2) = q
        BY <2>6, <2>7, <3>1, <3>4
      <3>6. HasPlayer(c, p) /\ HasPlayer(c, q)
        BY <3>1, <3>5 DEF HasPlayer, HasRow
      <3>7. Winner(c) = p /\ Winner(c) = q
        BY <2>8, <3>1, <3>6 DEF Lost, Played
      <3> QED BY <2>12, <3>7
    <2>19. n # o
      BY <2>11
    <2> HIDE DEF n, o, c, p, q
    <2>20. HasPlayer(n, p) /\ HasPlayer(o, q)
      BY <2>6, <2>7 DEF p, q
    <2> QED BY <2>1, <2>8, <2>12, <2>14, <2>17, <2>18, <2>19, <2>20
  <1> QED BY TreeInvariant, <1>1, PTL


-----------------------------------------------------------------------------
(* The two matches on the way of a follow in front of the end node.        *)
LEMMA NextFeeds ==
  ASSUME TreeInv, NEW p \in Followed, NEW d \in 1..Rounds - 1, NodeAt(p, d) \in Nodes
  PROVE  /\ NodeAt(p, d - 1) \in Nodes
         /\ \E i \in 1..2 : NodeAt(p, d) = Feeder(NodeAt(p, d - 1), i)
  <1>1. /\ draw \in Draws /\ d \in 0..Rounds - 1 /\ d > 0
    BY DEF TreeInv, RowsInTree
  <1>2. NodeAt(p, d)[1] = d /\ Parent(NodeAt(p, d)) = NodeAt(p, d - 1)
    BY <1>1, SeatPath
  <1> QED BY <1>1, <1>2, FeedsParent

(* If the next match has been played, so has this one.                     *)
LEMMA PlayedBefore ==
  ASSUME TreeInv, NEW p \in Followed, NEW d \in 1..Rounds - 1, NodeAt(p, d) \in Nodes,
         ~Bye(NodeAt(p, d)), Completed(NodeAt(p, d - 1))
  PROVE  /\ Completed(NodeAt(p, d)) /\ Winner(NodeAt(p, d)) # Nobody
         /\ HasPlayer(NodeAt(p, d - 1), Winner(NodeAt(p, d)))
  <1> DEFINE n == NodeAt(p, d)
             c == NodeAt(p, d - 1)
  <1>1. PICK i \in 1..2 : n = Feeder(c, i)
    BY NextFeeds
  <1>2. /\ draw \in Draws /\ d \in 0..Rounds - 1 /\ d - 1 \in 0..Rounds - 1 /\ d - 1 < Rounds - 1
    BY Powers DEF TreeInv, RowsInTree
  <1>3. n[1] = d /\ c[1] = d - 1
    BY <1>2, SeatPath
  <1>4. Reachable(n)
    BY <1>3 DEF Reachable
  <1>5. c \in DOMAIN rows /\ Side(c, i) # Nobody
    BY SidesKnown
  <1>6. Drawn(c, i) = Nobody
    <2>1. c[1] # Rounds - 1
      BY <1>2, <1>3
    <2> HIDE DEF n, c
    <2>2. ~Bye(Feeder(c, i))
      BY <1>1 DEF n
    <2> QED BY <2>1, <2>2 DEF Drawn
  <1>7. Side(c, i) \in Comers(c, i)
    BY <1>5 DEF TreeInv, SidesCame
  <1>8. Winner(n) = Side(c, i)
    <2> HIDE DEF n, c
    <2> QED BY <1>1, <1>4, <1>6, <1>7 DEF Comers
  <1>9. HasPlayer(c, Winner(n))
    BY <1>5, <1>8 DEF HasPlayer, HasRow
  <1>10. Completed(n)
    BY <1>5, <1>8 DEF Winner
  <1> QED BY <1>5, <1>8, <1>9, <1>10

(* With outcomes that are fresh for a day (relevanceWindow) and rounds a   *)
(* day apart, the end node is pending as it is said to be: what keeps the  *)
(* first column back is a match that is not two days old                   *)
(* (BuildBracketSlice).                                                    *)
THEOREM PendingIsTrue ==
  ASSUME Window <= 1
  PROVE  BracketSpec => []PendingIsOpen
  <1>1. TreeInv => PendingIsOpen
    <2> DEFINE d == FirstColumn(RelevantFollowed)
               positions == FocusPositions(RelevantFollowed, d)
               chosen == Chosen(Groups(WithSiblings(positions, d), d))
               slice == SliceOf(RelevantFollowed, d, chosen)
    <2> SUFFICES ASSUME TreeInv, BuildBracketSlice # NoSlice,
                        BuildBracketSlice.kind = "pending",
                        \A e \in 1..Rounds - 1 : /\ draw.day[e - 1] # NoTime
                                                 /\ draw.day[e] < draw.day[e - 1],
                        Completed(BuildBracketSlice.end)
                 PROVE  FALSE
      BY DEF PendingIsOpen
    <2>1. positions # {} /\ BuildBracketSlice = slice
      BY SliceIsOf
    <2>2. /\ d = FirstColumn(RelevantFollowed) /\ positions = FocusPositions(RelevantFollowed, d)
          /\ chosen = Chosen(Groups(WithSiblings(positions, d), d))
          /\ slice = SliceOf(RelevantFollowed, d, chosen)
      OBVIOUS
    <2> HIDE DEF d, positions, chosen, slice
    <2>3. d \in 1..Rounds - 1 /\ positions \in SUBSET (1..2^d) /\ Rounds \in Nat
      BY <2>2, FirstColumnOfSlice, PositionsInRound, Powers DEF TreeInv
    <2>4. slice.kind = EndKind(d) /\ slice.end = EndNode(d, chosen)
      BY <2>1, <2>2, SliceParts
    <2>5. CASE d = 1
      <3>1. Completed(Final)
        BY <2>1, <2>4, <2>5 DEF EndNode
      <3>2. Winner(Final) # Nobody
        BY <3>1, SidesKnown
      <3> QED BY <2>1, <2>4, <2>5, <3>2 DEF EndKind
    <2>6. CASE d # 1
      <3> DEFINE nexts == {g.next : g \in chosen}
      <3>1. PICK g \in chosen : /\ <<d - 1, g.next>> \in Nodes
                                /\ g.keys = {pos \in WithSiblings(positions, d) : ParentPos(pos) = g.next}
                                /\ \E pos \in positions : pos \in g.keys
        BY <2>1, <2>2, <2>3, ChosenParts
      <3>2. PICK pos \in positions : pos \in g.keys
        BY <3>1
      <3>3. PICK f \in RelevantFollowed : f.node[1] = d /\ f.node[2] = pos
        BY <2>2, <2>6 DEF FocusPositions
      <3> DEFINE p == f.player
                 n == f.node
      <3>4. /\ p \in Followed /\ n \in DOMAIN rows /\ n \in Nodes /\ HasPlayer(n, p)
            /\ n = NodeAt(p, d) /\ n[1] = d
            /\ \A o \in DOMAIN rows : HasPlayer(o, p) => n[1] <= o[1]
            /\ f = Focus(p, n)
        BY <3>3, FocusParts DEF RelevantFollowed
      <3> HIDE DEF p, n
      <3>5. ~Bye(n) /\ draw \in Draws /\ d \in 0..Rounds - 1 /\ d > 0
            /\ d - 1 \in 1..Rounds - 1 /\ d - 1 \in 0..Rounds - 1 /\ d - 1 > 0 /\ d - 1 - 1 = d - 2
        BY <2>3, <2>6, <3>4 DEF TreeInv, RowsAreMatches, RowsInTree
      <3>6. Parent(n) = NodeAt(p, d - 1) /\ Parent(NodeAt(p, d - 1)) = NodeAt(p, d - 2)
        BY <3>4, <3>5, SeatPath
      <3>7. NodeAt(p, d - 1) = <<d - 1, g.next>>
        BY <3>1, <3>2, <3>3, <3>4, <3>6 DEF Parent, n
      <3>8. slice.end = NodeAt(p, d - 2)
        <4>1. \A h \in chosen : /\ h.next \in {ParentPos(o) : o \in WithSiblings(positions, d)}
                                /\ ParentPos(h.next)
                                     = ParentPos(Foremost(Groups(WithSiblings(positions, d), d)).next)
          BY <2>2, GroupParts
        <4>2. WithSiblings(positions, d) \subseteq 1..2^d
          BY <2>3, ColumnInRound
        <4>3. \A o \in WithSiblings(positions, d) : o \in Nat \ {0}
          <5>1. d \in 0..Rounds
            BY <2>3
          <5>2. 2^d \in Nat
            BY <5>1, Powers
          <5>3. \A o \in 1..2^d : o \in Nat \ {0}
            BY <5>2
          <5> QED BY <4>2, <5>3
        <4>4. nexts \in SUBSET (Nat \ {0}) /\ g.next \in nexts
          BY <3>1, <4>1, <4>3, Siblings
        <4>5. \A x, y \in nexts : ParentPos(x) = ParentPos(y)
          BY <4>1
        <4>6. Min(nexts) \in nexts
          BY <4>4, <4>5, MinOfPair
        <4>7. ParentPos(Min(nexts)) = ParentPos(g.next)
          BY <4>4, <4>5, <4>6
        <4>8. EndNode(d, chosen) = <<d - 2, ParentPos(g.next)>>
          BY <2>6, <4>7 DEF EndNode
        <4> QED BY <2>4, <3>5, <3>6, <3>7, <4>8 DEF Parent
      <3>9. Completed(NodeAt(p, d - 2))
        BY <2>1, <3>8
      <3>10. Completed(NodeAt(p, d - 1)) /\ NodeAt(p, d - 1) \in Nodes
        <4>1. NodeAt(p, d - 1) \in Nodes
          BY <3>1, <3>7
        <4>2. ~Bye(NodeAt(p, d - 1))
          <5>1. d - 1 # Rounds - 1
            BY <2>3
          <5> QED BY <3>7, <5>1 DEF Bye
        <4>3. Completed(NodeAt(p, (d - 1) - 1))
          BY <3>5, <3>9
        <4> QED BY <3>4, <3>5, <4>1, <4>2, <4>3, PlayedBefore
      <3>11. /\ Completed(n) /\ Winner(n) # Nobody /\ HasPlayer(NodeAt(p, d - 1), Winner(n))
        BY <2>3, <3>4, <3>5, <3>10, PlayedBefore
      <3>12. Winner(n) # p
        <4>1. NodeAt(p, d - 1) \in DOMAIN rows /\ NodeAt(p, d - 1)[1] = d - 1
          BY <3>7, <3>11 DEF HasPlayer, HasRow
        <4>2. ~(d <= d - 1)
          BY <2>3
        <4> QED BY <3>4, <3>11, <4>1, <4>2
      <3>13. f.eliminated
        <4>1. Focus(p, n).eliminated = (Winner(n) \notin {Nobody, p})
          BY DEF Focus
        <4> QED BY <3>4, <3>11, <3>12, <4>1
      <3>14. Fresh(n)
        BY <3>13 DEF RelevantFollowed, Relevant, n
      <3>15. /\ NodeAt(p, d - 2)[1] = d - 2
             /\ \A e \in 0..Rounds - 1 : draw.day[e] \in 0..NoTime
             /\ NoTime \in Nat /\ today \in 0..MaxDay /\ Window \in Nat /\ MaxDay \in Nat
        <4>1. d - 2 \in 0..Rounds - 1
          BY <2>3, <2>6
        <4>2. NodeAt(p, d - 2)[1] = d - 2
          BY <3>4, <3>5, <4>1, SeatPath
        <4> QED BY <3>5, <4>2, DrawParts, BracketAssumption DEF TreeInv, NoTime
      <3>16. At(NodeAt(p, d - 2)) = NoTime \/ At(NodeAt(p, d - 2)) <= today
        BY <3>9, SidesKnown DEF TreeInv, PlayedInTime
      <3>17. At(NodeAt(p, d - 2)) = draw.day[d - 2] /\ At(n) = draw.day[d]
        BY <3>4, <3>15 DEF At
      <3> DEFINE x == draw.day[d - 2]
                 y == draw.day[d - 1]
                 z == draw.day[d]
      <3>18. /\ y # NoTime /\ z < y /\ x # NoTime /\ y < x
        BY <2>3, <3>5
      <3>19. x \in 0..NoTime /\ y \in 0..NoTime /\ z \in 0..NoTime
        <4>1. d - 2 \in 0..Rounds - 1
          BY <2>3, <2>6
        <4> QED BY <3>5, <3>15, <4>1
      <3>20. x <= today
        BY <3>16, <3>17, <3>18
      <3>21. z = NoTime \/ today - z <= Window
        BY <3>14, <3>17 DEF Fresh
      <3> HIDE DEF x, y, z
      <3>22. today \in Nat /\ x \in Nat /\ y \in Nat /\ z \in Nat /\ z # NoTime
        BY <3>15, <3>18, <3>19
      <3>23. today - z >= 2
        BY <3>18, <3>20, <3>22
      <3> QED BY <3>15, <3>21, <3>22, <3>23
    <2> QED BY <2>5, <2>6
  <1> QED BY TreeInvariant, <1>1, PTL


-----------------------------------------------------------------------------
(* A step of the tree leaves no follow in focus further back than one was. *)

(* Every follow stands in a row from the day of the draw.                  *)
LEMMA InTheDraw ==
  ASSUME TreeInv, NEW p \in Followed
  PROVE  \E n \in DOMAIN rows : HasPlayer(n, p)
  <1> DEFINE k == Rounds - 1
             seat == draw.seat[p]
             m == NodeAt(p, k)
  <1>1. /\ draw \in Draws /\ k \in 0..Rounds - 1 /\ k \in 1..Rounds - 1 /\ k > 0
        /\ Rounds = k + 1 /\ Rounds - k = 1 /\ p # Nobody /\ Rounds \in 0..Rounds
    BY Powers, DrawParts DEF TreeInv, RowsInTree
  <1>2. /\ 2^k \in Nat \ {0} /\ 2^Rounds = 2 * 2^k /\ 2^1 = 2
    <2>1. k \in 0..Rounds
      BY <1>1
    <2> HIDE DEF k
    <2>2. 2^k \in Nat \ {0} /\ 2^(k + 1) = 2 * 2^k
      BY <1>1, <2>1, Powers
    <2> QED BY <1>1, <2>2
  <1>3. seat \in 1..2^Rounds
    BY <1>1, DrawParts
  <1>4. m = <<k, (seat - 1) \div 2 + 1>>
    BY <1>1, <1>2 DEF NodeAt
  <1> HIDE DEF k, seat
  <1>5. /\ seat \in Nat \ {0} /\ (seat - 1) \div 2 + 1 \in 1..2^k
        /\ (seat - 1) \div 2 + 1 = (seat + 1) \div 2
    BY <1>2, <1>3
  <1>6. m \in Nodes
    BY <1>1, <1>4, <1>5 DEF Nodes
  <1>7. Reachable(m)
    BY <1>4 DEF Reachable
  <1>8. CASE ~Bye(m)
    <2>1. \E i \in 1..2 : seat = 2 * ((seat - 1) \div 2 + 1) - 2 + i
      BY <1>5
    <2>2. PICK i \in 1..2 : seat = 2 * m[2] - 2 + i
      BY <1>4, <2>1
    <2>3. Entrant(seat) = p
      <3>1. \A q \in Followed : draw.seat[q] = seat => q = p
        BY <1>1, DrawParts DEF seat
      <3> QED BY <3>1 DEF Entrant, seat
    <2>4. m[1] = Rounds - 1
      BY <1>4 DEF k
    <2> HIDE DEF m
    <2>5. Drawn(m, i) = p
      BY <2>2, <2>3, <2>4 DEF Drawn
    <2>6. HasRow(m) /\ Side(m, i) = p
      BY <1>1, <1>6, <1>7, <1>8, <2>5 DEF TreeInv, DrawnStand
    <2> QED BY <2>6 DEF HasPlayer, HasRow
  <1>9. CASE Bye(m)
    <2> DEFINE n == NodeAt(p, k - 1)
    <2>1. PICK i \in 1..2 : m = Feeder(n, i)
      BY <1>1, <1>6, NextFeeds
    <2>2. n \in Nodes
      BY <1>1, <1>6, NextFeeds
    <2>3. n[1] = k - 1 /\ n[1] # Rounds - 1
      BY <1>1 DEF NodeAt
    <2>4. Reachable(n) /\ ~Bye(n)
      BY <2>3 DEF Reachable, Bye
    <2>5. ASSUME NEW q \in Followed, NodeAt(q, Rounds - 1) = m PROVE q = p
      <3>1. NodeAt(q, k) = <<k, (draw.seat[q] - 1) \div 2 + 1>>
        BY <1>1, <1>2 DEF NodeAt
      <3>2. (draw.seat[q] - 1) \div 2 = (seat - 1) \div 2
        <4>1. <<k, (draw.seat[q] - 1) \div 2 + 1>> = <<k, (seat - 1) \div 2 + 1>>
          BY <1>4, <2>5, <3>1 DEF k
        <4>2. draw.seat[q] \in 1..2^Rounds
          BY <1>1, DrawParts
        <4>3. (draw.seat[q] - 1) \div 2 \in Int /\ (seat - 1) \div 2 \in Int
          BY <1>2, <1>5, <4>2
        <4> QED BY <4>1, <4>3
      <3>3. draw.seat[q] \in Nat \ {0}
        <4>1. draw.seat[q] \in 1..2^Rounds
          BY <1>1, DrawParts
        <4> QED BY <1>2, <4>1
      <3>4. ParentPos(draw.seat[q]) = ParentPos(seat)
        BY <1>5, <3>2, <3>3 DEF ParentPos
      <3>5. ParentPos(seat) \in draw.byes
        <4>1. (seat - 1) \div 2 + 1 \in draw.byes
          BY <1>4, <1>9 DEF Bye
        <4> QED BY <1>5, <4>1 DEF ParentPos
      <3> QED BY <1>1, <3>4, <3>5, DrawParts DEF seat
    <2> DEFINE spared == {q \in Followed : NodeAt(q, Rounds - 1) = Feeder(n, i)}
    <2>6. spared = {p}
      <3>1. p \in spared
        BY <2>1 DEF k
      <3>2. \A q \in spared : q = p
        BY <2>1, <2>5
      <3> HIDE DEF spared
      <3> QED BY <3>1, <3>2
    <2>7. Drawn(n, i) = p
      <3>1. (CHOOSE q \in spared : TRUE) = p
        <4> HIDE DEF spared
        <4> QED BY <2>6
      <3>2. Bye(Feeder(n, i)) /\ spared # {}
        BY <1>9, <2>1, <2>6
      <3> HIDE DEF n
      <3> QED BY <2>3, <3>1, <3>2 DEF Drawn
    <2> HIDE DEF n
    <2>8. HasRow(n) /\ Side(n, i) = p
      BY <1>1, <2>2, <2>4, <2>7 DEF TreeInv, DrawnStand
    <2> QED BY <2>8 DEF HasPlayer, HasRow
  <1> QED BY <1>8, <1>9

(* What FirstIsFurthest says, of the state that a step leads to.           *)
Furthest ==
  /\ \A f \in RelevantFollowed : f.node[1] <= FirstColumn(RelevantFollowed)
  /\ \/ FirstColumn(RelevantFollowed) = 1
     \/ \E f \in RelevantFollowed : f.node[1] = FirstColumn(RelevantFollowed)
  /\ FirstColumn(RelevantFollowed) \in 1..Rounds - 1
  /\ \A f \in RelevantFollowed :
       /\ f.player \in Followed /\ f.node \in DOMAIN rows /\ f.node \in Nodes
       /\ HasPlayer(f.node, f.player) /\ f.node = NodeAt(f.player, f.node[1])
       /\ \A o \in DOMAIN rows : HasPlayer(o, f.player) => f.node[1] <= o[1]
       /\ f = Focus(f.player, f.node) /\ Relevant(f)
  /\ \A p \in Followed, m, n \in DOMAIN rows :
       HasPlayer(m, p) /\ HasPlayer(n, p) /\ m[1] < n[1] => Winner(n) = p

LEMMA FurthestHolds == TreeInv => Furthest
  <1> SUFFICES ASSUME TreeInv PROVE Furthest
    OBVIOUS
  <1>1. \A f \in RelevantFollowed :
       /\ f.player \in Followed /\ f.node \in DOMAIN rows /\ f.node \in Nodes
       /\ HasPlayer(f.node, f.player) /\ f.node = NodeAt(f.player, f.node[1])
       /\ \A o \in DOMAIN rows : HasPlayer(o, f.player) => f.node[1] <= o[1]
       /\ f = Focus(f.player, f.node) /\ Relevant(f)
    <2> TAKE f \in RelevantFollowed
    <2>1. f \in Foci /\ Relevant(f)
      BY DEF RelevantFollowed
    <2> QED BY <2>1, FocusParts
  <1>2. FirstColumn(RelevantFollowed) \in 1..Rounds - 1
    BY FirstColumnOfSlice DEF TreeInv
  <1>3. \A p \in Followed, m, n \in DOMAIN rows :
          HasPlayer(m, p) /\ HasPlayer(n, p) /\ m[1] < n[1] => Winner(n) = p
    BY WonBehind
  <1> QED BY <1>1, <1>2, <1>3, FirstIsFurthest DEF Furthest

LEMMA StepGrows ==
  ASSUME TreeInv, [BracketNext]_bracketVars
  PROVE  Grows /\ today \in Nat /\ today' \in Nat /\ today <= today'
  <1>1. TreeInv' /\ MaxDay \in Nat
    BY TreeStep, BracketAssumption
  <1>2. today \in Nat /\ today' \in Nat
    BY <1>1 DEF TreeInv
  <1>3. CASE \E n \in Nodes : Import(n) \/ \E w \in 1..2 : Finish(n, w)
    BY <1>2, <1>3, ImportGrows, FinishGrows
  <1>4. CASE NextDay
    BY <1>2, <1>4, DayGrows
  <1>5. CASE UNCHANGED bracketVars
    BY <1>2, <1>5 DEF bracketVars, Grows, Side, Winner, Completed, HasRow
  <1> QED BY <1>2, <1>3, <1>4, <1>5 DEF BracketNext

(* Whoever is worth showing after a step was so before it, in a match that *)
(* lies as far back at least.                                              *)
LEMMA WasInFocus ==
  ASSUME TreeInv, Furthest', [BracketNext]_bracketVars, NEW f \in RelevantFollowed'
  PROVE  \E g \in RelevantFollowed : f.node[1] <= g.node[1]
  <1> DEFINE p == f.player
             n == f.node
  <1>1. /\ p \in Followed /\ n \in DOMAIN rows' /\ n \in Nodes /\ HasPlayer(n, p)'
        /\ n = NodeAt(p, n[1])'
        /\ \A o \in DOMAIN rows' : HasPlayer(o, p)' => n[1] <= o[1]
        /\ f = Focus(p, n)' /\ Relevant(f)'
    BY DEF Furthest, Nodes
  <1>2. /\ \A m \in DOMAIN rows' : HasPlayer(m, p)' /\ n[1] < m[1] => Winner(m)' = p
    BY <1>1 DEF Furthest
  <1> HIDE DEF p, n
  <1>3. Grows /\ today \in Nat /\ today' \in Nat /\ today <= today'
    BY StepGrows
  <1>4. PICK m \in DOMAIN rows : Focus(p, m) \in Foci /\ HasPlayer(m, p)
    BY <1>1, InTheDraw, HasFocus
  <1>5. /\ m \in Nodes /\ m = NodeAt(p, m[1]) /\ draw \in Draws /\ p # Nobody
    BY <1>1, <1>4, DrawParts DEF TreeInv, RowsInTree, OnTheirWay
  <1>6. m \in DOMAIN rows' /\ HasPlayer(m, p)'
    BY <1>3, <1>4, <1>5 DEF Grows, HasPlayer, HasRow
  <1>7. n[1] <= m[1] /\ n[1] \in Nat /\ m[1] \in 0..Rounds - 1 /\ m[1] \in Nat
    BY <1>1, <1>5, <1>6, NodeParts
  <1>8. NodeAt(p, n[1])' = NodeAt(p, n[1])
    BY <1>3 DEF Grows, NodeAt
  <1>9. Relevant(Focus(p, m))
    <2> DEFINE g == Focus(p, m)
    <2>1. /\ g.eliminated = (Winner(m) \notin {Nobody, p}) /\ g.node = m
          /\ g.champion = (Winner(m) = p /\ m = Final)
      BY DEF Focus
    <2>2. /\ Focus(p, n)'.eliminated = (Winner(n)' \notin {Nobody, p}) /\ Focus(p, n)'.node = n
          /\ Focus(p, n)'.champion = (Winner(n)' = p /\ n = Final)
      BY DEF Focus, Final
    <2>3. CASE Winner(m) \notin {Nobody, p} \/ (Winner(m) = p /\ m = Final)
      <3>1. Winner(m)' = Winner(m)
        BY <1>3, <1>5, <2>3 DEF Grows
      <3>2. n[1] = m[1]
        <4>1. CASE Winner(m) \notin {Nobody, p}
          BY <1>2, <1>6, <1>7, <3>1, <4>1
        <4>2. CASE m = Final
          BY <1>7, <4>2 DEF Final
        <4> QED BY <2>3, <4>1, <4>2
      <3>3. n = m
        BY <1>1, <1>5, <1>8, <3>2
      <3>4. Focus(p, n)'.eliminated \/ Focus(p, n)'.champion
        BY <2>2, <2>3, <3>1, <3>3
      <3>5. Fresh(m)'
        BY <1>1, <2>2, <3>3, <3>4 DEF Relevant
      <3>6. At(m)' = At(m)
        BY <1>3 DEF At, Grows
      <3>7. At(m) \in Nat /\ Window \in Nat
        <4>1. draw.day[m[1]] \in 0..NoTime
          BY <1>5, <1>7, DrawParts
        <4> QED BY <4>1, BracketAssumption DEF At, NoTime
      <3>8. Fresh(m)
        <4>1. At(m) = NoTime \/ today' - At(m) <= Window
          BY <3>5, <3>6 DEF Fresh, NoTime
        <4>2. At(m) = NoTime \/ today - At(m) <= Window
          BY <1>3, <3>7, <4>1
        <4> QED BY <4>2 DEF Fresh
      <3> HIDE DEF g
      <3> QED BY <2>1, <3>8 DEF Relevant, g
    <2>4. CASE ~(Winner(m) \notin {Nobody, p} \/ (Winner(m) = p /\ m = Final))
      <3> HIDE DEF g
      <3> QED BY <2>1, <2>4 DEF Relevant, g
    <2> QED BY <2>3, <2>4
  <1>10. Focus(p, m) \in RelevantFollowed /\ Focus(p, m).node = m
    BY <1>4, <1>9 DEF RelevantFollowed, Focus
  <1>11. f.node[1] <= Focus(p, m).node[1]
    BY <1>7, <1>10 DEF n
  <1> QED BY <1>10, <1>11

(* The slice never turns back to an earlier round, in whatever order the   *)
(* rows come, players go out and results grow old (relevantFollowed).      *)
THEOREM SliceMovesOn == BracketSpec => SliceNeverTurnsBack
  <1>1. TreeInv /\ Furthest /\ Furthest' /\ [BracketNext]_bracketVars
          => [LET focus == RelevantFollowed
              IN  focus # {} => FirstColumn(RelevantFollowed)' <= FirstColumn(focus)]_bracketVars
    <2> SUFFICES ASSUME TreeInv, Furthest, Furthest', [BracketNext]_bracketVars
                 PROVE  FirstColumn(RelevantFollowed)' <= FirstColumn(RelevantFollowed)
      OBVIOUS
    <2> DEFINE d == FirstColumn(RelevantFollowed)
               e == FirstColumn(RelevantFollowed)'
    <2>1. /\ d \in 1..Rounds - 1 /\ \A g \in RelevantFollowed : g.node[1] <= d /\ g.node \in Nodes
      BY DEF Furthest
    <2>2. /\ e \in 1..Rounds - 1
          /\ e = 1 \/ \E f \in RelevantFollowed' : f.node[1] = e
      BY DEF Furthest
    <2> HIDE DEF d, e
    <2>3. ASSUME e = 1 PROVE e <= d
      BY <2>1, <2>3, Powers
    <2>4. ASSUME \E f \in RelevantFollowed' : f.node[1] = e PROVE e <= d
      <3>1. PICK f \in RelevantFollowed' : f.node[1] = e
        BY <2>4
      <3>2. PICK g \in RelevantFollowed : f.node[1] <= g.node[1]
        BY WasInFocus
      <3>3. g.node[1] \in 0..Rounds - 1
        BY <2>1, NodeParts
      <3> QED BY <2>1, <2>2, <3>1, <3>2, <3>3, Powers
    <2> QED BY <2>2, <2>3, <2>4 DEF d, e
  <1> QED BY TreeInvariant, FurthestHolds, <1>1, PTL DEF BracketSpec, SliceNeverTurnsBack

-----------------------------------------------------------------------------
(* Each match of the slice, with or without a row, is on the card of the   *)
(* draw, for any draw that has more than its last two rounds: the slice    *)
(* goes no deeper than the rows do, and at their depth it shows no match   *)
(* that has none (WithSiblings, completeDrawCard).                         *)
THEOREM SlicesAreOnCards == BracketSpec => []SliceOnCard
  <1>1. TreeInv => SliceOnCard
    <2> DEFINE focus == RelevantFollowed
               d == FirstColumn(focus)
               positions == FocusPositions(focus, d)
               column == WithSiblings(positions, d)
               chosen == Chosen(Groups(column, d))
               slice == SliceOf(focus, d, chosen)
    <2> SUFFICES ASSUME TreeInv, draw.positioned, Deepest > 1, NEW n \in slice.boxes
                 PROVE  n \in Card
      BY DEF SliceOnCard, BuildBracketSlice
    <2>1. slice.boxes = ({d} \X UNION {g.keys : g \in chosen})
                        \cup ({d - 1} \X {g.next : g \in chosen})
      BY DEF SliceOf
    <2>2. /\ d \in 1..Rounds - 1 /\ d \in 0..Rounds /\ d - 1 \in 0..Rounds - 1
          /\ d - 1 \in 0..Rounds /\ Rounds \in Nat
      BY FirstColumnOfSlice, Powers DEF TreeInv
    <2>3. /\ 2^d \in Nat \ {0} /\ 2^(d - 1) \in Nat \ {0} /\ 2^d = 2 * 2^(d - 1)
      <3> DEFINE e == d - 1
      <3>1. e \in 0..Rounds - 1 /\ e \in 0..Rounds /\ d = e + 1
        BY <2>2
      <3> HIDE DEF e
      <3>2. 2^e \in Nat \ {0} /\ 2^(e + 1) = 2 * 2^e
        BY <3>1, Powers
      <3> QED BY <3>1, <3>2 DEF e
    <2>4. positions \in SUBSET (1..2^d) /\ column \in SUBSET (1..2^d)
      <3>1. positions \subseteq 1..2^d
        BY PositionsInRound
      <3> QED BY <2>2, <3>1, ColumnInRound
    <2>5. \A g \in chosen : /\ g.keys \subseteq column
                            /\ g.next \in {ParentPos(pos) : pos \in column}
      BY GroupParts
    <2>6. Deepest \in 2..Rounds - 1 /\ \A m \in DOMAIN rows : m[1] <= Deepest
      <3> DEFINE depths == {-1} \cup {m[1] : m \in DOMAIN rows}
      <3>1. \A m \in DOMAIN rows : m[1] \in 0..Rounds - 1
        BY NodeParts DEF TreeInv, RowsInTree
      <3>2. depths \in SUBSET ((-1)..Rounds) /\ depths # {}
        BY <2>2, <3>1
      <3>3. Max(depths) \in depths /\ \A e \in depths : e <= Max(depths)
        BY <2>2, <3>2, MaxOfBounded
      <3>4. Deepest \in depths /\ \A e \in depths : e <= Deepest
        BY <3>3 DEF Deepest
      <3> QED BY <3>1, <3>4
    <2>7. Card = {m \in DOMAIN rows : m[1] = Deepest}
                 \cup UNION {FillDrawRound(e) : e \in 0..Deepest - 1}
      BY <2>6 DEF Card, Complete
    <2>8. /\ d = 1 \/ \E f \in focus : f.node[1] = d
          /\ \A f \in focus : f.node \in DOMAIN rows
      <3>1. \A f \in focus : f.node \in DOMAIN rows
        BY FocusParts DEF RelevantFollowed
      <3> QED BY <3>1, FirstIsFurthest
    <2>9. d <= Deepest
      BY <2>2, <2>6, <2>8
    <2>10. \A e \in 0..Deepest - 1 : \A pos \in 1..2^e : <<e, pos>> \in Card
      BY <2>7 DEF FillDrawRound
    <2>11. CASE n \in {d - 1} \X {g.next : g \in chosen}
      <3>1. PICK g \in chosen : n = <<d - 1, g.next>>
        BY <2>11
      <3>2. PICK pos \in 1..2^d : g.next = ParentPos(pos)
        BY <2>4, <2>5, <3>1
      <3>3. ParentPos(pos) \in 1..2^(d - 1)
        BY <2>3, <3>2 DEF ParentPos
      <3>4. d - 1 \in 0..Deepest - 1
        BY <2>2, <2>6, <2>9
      <3> QED BY <2>10, <3>1, <3>2, <3>3, <3>4
    <2>12. CASE n \in {d} \X UNION {g.keys : g \in chosen}
      <3>1. PICK pos \in column : n = <<d, pos>>
        BY <2>5, <2>12
      <3>2. pos \in 1..2^d
        BY <2>4, <3>1
      <3>3. CASE d < Deepest
        <4>1. d \in 0..Deepest - 1
          BY <2>2, <2>6, <3>3
        <4> QED BY <2>10, <3>1, <3>2, <4>1
      <3>4. CASE d = Deepest
        <4>1. d # 1
          BY <2>6, <3>4
        <4>2. n \in DOMAIN rows
          <5>1. CASE pos \in positions
            <6>1. PICK f \in focus : f.node[1] = d /\ f.node[2] = pos
              BY <4>1, <5>1 DEF FocusPositions
            <6>2. f.node \in Nodes
              BY FirstColumnOfSlice DEF TreeInv
            <6>3. f.node = <<d, pos>>
              BY <6>1, <6>2, NodeParts
            <6> QED BY <2>8, <3>1, <6>3
          <5>2. CASE pos \notin positions
            <6>1. CountFollowed(<<d, pos>>) > 0
              BY <3>1, <4>1, <5>2 DEF WithSiblings
            <6>2. {p \in Followed : HasPlayer(<<d, pos>>, p)} # {}
              <7>1. ASSUME {p \in Followed : HasPlayer(<<d, pos>>, p)} = {} PROVE FALSE
                <8>1. CountFollowed(<<d, pos>>) = 0
                  BY <7>1, FS_EmptySet DEF CountFollowed
                <8> QED BY <6>1, <8>1
              <7> QED BY <7>1
            <6> QED BY <3>1, <6>2 DEF HasPlayer, HasRow
          <5> QED BY <5>1, <5>2
        <4> QED BY <2>7, <3>1, <3>4, <4>2
      <3> QED BY <2>2, <2>6, <2>9, <3>3, <3>4
    <2> QED BY <2>1, <2>11, <2>12
  <1> QED BY TreeInvariant, <1>1, PTL
=============================================================================

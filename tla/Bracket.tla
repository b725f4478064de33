------------------------------ MODULE Bracket -------------------------------
(***************************************************************************)
(* What is shown of a knock-out draw: the slice of it on the home screen   *)
(* (storage/bracket_slice.go) and the whole draw on the tournament's page  *)
(* (storage/draw_card.go), both computed from the tree of the rows that    *)
(* bear a position (storage/draw_tree.go).                                 *)
(*                                                                         *)
(* The functions are pure; what makes them hard is the tree under them: an *)
(* import that lags behind the results, rows that are not there yet, byes, *)
(* players out of it in different rounds, times that are missing, and the  *)
(* rows without a position that Job A makes.  A node is <<depth, pos>>:    *)
(* the final is <<0, 1>>, and <<d, p>> feeds <<d - 1, ceil(p / 2)>>.       *)
(* Only the nodes a follow can come to are kept, and a row that is live    *)
(* counts as scheduled, since nothing here tells them apart.               *)
(***************************************************************************)
EXTENDS Integers, FiniteSets, FiniteSetsExt

CONSTANTS Rounds,    \* rounds of the draw
          Followed,  \* players in it the user follows
          Rank,      \* Rank[p], 0 for a player without one
          Slug,      \* Slug[p]: the place of the name in the alphabet
          Draws,     \* the draws explored: seats, byes, days of the rounds, and
                     \* whether all rows have a position
          Window,    \* relevanceWindow, in days
          MaxDay,    \* the clock stops here
          Other,     \* a player the user does not follow
          Nobody,    \* a side that is not known yet
          NoSlice    \* the tournament is shown by its cover

VARIABLES draw,  \* the draw
          rows,  \* the rows with a position, by node
          today  \* the day

bracketVars == <<draw, rows, today>>

Nodes == UNION {{d} \X (1..2^d) : d \in 0..Rounds - 1}
Final == <<0, 1>>
NoTime == MaxDay + 1
Someone == Followed \cup {Other}

(* scheduled_at, if any, is the day of the round.                          *)
NodeRow == [sides : (Someone \cup {Nobody}) \X (Someone \cup {Nobody}), winner : 0..2]

(* followedFocus, and BracketSlice: `more` are the follows it leaves out.  *)
FollowedFocus == [player : Followed, node : Nodes, eliminated : BOOLEAN, champion : BOOLEAN]

BracketSlice ==
  [first : 1..Rounds - 1, boxes : SUBSET Nodes, end : Nodes,
   kind : {"champion", "pending"},
   note : {"champion", "could_meet", "in_round", "plays", "played"},
   more : SUBSET FollowedFocus, open : Nodes, recent : SUBSET Nodes]

ASSUME BracketAssumption ==
  /\ Rounds \in Nat /\ Rounds > 1
  /\ \A d \in 0..Rounds - 1 : 2^d \in 1..999   \* as the ids of fillDrawRound have it
  /\ {Window, MaxDay} \subseteq Nat
  /\ Rank \in [Followed -> Nat] /\ Slug \in [Followed -> Nat]
  /\ \A p, q \in Followed : p # q => Slug[p] # Slug[q]
  /\ Other \notin Followed /\ Nobody \notin Someone /\ NoSlice \notin BracketSlice
  /\ \A d \in Draws :
       /\ d.seat \in [Followed -> 1..2^Rounds]
       /\ \A p, q \in Followed : p # q => d.seat[p] # d.seat[q]
       /\ d.byes \subseteq 1..2^(Rounds - 1)
       /\ \A p, q \in Followed :    \* a bye is for one
            p # q /\ (d.seat[p] + 1) \div 2 \in d.byes
              => (d.seat[p] + 1) \div 2 # (d.seat[q] + 1) \div 2
       /\ d.day \in [0..Rounds - 1 -> 0..NoTime]
       /\ d.positioned \in BOOLEAN

-----------------------------------------------------------------------------
(* The tree.                                                               *)

ParentPos(pos) == (pos + 1) \div 2

SiblingPos(pos) == pos + 1 - 2 * ((pos + 1) % 2)

Parent(n) == <<n[1] - 1, ParentPos(n[2])>>

HasRow(n) == n \in DOMAIN rows

Side(n, i) == rows[n].sides[i]

HasPlayer(n, p) == HasRow(n) /\ \E i \in 1..2 : Side(n, i) = p

Completed(n) == HasRow(n) /\ rows[n].winner # 0

Winner(n) == IF Completed(n) THEN Side(n, rows[n].winner) ELSE Nobody

At(n) == draw.day[n[1]]

CountFollowed(n) == Cardinality({p \in Followed : HasPlayer(n, p)})

-----------------------------------------------------------------------------
(* relevantFollowed.                                                       *)

(* Without a time an outcome is fresh for ever.                            *)
Fresh(n) == At(n) = NoTime \/ today - At(n) <= Window

(* Nodes of a set in which a player has come furthest.                     *)
Latest(nodes, p) == {n \in nodes : /\ HasPlayer(n, p)
                                  /\ \A o \in nodes : HasPlayer(o, p) => n[1] <= o[1]}

Focus(p, n) == [player |-> p, node |-> n,
                eliminated |-> Winner(n) \notin {Nobody, p},
                champion |-> Winner(n) = p /\ n = Final]

Foci == UNION {{Focus(p, n) : n \in Latest(DOMAIN rows, p)} : p \in Followed}

(* Mutant of Relevant: a player who won long ago is dropped like the others*)
RelevantInTime(f) == Fresh(f.node)

(* Mutant of Relevant: once in the draw, always in the slice.              *)
RelevantAlways(f) == TRUE

Relevant(f) == f.eliminated \/ f.champion => Fresh(f.node)

RelevantFollowed == {f \in Foci : Relevant(f)}

(* Ranked players first, by rank and then by name.                         *)
LessRank(p, q) ==
  \/ Rank[p] # 0 /\ Rank[q] = 0
  \/ /\ (Rank[p] = 0) = (Rank[q] = 0)
     /\ Rank[p] < Rank[q] \/ (Rank[p] = Rank[q] /\ Slug[p] < Slug[q])

Highest(focus) ==
  CHOOSE f \in focus : \A g \in focus \ {f} : LessRank(f.player, g.player)

-----------------------------------------------------------------------------
(* BuildBracketSlice.  `focus` is what relevantFollowed returns, `d` the   *)
(* depth of the first column.                                              *)

(* Mutant of FirstColumn: the final may be the first column.               *)
FirstColumnAny(focus) == Max({f.node[1] : f \in focus})

FirstColumn(focus) == Max({1} \cup {f.node[1] : f \in focus})

FocusPositions(focus, d) ==
  {f.node[2] : f \in {g \in focus : g.node[1] = d}}
  \cup {pos \in 1..2 : d = 1 /\ \E f \in focus :
                         f.node[1] = 0 /\ HasPlayer(<<d, pos>>, f.player)}

(* Mutant of WithSiblings: every match is shown with its neighbour.        *)
WithSiblingsAlways(positions, d) ==
  positions \cup {SiblingPos(pos) : pos \in positions}

(* The neighbours, if one of them is followed or the final is next.        *)
WithSiblings(positions, d) ==
  positions \cup {sib \in {SiblingPos(pos) : pos \in positions} :
                    d = 1 \/ CountFollowed(<<d, sib>>) > 0}

FollowedIn(keys, d) == MapThenSumSet(LAMBDA pos : CountFollowed(<<d, pos>>), keys)

(* The matches of the first column that feed one match of the second.      *)
Group(keys, next, d) ==
  [keys |-> keys, next |-> next, count |-> FollowedIn(keys, d),
   first |-> Min({NoTime} \cup {At(n) : n \in ({d} \X keys) \cap DOMAIN rows})]

Groups(column, d) ==
  {Group({pos \in column : ParentPos(pos) = p}, p, d) :
     p \in {ParentPos(pos) : pos \in column}}

Before(g, h) ==
  \/ g.count > h.count
  \/ /\ g.count = h.count
     /\ g.first < h.first \/ (g.first = h.first /\ g.next < h.next)

Foremost(groups) == CHOOSE g \in groups : \A h \in groups \ {g} : Before(g, h)

(* Mutant of Chosen: the two groups with most to show.                     *)
ChosenFirstTwo(groups) ==
  LET rest == groups \ {Foremost(groups)}
  IN  {Foremost(groups)} \cup IF rest = {} THEN {} ELSE {Foremost(rest)}

(* The first group, and the other one that feeds the same node.            *)
Chosen(groups) ==
  LET first == Foremost(groups)
  IN  {g \in groups : ParentPos(g.next) = ParentPos(first.next)}

(* The champion's node comes after the final, as its winner or pending.    *)
EndNode(d, chosen) ==
  IF d = 1 THEN Final ELSE <<d - 2, ParentPos(Min({g.next : g \in chosen}))>>

EndKind(d) == IF d = 1 /\ Winner(Final) # Nobody THEN "champion" ELSE "pending"

(* Mutant of Active: whoever stands in the match.                          *)
ActiveAtAll(focus, n) == \E f \in focus : HasPlayer(n, f.player)

(* subtreeHasActive.                                                       *)
Active(focus, n) ==
  \E f \in focus : /\ ~f.eliminated
                   /\ HasPlayer(n, f.player)
                   /\ Winner(n) \in {Nobody, f.player}

NoteKind(focus, d, chosen) ==
  LET inRound == Cardinality({f \in focus : f.node[1] = d /\ ~f.eliminated})
  IN  IF \E f \in focus : f.champion THEN "champion"
      ELSE IF inRound >= 3 THEN "in_round"
      ELSE IF \E g \in chosen : /\ Active(focus, <<d, 2 * g.next - 1>>)
                                /\ Active(focus, <<d, 2 * g.next>>)
           THEN "could_meet"
      ELSE IF inRound >= 2 THEN "in_round"
      ELSE IF Completed(Highest(focus).node) THEN "played" ELSE "plays"

(* Mutant of DefaultKey: the focus is taken for granted to be in the slice.*)
DefaultUnseen(focus, d, boxes) == Highest(focus).node

DefaultKey(focus, d, boxes) ==
  LET here == {f \in focus : f.node \in boxes}
      open == {f \in here : ~Completed(f.node)}
  IN  IF /\ Final \in boxes /\ Completed(Final)
         /\ \E f \in focus : HasPlayer(Final, f.player)
      THEN Final
      ELSE IF open # {} THEN Highest(open).node
      ELSE IF here # {} THEN Highest(here).node
      ELSE <<d, Min({n[2] : n \in {o \in boxes : o[1] = d}})>>

Played == {n \in DOMAIN rows : Completed(n)}

LastPlayed(p) == Latest(Played, p)

RecentResults == {n \in UNION {LastPlayed(p) : p \in Followed} : Fresh(n)}

SliceOf(focus, d, chosen) ==
  LET boxes == ({d} \X UNION {g.keys : g \in chosen})
               \cup ({d - 1} \X {g.next : g \in chosen})
  IN  [first |-> d, boxes |-> boxes, end |-> EndNode(d, chosen),
       kind |-> EndKind(d), note |-> NoteKind(focus, d, chosen),
       more |-> {f \in focus : ~\E n \in boxes : HasPlayer(n, f.player)},
       open |-> DefaultKey(focus, d, boxes), recent |-> RecentResults]

(* Without a relevant follow, or without the row he came to the final by,  *)
(* there is no slice.                                                      *)
BuildBracketSlice ==
  LET focus == RelevantFollowed
      d == FirstColumn(focus)
      positions == FocusPositions(focus, d)
  IN  IF focus = {} \/ positions = {} THEN NoSlice
      ELSE SliceOf(focus, d, Chosen(Groups(WithSiblings(positions, d), d)))

-----------------------------------------------------------------------------
(* completeDrawCard, over all rows of the edition: the nodes on the card.  *)

Deepest == Max({-1} \cup {n[1] : n \in DOMAIN rows})

FillDrawRound(d) == {d} \X (1..2^d)

(* One row without a position, as Job A makes them (Intake), and the card  *)
(* is left as it is.                                                       *)
Complete == draw.positioned /\ Deepest >= 1

Card == IF Complete
        THEN {n \in DOMAIN rows : n[1] = Deepest}
             \cup UNION {FillDrawRound(d) : d \in 0..Deepest - 1}
        ELSE DOMAIN rows

-----------------------------------------------------------------------------
(* The tree as the import of the draws (tennis-data-storage) leaves it.    *)

NodeAt(p, d) == <<d, (draw.seat[p] - 1) \div 2^(Rounds - d) + 1>>

Reachable(n) == \E p \in Followed : NodeAt(p, n[1]) = n

Bye(n) == n[1] = Rounds - 1 /\ n[2] \in draw.byes

Feeder(n, i) == <<n[1] + 1, 2 * n[2] - 2 + i>>

Entrant(seat) == IF \E p \in Followed : draw.seat[p] = seat
                 THEN CHOOSE p \in Followed : draw.seat[p] = seat ELSE Other

(* Whom a side names from the day of the draw: a player of the first round,*)
(* or one with a bye.                                                      *)
Drawn(n, i) ==
  LET spared == {p \in Followed : NodeAt(p, Rounds - 1) = Feeder(n, i)}
  IN  IF n[1] = Rounds - 1 THEN Entrant(2 * n[2] - 2 + i)
      ELSE IF Bye(Feeder(n, i)) /\ spared # {}
           THEN CHOOSE p \in spared : TRUE ELSE Nobody

(* Whom a side may name: who is drawn, who won the match that feeds it, or *)
(* any stranger.                                                           *)
Comers(n, i) ==
  IF Drawn(n, i) # Nobody THEN {Drawn(n, i)}
  ELSE IF Reachable(Feeder(n, i)) THEN {Winner(Feeder(n, i))}
  ELSE {Nobody, Other}

(* A row is there once a participant is known, and names him from then on. *)
Import(n) ==
  /\ Reachable(n) /\ ~Bye(n) /\ ~Completed(n)
  /\ \E x \in Comers(n, 1), y \in Comers(n, 2) :
       /\ {x, y} # {Nobody}
       /\ HasRow(n) => Side(n, 1) \in {Nobody, x} /\ Side(n, 2) \in {Nobody, y}
       /\ rows' = [m \in DOMAIN rows \cup {n} |->
                      IF m = n THEN [sides |-> <<x, y>>, winner |-> 0] ELSE rows[m]]
  /\ UNCHANGED <<draw, today>>

Finish(n, w) ==
  /\ HasRow(n) /\ ~Completed(n)
  /\ \A i \in 1..2 : Side(n, i) # Nobody
  /\ At(n) = NoTime \/ At(n) <= today
  /\ rows' = [rows EXCEPT ![n].winner = w]
  /\ UNCHANGED <<draw, today>>

NextDay ==
  /\ today < MaxDay
  /\ today' = today + 1
  /\ UNCHANGED <<draw, rows>>

(* The draw is imported whole: the matches of the first round, and those   *)
(* the byes lead to.                                                       *)
BracketInit ==
  /\ draw \in Draws
  /\ rows = [n \in {m \in Nodes : /\ Reachable(m) /\ ~Bye(m)
                                  /\ \E i \in 1..2 : Drawn(m, i) # Nobody} |->
               [sides |-> <<Drawn(n, 1), Drawn(n, 2)>>, winner |-> 0]]
  /\ today = 0

BracketNext ==
  \/ \E n \in Nodes : Import(n) \/ \E w \in 1..2 : Finish(n, w)
  \/ NextDay

BracketSpec == BracketInit /\ [][BracketNext]_bracketVars

-----------------------------------------------------------------------------
(* The rows are a part of the tree, the slice shows whole columns of it,   *)
(* and the final is none but the second (loadDrawTrees, BuildBracketSlice).*)
BracketTypeOK ==
  /\ draw \in Draws
  /\ DOMAIN rows \subseteq Nodes /\ \A n \in DOMAIN rows : rows[n] \in NodeRow
  /\ today \in 0..MaxDay
  /\ BuildBracketSlice \in BracketSlice \cup {NoSlice}

(* The brackets drawn are those of the draw: every box of the first column *)
(* leads to the box of the second it is joined to, and both boxes of the   *)
(* second to the one node at the end (BuildBracketSlice, "otherwise the    *)
(* bracket to the end node would lie about the draw").                     *)
SliceIsTree ==
  LET slice == BuildBracketSlice
  IN  slice # NoSlice =>
        \A n \in slice.boxes :
          \/ n[1] = slice.first /\ Parent(n) \in slice.boxes
          \/ /\ n[1] = slice.first - 1
             /\ n = Final \/ Parent(n) = slice.end

(* A user who follows a player with a match to come always has a slice, in *)
(* which some player that makes the draw worth showing stands, whichever   *)
(* rows of later rounds are missing and however old the results are        *)
(* (relevantFollowed).                                                     *)
SliceWhilePlaying ==
  (\E p \in Followed, n \in DOMAIN rows : HasPlayer(n, p) /\ ~Completed(n)) =>
    LET slice == BuildBracketSlice
    IN  slice # NoSlice /\ slice.more # RelevantFollowed

(* The box that opens with the card is one of its boxes, and the match of a*)
(* player for whom the card is shown (defaultKey).                         *)
DefaultShowsFollow ==
  LET slice == BuildBracketSlice
  IN  slice # NoSlice => /\ slice.open \in slice.boxes
                         /\ \E f \in RelevantFollowed : HasPlayer(slice.open, f.player)

Lost(p) == \E n \in Played : HasPlayer(n, p) /\ Winner(n) # p

(* "They could meet" is said of two follows who have lost to nobody, in    *)
(* matches that feed one match, which has not been played (bracketNote,    *)
(* subtreeHasActive).                                                      *)
CouldMeetIsTrue ==
  LET slice == BuildBracketSlice
  IN  slice # NoSlice /\ slice.note = "could_meet" =>
        \E p, q \in Followed :
          /\ p # q /\ ~Lost(p) /\ ~Lost(q)
          /\ \E n, o \in slice.boxes :
               /\ n # o /\ HasPlayer(n, p) /\ HasPlayer(o, q)
               /\ Parent(n) = Parent(o) /\ Parent(n) \in slice.boxes
               /\ ~Completed(Parent(n))

(* Where the rounds have times, and a round is played no earlier than the  *)
(* day after the one before, the end node is not one that has been played: *)
(* "pending" is true of it (BuildBracketSlice, relevanceWindow).           *)
PendingIsOpen ==
  LET slice == BuildBracketSlice
  IN  /\ slice # NoSlice /\ slice.kind = "pending"
      /\ \A d \in 1..Rounds - 1 : /\ draw.day[d - 1] # NoTime
                                  /\ draw.day[d] < draw.day[d - 1]
      => ~Completed(slice.end)

(* The slice moves with the tournament and never back to an earlier round, *)
(* although players go out, results grow old and rows come late.           *)
SliceNeverTurnsBack ==
  [][LET focus == RelevantFollowed
     IN  focus # {} => FirstColumn(RelevantFollowed)' <= FirstColumn(focus)]_bracketVars

(* The slice and the card of one draw tell one story: each match of the    *)
(* slice, the ones without a row included, is on the card of the draw.  The*)
(* slice adds neighbours and parents of its own accord (WithSiblings, the  *)
(* loop of BuildBracketSlice), the card only what completeDrawCard fills   *)
(* below the deepest round.  A draw that begins with the semi-finals is    *)
(* another matter: the slice shows both, the card only those with rows.    *)
SliceOnCard ==
  LET slice == BuildBracketSlice
  IN  slice # NoSlice /\ draw.positioned /\ Deepest > 1 => slice.boxes \subseteq Card
=============================================================================

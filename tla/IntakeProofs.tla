---------------------------- MODULE IntakeProofs -----------------------------
(***************************************************************************)
(* What is proved of Intake for any players, keys, fixtures and faults.    *)
(*                                                                         *)
(* The argument has two halves.  One is about table matches: whatever      *)
(* step is taken, a row keeps its edition and its players, and a row of    *)
(* ours comes to be by InsertMatch alone (RowsKept).  The other is what a  *)
(* job relies on between two statements: that the fixture it writes was    *)
(* known and confirmed, that no other row of ours is of the same two, and  *)
(* that the key it asks about was due (Relies).                            *)
(***************************************************************************)
EXTENDS Intake, FiniteSetTheorems, TLAPS

Relies ==
  /\ pcA \in {"move", "insert"} => Creatable(draft.fixture)
  /\ pcA = "move" => existing \in MatchesOf(draft.fixture)
  /\ pcA = "insert" => \A f \in Fixtures : f \notin MatchesOf(draft.fixture)
  /\ pcB = "answer" => /\ successes < MaxResolves
                       /\ Cardinality(Missing(looking)) = 1
                       /\ Due(MissingKey(looking))

(* The pipeline's rows are never cancelled.                                *)
PipelineRowsStand ==
  \A k \in PipelineKeys : Exists(k) => matches[k].status # "cancelled"

IntakeInv == IntakeTypeOK /\ Relies /\ PipelineRowsStand

(* The steps a row can take: it stays the row of its players in its edition*)
SameRow(k) == Exists(k) => /\ Exists(k)'
                           /\ matches'[k].edition = matches[k].edition
                           /\ matches'[k].sides = matches[k].sides

(* and one of ours is new only when Job A inserts it;                      *)
OnlyInserted(f) ==
  ~Exists(f) /\ Exists(f)' =>
    /\ pcA = "insert" /\ pcA' = "each"
    /\ f = draft.fixture /\ matches'[f] = NewRow

(* a cancelled row of ours stays so, and a row of the pipeline is left     *)
(* where it is.                                                            *)
CancelledStays(f) == Is(f, "cancelled") => matches'[f].status = "cancelled"

PipelineRowStays(k) ==
  /\ Exists(k) => matches'[k].at = matches[k].at
  /\ ~Exists(k) /\ Exists(k)' => matches'[k].sides \in Meetings
  /\ Exists(k)' => matches'[k].status # "cancelled"

TimeStays(f) ==
  Exists(f) => \/ matches'[f].at = matches[f].at
               \/ pcA = "move" /\ f = existing /\ matches[f].status = "scheduled"
               \/ pcA = "insert" /\ f = draft.fixture

(* Only the board raises a row.                                            *)
ByBoard ==
  \/ \E f \in Fixtures, t \in StartTimes \cup {clock} : KnownRow(f, t)
  \/ \E t \in StartTimes \cup {clock} : Guessed(t)

Rises(k) == Is(k, "scheduled") /\ matches'[k].status = "live" => ByBoard

RowSteps ==
  /\ matches' \in [ImportKeys -> Row \cup {NoRow}]
  /\ \A k \in ImportKeys : SameRow(k) /\ Rises(k)
  /\ \A f \in Fixtures : OnlyInserted(f) /\ CancelledStays(f) /\ TimeStays(f)
  /\ \A k \in PipelineKeys : PipelineRowStays(k)

-----------------------------------------------------------------------------
(* A change of status changes nothing else.                                *)
LEMMA TurnSpares ==
  ASSUME IntakeTypeOK, NEW ks \in SUBSET {k \in ImportKeys : Exists(k)},
         NEW s \in Status, Turn(ks, s)
  PROVE  /\ matches' \in [ImportKeys -> Row \cup {NoRow}]
         /\ \A k \in ImportKeys :
              /\ Exists(k)' = Exists(k)
              /\ Exists(k) => /\ matches'[k].edition = matches[k].edition
                              /\ matches'[k].sides = matches[k].sides
                              /\ matches'[k].at = matches[k].at
                              /\ matches'[k].status = IF k \in ks THEN s
                                                      ELSE matches[k].status
  <1>1. \A k \in ImportKeys : matches[k] \in Row \cup {NoRow}
    BY DEF IntakeTypeOK
  <1>2. \A k \in ks : matches[k] \in Row
    BY <1>1 DEF Exists
  <1>3. \A k \in ks : /\ [matches[k] EXCEPT !.status = s] \in Row
                      /\ [matches[k] EXCEPT !.status = s].edition = matches[k].edition
                      /\ [matches[k] EXCEPT !.status = s].sides = matches[k].sides
                      /\ [matches[k] EXCEPT !.status = s].at = matches[k].at
                      /\ [matches[k] EXCEPT !.status = s].status = s
    BY <1>2 DEF Row
  <1>4. NoRow \notin Row
    BY IntakeAssumption
  <1>5. \A k \in ImportKeys :
          matches'[k] = IF k \in ks THEN [matches[k] EXCEPT !.status = s]
                                    ELSE matches[k]
    BY DEF Turn
  <1>6. matches' \in [ImportKeys -> Row \cup {NoRow}]
    BY <1>1, <1>3 DEF Turn
  <1> QED BY <1>1, <1>2, <1>3, <1>4, <1>5, <1>6 DEF Exists

(* The fixture Job A writes has players and an edition.                    *)
LEMMA NewRowIsRow ==
  ASSUME IntakeTypeOK, Relies, pcA \in {"move", "insert"}
  PROVE  /\ NewRow \in Row
         /\ draft \in Drafts
         /\ draft.fixture \in Fixtures
         /\ TournamentOf[draft.fixture] \in editions
  <1>1. draft \in Drafts /\ players \in Links
    BY DEF IntakeTypeOK
  <1>2. draft.fixture \in Fixtures /\ draft.at \in StartTimes
    BY <1>1 DEF Drafts
  <1>3. Creatable(draft.fixture)
    BY DEF Relies
  <1>4. KeysOf[draft.fixture] \subseteq Keys
    BY <1>2, IntakeAssumption
  <1>5. Pair(players, draft.fixture) \in SUBSET Players
    BY <1>1, <1>3, <1>4 DEF Creatable, Known, Pair, Links
  <1>6. EditionOfFixture(draft.fixture) \in Editions
    BY <1>2, IntakeAssumption DEF EditionOfFixture
  <1>7. NewRow \in Row
    BY <1>2, <1>5, <1>6 DEF NewRow, Row, Status
  <1> QED BY <1>1, <1>2, <1>3, <1>7 DEF Creatable

LEMMA NothingWritten ==
  ASSUME IntakeInv, UNCHANGED matches
  PROVE  RowSteps
  BY DEF IntakeInv, IntakeTypeOK, PipelineRowsStand, RowSteps, SameRow, Rises,
         OnlyInserted, CancelledStays, TimeStays, PipelineRowStays, Exists, Is, ImportKeys

(* The steps that change a status: retirement, raising, going out and the  *)
(* pipeline's results.                                                     *)
LEMMA TurnSteps ==
  ASSUME IntakeInv, NEW ks \in SUBSET {k \in ImportKeys : Exists(k)},
         NEW s \in Status, Turn(ks, s),
         s = "cancelled" => ks \subseteq Fixtures,
         s # "cancelled" => \A k \in ks : ~Is(k, "cancelled"),
         s = "live" => ByBoard
  PROVE  RowSteps
  <1>1. IntakeTypeOK
    BY DEF IntakeInv
  <1>2. /\ matches' \in [ImportKeys -> Row \cup {NoRow}]
        /\ \A k \in ImportKeys :
             /\ Exists(k)' = Exists(k)
             /\ Exists(k) => /\ matches'[k].edition = matches[k].edition
                             /\ matches'[k].sides = matches[k].sides
                             /\ matches'[k].at = matches[k].at
                             /\ matches'[k].status = IF k \in ks THEN s
                                                     ELSE matches[k].status
    BY <1>1, TurnSpares
  <1>3. Fixtures \subseteq ImportKeys /\ PipelineKeys \subseteq ImportKeys
    BY DEF ImportKeys
  <1>4. Fixtures \cap PipelineKeys = {}
    BY IntakeAssumption
  <1>5. \A k \in ImportKeys : SameRow(k) /\ Rises(k)
    BY <1>2 DEF SameRow, Rises, Is
  <1>6. \A f \in Fixtures : OnlyInserted(f)
    BY <1>2, <1>3 DEF OnlyInserted
  <1>7. ASSUME NEW f \in Fixtures PROVE CancelledStays(f)
    <2>1. CASE s = "cancelled"
      BY <1>2, <1>3, <2>1 DEF CancelledStays, Is
    <2>2. CASE s # "cancelled"
      BY <1>2, <1>3, <2>2 DEF CancelledStays, Is
    <2> QED BY <2>1, <2>2
  <1>8. ASSUME NEW k \in PipelineKeys PROVE PipelineRowStays(k)
    <2>1. Exists(k) => k \notin ks \/ s # "cancelled"
      BY <1>4
    <2> QED BY <1>2, <1>3, <2>1 DEF PipelineRowStays, PipelineRowsStand, IntakeInv
  <1>9. \A f \in Fixtures : TimeStays(f)
    BY <1>2, <1>3 DEF TimeStays
  <1> QED BY <1>2, <1>5, <1>6, <1>7, <1>8, <1>9 DEF RowSteps

LEMMA MoveMatchSteps ==
  ASSUME IntakeInv, MoveMatch
  PROVE  RowSteps
  <1>1. /\ pcA = "move" /\ existing \in ImportKeys /\ draft \in Drafts
        /\ matches \in [ImportKeys -> Row \cup {NoRow}]
    BY DEF MoveMatch, IntakeInv, IntakeTypeOK
  <1>2. CASE ~Movable(existing, draft.at)
    BY <1>2, NothingWritten DEF MoveMatch
  <1>3. CASE Movable(existing, draft.at)
    <2>1. matches' = [matches EXCEPT ![existing].at = draft.at]
      BY <1>3 DEF MoveMatch
    <2>2. matches[existing] \in Row /\ draft.at \in StartTimes
      BY <1>1 DEF Relies, IntakeInv, MatchesOf, Exists, Drafts
    <2>3. /\ [matches[existing] EXCEPT !.at = draft.at] \in Row
          /\ [matches[existing] EXCEPT !.at = draft.at].edition = matches[existing].edition
          /\ [matches[existing] EXCEPT !.at = draft.at].sides = matches[existing].sides
          /\ [matches[existing] EXCEPT !.at = draft.at].status = matches[existing].status
      BY <2>2 DEF Row
    <2>4. \A k \in ImportKeys :
            matches'[k] = IF k = existing THEN [matches[k] EXCEPT !.at = draft.at]
                                          ELSE matches[k]
      BY <1>1, <2>1
    <2>5. matches' \in [ImportKeys -> Row \cup {NoRow}]
      BY <1>1, <2>1, <2>3
    <2>6. NoRow \notin Row /\ existing \in Fixtures /\ Fixtures \cap PipelineKeys = {}
      BY <1>3, IntakeAssumption DEF Movable, Ours
    <2>7. \A k \in ImportKeys : Exists(k)' = Exists(k)
      BY <2>2, <2>3, <2>4, <2>6 DEF Exists
    <2>8. \A k \in ImportKeys :
            Exists(k) => /\ matches'[k].edition = matches[k].edition
                         /\ matches'[k].sides = matches[k].sides
                         /\ matches'[k].status = matches[k].status
      BY <2>3, <2>4
    <2>9. Fixtures \subseteq ImportKeys /\ PipelineKeys \subseteq ImportKeys
      BY DEF ImportKeys
    <2>10. \A k \in PipelineKeys : matches'[k] = matches[k]
      BY <2>4, <2>6, <2>9
    <2>11. \A k \in ImportKeys : SameRow(k) /\ Rises(k)
      BY <2>7, <2>8 DEF SameRow, Rises, Is
    <2>12. \A f \in Fixtures : OnlyInserted(f) /\ CancelledStays(f)
      BY <2>7, <2>8, <2>9 DEF OnlyInserted, CancelledStays, Is
    <2>13. \A k \in PipelineKeys : PipelineRowStays(k)
      BY <2>7, <2>9, <2>10 DEF PipelineRowStays, IntakeInv, PipelineRowsStand
    <2>14. \A f \in Fixtures : TimeStays(f)
      BY <1>1, <1>3, <2>4, <2>9 DEF TimeStays, Movable
    <2> QED BY <2>5, <2>11, <2>12, <2>13, <2>14 DEF RowSteps
  <1> QED BY <1>2, <1>3

LEMMA InsertMatchSteps ==
  ASSUME IntakeInv, InsertMatch
  PROVE  RowSteps
  <1> DEFINE f0 == draft.fixture
  <1>1. /\ pcA = "insert" /\ pcA' = "each" /\ draft \in Drafts
        /\ matches \in [ImportKeys -> Row \cup {NoRow}]
    BY DEF InsertMatch, FixtureDone, IntakeInv, IntakeTypeOK
  <1>2. f0 \in Fixtures /\ draft.at \in StartTimes
    BY <1>1 DEF Drafts
  <1>3. NewRow \in Row
    BY <1>1, NewRowIsRow DEF IntakeInv
  <1>4. /\ NoRow \notin Row /\ Fixtures \cap PipelineKeys = {}
        /\ Fixtures \subseteq ImportKeys /\ PipelineKeys \subseteq ImportKeys
    BY IntakeAssumption DEF ImportKeys
  <1>5. CASE ~Exists(f0)
    <2>1. matches' = [matches EXCEPT ![f0] = NewRow]
      BY <1>5 DEF InsertMatch
    <2>2. /\ matches' \in [ImportKeys -> Row \cup {NoRow}]
          /\ matches'[f0] = NewRow
          /\ \A k \in ImportKeys \ {f0} : matches'[k] = matches[k]
      BY <1>1, <1>2, <1>3, <1>4, <2>1
    <2>3. \A k \in ImportKeys : SameRow(k) /\ Rises(k)
      BY <1>5, <2>2 DEF SameRow, Rises, Is, Exists
    <2>4. \A f \in Fixtures : OnlyInserted(f) /\ CancelledStays(f)
      BY <1>1, <1>4, <1>5, <2>2 DEF OnlyInserted, CancelledStays, Is, Exists
    <2>5. \A k \in PipelineKeys : matches'[k] = matches[k]
      BY <1>2, <1>4, <2>2
    <2>6. \A k \in PipelineKeys : PipelineRowStays(k)
      BY <2>5 DEF PipelineRowStays, IntakeInv, PipelineRowsStand, Exists
    <2>7. \A f \in Fixtures : TimeStays(f)
      BY <1>1, <1>4, <2>2 DEF TimeStays
    <2> QED BY <2>2, <2>3, <2>4, <2>6, <2>7 DEF RowSteps
  <1>6. CASE Exists(f0)
    <2>1. matches' = [matches EXCEPT ![f0].at = draft.at]
      BY <1>6 DEF InsertMatch
    <2>2. matches[f0] \in Row
      BY <1>1, <1>2, <1>4, <1>6 DEF Exists
    <2>3. /\ [matches[f0] EXCEPT !.at = draft.at] \in Row
          /\ [matches[f0] EXCEPT !.at = draft.at].edition = matches[f0].edition
          /\ [matches[f0] EXCEPT !.at = draft.at].sides = matches[f0].sides
          /\ [matches[f0] EXCEPT !.at = draft.at].status = matches[f0].status
      BY <1>2, <2>2 DEF Row
    <2>4. \A k \in ImportKeys :
            matches'[k] = IF k = f0 THEN [matches[k] EXCEPT !.at = draft.at]
                                    ELSE matches[k]
      BY <1>1, <2>1
    <2>5. matches' \in [ImportKeys -> Row \cup {NoRow}]
      BY <1>1, <2>1, <2>3
    <2>6. \A k \in ImportKeys : Exists(k)' = Exists(k)
      BY <1>4, <2>2, <2>3, <2>4 DEF Exists
    <2>7. \A k \in ImportKeys :
            Exists(k) => /\ matches'[k].edition = matches[k].edition
                         /\ matches'[k].sides = matches[k].sides
                         /\ matches'[k].status = matches[k].status
      BY <2>3, <2>4
    <2>8. \A k \in PipelineKeys : matches'[k] = matches[k]
      BY <1>2, <1>4, <2>4
    <2>9. \A k \in ImportKeys : SameRow(k) /\ Rises(k)
      BY <2>6, <2>7 DEF SameRow, Rises, Is
    <2>10. \A f \in Fixtures : OnlyInserted(f) /\ CancelledStays(f)
      BY <1>4, <2>6, <2>7 DEF OnlyInserted, CancelledStays, Is
    <2>11. \A k \in PipelineKeys : PipelineRowStays(k)
      BY <1>4, <2>6, <2>8 DEF PipelineRowStays, IntakeInv, PipelineRowsStand
    <2>12. \A f \in Fixtures : TimeStays(f)
      BY <1>1, <1>4, <2>4 DEF TimeStays
    <2> QED BY <2>5, <2>9, <2>10, <2>11, <2>12 DEF RowSteps
  <1> QED BY <1>5, <1>6

LEMMA PublishSteps ==
  ASSUME IntakeInv, NEW k0 \in PipelineKeys, NEW e \in Editions, NEW p \in Meetings,
         NEW t \in StartTimes, Publish(k0, e, p, t)
  PROVE  RowSteps
  <1> DEFINE new == [edition |-> e, sides |-> p, at |-> t, status |-> "scheduled"]
  <1>1. /\ matches \in [ImportKeys -> Row \cup {NoRow}]
        /\ Fixtures \cap PipelineKeys = {}
        /\ Fixtures \subseteq ImportKeys /\ PipelineKeys \subseteq ImportKeys
    BY IntakeAssumption DEF IntakeInv, IntakeTypeOK, ImportKeys
  <1>2. new \in Row /\ new.status = "scheduled"
    BY IntakeAssumption DEF Row, Status
  <1>3. /\ matches' \in [ImportKeys -> Row \cup {NoRow}]
        /\ matches'[k0] = new
        /\ \A k \in ImportKeys \ {k0} : matches'[k] = matches[k]
    BY <1>1, <1>2 DEF Publish
  <1>4. ~Exists(k0)
    BY DEF Publish
  <1>5. \A k \in ImportKeys : SameRow(k) /\ Rises(k)
    BY <1>3, <1>4 DEF SameRow, Rises, Is, Exists
  <1>6. \A f \in Fixtures : matches'[f] = matches[f]
    BY <1>1, <1>3
  <1>7. \A f \in Fixtures : OnlyInserted(f) /\ CancelledStays(f) /\ TimeStays(f)
    BY <1>6 DEF OnlyInserted, CancelledStays, TimeStays, Is, Exists
  <1>8. \A k \in PipelineKeys : PipelineRowStays(k)
    BY <1>1, <1>2, <1>3, <1>4 DEF PipelineRowStays, IntakeInv, PipelineRowsStand, Exists
  <1> QED BY <1>3, <1>5, <1>7, <1>8 DEF RowSteps

-----------------------------------------------------------------------------
(* Whatever step is taken, the rows take none but those.                   *)
LEMMA RowsKept ==
  ASSUME IntakeInv, [IntakeNext]_vars
  PROVE  RowSteps
  <1>1. /\ Status = {"scheduled", "live", "completed", "cancelled"}
        /\ \A k, s : Is(k, s) => Exists(k)
        /\ \A k : Is(k, "scheduled") \/ Is(k, "live") => ~Is(k, "cancelled")
    BY DEF Status, Is
  <1>2. ASSUME NEW pair, NEW t, Raise(pair, t), ByBoard PROVE RowSteps
    BY <1>1, <1>2, TurnSteps DEF Raise
  <1>3. CASE BeginTick
    <2>1. CASE UNCHANGED matches
      BY <2>1, NothingWritten
    <2>2. CASE Turn(Retirable(clock'), "cancelled")
      BY <1>1, <2>2, TurnSteps DEF Retirable, Ours
    <2> QED BY <1>3, <2>1, <2>2 DEF BeginTick
  <1>4. ASSUME NEW k \in ImportKeys, LeaveLive(k) PROVE RowSteps
    <2>1. Is(k, "live") /\ Turn({k}, IF Ours(k) THEN "cancelled" ELSE "scheduled")
      BY <1>4 DEF LeaveLive
    <2>2. CASE Ours(k)
      BY <1>1, <2>1, <2>2, TurnSteps DEF Ours
    <2>3. CASE ~Ours(k)
      BY <1>1, <2>1, <2>3, TurnSteps
    <2> QED BY <2>2, <2>3
  <1>5. ASSUME NEW k \in PipelineKeys, Conclude(k) PROVE RowSteps
    BY <1>1, <1>5, TurnSteps DEF Conclude, ImportKeys
  <1>6. CASE UNCHANGED matches
    BY <1>6, NothingWritten
  <1>7. CASE Create
    BY <1>6, <1>7, MoveMatchSteps, InsertMatchSteps
       DEF Create, BeginCreate, EndCreate, CreateFails, CheckFixture, tables
  <1>8. CASE ByBoard
    BY <1>2, <1>8 DEF ByBoard, KnownRow, Guessed
  <1>12. CASE Poll
    BY <1>3, <1>6, <1>8, <1>12
       DEF Poll, ByBoard, EndTick, ReadBoard, Ask, Refused, Unrecorded, tables
  <1>9. CASE \E k \in Keys : ReviewLink(k)
    BY <1>6, <1>9 DEF ReviewLink
  <1>10. CASE \E t \in Tournaments : ConfirmEdition(t)
    BY <1>6, <1>10 DEF ConfirmEdition
  <1>11. CASE UNCHANGED vars
    BY <1>6, <1>11 DEF vars, tables
  <1> QED BY <1>4, <1>5, <1>7, <1>9, <1>10, <1>11, <1>12, PublishSteps DEF IntakeNext

-----------------------------------------------------------------------------
(* The key that is asked about is a key.                                   *)
LEMMA MissingKeyIsKey ==
  ASSUME NEW f \in Fixtures, Missing(f) # {}
  PROVE  MissingKey(f) \in KeysOf[f] /\ MissingKey(f) \in Missing(f)
                                     /\ MissingKey(f) \in Keys
  <1>1. \E k \in KeysOf[f] : k \in Missing(f)
    BY DEF Missing
  <1>2. KeysOf[f] \subseteq Keys
    BY IntakeAssumption
  <1> QED BY <1>1, <1>2 DEF MissingKey

LEMMA OneMissing ==
  ASSUME NEW f \in Fixtures, Cardinality(Missing(f)) = 1
  PROVE  Missing(f) # {}
  BY FS_EmptySet

(* What the tables other than matches, and the jobs, hold.                 *)
JobATypes ==
  /\ players \in Links /\ editions \subseteq Tournaments
  /\ pcA \in {"idle", "each", "move", "insert"}
  /\ draft \in IF pcA \in {"move", "insert"} THEN Drafts ELSE {NoRow}
  /\ existing \in IF pcA = "move" THEN ImportKeys ELSE {NoRow}

JobBTypes ==
  /\ resolved \in Links
  /\ pcB \in {"idle", "tick", "rows", "answer"}
  /\ looking \in IF pcB = "answer" THEN Fixtures ELSE {NoRow}
  /\ successes \in 0..MaxResolves

TableTypes ==
  /\ clock \in Times
  /\ links \in Links /\ confirmed \subseteq Tournaments
  /\ tries \in [Keys -> [attempts : Nat, last : Times]]
  /\ faults \in 0..MaxFaults

LEMMA TypeParts ==
  IntakeTypeOK <=> /\ matches \in [ImportKeys -> Row \cup {NoRow}]
                   /\ TableTypes /\ JobATypes /\ JobBTypes
  BY DEF IntakeTypeOK, TableTypes, JobATypes, JobBTypes

LEMMA JobATypesKept ==
  ASSUME IntakeInv, [IntakeNext]_vars
  PROVE  JobATypes'
  <1>1. JobATypes /\ links \in Links /\ confirmed \subseteq Tournaments
    BY TypeParts DEF IntakeInv, TableTypes
  <1>2. CASE UNCHANGED jobA
    BY <1>1, <1>2 DEF JobATypes, jobA
  <1>3. CASE BeginCreate
    BY <1>1, <1>3 DEF JobATypes, BeginCreate, ResolveEditions
  <1>4. CASE RestA
    BY <1>4 DEF JobATypes, RestA, NoLinks, Links
  <1>5. ASSUME NEW f \in Fixtures, NEW t \in StartTimes, CheckFixture(f, t)
        PROVE  JobATypes'
    <2>1. draft' \in Drafts /\ UNCHANGED <<editions, players>>
      BY <1>5 DEF CheckFixture, Drafts
    <2>2. CASE pcA' = "insert" /\ UNCHANGED existing
      <3>1. pcA = "each"
        BY <1>5 DEF CheckFixture
      <3> QED BY <1>1, <2>1, <2>2, <3>1 DEF JobATypes
    <2>3. CASE pcA' = "move" /\ existing' \in ImportKeys
      BY <1>1, <2>1, <2>3 DEF JobATypes
    <2> QED BY <1>5, <2>2, <2>3 DEF CheckFixture, MatchesOf
  <1>6. CASE FixtureDone
    BY <1>1, <1>6 DEF JobATypes, FixtureDone
  <1>7. CASE Create
    BY <1>3, <1>4, <1>5, <1>6, <1>7 DEF Create, EndCreate, CreateFails, MoveMatch, InsertMatch
  <1>8. CASE Poll
    BY <1>2, <1>8 DEF Poll, BeginTick, EndTick, ReadBoard, Ask, KnownRow, Refused,
                      Unrecorded, Guessed
  <1> QED BY <1>2, <1>7, <1>8
          DEF IntakeNext, LeaveLive, Publish, Conclude, ReviewLink, ConfirmEdition, vars

LEMMA JobBTypesKept ==
  ASSUME IntakeInv, [IntakeNext]_vars
  PROVE  JobBTypes'
  <1>1. JobBTypes /\ links \in Links
    BY TypeParts DEF IntakeInv, TableTypes
  <1>2. CASE UNCHANGED jobB
    BY <1>1, <1>2 DEF JobBTypes, jobB
  <1>3. MaxResolves \in Nat
    BY IntakeAssumption
  <1>4. CASE BeginTick
    BY <1>1, <1>4 DEF JobBTypes, BeginTick
  <1>5. CASE EndTick
    BY <1>3, <1>5 DEF JobBTypes, EndTick, NoLinks, Links
  <1>6. CASE ReadBoard
    BY <1>1, <1>6 DEF JobBTypes, ReadBoard
  <1>7. ASSUME NEW f \in Fixtures, Ask(f) PROVE JobBTypes'
    BY <1>1, <1>7 DEF JobBTypes, Ask
  <1>8. CASE LookedUp /\ UNCHANGED successes
    BY <1>1, <1>8 DEF JobBTypes, LookedUp
  <1>9. ASSUME NEW t, Guessed(t) PROVE JobBTypes'
    <2>1. successes < MaxResolves /\ successes' = successes + 1 /\ LookedUp
      BY <1>9 DEF Guessed, IntakeInv, Relies
    <2> QED BY <1>1, <1>3, <2>1 DEF JobBTypes, LookedUp
  <1>10. CASE Create
    BY <1>2, <1>10 DEF Create, BeginCreate, EndCreate, CreateFails, CheckFixture,
                       MoveMatch, InsertMatch
  <1>11. CASE Poll
    BY <1>2, <1>4, <1>5, <1>6, <1>7, <1>8, <1>9, <1>11
       DEF Poll, KnownRow, Refused, Unrecorded
  <1> QED BY <1>2, <1>10, <1>11
          DEF IntakeNext, LeaveLive, Publish, Conclude, ReviewLink, ConfirmEdition, vars

LEMMA TableTypesKept ==
  ASSUME IntakeInv, [IntakeNext]_vars
  PROVE  TableTypes'
  <1>1. TableTypes /\ JobBTypes
    BY TypeParts DEF IntakeInv
  <1> DEFINE others == <<clock, links, confirmed, tries>>
  <1>2. CASE UNCHANGED <<clock, links, confirmed, tries, faults>>
    BY <1>1, <1>2 DEF TableTypes
  <1>3. MaxFaults \in Nat /\ MaxClock \in Nat
    BY IntakeAssumption
  <1>4. CASE Fault /\ UNCHANGED others
    BY <1>1, <1>3, <1>4 DEF TableTypes, Fault
  <1>5. CASE BeginTick
    <2>1. clock' \in Times
      BY <1>1, <1>3, <1>5 DEF BeginTick, ReadClock, TableTypes, Times
    <2>2. faults' \in 0..MaxFaults
      BY <1>1, <1>3, <1>5 DEF BeginTick, Fault, TableTypes
    <2> QED BY <1>1, <1>5, <2>1, <2>2 DEF BeginTick, TableTypes
  <1>6. CASE Refused
    <2>1. pcB = "answer" /\ looking \in Fixtures /\ Missing(looking) # {}
      BY <1>1, <1>6, OneMissing DEF Refused, JobBTypes, IntakeInv, Relies
    <2>2. MissingKey(looking) \in Keys
      BY <2>1, MissingKeyIsKey
    <2>3. CASE /\ tries' = [tries EXCEPT ![MissingKey(looking)] =
                              [attempts |-> @.attempts + 1, last |-> clock]]
               /\ UNCHANGED faults
      <3>1. tries' \in [Keys -> [attempts : Nat, last : Times]]
        BY <1>1, <2>2, <2>3 DEF TableTypes
      <3> QED BY <1>1, <1>6, <2>3, <3>1 DEF TableTypes, Refused
    <2> QED BY <1>4, <1>6, <2>3 DEF Refused
  <1>7. ASSUME NEW t, Guessed(t) PROVE TableTypes'
    <2>1. pcB = "answer" /\ looking \in Fixtures /\ Missing(looking) # {}
      BY <1>1, <1>7, OneMissing DEF Guessed, JobBTypes, IntakeInv, Relies
    <2>2. MissingKey(looking) \in Keys
      BY <2>1, MissingKeyIsKey
    <2>3. PICK p \in Fits[MissingKey(looking)] : UpsertPlayerMapping(MissingKey(looking), p)
      BY <1>7 DEF Guessed
    <2>4. p \in Players
      BY <2>2, <2>3, IntakeAssumption
    <2>5. links' \in Links
      BY <1>1, <2>2, <2>3, <2>4 DEF UpsertPlayerMapping, TableTypes, Links
    <2> QED BY <1>1, <1>7, <2>5 DEF Guessed, TableTypes
  <1>8. ASSUME NEW k \in Keys, ReviewLink(k) PROVE TableTypes'
    <2> DEFINE who == IF Who[k] = Stranger THEN NoLink ELSE Who[k]
    <2>1. Who[k] \in Players \cup {Stranger}
      BY IntakeAssumption
    <2>2. who \in Players \cup {NoLink} /\ links' = [links EXCEPT ![k] = who]
      BY <1>8, <2>1 DEF ReviewLink
    <2>3. links' \in Links
      BY <1>1, <2>2 DEF TableTypes, Links
    <2> QED BY <1>1, <1>8, <2>3 DEF ReviewLink, TableTypes
  <1>9. ASSUME NEW t \in Tournaments, ConfirmEdition(t) PROVE TableTypes'
    BY <1>1, <1>9 DEF ConfirmEdition, TableTypes
  <1>10. CASE Create
    BY <1>2, <1>4, <1>10 DEF Create, BeginCreate, EndCreate, CreateFails, CheckFixture,
                             MoveMatch, InsertMatch, tables
  <1>11. CASE Poll
    BY <1>2, <1>4, <1>5, <1>6, <1>7, <1>11
       DEF Poll, EndTick, ReadBoard, Ask, KnownRow, Unrecorded, tables
  <1> QED BY <1>2, <1>8, <1>9, <1>10, <1>11
          DEF IntakeNext, LeaveLive, Publish, Conclude, vars, tables

-----------------------------------------------------------------------------
(* What the jobs rely on is still so at the next statement.                *)
LEMMA MatchesOfKept ==
  ASSUME IntakeInv, RowSteps, UNCHANGED jobA, NEW k \in ImportKeys, Exists(k)
  PROVE  k \in MatchesOf(draft.fixture)' <=> k \in MatchesOf(draft.fixture)
  <1>1. /\ Exists(k)'
        /\ matches'[k].edition = matches[k].edition
        /\ matches'[k].sides = matches[k].sides
    BY DEF RowSteps, SameRow
  <1>2. /\ EditionOfFixture(draft.fixture)' = EditionOfFixture(draft.fixture)
        /\ Pair(players, draft.fixture)' = Pair(players, draft.fixture)
    BY DEF jobA, EditionOfFixture, Pair
  <1> QED BY <1>1, <1>2 DEF MatchesOf

LEMMA ReliesOfJobA ==
  ASSUME IntakeInv, [IntakeNext]_vars, RowSteps
  PROVE  /\ pcA' \in {"move", "insert"} => Creatable(draft.fixture)'
         /\ pcA' = "move" => existing' \in MatchesOf(draft.fixture)'
         /\ pcA' = "insert" => \A f \in Fixtures : f \notin MatchesOf(draft.fixture)'
  <1> DEFINE Goal ==
        /\ pcA' \in {"move", "insert"} => Creatable(draft.fixture)'
        /\ pcA' = "move" => existing' \in MatchesOf(draft.fixture)'
        /\ pcA' = "insert" => \A f \in Fixtures : f \notin MatchesOf(draft.fixture)'
  <1>1. JobATypes /\ Relies /\ Fixtures \subseteq ImportKeys
    BY TypeParts DEF IntakeInv, ImportKeys
  <1>2. CASE UNCHANGED jobA
    <2>1. pcA' \in {"move", "insert"} => Creatable(draft.fixture)'
      BY <1>1, <1>2 DEF Relies, Creatable, Known, jobA
    <2>2. ASSUME pcA' = "move" PROVE existing' \in MatchesOf(draft.fixture)'
      <3>1. existing \in MatchesOf(draft.fixture) /\ existing' = existing
        BY <1>1, <1>2, <2>2 DEF Relies, jobA
      <3>2. existing \in ImportKeys /\ Exists(existing)
        BY <3>1 DEF MatchesOf
      <3>3. \A k \in ImportKeys : Exists(k) /\ k \in MatchesOf(draft.fixture) =>
              k \in MatchesOf(draft.fixture)'
        BY <1>2, MatchesOfKept
      <3> QED BY <3>1, <3>2, <3>3
    <2>3. ASSUME pcA' = "insert", NEW f \in Fixtures
          PROVE  f \notin MatchesOf(draft.fixture)'
      <3>1. f \notin MatchesOf(draft.fixture) /\ pcA' # "each"
        BY <1>1, <1>2, <2>3 DEF jobA, Relies
      <3>2. CASE ~Exists(f)
        BY <3>1, <3>2 DEF RowSteps, OnlyInserted, MatchesOf
      <3>3. CASE Exists(f)
        BY <1>1, <1>2, <3>1, <3>3, MatchesOfKept
      <3> QED BY <3>2, <3>3
    <2> QED BY <2>1, <2>2, <2>3
  <1>3. CASE pcA' \notin {"move", "insert"}
    BY <1>3
  <1>4. ASSUME NEW f0 \in Fixtures, NEW t \in StartTimes, CheckFixture(f0, t)
        PROVE  Goal
    <2>1. /\ draft' = [fixture |-> f0, at |-> t] /\ Creatable(f0)
          /\ UNCHANGED <<matches, editions, players>>
      BY <1>4 DEF CheckFixture, tables
    <2>2. draft'.fixture = f0
      BY <2>1
    <2>3. Creatable(draft.fixture)'
      BY <2>1, <2>2 DEF Creatable, Known
    <2>4. MatchesOf(draft.fixture)' = MatchesOf(f0)
      BY <2>1, <2>2 DEF MatchesOf, Exists, EditionOfFixture, Pair
    <2>5. CASE MatchesOf(f0) = {} /\ pcA' = "insert"
      BY <2>3, <2>4, <2>5
    <2>6. CASE pcA' = "move" /\ existing' \in MatchesOf(f0)
      BY <2>3, <2>4, <2>6
    <2> QED BY <1>4, <2>5, <2>6 DEF CheckFixture
  <1>5. CASE Create
    BY <1>3, <1>4, <1>5 DEF Create, BeginCreate, EndCreate, CreateFails, RestA,
                            MoveMatch, InsertMatch, FixtureDone
  <1>6. CASE Poll
    BY <1>2, <1>6 DEF Poll, BeginTick, EndTick, ReadBoard, Ask, KnownRow, Refused,
                      Unrecorded, Guessed
  <1> QED BY <1>2, <1>5, <1>6
          DEF IntakeNext, LeaveLive, Publish, Conclude, ReviewLink, ConfirmEdition, vars

LEMMA ReliesOfJobB ==
  ASSUME IntakeInv, [IntakeNext]_vars
  PROVE  pcB' = "answer" => /\ successes' < MaxResolves
                            /\ Cardinality(Missing(looking))' = 1
                            /\ Due(MissingKey(looking))'
  <1> DEFINE Goal == pcB' = "answer" => /\ successes' < MaxResolves
                                        /\ Cardinality(Missing(looking))' = 1
                                        /\ Due(MissingKey(looking))'
  <1>1. Relies
    BY DEF IntakeInv
  <1>2. CASE UNCHANGED <<jobB, clock, tries>>
    BY <1>1, <1>2 DEF jobB, Relies, Missing, MissingKey, Due
  <1>3. CASE pcB' # "answer"
    BY <1>3
  <1>4. ASSUME NEW f \in Fixtures, Ask(f) PROVE Goal
    <2>1. /\ Cardinality(Missing(f)) = 1 /\ Due(MissingKey(f))
          /\ successes < MaxResolves
      BY <1>4 DEF Ask
    <2>2. looking' = f /\ UNCHANGED <<resolved, clock, tries, successes>>
      BY <1>4 DEF Ask, tables
    <2> QED BY <2>1, <2>2 DEF Missing, MissingKey, Due
  <1>5. CASE Create
    BY <1>2, <1>5 DEF Create, BeginCreate, EndCreate, CreateFails, CheckFixture,
                      MoveMatch, InsertMatch, tables
  <1>6. CASE Poll
    BY <1>2, <1>3, <1>4, <1>6
       DEF Poll, BeginTick, EndTick, ReadBoard, KnownRow, Refused, Unrecorded, Guessed,
           LookedUp, tables
  <1> QED BY <1>2, <1>5, <1>6
          DEF IntakeNext, LeaveLive, Publish, Conclude, ReviewLink, ConfirmEdition,
              vars, tables

LEMMA IntakeInvStart == IntakeInit => IntakeInv
  <1> SUFFICES ASSUME IntakeInit PROVE IntakeInv
    OBVIOUS
  <1>1. MaxClock \in Nat /\ MaxResolves \in Nat /\ MaxFaults \in Nat
    BY IntakeAssumption
  <1>2. links \in Links
    BY IntakeAssumption DEF IntakeInit, Links
  <1>3. NoLinks \in Links
    BY DEF NoLinks, Links
  <1>4. tries \in [Keys -> [attempts : Nat, last : Times]]
    BY <1>1 DEF IntakeInit, Times
  <1>5. matches \in [ImportKeys -> Row \cup {NoRow}] /\ \A k \in PipelineKeys : ~Exists(k)
    BY DEF IntakeInit, Exists, ImportKeys
  <1>6. IntakeTypeOK
    BY <1>1, <1>2, <1>3, <1>4, <1>5 DEF IntakeInit, IntakeTypeOK, Times
  <1>7. Relies
    BY DEF IntakeInit, Relies
  <1> QED BY <1>5, <1>6, <1>7 DEF IntakeInv, PipelineRowsStand

LEMMA IntakeInvStep == IntakeInv /\ [IntakeNext]_vars => IntakeInv' /\ RowSteps
  <1> SUFFICES ASSUME IntakeInv, [IntakeNext]_vars PROVE IntakeInv' /\ RowSteps
    OBVIOUS
  <1>1. RowSteps
    BY RowsKept
  <1>2. matches' \in [ImportKeys -> Row \cup {NoRow}] /\ PipelineRowsStand'
    BY <1>1 DEF RowSteps, PipelineRowsStand, PipelineRowStays
  <1>3. TableTypes' /\ JobATypes' /\ JobBTypes'
    BY TableTypesKept, JobATypesKept, JobBTypesKept
  <1>4. IntakeTypeOK'
    BY <1>2, <1>3 DEF IntakeTypeOK, TableTypes, JobATypes, JobBTypes
  <1>5. Relies'
    BY <1>1, ReliesOfJobA, ReliesOfJobB DEF Relies
  <1> QED BY <1>1, <1>2, <1>4, <1>5 DEF IntakeInv

(* IntakeTypeOK holds in every reachable state: among it that no cycle of  *)
(* Job B takes more guesses than its limit (tryResolve).                   *)
THEOREM IntakeTypeCorrect == IntakeSpec => []IntakeTypeOK
  <1>1. IntakeInv => IntakeTypeOK
    BY DEF IntakeInv
  <1>2. IntakeInv /\ [IntakeNext]_vars => IntakeInv'
    BY IntakeInvStep
  <1> QED BY IntakeInvStart, <1>1, <1>2, PTL DEF IntakeSpec

(* The jobs never touch what the pipeline published: no row of its own is  *)
(* moved, cancelled or given other players (CreateMatchFromFixture,        *)
(* RetireCreatedMatches, FlipOut).                                         *)
THEOREM PipelineRowsAreKept == IntakeSpec => PipelineRowsKept
  <1> DEFINE Stay == \A k \in PipelineKeys :
                       Exists(k) => /\ matches'[k].sides = matches[k].sides
                                    /\ matches'[k].at = matches[k].at
                                    /\ matches'[k].status # "cancelled"
  <1>1. IntakeInv /\ [IntakeNext]_vars => Stay
    BY IntakeInvStep DEF RowSteps, SameRow, PipelineRowStays, ImportKeys
  <1>2. IntakeInv /\ [IntakeNext]_vars => IntakeInv'
    BY IntakeInvStep
  <1>3. IntakeSpec => [][Stay]_vars
    BY IntakeInvStart, <1>1, <1>2, PTL DEF IntakeSpec
  <1> QED BY <1>3 DEF PipelineRowsKept

(* A row of ours that was retired or has been live stays cancelled: no     *)
(* conflict on import_key brings it back (CreateMatchFromFixture).         *)
THEOREM CancelledStaysCancelled == IntakeSpec => CancelledIsFinal
  <1> DEFINE Stay == \A f \in Fixtures :
                       Is(f, "cancelled") => Exists(f)' /\ matches'[f].status = "cancelled"
  <1>1. IntakeInv /\ [IntakeNext]_vars => Stay
    BY IntakeInvStep DEF RowSteps, SameRow, CancelledStays, ImportKeys, Is
  <1>2. IntakeInv /\ [IntakeNext]_vars => IntakeInv'
    BY IntakeInvStep
  <1>3. IntakeSpec => [][Stay]_vars
    BY IntakeInvStart, <1>1, <1>2, PTL DEF IntakeSpec
  <1> QED BY <1>3 DEF CancelledIsFinal
-----------------------------------------------------------------------------
(* No row on a guess about the draw: what Job A holds to be confirmed is.  *)
ConfirmedInv == IntakeInv /\ editions \subseteq confirmed /\ OnlyConfirmedEditions

LEMMA ConfirmedGrows ==
  ASSUME editions \subseteq confirmed, [IntakeNext]_vars
  PROVE  confirmed \subseteq confirmed' /\ editions' \subseteq confirmed'
  <1>1. CASE UNCHANGED <<confirmed, editions>>
    BY <1>1
  <1>2. CASE RestA /\ UNCHANGED confirmed
    BY <1>2 DEF RestA
  <1>3. CASE Create
    BY <1>1, <1>2, <1>3 DEF Create, BeginCreate, ResolveEditions, EndCreate, CreateFails,
                            CheckFixture, MoveMatch, InsertMatch, FixtureDone, tables
  <1>4. CASE Poll
    BY <1>1, <1>4 DEF Poll, BeginTick, EndTick, ReadBoard, Ask, KnownRow, Refused,
                      Unrecorded, Guessed, tables, jobA
  <1> QED BY <1>1, <1>3, <1>4
          DEF IntakeNext, LeaveLive, Publish, Conclude, ReviewLink, ConfirmEdition,
              vars, tables, jobA

LEMMA ConfirmedInvStep == ConfirmedInv /\ [IntakeNext]_vars => ConfirmedInv'
  <1> SUFFICES ASSUME ConfirmedInv, [IntakeNext]_vars PROVE ConfirmedInv'
    OBVIOUS
  <1>1. IntakeInv' /\ RowSteps
    BY IntakeInvStep DEF ConfirmedInv
  <1>2. confirmed \subseteq confirmed' /\ editions' \subseteq confirmed'
    BY ConfirmedGrows DEF ConfirmedInv
  <1>3. ASSUME NEW f \in Fixtures, Exists(f)'
        PROVE  /\ TournamentOf[f] \in confirmed'
               /\ matches'[f].edition = EditionOfFixture(f)
    <2>1. CASE Exists(f)
      BY <1>1, <1>2, <2>1
         DEF ConfirmedInv, OnlyConfirmedEditions, RowSteps, SameRow, ImportKeys
    <2>2. CASE ~Exists(f)
      <3>1. pcA = "insert" /\ f = draft.fixture /\ matches'[f] = NewRow
        BY <1>1, <1>3, <2>2 DEF RowSteps, OnlyInserted
      <3>2. TournamentOf[f] \in confirmed
        BY <3>1, NewRowIsRow DEF ConfirmedInv, IntakeInv
      <3> QED BY <1>2, <3>1, <3>2 DEF NewRow
    <2> QED BY <2>1, <2>2
  <1> QED BY <1>1, <1>2, <1>3 DEF ConfirmedInv, OnlyConfirmedEditions, EditionOfFixture

LEMMA ConfirmedInvStart == IntakeInit => ConfirmedInv
  <1> SUFFICES ASSUME IntakeInit PROVE ConfirmedInv
    OBVIOUS
  <1>1. \A f \in Fixtures : ~Exists(f)
    BY DEF IntakeInit, Exists, ImportKeys
  <1> QED BY <1>1, IntakeInvStart DEF IntakeInit, ConfirmedInv, OnlyConfirmedEditions

(* The tournament of every row of ours is confirmed to be its edition,     *)
(* however late a mapping is confirmed (ResolveEditions).                  *)
THEOREM EditionsAreConfirmed == IntakeSpec => []OnlyConfirmedEditions
  <1>1. ConfirmedInv => OnlyConfirmedEditions
    BY DEF ConfirmedInv
  <1> QED BY ConfirmedInvStart, ConfirmedInvStep, <1>1, PTL DEF IntakeSpec

-----------------------------------------------------------------------------
LEMMA PairsStep == IntakeInv /\ OwnPairsDistinct /\ [IntakeNext]_vars => OwnPairsDistinct'
  <1> SUFFICES ASSUME IntakeInv, OwnPairsDistinct, [IntakeNext]_vars,
                      NEW f \in Fixtures, NEW g \in Fixtures, f # g,
                      Exists(f)', Exists(g)',
                      matches'[f].edition = matches'[g].edition
               PROVE  matches'[f].sides # matches'[g].sides
    BY DEF OwnPairsDistinct
  <1>1. RowSteps /\ f \in ImportKeys /\ g \in ImportKeys
    BY IntakeInvStep DEF ImportKeys
  <1>2. \A h \in ImportKeys :
          Exists(h) => /\ matches'[h].edition = matches[h].edition
                       /\ matches'[h].sides = matches[h].sides
    BY <1>1 DEF RowSteps, SameRow
  <1>3. CASE Exists(f) /\ Exists(g)
    BY <1>1, <1>2, <1>3 DEF OwnPairsDistinct
  <1>4. ASSUME NEW h \in Fixtures, NEW o \in Fixtures, h # o, ~Exists(h), Exists(h)',
               Exists(o)', matches'[h].edition = matches'[o].edition
        PROVE  matches'[h].sides # matches'[o].sides
    <2>1. pcA = "insert" /\ h = draft.fixture /\ matches'[h] = NewRow
      BY <1>1, <1>4 DEF RowSteps, OnlyInserted
    <2>2. Exists(o) /\ o \in ImportKeys
      BY <1>1, <1>4, <2>1 DEF RowSteps, OnlyInserted, ImportKeys
    <2>3. o \notin MatchesOf(h)
      BY <2>1 DEF IntakeInv, Relies
    <2>4. /\ matches'[h].edition = EditionOfFixture(h)
          /\ matches'[h].sides = Pair(players, h)
      BY <2>1 DEF NewRow
    <2> QED BY <1>2, <1>4, <2>2, <2>3, <2>4 DEF MatchesOf
  <1> QED BY <1>3, <1>4

(* A meeting never has two rows of ours in an edition, whatever ids the    *)
(* vendor lists it under and whatever the links become in between          *)
(* (CreateMatchFromFixture: the jobs' lock makes check and insert one).    *)
THEOREM OwnPairsAreDistinct == IntakeSpec => []OwnPairsDistinct
  <1>1. IntakeInit => OwnPairsDistinct
    BY DEF IntakeInit, OwnPairsDistinct, Exists, ImportKeys
  <1>2. IntakeInv /\ [IntakeNext]_vars => IntakeInv'
    BY IntakeInvStep
  <1> QED BY IntakeInvStart, <1>1, <1>2, PairsStep, PTL DEF IntakeSpec

(* Job A moves the time of a row only for its own fixture or for one that  *)
(* names the same players (CreateMatchFromFixture).                        *)
THEOREM OwnMeetingsAreMoved == IntakeSpec => MovesOwnMeeting
  <1> DEFINE Own == \A f \in Fixtures :
                      Exists(f) /\ matches'[f].at # matches[f].at =>
                        f = draft.fixture
                        \/ Pair(players, draft.fixture) \subseteq matches[f].sides
  <1>1. IntakeInv /\ [IntakeNext]_vars => Own
    BY IntakeInvStep DEF RowSteps, TimeStays, IntakeInv, Relies, MatchesOf
  <1>2. IntakeInv /\ [IntakeNext]_vars => IntakeInv'
    BY IntakeInvStep
  <1>3. IntakeSpec => [][Own]_vars
    BY IntakeInvStart, <1>1, <1>2, PTL DEF IntakeSpec
  <1> QED BY <1>3 DEF MovesOwnMeeting

(* A row of ours that is live, over or cancelled keeps its time, but for   *)
(* the conflict of a fixture that by now names others                      *)
(* (CreateMatchFromFixture).                                               *)
THEOREM StartedRowsKeepTheirTime == IntakeSpec => StartedKeepsTime
  <1> DEFINE Keeps == \A f \in Fixtures :
                        Exists(f) /\ matches[f].status # "scheduled" =>
                          \/ matches'[f].at = matches[f].at
                          \/ /\ f = draft.fixture
                             /\ ~(Pair(players, f) \subseteq matches[f].sides)
  <1>1. ConfirmedInv /\ [IntakeNext]_vars => Keeps
    <2> SUFFICES ASSUME ConfirmedInv, [IntakeNext]_vars, NEW f \in Fixtures, Exists(f),
                        matches[f].status # "scheduled", matches'[f].at # matches[f].at
                 PROVE  /\ f = draft.fixture
                        /\ ~(Pair(players, f) \subseteq matches[f].sides)
      OBVIOUS
    <2>1. pcA = "insert" /\ f = draft.fixture
      BY IntakeInvStep DEF RowSteps, TimeStays, ConfirmedInv
    <2>2. f \notin MatchesOf(f) /\ matches[f].edition = EditionOfFixture(f)
      BY <2>1 DEF ConfirmedInv, IntakeInv, Relies, OnlyConfirmedEditions
    <2> QED BY <2>1, <2>2 DEF MatchesOf, ImportKeys
  <1>2. IntakeSpec => [][Keeps]_vars
    BY ConfirmedInvStart, ConfirmedInvStep, <1>1, PTL DEF IntakeSpec
  <1> QED BY <1>2 DEF StartedKeepsTime

-----------------------------------------------------------------------------
(* The links change by a guess, where there is none, or by a review.       *)
LEMMA LinksSteps ==
  ASSUME [IntakeNext]_vars
  PROVE  \/ UNCHANGED links
         \/ \E k, p : UpsertPlayerMapping(k, p)
         \/ \E k \in Keys : ReviewLink(k)
  <1>1. CASE Create
    BY <1>1 DEF Create, BeginCreate, EndCreate, CreateFails, CheckFixture, MoveMatch,
                InsertMatch, tables
  <1>2. CASE Poll
    BY <1>2 DEF Poll, BeginTick, EndTick, ReadBoard, Ask, KnownRow, Refused, Unrecorded,
                Guessed, tables
  <1> QED BY <1>1, <1>2 DEF IntakeNext, LeaveLive, Publish, Conclude, ConfirmEdition,
                            vars, tables

(* A right link is never replaced by a guess that was on its way while a   *)
(* person gave it (UpsertPlayerMapping).                                   *)
THEOREM ReviewsStand == IntakeSpec => ReviewStands
  <1> DEFINE Stand == \A k \in Keys : links[k] = Who[k] => links'[k] = Who[k]
  <1>1. IntakeInv /\ [IntakeNext]_vars => Stand
    <2> SUFFICES ASSUME IntakeInv, [IntakeNext]_vars, NEW k \in Keys, links[k] = Who[k]
                 PROVE  links'[k] = Who[k]
      OBVIOUS
    <2>1. links \in [Keys -> Players \cup {NoLink}] /\ Who[k] \in Players \cup {Stranger}
      BY IntakeAssumption DEF IntakeInv, IntakeTypeOK, Links
    <2>2. Stranger \notin Players /\ NoLink \notin Players \cup {Stranger}
      BY IntakeAssumption
    <2>3. Who[k] # NoLink /\ Who[k] # Stranger
      BY <2>1, <2>2
    <2>4. ASSUME NEW l, NEW p, UpsertPlayerMapping(l, p) PROVE links'[k] = links[k]
      BY <2>1, <2>3, <2>4 DEF UpsertPlayerMapping
    <2>5. ASSUME NEW l \in Keys, ReviewLink(l) PROVE links'[k] = links[k]
      BY <2>1, <2>3, <2>5 DEF ReviewLink
    <2> QED BY <2>4, <2>5, LinksSteps
  <1>2. IntakeInv /\ [IntakeNext]_vars => IntakeInv'
    BY IntakeInvStep
  <1>3. IntakeSpec => [][Stand]_vars
    BY IntakeInvStart, <1>1, <1>2, PTL DEF IntakeSpec
  <1> QED BY <1>3 DEF ReviewStands

(* The attempts change by a refusal alone.                                 *)
LEMMA TriesSteps ==
  ASSUME [IntakeNext]_vars
  PROVE  UNCHANGED tries \/ Refused
  <1>1. CASE Create
    BY <1>1 DEF Create, BeginCreate, EndCreate, CreateFails, CheckFixture, MoveMatch,
                InsertMatch, tables
  <1>2. CASE Poll
    BY <1>2 DEF Poll, BeginTick, EndTick, ReadBoard, Ask, KnownRow, Unrecorded, Guessed,
                tables
  <1> QED BY <1>1, <1>2 DEF IntakeNext, LeaveLive, Publish, Conclude, ReviewLink,
                            ConfirmEdition, vars, tables

(* Between two refusals of a key lies the wait that the ones before call   *)
(* for (ShouldTryResolve, RecordResolveAttempt).                           *)
THEOREM BackoffIsKept == IntakeSpec => BackoffKept
  <1> DEFINE Waits == \A k \in Keys :
                        tries'[k] # tries[k] /\ tries[k].attempts > 0 =>
                          tries'[k].last - tries[k].last >= Backoff(tries[k].attempts)
  <1>1. IntakeInv /\ [IntakeNext]_vars => Waits
    <2> SUFFICES ASSUME IntakeInv, [IntakeNext]_vars, NEW k \in Keys,
                        tries'[k] # tries[k], tries[k].attempts > 0
                 PROVE  tries'[k].last - tries[k].last >= Backoff(tries[k].attempts)
      OBVIOUS
    <2>1. tries \in [Keys -> [attempts : Nat, last : Times]]
      BY DEF IntakeInv, IntakeTypeOK
    <2>2. /\ pcB = "answer"
          /\ tries' = [tries EXCEPT ![MissingKey(looking)] =
                         [attempts |-> @.attempts + 1, last |-> clock]]
      BY TriesSteps DEF Refused
    <2>3. k = MissingKey(looking) /\ tries'[k].last = clock
      BY <2>1, <2>2
    <2>4. Due(k)
      BY <2>2, <2>3 DEF IntakeInv, Relies
    <2> QED BY <2>3, <2>4 DEF Due
  <1>2. IntakeInv /\ [IntakeNext]_vars => IntakeInv'
    BY IntakeInvStep
  <1>3. IntakeSpec => [][Waits]_vars
    BY IntakeInvStart, <1>1, <1>2, PTL DEF IntakeSpec
  <1> QED BY <1>3 DEF BackoffKept

-----------------------------------------------------------------------------
(* A row has two players, or one: both keys of its fixture may have been   *)
(* linked to him.                                                          *)
TwoSides(set) == \E p, q \in Players : set = {p, q}

SidesInv == IntakeInv /\ \A k \in ImportKeys : Exists(k) => TwoSides(matches[k].sides)

LEMMA PairHasTwoSides ==
  ASSUME NEW map, NEW f \in Fixtures, \A k \in KeysOf[f] : map[k] \in Players
  PROVE  TwoSides(Pair(map, f))
  <1>1. PICK k \in Keys, l \in Keys : KeysOf[f] = {k, l}
    BY IntakeAssumption
  <1>2. Pair(map, f) = {map[k], map[l]} /\ map[k] \in Players /\ map[l] \in Players
    BY <1>1 DEF Pair
  <1> QED BY <1>2 DEF TwoSides

LEMMA SidesInvStep == SidesInv /\ [IntakeNext]_vars => SidesInv'
  <1> SUFFICES ASSUME SidesInv, [IntakeNext]_vars, NEW k \in ImportKeys, Exists(k)'
               PROVE  TwoSides(matches'[k].sides)
    BY IntakeInvStep DEF SidesInv, TwoSides, ImportKeys
  <1>1. RowSteps
    BY IntakeInvStep DEF SidesInv
  <1>2. CASE Exists(k)
    BY <1>1, <1>2 DEF RowSteps, SameRow, SidesInv
  <1>3. CASE ~Exists(k) /\ k \in Fixtures
    <2>1. pcA = "insert" /\ matches'[k] = NewRow /\ k = draft.fixture
      BY <1>1, <1>3 DEF RowSteps, OnlyInserted
    <2>2. Creatable(k) /\ players \in Links /\ KeysOf[k] \subseteq Keys
      BY <1>3, <2>1, IntakeAssumption DEF SidesInv, IntakeInv, Relies, IntakeTypeOK
    <2>3. \A l \in KeysOf[k] : players[l] \in Players
      BY <2>2 DEF Creatable, Known, Links
    <2>4. TwoSides(Pair(players, k))
      BY <1>3, <2>3, PairHasTwoSides
    <2> QED BY <2>1, <2>4 DEF NewRow
  <1>4. CASE ~Exists(k) /\ k \in PipelineKeys
    BY <1>1, <1>4, IntakeAssumption DEF RowSteps, PipelineRowStays, TwoSides
  <1> QED BY <1>2, <1>3, <1>4 DEF ImportKeys

(* The links a raised row was found by are ones that the board row may be  *)
(* judged by, and single out its players or one of them.                   *)
LEMMA RaisedByPair ==
  ASSUME IntakeInv, NEW k \in ImportKeys, TwoSides(matches[k].sides),
         Is(k, "scheduled"), matches'[k].status = "live",
         NEW f \in Fixtures, NEW t, NEW map,
         Raise(Pair(map, f), t), \A l \in KeysOf[f] : map[l] \in Players,
         [l \in KeysOf[f] |-> map[l]] \in LinksUsed(f)
  PROVE  \E used \in LinksUsed(f) :
           \/ Pair(used, f) = matches[k].sides
           \/ \E p \in matches[k].sides : Pair(used, f) = {p}
  <1> DEFINE used == [l \in KeysOf[f] |-> map[l]]
  <1>1. Pair(used, f) = Pair(map, f)
    BY DEF Pair
  <1>2. k \in Found(Pair(map, f), t)
    BY DEF Raise, Turn, Is
  <1>3. Pair(map, f) \subseteq matches[k].sides
    BY <1>2 DEF Found
  <1>4. PICK p \in Players, q \in Players : matches[k].sides = {p, q}
    BY DEF TwoSides
  <1>5. Pair(map, f) # {}
    <2>1. TwoSides(Pair(map, f))
      BY PairHasTwoSides
    <2> QED BY <2>1 DEF TwoSides
  <1>6. \/ Pair(map, f) = matches[k].sides
        \/ \E o \in matches[k].sides : Pair(map, f) = {o}
    BY <1>3, <1>4, <1>5
  <1> QED BY <1>1, <1>6

(* A row is raised for a board row that was judged to be of its players,   *)
(* or of one of them twice: the pair it is found by is never a mixture of  *)
(* two rows or of two cycles (FindMatchByPlayers, tryResolve).             *)
THEOREM RaisedForPlayers == IntakeSpec => RaisedForItsPlayers
  <1> DEFINE Judged == \A k \in ImportKeys :
       Is(k, "scheduled") /\ matches'[k].status = "live" =>
         \E f \in Fixtures : \E used \in LinksUsed(f) :
           \/ Pair(used, f) = matches[k].sides
           \/ \E p \in matches[k].sides : Pair(used, f) = {p}
  <1>1. IntakeInit => SidesInv
    BY IntakeInvStart DEF SidesInv, IntakeInit, Exists
  <1>2. SidesInv /\ [IntakeNext]_vars => Judged
    <2> SUFFICES ASSUME SidesInv, [IntakeNext]_vars, NEW k \in ImportKeys,
                        Is(k, "scheduled"), matches'[k].status = "live"
                 PROVE  \E f \in Fixtures : \E used \in LinksUsed(f) :
                          \/ Pair(used, f) = matches[k].sides
                          \/ \E p \in matches[k].sides : Pair(used, f) = {p}
      OBVIOUS
    <2>1. IntakeInv /\ TwoSides(matches[k].sides) /\ resolved \in Links
      BY DEF SidesInv, Is, IntakeInv, IntakeTypeOK
    <2>2. ByBoard
      BY IntakeInvStep DEF SidesInv, RowSteps, Rises
    <2>3. ASSUME NEW f \in Fixtures, NEW t, KnownRow(f, t)
          PROVE  \E used \in LinksUsed(f) :
                   \/ Pair(used, f) = matches[k].sides
                   \/ \E p \in matches[k].sides : Pair(used, f) = {p}
      <3>1. KeysOf[f] \subseteq Keys
        BY IntakeAssumption
      <3>2. \A l \in KeysOf[f] : resolved[l] \in Players /\ resolved[l] # NoLink
        BY <2>1, <2>3, <3>1 DEF KnownRow, Known, Links
      <3>3. [l \in KeysOf[f] |-> resolved[l]] \in LinksUsed(f)
        BY <3>2 DEF LinksUsed
      <3>4. Raise(Pair(resolved, f), t)
        BY <2>3 DEF KnownRow
      <3> QED BY <2>1, <3>2, <3>3, <3>4, RaisedByPair
    <2>4. ASSUME NEW t, Guessed(t)
          PROVE  \E used \in LinksUsed(looking) :
                   \/ Pair(used, looking) = matches[k].sides
                   \/ \E p \in matches[k].sides : Pair(used, looking) = {p}
      <3> DEFINE m == MissingKey(looking)
      <3>1. looking \in Fixtures /\ Cardinality(Missing(looking)) = 1
        BY <2>1, <2>4 DEF Guessed, IntakeInv, IntakeTypeOK, Relies
      <3>2. PICK p \in Fits[m] : Raise(Pair([resolved EXCEPT ![m] = p], looking), t)
        BY <2>4 DEF Guessed
      <3> DEFINE map == [resolved EXCEPT ![m] = p]
      <3>3. m \in Keys /\ KeysOf[looking] \subseteq Keys /\ p \in Players
        <4>1. m \in Keys
          BY <3>1, OneMissing, MissingKeyIsKey
        <4>2. Fits[m] \subseteq Players /\ KeysOf[looking] \subseteq Keys
          BY <3>1, <4>1, IntakeAssumption
        <4> QED BY <3>2, <4>1, <4>2
      <3>4. m \in Missing(looking) /\ Missing(looking) = {m}
        BY <3>1, OneMissing, FS_Singleton DEF MissingKey, Missing
      <3>5. \A l \in KeysOf[looking] :
              map[l] = IF l = m THEN p ELSE resolved[l]
        BY <2>1, <3>3 DEF Links
      <3>6. \A l \in KeysOf[looking] : l # m => resolved[l] \in Players /\ resolved[l] # NoLink
        BY <2>1, <3>3, <3>4 DEF Missing, Links
      <3>7. resolved[m] = NoLink
        BY <3>4 DEF Missing
      <3>8. \A l \in KeysOf[looking] : map[l] \in Players
        BY <3>3, <3>5, <3>6
      <3>9. [l \in KeysOf[looking] |-> map[l]] \in LinksUsed(looking)
        BY <3>2, <3>3, <3>5, <3>6, <3>7, <3>8 DEF LinksUsed
      <3> QED BY <2>1, <3>1, <3>2, <3>8, <3>9, RaisedByPair
    <2>5. CASE \E t \in StartTimes \cup {clock} : Guessed(t)
      <3>1. looking \in Fixtures
        BY <2>1, <2>5 DEF Guessed, IntakeInv, IntakeTypeOK
      <3> QED BY <2>4, <2>5, <3>1
    <2> QED BY <2>2, <2>3, <2>5 DEF ByBoard
  <1>3. SidesInv /\ [IntakeNext]_vars => SidesInv'
    BY SidesInvStep
  <1>4. IntakeSpec => [][Judged]_vars
    BY <1>1, <1>2, <1>3, PTL DEF IntakeSpec
  <1> QED BY <1>4 DEF RaisedForItsPlayers
=============================================================================

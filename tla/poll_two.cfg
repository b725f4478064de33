\* Two instances on one database, as during a deploy, one of them killed: what
\* the snapshot of the flags is worth under the lock.
CONSTANTS
  m1 = m1
  a = a
  b = b
  d = d
  NoFlag = NoFlag
  Free = Free
  Matches = {m1}
  Created = {}
  PipelineStatuses = {}
  Times = {0, 1, 2, 3, 4, 5}
  RunIds = {0, 1, 2, 3, 4}
  Inst = {a, b}
  Replays = {}
  DevFlips = FALSE
  Boards <- ShortBoards
  Extras = {0}
  MinGap = 1
  RunTTL = 1
  Gaps = {1}
  PollUntil = 5
  MaxClock = 5
  MaxRuns = 4
  MaxCrashes = 1
  MaxLiveAge = 0
SPECIFICATION PollSpec
INVARIANTS OnePollAtATime PeriodsOrdered AbsencesBounded
PROPERTY ThreeBoards
SYMMETRY Alike

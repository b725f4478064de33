\* One instance and one match, listed once or twice among other rows of ours
\* that come and go: a board may lose most of what the last good one showed.
\* Five runs: one that raises, two absences, a run that sees the match and
\* fails, a third absence.
CONSTANTS
  m1 = m1
  a = a
  b = b
  d = d
  NoFlag = NoFlag
  Free = Free
  Matches = {m1}
  Created = {}
  PipelineStatuses = {}
  Times = {0, 1, 2, 3, 4, 5}
  RunIds = {0, 1, 2, 3, 4, 5}
  Inst = {a}
  Replays = {}
  DevFlips = FALSE
  Boards <- OddBoards
  Extras = {0, 3}
  MinGap = 1
  RunTTL = 1
  Gaps = {1}
  PollUntil = 5
  MaxClock = 5
  MaxRuns = 5
  MaxCrashes = 0
  MaxLiveAge = 0
SPECIFICATION PollSpec
PROPERTIES ThreeBoards CollapseEndsNothing

\* Two instances list the same overdue card; one puts it out and raises the
\* match again before the other comes to it.
CONSTANTS
  m1 = m1
  a = a
  b = b
  d = d
  NoFlag = NoFlag
  Free = Free
  Matches = {m1}
  Created = {}
  PipelineStatuses = {}
  Times = {0, 1, 2, 3, 4, 5}
  RunIds = {0, 1, 2}
  Inst = {a, b}
  Replays = {}
  DevFlips = FALSE
  Boards <- ShortBoards
  Extras = {0}
  MinGap = 1
  RunTTL = 1
  Gaps = {1}
  PollUntil = 5
  MaxClock = 5
  MaxRuns = 2
  MaxCrashes = 0
  MaxLiveAge = 1
SPECIFICATION PollSpec
PROPERTY ReconcileHasReason

\* Everyone at once, on boards that may collapse; the clock runs on after the
\* last poll.
CONSTANTS
  m1 = m1
  a = a
  b = b
  d = d
  NoFlag = NoFlag
  Free = Free
  Matches = {m1}
  Created = {}
  PipelineStatuses = {"scheduled", "completed"}
  Times = {0, 1, 2, 3, 4, 5}
  RunIds = {0, 1, 2}
  Inst = {a}
  Replays = {d}
  DevFlips = TRUE
  Boards <- ShortBoards
  Extras = {0, 3}
  MinGap = 1
  RunTTL = 1
  Gaps = {1}
  PollUntil = 2
  MaxClock = 5
  MaxRuns = 2
  MaxCrashes = 1
  MaxLiveAge = 2
SPECIFICATION PollFairSpec
PROPERTIES FlagsGoOut ImplementsStore

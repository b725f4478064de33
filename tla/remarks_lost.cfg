\* A statement of Ingest fails, or the process dies, between the flag and the
\* remark.
CONSTANTS
  m1 = m1
  a = a
  b = b
  d = d
  NoFlag = NoFlag
  Free = Free
  Matches = {m1}
  Created = {}
  PipelineStatuses = {}
  Times = {0, 1, 2, 3, 4}
  RunIds = {0, 1, 2, 3}
  Inst = {a}
  Replays = {}
  DevFlips = FALSE
  Boards <- ShortBoards
  Extras = {0}
  MinGap = 1
  RunTTL = 1
  Gaps = {1}
  PollUntil = 4
  MaxClock = 4
  MaxRuns = 3
  MaxCrashes = 0
  MaxLiveAge = 0
SPECIFICATION PollSpec
INVARIANT RemarksAgree

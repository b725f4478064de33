\* Two followers who may get their device at any time, two instances, a match
\* that may be live twice or be finished by the pipeline, and an Apple that
\* refuses or whose answers are lost; no other fault.
CONSTANTS
  m1 = m1
  u1 = u1
  u2 = u2
  a = a
  b = b
  NoFlag = NoFlag
  Never = Never
  NoToken = NoToken
  Free = Free
  Matches = {m1}
  Created = {}
  PipelineStatuses = {"completed"}
  Times = {0, 1, 2, 3, 4, 5, 6}
  RunIds = {0}
  Users = {u1, u2}
  Pushers = {a, b}
  MaxTokens = 1
  MaxAttempts = 2
  BatchSize = 2
  RetryAfter = 1
  MaxSessionAge = 0
  PushEnabled = TRUE
  Answers = {"ok", "lost", "refused"}
  Gaps = {2}
  MaxClock = 6
  MaxEvents = 3
  MaxFaults = 0
SPECIFICATION PushSpec
PROPERTIES RetriesReachAll RecheckIsExact
SYMMETRY Same

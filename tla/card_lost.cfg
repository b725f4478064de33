\* A start push that fails once, and the statement that gives the slot back
\* fails or never comes.
CONSTANTS
  m1 = m1
  u1 = u1
  u2 = u2
  a = a
  b = b
  NoFlag = NoFlag
  Never = Never
  NoToken = NoToken
  Free = Free
  Matches = {m1}
  Created = {}
  PipelineStatuses = {}
  Times = {0, 1, 2, 3, 4, 5, 6, 7}
  RunIds = {0}
  Users = {u1}
  Pushers = {a}
  MaxTokens = 1
  MaxAttempts = 2
  BatchSize = 2
  RetryAfter = 1
  MaxSessionAge = 0
  PushEnabled = TRUE
  Answers = {"ok", "refused"}
  Gaps = {2}
  MaxClock = 7
  MaxEvents = 1
  MaxFaults = 1
SPECIFICATION PushSpec
PROPERTY ConsumedMeansSent

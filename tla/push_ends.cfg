\* Ages that the clock reaches, a match that may be live twice, with
\* everything failing now and then.
CONSTANTS
  m1 = m1
  u1 = u1
  u2 = u2
  a = a
  b = b
  NoFlag = NoFlag
  Never = Never
  NoToken = NoToken
  Free = Free
  Matches = {m1}
  Created = {}
  PipelineStatuses = {}
  Times = {0, 1, 2, 3, 4, 5, 6}
  RunIds = {0}
  Users = {u1}
  Pushers = {a, b}
  MaxTokens = 1
  MaxAttempts = 2
  BatchSize = 2
  RetryAfter = 1
  MaxSessionAge = 1
  PushEnabled = TRUE
  Answers = {"ok", "refused", "gone"}
  Gaps = {2}
  MaxClock = 6
  MaxEvents = 3
  MaxFaults = 1
SPECIFICATION PushFairSpec
INVARIANT OneCardPerSession
PROPERTIES SessionsEnd OutOfTurnOnlyOnRetry

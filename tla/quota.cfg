\* A day and a half of the two jobs, retries, a look-up and a fault; a tick is
\* the floor interval.  No fixtures: the windows have a run of their own.
CONSTANTS
  f1 = f1
  f2 = f2
  Never = Never
  Day = 2
  DailyQuota = 4
  Reserve = 1
  MinInterval = 1
  MaxInterval = 2
  StaleInterval = 1
  StaleDailyCap = 1
  StaleAfter = 1
  TickSlack = 0
  WatchLead = 1
  WatchTail = 1
  Fixtures = {}
  Slots = {}
  Retries = 1
  Batches = 1
  Unknown = 1
  ResolveMax = 1
  Timeout = 1
  Times = {0, 1, 2}
  MaxRefresh = 1
  MaxFaults = 1
SPECIFICATION QuotaSpec
INVARIANTS QuotaTypeOK DayBound StaleBound 
PROPERTIES PollsWithinBudget PollsSpaced

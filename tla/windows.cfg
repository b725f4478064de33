\* Two fixtures of overlapping windows, moved, pruned and fetched in part.
CONSTANTS
  f1 = f1
  f2 = f2
  Never = Never
  Day = 4
  DailyQuota = 3
  Reserve = 1
  MinInterval = 1
  MaxInterval = 3
  StaleInterval = 3
  StaleDailyCap = 2
  StaleAfter = 2
  TickSlack = 0
  WatchLead = 1
  WatchTail = 1
  Fixtures = {f1, f2}
  Slots = {1, 2}
  Retries = 0
  Batches = 2
  Unknown = 0
  ResolveMax = 1
  Timeout = 1
  Times = {0, 1, 2, 3, 4}
  MaxRefresh = 2
  MaxFaults = 0
SPECIFICATION QuotaSpec
SYMMETRY Twins
INVARIANTS WatchIsUnion
PROPERTIES WindowsKept

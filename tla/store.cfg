\* Every interleaving of the transactions, two matches, one of them created
\* by this service; the pipeline may write anything but `scheduled`. And the
\* screens that read them: a request, over a match and another one beside it.
CONSTANTS
  o = o
  c = c
  p = p
  NoFlag = NoFlag
  NoDate = NoDate
  NoMatch = NoMatch
  Never = Never
  Gone = Gone
  Matches = {o, c}
  Created = {c}
  PipelineStatuses = {"live", "completed", "cancelled"}
  Times = {0, 1, 2, 3}
  RunIds = {0}
  Followed = {p}
  PlayersOf <- MCPlayersOf
  Entered = {}
  Dates = {0, 1}
  DayLength = 1
  Grace = 0
  Retention = 1
  MaxRequest = 1
  MaxClock = 2
  MaxEvents = 3
  MaxFeedEvents = 2
SPECIFICATION MCSpec
INVARIANTS OutboxAgrees EndedStaysOut NobodyMissed
PROPERTIES ResultKept ImplementsPeriods SplitMeansNobodyToday

\* The rows that Job A makes and Job B finds: a meeting that the vendor lists
\* twice, a name that fits the wrong player, a row of the pipeline, a fault.
\* And three follows in a draw of sixteen, in three draws, over the days of its
\* rounds.
CONSTANTS
  F = F
  X = X
  kF = kF
  kX = kX
  kY = kY
  f1 = f1
  f2 = f2
  tour = tour
  main = main
  pub = pub
  NoRow = NoRow
  NoLink = NoLink
  Stranger = Stranger
  Players = {F, X}
  Keys = {kF, kX, kY}
  Fixtures = {f1, f2}
  KeysOf <- MCKeysOf
  Tournaments = {tour}
  TournamentOf <- MCTournamentOf
  Editions = {main}
  EditionOf <- MCEditionOf
  PipelineKeys = {pub}
  Meetings = {{F, X}}
  Who <- MCWho
  Fits <- MCFits
  Reviewed = {kF, kY}
  MaxClock = 3
  StartTimes = {0, 1}
  TTL = 1
  MatchWindow = 1
  MaxResolves = 1
  Backoffs <- MCBackoffs
  MaxFaults = 1
  a = a
  b = b
  c = c
  Rounds = 4
  Followed = {a, b, c}
  Rank <- MCRank
  Slug <- MCSlug
  Draws <- MCDraws
  Window = 1
  MaxDay = 3
  Other = Other
  Nobody = Nobody
  NoSlice = NoSlice
SPECIFICATION TablesSpec
INVARIANTS IntakeTypeOK OwnPairsDistinct
  BracketTypeOK SliceWhilePlaying DefaultShowsFollow CouldMeetIsTrue PendingIsOpen SliceOnCard
PROPERTIES CancelledIsFinal MovesOwnMeeting RaisedForItsPlayers BackoffKept CreatedRowsEnd
  SliceNeverTurnsBack
CHECK_DEADLOCK FALSE

CONSTANTS
  Sockets = {c1, c2}
  Publishers = {p1, p2}
  None = None
  UserOf <- MCUserOf
  MaxRuns = 2
  MaxCount = 2
  Processes = {q1, q2}
  MaxDeaths = 1
  Found <- MCFound
  MinutesPerDay = 24
  DaysPerWeek = 7
SPECIFICATION MCSpec
INVARIANTS HubTypeOK WritesAreSafe SomebodyGoesOn
INVARIANTS PingTypeOK OvertakenAreSilent
INVARIANTS MigrationTypeOK OpenIsComplete NeverAddedTwice
PROPERTIES ImplementsBroadcast PublishEnds RunsEnd EventuallyOpen WindowEdges
\* Every process that opens the file may be done, and every session over.
CHECK_DEADLOCK FALSE

CONSTANTS
  MinutesPerDay = 1
  DaysPerWeek = 2
  AgeCap = 2
  StreakCap = 1
  ProbePeriod = 1
  Monitors = {m1}
  RunIds = {r1}
  Configs <- PlainOnly
  Latencies = {0}
  CertProbes <- NoCert
  DomainProbes <- NoDomain
  MaxLag = 1
SPECIFICATION HistorySpec
INVARIANT StartSurvivesEmptyHistory

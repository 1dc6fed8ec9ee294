\* One monitor with every signal watched: latency, certificate and domain.
CONSTANTS
  MinutesPerDay = 2
  DaysPerWeek = 1
  AgeCap = 2
  StreakCap = 2
  ProbePeriod = 2
  Monitors = {m1}
  RunIds = {r1}
  Configs <- WatchfulOnly
  Latencies = {0, 1}
  CertProbes <- CertDays
  DomainProbes <- DomainDays
  MaxLag = 1
SPECIFICATION Spec
PROPERTIES ImplementsContract

\* One monitor whose window may swallow its retries.
CONSTANTS
  MinutesPerDay = 3
  DaysPerWeek = 1
  AgeCap = 2
  StreakCap = 2
  ProbePeriod = 2
  Monitors = {m1}
  RunIds = {r1, r2}
  Configs <- PatientOnly
  Latencies = {0}
  CertProbes <- NoCert
  DomainProbes <- NoDomain
  MaxLag = 1
SPECIFICATION FairSpec
PROPERTIES ActiveIsChecked DownIsAnnounced

\* One monitor, outages and windows; two runs may overlap.
CONSTANTS
  MinutesPerDay = 2
  DaysPerWeek = 1
  AgeCap = 2
  StreakCap = 2
  ProbePeriod = 2
  Monitors = {m1}
  RunIds = {r1, r2}
  Configs <- OutageConfigs
  Latencies = {0}
  CertProbes <- NoCert
  DomainProbes <- NoDomain
  MaxLag = 1
SPECIFICATION Spec
SYMMETRY RunSymmetry
PROPERTIES ImplementsContract

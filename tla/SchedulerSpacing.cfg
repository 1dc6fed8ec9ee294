\* One monitor edited between two intervals; ticks that wait, overlapping runs.
CONSTANTS
  MinutesPerDay = 1
  DaysPerWeek = 1
  AgeCap = 4
  StreakCap = 1
  ProbePeriod = 4
  Monitors = {m1}
  RunIds = {r1, r2}
  Configs <- SpacingConfigs
  Latencies = {0}
  CertProbes <- NoCert
  DomainProbes <- NoDomain
  MaxLag = 2
SPECIFICATION Spec
SYMMETRY RunSymmetry
INVARIANTS SlotSpacing
PROPERTIES QuietStaysQuiet

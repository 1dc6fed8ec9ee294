\* The proportions of a monitor checked every 10 s: 8640 rows a day, of which 5000
\* are kept and 2000 are read, scaled to 8, 5 and 2; a block is a fourth of the day.
CONSTANTS
  Sites = {s1}
  Interval = 1
  MaxDelay = 1
  Keep = 5
  Hour = 2
  Blocks = 4
  Limit = 2
  MaxRows = 8
SPECIFICATION HeartbeatsSpec
INVARIANT HistoryShowsEveryHour

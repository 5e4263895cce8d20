SPECIFICATION Spec
CONSTANTS
  Plugins = {"basicstats", "minmax", "valuecounter", "histogram"}
  Series = {s1, s2}
  Numbers <- MCNumbers
  Text = Text
  Buckets <- MCBuckets
  Scale = 6
  Nothing = Nothing
  Period = 2
  Delay = 1
  Truncations = {1}
  Ages <- MCAges
  ChanSize = 1
  MaxLag = 1
  MaxTime = 6
  MaxMetrics = 3
INVARIANTS TypeOK WindowFollowsTicks OnlyTheWindow ReportsTrue
PROPERTY SkipsOnlyLate
SYMMETRY SeriesSymmetry
CHECK_DEADLOCK FALSE

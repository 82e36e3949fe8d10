CONSTANTS
  Key = {k1, k2}
  Rate = 2
  Window = 1
  Absent = Absent
  MaxTime = 5
SPECIFICATION LimiterSpec
INVARIANT TwiceRatePerWindow
PROPERTY ImplementsQuota

CONSTANTS
  Table = {s1, s2}
  Id = {1, 2, 3}
  BatchSizes = {0, 1, 2}
  Limits = {0, 1}
  IdExtractable = TRUE
  IdSelections = {TRUE, FALSE}
  MaxWrites = 2
SPECIFICATION FairScan
INVARIANT NoRowLost
INVARIANT NoRowInvented
INVARIANT NoGoroutineLeft
PROPERTY CallEnds

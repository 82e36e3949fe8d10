CONSTANTS
  Consumer = {c1, c2}
  NoOne = NoOne
  LastOffset = 2
  Capacity = 1
  Closing = {c2}
  MaxRebalances = 2
  MaxFailures = 1
SPECIFICATION FairSpec
PROPERTY AllHandled
PROPERTY CloseReturns
PROPERTY ImplementsGroupOffset
CHECK_DEADLOCK FALSE

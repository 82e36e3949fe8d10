CONSTANTS
  Caller = {c1, c2}
  Closer = {k1, k2}
  BatchSize = 2
  Capacity = 1
  MaxMessages = 3
SPECIFICATION FairSpec
INVARIANT NoSendOnClosedInput
INVARIANT TrueResults
PROPERTY Answered
PROPERTY CloseReturns
CHECK_DEADLOCK FALSE

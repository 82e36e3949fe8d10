CONSTANTS
  Msg = {1, 2}
  Consumer = {c1, c2}
  NoOne = NoOne
  BatchSize = 2
  MaxRetries = 1
  WithDLQ = {c1}
  MaxFailures = 1
  MaxRevocations = 1
SPECIFICATION FairSpec
INVARIANT RetriesBeforeDLQ
PROPERTY Drained
PROPERTY ImplementsGroupOffset
CHECK_DEADLOCK FALSE

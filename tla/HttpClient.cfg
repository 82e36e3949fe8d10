CONSTANTS
  Client = {c1, c2}
  Shared = shared
  RetryArgs <- MCRetryArgs
  MaxSetters = 2
  MaxCalls = 2
SYMMETRY Symmetry
SPECIFICATION Spec
INVARIANT OwnRequest
INVARIANT SameEachAttempt
INVARIANT TrueResult
INVARIANT NoBodyLeft
CHECK_DEADLOCK FALSE

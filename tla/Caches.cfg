CONSTANTS
  Client = {c1, c2}
  Data = {d1, d2}
  Counter = {n1}
  Token = {t1}
  Absent = Absent
  Deltas <- MCDeltas
  MaxVersion = 2
  MaxCalls = 6
  MaxErrors = 1
SYMMETRY Symmetry
SPECIFICATION CacheSpec
INVARIANT OwnValues
INVARIANT FilledOrRemoved
INVARIANT NothingOlderThanDelete
INVARIANT ForeverOnlyAsAsked
INVARIANT ExclusiveAnswers
CHECK_DEADLOCK FALSE

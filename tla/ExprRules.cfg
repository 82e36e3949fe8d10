CONSTANTS
  Err = Err
  MaxInt = 12
  MaxWidth = 3
  Hash <- MCHash
  Lower <- MCLower
  Upper <- MCUpper
  Configs <- MCConfigs
  Rows <- MCRows
  Table = "order"
  Nothing = Nothing
SPECIFICATION Spec
INVARIANT SortedOrRefused
INVARIANT ResolvesAsWritten
INVARIANT EnumeratedOrRefused
CHECK_DEADLOCK FALSE

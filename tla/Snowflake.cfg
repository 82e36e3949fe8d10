CONSTANTS
  Goroutine = {g1, g2}
  SeqLimit = 3
  MaxTime = 3
  MaxIssued = 4
SPECIFICATION Spec
INVARIANT TypeOK
INVARIANT Increasing
INVARIANT OneOpener

\* Whether the error record outlives every copy of its exception.
SPECIFICATION Spec
CONSTANTS
  Plain = {c1}
  MaxDepth = 4
  MaxCalls = 1
  MaxErrors = 2
  CatchByValue = TRUE
INVARIANT ErrorDataForLifetime

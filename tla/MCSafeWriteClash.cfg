\* two compilations that may read the same clock value
SPECIFICATION Spec
CONSTANTS
  Writer <- MCWriter
  Output <- MCOutput
  OutputOf <- MCOutputOf
  Present <- MCOutput
  Size = 3
  Clock = {1, 2, 3}
  DistinctClock = FALSE
INVARIANTS
  OutputsAreWhole

\* two compilations with distinct clock readings write one output
SPECIFICATION Spec
CONSTANTS
  Writer <- MCWriter
  Output <- MCOutput
  OutputOf <- MCOutputOf
  Present <- MCOutput
  Size = 3
  Clock = {1, 2, 3}
  DistinctClock = TRUE
INVARIANTS
  OutputsAreWhole
  OutputsAreDurable
  TempsAreGone
PROPERTIES
  EveryWriteEnds
  IsAtomic

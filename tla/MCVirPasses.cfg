\* the VIR passes on every small control-flow graph
SPECIFICATION PassSpec
CONSTANTS
  Sources <- MCSources
INVARIANTS
  WorklistCovers
  ReachableIsLeast
  BehaviourKept
  NothingLeftToFold
  NeverSpoiled
PROPERTIES
  PassesTerminate

SPECIFICATION LlvmSpec
CONSTANTS
  IntHalf = 100
  Lowered <- MCLowered
  Sources <- MCSources
  TypeNames <- MCTypeNames
  Fuel = 6
INVARIANTS
  ReadsWhatIsWritten
  CallTypesAreFinal
  LoweringNeverFails
  VirIsWellTyped
  SameMeaning
  
CHECK_DEADLOCK FALSE

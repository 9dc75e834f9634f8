SPECIFICATION Spec
CONSTANTS
  IntHalf = 100
  Lowered <- MCLowered
  Poison <- MCPoison
  StackTop = 40000
  HeapBase = 20000
  MaxString = 64
  SectionAlignment = 256
  FileAlignment = 32
  Modules <- MCModules
  Fuel = 7
  Burst = 6
INVARIANTS
  RunsAsTheVirSays
  RelocationsReach
  ImageIsWellFormed
  ImportsAreBound

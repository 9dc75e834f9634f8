\* a frame for every optimized function
SPECIFICATION Spec
CONSTANTS
  Name <- MCName
  Param = "p"
  Bodies <- MCBodies
  Lines = 2
  Fuel = 40
INVARIANTS
  FrameAlwaysBuilds

\* an initializer that names the variable it declares
SPECIFICATION Spec
CONSTANTS
  Name <- MCName
  Param = "p"
  Bodies <- MCBodies
  Lines = 2
  Fuel = 40
INVARIANTS
  ShadowingRespected

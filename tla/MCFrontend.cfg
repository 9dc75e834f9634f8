\* every small function body through the front end
SPECIFICATION Spec
CONSTANTS
  Name <- MCName
  Param = "p"
  Bodies <- MCBodies
  Lines = 2
  Fuel = 40
INVARIANTS
  LoweringNeverFails
  VerifierNeverComplains
  ValuesAreLocalAndDense
  NamesAgree
  SameBehaviour
  NoUnreachableKept
PROPERTIES
  FrontendEnds

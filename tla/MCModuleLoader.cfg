\* voltisc loads every import graph of three files
SPECIFICATION Spec
CONSTANTS
  File <- MCFile
  Path <- MCPath
  Lib <- MCLib
  Beside <- MCBeside
  Under <- MCUnder
  Absolute = {}
  LibInRoot = {"r"}
  Fold <- MCFold
  Inputs <- MCInputs
INVARIANTS
  TypeOK
  FramesAgree
  LoadedOnce
  DependencyOrder
  CycleIsReal
  SuccessIsComplete
  
  

  

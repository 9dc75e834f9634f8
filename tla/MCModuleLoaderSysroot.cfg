\* externs of a library found below the sysroot
SPECIFICATION Spec
CONSTANTS
  File <- MCFile
  Path <- MCPath
  Lib <- MCLib
  Beside <- MCBeside
  Under <- MCUnder
  Absolute = {}
  LibInRoot = {"r"}
  Fold <- MCFold
  Inputs <- MCInputs
INVARIANTS
  ExternsStayBound

CONSTANTS
  Sessions <- AllSessions
  Host <- LinuxHost
  Inputs <- SourceFiles
  Directories <- Sysroots
  OldHistories <- Earlier
  Moments = {1, 2}
  MaxFaults = 2
SPECIFICATION Spec
INVARIANTS
  RecordsSurvive
  ExecutablesAreAccounted
  ReportsAreTrue

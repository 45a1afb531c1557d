CONSTANTS
  Fp = 3
  File <- LengthsFile
  Appended <- NoFiles
  Names = {}
  MaxNodes = 1
  MaxPage = 30
  MaxId = 9
  SubTraj = {TRUE, FALSE}
  KeptIds = 10
  MaxFailures = 0
  BulkFails = FALSE
  ForceNew = FALSE
  Stretch = 5
  Soft = 2
  Coarse = 1
  Times <- SomeTimes
  Cuts <- AllCuts
SPECIFICATION StreamSpec
INVARIANTS
  LoadedReadsBack
  PiecesLoad
  PiecesNearLength
CHECK_DEADLOCK FALSE

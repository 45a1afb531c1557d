CONSTANTS
  Fp = 3
  File <- SmallFile
  Appended <- SmallAppended
  Names = {i1}
  MaxNodes = 2
  MaxPage = 8
  MaxId = 3
  SubTraj = {TRUE}
  KeptIds = 10
  MaxFailures = 1
  BulkFails = TRUE
  ForceNew = TRUE
CONSTRAINT FewFailures
SPECIFICATION Spec
INVARIANTS
  TypeOK
  NoEmptyPageLeft
  LoadedReadsBack
  CommittedReadsBack
  SavedNamesResolve
CHECK_DEADLOCK FALSE

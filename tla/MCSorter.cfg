CONSTANTS
  Key <- Keys
  PageSize = 2
  BufferPages = 2
  Inputs <- SomeInputs
SPECIFICATION Spec
INVARIANTS
  TypeOK
  NothingLost
  EndMeansAll
  OneBufferSorted
PROPERTY SortEnds
CHECK_DEADLOCK FALSE

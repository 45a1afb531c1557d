CONSTANTS
  Key <- Keys
  PageSize = 2
  BufferPages = 2
  Inputs <- SomeInputs
SPECIFICATION Spec
INVARIANT Sorted
CHECK_DEADLOCK FALSE

CONSTANTS
  Value = {v1}
  MaxLen = 1
  MaxPage = 3
  Clone = {}
SPECIFICATION Spec
INVARIANT HeaderSafe
PROPERTY ImplementsPageMap
CONSTRAINTS
  NotTorn
  OneFailure
CHECK_DEADLOCK FALSE

CONSTANTS
  Value = {v1}
  MaxLen = 2
  MaxPage = 2
  Clone = {}
SPECIFICATION Spec
INVARIANT ReadsBack
CONSTRAINT NotTorn
CHECK_DEADLOCK FALSE

CONSTANTS
  Value = {v1, v2}
  MaxLen = 2
  MaxPage = 2
  Clone = {c1}
SPECIFICATION Spec
INVARIANTS
  TypeOK
  AllocSafe
  HeadIntact
PROPERTY ImplementsPageMap
CONSTRAINT NotTorn
SYMMETRY Symmetry
CHECK_DEADLOCK FALSE

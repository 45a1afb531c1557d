CONSTANTS
  Worlds <- SmallWorlds
  LeafCapacity = 3
  IndexCapacity = 2
  Bt = 1
  FirstPage = 4
SPECIFICATION Spec
INVARIANTS
  TypeOK
  WholeTree
  LinksLead
  FullNodes
PROPERTY LoadEnds
CHECK_DEADLOCK FALSE

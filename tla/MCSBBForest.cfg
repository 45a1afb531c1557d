CONSTANTS
  Traj = {1, 2, 3}
  Leaf = {1, 2, 3}
  Inner <- InnerNodes
  Root = 10
  Children <- TreeChildren
  Under <- TreeUnder
  Slots = 3
  Huge = 1000
  MaxBoxes = 10
  Forests <- TwoForests
  Lengths = {2, 4, 5}
  Ks = {1, 2, 4}
  Shapes <- SomeShapes
  RangeShapes <- SomeRangeShapes
SPECIFICATION Spec
INVARIANTS
  TypeOK
  QueuesAgree
  RangeAnswers
  OnlyKnownFailures
PROPERTIES
  ImplementsKNearest
  Ends
CHECK_DEADLOCK FALSE

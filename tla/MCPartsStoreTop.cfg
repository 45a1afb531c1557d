CONSTANTS
  Traj = {1, 2, 3}
  Leaf = {1, 2, 3}
  Inner <- InnerNodes
  Root = 10
  Children <- TreeChildren
  Under <- TreeUnder
  Slots = 3
  Shapes <- AllShapes
  Ks = {1, 2}
  Delta = 1
  SsDelta = 2
  Huge = 1000
SPECIFICATION Spec
INVARIANT TopIsOfNonEmptyQueue
CHECK_DEADLOCK FALSE

---------------------------- MODULE MCPartsStore ----------------------------
(* Instances of PartsStore for TLC: a root, two inner nodes, three leaves. *)
EXTENDS PartsStore

InnerNodes == {10, 11, 12}
TreeChildren == 10 :> {11, 12} @@ 11 :> {1, 2} @@ 12 :> {3}
TreeUnder == 10 :> {1, 2, 3} @@ 11 :> {1, 2} @@ 12 :> {3} @@ [l \in {1, 2, 3} |-> {l}]

B(leaf, width, rate, slack) == [leaf |-> leaf, width |-> width, rate |-> rate, slack |-> slack]
Shape(boxes, distance, excess, reach) ==
  [box |-> boxes, distance |-> distance, excess |-> excess, reach |-> reach]

(* One box; two boxes, a far and a near one in either order, or both in    *)
(* one leaf; three boxes over all leaves.                                  *)
OneBox == {Shape(<<B(1, 3, 1, 2)>>, 3, 0, 0), Shape(<<B(3, 3, 2, 0)>>, 6, 1, 0)}
TwoBoxes ==
  {Shape(<<B(3, 1, 0, 1), B(2, 2, 4, 1)>>, 9, 0, 9),
   Shape(<<B(1, 1, 0, 1), B(3, 2, 4, 1)>>, 9, 0, 9),
   Shape(<<B(1, 1, 6, 1), B(3, 2, 0, 1)>>, 7, 0, 9),
   Shape(<<B(1, 1, 6, 1), B(2, 2, 1, 1)>>, 9, 1, 9),
   Shape(<<B(1, 1, 1, 0), B(1, 2, 2, 0)>>, 5, 0, 1)}
ThreeBoxes ==
  {Shape(<<B(1, 1, 0, 0), B(2, 1, 3, 0), B(3, 1, 0, 0)>>, 3, 0, 1),
   Shape(<<B(1, 1, 1, 0), B(2, 1, 0, 0), B(3, 1, 9, 0)>>, 10, 1, 9)}
AllShapes == OneBox \cup TwoBoxes \cup ThreeBoxes
=============================================================================

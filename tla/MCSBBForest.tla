---------------------------- MODULE MCSBBForest ----------------------------
(* Instances of SBBForest for TLC: trees of a root, two inner nodes, three *)
(* leaves.                                                                 *)
EXTENDS SBBForest

InnerNodes == {10, 11, 12}
TreeChildren == 10 :> {11, 12} @@ 11 :> {1, 2} @@ 12 :> {3}
TreeUnder == 10 :> {1, 2, 3} @@ 11 :> {1, 2} @@ 12 :> {3} @@ [l \in {1, 2, 3} |-> {l}]

Tree(sbbd, links) == [sbbd |-> sbbd, links |-> links]

(* Two ranges that touch, and two of which one holds the other; no tree    *)
(* takes a query of length 5.                                              *)
TwoForests ==
  {<<1, 2>> :> Tree(TRUE, TRUE) @@ <<2, 4>> :> Tree(FALSE, TRUE),
   <<1, 3>> :> Tree(TRUE, FALSE) @@ <<1, 4>> :> Tree(TRUE, TRUE)}

B(leaf, width, rate, slack) == [leaf |-> leaf, width |-> width, rate |-> rate, slack |-> slack]
Pad(width, dist) == [width |-> width, dist |-> dist]
Shape(front, boxes, back, extra, reach, outside) ==
  [box |-> boxes, front |-> front, back |-> back, extra |-> extra, reach |-> reach,
   outside |-> outside]
Whole(boxes, extra, reach, outside) == Shape(Pad(0, 0), boxes, Pad(0, 0), extra, reach, outside)

SomeShapes ==
  {Whole(<<B(1, 3, 1, 2)>>, 1, 0, {2}),
   Shape(Pad(1, 4), <<B(2, 2, 1, 0)>>, Pad(0, 0), 0, 0, {3}),
   Shape(Pad(1, 2), <<B(1, 1, 1, 0), B(3, 1, 0, 1)>>, Pad(0, 0), 1, 0, {}),
   Whole(<<B(3, 1, 0, 1), B(2, 2, 3, 1)>>, 0, 0, {1, 2}),
   Whole(<<B(1, 1, 0, 0), B(2, 1, 3, 0), B(3, 1, 0, 0)>>, 0, 1, {}),
   Whole(<<B(1, 1, 1, 0), B(3, 1, 4, 1), B(2, 1, 0, 0)>>, 1, 4, {})}

R(leaf, s, e, rel) == [leaf |-> leaf, s |-> s, e |-> e, rel |-> rel]
SomeRangeShapes ==
  {[box |-> <<R(1, 1, 3, 1)>>, hits |-> {2}],
   [box |-> <<R(3, 1, 3, 2)>>, hits |-> {1, 2}],
   [box |-> <<R(3, 1, 2, 0), R(1, 2, 3, 0)>>, hits |-> {}],
   [box |-> <<R(1, 1, 2, 1), R(3, 2, 3, 2)>>, hits |-> {1, 2}],
   [box |-> <<R(2, 1, 2, 2), R(3, 2, 3, 1)>>, hits |-> {1}],
   [box |-> <<R(1, 1, 2, 1), R(3, 2, 4, 1)>>, hits |-> {3}],
   [box |-> <<R(3, 1, 3, 1), R(1, 3, 4, 1), R(2, 4, 5, 0)>>, hits |-> {2}],
   [box |-> <<R(1, 1, 2, 1), R(2, 2, 3, 1), R(3, 3, 4, 1)>>, hits |-> {1}],
   [box |-> <<R(1, 1, 2, 1), R(2, 2, 3, 0), R(3, 3, 4, 1)>>, hits |-> {}],
   [box |-> <<R(1, 1, 3, 0), R(3, 2, 4, 1)>>, hits |-> {2}]}
=============================================================================

----------------------------- MODULE SBBForest -----------------------------
(***************************************************************************)
(* A forest of trees over the same trajectories, cut into boxes of         *)
(* different lengths, one tree for each range of query lengths (class      *)
(* SBBForest). A query is handed to the first tree, in the order of the    *)
(* ranges, that takes its length; no tree gives NULL, which is             *)
(* dereferenced. The tree answers it: a range query as in RangeQuery, a    *)
(* nearest-neighbour query as in PartsStoreBFMST, unless it has leaf links *)
(* and searches by SBBs, which is PartsStore. One query is followed to its *)
(* end.                                                                    *)
(***************************************************************************)
EXTENDS Integers, Sequences, SequencesExt, FiniteSetsExt

CONSTANTS
  Traj, Leaf, Inner, Root, Children, Under, Slots, Huge, MaxBoxes,  \* as in the modules below
  Forests,      \* m_trees: from ranges <<l, h>> to the flags of a tree
  Lengths,      \* the lengths of queries asked
  Ks,           \* the numbers of neighbours asked for
  Shapes,       \* trajectories as a nearest-neighbour query sees them
  RangeShapes   \* trajectories as a range query sees them

(* A tree: a node has under it what its children have, and shares none of  *)
(* it with another child of its parent.                                    *)
ASSUME NodeAssumption ==
  /\ Traj \subseteq Int
  /\ Inner \cup Leaf \subseteq Int
  /\ Inner \cap Leaf = {}
  /\ Root \in Inner \cup Leaf
  /\ Under[Root] = Leaf
  /\ \A n \in Leaf : Under[n] = {n}
  /\ \A n \in Inner :
       /\ IsFiniteSet(Children[n])
       /\ Children[n] \subseteq Inner \cup Leaf
       /\ Under[n] = UNION {Under[c] : c \in Children[n]}
       /\ \A c, d \in Children[n] : c # d => Under[c] \cap Under[d] = {}

ASSUME NumberAssumption ==
  /\ Slots \in Nat \ {0}
  /\ Huge \in Nat
  /\ MaxBoxes \in Nat
  /\ Ks \subseteq Nat \ {0}

(* A box within the circle is entered, and a step in the circle lies in    *)
(* the interval of a box that meets it. Consecutive boxes share a point,   *)
(* or the step between two points where Splitting cut it.                  *)
ASSUME RangeAssumption ==
  \A s \in RangeShapes :
    /\ \A i \in DOMAIN s.box :
         /\ s.box[i].leaf \in Leaf
         /\ s.box[i].rel \in 0 .. 2
         /\ s.box[i].s \in Nat /\ s.box[i].e \in Nat /\ s.box[i].s < s.box[i].e
         /\ i > 1 => /\ s.box[i - 1].s <= s.box[i].s /\ s.box[i].s <= s.box[i - 1].e
                     /\ s.box[i - 1].e <= s.box[i].e
         /\ s.box[i].rel = 2 => s.hits \cap s.box[i].s .. s.box[i].e - 1 # {}
    /\ \A h \in s.hits :
         \E i \in DOMAIN s.box : s.box[i].rel > 0 /\ h \in s.box[i].s .. s.box[i].e - 1

VARIABLES
  trees,     \* m_trees (never changes)
  tree,      \* what chooseTree returned
  world, query, pc, reported,
  first, prevtop, nodespq, mpq, handlers, children, parts, lastNodeDist, knearest,
  stack, todo, results, pending, merged

knn == <<first, prevtop, nodespq, mpq, handlers, children, parts, lastNodeDist, knearest>>
range == <<stack, todo, results, pending, merged>>
vars == <<trees, tree, world, query, pc, reported, knn, range>>

NN == INSTANCE PartsStoreBFMST
RQ == INSTANCE RangeQuery WITH sbbd <- tree.sbbd

(* The parts of a trajectory and the times it does not exist in make up    *)
(* the query; no distance reaches 1e300, and no bound overstates what it   *)
(* bounds. (gapDist measures the far end of a gap from its near point and  *)
(* may: such gaps are left out.)                                           *)
Pads == [width : Nat, dist : Nat]
Total(f) == SumFunctionOnSet(f, DOMAIN f)

ASSUME ShapeAssumption ==
  \A s \in Shapes :
    /\ s.box \in Seq([leaf : Leaf, width : Nat \ {0}, rate : Nat, slack : Nat])
    /\ Len(s.box) \in 1 .. MaxBoxes - 1
    /\ s.front \in Pads /\ s.back \in Pads
    /\ s.reach \in Nat /\ s.extra \in Nat
    /\ Total(NN!WidthOf(s)) + s.front.width + s.back.width = Slots
    /\ Total(NN!PartOf(s)) + s.front.dist + s.back.dist + s.extra < Huge
    /\ \A i \in DOMAIN s.box : Slots * s.box[i].rate < Huge
    /\ s.front.dist >= s.box[1].rate * s.front.width
    /\ s.back.dist >= s.box[Len(s.box)].rate * s.back.width
    /\ \A i \in 2 .. Len(s.box) - 1 : s.reach <= NN!PartOf(s)[i]
    /\ s.outside \subseteq Leaf
    /\ s.front.width > 0 /\ s.back.width > 0 => s.outside = {}

NoTree == [sbbd |-> FALSE, links |-> FALSE]

-----------------------------------------------------------------------------
(* A query shorter than a minute may hold no whole minute; the warping     *)
(* distance then has nothing to compare.                                   *)
Queries ==
  [kind : {"knn"}, length : Lengths, k : Ks, measure : {"IED"}, short : {FALSE}]
  \cup [kind : {"knn"}, length : Lengths, k : Ks, measure : {"RMDTW"}, short : BOOLEAN]
  \cup [kind : {"range"}, length : Lengths, k : {1}, measure : {"IED"}, short : {FALSE}]

Init ==
  /\ trees \in Forests
  /\ tree = NoTree
  /\ query \in Queries
  /\ world \in [Traj -> IF query.kind = "knn" THEN Shapes ELSE RangeShapes]
  /\ pc = "choose"
  /\ NN!Idle
  /\ RQ!Idle

Takes(key) == key[1] <= query.length /\ query.length <= key[2]
KeyBefore(a, b) == a[1] < b[1] \/ (a[1] = b[1] /\ a[2] <= b[2])

(* chooseTree, when there is one. *)
ChooseTree ==
  /\ pc = "choose"
  /\ \E key \in DOMAIN trees :
        /\ Takes(key)
        /\ \A other \in DOMAIN trees : Takes(other) => KeyBefore(key, other)
        /\ tree' = trees[key]
  /\ pc' = IF query.kind = "range" THEN "root"
           ELSE IF query.short THEN "short"
           ELSE IF tree'.sbbd /\ tree'.links THEN "partsstore"
           ELSE "loop"
  /\ UNCHANGED <<trees, world, query, reported, knn, range>>

NoTreeTakes ==
  /\ pc = "choose"
  /\ \A key \in DOMAIN trees : ~Takes(key)
  /\ pc' = "crashed"
  /\ UNCHANGED <<trees, tree, world, query, reported, knn, range>>

NearestNeighborQuery ==
  /\ query.kind = "knn"
  /\ UNCHANGED <<trees, tree, range>>
  /\ NN!Next

IntersectsWithQuery ==
  /\ query.kind = "range"
  /\ UNCHANGED <<trees, tree, query, knn>>
  /\ RQ!Next

Next == ChooseTree \/ NoTreeTakes \/ NearestNeighborQuery \/ IntersectsWithQuery

(* One thread runs the query, and nothing in it waits. *)
Spec == Init /\ [][Next]_vars /\ WF_vars(Next)

-----------------------------------------------------------------------------
Ended == {"done", "crashed", "short", "partsstore", "broken", "thrown"}

TypeOK ==
  /\ pc \in {"choose", "loop", "top", "visit", "push", "root", "descend", "leaf", "pending"} \cup Ended
  /\ reported \in Seq(Traj)
  /\ DOMAIN handlers \subseteq Traj
  /\ \A t \in Traj : parts[t] \subseteq DOMAIN world[t].box
  /\ \A e \in NN!Q!Entries(nodespq) : e.type \in 0 .. 1
  /\ \A e \in NN!Q!Entries(mpq) : e.type \in 2 .. 3 /\ e.id \in Traj
  /\ \A n \in ToSet(stack) : n \in Leaf \cup Inner
  /\ query.kind = "range" => results = ToSet(reported)
  /\ \A t \in Traj : \A i \in DOMAIN pending[t] : pending[t][i].id = t

(* Both queues are heaps whose handles know their places, a candidate in   *)
(* the queue is where its handle leads and nowhere else, although handles  *)
(* of popped entries are kept and taken again by others, and what pop()    *)
(* takes, by a decision of its own, is what top() returned: case 0, 1 and  *)
(* 3 delete that entry.                                                    *)
QueuesAgree ==
  /\ NN!Q!WellFormed(nodespq)
  /\ NN!Q!WellFormed(mpq)
  /\ \A h \in ToSet(mpq.heap) : handlers[mpq.elements[h].id] = h
  /\ pc = "visit" => NN!Popped.entry = first

(* A range query reports a trajectory once, if and only if a step of it    *)
(* enters the circle, whether a box shows it, a part, or parts merged.     *)
RangeAnswers ==
  query.kind = "range" =>
    /\ \A i, j \in DOMAIN reported : reported[i] = reported[j] => i = j
    /\ ToSet(reported) \subseteq RQ!Answers
    /\ pc = "done" => ToSet(reported) = RQ!Answers

(* A query fails only where no tree takes its length, or where the boxes   *)
(* beyond the query's time are all that is left, every trajectory in it    *)
(* having been reported; the switch never meets an incomplete candidate.   *)
OnlyKnownFailures ==
  /\ pc = "crashed" => \A key \in DOMAIN trees : ~Takes(key)
  /\ pc = "broken" => ToSet(reported) = Traj
  /\ pc # "thrown"

(* A nearest-neighbour query reports trajectories in the order of their    *)
(* true distance and, if it does not fail, k of them or all, and after     *)
(* them only ties: although candidates are ranked by estimates that are    *)
(* brought up to date only at the top of their queue and may overstate a   *)
(* gap whose boxes wait in the other.                                      *)
KN == INSTANCE KNearest WITH
  Ties <- TRUE,
  distance <- IF query.kind = "knn" THEN NN!Distance ELSE [t \in Traj |-> 0],
  k <- query.k,
  answer <- IF query.kind = "knn" THEN reported ELSE <<>>,
  outcome <- IF query.kind = "range" THEN "running"
             ELSE IF pc = "done" THEN "done"
             ELSE IF pc \in Ended THEN "failed" ELSE "running"
ImplementsKNearest == KN!Spec

(* Every query ends. *)
Ends == <>(pc \in Ended)
=============================================================================

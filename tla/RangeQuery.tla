----------------------------- MODULE RangeQuery -----------------------------
(***************************************************************************)
(* The range query (xRTree::intersectsWithQuery): which trajectories enter *)
(* a circle during a time. Nodes wait on a stack. A box within the circle  *)
(* (relation 2) makes its trajectory an answer; of a box that touches it   *)
(* (relation 1) the part is loaded and tested, at once, or, with           *)
(* m_bUsingSBBD, after the descent and in one piece with the other boxes   *)
(* of its trajectory that touch the circle. A trajectory is reported once. *)
(*                                                                         *)
(* Geometry enters as the relation of every box (checkRel), whether a      *)
(* node's rectangle meets the query, and the steps of a trajectory, from   *)
(* one point to the next, that enter the circle in time.                   *)
(***************************************************************************)
EXTENDS Integers, Sequences, SequencesExt, FiniteSetsExt

CONSTANTS
  Traj,      \* ids of trajectories
  Leaf,      \* pages of the leaves
  Inner,     \* pages of the inner nodes
  Root,      \* m_rootID
  Children,  \* of an inner node
  Under      \* the leaves under a node

VARIABLES
  world,    \* the trajectories (never changes)
  sbbd,     \* m_bUsingSBBD (never changes)
  pc,       \* "descend", "leaf" (in a leaf), "pending", "done"
  stack,    \* st
  todo,     \* the entries of the leaf not looked at yet
  results,
  pending,  \* a multimap: in the order of ids, then of insertion
  merged,   \* previd, lower, higher
  reported  \* what visitData was called with

vars == <<world, sbbd, pc, stack, todo, results, pending, merged, reported>>

Nothing == [id |-> -1, s |-> 0, e |-> 0]

(* The ids with pending pieces, and the one the multimap begins with. *)
Waiting == {t \in Traj : pending[t] # <<>>}
First(t) == t \in Waiting /\ \A u \in Waiting : t <= u

-----------------------------------------------------------------------------
(* The world. *)
EntriesOf(leaf) ==
  UNION {{<<t, i>> : i \in {j \in DOMAIN world[t].box : world[t].box[j].leaf = leaf}} : t \in Traj}
Box(e) == world[e[1]].box[e[2]]
Piece(e) == [id |-> e[1], s |-> Box(e).s, e |-> Box(e).e]

(* A rectangle around a box that meets the query meets it too. *)
Meets(n) ==
  \E t \in Traj : \E i \in DOMAIN world[t].box :
    world[t].box[i].leaf \in Under[n] /\ world[t].box[i].rel > 0

(* loadTraj of the points s .. e, then intersectsxCylinder. *)
Enters(p) == world[p.id].hits \cap p.s .. p.e - 1 # {}

Answers == {t \in Traj : world[t].hits # {}}

Idle ==
  /\ stack = <<>>
  /\ todo = {}
  /\ results = {}
  /\ pending = [t \in Traj |-> <<>>]
  /\ merged = Nothing
  /\ reported = <<>>

(* A bug: an answer is reported and not remembered. *)
ReportsOnly(id) ==
  /\ results' = results
  /\ reported' = Append(reported, id)

Reports(id) ==
  /\ results' = results \cup {id}
  /\ reported' = Append(reported, id)

NoReport == UNCHANGED <<results, reported>>

-----------------------------------------------------------------------------
(* The root is looked at only if it meets the query. *)
Begin ==
  /\ pc = "root"
  /\ stack' = IF Meets(Root) THEN <<Root>> ELSE <<>>
  /\ pc' = "descend"
  /\ UNCHANGED <<world, sbbd, todo, results, pending, merged, reported>>

(* The children that meet the query, in the order the node holds them. *)
Orders(S) == {o \in [1 .. Cardinality(S) -> S] : ToSet(o) = S}

OpenInner ==
  /\ pc = "descend"
  /\ stack # <<>>
  /\ Last(stack) \in Inner
  /\ \E order \in Orders({n \in Children[Last(stack)] : Meets(n)}) :
        stack' = Front(stack) \o order
  /\ UNCHANGED <<world, sbbd, pc, todo, results, pending, merged, reported>>

OpenLeaf ==
  /\ pc = "descend"
  /\ stack # <<>>
  /\ Last(stack) \in Leaf
  /\ stack' = Front(stack)
  /\ todo' = EntriesOf(Last(stack))
  /\ pc' = "leaf"
  /\ UNCHANGED <<world, sbbd, results, pending, merged, reported>>

LeafDone ==
  /\ pc = "leaf"
  /\ todo = {}
  /\ pc' = "descend"
  /\ UNCHANGED <<world, sbbd, stack, todo, results, pending, merged, reported>>

(* The entries of a leaf, in the order it holds them. *)
Look(e) ==
  /\ pc = "leaf"
  /\ todo' = todo \ {e}
  /\ UNCHANGED <<world, sbbd, pc, stack, merged>>

(* An entry beside the circle, or of a trajectory that is an answer. *)
Skip(e) ==
  /\ Look(e)
  /\ Box(e).rel = 0 \/ e[1] \in results
  /\ NoReport
  /\ UNCHANGED pending

Contained(e) ==
  /\ Look(e)
  /\ Box(e).rel = 2
  /\ e[1] \notin results
  /\ Reports(e[1])
  /\ pending' = [pending EXCEPT ![e[1]] = <<>>]

Touches(e) ==
  /\ Look(e)
  /\ Box(e).rel = 1
  /\ e[1] \notin results

Postpone(e) ==
  /\ Touches(e)
  /\ sbbd
  /\ pending' = [pending EXCEPT ![e[1]] = Append(@, Piece(e))]
  /\ NoReport

TestPart(e) ==
  /\ Touches(e)
  /\ ~sbbd
  /\ IF Enters(Piece(e)) THEN Reports(e[1]) ELSE NoReport
  /\ UNCHANGED pending

(* The descent ends; the pending pieces, if any, are gone through. *)
Descended ==
  /\ pc = "descend"
  /\ stack = <<>>
  /\ IF Waiting = {}
     THEN pc' = "done" /\ UNCHANGED merged
     ELSE pc' = "pending" /\ \E t \in Waiting : First(t) /\ merged' = Head(pending[t])
  /\ NoReport
  /\ UNCHANGED <<world, sbbd, stack, todo, pending>>

-----------------------------------------------------------------------------
(* The loop over the pending pieces: pieces of one trajectory are merged   *)
(* into the interval from the first to the last of their points; the       *)
(* interval is tested when the next piece is of another trajectory or      *)
(* there is none, and a last piece of a trajectory of its own is tested in *)
(* the same round.                                                         *)
Merge(a, b) ==
  [id |-> b.id,
   s |-> IF a.s <= b.s THEN a.s ELSE b.s,
   e |-> IF a.e >= b.e THEN a.e ELSE b.e]

(* The first piece is taken out; More if it was not the last. *)
Round(t) ==
  /\ pc = "pending"
  /\ First(t)
  /\ pending' = [pending EXCEPT ![t] = Tail(@)]
  /\ UNCHANGED <<world, sbbd, pc, stack, todo>>
More == Waiting' # {}

Test(p) == IF Enters(p) THEN <<p.id>> ELSE <<>>
Found(ids) == results' = results \cup ToSet(ids) /\ reported' = reported \o ids

MergePiece(t) ==
  /\ Round(t)
  /\ t = merged.id
  /\ More
  /\ merged' = Merge(merged, Head(pending[t]))
  /\ NoReport

(* A bug: the last piece of a trajectory is left out. *)
TestLastPieceShort(t) ==
  /\ Round(t)
  /\ t = merged.id
  /\ ~More
  /\ Found(Test(merged))
  /\ merged' = Head(pending[t])

TestLastPiece(t) ==
  /\ Round(t)
  /\ t = merged.id
  /\ ~More
  /\ Found(Test(Merge(merged, Head(pending[t]))))
  /\ merged' = Head(pending[t])

TestMerged(t) ==
  /\ Round(t)
  /\ t # merged.id
  /\ Found(Test(merged) \o (IF More THEN <<>> ELSE Test(Head(pending[t]))))
  /\ merged' = Head(pending[t])

PendingDone ==
  /\ pc = "pending"
  /\ Waiting = {}
  /\ pc' = "done"
  /\ NoReport
  /\ UNCHANGED <<world, sbbd, stack, todo, pending, merged>>

Next ==
  \/ Begin \/ OpenInner \/ OpenLeaf \/ LeafDone \/ Descended \/ PendingDone
  \/ \E e \in todo : Skip(e) \/ Contained(e) \/ Postpone(e) \/ TestPart(e)
  \/ \E t \in Traj : MergePiece(t) \/ TestLastPiece(t) \/ TestMerged(t)
=============================================================================

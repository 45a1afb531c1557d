-------------------------- MODULE PartsStoreBFMST --------------------------
(***************************************************************************)
(* The nearest-neighbour query over a tree without leaf links or without   *)
(* SBB-driven search (the BFMST branch of xRTree::nearestNeighborQuery,    *)
(* with PartsStoreBFMST of src/xrtree/PartStoreBFMST.cc). Nodes and single *)
(* boxes wait in one queue, trajectories some boxes of which have been     *)
(* read, the candidates, in another. A candidate is of type 2 until what   *)
(* was loaded of it is as long as the query, and of type 3, with its exact *)
(* distance, from then on. m_handlers remembers where a candidate stands   *)
(* in its queue, also after it has been popped.                            *)
(*                                                                         *)
(* Geometry enters as numbers. The boxes of a trajectory that overlap the  *)
(* query partition the time it exists in: box i lasts `width` slots, its   *)
(* distance is `rate` per slot as the search sees it and `slack` more once *)
(* it is read. `front` and `back` are the times before and after the       *)
(* trajectory exists, with what frontDistStatic and backDistStatic give,   *)
(* `outside` the leaves that hold boxes of it beyond the query's time,     *)
(* `extra` what the warping distance adds to the sum of its parts.         *)
(***************************************************************************)
EXTENDS Integers, Sequences, SequencesExt, FiniteSetsExt

CONSTANTS
  Traj,      \* ids of trajectories, integers: ties are broken by id
  Leaf,      \* pages of the leaves
  Inner,     \* pages of the inner nodes
  Root,      \* m_rootID, an inner node
  Children,  \* of an inner node
  Under,     \* the leaves under a node
  Slots,     \* the length of the query
  Huge,      \* 1e300
  MaxBoxes   \* every trajectory has fewer boxes

VARIABLES
  world,     \* the trajectories (never changes)
  query,     \* k and the distance, current_distance (never changes)
  pc,        \* "loop" (the while), "top" (the loop of top()), "visit" (the
             \* switch), "push" (the children of a node), or how it ended
  first,     \* pFirst
  prevtop,   \* of top()
  nodespq,   \* m_nodespq
  mpq,       \* m_mpq
  handlers,  \* m_handlers
  children,  \* of the node in case 0, not pushed yet
  parts,     \* m_parts: the boxes read of each trajectory
  lastNodeDist,
  knearest,
  reported   \* what visitData was called with

NoId == -1
NoBox == <<NoId, 0>>
NoEntry == [type |-> 9, id |-> NoId, opt |-> 0, box |-> NoBox]

(* EntryMPQ's order: by lower bound, then the higher type, then the id. *)
Less(a, b) ==
  \/ a.opt < b.opt
  \/ a.opt = b.opt /\ a.type > b.type
  \/ a.opt = b.opt /\ a.type = b.type /\ a.id < b.id

Q == INSTANCE MutablePriorityQueue WITH Less <- Less

-----------------------------------------------------------------------------
(* The world. *)
Boxes(t) == DOMAIN world[t].box
Final(t) == Len(world[t].box)
Lo(t, i) == world[t].box[i].rate * world[t].box[i].width
PartOf(s) == [i \in DOMAIN s.box |-> s.box[i].rate * s.box[i].width + s.box[i].slack]
WidthOf(s) == [i \in DOMAIN s.box |-> s.box[i].width]
SumParts(t, S) == SumFunctionOnSet(PartOf(world[t]), S)
Width(t, S) == SumFunctionOnSet(WidthOf(world[t]), S)

TrueDistance(t) ==
  SumParts(t, Boxes(t)) + world[t].front.dist + world[t].back.dist
  + (IF query.measure = "RMDTW" THEN world[t].extra ELSE 0)
Distance == [t \in Traj |-> TrueDistance(t)]

(* nodeDist: as if all of the query were next to the node's rectangle. *)
RatesIn(leaves) ==
  UNION {{world[t].box[i].rate : i \in {j \in Boxes(t) : world[t].box[j].leaf \in leaves}} : t \in Traj}
NodeDist(n) == IF RatesIn(Under[n]) = {} THEN Huge ELSE Slots * Min(RatesIn(Under[n]))

NodeEntry(n) == [type |-> 0, id |-> n, opt |-> NodeDist(n), box |-> NoBox]

(* The boxes of a leaf, which were numbered as they were cut: sbbDist of   *)
(* those that overlap the query, 1e300 for the others, which are box 0 of  *)
(* their trajectory here.                                                  *)
BoxEntry(t, i, opt) == [type |-> 1, id |-> MaxBoxes * t + i, opt |-> opt, box |-> <<t, i>>]

(* A bug: a box that does not overlap the query adds nothing to it. *)
BoxEntriesNear(leaf) ==
  (UNION {{BoxEntry(t, i, Lo(t, i)) : i \in {j \in Boxes(t) : world[t].box[j].leaf = leaf}}
          : t \in Traj})
  \cup {BoxEntry(t, 0, 0) : t \in {u \in Traj : leaf \in world[u].outside}}

BoxEntries(leaf) ==
  (UNION {{BoxEntry(t, i, Lo(t, i)) : i \in {j \in Boxes(t) : world[t].box[j].leaf = leaf}}
          : t \in Traj})
  \cup {BoxEntry(t, 0, Huge) : t \in {u \in Traj : leaf \in world[u].outside}}

-----------------------------------------------------------------------------
(* update: what is known of a trajectory of which the boxes in `read` have *)
(* been loaded. Its distance is exact once the time loaded is that of the  *)
(* query; before that, the parts read, the times it does not exist in once *)
(* that is known, and, for the Euclidean distance, the gaps between parts  *)
(* read. A gap costs what the speed limit leaves (gapDist), or the share   *)
(* of the last inner node visited while nodes or boxes are left.           *)
Ended(t, read) == IF Final(t) \in read THEN world[t].back ELSE [width |-> 0, dist |-> 0]
Begun(t, read) == IF 1 \in read THEN world[t].front ELSE [width |-> 0, dist |-> 0]
Loaded(t, read) == Width(t, read) + Begun(t, read).width + Ended(t, read).width

Gaps(t, read) ==
  {g[1] .. g[2] : g \in {r \in Boxes(t) \X Boxes(t) :
      /\ r[1] <= r[2]
      /\ r[1] - 1 \in read
      /\ r[2] + 1 \in read
      /\ r[1] .. r[2] \cap read = {}}}

GapBound(t, gap, nodes, last) ==
  IF Q!IsEmpty(nodes) THEN world[t].reach
  ELSE Max({world[t].reach, (last * Width(t, gap)) \div Slots})

(* A bug: a candidate counts as loaded when its last box is. *)
EstimateEarly(t, read, nodes, last) ==
  LET type == IF Loaded(t, read) = Slots \/ Final(t) \in read THEN 3 ELSE 2
  IN [type |-> type, id |-> t, box |-> NoBox,
      opt |-> IF type = 3 /\ query.measure = "RMDTW" THEN TrueDistance(t)
              ELSE SumParts(t, read) + Begun(t, read).dist + Ended(t, read).dist]

Estimate(t, read, nodes, last) ==
  LET type == IF Loaded(t, read) = Slots THEN 3 ELSE 2
      gaps == [g \in Gaps(t, read) |-> GapBound(t, g, nodes, last)]
  IN [type |-> type, id |-> t, box |-> NoBox,
      opt |-> IF type = 3 /\ query.measure = "RMDTW" THEN TrueDistance(t)
              ELSE SumParts(t, read) + Begun(t, read).dist + Ended(t, read).dist
                   + (IF query.measure = "RMDTW" THEN 0
                      ELSE SumFunctionOnSet(gaps, DOMAIN gaps))]

(* The end of update: the first estimate of a trajectory is pushed, later  *)
(* ones overwrite what its handle stands for.                              *)
Enqueue(cands, e) ==
  IF e.id \in DOMAIN handlers
  THEN mpq' = Q!Update(cands, handlers[e.id], e) /\ UNCHANGED handlers
  ELSE /\ mpq' = Q!Push(cands, e)
       /\ handlers' = [t \in DOMAIN handlers \cup {e.id} |->
                        IF t = e.id THEN Q!FreeHandle(cands) ELSE handlers[t]]

-----------------------------------------------------------------------------
(* top(): a node or box nearer than every candidate comes first. *)
NodeIsNext ==
  ~Q!IsEmpty(mpq) =>
    ~Q!IsEmpty(nodespq) /\ Q!Top(nodespq).opt < Q!Top(mpq).opt

(* A candidate can be reported when it is complete and nearer than all     *)
(* nodes and boxes left.                                                   *)
Ready ==
  /\ ~Q!IsEmpty(mpq)
  /\ Q!Top(mpq).type = 3
  /\ Q!IsEmpty(nodespq) \/ Q!Top(mpq).opt < Q!Top(nodespq).opt

(* pop() decides anew what to take. *)
Popped ==
  IF Ready \/ Q!IsEmpty(nodespq)
  THEN [entry |-> Q!Top(mpq), nodes |-> nodespq, cands |-> Q!Pop(mpq), last |-> lastNodeDist]
  ELSE [entry |-> Q!Top(nodespq), nodes |-> Q!Pop(nodespq), cands |-> mpq,
        last |-> IF Q!Top(nodespq).type = 0 THEN Q!Top(nodespq).opt ELSE lastNodeDist]

Take(p) == nodespq' = p.nodes /\ lastNodeDist' = p.last

-----------------------------------------------------------------------------
rigid == <<world, query>>
queues == <<nodespq, mpq, handlers, children, parts, lastNodeDist>>
found == <<knearest, reported>>
vars == <<rigid, pc, first, prevtop, queues, found>>

(* Before the query is asked, and as it begins. *)
Idle ==
  /\ first = NoEntry
  /\ prevtop = NoId
  /\ nodespq = Q!Push(Q!EmptyQueue, [NoEntry EXCEPT !.type = 0, !.id = Root])
  /\ mpq = Q!EmptyQueue
  /\ handlers = <<>>
  /\ children = {}
  /\ parts = [t \in Traj |-> {}]
  /\ lastNodeDist = 0
  /\ knearest = 0
  /\ reported = <<>>

Empty == Q!IsEmpty(nodespq) /\ Q!IsEmpty(mpq)

Exhausted ==
  /\ pc = "loop"
  /\ Empty
  /\ pc' = "done"
  /\ UNCHANGED <<rigid, first, prevtop, queues, found>>

TopNode ==
  /\ pc = "loop"
  /\ ~Empty
  /\ NodeIsNext
  /\ pc' = "visit"
  /\ first' = Q!Top(nodespq)
  /\ UNCHANGED <<rigid, prevtop, queues, found>>

TopCandidate ==
  /\ pc = "loop"
  /\ ~Empty
  /\ ~NodeIsNext
  /\ pc' = "top"
  /\ prevtop' = NoId
  /\ UNCHANGED <<rigid, first, queues, found>>

(* The first candidate is brought up to date until it stays the first. *)
TopUpdates ==
  /\ pc = "top"
  /\ Q!Top(mpq).id # prevtop
  /\ prevtop' = Q!Top(mpq).id
  /\ \E e \in {Estimate(prevtop', parts[prevtop'], nodespq, lastNodeDist)} : Enqueue(mpq, e)
  /\ UNCHANGED <<rigid, pc, first, nodespq, children, parts, lastNodeDist, found>>

(* A bug: what is not ready is left to the next round. *)
TopReturnsReady ==
  /\ pc = "top"
  /\ Q!Top(mpq).id = prevtop
  /\ first' = Q!Top(mpq)
  /\ pc' = IF Ready THEN "visit" ELSE "loop"
  /\ UNCHANGED <<rigid, prevtop, queues, found>>

TopReturns ==
  /\ pc = "top"
  /\ Q!Top(mpq).id = prevtop
  /\ first' = IF Ready \/ Q!IsEmpty(nodespq) THEN Q!Top(mpq) ELSE Q!Top(nodespq)
  /\ pc' = "visit"
  /\ UNCHANGED <<rigid, prevtop, queues, found>>

-----------------------------------------------------------------------------
(* The loop ends at the first entry beyond the k-th answer; ties with it   *)
(* are still reported.                                                     *)
Beyond == Len(reported) >= query.k /\ first.opt > knearest

Stop ==
  /\ pc = "visit"
  /\ Beyond
  /\ pc' = "done"
  /\ UNCHANGED <<rigid, first, prevtop, queues, found>>

Visit(type) == pc = "visit" /\ ~Beyond /\ first.type = type
Done == pc' = "loop" /\ first' = NoEntry

(* case 0: the children of an inner node, or the boxes of a leaf. *)
VisitNode ==
  /\ Visit(0)
  /\ \E p \in {Popped} : Take(p) /\ mpq' = p.cands
  /\ children' = IF first.id \in Leaf THEN BoxEntries(first.id)
                 ELSE {NodeEntry(n) : n \in Children[first.id]}
  /\ pc' = "push"
  /\ first' = NoEntry
  /\ UNCHANGED <<rigid, prevtop, handlers, parts, found>>

PushChild ==
  /\ pc = "push"
  /\ \E e \in children :
        /\ \A c \in children : e.id <= c.id
        /\ nodespq' = Q!Push(nodespq, e)
        /\ children' = children \ {e}
  /\ UNCHANGED <<rigid, pc, first, prevtop, mpq, handlers, parts, lastNodeDist, found>>

ChildrenPushed ==
  /\ pc = "push"
  /\ children = {}
  /\ pc' = "loop"
  /\ UNCHANGED <<rigid, first, prevtop, queues, found>>

(* case 1: loadPartTraj reads the part of the box within the query's time. *)
VisitBox ==
  /\ Visit(1)
  /\ first.box[2] # 0
  /\ \E p \in {Popped}, t \in {first.box[1]} :
        /\ Take(p)
        /\ parts' = [parts EXCEPT ![t] = @ \cup {first.box[2]}]
        /\ \E e \in {Estimate(t, parts'[t], p.nodes, p.last)} : Enqueue(p.cands, e)
  /\ Done
  /\ UNCHANGED <<rigid, prevtop, children, found>>

(* What fails. A box beyond the query's time has no part in it:            *)
(* getPartialxTrajectory gives no points, or those between an end and a    *)
(* later start, and insert takes the first of them, which is undefined. An *)
(* incomplete candidate, type 2, is no case of the switch, which throws.   *)
Fail ==
  /\ Visit(first.type)
  /\ (first.type = 1 /\ first.box[2] = 0) \/ first.type = 2
  /\ pc' = IF first.type = 1 THEN "broken" ELSE "thrown"
  /\ UNCHANGED <<rigid, first, prevtop, queues, found>>

(* case 3 *)
Report ==
  /\ Visit(3)
  /\ reported' = Append(reported, first.id)
  /\ knearest' = first.opt
  /\ \E p \in {Popped} : Take(p) /\ mpq' = p.cands
  /\ Done
  /\ UNCHANGED <<rigid, prevtop, handlers, children, parts>>

Next ==
  \/ Exhausted \/ TopNode \/ TopCandidate \/ TopUpdates \/ TopReturns
  \/ Stop \/ VisitNode \/ PushChild \/ ChildrenPushed \/ VisitBox \/ Report \/ Fail
=============================================================================

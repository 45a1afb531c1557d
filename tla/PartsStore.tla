----------------------------- MODULE PartsStore -----------------------------
(***************************************************************************)
(* The nearest-neighbour query over a tree whose leaves are linked         *)
(* (xRTree::nearestNeighborQuery, the SBB-driven branch, with PartsStore   *)
(* of src/xrtree/PartStore.cc). Nodes wait in one queue; trajectories some *)
(* boxes of which have been read, the candidates, wait in another with a   *)
(* lower bound (opt) and an upper bound (pes) of their distance. A         *)
(* candidate whose boxes are not all read is bounded below by what is read *)
(* and, over its gaps, by the nearest node left; m_pes holds the k least   *)
(* upper bounds, and a candidate beyond them is excepted: its boxes are    *)
(* ignored from then on.                                                   *)
(*                                                                         *)
(* Geometry enters as numbers. The boxes of a trajectory partition the     *)
(* query's time: box i lasts `width` slots, its distance is `rate` per     *)
(* slot or more, at most `slack` beyond. Boxes that do not overlap the     *)
(* query are skipped by the code and left out; where a trajectory begins   *)
(* after the query or ends before it, its first and last box include what  *)
(* frontDistStatic and backDistStatic add.                                 *)
(*                                                                         *)
(* A queue is the set of its entries, its top the first in EntryMPQ's      *)
(* order. nearestNeighborQuery runs in one thread; its loop and the loop   *)
(* of top() are a step per iteration.                                      *)
(***************************************************************************)
EXTENDS Integers, Sequences, SequencesExt, FiniteSetsExt

CONSTANTS
  Traj,      \* ids of trajectories, integers: ties are broken by id
  Leaf,      \* pages of the leaves
  Inner,     \* pages of the inner nodes
  Root,      \* m_rootID, an inner node
  Children,  \* of an inner node
  Under,     \* the leaves under a node
  Slots,     \* the length of the query
  Shapes,    \* the trajectories a world is made of
  Ks,        \* the numbers of neighbours asked for
  Delta,     \* delta: what simplifying the query costs
  SsDelta,   \* ssdelta: what reducing it to its end points costs
  Huge       \* 1e300

ASSUME NumberAssumption ==
  /\ Ks \subseteq Nat \ {0} /\ Slots \in Nat \ {0}
  /\ Delta \in Nat /\ SsDelta \in Nat /\ Huge \in Nat
ASSUME TrajAssumption == Traj \subseteq Nat /\ IsFiniteSet(Traj)
ASSUME NodeAssumption ==
  /\ Leaf \subseteq Nat /\ Inner \subseteq Nat /\ IsFiniteSet(Leaf \cup Inner)
  /\ Leaf \cap Inner = {} /\ Root \in Inner
  /\ Children \in [Inner -> SUBSET (Leaf \cup Inner)]
  /\ Under \in [Leaf \cup Inner -> SUBSET Leaf]
  /\ \A l \in Leaf : Under[l] = {l}
  /\ \A n \in Inner : Under[n] = UNION {Under[m] : m \in Children[n]}
  /\ Under[Root] = Leaf

(* A world's trajectory: the distance of each of its boxes to the query    *)
(* lies between the bounds of the box, and simplifying the query cannot    *)
(* add more to it than what is allowed for.                                *)
BoxRecord == [leaf : Leaf, width : Nat, rate : Nat, slack : Nat]
LoOf(s) == [i \in DOMAIN s.box |-> s.box[i].rate * s.box[i].width]
HiOf(s) == [i \in DOMAIN s.box |-> s.box[i].rate * s.box[i].width + s.box[i].slack]
WidthOf(s) == [i \in DOMAIN s.box |-> s.box[i].width]
ASSUME ShapeAssumption ==
  \A s \in Shapes :
    /\ s.box \in Seq(BoxRecord)
    /\ SumFunction(WidthOf(s)) = Slots
    /\ s.distance \in SumFunction(LoOf(s)) .. SumFunction(HiOf(s))
    /\ \A i \in DOMAIN s.box : Slots * s.box[i].rate < Huge
    /\ s.distance < Huge
    /\ s.excess \in 0 .. s.distance /\ s.excess <= Delta /\ s.excess <= SsDelta
    /\ s.reach \in Nat

VARIABLES
  world,     \* the trajectories (never changes)
  query,     \* k, the distance (current_distance), m_bUsingLoadleaf (never changes)
  pc,        \* "loop" (the while), "top" (in top()), "visit" (the switch),
             \* "leaf" (in loadLeaf), or how it ended
  caller,    \* of top(): "query", or case 3, which calls it twice: "check", "judge"
  first,     \* pFirst
  lastid,    \* of top()
  btopnode,
  nodespq,   \* m_nodespq: pages, each with its distance
  mpq,       \* m_mpq: candidates, each with its bounds and type
  parts,     \* m_parts: the boxes read of each trajectory
  missing,   \* m_missingLeaf of each
  loaded,    \* m_loadedLeaf
  fresh,     \* nid of loadLeaf: met for the first time, not yet queued
  pes,       \* m_pes.m_pq
  except,    \* m_except
  reported   \* what visitData was called with

vars == <<world, query, pc, caller, first, lastid, btopnode, nodespq, mpq,
          parts, missing, loaded, fresh, pes, except, reported>>

rigid == <<world, query>>
NoId == -1
NoEntry == [type |-> 9, id |-> NoId, opt |-> 0, pes |-> 0]

-----------------------------------------------------------------------------
(* The world: boxes and their distances, as the query sees them.           *)
Node == Leaf \cup Inner
Boxes(t) == DOMAIN world[t].box
BoxesIn(t, leaf) == {i \in Boxes(t) : world[t].box[i].leaf = leaf}
Neighbours(t, i) == {i - 1, i + 1} \cap Boxes(t)

SumLo(t, S) == SumFunctionOnSet(LoOf(world[t]), S)
SumHi(t, S) == SumFunctionOnSet(HiOf(world[t]), S)
Width(t, S) == SumFunctionOnSet(WidthOf(world[t]), S)

(* The distance to the query itself; for the Euclidean distance the boxes  *)
(* are measured against a simplified query, which may overstate it.        *)
TrueDistance(t) == world[t].distance - (IF query.measure = "IED" THEN world[t].excess ELSE 0)
Distance == [t \in Traj |-> TrueDistance(t)]

(* m_error; only the Euclidean distance works on a simplified query. *)
Error == IF query.measure = "IED" THEN Delta ELSE 0

(* What a node is pushed with: as if all of the query were next to the     *)
(* node's rectangle. A node no box of which overlaps the query is 1e300    *)
(* away; for an inner node the query is reduced to its end points.         *)
RatesIn(leaves) ==
  UNION {{world[t].box[i].rate : i \in UNION {BoxesIn(t, l) : l \in leaves}} : t \in Traj}
NodeError(n) ==
  IF query.measure # "IED" THEN 0 ELSE IF n \in Leaf THEN Delta ELSE SsDelta
NodeDist(n) ==
  LET rates == RatesIn(Under[n])
  IN IF rates = {} THEN Huge ELSE Max({0, Slots * Min(rates) - NodeError(n)})

NodeEntry(n, d) == [type |-> IF n \in Leaf THEN 1 ELSE 0, id |-> n, opt |-> d, pes |-> d]

(* EntryMPQ's order: by lower bound, then the higher type, then the id. *)
Before(a, b) ==
  \/ a.opt < b.opt
  \/ a.opt = b.opt /\ a.type > b.type
  \/ a.opt = b.opt /\ a.type = b.type /\ a.id <= b.id
Foremost(S) == CHOOSE a \in S : \A b \in S : Before(a, b)

NodeTop(nodes) == Foremost({NodeEntry(n, nodes[n]) : n \in DOMAIN nodes})
Candidate(t) == [type |-> mpq[t].type, id |-> t, opt |-> mpq[t].opt, pes |-> mpq[t].pes]
CandidateTop == Foremost({Candidate(t) : t \in DOMAIN mpq})
Without(queue, id) == [u \in DOMAIN queue \ {id} |-> queue[u]]
With(queue, id, e) == [u \in DOMAIN queue \cup {id} |-> IF u = id THEN e ELSE queue[u]]
Empty == nodespq = <<>> /\ mpq = <<>>

-----------------------------------------------------------------------------
(* m_pes (class poppq): the k least upper bounds, in order, one per id. *)
(* A bug: the least upper bound instead of the k-th. *)
ThresholdFront(q) == IF Len(q) = query.k THEN q[1].pes ELSE Huge

Threshold(q) == IF Len(q) = query.k THEN q[Len(q)].pes ELSE Huge

Erased(q, id) == RemoveFirstMatch(q, LAMBDA e : e.id = id)

(* A bug: the list grows beyond k. *)
PoppqInsertGrows(q, id, p) ==
  LET rest == Erased(q, id)
      place == Min({i \in DOMAIN rest : p < rest[i].pes} \cup {Len(rest) + 1})
  IN InsertAt(rest, place, [id |-> id, pes |-> p])

PoppqInsert(q, id, p) ==
  LET rest == Erased(q, id)
      place == Min({i \in DOMAIN rest : p < rest[i].pes} \cup {Len(rest) + 1})
      longer == InsertAt(rest, place, [id |-> id, pes |-> p])
  IN IF Len(q) < query.k \/ p < q[Len(q)].pes \/ Len(rest) < Len(q)
     THEN SubSeq(longer, 1, Min({query.k, Len(longer)}))
     ELSE q

-----------------------------------------------------------------------------
(* updateValue: the bounds of a trajectory of which the boxes in `read`    *)
(* are known and of whose leaves `absent` are missing, while `nodes` wait. *)
(* A gap, a longest run of unread boxes, is bounded by the share of the    *)
(* nearest node, for the Euclidean distance also by the speed limit        *)
(* (frontDist, backDist); with no node left it adds nothing.               *)
Gaps(t, read) ==
  {g[1] .. g[2] : g \in {r \in Boxes(t) \X Boxes(t) :
      /\ r[1] <= r[2]
      /\ r[1] .. r[2] \cap read = {}
      /\ r[1] = 1 \/ r[1] - 1 \in read
      /\ r[2] = Len(world[t].box) \/ r[2] + 1 \in read}}

Share(t, gap, nodes) == (NodeTop(nodes).opt * Width(t, gap)) \div Slots
GapBound(t, gap, nodes) ==
  IF query.measure = "RMDTW" THEN Share(t, gap, nodes)
  ELSE Min({world[t].reach, Share(t, gap, nodes)})

Slack(t) == SumHi(t, Boxes(t)) - SumLo(t, Boxes(t))

Bound(t, read, absent, nodes) ==
  LET gaps == IF nodes = <<>> THEN {} ELSE Gaps(t, read)
  IN IF absent = {} /\ query.measure = "RMDTW"
     THEN [opt |-> world[t].distance - Slack(t), pes |-> world[t].distance + Slack(t),
           infer |-> FALSE]
     ELSE [opt |-> SumLo(t, read) + SumFunction([g \in gaps |-> GapBound(t, g, nodes)])
                   - Error,
           pes |-> IF gaps = {} THEN SumHi(t, read) + Error ELSE Huge * Cardinality(gaps),
           infer |-> gaps # {}]

(* The end of updateValue: m_pes, then m_except. *)
Judge(t, b) ==
  /\ pes' = PoppqInsert(pes, t, b.pes)
  /\ except' = IF b.opt > Threshold(pes') THEN except \cup {t} ELSE except

(* A bug: leaves already read are called missing. *)
LoadLeafAgain(leaf) ==
  LET met == {t \in Traj \ except : BoxesIn(t, leaf) # {}}
      linked(t) == {world[t].box[j].leaf : j \in UNION {Neighbours(t, i) : i \in BoxesIn(t, leaf)}}
  IN /\ loaded' = loaded \cup {leaf}
     /\ parts' = [t \in Traj |-> IF t \in met THEN parts[t] \cup BoxesIn(t, leaf) ELSE parts[t]]
     /\ missing' = [t \in Traj |-> IF t \in met
                      THEN (missing[t] \cup linked(t)) \ {leaf} ELSE missing[t]]
     /\ fresh' = {t \in met : parts[t] = {}}
     /\ pc' = IF fresh' = {} THEN "loop" ELSE "leaf"
     /\ first' = NoEntry

(* loadLeaf, first loop: the boxes of the leaf are inserted, except those  *)
(* of excepted trajectories.                                               *)
LoadLeaf(leaf) ==
  LET met == {t \in Traj \ except : BoxesIn(t, leaf) # {}}
      linked(t) == {world[t].box[j].leaf : j \in UNION {Neighbours(t, i) : i \in BoxesIn(t, leaf)}}
  IN /\ loaded' = loaded \cup {leaf}
     /\ parts' = [t \in Traj |-> IF t \in met THEN parts[t] \cup BoxesIn(t, leaf) ELSE parts[t]]
     /\ missing' = [t \in Traj |-> IF t \in met
                      THEN (missing[t] \cup (linked(t) \ loaded)) \ {leaf} ELSE missing[t]]
     /\ fresh' = {t \in met : parts[t] = {}}
     /\ pc' = IF fresh' = {} THEN "loop" ELSE "leaf"
     /\ first' = NoEntry

-----------------------------------------------------------------------------
Init ==
  /\ world \in [Traj -> Shapes]
  /\ query \in [k : Ks, measure : {"RMDTW", "IED"}, loadleaf : BOOLEAN]
  /\ pc = "loop"
  /\ caller = "query"
  /\ first = NoEntry
  /\ lastid = NoId
  /\ btopnode = FALSE
  /\ nodespq = [n \in {Root} |-> 0]
  /\ mpq = <<>>
  /\ parts = [t \in Traj |-> {}]
  /\ missing = [t \in Traj |-> {}]
  /\ loaded = {}
  /\ fresh = {}
  /\ pes = <<>>
  /\ except = {}
  /\ reported = <<>>

leaves == <<parts, missing, loaded, fresh>>
best == <<pes, except>>
store == <<leaves, best>>

(* The head of the loop: ends when both queues are empty, looks at the     *)
(* node queue when case 2 asked for it, at both otherwise.                 *)
Exhausted ==
  /\ pc = "loop"
  /\ Empty
  /\ pc' = "done"
  /\ UNCHANGED <<rigid, caller, first, lastid, btopnode, nodespq, mpq, store, reported>>

TakeNode ==
  /\ pc = "loop"
  /\ ~Empty
  /\ btopnode
  /\ btopnode' = FALSE
  /\ IF nodespq = <<>>
     THEN pc' = "asserted" /\ UNCHANGED first
     ELSE pc' = "visit" /\ first' = NodeTop(nodespq)
  /\ UNCHANGED <<rigid, caller, lastid, nodespq, mpq, store, reported>>

TakeTop ==
  /\ pc = "loop"
  /\ ~Empty
  /\ ~btopnode
  /\ pc' = "top"
  /\ caller' = "query"
  /\ lastid' = NoId
  /\ UNCHANGED <<rigid, first, btopnode, nodespq, mpq, store, reported>>

-----------------------------------------------------------------------------
(* top() returns an entry: to the loop, which goes on to the switch, or to *)
(* case 3. That calls top() to compare it with NULL and, as it is not,     *)
(* calls it again: it reports pFirst when its upper bound is below the     *)
(* second entry's lower bound, and computes its exact distance otherwise.  *)
(* A bug: the lower bound of pFirst is compared. *)
CertainByOpt(e) == first.opt < e.opt
Certain(e) == first.pes < e.opt

ReportFirst ==
  /\ reported' = Append(reported, first.id)
  /\ UNCHANGED mpq

PushExact ==
  LET d == TrueDistance(first.id)
  IN /\ mpq' = With(mpq, first.id, [type |-> 4, opt |-> d, pes |-> d])
     /\ UNCHANGED reported

Return(e) ==
  CASE caller = "query" ->
         pc' = "visit" /\ first' = e /\ UNCHANGED <<caller, lastid, mpq, reported>>
    [] caller = "check" ->
         caller' = "judge" /\ lastid' = NoId /\ UNCHANGED <<pc, first, mpq, reported>>
    [] caller = "judge" ->
         /\ pc' = "loop"
         /\ first' = NoEntry
         /\ IF Certain(e) THEN ReportFirst ELSE PushExact
         /\ UNCHANGED <<caller, lastid>>

NodeIsNext ==
  mpq # <<>> => nodespq # <<>> /\ NodeTop(nodespq).opt < CandidateTop.opt

(* A node comes first, or there is no candidate. *)
TopNode ==
  /\ pc = "top"
  /\ NodeIsNext
  /\ nodespq # <<>>
  /\ Return(NodeTop(nodespq))
  /\ UNCHANGED <<rigid, btopnode, nodespq, store>>

(* top() has dropped the last candidate and asks the empty node queue.     *)
(* With assertions on the process ends. With NDEBUG the entry is whatever  *)
(* lies there: the loop takes it and stops if k results are in; case 3     *)
(* does not look at it, but calls top() again, which now gives NULL, and   *)
(* dereferences that.                                                      *)
TopOfNothing ==
  /\ pc = "top"
  /\ NodeIsNext
  /\ nodespq = <<>>
  /\ pc' \in {"asserted", IF caller = "query" THEN "visit" ELSE "crashed"}
  /\ first' = NoEntry
  /\ UNCHANGED <<rigid, caller, lastid, btopnode, nodespq, mpq, store, reported>>

(* The first candidate has its boxes together or was brought up to date    *)
(* just now.                                                               *)
TopCandidate ==
  /\ pc = "top"
  /\ ~NodeIsNext
  /\ CandidateTop.type >= 3 \/ CandidateTop.id = lastid
  /\ Return(CandidateTop)
  /\ UNCHANGED <<rigid, btopnode, nodespq, store>>

TopDrops ==
  /\ pc = "top"
  /\ ~NodeIsNext
  /\ CandidateTop.type < 3 /\ CandidateTop.id # lastid
  /\ CandidateTop.id \in except
  /\ mpq' = Without(mpq, CandidateTop.id)
  /\ lastid' = NoId
  /\ UNCHANGED <<rigid, pc, caller, first, btopnode, nodespq, store, reported>>

TopUpdates ==
  /\ pc = "top"
  /\ ~NodeIsNext
  /\ CandidateTop.type < 3 /\ CandidateTop.id # lastid
  /\ CandidateTop.id \notin except
  /\ \E t \in {CandidateTop.id} : \E b \in {Bound(t, parts[t], missing[t], nodespq)} :
        /\ Judge(t, b)
        /\ mpq' = [mpq EXCEPT ![t] = [type |-> IF missing[t] = {} THEN 3 ELSE 2,
                                      opt |-> b.opt, pes |-> b.pes]]
        /\ lastid' = t
  /\ UNCHANGED <<rigid, pc, caller, first, btopnode, nodespq, leaves, reported>>

-----------------------------------------------------------------------------
(* The switch, unless k results have been reported. *)
Visit(type) == pc = "visit" /\ Len(reported) < query.k /\ first.type = type
Done == first' = NoEntry /\ pc' = "loop"

Stop ==
  /\ pc = "visit"
  /\ Len(reported) >= query.k
  /\ pc' = "done"
  /\ UNCHANGED <<rigid, caller, first, lastid, btopnode, nodespq, mpq, store, reported>>

(* m_nodespq, the node in hand replaced by those of its children.          *)
Expanded(near) ==
  [n \in near \cup (DOMAIN nodespq \ {first.id}) |-> IF n \in near THEN NodeDist(n) ELSE nodespq[n]]

(* A bug: nodes beyond the threshold are pruned, also when a candidate     *)
(* needs them.                                                             *)
VisitInnerPrunes ==
  /\ Visit(0)
  /\ nodespq' = Expanded({c \in Children[first.id] : NodeDist(c) < Threshold(pes)})
  /\ Done
  /\ UNCHANGED <<rigid, caller, lastid, btopnode, mpq, store, reported>>

(* case 0 *)
VisitInner ==
  /\ Visit(0)
  /\ nodespq' = Expanded({c \in Children[first.id] : NodeDist(c) < Huge})
  /\ Done
  /\ UNCHANGED <<rigid, caller, lastid, btopnode, mpq, store, reported>>

(* A bug: a leaf already read stays in the queue. *)
VisitLeafStays ==
  /\ Visit(1)
  /\ IF first.id \in loaded
     THEN Done /\ UNCHANGED <<leaves, nodespq>>
     ELSE LoadLeaf(first.id) /\ nodespq' = Without(nodespq, first.id)
  /\ UNCHANGED <<rigid, caller, lastid, btopnode, mpq, best, reported>>

(* case 1: the leaf may have been read already, as a missing part. *)
VisitLeaf ==
  /\ Visit(1)
  /\ nodespq' = Without(nodespq, first.id)
  /\ IF first.id \in loaded
     THEN Done /\ UNCHANGED leaves
     ELSE LoadLeaf(first.id)
  /\ UNCHANGED <<rigid, caller, lastid, btopnode, mpq, best, reported>>

(* case 2: read one missing leaf of the candidate, whichever the hash set  *)
(* gives; getOneMissingPart throws when there is none.                     *)
LoadMissing ==
  /\ Visit(2)
  /\ query.loadleaf
  /\ IF missing[first.id] = {}
     THEN pc' = "thrown" /\ UNCHANGED <<first, leaves>>
     ELSE \E leaf \in missing[first.id] : LoadLeaf(leaf)
  /\ UNCHANGED <<rigid, caller, lastid, btopnode, nodespq, mpq, best, reported>>

(* loadLeaf, second loop: the trajectories met for the first time are      *)
(* judged and queued in the order of their ids.                            *)
QueueFresh ==
  /\ pc = "leaf"
  /\ \E t \in {Min(fresh)} : \E b \in {Bound(t, parts[t], missing[t], nodespq)} :
        /\ Judge(t, b)
        /\ mpq' = With(mpq, t, [type |-> IF b.infer THEN 2 ELSE 3, opt |-> b.opt, pes |-> b.pes])
        /\ fresh' = fresh \ {t}
  /\ pc' = IF fresh' = {} THEN "loop" ELSE "leaf"
  /\ UNCHANGED <<rigid, caller, first, lastid, btopnode, nodespq, parts, missing, loaded, reported>>

(* case 2 of a tree whose missing leaves are not fetched: take a node next. *)
AskForNode ==
  /\ Visit(2)
  /\ ~query.loadleaf
  /\ btopnode' = TRUE
  /\ Done
  /\ UNCHANGED <<rigid, caller, lastid, nodespq, mpq, store, reported>>

(* case 3: the entry is popped and, unless it was the last, compared with  *)
(* what top() gives next.                                                  *)
ReportLast ==
  /\ Visit(3)
  /\ nodespq = <<>> /\ DOMAIN mpq = {first.id}
  /\ reported' = Append(reported, first.id)
  /\ mpq' = Without(mpq, first.id)
  /\ Done
  /\ UNCHANGED <<rigid, caller, lastid, btopnode, nodespq, store>>

PopAndCompare ==
  /\ Visit(3)
  /\ ~(nodespq = <<>> /\ DOMAIN mpq = {first.id})
  /\ mpq' = Without(mpq, first.id)
  /\ pc' = "top"
  /\ caller' = "check"
  /\ lastid' = NoId
  /\ UNCHANGED <<rigid, first, btopnode, nodespq, store, reported>>

(* case 4 *)
ReportExact ==
  /\ Visit(4)
  /\ reported' = Append(reported, first.id)
  /\ mpq' = Without(mpq, first.id)
  /\ Done
  /\ UNCHANGED <<rigid, caller, lastid, btopnode, nodespq, store>>

Next ==
  \/ Exhausted \/ TakeNode \/ TakeTop
  \/ TopNode \/ TopOfNothing \/ TopCandidate \/ TopDrops \/ TopUpdates
  \/ Stop \/ VisitInner \/ VisitLeaf
  \/ LoadMissing \/ QueueFresh \/ AskForNode
  \/ ReportLast \/ PopAndCompare \/ ReportExact

(* One thread runs the query, and nothing in it waits. *)
Spec == Init /\ [][Next]_vars /\ WF_vars(Next)

-----------------------------------------------------------------------------
Ended == {"done", "asserted", "thrown", "crashed"}

TypeOK ==
  /\ pc \in {"loop", "top", "visit", "leaf"} \cup Ended
  /\ caller \in {"query", "check", "judge"}
  /\ lastid \in Traj \cup {NoId}
  /\ btopnode \in BOOLEAN
  /\ DOMAIN nodespq \subseteq Node
  /\ DOMAIN mpq \subseteq Traj
  /\ \A t \in DOMAIN mpq : mpq[t].type \in 2 .. 4 /\ mpq[t].opt <= mpq[t].pes
  /\ \A t \in Traj : parts[t] \subseteq Boxes(t) /\ missing[t] \subseteq Leaf
  /\ loaded \subseteq Leaf
  /\ fresh \subseteq Traj
  /\ Len(pes) <= query.k
  /\ except \subseteq Traj
  /\ reported \in Seq(Traj)

Outcome == IF pc = "done" THEN "done" ELSE IF pc \in Ended THEN "failed" ELSE "running"

(* The query reports trajectories in the order of their true distance,     *)
(* although it decides on bounds, reads only some boxes and drops          *)
(* candidates, and when it ends without failing it has reported k of them  *)
(* or all.                                                                 *)
KN == INSTANCE KNearest WITH Ties <- FALSE, distance <- Distance, k <- query.k, answer <- reported,
                             outcome <- Outcome
ImplementsKNearest == KN!Spec

(* An excepted trajectory is not among the answers: k others are strictly  *)
(* nearer. (updateValue drops candidates on bounds that were computed      *)
(* while the query was less far.)                                          *)
ExceptedAreFar ==
  \A t \in except :
    Cardinality({u \in Traj : Distance[u] < Distance[t]}) >= query.k

(* The candidates that still count, with the one in hand.                 *)
Live == {t \in DOMAIN mpq : t \notin except \/ (pc = "visit" /\ first.type >= 2 /\ first.id = t)}

(* A candidate lacks a leaf exactly when it lacks a box: the links of the  *)
(* boxes read lead to the others, however the leaves were read, by the     *)
(* search, as a missing part, or both; and a leaf still missing has not    *)
(* been read, so that none is read twice and case 2 always finds one.      *)
MissingMeansIncomplete ==
  \A t \in Live :
    /\ missing[t] = {} <=> parts[t] = Boxes(t)
    /\ missing[t] \cap loaded = {}

(* While a candidate that counts lacks boxes, a node waits in its queue or *)
(* is about to be read: a gap has a bound, nodetop() has a node, and no    *)
(* candidate is taken for complete because nothing was left to bound its   *)
(* gaps by.                                                                *)
NodeForEveryGap ==
  \A t \in Live :
    parts[t] # Boxes(t) => nodespq # <<>> \/ (pc = "visit" /\ first.type < 2)

(* Every query ends. *)
Ends == <>(pc \in Ended)

(* MutablePriorityQueue::top asserts that the queue is not empty. *)
TopIsOfNonEmptyQueue == pc # "asserted"
=============================================================================

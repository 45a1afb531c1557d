----------------------------- MODULE BulkLoader -----------------------------
(***************************************************************************)
(* The bulk load of a tree whose leaves are linked                         *)
(* (BulkLoader::bulkLoadUsingSTR, createLevel and createLevelT of          *)
(* src/xrtree/BulkLoader.cc, fed by xSBBStream of                          *)
(* src/storagemanager/xStore.cc). The stream cuts trajectory after         *)
(* trajectory into boxes and numbers them; level 0 packs them into leaves  *)
(* and notes the leaf of each (m_part2node); level 1 packs the leaves and  *)
(* turns, in every leaf it packs, "has a previous box" and "has a next     *)
(* box" into the pages of the leaves that hold these.                      *)
(*                                                                         *)
(* A sorter hands out what was put into it, in some order: any. (It loses  *)
(* nothing and doubles nothing, see ExternalSorter; its order depends on   *)
(* coordinates, and over several buffers not even on these.) A box is its  *)
(* number, with the middle of its time.                                    *)
(*                                                                         *)
(* The stream takes every number from 0 to the last for a trajectory. Here *)
(* each has a row. Numbers without one, of trajectories of one point       *)
(* (xStore.cc:266) and of inserts that failed, are not modelled: getNext   *)
(* (xStore.cc:553) then loads page 0 with as many points as were asked     *)
(* for, as the number of points of the row, 0, less one wraps.             *)
(***************************************************************************)
EXTENDS Integers, Sequences, SequencesExt, FiniteSetsExt

CONSTANTS
  Worlds,         \* sets of trajectories: for the ids 0, 1, ... the middles of their boxes
  LeafCapacity,   \* bleaf
  IndexCapacity,  \* bindex
  Bt,             \* m_bt
  FirstPage       \* the page the first node is stored in

ASSUME CapacityAssumption ==
  LeafCapacity \in Nat \ {0} /\ IndexCapacity \in Nat \ {0, 1} /\ Bt \in Nat \ {0}
ASSUME PageAssumption == FirstPage \in Nat
ASSUME WorldAssumption ==
  \A w \in Worlds : w \in Seq(Seq(Int)) /\ w # <<>> /\ \A i \in DOMAIN w : w[i] # <<>>

VARIABLES
  world,      \* what the store holds (never changes)
  bulkloadt,  \* the flag (never changes)
  pc,         \* "stream", "level", "slab", "fill", "slice", "strip", "pack",
              \* "next", "done", "thrown"
  numit, sid, buf,  \* m_numit, m_id, m_buf of the stream
  box,        \* the boxes inserted into the sorter, by number
  es,         \* what is left in the sorter of the level
  slab,       \* es3: what is left in the sorter of the slab
  pR, curt, lastt, bMore,  \* of createLevelT
  wide, slice,  \* the records of a slice, and those left of the one at hand
  long, strip,  \* the records of a strip of it, and those left of the one at hand
  es2,        \* the sorter of the next level
  level,
  pages,      \* the nodes written
  part2node,  \* m_part2node
  rootID      \* m_rootID

stream == <<numit, sid, buf, box>>
slabs == <<pR, curt, lastt, bMore>>
tiles == <<wide, slice, long, strip>>
tree == <<es2, pages, part2node, rootID>>
vars == <<world, bulkloadt, pc, stream, es, slab, slabs, tiles, level, tree>>

None == -1
Put(f, x, v) == [y \in DOMAIN f \cup {x} |-> IF y = x THEN v ELSE f[y]]
NewPage == FirstPage + Cardinality(DOMAIN pages)

-----------------------------------------------------------------------------
(* Tiling. A level of P nodes is cut into S slices, a slice of P nodes     *)
(* into the next number above the root of P of strips, and a strip is      *)
(* packed node after node; what is cut into more pieces than it has nodes  *)
(* is packed at once. The last slice, strip and node get what is left.     *)
CeilDiv(m, n) == (m + n - 1) \div n
Roots(P) == {s \in 1 .. P : s * s >= P /\ (s - 1) * (s - 1) < P}
Least(m, n) == IF m <= n THEN m ELSE n

Packed(total, b, S) == CeilDiv(total, b) <= S \/ S * b > total

(* A bug: the records are shared evenly, whatever a node holds. *)
StrideEvenly(total, b, S) == CeilDiv(total, S)
Stride(total, b, S) == b * CeilDiv(CeilDiv(total, b), S)

(* A bug: leaves hold what inner nodes hold, and the other way round. *)
CapacitySwapped(l) == IF l = 0 THEN IndexCapacity ELSE LeafCapacity
Capacity(l) == IF l = 0 THEN LeafCapacity ELSE IndexCapacity

-----------------------------------------------------------------------------
Init ==
  /\ world \in Worlds
  /\ bulkloadt \in BOOLEAN
  /\ pc = "stream"
  /\ numit = 0 /\ sid = 0 /\ buf = <<>>
  /\ box = <<>>
  /\ es = {} /\ slab = {}
  /\ wide = 0 /\ slice = 0 /\ long = 0 /\ strip = 0
  /\ pR = None /\ curt = 0 /\ lastt = 0 /\ bMore = FALSE
  /\ es2 = {} /\ level = 0
  /\ pages = <<>> /\ part2node = <<>>
  /\ rootID = None

(* The stream ends after the last id; it compares it with the id read      *)
(* last, which is 0 before any.                                            *)
LastId == Len(world) - 1
HasNext == buf # <<>> \/ sid < LastId

EmptyStream ==
  /\ pc = "stream"
  /\ box = <<>>
  /\ ~HasNext
  /\ pc' = "thrown"
  /\ UNCHANGED <<world, bulkloadt, stream, es, slab, slabs, tiles, level, tree>>

(* One box; a trajectory is read and cut when the buffer is empty. *)
GetNext ==
  /\ pc = "stream"
  /\ HasNext
  /\ LET fresh == buf = <<>>
         cut == IF fresh THEN world[numit + 1] ELSE buf
     IN /\ sid' = IF fresh THEN numit ELSE sid
        /\ numit' = IF fresh THEN numit + 1 ELSE numit
        /\ buf' = Tail(cut)
        /\ box' = Put(box, Cardinality(DOMAIN box),
                      [traj |-> sid', mid |-> Head(cut),
                       hasPrev |-> ~fresh, hasNext |-> buf' # <<>>])
  /\ UNCHANGED <<world, bulkloadt, pc, es, slab, slabs, tiles, level, tree>>

EndOfStream ==
  /\ pc = "stream"
  /\ box # <<>>
  /\ ~HasNext
  /\ es' = DOMAIN box
  /\ pc' = "level"
  /\ UNCHANGED <<world, bulkloadt, stream, slab, slabs, tiles, level, tree>>

-----------------------------------------------------------------------------
(* createLevel in dimension 1, for a slice of n records. *)
CreateSlice(n) ==
  /\ slice' = n
  /\ \E S \in Roots(CeilDiv(n, Capacity(level))) :
        IF Packed(n, Capacity(level), S)
        THEN strip' = n /\ pc' = "pack" /\ UNCHANGED long
        ELSE long' = Stride(n, Capacity(level), S) /\ pc' = "strip" /\ UNCHANGED strip

(* createLevel in dimension 0: the number of slices depends on the data.   *)
CreateLevel ==
  /\ pc = "level"
  /\ ~(bulkloadt /\ level = 0)
  /\ \E S \in 1 .. CeilDiv(Cardinality(es), Capacity(level)) :
        IF Packed(Cardinality(es), Capacity(level), S)
        THEN /\ slice' = Cardinality(es) /\ strip' = Cardinality(es)
             /\ pc' = "pack"
             /\ UNCHANGED wide
        ELSE /\ wide' = Stride(Cardinality(es), Capacity(level), S)
             /\ pc' = "slice"
             /\ UNCHANGED <<slice, strip>>
  /\ slab' = es
  /\ es' = {}
  /\ UNCHANGED <<world, bulkloadt, stream, slabs, long, level, tree>>

CutSlice ==
  /\ pc = "slice"
  /\ CreateSlice(Least(wide, Cardinality(slab)))
  /\ UNCHANGED <<world, bulkloadt, stream, es, slab, slabs, wide, level, tree>>

(* Dimension 2 packs. *)
CutStrip ==
  /\ pc = "strip"
  /\ strip' = Least(long, slice)
  /\ pc' = "pack"
  /\ UNCHANGED <<world, bulkloadt, stream, es, slab, slabs, wide, slice, long, level, tree>>

(* createLevelT: level 0 is cut into slabs of time first.                  *)
CreateLevelT ==
  /\ pc = "level"
  /\ bulkloadt /\ level = 0
  /\ \E r \in es :
        /\ pR' = r
        /\ es' = es \ {r}
        /\ curt' = box[r].mid
        /\ lastt' = box[r].mid + Bt
  /\ bMore' = TRUE
  /\ pc' = "slab"
  /\ UNCHANGED <<world, bulkloadt, stream, slab, tiles, level, tree>>

SlabOpen == Cardinality(slab) < LeafCapacity * IndexCapacity /\ bMore

(* A bug: the slab does not become longer. *)
StretchNot ==
  /\ pc = "slab"
  /\ SlabOpen
  /\ pc' = "fill"
  /\ UNCHANGED <<world, bulkloadt, stream, es, slab, slabs, tiles, level, tree>>

Stretch ==
  /\ pc = "slab"
  /\ SlabOpen
  /\ lastt' = lastt + Bt
  /\ pc' = "fill"
  /\ UNCHANGED <<world, bulkloadt, stream, es, slab, pR, curt, bMore, tiles, level, tree>>

(* A bug: the record that comes before its time is dropped.                *)
FillDrops ==
  /\ pc = "fill"
  /\ curt <= lastt
  /\ slab' = slab \cup {pR}
  /\ IF es = {}
     THEN bMore' = FALSE /\ pc' = "slab" /\ pR' = None /\ UNCHANGED <<es, curt>>
     ELSE \E r \in es :
             /\ es' = es \ {r}
             /\ bMore' = bMore
             /\ IF curt > box[r].mid
                THEN pc' = "slab" /\ UNCHANGED <<pR, curt>>
                ELSE pR' = r /\ curt' = box[r].mid /\ UNCHANGED pc
  /\ UNCHANGED <<world, bulkloadt, stream, lastt, tiles, level, tree>>

(* The record in hand goes into the slab and the next is taken; one that   *)
(* lies before it waits until the slab is stretched.                       *)
Fill ==
  /\ pc = "fill"
  /\ curt <= lastt
  /\ slab' = slab \cup {pR}
  /\ IF es = {}
     THEN bMore' = FALSE /\ pc' = "slab" /\ pR' = None /\ UNCHANGED <<es, curt>>
     ELSE \E r \in es :
             /\ pR' = r
             /\ es' = es \ {r}
             /\ bMore' = bMore
             /\ IF curt > box[r].mid
                THEN pc' = "slab" /\ UNCHANGED curt
                ELSE curt' = box[r].mid /\ UNCHANGED pc
  /\ UNCHANGED <<world, bulkloadt, stream, lastt, tiles, level, tree>>

BeyondSlab ==
  /\ pc = "fill"
  /\ curt > lastt
  /\ pc' = "slab"
  /\ UNCHANGED <<world, bulkloadt, stream, es, slab, slabs, tiles, level, tree>>

CloseSlab ==
  /\ pc = "slab"
  /\ ~SlabOpen
  /\ slab # {}
  /\ CreateSlice(Cardinality(slab))
  /\ UNCHANGED <<world, bulkloadt, stream, es, slab, slabs, wide, level, tree>>

-----------------------------------------------------------------------------
(* createNode and insertEntry: the flags of a box are stored as numbers.   *)
AsId(flag) == IF flag THEN 1 ELSE 0
NewNode(S) ==
  [level |-> level, children |-> S,
   prev |-> IF level = 0 THEN [b \in S |-> AsId(box[b].hasPrev)] ELSE <<>>,
   next |-> IF level = 0 THEN [b \in S |-> AsId(box[b].hasNext)] ELSE <<>>]

PageOf(b) == IF b \in DOMAIN part2node THEN part2node[b] ELSE 0
Linked(node) ==
  [node EXCEPT
     !.prev = [b \in node.children |-> IF node.prev[b] # 0 THEN PageOf(b - 1) ELSE None],
     !.next = [b \in node.children |-> IF node.next[b] # 0 THEN PageOf(b + 1) ELSE None]]

(* A bug: level 1 notes its children too, although these are pages. *)
NoteAll(S) ==
  part2node' = [b \in DOMAIN part2node \cup S |-> IF b \in S THEN NewPage ELSE part2node[b]]
Note(S) ==
  part2node' = IF level # 0 THEN part2node
               ELSE [b \in DOMAIN part2node \cup S |->
                       IF b \in S THEN NewPage ELSE part2node[b]]

(* A node is created and written; level 1 reads its leaves, resolves their *)
(* links and writes them again.                                            *)
Size == Least(Capacity(level), strip)
PackNode ==
  /\ pc = "pack"
  /\ \E S \in kSubset(Size, slab) :
        /\ slab' = slab \ S
        /\ Note(S)
        /\ pages' = Put([p \in DOMAIN pages |->
                           IF level = 1 /\ p \in S THEN Linked(pages[p]) ELSE pages[p]],
                        NewPage, NewNode(S))
  /\ es2' = es2 \cup {NewPage}
  /\ rootID' = NewPage
  /\ strip' = strip - Size
  /\ slice' = slice - Size
  /\ pc' = IF strip' > 0 THEN "pack"
           ELSE IF slice' > 0 THEN "strip"
           ELSE IF slab' # {} THEN "slice"
           ELSE IF bulkloadt /\ level = 0 /\ bMore THEN "slab" ELSE "next"
  /\ UNCHANGED <<world, bulkloadt, stream, es, slabs, wide, long, level>>

NextLevel ==
  /\ pc = "next"
  /\ Cardinality(es2) # 1
  /\ level' = level + 1
  /\ es' = es2
  /\ es2' = {}
  /\ pc' = "level"
  /\ UNCHANGED <<world, bulkloadt, stream, slab, slabs, tiles, pages, part2node, rootID>>

(* One node is left: the root. *)
Finish ==
  /\ pc = "next"
  /\ Cardinality(es2) = 1
  /\ level' = level + 1
  /\ pc' = "done"
  /\ UNCHANGED <<world, bulkloadt, stream, es, slab, slabs, tiles, tree>>

Next ==
  \/ EmptyStream \/ GetNext \/ EndOfStream
  \/ CreateLevel \/ CreateLevelT \/ CutSlice \/ CutStrip
  \/ Stretch \/ Fill \/ BeyondSlab \/ CloseSlab
  \/ PackNode \/ NextLevel \/ Finish

(* The build runs in one thread and waits for nothing. *)
Spec == Init /\ [][Next]_vars /\ WF_vars(Next)

-----------------------------------------------------------------------------
Leaves == {p \in DOMAIN pages : pages[p].level = 0}
Parents(p) == {q \in DOMAIN pages : pages[q].level = pages[p].level + 1 /\ p \in pages[q].children}

TypeOK ==
  /\ pc \in {"stream", "level", "slab", "fill", "slice", "strip", "pack", "next", "done", "thrown"}
  /\ numit \in 0 .. Len(world) /\ sid \in 0 .. LastId
  /\ DOMAIN box \subseteq Nat
  /\ pR \in DOMAIN box \cup {None}
  /\ \A p \in DOMAIN pages :
       /\ pages[p].level \in 0 .. level
       /\ Cardinality(pages[p].children) \in
            1 .. (IF pages[p].level = 0 THEN LeafCapacity ELSE IndexCapacity)
  /\ rootID \in DOMAIN pages \cup {None}

(* While level 0 is built a box waits in one place or is in one leaf. *)
LeavesOf(b) == {p \in Leaves : b \in pages[p].children}
WaitsIn(b) ==
  {w \in {"es", "slab", "pR"} :
     level = 0 /\ b \in CASE w = "es" -> es [] w = "slab" -> slab [] w = "pR" -> {pR}}
BoxesKept ==
  pc \notin {"stream", "thrown"} =>
    \A b \in DOMAIN box : Cardinality(LeavesOf(b)) + Cardinality(WaitsIn(b)) = 1

(* The numbers of the boxes: all of a trajectory of the store follow one   *)
(* another, and those of the next trajectory follow them.                  *)
BoxesNumbered ==
  pc \notin {"stream", "thrown"} =>
    /\ DOMAIN box = 0 .. Cardinality(DOMAIN box) - 1
    /\ \A b \in DOMAIN box : b > 0 => box[b].traj \in box[b - 1].traj .. box[b - 1].traj + 1
    /\ \A t \in 0 .. LastId :
         Cardinality({b \in DOMAIN box : box[b].traj = t}) = Len(world[t + 1])

(* A tree: each node but the root has one parent, one level up. *)
NodesNested ==
  pc = "done" =>
    \A p \in DOMAIN pages : Cardinality(Parents(p)) = IF p = rootID THEN 0 ELSE 1

(* Nothing is lost and nothing is packed twice, whatever order the records *)
(* come in and wherever a slab, a slice or a strip is cut: every box of    *)
(* every trajectory of the store gets a number, waits in one place or is   *)
(* in one leaf, and the tree that is finished holds every leaf and inner   *)
(* node once.                                                              *)
WholeTree == BoxesKept /\ BoxesNumbered /\ NodesNested

(* The links of a leaf that is in the tree: -1 at the ends of a            *)
(* trajectory, otherwise the page of the leaf that holds the box of the    *)
(* same trajectory just before or after, which links back. The search      *)
(* (PartsStore) follows them to what it lacks. (A tree that is a single    *)
(* leaf is left with its flags.)                                           *)
SameTraj(b, c) == c \in DOMAIN box /\ box[c].traj = box[b].traj
LinksLead ==
  \A p \in Leaves : Parents(p) # {} =>
    \A b \in pages[p].children :
      LET prev == pages[p].prev[b]
          next == pages[p].next[b]
      IN /\ IF ~SameTraj(b, b - 1) THEN prev = None
            ELSE prev \in Leaves /\ b - 1 \in pages[prev].children
                 /\ (Parents(prev) # {} => pages[prev].next[b - 1] = p)
         /\ IF ~SameTraj(b, b + 1) THEN next = None
            ELSE next \in Leaves /\ b + 1 \in pages[next].children
                 /\ (Parents(next) # {} => pages[next].prev[b + 1] = p)

(* However a level is sliced, all its nodes are full but one: slices end   *)
(* where nodes do. (Of level 0 of createLevelT, all but one of a slab.)    *)
FullNodes ==
  \A l \in 0 .. level :
    ~(bulkloadt /\ l = 0) =>
      Cardinality({p \in DOMAIN pages :
        pages[p].level = l /\ Cardinality(pages[p].children) < Capacity(l)}) <= 1

(* The build ends. *)
LoadEnds == <>(pc \in {"done", "thrown"})
=============================================================================

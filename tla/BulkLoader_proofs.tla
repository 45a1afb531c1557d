------------------------- MODULE BulkLoader_proofs -------------------------
(***************************************************************************)
(* Proofs about the bulk load, for every store, capacity of leaves and     *)
(* inner nodes, length of slabs and order of records: the tree is whole    *)
(* (WholeTree), its leaves are linked as the boxes follow one another      *)
(* (LinksLead), and all nodes of a level but one are full (FullNodes).     *)
(*                                                                         *)
(* The invariant has a part for the stream, one for where the records of   *)
(* the level at hand are, one for the tiling, one for parents, one for     *)
(* links.                                                                  *)
(***************************************************************************)
EXTENDS BulkLoader, FiniteSetTheorems, SequenceTheorems, TLAPS

Building == pc \notin {"stream", "thrown"}
InSlabs == bulkloadt /\ level = 0

(* The level whose nodes are packed, or were packed last. *)
Top == IF pc = "done" THEN level - 1 ELSE level

-----------------------------------------------------------------------------
(* The stream: a box is numbered after the one before it; its flags tell   *)
(* whether its neighbours are of its trajectory, once these are there.     *)
BoxRecords == [traj : Nat, mid : Int, hasPrev : BOOLEAN, hasNext : BOOLEAN]
BoxesOf(t) == {b \in DOMAIN box : box[b].traj = t}
StillToCome(t) == IF numit > 0 /\ t = sid THEN Len(buf) ELSE 0

StreamKinds ==
  /\ world \in Worlds
  /\ bulkloadt \in BOOLEAN
  /\ numit \in 0 .. Len(world)
  /\ sid = IF numit = 0 THEN 0 ELSE numit - 1
  /\ buf \in Seq(Int)
  /\ \E n \in Nat : box \in [0 .. n - 1 -> BoxRecords]

Numbered ==
  /\ numit = 0 => buf = <<>> /\ DOMAIN box = {}
  /\ numit > 0 =>
       /\ DOMAIN box # {}
       /\ \A b \in DOMAIN box : b + 1 \notin DOMAIN box =>
            box[b].traj = sid /\ (box[b].hasNext <=> buf # <<>>)
  /\ \A b \in DOMAIN box :
       /\ box[b].traj < numit
       /\ b - 1 \in DOMAIN box => box[b].traj \in box[b - 1].traj .. box[b - 1].traj + 1

Flagged ==
  \A b \in DOMAIN box :
    /\ box[b].hasPrev <=> SameTraj(b, b - 1)
    /\ b + 1 \in DOMAIN box => (box[b].hasNext <=> SameTraj(b, b + 1))

Counted ==
  \A t \in 0 .. LastId :
    Cardinality(BoxesOf(t)) + StillToCome(t) = IF t < numit THEN Len(world[t + 1]) ELSE 0

Streamed == Building => numit = Len(world) /\ buf = <<>>

StreamInv == StreamKinds /\ Numbered /\ Flagged /\ Counted /\ Streamed

-----------------------------------------------------------------------------
(* The nodes written, and the records of the level at hand.                *)
Records == IF level = 0 THEN DOMAIN box ELSE {p \in DOMAIN pages : pages[p].level = level - 1}

NodeKinds ==
  /\ \E k \in Nat : DOMAIN pages = FirstPage .. FirstPage + k - 1
  /\ \A p \in DOMAIN pages :
       /\ pages[p] = [level |-> pages[p].level, children |-> pages[p].children,
                      prev |-> pages[p].prev, next |-> pages[p].next]
       /\ pages[p].level \in 0 .. Top
       /\ Cardinality(pages[p].children) \in 1 .. Capacity(pages[p].level)
       /\ pages[p].level = 0 => pages[p].children \subseteq DOMAIN box
       /\ pages[p].level > 0 =>
            pages[p].children \subseteq {q \in DOMAIN pages : pages[q].level = pages[p].level - 1}
  /\ es2 = {p \in DOMAIN pages : pages[p].level = Top}
  /\ es2 # {} => rootID \in es2
  /\ rootID \in DOMAIN pages \cup {None}
  /\ pc = "done" => es2 = {rootID}

Kinds ==
  /\ pc \in {"stream", "level", "slab", "fill", "slice", "strip", "pack", "next", "done", "thrown"}
  /\ level \in Nat
  /\ pc = "done" => level > 0
  /\ ~Building => level = 0 /\ DOMAIN pages = {} /\ es = {}
  /\ pc \in {"slab", "fill"} => InSlabs

(* A record waits in one place only: in the sorter of the level, in that  *)
(* of the slab, or in hand while there is more than the slab takes.        *)
MoreToCome == InSlabs /\ bMore
Tiling == {"slice", "strip", "pack"}
Waiting ==
  /\ es \subseteq Records /\ slab \subseteq Records
  /\ es \cap slab = {}
  /\ pR # None => pR \in DOMAIN box /\ pR \notin es /\ pR \notin slab
  /\ pR # None <=> MoreToCome /\ pc \in Tiling \cup {"slab", "fill"}
  /\ pc \in {"stream", "thrown", "level", "next", "done"} => slab = {}
  /\ pc \in {"next", "done"} => es = {}
  /\ pc \in Tiling \cup {"slab"} => MoreToCome \/ es = {}
  /\ pc = "fill" => bMore

(* A box waits, or is in the leaf noted for it. *)
Pool == {b \in DOMAIN box : b \in es \/ b \in slab \/ b = pR}
Placed ==
  /\ \A p \in Leaves : \A b \in pages[p].children :
       /\ b \in DOMAIN part2node /\ part2node[b] = p
       /\ level = 0 => b \notin Pool
  /\ Building => \A b \in DOMAIN box : LeavesOf(b) # {} \/ (level = 0 /\ b \in Pool)

(* A node below the top has one parent, or waits for it. *)
Nested ==
  \A p \in DOMAIN pages : pages[p].level < Top =>
    IF p \in es \cup slab THEN Parents(p) = {} ELSE \E q \in DOMAIN pages : Parents(p) = {q}

(* A leaf with a parent has links, another one flags. *)
LinkOf(flag, b) == IF flag THEN part2node[b] ELSE None
LinksSet ==
  \A p \in Leaves : \A b \in pages[p].children :
    IF Parents(p) = {}
    THEN pages[p].prev[b] = AsId(box[b].hasPrev) /\ pages[p].next[b] = AsId(box[b].hasNext)
    ELSE /\ pages[p].prev[b] = LinkOf(box[b].hasPrev, b - 1)
         /\ pages[p].next[b] = LinkOf(box[b].hasNext, b + 1)

-----------------------------------------------------------------------------
(* The tiling: what is left of a slice or strip ends where a node does, or *)
(* where the slab ends.                                                    *)
Cap == Capacity(level)
Multiple(n, b) == \E q \in 0 .. n : n = q * b
GoodStride(n) == n \in Nat \ {0} /\ Multiple(n, Cap)
Left == Cardinality(slab)

SliceFits ==
  /\ slice \in 1 .. Left
  /\ slice = Left \/ (Multiple(slice, Cap) /\ GoodStride(wide))
StripFits ==
  /\ strip \in 1 .. slice
  /\ strip = slice \/ (Multiple(strip, Cap) /\ GoodStride(long))
Tiled ==
  /\ pc \in Tiling => slab # {}
  /\ pc = "slice" => GoodStride(wide)
  /\ pc = "strip" => SliceFits /\ GoodStride(long)
  /\ pc = "pack" => SliceFits /\ StripFits

Short(l) == {p \in DOMAIN pages :
  pages[p].level = l /\ Cardinality(pages[p].children) < Capacity(l)}
Full ==
  /\ \A l \in 0 .. level : ~(bulkloadt /\ l = 0) => \A p, q \in Short(l) : p = q
  /\ pc \in Tiling \cup {"level"} /\ ~InSlabs => Short(level) = {}

PlaceInv == Kinds /\ NodeKinds /\ Waiting /\ Placed /\ Nested /\ LinksSet
IInv == StreamInv /\ PlaceInv /\ Tiled /\ Full

-----------------------------------------------------------------------------
(* Sets with one element or none. *)
LEMMA AtMostOne ==
  ASSUME NEW S, \A x, y \in S : x = y
  PROVE  Cardinality(S) \in 0 .. 1 /\ (S = {} <=> Cardinality(S) = 0)
<1>1. CASE S = {}
  BY <1>1, FS_EmptySet
<1>2. CASE S # {}
  <2>1. PICK x \in S : S = {x}
    BY <1>2
  <2> QED BY <2>1, FS_Singleton
<1> QED BY <1>1, <1>2

LEMMA IntervalSize ==
  ASSUME NEW n \in Nat
  PROVE  IsFiniteSet(0 .. n - 1) /\ Cardinality(0 .. n - 1) = n
BY FS_Interval

(* The boxes are finitely many, numbered from 0. *)
LEMMA BoxCount ==
  ASSUME StreamKinds
  PROVE  \E n \in Nat :
           /\ box \in [0 .. n - 1 -> BoxRecords]
           /\ n = Cardinality(DOMAIN box)
           /\ IsFiniteSet(DOMAIN box)
<1>1. PICK n \in Nat : box \in [0 .. n - 1 -> BoxRecords]
  BY DEF StreamKinds
<1>2. DOMAIN box = 0 .. n - 1
  BY <1>1
<1> QED BY <1>1, <1>2, IntervalSize

LEMMA PageCount ==
  ASSUME NodeKinds
  PROVE  \E k \in Nat :
           /\ DOMAIN pages = FirstPage .. FirstPage + k - 1
           /\ NewPage = FirstPage + k
           /\ IsFiniteSet(DOMAIN pages)
<1>1. PICK k \in Nat : DOMAIN pages = FirstPage .. FirstPage + k - 1
  BY DEF NodeKinds
<1>2. IsFiniteSet(DOMAIN pages) /\ Cardinality(DOMAIN pages) = k
  BY <1>1, FS_Interval, PageAssumption
<1> QED BY <1>1, <1>2 DEF NewPage

LEMMA CapacityPositive == \A l \in Nat : Capacity(l) \in Nat \ {0}
BY CapacityAssumption DEF Capacity

(* Numbers of nodes and of records. *)
LEMMA DivFacts ==
  ASSUME NEW m \in Nat, NEW b \in Nat \ {0}
  PROVE  m \div b \in Nat /\ b * (m \div b) <= m /\ m < b * (m \div b) + b
OBVIOUS

LEMMA CeilPos ==
  ASSUME NEW n \in Nat \ {0}, NEW b \in Nat \ {0}
  PROVE  CeilDiv(n, b) \in Nat \ {0}
<1> DEFINE q == (n + b - 1) \div b
<1>1. n + b - 1 \in Nat
  OBVIOUS
<1>2. q \in Nat /\ n + b - 1 < b * q + b
  BY <1>1, DivFacts
<1>3. q # 0
  BY <1>2
<1> QED BY <1>2, <1>3 DEF CeilDiv

LEMMA CeilZero ==
  ASSUME NEW b \in Nat \ {0}
  PROVE  CeilDiv(0, b) = 0
<1> DEFINE q == (0 + b - 1) \div b
<1>1. 0 + b - 1 \in Nat
  OBVIOUS
<1>2. q \in Nat /\ b * q <= b - 1
  BY <1>1, DivFacts
<1>3. q = 0
  BY <1>2
<1> QED BY <1>3 DEF CeilDiv

LEMMA MultipleOf ==
  ASSUME NEW b \in Nat \ {0}, NEW q \in Nat \ {0}
  PROVE  b * q \in Nat \ {0} /\ Multiple(b * q, b) /\ b <= b * q
<1>1. b * q \in Nat /\ q <= b * q /\ b <= b * q /\ b * q = q * b
  OBVIOUS
<1>2. Multiple(b * q, b)
  BY <1>1 DEF Multiple
<1> QED BY <1>1, <1>2

LEMMA OneLess ==
  ASSUME NEW b \in Nat \ {0}, NEW n \in Nat \ {0}, Multiple(n, b)
  PROVE  b <= n /\ Multiple(n - b, b)
<1>1. PICK q \in 0 .. n : n = q * b
  BY DEF Multiple
<1>2. q \in Nat /\ q # 0
  BY <1>1
<1>3. b <= n /\ n - b = (q - 1) * b
  BY <1>1, <1>2
<1>4. q - 1 \in Nat /\ q - 1 <= (q - 1) * b
  BY <1>2
<1>5. q - 1 \in 0 .. n - b
  BY <1>3, <1>4
<1> QED BY <1>3, <1>5 DEF Multiple

-----------------------------------------------------------------------------
(* The stream. *)
LEMMA WorldFacts ==
  ASSUME StreamKinds
  PROVE  /\ Len(world) \in Nat \ {0}
         /\ \A i \in 1 .. Len(world) : world[i] \in Seq(Int) /\ world[i] # << >>
<1>1. world \in Seq(Seq(Int)) /\ world # << >> /\ \A i \in DOMAIN world : world[i] # << >>
  BY WorldAssumption DEF StreamKinds
<1>2. Len(world) \in Nat /\ DOMAIN world = 1 .. Len(world)
  BY <1>1, LenProperties
<1>3. Len(world) # 0
  BY <1>1, EmptySeq
<1>4. \A i \in 1 .. Len(world) : world[i] \in Seq(Int)
  BY <1>1
<1> QED BY <1>1, <1>2, <1>3, <1>4

LEMMA InitStream == Init => StreamInv
<1> SUFFICES ASSUME Init
             PROVE  StreamInv
  OBVIOUS
<1> USE DEF Init
<1>1. StreamKinds
  <2>1. world \in Seq(Seq(Int))
    BY WorldAssumption
  <2>2. Len(world) \in Nat /\ buf \in Seq(Int)
    BY <2>1, LenProperties
  <2>3. box \in [0 .. 0 - 1 -> BoxRecords]
    OBVIOUS
  <2> QED BY <2>2, <2>3 DEF StreamKinds
<1>2. DOMAIN box = {}
  OBVIOUS
<1>3. Numbered /\ Flagged /\ Streamed
  BY <1>2 DEF Numbered, Flagged, Streamed, Building
<1>4. Counted
  <2> SUFFICES ASSUME NEW t \in 0 .. LastId
               PROVE  Cardinality(BoxesOf(t)) + StillToCome(t) = 0 /\ ~(t < numit)
    BY DEF Counted
  <2>1. BoxesOf(t) = {}
    BY <1>2 DEF BoxesOf
  <2>2. LastId \in Int
    BY <1>1, WorldFacts DEF LastId
  <2> QED BY <2>1, <2>2, FS_EmptySet DEF StillToCome
<1> QED BY <1>1, <1>3, <1>4 DEF StreamInv

(* A step that reads nothing. *)
LEMMA StreamStays ==
  ASSUME StreamInv, UNCHANGED <<world, bulkloadt, numit, sid, buf, box>>,
         Building' => numit = Len(world) /\ buf = << >>
  PROVE  StreamInv'
<1>1. StreamKinds'
  BY DEF StreamInv, StreamKinds
<1>2. Numbered' /\ Flagged'
  BY DEF StreamInv, Numbered, Flagged, SameTraj
<1>3. Counted'
  BY DEF StreamInv, Counted, BoxesOf, StillToCome, LastId
<1>4. Streamed'
  BY DEF Streamed
<1> QED BY <1>1, <1>2, <1>3, <1>4 DEF StreamInv

LEMMA GetNextStream ==
  ASSUME StreamInv, GetNext
  PROVE  StreamInv'
<1> USE DEF StreamInv
<1> DEFINE fresh == buf = << >>
           cut == IF fresh THEN world[numit + 1] ELSE buf
           n == Cardinality(DOMAIN box)
           r == [traj |-> sid', mid |-> Head(cut), hasPrev |-> ~fresh, hasNext |-> buf' # << >>]
<1>1. /\ pc = "stream" /\ HasNext
      /\ sid' = IF fresh THEN numit ELSE sid
      /\ numit' = IF fresh THEN numit + 1 ELSE numit
      /\ buf' = Tail(cut)
      /\ box' = Put(box, n, r)
      /\ UNCHANGED <<world, bulkloadt, pc>>
  BY DEF GetNext
<1>2. /\ n \in Nat /\ box \in [0 .. n - 1 -> BoxRecords] /\ DOMAIN box = 0 .. n - 1
      /\ IsFiniteSet(DOMAIN box)
  BY BoxCount
<1>3. Len(world) \in Nat \ {0} /\ numit \in 0 .. Len(world) /\ LastId = Len(world) - 1
  BY WorldFacts DEF StreamKinds, LastId
<1>4. sid \in Nat /\ (numit = 0 => sid = 0) /\ (numit > 0 => sid = numit - 1)
  BY <1>3 DEF StreamKinds
<1>5. fresh => numit < Len(world)
  BY <1>1, <1>3, <1>4 DEF HasNext
<1>6. ~fresh => numit > 0
  BY <1>3 DEF Numbered
<1>7. cut \in Seq(Int) /\ cut # << >>
  <2>1. CASE fresh
    BY <1>3, <1>5, <2>1, WorldFacts
  <2>2. CASE ~fresh
    BY <2>2 DEF StreamKinds
  <2> QED BY <2>1, <2>2
<1>8. /\ buf' \in Seq(Int) /\ Head(cut) \in Int
      /\ Len(cut) \in Nat /\ Len(buf') = Len(cut) - 1
  BY <1>1, <1>7, HeadTailProperties, LenProperties
<1> HIDE DEF cut
<1>9. /\ numit' \in 1 .. Len(world) /\ numit' \in Nat \ {0} /\ numit \in Nat
      /\ sid' = numit' - 1 /\ sid' \in Nat
      /\ fresh => numit' = numit + 1
      /\ ~fresh => sid' = sid /\ numit' = numit
  <2>1. numit \in Nat /\ numit <= Len(world) /\ Len(world) \in Nat
    BY <1>3
  <2>2. CASE fresh
    BY <1>1, <1>5, <2>1, <2>2
  <2>3. CASE ~fresh
    BY <1>1, <1>4, <1>6, <2>1, <2>3
  <2> QED BY <2>1, <2>2, <2>3
<1> HIDE DEF fresh
<1>a. /\ sid \in Nat /\ sid' \in Nat /\ sid' < numit'
      /\ sid <= sid' /\ sid' <= sid + 1
      /\ numit > 0 => (sid' = sid <=> ~fresh)
      /\ numit' = numit \/ numit' = numit + 1
  <2>0. /\ sid \in Nat /\ numit \in Nat /\ numit' \in Nat /\ sid' = numit' - 1
        /\ numit = 0 => sid = 0
        /\ numit > 0 => sid = numit - 1
    BY <1>4, <1>9
  <2>1. CASE fresh
    <3>1. numit' = numit + 1
      BY <1>9, <2>1
    <3>2. numit > 0 => sid' # sid
      BY <2>0, <3>1
    <3>3. sid \in Nat /\ sid' \in Nat /\ sid' < numit' /\ sid <= sid' /\ sid' <= sid + 1
      BY <2>0, <3>1
    <3> QED BY <2>1, <3>1, <3>2, <3>3
  <2>2. CASE ~fresh
    <3>1. sid' = sid /\ numit' = numit /\ numit > 0
      BY <1>6, <1>9, <2>2
    <3>2. sid \in Nat /\ sid' \in Nat /\ sid' < numit' /\ sid <= sid' /\ sid' <= sid + 1
      BY <2>0, <3>1
    <3> QED BY <2>2, <3>1, <3>2
  <2> QED BY <2>1, <2>2
<1>10. r \in BoxRecords
  BY <1>8, <1>9 DEF BoxRecords
<1>11. r.traj = sid' /\ (r.hasPrev <=> ~fresh) /\ (r.hasNext <=> buf' # << >>)
  OBVIOUS
<1> HIDE DEF r, n
<1>12. n \notin DOMAIN box
  BY <1>2
<1>13. /\ DOMAIN box' = DOMAIN box \cup {n} /\ DOMAIN box' = 0 .. n
       /\ box'[n] = r
       /\ \A b \in DOMAIN box : box'[b] = box[b] /\ box[b] \in BoxRecords
       /\ box' \in [0 .. n -> BoxRecords]
  <2>1. box' = Put(box, n, r)
    BY <1>1
  <2>2. /\ DOMAIN box' = DOMAIN box \cup {n}
        /\ box'[n] = r
        /\ \A b \in DOMAIN box : box'[b] = box[b]
    BY <1>12, <2>1 DEF Put
  <2>3. 0 .. n = (0 .. n - 1) \cup {n}
    BY <1>2
  <2>4. box' = [b \in DOMAIN box \cup {n} |-> IF b = n THEN r ELSE box[b]]
    BY <2>1 DEF Put
  <2> QED BY <1>2, <1>10, <2>2, <2>3, <2>4
<1>14. StreamKinds'
  <2>1. n + 1 \in Nat /\ 0 .. (n + 1) - 1 = 0 .. n
    BY <1>2
  <2>2. \E m \in Nat : box' \in [0 .. m - 1 -> BoxRecords]
    BY <1>13, <2>1
  <2>3. world' \in Worlds /\ bulkloadt' \in BOOLEAN /\ Len(world') = Len(world)
    BY <1>1 DEF StreamKinds
  <2>4. sid' = IF numit' = 0 THEN 0 ELSE numit' - 1
    BY <1>9
  <2>5. numit' \in 0 .. Len(world')
    BY <1>3, <1>9, <2>3
  <2> QED BY <1>8, <2>2, <2>3, <2>4, <2>5 DEF StreamKinds
<1>15. \A b \in DOMAIN box : box[b].traj \in Nat /\ box[b].traj < numit
  BY <1>13 DEF Numbered, BoxRecords
<1>16. n > 0 => /\ n - 1 \in DOMAIN box /\ numit > 0
                /\ box[n - 1].traj = sid /\ (box[n - 1].hasNext <=> ~fresh)
  <2> SUFFICES ASSUME n > 0
               PROVE  /\ n - 1 \in DOMAIN box /\ numit > 0
                      /\ box[n - 1].traj = sid /\ (box[n - 1].hasNext <=> ~fresh)
    OBVIOUS
  <2>1. n - 1 \in DOMAIN box /\ (n - 1) + 1 \notin DOMAIN box
    BY <1>2
  <2>2. numit > 0
    <3>1. numit # 0
      BY <2>1 DEF Numbered
    <3> QED BY <1>9, <3>1
  <2> QED BY <2>1, <2>2 DEF Numbered, fresh
<1>17. ~fresh => n > 0
  BY <1>2, <1>6 DEF Numbered
<1>18. Numbered'
  <2>1. numit' > 0 /\ DOMAIN box' # {}
    BY <1>9, <1>13
  <2>2. ASSUME NEW b \in DOMAIN box', b + 1 \notin DOMAIN box'
        PROVE  box'[b].traj = sid' /\ (box'[b].hasNext <=> buf' # << >>)
    <3>1. b = n
      BY <1>2, <1>13, <2>2
    <3> QED BY <1>11, <1>13, <3>1
  <2>3. ASSUME NEW b \in DOMAIN box'
        PROVE  /\ box'[b].traj < numit'
               /\ b - 1 \in DOMAIN box' =>
                    box'[b].traj \in box'[b - 1].traj .. box'[b - 1].traj + 1
    <3>1. CASE b = n
      <4>1. box'[b].traj = sid'
        BY <1>11, <1>13, <3>1
      <4>2. b - 1 \in DOMAIN box' => n > 0 /\ box'[b - 1].traj = sid
        BY <1>2, <1>13, <1>16, <3>1
      <4>3. box'[b].traj < numit'
        BY <1>a, <4>1
      <4>4. b - 1 \in DOMAIN box' =>
              box'[b].traj \in box'[b - 1].traj .. box'[b - 1].traj + 1
        BY <1>a, <4>1, <4>2
      <4> QED BY <4>3, <4>4
    <3>2. CASE b # n
      <4>1. b \in DOMAIN box /\ (b - 1 \in DOMAIN box' => b - 1 \in DOMAIN box)
        BY <1>2, <1>13, <3>2
      <4>2. numit <= numit' /\ numit \in Nat /\ numit' \in Nat
        BY <1>1, <1>3, <1>9
      <4>3. box'[b].traj < numit'
        BY <1>13, <1>15, <4>1, <4>2
      <4>4. b - 1 \in DOMAIN box =>
              box[b].traj \in box[b - 1].traj .. box[b - 1].traj + 1
        BY <4>1 DEF Numbered
      <4> QED BY <1>13, <4>1, <4>3, <4>4
    <3> QED BY <3>1, <3>2
  <2> QED BY <1>9, <2>1, <2>2, <2>3 DEF Numbered
<1>19. Flagged'
  <2> SUFFICES ASSUME NEW b \in DOMAIN box'
               PROVE  /\ box'[b].hasPrev <=> SameTraj(b, b - 1)'
                      /\ b + 1 \in DOMAIN box' => (box'[b].hasNext <=> SameTraj(b, b + 1)')
    BY DEF Flagged
  <2>1. CASE b = n
    <3>1. b + 1 \notin DOMAIN box' /\ (b - 1 \in DOMAIN box' <=> n > 0) /\ b - 1 # n
      BY <1>2, <1>13, <2>1
    <3>2. CASE fresh
      <4>1. n > 0 => box'[b - 1].traj # box'[b].traj
        BY <1>a, <1>11, <1>13, <1>16, <2>1, <3>2
      <4>2. ~SameTraj(b, b - 1)'
        BY <3>1, <4>1 DEF SameTraj
      <4> QED BY <1>11, <1>13, <2>1, <3>1, <3>2, <4>2
    <3>3. CASE ~fresh
      <4>1. box'[b - 1].traj = box'[b].traj
        BY <1>9, <1>11, <1>13, <1>16, <1>17, <2>1, <3>3
      <4>2. SameTraj(b, b - 1)'
        BY <1>17, <3>1, <3>3, <4>1 DEF SameTraj
      <4> QED BY <1>11, <1>13, <2>1, <3>1, <3>3, <4>2
    <3> QED BY <3>2, <3>3
  <2>2. CASE b # n
    <3>1. b \in DOMAIN box /\ box'[b] = box[b]
      BY <1>13, <2>2
    <3>2. (b - 1 \in DOMAIN box' <=> b - 1 \in DOMAIN box) /\ b - 1 # n
      BY <1>2, <1>13, <3>1
    <3>3. SameTraj(b, b - 1)' <=> SameTraj(b, b - 1)
      BY <1>13, <3>1, <3>2 DEF SameTraj
    <3>4. CASE b + 1 \in DOMAIN box
      <4>1. SameTraj(b, b + 1)' <=> SameTraj(b, b + 1)
        BY <1>13, <3>1, <3>4 DEF SameTraj
      <4> QED BY <3>1, <3>3, <3>4, <4>1 DEF Flagged
    <3>5. CASE b + 1 \notin DOMAIN box
      <4>1. b = n - 1 /\ b + 1 = n /\ n > 0
        BY <1>2, <3>1, <3>5
      <4>2. box'[b].hasNext <=> ~fresh
        BY <1>16, <3>1, <4>1
      <4>3. SameTraj(b, b + 1)' <=> sid' = sid
        BY <1>11, <1>13, <1>16, <3>1, <4>1 DEF SameTraj
      <4>4. sid' = sid <=> ~fresh
        BY <1>a, <1>16, <4>1
      <4> QED BY <3>1, <3>3, <4>2, <4>3, <4>4 DEF Flagged
    <3> QED BY <3>4, <3>5
  <2> QED BY <2>1, <2>2
<1>20. Counted'
  <2> SUFFICES ASSUME NEW t \in 0 .. LastId
               PROVE  Cardinality(BoxesOf(t)') + StillToCome(t)'
                        = IF t < numit' THEN Len(world[t + 1]) ELSE 0
    BY <1>1 DEF Counted, LastId
  <2>0. t \in Nat /\ t + 1 \in 1 .. Len(world)
    BY <1>3
  <2>1. Cardinality(BoxesOf(t)) + StillToCome(t) = IF t < numit THEN Len(world[t + 1]) ELSE 0
    BY DEF Counted
  <2>2. IsFiniteSet(BoxesOf(t)) /\ n \notin BoxesOf(t)
    BY <1>2, <1>12, FS_Subset DEF BoxesOf
  <2>3. Cardinality(BoxesOf(t)) \in Nat
    BY <2>2, FS_CardinalityType
  <2>4. CASE t # sid'
    <3>1. BoxesOf(t)' = BoxesOf(t)
      BY <1>11, <1>13, <2>4 DEF BoxesOf
    <3>2. StillToCome(t)' = 0 /\ StillToCome(t) = 0
      <4>1. fresh => Len(buf) = 0
        BY DEF fresh
      <4>2. StillToCome(t)' = 0
        BY <2>4 DEF StillToCome
      <4>3. CASE fresh
        <5>1. Len(buf) = 0
          BY <4>1, <4>3
        <5>2. StillToCome(t) = 0
          BY <5>1 DEF StillToCome
        <5> QED BY <4>2, <5>2
      <4>4. CASE ~fresh
        BY <1>9, <2>4, <4>4 DEF StillToCome
      <4> QED BY <4>2, <4>3, <4>4
    <3>3. t < numit' <=> t < numit
      <4>0. sid' = numit' - 1
        BY <1>9
      <4>1. t # numit' - 1
        BY <2>4, <4>0, Zenon
      <4>4. t \in Int /\ numit' \in Int /\ numit \in Int
        BY <1>9, <2>0
      <4>2. CASE fresh
        <5>1. numit' = numit + 1
          BY <1>9, <4>2
        <5> QED BY <4>1, <4>4, <5>1
      <4>3. CASE ~fresh
        <5>1. numit' = numit
          BY <1>9, <4>3
        <5> QED BY <5>1
      <4> QED BY <4>2, <4>3
    <3> QED BY <2>1, <2>3, <3>1, <3>2, <3>3
  <2>5. CASE t = sid'
    <3>1. BoxesOf(t)' = BoxesOf(t) \cup {n}
      BY <1>11, <1>12, <1>13, <2>5 DEF BoxesOf
    <3>2. Cardinality(BoxesOf(t)') = Cardinality(BoxesOf(t)) + 1
      BY <2>2, <3>1, FS_AddElement
    <3>3. StillToCome(t)' = Len(cut) - 1
      BY <1>8, <1>9, <2>5 DEF StillToCome
    <3>0. t < numit' /\ Len(cut) \in Nat
      BY <1>8, <1>a, <2>5
    <3>4. CASE fresh
      <4>1. BoxesOf(t) = {}
        BY <1>3, <1>9, <1>15, <2>5, <3>4 DEF BoxesOf
      <4>2. Cardinality(BoxesOf(t)) = 0
        BY <4>1, FS_EmptySet
      <4>3. cut = world[t + 1]
        BY <1>9, <2>5, <3>4 DEF cut
      <4> QED BY <3>0, <3>2, <3>3, <4>2, <4>3
    <3>5. CASE ~fresh
      <4>1. StillToCome(t) = Len(cut) /\ t < numit
        BY <1>3, <1>6, <1>9, <2>5, <3>5 DEF StillToCome, cut
      <4> QED BY <2>1, <2>3, <3>0, <3>2, <3>3, <4>1
    <3> QED BY <3>4, <3>5
  <2> QED BY <2>4, <2>5
<1>21. Streamed'
  BY <1>1 DEF Streamed, Building
<1> QED BY <1>14, <1>18, <1>19, <1>20, <1>21

-----------------------------------------------------------------------------
(* Where the records are. *)
LEMMA InitPlace == Init => PlaceInv /\ Tiled /\ Full
<1> SUFFICES ASSUME Init
             PROVE  PlaceInv /\ Tiled /\ Full
  OBVIOUS
<1>1. DOMAIN pages = {} /\ DOMAIN box = {}
  BY DEF Init
<1>2. /\ pc = "stream" /\ level = 0 /\ es = {} /\ slab = {} /\ es2 = {}
      /\ pR = None /\ rootID = None /\ bMore = FALSE
  BY DEF Init
<1>3. Kinds
  BY <1>1, <1>2 DEF Kinds, Building
<1>4. NodeKinds
  <2>1. DOMAIN pages = FirstPage .. FirstPage + 0 - 1
    BY <1>1, PageAssumption
  <2> QED BY <1>1, <1>2, <2>1 DEF NodeKinds
<1>5. Waiting
  BY <1>2 DEF Waiting, MoreToCome, Tiling
<1>6. Placed /\ Nested /\ LinksSet
  BY <1>1, <1>2 DEF Placed, Nested, LinksSet, Leaves, Building
<1>7. Tiled /\ Full
  BY <1>1, <1>2 DEF Tiled, Full, Tiling, Short
<1> QED BY <1>3, <1>4, <1>5, <1>6, <1>7 DEF PlaceInv

(* A step that writes nothing and only moves records. *)
LEMMA MovesStay ==
  ASSUME PlaceInv,
         UNCHANGED <<bulkloadt, box, level, pages, part2node, es2, rootID>>,
         Building => Building', Building' => Building,
         pc # "done", pc' # "done",
         level = 0 => Pool' = Pool,
         level # 0 => es' \cup slab' = es \cup slab
  PROVE  NodeKinds' /\ Placed' /\ Nested' /\ LinksSet'
<1> USE DEF PlaceInv
<1>1. Top' = Top /\ Top = level /\ level \in Nat
  BY DEF Top, Kinds
<1>2. Leaves' = Leaves /\ \A p : Parents(p)' = Parents(p)
  BY DEF Leaves, Parents
<1>3. \A b : LeavesOf(b)' = LeavesOf(b)
  BY <1>2 DEF LeavesOf
<1>4. NodeKinds'
  <2>1. \E k \in Nat : DOMAIN pages' = FirstPage .. FirstPage + k - 1
    BY DEF NodeKinds
  <2> QED BY <1>1, <2>1 DEF NodeKinds, Capacity
<1>5. Placed'
  BY <1>2, <1>3 DEF Placed, Building
<1>6. Nested'
  <2> SUFFICES ASSUME NEW p \in DOMAIN pages', pages'[p].level < Top'
               PROVE  IF p \in es' \cup slab' THEN Parents(p)' = {}
                      ELSE \E q \in DOMAIN pages' : Parents(p)' = {q}
    BY DEF Nested
  <2>1. pages[p].level \in 0 .. level /\ pages[p].level < level
    BY <1>1 DEF NodeKinds
  <2>2. level # 0
    BY <1>1, <2>1
  <2>3. p \in es' \cup slab' <=> p \in es \cup slab
    BY <2>2
  <2>4. IF p \in es \cup slab THEN Parents(p) = {}
        ELSE \E q \in DOMAIN pages : Parents(p) = {q}
    BY <1>1, <2>1 DEF Nested
  <2> QED BY <1>2, <2>3, <2>4
<1>7. LinksSet'
  BY <1>2 DEF LinksSet, LinkOf, AsId
<1> QED BY <1>4, <1>5, <1>6, <1>7

LEMMA FullStays ==
  ASSUME Full, UNCHANGED <<bulkloadt, level, pages>>,
         pc' \in Tiling \cup {"level"} /\ ~InSlabs => pc \in Tiling \cup {"level"}
  PROVE  Full'
<1>1. \A l : Short(l)' = Short(l)
  BY DEF Short, Capacity
<1> QED BY <1>1 DEF Full, InSlabs

-----------------------------------------------------------------------------
(* Before the sorter of level 0 is full there is no node. *)
LEMMA EmptyPlace ==
  ASSUME PlaceInv, Full, pc = "stream", EmptyStream \/ GetNext \/ EndOfStream
  PROVE  PlaceInv' /\ Tiled' /\ Full'
<1> USE DEF PlaceInv
<1>1. /\ DOMAIN pages = {} /\ level = 0 /\ es = {} /\ slab = {} /\ pR = None
      /\ es2 = {} /\ rootID = None
  BY DEF Kinds, Building, Waiting, NodeKinds, Tiling
<1>2. /\ UNCHANGED <<bulkloadt, level, pages, part2node, es2, rootID, slab, pR, bMore>>
      /\ pc' \in {"stream", "thrown", "level"}
      /\ pc' # "level" => es' = es
      /\ pc' = "level" => es' = DOMAIN box /\ box' = box
  BY DEF EmptyStream, GetNext, EndOfStream, slabs, tree, stream
<1>3. DOMAIN pages' = {} /\ level' = 0 /\ slab' = {} /\ pR' = None /\ es2' = {} /\ rootID' = None
  BY <1>1, <1>2
<1>4. Kinds'
  BY <1>1, <1>2, <1>3 DEF Kinds, Building
<1>5. NodeKinds'
  <2>1. \E k \in Nat : DOMAIN pages' = FirstPage .. FirstPage + k - 1
    BY <1>2 DEF NodeKinds
  <2>2. es2' = {p \in DOMAIN pages' : pages'[p].level = Top'}
    BY <1>3
  <2> QED BY <1>2, <1>3, <2>1, <2>2 DEF NodeKinds
<1>6. Waiting'
  <2>1. es' \subseteq Records' /\ slab' \subseteq Records'
    BY <1>1, <1>2, <1>3 DEF Records
  <2> QED BY <1>1, <1>2, <1>3, <2>1 DEF Waiting, MoreToCome, Tiling
<1>7. Placed'
  <2>1. Leaves' = {}
    BY <1>3 DEF Leaves
  <2>2. Building' => \A b \in DOMAIN box' : b \in Pool'
    BY <1>2 DEF Building, Pool
  <2> QED BY <1>3, <2>1, <2>2 DEF Placed
<1>8. Nested' /\ LinksSet'
  BY <1>3 DEF Nested, LinksSet, Leaves
<1>9. Tiled' /\ Full'
  BY <1>2, <1>3 DEF Tiled, Full, Tiling, Short
<1> QED BY <1>4, <1>5, <1>6, <1>7, <1>8, <1>9

-----------------------------------------------------------------------------
(* Cutting a level into slices, strips and slabs. *)
LEMMA Sizes ==
  ASSUME StreamKinds, PlaceInv
  PROVE  /\ IsFiniteSet(es) /\ Cardinality(es) \in Nat /\ (Cardinality(es) = 0 <=> es = {})
         /\ IsFiniteSet(slab) /\ Left \in Nat /\ (Left = 0 <=> slab = {})
         /\ Cap \in Nat \ {0}
         /\ level \in Nat
<1>1. IsFiniteSet(DOMAIN box) /\ IsFiniteSet(DOMAIN pages)
  BY BoxCount, PageCount DEF PlaceInv
<1>2. es \subseteq DOMAIN box \/ es \subseteq DOMAIN pages
  BY DEF PlaceInv, Waiting, Records
<1>3. slab \subseteq DOMAIN box \/ slab \subseteq DOMAIN pages
  BY DEF PlaceInv, Waiting, Records
<1>4. IsFiniteSet(es) /\ IsFiniteSet(slab)
  BY <1>1, <1>2, <1>3, FS_Subset
<1>5. level \in Nat
  BY DEF PlaceInv, Kinds
<1>6. Cap \in Nat \ {0}
  BY <1>5, CapacityPositive DEF Cap
<1> QED BY <1>4, <1>5, <1>6, FS_CardinalityType, FS_EmptySet DEF Left

LEMMA StrideIsGood ==
  ASSUME NEW n \in Nat \ {0}, NEW S \in Nat \ {0}, NEW b \in Nat \ {0}
  PROVE  Stride(n, b, S) \in Nat \ {0} /\ Multiple(Stride(n, b, S), b)
<1>1. CeilDiv(CeilDiv(n, b), S) \in Nat \ {0}
  BY CeilPos
<1> QED BY <1>1, MultipleOf DEF Stride

LEMMA CreateSliceTiles ==
  ASSUME StreamKinds, PlaceInv,
         NEW n, n \in Nat \ {0}, n <= Left, n = Left \/ (Multiple(n, Cap) /\ GoodStride(wide)),
         CreateSlice(n), UNCHANGED <<slab, level, wide>>
  PROVE  Tiled' /\ pc' \in {"strip", "pack"}
<1>1. /\ Left' = Left /\ Left \in Nat /\ slab' # {}
      /\ Cap' = Cap /\ Cap \in Nat \ {0}
  BY Sizes DEF Left, Cap, Capacity
<1>2. /\ slice' = n
      /\ \E S \in Roots(CeilDiv(n, Cap)) :
           IF Packed(n, Cap, S)
           THEN strip' = n /\ pc' = "pack"
           ELSE long' = Stride(n, Cap, S) /\ pc' = "strip"
  BY DEF CreateSlice, Cap
<1>3. PICK S \in Roots(CeilDiv(n, Cap)) :
        IF Packed(n, Cap, S)
        THEN strip' = n /\ pc' = "pack"
        ELSE long' = Stride(n, Cap, S) /\ pc' = "strip"
  BY <1>2
<1>4. S \in Nat \ {0}
  BY <1>1, CeilPos DEF Roots
<1>5. GoodStride(wide)' <=> GoodStride(wide)
  BY <1>1 DEF GoodStride
<1>6. SliceFits'
  <2>1. slice' \in 1 .. Left'
    BY <1>1, <1>2
  <2> QED BY <1>1, <1>2, <1>5, <2>1 DEF SliceFits
<1>7. CASE Packed(n, Cap, S)
  <2>1. strip' = slice' /\ pc' = "pack"
    BY <1>2, <1>3, <1>7
  <2>2. strip' \in 1 .. slice'
    BY <1>2, <2>1
  <2>3. StripFits'
    BY <2>1, <2>2 DEF StripFits
  <2> QED BY <1>1, <1>6, <2>1, <2>3 DEF Tiled
<1>8. CASE ~Packed(n, Cap, S)
  <2>1. long' = Stride(n, Cap, S) /\ pc' = "strip"
    BY <1>3, <1>8
  <2>2. GoodStride(long')
    BY <1>1, <1>4, <2>1, StrideIsGood DEF GoodStride
  <2>3. GoodStride(long)'
    BY <1>1, <2>2 DEF GoodStride
  <2> QED BY <1>1, <1>6, <2>1, <2>3 DEF Tiled
<1> QED BY <1>7, <1>8

LEMMA CreateLevelKeeps ==
  ASSUME StreamInv, PlaceInv, Full, CreateLevel
  PROVE  PlaceInv' /\ Tiled' /\ Full'
<1> DEFINE n == Cardinality(es)
<1>1. /\ pc = "level" /\ ~InSlabs
      /\ slab' = es /\ es' = {}
      /\ UNCHANGED <<bulkloadt, box, pR, bMore, level, pages, part2node, es2, rootID>>
  BY DEF CreateLevel, InSlabs, stream, slabs, tree
<1>2. PICK S \in 1 .. CeilDiv(n, Cap) :
        IF Packed(n, Cap, S)
        THEN slice' = n /\ strip' = n /\ pc' = "pack"
        ELSE wide' = Stride(n, Cap, S) /\ pc' = "slice"
  BY DEF CreateLevel, Cap
<1>3. n \in Nat /\ Cap \in Nat \ {0}
  BY Sizes DEF StreamInv
<1>4. n # 0 /\ es # {} /\ S \in Nat \ {0}
  <2>1. CASE n = 0
    BY <1>3, <2>1, CeilZero
  <2>2. CASE n # 0
    <3>1. CeilDiv(n, Cap) \in Nat
      BY <1>3, <2>2, CeilPos
    <3> QED BY <1>3, <2>2, <3>1, FS_EmptySet
  <2> QED BY <2>1, <2>2
<1>5. pc' \in {"pack", "slice"}
  BY <1>2
<1>6. slab = {} /\ pR = None /\ es \subseteq Records
  BY <1>1 DEF PlaceInv, Waiting, Tiling
<1>7. NodeKinds' /\ Placed' /\ Nested' /\ LinksSet'
  <2>1. Pool' = Pool /\ es' \cup slab' = es \cup slab
    BY <1>1, <1>6 DEF Pool
  <2>2. Building /\ Building' /\ pc # "done" /\ pc' # "done"
    BY <1>1, <1>5 DEF Building
  <2> QED BY <1>1, <2>1, <2>2, MovesStay
<1>8. Kinds'
  BY <1>1, <1>5 DEF PlaceInv, Kinds, Building
<1>9. Waiting'
  <2>1. Records' = Records /\ ~MoreToCome' /\ ~MoreToCome
    BY <1>1 DEF Records, MoreToCome, InSlabs
  <2> QED BY <1>1, <1>5, <1>6, <2>1 DEF Waiting, Tiling
<1>10. Tiled'
  <2>1. Left' = n /\ Cap' = Cap /\ slab' # {}
    BY <1>1, <1>4 DEF Left, Cap, Capacity
  <2>2. CASE Packed(n, Cap, S)
    <3>1. slice' = n /\ strip' = n /\ pc' = "pack" /\ n \in 1 .. n
      BY <1>2, <1>3, <1>4, <2>2
    <3> QED BY <2>1, <3>1 DEF Tiled, SliceFits, StripFits
  <2>3. CASE ~Packed(n, Cap, S)
    <3>1. wide' = Stride(n, Cap, S) /\ pc' = "slice"
      BY <1>2, <2>3
    <3>2. GoodStride(wide')
      BY <1>3, <1>4, <3>1, StrideIsGood DEF GoodStride
    <3>3. GoodStride(wide)'
      BY <2>1, <3>2 DEF GoodStride
    <3> QED BY <2>1, <3>1, <3>3 DEF Tiled
  <2> QED BY <2>2, <2>3
<1>11. Full'
  BY <1>1, FullStays
<1> QED BY <1>7, <1>8, <1>9, <1>10, <1>11 DEF PlaceInv

(* A step of createLevelT moves a box of level 0. *)
LEMMA BoxInSorter ==
  ASSUME StreamKinds, PlaceInv, level = 0
  PROVE  /\ es \subseteq DOMAIN box /\ slab \subseteq DOMAIN box
         /\ \A b \in DOMAIN box : b # None
<1>1. PICK n \in Nat : box \in [0 .. n - 1 -> BoxRecords]
  BY DEF StreamKinds
<1>2. \A b \in DOMAIN box : b \in Nat
  BY <1>1
<1> QED BY <1>2 DEF PlaceInv, Waiting, Records, None

LEMMA CreateLevelTKeeps ==
  ASSUME StreamInv, PlaceInv, Full, CreateLevelT
  PROVE  PlaceInv' /\ Tiled' /\ Full'
<1>1. PICK r \in es : pR' = r /\ es' = es \ {r}
  BY DEF CreateLevelT
<1>2. /\ pc = "level" /\ InSlabs /\ level = 0
      /\ bMore' = TRUE /\ pc' = "slab"
      /\ UNCHANGED <<bulkloadt, box, slab, level, pages, part2node, es2, rootID>>
  BY DEF CreateLevelT, InSlabs, stream, tree
<1>3. /\ slab = {} /\ pR = None /\ es \subseteq Records
      /\ r \in DOMAIN box /\ r # None /\ \A b \in es : b \in DOMAIN box
  BY <1>2, BoxInSorter DEF PlaceInv, Waiting, Tiling, StreamInv
<1>4. NodeKinds' /\ Placed' /\ Nested' /\ LinksSet'
  <2>1. None \notin DOMAIN box
    BY <1>2, BoxInSorter DEF StreamInv
  <2>2. Pool' = Pool
    BY <1>1, <1>2, <1>3, <2>1 DEF Pool
  <2>3. Building /\ Building' /\ pc # "done" /\ pc' # "done"
    BY <1>2 DEF Building
  <2> QED BY <1>2, <2>2, <2>3, MovesStay
<1>5. Kinds'
  BY <1>2 DEF PlaceInv, Kinds, Building, InSlabs
<1>6. Waiting'
  <2>1. Records' = Records
    BY <1>2 DEF Records
  <2>2. MoreToCome'
    BY <1>2 DEF MoreToCome, InSlabs
  <2> QED BY <1>1, <1>2, <1>3, <2>1, <2>2 DEF Waiting, Tiling
<1>7. Tiled'
  BY <1>2 DEF Tiled, Tiling
<1>8. Full'
  BY <1>2, FullStays DEF Tiling
<1> QED BY <1>4, <1>5, <1>6, <1>7, <1>8 DEF PlaceInv

(* The steps that only cut. *)
LEMMA CutKeepsPlaces ==
  ASSUME PlaceInv, Full,
         UNCHANGED <<bulkloadt, box, es, slab, pR, bMore, level, pages, part2node, es2, rootID>>,
         pc \in Tiling \cup {"slab", "fill"}, pc' \in Tiling \cup {"slab", "fill"},
         pc' \in Tiling => pc \in Tiling \/ (pc = "slab" /\ InSlabs),
         pc' = "fill" => InSlabs /\ bMore,
         pc' = "slab" => InSlabs /\ (bMore \/ es = {})
  PROVE  PlaceInv' /\ Full'
<1>1. NodeKinds' /\ Placed' /\ Nested' /\ LinksSet'
  <2>1. Building /\ Building' /\ pc # "done" /\ pc' # "done" /\ Pool' = Pool
    BY DEF Building, Tiling, Pool
  <2> QED BY <2>1, MovesStay
<1>2. Kinds'
  BY DEF PlaceInv, Kinds, Building, InSlabs, Tiling
<1>3. Waiting'
  <2>1. Records' = Records /\ (MoreToCome' <=> MoreToCome)
    BY DEF Records, MoreToCome, InSlabs
  <2>2. pc' \in Tiling \cup {"slab"} => MoreToCome \/ es = {}
    BY DEF PlaceInv, Waiting, Tiling, MoreToCome
  <2> QED BY <2>1, <2>2 DEF PlaceInv, Waiting, Tiling
<1>4. Full'
  BY FullStays DEF Full, Tiling
<1> QED BY <1>1, <1>2, <1>3, <1>4 DEF PlaceInv

LEMMA LeastFits ==
  ASSUME NEW m \in Nat \ {0}, NEW n \in Nat \ {0}
  PROVE  Least(m, n) \in 1 .. n /\ (Least(m, n) = n \/ Least(m, n) = m)
BY DEF Least

LEMMA CutSliceKeeps ==
  ASSUME StreamInv, PlaceInv, Tiled, Full, CutSlice
  PROVE  PlaceInv' /\ Tiled' /\ Full'
<1> DEFINE n == Least(wide, Left)
<1>1. /\ pc = "slice" /\ CreateSlice(n)
      /\ UNCHANGED <<bulkloadt, box, es, slab, pR, bMore, wide, level,
                     pages, part2node, es2, rootID>>
  BY DEF CutSlice, stream, slabs, tree, Left
<1>2. Left \in Nat \ {0} /\ GoodStride(wide)
  BY <1>1, Sizes DEF Tiled, Tiling, StreamInv
<1>3. n \in 1 .. Left /\ (n = Left \/ n = wide)
  BY <1>2, LeastFits DEF GoodStride
<1>4. n \in Nat \ {0} /\ n <= Left /\ (n = Left \/ (Multiple(n, Cap) /\ GoodStride(wide)))
  BY <1>2, <1>3 DEF GoodStride
<1> HIDE DEF n
<1>5. Tiled' /\ pc' \in {"strip", "pack"}
  BY <1>1, <1>4, CreateSliceTiles DEF StreamInv
<1> QED BY <1>1, <1>5, CutKeepsPlaces DEF Tiling

LEMMA CutStripKeeps ==
  ASSUME StreamInv, PlaceInv, Tiled, Full, CutStrip
  PROVE  PlaceInv' /\ Tiled' /\ Full'
<1>1. /\ pc = "strip" /\ pc' = "pack" /\ strip' = Least(long, slice)
      /\ UNCHANGED <<bulkloadt, box, es, slab, pR, bMore, wide, slice, long, level,
                     pages, part2node, es2, rootID>>
  BY DEF CutStrip, stream, slabs, tree
<1>2. Left \in Nat /\ SliceFits /\ GoodStride(long) /\ slab # {}
  BY <1>1, Sizes DEF Tiled, Tiling, StreamInv
<1>3. slice \in Nat \ {0}
  BY <1>2 DEF SliceFits
<1>4. strip' \in 1 .. slice /\ (strip' = slice \/ strip' = long)
  BY <1>1, <1>2, <1>3, LeastFits DEF GoodStride
<1>5. Cap' = Cap /\ Left' = Left
  BY <1>1 DEF Cap, Capacity, Left
<1>6. GoodStride(wide)' <=> GoodStride(wide)
  BY <1>1, <1>5 DEF GoodStride
<1>7. SliceFits'
  BY <1>1, <1>2, <1>5, <1>6 DEF SliceFits
<1>8. GoodStride(long)' /\ (strip' = slice' \/ Multiple(strip', Cap'))
  BY <1>1, <1>2, <1>4, <1>5 DEF GoodStride
<1>9. StripFits'
  BY <1>1, <1>4, <1>8 DEF StripFits
<1>10. Tiled'
  BY <1>1, <1>2, <1>7, <1>9 DEF Tiled
<1> QED BY <1>1, <1>10, CutKeepsPlaces DEF Tiling

LEMMA SlabStepsKeep ==
  ASSUME StreamInv, PlaceInv, Tiled, Full, Stretch \/ BeyondSlab \/ CloseSlab
  PROVE  PlaceInv' /\ Tiled' /\ Full'
<1>1. UNCHANGED <<bulkloadt, box, es, slab, pR, bMore, wide, level,
                  pages, part2node, es2, rootID>>
  BY DEF Stretch, BeyondSlab, CloseSlab, stream, slabs, tiles, tree
<1>2. pc \in {"slab", "fill"} => InSlabs
  BY DEF PlaceInv, Kinds
<1>3. CASE Stretch
  <2>1. pc = "slab" /\ pc' = "fill" /\ bMore
    BY <1>3 DEF Stretch, SlabOpen
  <2>2. Tiled'
    BY <2>1 DEF Tiled, Tiling
  <2> QED BY <1>1, <1>2, <2>1, <2>2, CutKeepsPlaces DEF Tiling
<1>4. CASE BeyondSlab
  <2>1. pc = "fill" /\ pc' = "slab" /\ bMore
    BY <1>4 DEF BeyondSlab, PlaceInv, Waiting
  <2>2. Tiled'
    BY <2>1 DEF Tiled, Tiling
  <2> QED BY <1>1, <1>2, <2>1, <2>2, CutKeepsPlaces DEF Tiling
<1>5. CASE CloseSlab
  <2>1. pc = "slab" /\ slab # {} /\ CreateSlice(Left)
    BY <1>5 DEF CloseSlab, Left
  <2>2. Left \in Nat \ {0} /\ Left <= Left
    BY <2>1, Sizes DEF StreamInv
  <2>3. Tiled' /\ pc' \in {"strip", "pack"}
    BY <1>1, <2>1, <2>2, CreateSliceTiles DEF StreamInv
  <2> QED BY <1>1, <1>2, <2>1, <2>3, CutKeepsPlaces DEF Tiling
<1> QED BY <1>3, <1>4, <1>5

LEMMA FillKeeps ==
  ASSUME StreamInv, PlaceInv, Full, Fill
  PROVE  PlaceInv' /\ Tiled' /\ Full'
<1>1. /\ pc = "fill" /\ slab' = slab \cup {pR} /\ pc' \in {"slab", "fill"}
      /\ UNCHANGED <<bulkloadt, box, level, pages, part2node, es2, rootID>>
  BY DEF Fill, stream, tree
<1>2. InSlabs /\ level = 0 /\ bMore /\ MoreToCome
  BY <1>1 DEF PlaceInv, Kinds, Waiting, InSlabs, MoreToCome
<1>3. /\ pR # None /\ pR \in DOMAIN box /\ pR \notin es /\ pR \notin slab
      /\ es \cap slab = {} /\ Records = DOMAIN box
  BY <1>1, <1>2 DEF PlaceInv, Waiting, Records
<1>4. /\ es \subseteq DOMAIN box /\ slab \subseteq DOMAIN box
      /\ \A b \in DOMAIN box : b # None
  BY <1>2, BoxInSorter DEF StreamInv
<1>5. \/ es = {} /\ es' = es /\ bMore' = FALSE /\ pc' = "slab" /\ pR' = None
      \/ \E r \in es : pR' = r /\ es' = es \ {r} /\ bMore' = bMore
  BY DEF Fill
<1>6. Pool' = Pool
  <2>1. CASE es = {} /\ es' = es /\ pR' = None
    BY <1>1, <1>3, <1>4, <2>1 DEF Pool
  <2>2. ASSUME NEW r \in es, pR' = r, es' = es \ {r}
        PROVE  Pool' = Pool
    BY <1>1, <1>3, <1>4, <2>2 DEF Pool
  <2> QED BY <1>5, <2>1, <2>2
<1>7. NodeKinds' /\ Placed' /\ Nested' /\ LinksSet'
  <2>1. Building /\ Building' /\ pc # "done" /\ pc' # "done"
    BY <1>1 DEF Building
  <2> QED BY <1>1, <1>2, <1>6, <2>1, MovesStay
<1>8. Kinds'
  BY <1>1, <1>2 DEF PlaceInv, Kinds, Building, InSlabs
<1>9. Waiting'
  <2>1. Records' = DOMAIN box' /\ box' = box /\ InSlabs'
    BY <1>1, <1>2 DEF Records, InSlabs
  <2>2. slab' \subseteq DOMAIN box
    BY <1>1, <1>3, <1>4
  <2>3. CASE es = {} /\ es' = es /\ bMore' = FALSE /\ pc' = "slab" /\ pR' = None
    BY <2>1, <2>2, <2>3 DEF Waiting, MoreToCome, Tiling
  <2>4. ASSUME NEW r \in es, pR' = r, es' = es \ {r}, bMore' = bMore
        PROVE  Waiting'
    <3>1. r \in DOMAIN box /\ r # None /\ r \notin es' /\ r \notin slab' /\ es' \cap slab' = {}
      BY <1>1, <1>3, <1>4, <2>4
    <3>2. es' \subseteq DOMAIN box /\ MoreToCome'
      BY <1>2, <1>4, <2>1, <2>4 DEF MoreToCome
    <3>3. bMore'
      BY <1>2, <2>4
    <3> QED BY <1>1, <2>1, <2>2, <2>4, <3>1, <3>2, <3>3 DEF Waiting, Tiling
  <2> QED BY <1>5, <2>3, <2>4
<1>10. Tiled' /\ Full'
  BY <1>1, FullStays DEF Tiled, Tiling
<1> QED BY <1>7, <1>8, <1>9, <1>10 DEF PlaceInv

-----------------------------------------------------------------------------
(* The node x is packed from S. *)
Entry(S, p) == IF level = 1 /\ p \in S THEN Linked(pages[p]) ELSE pages[p]
Packs(S, x) ==
  /\ pc = "pack"
  /\ S \subseteq slab /\ Cardinality(S) = Size
  /\ x = NewPage /\ x \notin DOMAIN pages /\ x # None
  /\ DOMAIN pages' = DOMAIN pages \cup {x}
  /\ pages'[x] = NewNode(S)
  /\ \A p \in DOMAIN pages : pages'[p] = Entry(S, p)
  /\ slab' = slab \ S
  /\ Note(S)
  /\ es2' = es2 \cup {x} /\ rootID' = x
  /\ strip' = strip - Size /\ slice' = slice - Size
  /\ pc' = IF strip' > 0 THEN "pack"
           ELSE IF slice' > 0 THEN "strip"
           ELSE IF slab' # {} THEN "slice"
           ELSE IF MoreToCome THEN "slab" ELSE "next"
  /\ UNCHANGED <<bulkloadt, box, es, pR, bMore, wide, long, level>>

LEMMA PackNodePacks ==
  ASSUME PlaceInv, PackNode
  PROVE  \E S, x : Packs(S, x)
<1>1. PICK S \in kSubset(Size, slab) :
        /\ slab' = slab \ S
        /\ Note(S)
        /\ pages' = Put([p \in DOMAIN pages |-> Entry(S, p)], NewPage, NewNode(S))
  BY DEF PackNode, Entry
<1>2. S \subseteq slab /\ Cardinality(S) = Size
  BY <1>1 DEF kSubset
<1>3. NewPage \notin DOMAIN pages /\ NewPage # None
  <2>1. PICK k \in Nat : DOMAIN pages = FirstPage .. FirstPage + k - 1 /\ NewPage = FirstPage + k
    BY PageCount DEF PlaceInv
  <2> QED BY <2>1, PageAssumption DEF None
<1> DEFINE f == [p \in DOMAIN pages |-> Entry(S, p)]
<1>4. DOMAIN f = DOMAIN pages /\ \A p \in DOMAIN pages : f[p] = Entry(S, p)
  OBVIOUS
<1> HIDE DEF f
<1>5. pages' = Put(f, NewPage, NewNode(S))
  BY <1>1 DEF f
<1>6. PICK x : x = NewPage
  OBVIOUS
<1>7. /\ DOMAIN pages' = DOMAIN f \cup {x} /\ pages'[x] = NewNode(S)
      /\ \A y \in DOMAIN f : pages'[y] = f[y]
  <2>1. x \notin DOMAIN f
    BY <1>3, <1>4, <1>6
  <2>2. pages' = [y \in DOMAIN f \cup {x} |-> IF y = x THEN NewNode(S) ELSE f[y]]
    BY <1>5, <1>6 DEF Put
  <2> HIDE DEF NewNode
  <2> QED BY <2>1, <2>2
<1>8. DOMAIN pages' = DOMAIN pages \cup {x}
  BY <1>4, <1>7
<1>9. \A p \in DOMAIN pages : pages'[p] = Entry(S, p)
  BY <1>4, <1>7
<1>10. /\ pc = "pack"
       /\ es2' = es2 \cup {NewPage} /\ rootID' = NewPage
       /\ strip' = strip - Size /\ slice' = slice - Size
       /\ pc' = IF strip' > 0 THEN "pack"
                ELSE IF slice' > 0 THEN "strip"
                ELSE IF slab' # {} THEN "slice"
                ELSE IF MoreToCome THEN "slab" ELSE "next"
       /\ UNCHANGED <<bulkloadt, box, es, pR, bMore, wide, long, level>>
  BY DEF PackNode, stream, slabs, MoreToCome, InSlabs
<1>11. Packs(S, x)
  BY <1>1, <1>2, <1>3, <1>6, <1>7, <1>8, <1>9, <1>10 DEF Packs
<1> QED BY <1>11

(* What becomes of the nodes that are there already. *)
LEMMA OldNodes ==
  ASSUME StreamKinds, PlaceInv, NEW S, NEW x, Packs(S, x)
  PROVE  /\ level \in Nat /\ Top = level /\ Top' = level
         /\ \A p \in DOMAIN pages :
              /\ pages'[p].level = pages[p].level /\ pages[p].level \in 0 .. level
              /\ pages'[p].children = pages[p].children
              /\ pages'[p] = [level |-> pages'[p].level, children |-> pages'[p].children,
                              prev |-> pages'[p].prev, next |-> pages'[p].next]
         /\ pages'[x].level = level /\ pages'[x].children = S
         /\ pages'[x] = [level |-> level, children |-> S,
                               prev |-> pages'[x].prev, next |-> pages'[x].next]
<1>1. level \in Nat /\ Top = level /\ Top' = level
  BY DEF Packs, Top, PlaceInv, Kinds
<1>2. ASSUME NEW p \in DOMAIN pages
      PROVE  /\ pages'[p].level = pages[p].level /\ pages[p].level \in 0 .. level
             /\ pages'[p].children = pages[p].children
             /\ pages'[p] = [level |-> pages'[p].level, children |-> pages'[p].children,
                             prev |-> pages'[p].prev, next |-> pages'[p].next]
  <2>1. /\ pages[p] = [level |-> pages[p].level, children |-> pages[p].children,
                       prev |-> pages[p].prev, next |-> pages[p].next]
        /\ pages[p].level \in 0 .. level
    BY <1>1 DEF PlaceInv, NodeKinds
  <2>2. CASE level = 1 /\ p \in S
    <3> DEFINE pr == [b \in pages[p].children |->
                        IF pages[p].prev[b] # 0 THEN PageOf(b - 1) ELSE None]
               nx == [b \in pages[p].children |->
                        IF pages[p].next[b] # 0 THEN PageOf(b + 1) ELSE None]
    <3>1. pages'[p] = [pages[p] EXCEPT !.prev = pr, !.next = nx]
      BY <2>2 DEF Packs, Entry, Linked
    <3> HIDE DEF pr, nx
    <3>2. pages'[p] = [level |-> pages[p].level, children |-> pages[p].children,
                       prev |-> pr, next |-> nx]
      BY <2>1, <3>1
    <3> QED BY <2>1, <3>2
  <2>3. CASE ~(level = 1 /\ p \in S)
    <3>1. pages'[p] = pages[p]
      BY <2>3 DEF Packs, Entry
    <3> QED BY <2>1, <3>1
  <2> QED BY <2>2, <2>3
<1>3. /\ pages'[x].level = level /\ pages'[x].children = S
      /\ pages'[x] = [level |-> level, children |-> S,
                            prev |-> pages'[x].prev, next |-> pages'[x].next]
  BY DEF Packs, NewNode
<1> QED BY <1>1, <1>2, <1>3

(* Only the records packed get a parent. *)
LEMMA PackParents ==
  ASSUME StreamKinds, PlaceInv, NEW S, NEW x, Packs(S, x)
  PROVE  /\ \A p \in DOMAIN pages :
              Parents(p)' = Parents(p) \cup
                (IF p \in S /\ level = pages[p].level + 1 THEN {x} ELSE {})
         /\ Parents(x)' = {}
         /\ level = 0 => \A p \in DOMAIN pages' : Parents(p)' = {}
<1>1. ASSUME NEW p \in DOMAIN pages
      PROVE  Parents(p)' = Parents(p) \cup
               (IF p \in S /\ level = pages[p].level + 1 THEN {x} ELSE {})
  <2>1. ASSUME NEW q
        PROVE  q \in Parents(p)' <=>
                 \/ q \in Parents(p)
                 \/ q = x /\ p \in S /\ level = pages[p].level + 1
    <3>1. pages'[p].level = pages[p].level
      BY OldNodes
    <3>2. CASE q \in DOMAIN pages
      <4>1. q # x /\ q \in DOMAIN pages'
        BY <3>2 DEF Packs
      <4>2. pages'[q].level = pages[q].level /\ pages'[q].children = pages[q].children
        BY <3>2, OldNodes
      <4> QED BY <3>1, <3>2, <4>1, <4>2 DEF Parents
    <3>3. CASE q = x
      <4>1. q \in DOMAIN pages' /\ q \notin Parents(p)
        BY <3>3 DEF Packs, Parents
      <4>2. pages'[q].level = level /\ pages'[q].children = S
        BY <3>3, OldNodes
      <4> QED BY <3>1, <3>3, <4>1, <4>2 DEF Parents
    <3>4. CASE q \notin DOMAIN pages /\ q # x
      <4>1. q \notin DOMAIN pages'
        BY <3>4 DEF Packs
      <4> QED BY <3>4, <4>1 DEF Parents
    <3> QED BY <3>2, <3>3, <3>4
  <2> QED BY <2>1
<1>2. \A q \in DOMAIN pages' : pages'[q].level \in Nat /\ pages'[q].level <= level
  BY OldNodes DEF Packs
<1>3. pages'[x].level = level /\ level \in Nat
  BY OldNodes
<1>4. Parents(x)' = {}
  <2>1. ASSUME NEW q \in DOMAIN pages', pages'[q].level = pages'[x].level + 1
        PROVE  FALSE
    BY <1>2, <1>3, <2>1
  <2> QED BY <2>1 DEF Parents
<1>5. ASSUME level = 0, NEW p \in DOMAIN pages'
      PROVE  Parents(p)' = {}
  <2>1. ASSUME NEW q \in DOMAIN pages', pages'[q].level = pages'[p].level + 1
        PROVE  FALSE
    BY <1>2, <1>5, <2>1
  <2> QED BY <2>1 DEF Parents
<1> QED BY <1>1, <1>4, <1>5

LEMMA PackSize ==
  ASSUME StreamKinds, PlaceInv, Tiled, NEW S, NEW x, Packs(S, x)
  PROVE  /\ Cap \in Nat \ {0} /\ Left \in Nat /\ strip \in Nat \ {0} /\ slice \in Nat \ {0}
         /\ SliceFits /\ StripFits
         /\ Size \in 1 .. Cap /\ Size <= strip /\ (Size = Cap \/ Size = strip)
         /\ IsFiniteSet(S) /\ S # {}
         /\ Left' = Left - Size /\ Left' \in Nat /\ (Left' = 0 <=> slab' = {})
<1>1. Cap \in Nat \ {0} /\ Left \in Nat /\ IsFiniteSet(slab)
  BY Sizes
<1>2. SliceFits /\ StripFits
  BY DEF Packs, Tiled
<1>3. slice \in Nat \ {0}
  BY <1>1, <1>2 DEF SliceFits
<1>4. strip \in Nat \ {0}
  BY <1>2, <1>3 DEF StripFits
<1>5. Size \in 1 .. Cap /\ Size <= strip /\ (Size = Cap \/ Size = strip)
  BY <1>1, <1>4 DEF Size, Least, Cap
<1>6. IsFiniteSet(S) /\ Cardinality(S) = Size /\ S \subseteq slab /\ slab' = slab \ S
  BY <1>1, FS_Subset DEF Packs
<1>7. S # {}
  BY <1>1, <1>5, <1>6, FS_EmptySet
<1>8. IsFiniteSet(slab') /\ Cardinality(slab') = Cardinality(slab) - Cardinality(slab \cap S)
  BY <1>1, <1>6, FS_Difference
<1>9. slab \cap S = S
  BY <1>6
<1>10. Left' = Left - Size
  BY <1>6, <1>8, <1>9 DEF Left
<1>11. Left' \in Nat /\ (Left' = 0 <=> slab' = {})
  BY <1>8, FS_CardinalityType, FS_EmptySet DEF Left
<1> QED BY <1>1, <1>2, <1>3, <1>4, <1>5, <1>6, <1>7, <1>10, <1>11

LEMMA PackTiles ==
  ASSUME StreamKinds, PlaceInv, Tiled, NEW S, NEW x, Packs(S, x)
  PROVE  Tiled'
<1>1. /\ Cap \in Nat \ {0} /\ Left \in Nat /\ strip \in Nat \ {0} /\ slice \in Nat \ {0}
      /\ Size \in 1 .. Cap /\ Size <= strip /\ (Size = Cap \/ Size = strip)
      /\ Left' = Left - Size /\ Left' \in Nat /\ (Left' = 0 <=> slab' = {})
      /\ SliceFits /\ StripFits
  BY PackSize
<1>2. /\ strip' = strip - Size /\ slice' = slice - Size
      /\ pc' = IF strip' > 0 THEN "pack"
               ELSE IF slice' > 0 THEN "strip"
               ELSE IF slab' # {} THEN "slice"
               ELSE IF MoreToCome THEN "slab" ELSE "next"
      /\ wide' = wide /\ long' = long
  BY DEF Packs
<1>3. Cap' = Cap /\ (GoodStride(wide)' <=> GoodStride(wide)) /\ (GoodStride(long)' <=> GoodStride(long))
  BY DEF Packs, Cap, Capacity, GoodStride
<1>4. strip <= slice /\ slice <= Left
  BY <1>1 DEF SliceFits, StripFits
<1>5. strip' \in Nat /\ slice' \in Nat /\ strip' <= slice' /\ slice' <= Left'
  BY <1>1, <1>2, <1>4
<1>6. strip' > 0 => Size = Cap
  BY <1>1, <1>2
<1>7. strip # slice => Multiple(strip, Cap) /\ GoodStride(long)
  BY <1>1 DEF StripFits
<1>8. slice # Left => Multiple(slice, Cap) /\ GoodStride(wide)
  BY <1>1 DEF SliceFits
<1>9. ASSUME slice' > 0
      PROVE  SliceFits'
  <2>1. Size = Cap \/ strip' = 0
    BY <1>1, <1>2
  <2>2. slice # Left => Multiple(slice', Cap)
    <3> SUFFICES ASSUME slice # Left
                 PROVE  Multiple(slice', Cap)
      OBVIOUS
    <3>1. Multiple(slice, Cap)
      BY <1>8
    <3>2. CASE Size = Cap
      BY <1>1, <1>2, <3>1, <3>2, OneLess
    <3>3. CASE Size # Cap
      <4>1. Size = strip /\ strip < Cap
        BY <1>1, <3>3
      <4>2. strip # slice
        BY <1>1, <1>2, <1>9, <4>1
      <4>3. Cap <= strip
        BY <1>1, <1>7, <4>2, OneLess
      <4> QED BY <1>1, <4>1, <4>3
    <3> QED BY <3>2, <3>3
  <2>3. slice' \in 1 .. Left'
    BY <1>1, <1>5, <1>9
  <2>4. slice' = Left' \/ slice # Left
    BY <1>1, <1>2
  <2> QED BY <1>3, <1>8, <2>2, <2>3, <2>4 DEF SliceFits
<1>10. ASSUME strip' > 0
       PROVE  StripFits'
  <2>1. strip' \in 1 .. slice'
    BY <1>5, <1>10
  <2>2. strip # slice => Multiple(strip', Cap)
    BY <1>1, <1>2, <1>6, <1>7, <1>10, OneLess
  <2>3. strip' = slice' \/ strip # slice
    BY <1>1, <1>2
  <2> QED BY <1>3, <1>7, <2>1, <2>2, <2>3 DEF StripFits
<1>11. pc' \in Tiling => slab' # {}
  <2>1. slice' > 0 => Left' # 0
    BY <1>1, <1>5
  <2>2. strip' > 0 => slice' > 0
    BY <1>5
  <2> QED BY <1>1, <1>2, <2>1, <2>2 DEF Tiling
<1>12. pc' = "slice" => GoodStride(wide)'
  <2> SUFFICES ASSUME pc' = "slice"
               PROVE  GoodStride(wide)
    BY <1>3
  <2>1. ~(slice' > 0) /\ slab' # {}
    BY <1>2
  <2>2. slice # Left
    BY <1>1, <1>2, <1>5, <2>1
  <2> QED BY <1>8, <2>2
<1>13. pc' = "strip" => SliceFits' /\ GoodStride(long)'
  <2> SUFFICES ASSUME pc' = "strip"
               PROVE  SliceFits' /\ GoodStride(long)
    BY <1>3
  <2>1. ~(strip' > 0) /\ slice' > 0
    BY <1>2
  <2>2. strip # slice
    BY <1>1, <1>2, <1>5, <2>1
  <2> QED BY <1>7, <1>9, <2>1, <2>2
<1>14. pc' = "pack" => SliceFits' /\ StripFits'
  <2> SUFFICES ASSUME pc' = "pack"
               PROVE  SliceFits' /\ StripFits'
    OBVIOUS
  <2>1. strip' > 0
    BY <1>2
  <2>2. slice' > 0
    BY <1>5, <2>1
  <2> QED BY <1>9, <1>10, <2>1, <2>2
<1> QED BY <1>11, <1>12, <1>13, <1>14 DEF Tiled

LEMMA PackFull ==
  ASSUME StreamKinds, PlaceInv, Tiled, Full, NEW S, NEW x, Packs(S, x)
  PROVE  Full'
<1>1. /\ Cap \in Nat \ {0} /\ Left \in Nat /\ strip \in Nat \ {0} /\ slice \in Nat \ {0}
      /\ Size \in 1 .. Cap /\ Size <= strip /\ (Size = Cap \/ Size = strip)
      /\ Left' = Left - Size /\ Left' \in Nat /\ (Left' = 0 <=> slab' = {})
      /\ SliceFits /\ StripFits
  BY PackSize
<1>2. /\ pc = "pack" /\ level' = level /\ bulkloadt' = bulkloadt
      /\ strip' = strip - Size /\ slice' = slice - Size
      /\ pc' = IF strip' > 0 THEN "pack"
               ELSE IF slice' > 0 THEN "strip"
               ELSE IF slab' # {} THEN "slice"
               ELSE IF MoreToCome THEN "slab" ELSE "next"
      /\ Cardinality(S) = Size
  BY DEF Packs
<1>3. Full /\ (~InSlabs => Short(level) = {})
  BY <1>2 DEF Full, Tiling
<1>4. \A l, p : p \in Short(l)' =>
        p \in Short(l) \/ (p = x /\ l = level /\ Size < Cap)
  <2> SUFFICES ASSUME NEW l, NEW p, p \in Short(l)'
               PROVE  p \in Short(l) \/ (p = x /\ l = level /\ Size < Cap)
    OBVIOUS
  <2>1. /\ p \in DOMAIN pages' /\ pages'[p].level = l
        /\ Cardinality(pages'[p].children) < Capacity(l)
    BY DEF Short, Capacity
  <2>2. CASE p \in DOMAIN pages
    <3>1. pages'[p].level = pages[p].level /\ pages'[p].children = pages[p].children
      BY <2>2, OldNodes
    <3> QED BY <2>1, <2>2, <3>1 DEF Short
  <2>3. CASE p = x
    <3>1. pages'[p].level = level /\ pages'[p].children = S
      BY <2>3, OldNodes
    <3> QED BY <1>2, <2>1, <2>3, <3>1 DEF Cap
  <2> QED BY <2>1, <2>2, <2>3 DEF Packs
<1>5. Size < Cap => pc' \notin Tiling
  <2> SUFFICES ASSUME Size < Cap
               PROVE  pc' \notin Tiling
    OBVIOUS
  <2>1. Size = strip /\ strip < Cap
    BY <1>1
  <2>2. strip = slice
    BY <1>1, <2>1, OneLess DEF StripFits
  <2>3. slice = Left
    BY <1>1, <2>1, <2>2, OneLess DEF SliceFits
  <2>4. strip' = 0 /\ slice' = 0 /\ slab' = {}
    BY <1>1, <1>2, <2>1, <2>2, <2>3
  <2> QED BY <1>2, <2>4 DEF Tiling
<1>6. ASSUME NEW l \in 0 .. level', ~(bulkloadt' /\ l = 0), NEW p \in Short(l)', NEW q \in Short(l)'
      PROVE  p = q
  <2>1. \A r, t \in Short(l) : r = t
    BY <1>2, <1>3, <1>6 DEF Full
  <2>2. l = level => Short(l) = {}
    BY <1>2, <1>3, <1>6 DEF InSlabs
  <2> QED BY <1>4, <1>6, <2>1, <2>2
<1>7. ASSUME pc' \in Tiling \cup {"level"}, ~InSlabs'
      PROVE  Short(level)' = {}
  <2>1. pc' \in Tiling /\ ~InSlabs
    BY <1>2, <1>7 DEF InSlabs
  <2>2. ~(Size < Cap) /\ Short(level) = {}
    BY <1>3, <1>5, <2>1
  <2>3. ASSUME NEW p \in Short(level)'
        PROVE  FALSE
    <3>1. PICK l : l = level
      OBVIOUS
    <3>2. p \in Short(l)'
      BY <1>2, <2>3, <3>1 DEF Short, Capacity
    <3> QED BY <1>4, <2>2, <3>1, <3>2
  <2> QED BY <2>3
<1> QED BY <1>6, <1>7 DEF Full

LEMMA PackKinds ==
  ASSUME StreamKinds, PlaceInv, Tiled, NEW S, NEW x, Packs(S, x)
  PROVE  Kinds' /\ NodeKinds' /\ Waiting'
<1> USE DEF PlaceInv
<1>1. /\ Cap \in Nat \ {0} /\ Size \in 1 .. Cap /\ S # {}
      /\ level \in Nat /\ Top = level /\ Top' = level
  BY PackSize, OldNodes
<1>2. /\ pc = "pack" /\ level' = level
      /\ x = NewPage /\ x \notin DOMAIN pages /\ x # None
      /\ DOMAIN pages' = DOMAIN pages \cup {x}
      /\ S \subseteq slab /\ slab' = slab \ S /\ Cardinality(S) = Size
      /\ es2' = es2 \cup {x} /\ rootID' = x
      /\ pc' = IF strip' > 0 THEN "pack"
               ELSE IF slice' > 0 THEN "strip"
               ELSE IF slab' # {} THEN "slice"
               ELSE IF MoreToCome THEN "slab" ELSE "next"
      /\ UNCHANGED <<bulkloadt, box, es, pR, bMore>>
  BY DEF Packs
<1>3. \A p \in DOMAIN pages :
        /\ pages'[p].level = pages[p].level /\ pages[p].level \in 0 .. level
        /\ pages'[p].children = pages[p].children
        /\ pages'[p] = [level |-> pages'[p].level, children |-> pages'[p].children,
                        prev |-> pages'[p].prev, next |-> pages'[p].next]
  BY OldNodes
<1>4. /\ pages'[x].level = level /\ pages'[x].children = S
      /\ pages'[x] = [level |-> level, children |-> S,
                      prev |-> pages'[x].prev, next |-> pages'[x].next]
  BY OldNodes
<1>5. pc' \in Tiling \cup {"slab", "next"}
  BY <1>2 DEF Tiling
<1>6. pc' = "slab" => MoreToCome
  BY <1>2
<1>7. Kinds'
  BY <1>2, <1>5, <1>6 DEF Kinds, Building, Tiling, MoreToCome, InSlabs
<1>8. \E k \in Nat : DOMAIN pages' = FirstPage .. FirstPage + k - 1
  <2>1. PICK k \in Nat : DOMAIN pages = FirstPage .. FirstPage + k - 1 /\ NewPage = FirstPage + k
    BY PageCount
  <2>2. DOMAIN pages' = FirstPage .. FirstPage + (k + 1) - 1
    BY <1>2, <2>1, PageAssumption
  <2> QED BY <2>1, <2>2
<1>9. Records' = Records
  <2>1. CASE level = 0
    BY <1>2, <2>1 DEF Records
  <2>2. CASE level # 0
    BY <1>1, <1>2, <1>3, <1>4, <2>2 DEF Records
  <2> QED BY <2>1, <2>2
<1>10. ASSUME NEW p \in DOMAIN pages'
       PROVE  /\ pages'[p] = [level |-> pages'[p].level, children |-> pages'[p].children,
                              prev |-> pages'[p].prev, next |-> pages'[p].next]
              /\ pages'[p].level \in 0 .. Top'
              /\ Cardinality(pages'[p].children) \in 1 .. Capacity(pages'[p].level)
              /\ pages'[p].level = 0 => pages'[p].children \subseteq DOMAIN box'
              /\ pages'[p].level > 0 =>
                   pages'[p].children \subseteq
                     {q \in DOMAIN pages' : pages'[q].level = pages'[p].level - 1}
  <2>1. CASE p \in DOMAIN pages
    <3>1. /\ Cardinality(pages[p].children) \in 1 .. Capacity(pages[p].level)
          /\ pages[p].level = 0 => pages[p].children \subseteq DOMAIN box
          /\ pages[p].level > 0 =>
               pages[p].children \subseteq {q \in DOMAIN pages : pages[q].level = pages[p].level - 1}
      BY <2>1 DEF NodeKinds
    <3>2. \A n : {q \in DOMAIN pages : pages[q].level = n} \subseteq
                 {q \in DOMAIN pages' : pages'[q].level = n}
      BY <1>2, <1>3
    <3>3. pages'[p].level > 0 =>
            pages'[p].children \subseteq
              {q \in DOMAIN pages' : pages'[q].level = pages'[p].level - 1}
      BY <1>3, <2>1, <3>1, <3>2
    <3> QED BY <1>1, <1>2, <1>3, <2>1, <3>1, <3>3
  <2>2. CASE p = x
    <3>1. S \subseteq Records'
      BY <1>2, <1>9 DEF Waiting
    <3>2. Cardinality(pages'[p].children) \in 1 .. Capacity(pages'[p].level)
      BY <1>1, <1>2, <1>4, <2>2 DEF Cap
    <3>3. pages'[p].level = 0 => pages'[p].children \subseteq DOMAIN box'
      BY <1>2, <1>4, <2>2, <3>1 DEF Records
    <3>4. pages'[p].level > 0 =>
            pages'[p].children \subseteq
              {q \in DOMAIN pages' : pages'[q].level = pages'[p].level - 1}
      BY <1>2, <1>4, <2>2, <3>1 DEF Records
    <3>5. pages'[p].level \in 0 .. Top'
      BY <1>1, <1>4, <2>2
    <3> QED BY <1>4, <2>2, <3>2, <3>3, <3>4, <3>5
  <2> QED BY <1>2, <2>1, <2>2
<1>11. es2' = {p \in DOMAIN pages' : pages'[p].level = Top'}
  BY <1>1, <1>2, <1>3, <1>4 DEF NodeKinds
<1>12. NodeKinds'
  <2>1. pc' # "done" /\ rootID' \in es2' /\ rootID' \in DOMAIN pages'
    BY <1>2, <1>5 DEF Tiling
  <2>2. \A l : Capacity(l)' = Capacity(l)
    BY DEF Capacity
  <2> QED BY <1>8, <1>10, <1>11, <2>1 DEF NodeKinds, Capacity
<1>13. Waiting'
  <2>1. MoreToCome' <=> MoreToCome
    BY <1>2 DEF MoreToCome, InSlabs
  <2>2. pc' = "next" => slab' = {} /\ ~MoreToCome
    BY <1>2
  <2>3. MoreToCome \/ es = {}
    BY <1>2 DEF Waiting, Tiling
  <2>4. pR # None <=> MoreToCome
    BY <1>2 DEF Waiting, Tiling
  <2>5. pR' # None <=> MoreToCome' /\ pc' \in Tiling \cup {"slab", "fill"}
    BY <1>2, <1>5, <2>1, <2>2, <2>4 DEF Tiling
  <2> QED BY <1>2, <1>5, <1>9, <2>1, <2>2, <2>3, <2>5 DEF Waiting, Tiling
<1> QED BY <1>7, <1>12, <1>13

LEMMA PackPlaced ==
  ASSUME StreamKinds, PlaceInv, Tiled, NEW S, NEW x, Packs(S, x)
  PROVE  Placed'
<1> USE DEF PlaceInv
<1>1. /\ pc = "pack" /\ level' = level
      /\ x = NewPage /\ x \notin DOMAIN pages
      /\ DOMAIN pages' = DOMAIN pages \cup {x}
      /\ S \subseteq slab /\ slab' = slab \ S
      /\ Note(S)
      /\ UNCHANGED <<bulkloadt, box, es, pR, bMore>>
  BY DEF Packs
<1>2. \A p \in DOMAIN pages :
        pages'[p].level = pages[p].level /\ pages'[p].children = pages[p].children
  BY OldNodes
<1>3. pages'[x].level = level /\ pages'[x].children = S /\ level \in Nat
  BY OldNodes
<1>4. /\ es \cap slab = {} /\ pR \notin slab
      /\ level = 0 => slab \subseteq DOMAIN box
  <2>1. pR # None => pR \notin slab
    BY DEF Waiting
  <2>2. None \notin slab
    <3>1. slab \subseteq DOMAIN box \/ slab \subseteq DOMAIN pages
      BY DEF Waiting, Records
    <3>2. None \notin DOMAIN pages
      <4>1. PICK k \in Nat : DOMAIN pages = FirstPage .. FirstPage + k - 1
        BY DEF NodeKinds
      <4> QED BY <4>1, PageAssumption DEF None
    <3>3. None \notin DOMAIN box
      <4>1. PICK n \in Nat : box \in [0 .. n - 1 -> BoxRecords]
        BY DEF StreamKinds
      <4> QED BY <4>1 DEF None
    <3> QED BY <3>1, <3>2, <3>3
  <2> QED BY <2>1, <2>2 DEF Waiting, Records
<1>5. level = 0 => Pool' = Pool \ S
  BY <1>1, <1>4 DEF Pool
<1>6. CASE level # 0
  <2>1. Leaves' = Leaves
    BY <1>1, <1>2, <1>3, <1>6 DEF Leaves
  <2>2. part2node' = part2node
    BY <1>1, <1>6 DEF Note
  <2>3. \A p \in Leaves : p \in DOMAIN pages
    BY DEF Leaves
  <2>4. \A b : LeavesOf(b)' = LeavesOf(b)
    BY <1>2, <2>1, <2>3 DEF LeavesOf
  <2>5. Building
    BY <1>1 DEF Building
  <2> QED BY <1>1, <1>2, <1>6, <2>1, <2>2, <2>3, <2>4, <2>5 DEF Placed
<1>7. CASE level = 0
  <2>1. Leaves' = Leaves \cup {x}
    BY <1>1, <1>2, <1>3, <1>7 DEF Leaves
  <2>2. \A b \in S : b \in DOMAIN part2node' /\ part2node'[b] = x
    BY <1>1, <1>7 DEF Note
  <2>3. \A b \in DOMAIN part2node \ S : b \in DOMAIN part2node' /\ part2node'[b] = part2node[b]
    BY <1>1, <1>7 DEF Note
  <2>4. S \subseteq Pool
    BY <1>1, <1>4, <1>7 DEF Pool
  <2>5. ASSUME NEW p \in Leaves', NEW b \in pages'[p].children
        PROVE  b \in DOMAIN part2node' /\ part2node'[b] = p /\ b \notin Pool'
    <3>1. CASE p = x
      BY <1>3, <1>5, <1>7, <2>2, <2>5, <3>1
    <3>2. CASE p \in Leaves
      <4>1. b \in pages[p].children
        BY <1>2, <2>5, <3>2 DEF Leaves
      <4>2. b \in DOMAIN part2node /\ part2node[b] = p /\ b \notin Pool
        BY <1>7, <3>2, <4>1 DEF Placed
      <4> QED BY <1>5, <1>7, <2>3, <2>4, <4>2
    <3> QED BY <2>1, <3>1, <3>2
  <2>6. ASSUME NEW b \in DOMAIN box'
        PROVE  LeavesOf(b)' # {} \/ b \in Pool'
    <3>1. b \in DOMAIN box /\ Building
      BY <1>1 DEF Building
    <3>2. CASE b \in S
      BY <1>3, <2>1, <3>2 DEF LeavesOf
    <3>3. CASE b \in Pool \ S
      BY <1>5, <1>7, <3>3
    <3>4. CASE LeavesOf(b) # {}
      <4>1. PICK p \in Leaves : b \in pages[p].children
        BY <3>4 DEF LeavesOf
      <4>2. p \in Leaves' /\ b \in pages'[p].children
        BY <1>2, <2>1, <4>1 DEF Leaves
      <4> QED BY <4>2 DEF LeavesOf
    <3> QED BY <1>7, <3>1, <3>2, <3>3, <3>4 DEF Placed
  <2> QED BY <1>1, <1>7, <2>5, <2>6 DEF Placed
<1> QED BY <1>6, <1>7

LEMMA PackNested ==
  ASSUME StreamKinds, PlaceInv, Tiled, NEW S, NEW x, Packs(S, x)
  PROVE  Nested'
<1> USE DEF PlaceInv
<1>1. /\ level' = level /\ level \in Nat /\ Top = level /\ Top' = level
      /\ DOMAIN pages' = DOMAIN pages \cup {x}
      /\ S \subseteq slab /\ slab' = slab \ S /\ es' = es
      /\ es \cap slab = {}
      /\ pages'[x].level = level
  BY OldNodes DEF Packs, Waiting
<1>2. SUFFICES ASSUME NEW p \in DOMAIN pages', pages'[p].level < Top'
               PROVE  IF p \in es' \cup slab' THEN Parents(p)' = {}
                      ELSE \E q \in DOMAIN pages' : Parents(p)' = {q}
  BY DEF Nested
<1>3. /\ p \in DOMAIN pages
      /\ pages'[p].level = pages[p].level /\ pages[p].level \in 0 .. level
      /\ pages[p].level < level /\ level # 0
  <2>1. p # x
    BY <1>1, <1>2
  <2>2. p \in DOMAIN pages
    BY <1>1, <1>2, <2>1
  <2>3. pages'[p].level = pages[p].level /\ pages[p].level \in 0 .. level
    BY <2>2, OldNodes
  <2> QED BY <1>1, <1>2, <2>2, <2>3
<1>4. IF p \in es \cup slab THEN Parents(p) = {} ELSE \E q \in DOMAIN pages : Parents(p) = {q}
  BY <1>1, <1>3 DEF Nested
<1>5. Parents(p)' = Parents(p) \cup
        (IF p \in S /\ level = pages[p].level + 1 THEN {x} ELSE {})
  BY <1>3, PackParents
<1>6. CASE p \in S
  <2>1. pages[p].level = level - 1
    BY <1>1, <1>3, <1>6 DEF Waiting, Records
  <2>2. level = pages[p].level + 1
    BY <1>1, <2>1
  <2>3. Parents(p)' = {x}
    BY <1>1, <1>4, <1>5, <1>6, <2>2
  <2>4. p \notin es' \cup slab'
    BY <1>1, <1>6
  <2> QED BY <1>1, <2>3, <2>4
<1>7. CASE p \notin S
  <2>1. Parents(p)' = Parents(p)
    BY <1>5, <1>7
  <2>2. p \in es' \cup slab' <=> p \in es \cup slab
    BY <1>1, <1>7
  <2> QED BY <1>1, <1>4, <2>1, <2>2
<1> QED BY <1>6, <1>7

(* When leaves are packed all boxes are in leaves, those of a box's        *)
(* trajectory before and after it too.                                     *)
LEMMA NeighbourNoted ==
  ASSUME StreamInv, PlaceInv, Building, level # 0, NEW b \in DOMAIN box
  PROVE  /\ box[b].hasPrev <=> SameTraj(b, b - 1)
         /\ box[b].hasNext <=> SameTraj(b, b + 1)
         /\ \A c \in DOMAIN box : c \in DOMAIN part2node /\ part2node[c] \in LeavesOf(c)
<1>1. box[b].hasPrev <=> SameTraj(b, b - 1)
  BY DEF StreamInv, Flagged
<1>2. box[b].hasNext <=> SameTraj(b, b + 1)
  <2>1. CASE b + 1 \in DOMAIN box
    BY <2>1 DEF StreamInv, Flagged
  <2>2. CASE b + 1 \notin DOMAIN box
    <3>1. numit # 0 /\ buf = << >> /\ numit \in Nat
      <4>1. Len(world) \in Nat \ {0}
        BY WorldFacts DEF StreamInv
      <4> QED BY <4>1 DEF StreamInv, Streamed
    <3>2. ~box[b].hasNext
      BY <2>2, <3>1 DEF StreamInv, Numbered
    <3> QED BY <2>2, <3>2 DEF SameTraj
  <2> QED BY <2>1, <2>2
<1>3. ASSUME NEW c \in DOMAIN box
      PROVE  c \in DOMAIN part2node /\ part2node[c] \in LeavesOf(c)
  <2>1. PICK p \in LeavesOf(c) : TRUE
    BY DEF PlaceInv, Placed
  <2>2. p \in Leaves /\ c \in pages[p].children
    BY <2>1 DEF LeavesOf
  <2>3. c \in DOMAIN part2node /\ part2node[c] = p
    BY <2>2 DEF PlaceInv, Placed
  <2> QED BY <2>1, <2>3
<1> QED BY <1>1, <1>2, <1>3

LEMMA PackLinks ==
  ASSUME StreamInv, PlaceInv, Tiled, NEW S, NEW x, Packs(S, x)
  PROVE  LinksSet'
<1> USE DEF PlaceInv
<1>1. /\ pc = "pack" /\ level' = level /\ level \in Nat /\ Top = level
      /\ DOMAIN pages' = DOMAIN pages \cup {x} /\ x \notin DOMAIN pages
      /\ S \subseteq slab /\ box' = box /\ Note(S)
      /\ pages'[x].level = level /\ pages'[x].children = S
  BY OldNodes DEF Packs, StreamInv
<1>2. Building
  BY <1>1 DEF Building
<1>3. SUFFICES ASSUME NEW p \in Leaves', NEW b \in pages'[p].children
               PROVE  IF Parents(p)' = {}
                      THEN pages'[p].prev[b] = AsId(box[b].hasPrev)
                           /\ pages'[p].next[b] = AsId(box[b].hasNext)
                      ELSE /\ pages'[p].prev[b] = LinkOf(box[b].hasPrev, b - 1)'
                           /\ pages'[p].next[b] = LinkOf(box[b].hasNext, b + 1)'
  BY <1>1 DEF LinksSet, AsId
<1>4. p \in DOMAIN pages' /\ pages'[p].level = 0
  BY DEF Leaves
<1>5. CASE p = x
  <2>1. level = 0 /\ b \in S
    BY <1>1, <1>3, <1>4, <1>5
  <2>2. Parents(p)' = {}
    BY <1>4, <2>1, PackParents DEF StreamInv
  <2>3. pages'[p] = NewNode(S)
    BY <1>5 DEF Packs
  <2>4. pages'[p].prev[b] = AsId(box[b].hasPrev) /\ pages'[p].next[b] = AsId(box[b].hasNext)
    BY <2>1, <2>3 DEF NewNode
  <2> QED BY <2>2, <2>4
<1>6. CASE p # x
  <2>1. p \in DOMAIN pages
    BY <1>1, <1>4, <1>6
  <2>2. pages[p].level = 0 /\ pages'[p].children = pages[p].children
    BY <1>4, <2>1, OldNodes DEF StreamInv
  <2>3. p \in Leaves /\ b \in pages[p].children
    BY <1>3, <2>1, <2>2 DEF Leaves
  <2>4. b \in DOMAIN box
    BY <2>1, <2>2, <2>3 DEF NodeKinds
  <2>5. Parents(p)' = Parents(p) \cup (IF p \in S /\ level = pages[p].level + 1 THEN {x} ELSE {})
    BY <2>1, PackParents DEF StreamInv
  <2>6. IF Parents(p) = {}
        THEN pages[p].prev[b] = AsId(box[b].hasPrev) /\ pages[p].next[b] = AsId(box[b].hasNext)
        ELSE /\ pages[p].prev[b] = LinkOf(box[b].hasPrev, b - 1)
             /\ pages[p].next[b] = LinkOf(box[b].hasNext, b + 1)
    BY <2>3 DEF LinksSet
  <2>7. CASE level = 0
    <3>1. Parents(p)' = {}
      BY <1>4, <2>7, PackParents DEF StreamInv
    <3>2. Parents(p) = {} /\ pages'[p] = pages[p]
      BY <2>1, <2>5, <2>7, <3>1 DEF Packs, Entry
    <3> QED BY <2>6, <3>1, <3>2
  <2>8. CASE level # 0 /\ ~(level = 1 /\ p \in S)
    <3>1. pages'[p] = pages[p]
      BY <2>1, <2>8 DEF Packs, Entry
    <3>2. part2node' = part2node
      BY <1>1, <2>8 DEF Note
    <3>3. Parents(p)' = Parents(p)
      BY <1>1, <2>2, <2>5, <2>8
    <3> QED BY <1>1, <2>6, <3>1, <3>2, <3>3 DEF LinkOf
  <2>9. CASE level = 1 /\ p \in S
    <3>1. Parents(p)' # {}
      BY <2>2, <2>5, <2>9
    <3>2. Parents(p) = {}
      <4>1. p \in es \cup slab /\ pages[p].level < Top
        BY <1>1, <2>2, <2>9
      <4> QED BY <2>1, <4>1 DEF Nested
    <3>3. pages[p].prev[b] = AsId(box[b].hasPrev) /\ pages[p].next[b] = AsId(box[b].hasNext)
      BY <2>6, <3>2
    <3>4. part2node' = part2node
      BY <1>1, <2>9 DEF Note
    <3> DEFINE pr == [c \in pages[p].children |->
                        IF pages[p].prev[c] # 0 THEN PageOf(c - 1) ELSE None]
               nx == [c \in pages[p].children |->
                        IF pages[p].next[c] # 0 THEN PageOf(c + 1) ELSE None]
    <3>5. pages'[p] = [pages[p] EXCEPT !.prev = pr, !.next = nx]
      BY <2>1, <2>9 DEF Packs, Entry, Linked
    <3>6. /\ pr[b] = IF pages[p].prev[b] # 0 THEN PageOf(b - 1) ELSE None
          /\ nx[b] = IF pages[p].next[b] # 0 THEN PageOf(b + 1) ELSE None
      BY <2>3
    <3> HIDE DEF pr, nx
    <3>7. pages[p] = [level |-> pages[p].level, children |-> pages[p].children,
                      prev |-> pages[p].prev, next |-> pages[p].next]
      BY <2>1 DEF NodeKinds
    <3>8. pages'[p].prev = pr /\ pages'[p].next = nx
      BY <3>5, <3>7
    <3>9. /\ box[b].hasPrev <=> SameTraj(b, b - 1)
          /\ box[b].hasNext <=> SameTraj(b, b + 1)
          /\ \A c \in DOMAIN box : c \in DOMAIN part2node
      BY <1>2, <2>4, <2>9, NeighbourNoted
    <3>10. /\ box[b].hasPrev => PageOf(b - 1) = part2node[b - 1]
           /\ box[b].hasNext => PageOf(b + 1) = part2node[b + 1]
      BY <3>9 DEF SameTraj, PageOf
    <3>11. /\ pages[p].prev[b] # 0 <=> box[b].hasPrev
           /\ pages[p].next[b] # 0 <=> box[b].hasNext
      BY <3>3 DEF AsId
    <3>12. pages'[p].prev[b] = LinkOf(box[b].hasPrev, b - 1)'
      BY <1>1, <3>4, <3>6, <3>8, <3>10, <3>11 DEF LinkOf
    <3>13. pages'[p].next[b] = LinkOf(box[b].hasNext, b + 1)'
      BY <1>1, <3>4, <3>6, <3>8, <3>10, <3>11 DEF LinkOf
    <3> QED BY <3>1, <3>12, <3>13
  <2> QED BY <2>7, <2>8, <2>9
<1> QED BY <1>5, <1>6

LEMMA PackNodeKeeps ==
  ASSUME StreamInv, PlaceInv, Tiled, Full, PackNode
  PROVE  PlaceInv' /\ Tiled' /\ Full'
<1>1. PICK S, x : Packs(S, x)
  BY PackNodePacks
<1> QED BY <1>1, PackTiles, PackFull, PackKinds, PackPlaced, PackNested, PackLinks
        DEF PlaceInv, StreamInv

-----------------------------------------------------------------------------
(* A level is finished. *)
LEMMA LevelEndsKeeps ==
  ASSUME StreamInv, PlaceInv, Full, NextLevel \/ Finish
  PROVE  PlaceInv' /\ Tiled' /\ Full'
<1> USE DEF PlaceInv
<1>1. /\ pc = "next" /\ level' = level + 1
      /\ UNCHANGED <<bulkloadt, box, slab, pR, bMore, pages, part2node, rootID>>
      /\ \/ pc' = "level" /\ es' = es2 /\ es2' = {}
         \/ pc' = "done" /\ es' = es /\ es2' = es2 /\ Cardinality(es2) = 1
  BY DEF NextLevel, Finish, stream, slabs, tree
<1>2. /\ level \in Nat /\ Top = level /\ Building /\ Building'
      /\ Top' = IF pc' = "done" THEN level ELSE level + 1
      /\ es = {} /\ slab = {} /\ pR = None
  BY <1>1 DEF Kinds, Top, Building, Waiting, Tiling
<1>3. \A p \in DOMAIN pages : pages[p].level \in 0 .. level
  BY <1>2 DEF NodeKinds
<1>4. es2 = {p \in DOMAIN pages : pages[p].level = level}
  BY <1>2 DEF NodeKinds
<1>5. Leaves' = Leaves /\ \A p : Parents(p)' = Parents(p)
  BY <1>1 DEF Leaves, Parents
<1>6. Kinds'
  <2>1. level' > 0 /\ level' \in Nat
    BY <1>1, <1>2
  <2> QED BY <1>1, <1>2, <2>1 DEF Kinds
<1>7. NodeKinds'
  <2>1. \E k \in Nat : DOMAIN pages' = FirstPage .. FirstPage + k - 1
    BY <1>1 DEF NodeKinds
  <2>2. \A p \in DOMAIN pages : pages[p].level \in 0 .. Top'
    BY <1>2, <1>3
  <2>3. es2' = {p \in DOMAIN pages : pages[p].level = Top'}
    <3>1. CASE pc' = "done"
      BY <1>1, <1>2, <1>4, <3>1
    <3>2. CASE pc' # "done"
      BY <1>1, <1>2, <1>3, <3>2
    <3> QED BY <3>1, <3>2
  <2>4. pc' = "done" => es2' = {rootID'}
    <3> SUFFICES ASSUME pc' = "done"
                 PROVE  es2 = {rootID}
      BY <1>1
    <3>1. Cardinality(es2) = 1
      BY <1>1
    <3>2. IsFiniteSet(es2)
      BY <1>4, PageCount, FS_Subset
    <3>3. \E r : es2 = {r}
      BY <3>1, <3>2, FS_Singleton
    <3>4. es2 # {}
      BY <3>3
    <3> QED BY <3>3, <3>4 DEF NodeKinds
  <2>5. es2' # {} => rootID' \in es2'
    BY <1>1 DEF NodeKinds
  <2> QED BY <1>1, <2>1, <2>2, <2>3, <2>4, <2>5 DEF NodeKinds, Capacity
<1>8. Waiting'
  <2>1. es' \subseteq Records'
    <3>1. CASE pc' = "done"
      BY <1>1, <1>2, <3>1
    <3>2. CASE pc' # "done"
      <4>1. level' # 0 /\ level' - 1 = level
        BY <1>1, <1>2
      <4> QED BY <1>1, <1>4, <3>2, <4>1 DEF Records
    <3> QED BY <3>1, <3>2
  <2> QED BY <1>1, <1>2, <2>1 DEF Waiting, Tiling
<1>9. Placed'
  <2>1. level' # 0 /\ Pool = {}
    <3>1. None \notin DOMAIN box
      <4>1. PICK n \in Nat : box \in [0 .. n - 1 -> BoxRecords]
        BY DEF StreamInv, StreamKinds
      <4> QED BY <4>1 DEF None
    <3> QED BY <1>1, <1>2, <3>1 DEF Pool
  <2>2. \A b : LeavesOf(b)' = LeavesOf(b)
    BY <1>1, <1>5 DEF LeavesOf
  <2> QED BY <1>1, <1>2, <1>5, <2>1, <2>2 DEF Placed
<1>10. Nested'
  <2> SUFFICES ASSUME NEW p \in DOMAIN pages, pages[p].level < Top'
               PROVE  IF p \in es' \cup slab' THEN Parents(p) = {}
                      ELSE \E q \in DOMAIN pages : Parents(p) = {q}
    BY <1>1, <1>5 DEF Nested
  <2>1. CASE pages[p].level < level
    <3>1. p \notin es' \cup slab'
      BY <1>1, <1>2, <1>3, <1>4, <2>1
    <3>2. \E q \in DOMAIN pages : Parents(p) = {q}
      BY <1>2, <2>1 DEF Nested
    <3> QED BY <3>1, <3>2
  <2>2. CASE pages[p].level = level
    <3>1. pc' # "done"
      BY <1>2, <2>2
    <3>2. p \in es'
      BY <1>1, <1>4, <2>2, <3>1
    <3>3. Parents(p) = {}
      BY <1>2, <1>3, <2>2 DEF Parents
    <3> QED BY <3>2, <3>3
  <2> QED BY <1>2, <1>3, <2>1, <2>2
<1>11. LinksSet'
  BY <1>1, <1>5 DEF LinksSet, LinkOf, AsId
<1>12. Tiled'
  BY <1>1 DEF Tiled, Tiling
<1>13. Full'
  <2>1. \A l : Short(l)' = Short(l)
    BY <1>1 DEF Short, Capacity
  <2>2. Short(level + 1) = {}
    BY <1>2, <1>3 DEF Short
  <2>3. Short(level)' = {}
    BY <1>1, <2>2 DEF Short, Capacity
  <2>4. \A l \in 0 .. level' : l \in 0 .. level \/ l = level + 1
    BY <1>1, <1>2
  <2> QED BY <1>1, <2>1, <2>2, <2>3, <2>4 DEF Full
<1> QED BY <1>6, <1>7, <1>8, <1>9, <1>10, <1>11, <1>12, <1>13

LEMMA IInvStutters ==
  ASSUME IInv, UNCHANGED vars
  PROVE  IInv'
<1> USE DEF vars, stream, slabs, tiles, tree
<1>1. StreamInv'
  BY StreamStays DEF IInv, StreamInv, Streamed, Building
<1>2. Kinds' /\ NodeKinds' /\ Waiting'
  BY DEF IInv, PlaceInv, Kinds, NodeKinds, Waiting, Building, InSlabs, MoreToCome, Tiling,
         Records, Top, Capacity
<1>3. Placed' /\ Nested' /\ LinksSet'
  BY DEF IInv, PlaceInv, Placed, Nested, LinksSet, Leaves, LeavesOf, Parents, Pool, Top,
         Building, LinkOf, AsId
<1>4. Tiled' /\ Full'
  BY DEF IInv, Tiled, Full, Tiling, SliceFits, StripFits, GoodStride, Left, Cap, Capacity,
         Short, InSlabs
<1> QED BY <1>1, <1>2, <1>3, <1>4 DEF IInv, PlaceInv

-----------------------------------------------------------------------------
(* Every reachable state satisfies the invariant. *)
LEMMA IInvInvariant == Spec => []IInv
<1>1. Init => IInv
  BY InitStream, InitPlace DEF IInv
<1>2. IInv /\ [Next]_vars => IInv'
  <2> SUFFICES ASSUME IInv, [Next]_vars
               PROVE  IInv'
    OBVIOUS
  <2> USE DEF IInv
  <2>1. CASE EmptyStream \/ GetNext \/ EndOfStream
    <3>1. pc = "stream"
      BY <2>1 DEF EmptyStream, GetNext, EndOfStream
    <3>2. PlaceInv' /\ Tiled' /\ Full'
      BY <2>1, <3>1, EmptyPlace
    <3>3. CASE EmptyStream
      <4>1. UNCHANGED <<world, bulkloadt, numit, sid, buf, box>> /\ ~Building'
        BY <3>3 DEF EmptyStream, stream, Building
      <4> QED BY <3>2, <4>1, StreamStays
    <3>4. CASE GetNext
      BY <3>2, <3>4, GetNextStream
    <3>5. CASE EndOfStream
      <4>1. UNCHANGED <<world, bulkloadt, numit, sid, buf, box>> /\ ~HasNext /\ box # << >>
        BY <3>5 DEF EndOfStream, stream
      <4>2. numit = Len(world) /\ buf = << >>
        <5>1. Len(world) \in Nat \ {0} /\ numit \in 0 .. Len(world)
          BY WorldFacts DEF StreamInv, StreamKinds
        <5>2. buf = << >> /\ ~(sid < Len(world) - 1)
          BY <4>1 DEF HasNext, LastId
        <5>3. numit # 0
          <6>1. DOMAIN box # {}
            <7>1. PICK n \in Nat : box \in [0 .. n - 1 -> BoxRecords]
              BY DEF StreamInv, StreamKinds
            <7>2. SUFFICES ASSUME DOMAIN box = {}
                           PROVE  box = << >>
              BY <4>1
            <7>3. box \in [1 .. 0 -> BoxRecords]
              BY <7>1, <7>2
            <7>4. box \in Seq(BoxRecords) /\ Len(box) = 0
              BY <7>3, SeqDef, LenProperties
            <7> QED BY <7>4, EmptySeq
          <6> QED BY <6>1 DEF StreamInv, Numbered
        <5>4. sid = numit - 1
          BY <5>3 DEF StreamInv, StreamKinds
        <5> QED BY <5>1, <5>2, <5>4
      <4> QED BY <3>2, <4>1, <4>2, StreamStays
    <3> QED BY <2>1, <3>3, <3>4, <3>5
  <2>2. CASE \/ CreateLevel \/ CreateLevelT \/ CutSlice \/ CutStrip
             \/ Stretch \/ Fill \/ BeyondSlab \/ CloseSlab
             \/ PackNode \/ NextLevel \/ Finish
    <3>1. PlaceInv' /\ Tiled' /\ Full'
      BY <2>2, CreateLevelKeeps, CreateLevelTKeeps, CutSliceKeeps, CutStripKeeps,
         SlabStepsKeep, FillKeeps, PackNodeKeeps, LevelEndsKeeps
    <3>2. UNCHANGED <<world, bulkloadt, numit, sid, buf, box>> /\ pc \notin {"stream", "thrown"}
      <4>1. CASE PackNode
        BY <4>1 DEF PackNode, stream, PlaceInv, Kinds
      <4>2. CASE ~PackNode
        BY <2>2, <4>2 DEF CreateLevel, CreateLevelT, CutSlice, CutStrip, Stretch, Fill,
           BeyondSlab, CloseSlab, NextLevel, Finish, stream
      <4> QED BY <4>1, <4>2
    <3>3. numit = Len(world) /\ buf = << >>
      BY <3>2 DEF StreamInv, Streamed, Building
    <3> QED BY <3>1, <3>2, <3>3, StreamStays
  <2>3. CASE UNCHANGED vars
    BY <2>3, IInvStutters
  <2> QED BY <2>1, <2>2, <2>3 DEF Next
<1> QED BY <1>1, <1>2, PTL DEF Spec

-----------------------------------------------------------------------------
(* The counters of the stream stay in range, a node has as many children   *)
(* as its level allows and never none, and the root is a node.             *)
THEOREM TypeCorrect == Spec => []TypeOK
<1>1. IInv => TypeOK
  <2> SUFFICES ASSUME IInv
               PROVE  TypeOK
    OBVIOUS
  <2> USE DEF IInv, StreamInv, PlaceInv
  <2>1. Len(world) \in Nat \ {0}
    BY WorldFacts
  <2>2. numit \in 0 .. Len(world) /\ sid \in 0 .. LastId
    <3>1. numit \in 0 .. Len(world)
      BY DEF StreamKinds
    <3>2. numit = 0 => sid = 0
      BY DEF StreamKinds
    <3>3. numit # 0 => sid = numit - 1
      BY DEF StreamKinds
    <3> QED BY <2>1, <3>1, <3>2, <3>3 DEF LastId
  <2>3. DOMAIN box \subseteq Nat
    <3>1. PICK n \in Nat : box \in [0 .. n - 1 -> BoxRecords]
      BY DEF StreamKinds
    <3> QED BY <3>1
  <2>4. pR \in DOMAIN box \cup {None}
    BY DEF Waiting
  <2>5. ASSUME NEW p \in DOMAIN pages
        PROVE  /\ pages[p].level \in 0 .. level
               /\ Cardinality(pages[p].children) \in
                    1 .. (IF pages[p].level = 0 THEN LeafCapacity ELSE IndexCapacity)
    <3>1. pages[p].level \in 0 .. Top /\ Cardinality(pages[p].children) \in 1 .. Capacity(pages[p].level)
      BY DEF NodeKinds
    <3>2. Top \in Int /\ level \in Int /\ Top <= level
      BY DEF Top, Kinds
    <3> QED BY <3>1, <3>2 DEF Capacity
  <2>6. pc \in {"stream", "level", "slab", "fill", "slice", "strip", "pack", "next", "done", "thrown"}
    BY DEF Kinds
  <2>7. rootID \in DOMAIN pages \cup {None}
    BY DEF NodeKinds
  <2> QED BY <2>2, <2>3, <2>4, <2>5, <2>6, <2>7 DEF TypeOK
<1> QED BY <1>1, IInvInvariant, PTL

LEMMA BoxesKeptFollows == IInv => BoxesKept
<1> SUFFICES ASSUME IInv, Building, NEW b \in DOMAIN box
             PROVE  Cardinality(LeavesOf(b)) + Cardinality(WaitsIn(b)) = 1
  BY DEF BoxesKept, Building
<1> USE DEF IInv, PlaceInv
<1>1. \A p, q \in LeavesOf(b) : p = q
  BY DEF LeavesOf, Placed
<1>2. Cardinality(LeavesOf(b)) \in 0 .. 1 /\ (LeavesOf(b) = {} <=> Cardinality(LeavesOf(b)) = 0)
  BY <1>1, AtMostOne
<1>3. /\ "es" \in WaitsIn(b) <=> level = 0 /\ b \in es
      /\ "slab" \in WaitsIn(b) <=> level = 0 /\ b \in slab
      /\ "pR" \in WaitsIn(b) <=> level = 0 /\ b = pR
      /\ WaitsIn(b) \subseteq {"es", "slab", "pR"}
  BY DEF WaitsIn
<1>4. pR = b => pR # None
  <2>1. PICK n \in Nat : box \in [0 .. n - 1 -> BoxRecords]
    BY DEF StreamInv, StreamKinds
  <2> QED BY <2>1 DEF None
<1>5. es \cap slab = {} /\ (pR # None => pR \notin es /\ pR \notin slab)
  BY DEF Waiting
<1>6. \A v, w \in WaitsIn(b) : v = w
  BY <1>3, <1>4, <1>5
<1>7. Cardinality(WaitsIn(b)) \in 0 .. 1 /\ (WaitsIn(b) = {} <=> Cardinality(WaitsIn(b)) = 0)
  BY <1>6, AtMostOne
<1>8. WaitsIn(b) # {} <=> level = 0 /\ b \in Pool
  BY <1>3 DEF Pool
<1>9. LeavesOf(b) # {} <=> ~(level = 0 /\ b \in Pool)
  BY DEF LeavesOf, Placed
<1> QED BY <1>2, <1>7, <1>8, <1>9

LEMMA BoxesNumberedFollows == IInv => BoxesNumbered
<1> SUFFICES ASSUME IInv, Building
             PROVE  /\ DOMAIN box = 0 .. Cardinality(DOMAIN box) - 1
                    /\ \A b \in DOMAIN box :
                         b > 0 => box[b].traj \in box[b - 1].traj .. box[b - 1].traj + 1
                    /\ \A t \in 0 .. LastId :
                         Cardinality({b \in DOMAIN box : box[b].traj = t}) = Len(world[t + 1])
  BY DEF BoxesNumbered, Building
<1> USE DEF IInv, StreamInv
<1>1. PICK n \in Nat : box \in [0 .. n - 1 -> BoxRecords] /\ n = Cardinality(DOMAIN box)
  BY BoxCount
<1>2. DOMAIN box = 0 .. Cardinality(DOMAIN box) - 1
  BY <1>1
<1>3. ASSUME NEW b \in DOMAIN box, b > 0
      PROVE  box[b].traj \in box[b - 1].traj .. box[b - 1].traj + 1
  <2>1. b - 1 \in DOMAIN box
    BY <1>1, <1>3
  <2> QED BY <2>1 DEF Numbered
<1>4. ASSUME NEW t \in 0 .. LastId
      PROVE  Cardinality({b \in DOMAIN box : box[b].traj = t}) = Len(world[t + 1])
  <2>1. numit = Len(world) /\ buf = << >> /\ Len(world) \in Nat /\ LastId = Len(world) - 1
    BY WorldFacts DEF Streamed, LastId
  <2>2. t < numit /\ StillToCome(t) = 0
    BY <2>1 DEF StillToCome
  <2>3. Cardinality(BoxesOf(t)) + 0 = Len(world[t + 1])
    BY <2>2 DEF Counted
  <2>4. Cardinality(BoxesOf(t)) \in Nat
    <3>1. IsFiniteSet(BoxesOf(t))
      BY BoxCount, FS_Subset DEF BoxesOf
    <3> QED BY <3>1, FS_CardinalityType
  <2> QED BY <2>3, <2>4 DEF BoxesOf
<1> QED BY <1>2, <1>3, <1>4

LEMMA NodesNestedFollows == IInv => NodesNested
<1> SUFFICES ASSUME IInv, pc = "done", NEW p \in DOMAIN pages
             PROVE  Cardinality(Parents(p)) = IF p = rootID THEN 0 ELSE 1
  BY DEF NodesNested
<1> USE DEF IInv, PlaceInv
<1>1. Top = level - 1 /\ level \in Nat /\ level > 0
  BY DEF Top, Kinds
<1>2. es2 = {q \in DOMAIN pages : pages[q].level = Top} /\ es2 = {rootID}
  BY DEF NodeKinds
<1>3. \A q \in DOMAIN pages : pages[q].level \in 0 .. Top
  BY DEF NodeKinds
<1>4. CASE p = rootID
  <2>1. pages[p].level = Top
    BY <1>2, <1>4
  <2>2. Parents(p) = {}
    BY <1>1, <1>3, <2>1 DEF Parents
  <2> QED BY <1>4, <2>2, FS_EmptySet
<1>5. CASE p # rootID
  <2>1. pages[p].level < Top
    <3>1. pages[p].level # Top
      BY <1>2, <1>5
    <3>2. Top \in Nat
      BY <1>1
    <3> QED BY <1>3, <3>1, <3>2
  <2>2. es = {} /\ slab = {}
    BY DEF Waiting
  <2>3. \E q \in DOMAIN pages : Parents(p) = {q}
    BY <2>1, <2>2 DEF Nested
  <2> QED BY <1>5, <2>3, FS_Singleton
<1> QED BY <1>4, <1>5

(* The tree is whole: every box of every trajectory gets a number, waits   *)
(* in one place or is in one leaf, and every node of the finished tree but *)
(* its root has one parent, whatever order the sorters hand the records    *)
(* out in and wherever createLevel and createLevelT cut them.              *)
THEOREM TreeIsWhole == Spec => []WholeTree
<1>1. IInv => WholeTree
  BY BoxesKeptFollows, BoxesNumberedFollows, NodesNestedFollows DEF WholeTree
<1> QED BY <1>1, IInvInvariant, PTL

PrevLeads(p, b) ==
  IF ~SameTraj(b, b - 1) THEN pages[p].prev[b] = None
  ELSE /\ pages[p].prev[b] \in Leaves
       /\ b - 1 \in pages[pages[p].prev[b]].children
       /\ Parents(pages[p].prev[b]) # {} => pages[pages[p].prev[b]].next[b - 1] = p
NextLeads(p, b) ==
  IF ~SameTraj(b, b + 1) THEN pages[p].next[b] = None
  ELSE /\ pages[p].next[b] \in Leaves
       /\ b + 1 \in pages[pages[p].next[b]].children
       /\ Parents(pages[p].next[b]) # {} => pages[pages[p].next[b]].prev[b + 1] = p

LEMMA LinksFollow ==
  ASSUME IInv, NEW p \in Leaves, Parents(p) # {}, NEW b \in pages[p].children
  PROVE  PrevLeads(p, b) /\ NextLeads(p, b)
<1> USE DEF IInv, PlaceInv
<1>1. Building /\ level # 0
  <2>1. PICK q \in DOMAIN pages : pages[q].level = pages[p].level + 1
    BY DEF Parents
  <2>2. pages[p].level = 0 /\ pages[q].level \in 0 .. Top
    BY DEF Leaves, NodeKinds
  <2>3. level # 0
    BY <2>1, <2>2 DEF Top, Kinds
  <2> QED BY <2>1, <2>3 DEF Kinds
<1>2. b \in DOMAIN box /\ b \in Int
  <2>1. b \in DOMAIN box
    BY DEF Leaves, NodeKinds
  <2>2. PICK n \in Nat : box \in [0 .. n - 1 -> BoxRecords]
    BY DEF StreamInv, StreamKinds
  <2> QED BY <2>1, <2>2
<1>3. ASSUME NEW c \in DOMAIN box
      PROVE  /\ box[c].hasPrev <=> SameTraj(c, c - 1)
             /\ box[c].hasNext <=> SameTraj(c, c + 1)
             /\ part2node[c] \in Leaves /\ c \in pages[part2node[c]].children
  BY <1>1, NeighbourNoted DEF LeavesOf
<1>4. ASSUME NEW q \in Leaves, Parents(q) # {}, NEW c \in pages[q].children
      PROVE  /\ pages[q].prev[c] = IF box[c].hasPrev THEN part2node[c - 1] ELSE None
             /\ pages[q].next[c] = IF box[c].hasNext THEN part2node[c + 1] ELSE None
  BY <1>4 DEF LinksSet, LinkOf
<1>5. part2node[b] = p
  BY DEF Placed
<1>6. PrevLeads(p, b)
  <2>1. CASE ~SameTraj(b, b - 1)
    BY <1>2, <1>3, <1>4, <2>1 DEF PrevLeads
  <2>2. CASE SameTraj(b, b - 1)
    <3> DEFINE c == b - 1
               q == part2node[c]
    <3>1. c \in DOMAIN box /\ c + 1 = b /\ SameTraj(c, c + 1)
      BY <1>2, <2>2 DEF SameTraj
    <3>2. pages[p].prev[b] = q
      BY <1>2, <1>3, <1>4, <2>2
    <3>3. q \in Leaves /\ c \in pages[q].children /\ box[c].hasNext
      BY <1>3, <3>1
    <3> HIDE DEF c, q
    <3>4. Parents(q) # {} => pages[q].next[c] = p
      BY <1>4, <1>5, <3>1, <3>3
    <3>5. SameTraj(b, c) /\ c = b - 1
      BY <2>2 DEF c
    <3> QED BY <2>2, <3>2, <3>3, <3>4, <3>5 DEF PrevLeads
  <2> QED BY <2>1, <2>2
<1>7. NextLeads(p, b)
  <2>1. CASE ~SameTraj(b, b + 1)
    BY <1>2, <1>3, <1>4, <2>1 DEF NextLeads
  <2>2. CASE SameTraj(b, b + 1)
    <3> DEFINE c == b + 1
               q == part2node[c]
    <3>1. c \in DOMAIN box /\ c - 1 = b /\ SameTraj(c, c - 1)
      BY <1>2, <2>2 DEF SameTraj
    <3>2. pages[p].next[b] = q
      BY <1>2, <1>3, <1>4, <2>2
    <3>3. q \in Leaves /\ c \in pages[q].children /\ box[c].hasPrev
      BY <1>3, <3>1
    <3> HIDE DEF c, q
    <3>4. Parents(q) # {} => pages[q].prev[c] = p
      BY <1>4, <1>5, <3>1, <3>3
    <3>5. SameTraj(b, c) /\ c = b + 1
      BY <2>2 DEF c
    <3> QED BY <2>2, <3>2, <3>3, <3>4, <3>5 DEF NextLeads
  <2> QED BY <2>1, <2>2
<1> QED BY <1>6, <1>7

(* A leaf that has a parent is linked: each of its boxes to the leaves     *)
(* that hold the boxes of the same trajectory just before and after it,    *)
(* which link back, and to none at an end of the trajectory (createNode    *)
(* stores flags, level 1 turns them into pages).                           *)
THEOREM LinksAreRight == Spec => []LinksLead
<1>1. IInv => LinksLead
  BY LinksFollow DEF LinksLead, PrevLeads, NextLeads
<1> QED BY <1>1, IInvInvariant, PTL

(* All nodes of a level but one are full, however createLevel slices it.   *)
THEOREM NodesAreFull == Spec => []FullNodes
<1>1. IInv => FullNodes
  <2> SUFFICES ASSUME IInv, NEW l \in 0 .. level, ~(bulkloadt /\ l = 0)
               PROVE  Cardinality(Short(l)) <= 1
    BY DEF FullNodes, Short
  <2>1. \A p, q \in Short(l) : p = q
    BY DEF IInv, Full
  <2> QED BY <2>1, AtMostOne
<1> QED BY <1>1, IInvInvariant, PTL
=============================================================================

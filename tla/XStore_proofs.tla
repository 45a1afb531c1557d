--------------------------- MODULE XStore_proofs ---------------------------
(***************************************************************************)
(* Theorems about the trajectory store, for all files, names, page counts  *)
(* and points per page. The allocation of pages is what loadTraj relies    *)
(* on: it leaves no empty page behind (PagesReused), so the pages of a     *)
(* trajectory follow one another (TrajectoriesLaidOut), and no page of the *)
(* last flush that holds points changes, in this or in a later process     *)
(* (SavedPoints). The invariant Inv has the types, and what is between the *)
(* steps of a build. A saved name leads to a finished index (NamesResolve).*)
(*                                                                         *)
(* What has been loaded reads back, over any number of processes, flushes, *)
(* crashes and index builds (Reads). The loop of loadTraj is a recursive   *)
(* function over the pages; it is first shown to return, whatever the      *)
(* pages hold, the points of the interval from where they are looked for   *)
(* (IntervalRead), so that a trajectory that is laid out reads back        *)
(* (LaidOutReads); but in the plain layout an interval that starts on the  *)
(* last point of a page never does (PlainMisreads, ReadsAll). What is left *)
(* is what a row leads to: that it is the row of the trajectory that was   *)
(* cut, and that its pages stay (ReadInv).                                 *)
(*                                                                         *)
(* What an index keeps of a trajectory is cut from it (Splitting). That    *)
(* the pieces cover the trajectory and are near the length asked for is    *)
(* shown for any times that ascend, any length and tolerance, and any      *)
(* choice of parts: the points of a piece lie along those of the           *)
(* trajectory (Along), and the next one starts where it ends (Chained). So *)
(* loadTraj returns for a piece the points it was cut from, but for those  *)
(* intervals (CuttingInv).                                                 *)
(***************************************************************************)
EXTENDS TrajectoryStream, TLAPS, SequenceTheorems, FiniteSetTheorems, WellFoundedInduction

TrajName == {file.name : file \in Appended \cup {File}} \X Nat

Line == [id : Nat, n : Nat, t : TrajName]

TrajBegun ==
  [id : 0 .. MaxId, n : Nat, t : TrajName, rem : Int, cur : Nat, first : Page \cup {-1}]

TreeBegun == [name : Names, root : Page, header : Page \cup {-1}, nodes : Nat]

RowsTyped ==
  /\ rows \in [DOMAIN rows -> [page : Page, n : Nat]]
  /\ DOMAIN rows \subseteq 0 .. MaxId

TrajTyped ==
  traj # NoTraj =>
    /\ traj \in TrajBegun
    /\ traj.n >= 2
    /\ traj.first = -1 => traj.rem = traj.n /\ traj.cur = 0
    /\ pc \in {"load", "append"}

TreeTyped ==
  /\ pc \in {"header", "bulk", "nodes"} => tree \in TreeBegun
  /\ pc \in {"header", "bulk"} => tree.nodes = 0
  /\ pc \in {"bulk", "nodes"} => tree.header \in Page

Types == todo \in Seq(Line) /\ nextTraj \in Int /\ RowsTyped /\ TrajTyped /\ TreeTyped

(* The one page a build frees is the one its first node takes. *)
OnlyRootFreed ==
  ~failedBuild =>
    /\ idx.empty = {}
    /\ emptyPages = IF pc = "nodes" /\ tree.nodes = 0 THEN {tree.root} ELSE {}

Inv ==
  /\ TypeOK
  /\ Types
  /\ ~open => pc = "idle"
  /\ OnlyRootFreed

-----------------------------------------------------------------------------
(* A set of numbers has a least one. *)
LEMMA SmallestIsOf ==
  ASSUME NEW S \in SUBSET Nat, S # {}
  PROVE  SmallestOf(S) \in S /\ \A y \in S : SmallestOf(S) <= y
<1>1. PICK x \in S : \A y \in S : ~ (<<y, x>> \in OpToRel(<, Nat))
  BY NatLessThanWellFounded, WFMin
<1>2. ASSUME NEW y \in S PROVE x <= y
  <2>1. x \in Nat /\ y \in Nat
    OBVIOUS
  <2>2. y < x => <<y, x>> \in OpToRel(<, Nat)
    BY <2>1, Zenon DEF OpToRel
  <2>3. ~ (y < x)
    BY <1>1, <2>2, Zenon
  <2> QED
    BY <2>1, <2>3
<1> QED
  BY <1>2 DEF SmallestOf

(* A set of ids has a greatest one. *)
LEMMA GreatestOf ==
  ASSUME NEW S \in SUBSET (0 .. MaxId), S # {}
  PROVE  \E i \in S : \A j \in S : j <= i
<1> DEFINE T == {MaxId - i : i \in S}
<1>1. MaxId \in Nat
  BY BoundsAssumption
<1>2. T \in SUBSET Nat /\ T # {}
  <2>1. ASSUME NEW i \in S PROVE MaxId - i \in Nat
    BY <1>1
  <2> QED
    BY <2>1
<1>3. SmallestOf(T) \in T /\ \A y \in T : SmallestOf(T) <= y
  <2> HIDE DEF T
  <2> QED
    BY <1>2, SmallestIsOf
<1>4. PICK x \in T : \A y \in T : x <= y
  BY <1>3
<1>5. PICK i \in S : x = MaxId - i
  OBVIOUS
<1>6. ASSUME NEW j \in S PROVE j <= i
  <2>1. MaxId - j \in T
    OBVIOUS
  <2>2. i \in Nat /\ j \in Nat
    BY <1>1
  <2>3. x <= MaxId - j
    BY <1>4, <2>1
  <2> HIDE DEF T
  <2> QED
    BY <1>1, <1>5, <2>2, <2>3
<1> QED
  BY <1>6

LEMMA LastTrajTyped ==
  ASSUME RowsTyped, nextTraj \in Int
  PROVE  LastTrajId \in Nat
<1>1. CASE nextTraj >= 0
  BY <1>1 DEF LastTrajId
<1>2. CASE ~ (nextTraj >= 0) /\ rows = Empty
  BY <1>2 DEF LastTrajId
<1>3. CASE ~ (nextTraj >= 0) /\ rows # Empty
  <2>1. DOMAIN rows # {}
    <3>1. rows = [z \in DOMAIN rows |-> rows[z]]
      BY DEF RowsTyped
    <3> QED
      BY <1>3, <3>1 DEF Empty
  <2>2. \E i \in DOMAIN rows : \A j \in DOMAIN rows : j <= i
    BY <2>1, GreatestOf DEF RowsTyped
  <2>3. LastTrajId \in DOMAIN rows
    BY <1>3, <2>2 DEF LastTrajId
  <2> QED
    BY <2>3 DEF RowsTyped
<1> QED
  BY <1>1, <1>2, <1>3

LEMMA StoreNewTyped ==
  ASSUME TypeOK, NEW content, StoreNew(content)
  PROVE  /\ PageTaken \in Page
         /\ nextPage' \in 0 .. MaxPage
         /\ emptyPages' \subseteq Page
         /\ DOMAIN dat' = Page
         /\ idx' = idx
<1>1. MaxPage \in Nat
  BY BoundsAssumption
<1>2. PageTaken \in Page /\ idx' = idx /\ emptyPages' \subseteq Page /\ DOMAIN dat' = Page
  BY DEF StoreNew, TypeOK
<1>3. nextPage' \in 0 .. MaxPage
  BY <1>1, <1>2 DEF StoreNew, TypeOK, PageTaken, Page
<1> QED
  BY <1>2, <1>3

LEMMA TrajectoriesTyped ==
  ASSUME NEW file \in Appended \cup {File}
  PROVE  Trajectories(file) \in Seq(Line)
<1>1. file.lines \in Seq([id : Nat, n : Nat])
  BY FileAssumption
<1>2. Len(file.lines) \in Nat /\ \A k \in 1 .. Len(file.lines) : file.lines[k] \in [id : Nat, n : Nat]
  BY <1>1, LenProperties, ElementOfSeq
<1>3. ASSUME NEW k \in 1 .. Len(file.lines)
      PROVE  [id |-> file.lines[k].id, n |-> file.lines[k].n, t |-> <<file.name, k>>] \in Line
  BY <1>2 DEF Line, TrajName
<1> QED
  BY <1>2, <1>3 DEF Trajectories

LEMMA EmptyDomain == DOMAIN Empty = {} /\ Empty \in [{} -> [page : Page, n : Nat]]
BY DEF Empty

LEMMA InvInit == Init => Inv
<1> USE DEF Init
<1>1. Init => TypeOK
  <2> SUFFICES ASSUME Init PROVE TypeOK
    OBVIOUS
  <2>1. open \in BOOLEAN /\ bSubTraj \in BOOLEAN /\ failedBuild \in BOOLEAN
    BY SubTrajAssumption
  <2>2. nextPage \in 0 .. MaxPage /\ emptyPages \subseteq Page
    BY BoundsAssumption
  <2>3. idx.saved \in BOOLEAN
    BY DEF EmptyIdx
  <2>31. idx.next \in 0 .. MaxPage /\ idx.empty \subseteq Page
    BY BoundsAssumption DEF EmptyIdx
  <2>4. DOMAIN dat = Page
    OBVIOUS
  <2>5. DOMAIN rows = {} /\ DOMAIN names = {} /\ DOMAIN property.names = {}
    BY EmptyDomain DEF NoProperty
  <2>6. property.is = "absent" /\ nextTraj >= -1 /\ pc = "idle" /\ earlier.names = {}
    BY DEF NoProperty
  <2> QED
    BY <2>1, <2>2, <2>3, <2>31, <2>4, <2>5, <2>6 DEF TypeOK
<1>2. Init => Types
  BY EmptyDomain DEF Types, RowsTyped, TrajTyped, TreeTyped
<1>3. Init => (~open => pc = "idle") /\ OnlyRootFreed
  BY DEF OnlyRootFreed, EmptyIdx
<1> QED
  BY <1>1, <1>2, <1>3 DEF Inv

(* The steps of the store and of the process. *)
LEMMA StoreStep ==
  ASSUME Inv,
         \/ Create \/ Open \/ \E file \in Appended : LoadFile(file)
         \/ EndLoad \/ FlushDisk \/ TruncateProperty \/ WriteProperty
         \/ Close \/ Crash
  PROVE  Inv'
<1> USE DEF Inv, TypeOK, Types, RowsTyped, TrajTyped, TreeTyped, OnlyRootFreed,
            diskVars, ghostVars
<1>0. MaxPage \in Nat /\ DOMAIN Empty = {} /\ 0 \in 0 .. MaxPage
  BY BoundsAssumption, EmptyDomain
<1>1. CASE Create
  <2>1. Trajectories(File) \in Seq(Line)
    BY TrajectoriesTyped
  <2>2. idx' = [saved |-> FALSE, next |-> 0, empty |-> {}] /\ DOMAIN dat' = Page
    BY <1>1 DEF Create, EmptyIdx
  <2>3. earlier'.names \subseteq Names
    BY <1>1 DEF Create
  <2>4. TypeOK'
    <3>1. open' \in BOOLEAN /\ bSubTraj' \in BOOLEAN /\ failedBuild' \in BOOLEAN
      BY <1>1 DEF Create
    <3>2. nextPage' \in 0 .. MaxPage /\ emptyPages' \subseteq Page
      BY <1>0, <1>1 DEF Create
    <3>3. idx'.saved \in BOOLEAN /\ idx'.next \in 0 .. MaxPage /\ idx'.empty \subseteq Page
      BY <1>0, <1>1, <2>2 DEF Create
    <3>4. DOMAIN dat' = Page
      BY <1>1, <2>2 DEF Create
    <3>5. \A id \in DOMAIN rows' : rows'[id].page \in Page /\ rows'[id].n >= 2
      BY <1>1 DEF Create
    <3>6. DOMAIN property'.names \subseteq Names /\ property'.is \in {"absent", "torn", "written"}
      BY <1>1 DEF Create
    <3>7. DOMAIN names' \subseteq Names /\ earlier'.names \subseteq Names /\ nextTraj' >= -1
      BY <1>0, <1>1, <2>3 DEF Create
    <3> QED
      BY <3>1, <3>2, <3>3, <3>4, <3>5, <3>6, <3>7, <1>1 DEF Create
  <2>5. Types'
    BY <1>1, <2>1 DEF Create
  <2> QED
    BY <1>1, <2>2, <2>4, <2>5 DEF Create
<1>2. CASE Open
  BY <1>2 DEF Open
<1>3. CASE \E file \in Appended : LoadFile(file)
  BY <1>3, TrajectoriesTyped DEF LoadFile
<1>4. CASE EndLoad
  BY <1>4 DEF EndLoad, Loading
<1>5. CASE FlushDisk
  BY <1>5 DEF FlushDisk, Header
<1>6. CASE TruncateProperty
  BY <1>6, EmptyDomain DEF TruncateProperty, TornProperty
<1>7. CASE WriteProperty
  BY <1>7 DEF WriteProperty
<1>8. CASE Close \/ Crash
  <2>0. Forget /\ open
    BY <1>8, Zenon DEF Close, Crash
  <2>9. idx' = idx \/ idx' = Header
    BY <1>8, Zenon DEF Close, Crash
  <2>1. TypeOK'
    <3>1. open' \in BOOLEAN /\ bSubTraj' \in BOOLEAN /\ failedBuild' \in BOOLEAN
      BY <2>0 DEF Forget, Header
    <3>2. nextPage' \in 0 .. MaxPage /\ emptyPages' \subseteq Page
      BY <1>0, <2>0 DEF Forget, Header
    <3>3. idx'.saved \in BOOLEAN /\ idx'.next \in 0 .. MaxPage /\ idx'.empty \subseteq Page
      <4>1. CASE idx' = idx
        BY <4>1
      <4>2. CASE idx' = Header
        BY <4>2 DEF Header
      <4> QED
        BY <2>9, <4>1, <4>2
    <3>4. DOMAIN dat' = Page
      BY <2>0 DEF Forget, Header
    <3>5. \A id \in DOMAIN rows' : rows'[id].page \in Page /\ rows'[id].n >= 2
      BY <2>0 DEF Forget, Header
    <3>6. DOMAIN property'.names \subseteq Names /\ property'.is \in {"absent", "torn", "written"}
      BY <2>0 DEF Forget, Header
    <3>7. DOMAIN names' \subseteq Names /\ earlier'.names \subseteq Names /\ nextTraj' >= -1
      BY <1>0, <2>0 DEF Forget, Header
    <3> QED
      BY <3>1, <3>2, <3>3, <3>4, <3>5, <3>6, <3>7, <2>0 DEF Forget, Header
  <2>2. Types'
    BY <2>0 DEF Forget, Header
  <2> QED
    BY <1>8, <2>0, <2>1, <2>2 DEF Close, Crash, Forget, Header
<1> QED
  BY <1>1, <1>2, <1>3, <1>4, <1>5, <1>6, <1>7, <1>8

LEMMA LineTyped ==
  ASSUME Inv, NextLine
  PROVE  /\ Head(todo) \in Line /\ todo' \in Seq(Line)
         /\ IdOf(Head(todo)) \in Nat
         /\ nextTraj' \in Int /\ nextTraj' >= -1
<1>1. Head(todo) \in Line /\ todo' \in Seq(Line)
  BY HeadTailProperties DEF NextLine, Inv, Types
<1>2. LastTrajId \in Nat
  BY LastTrajTyped DEF Inv, Types
<1>3. IdOf(Head(todo)) \in Nat
  BY <1>1, <1>2 DEF IdOf, Line
<1>4. nextTraj' \in Int /\ nextTraj' >= -1
  BY <1>2 DEF NextLine, Inv, TypeOK, Types
<1> QED
  BY <1>1, <1>3, <1>4

(* What CutPage leaves of the trajectory. *)
Cut(first) ==
  LET plen  == Smaller(traj.rem, Fp)
      again == bSubTraj /\ traj.rem # Fp
  IN [id |-> traj.id, n |-> traj.n, t |-> traj.t,
      rem |-> IF again THEN traj.rem - Fp + 1 ELSE traj.rem - Fp,
      cur |-> IF again THEN traj.cur + plen - 1 ELSE traj.cur + plen,
      first |-> IF traj.first = -1 THEN first ELSE traj.first]

LEMMA CutTyped ==
  ASSUME traj \in TrajBegun, traj.n >= 2, traj.rem > 0, NEW first \in Page
  PROVE  Cut(first) \in TrajBegun /\ Cut(first).n >= 2 /\ Cut(first).first # -1
<1> DEFINE plen == Smaller(traj.rem, Fp)
           c    == Cut(first)
<1>1. plen \in Nat /\ plen >= 1 /\ Fp \in Nat
  BY FpAssumption DEF Smaller, TrajBegun
<1>2. c.id \in 0 .. MaxId /\ c.n \in Nat /\ c.n >= 2 /\ c.t \in TrajName
  BY DEF Cut, TrajBegun
<1>3. c.rem \in Int
  BY <1>1 DEF Cut, TrajBegun
<1>4. c.cur \in Nat
  <2>1. traj.cur + plen - 1 \in Nat /\ traj.cur + plen \in Nat
    BY <1>1 DEF TrajBegun
  <2> QED
    BY <2>1 DEF Cut
<1>5. c.first \in Page
  BY DEF Cut, TrajBegun
<1>6. c = [id |-> c.id, n |-> c.n, t |-> c.t, rem |-> c.rem, cur |-> c.cur, first |-> c.first]
  BY DEF Cut
<1> HIDE DEF c
<1>7. c \in TrajBegun /\ c.n >= 2 /\ c.first # -1
  BY <1>2, <1>3, <1>4, <1>5, <1>6 DEF TrajBegun, Page
<1> QED
  BY <1>7 DEF c

LEMMA CutPageTraj ==
  ASSUME CutPage, traj \in TrajBegun, traj.n >= 2, PageTaken \in Page
  PROVE  /\ traj' = Cut(PageTaken)
         /\ traj' \in TrajBegun /\ traj'.n >= 2 /\ traj'.first # -1
<1>1. traj.rem - Fp # 0 <=> traj.rem # Fp
  BY FpAssumption DEF TrajBegun
<1>2. traj = [id |-> traj.id, n |-> traj.n, t |-> traj.t, rem |-> traj.rem, cur |-> traj.cur,
              first |-> traj.first]
  BY DEF TrajBegun
<1>3. traj' = Cut(PageTaken) /\ traj.rem > 0
  BY <1>1, <1>2 DEF CutPage, Cut
<1> QED
  BY <1>3, CutTyped

(* A line, a page or a row that fails to load. *)
Failing == LineFails \/ PageFails \/ InsertFails

LEMMA FailingFacts ==
  ASSUME Failing
  PROVE  /\ open /\ open' = open /\ pc \in {"load", "append"} /\ pc' = pc /\ traj' = NoTraj
         /\ UNCHANGED <<bSubTraj, rows, property, names, tree, mine, committed, failedBuild, idx>>
         /\ \/ dat' = dat /\ nextPage' = nextPage /\ emptyPages' = emptyPages
            \/ StoreNew(Blank)
         /\ \/ todo' = <<>> /\ NotReached
            \/ todo' = todo /\ earlier' = earlier /\ InsertFails
<1>1. CASE LineFails
  <2>1. traj' = NoTraj
    BY <1>1 DEF LineFails
  <2> QED
    BY <1>1, <2>1 DEF LineFails, Loading, diskVars
<1>2. CASE PageFails
  <2>1. StoreNew(Blank)
    BY <1>2 DEF PageFails
  <2>2. idx' = idx
    BY <2>1 DEF StoreNew
  <2>3. /\ open /\ open' = open /\ pc \in {"load", "append"} /\ pc' = pc /\ traj' = NoTraj
        /\ UNCHANGED <<bSubTraj, rows, property, names, tree, mine, committed, failedBuild>>
        /\ todo' = <<>> /\ NotReached
    BY <1>2 DEF PageFails, Loading
  <2> QED
    BY <2>1, <2>2, <2>3
<1>3. CASE InsertFails
  BY <1>3 DEF InsertFails, Loading, diskVars
<1> QED
  BY <1>1, <1>2, <1>3 DEF Failing

(* The ids that are left by earlier lives grow. *)
LEMMA FailingEarlier ==
  ASSUME Failing
  PROVE  /\ earlier'.names = earlier.names
         /\ earlier.ids \subseteq earlier'.ids
         /\ earlier'.ids \subseteq earlier.ids \cup (DOMAIN rows \ DOMAIN mine)
BY FailingFacts DEF NotReached

(* What a failure leaves in the cache of the last id. *)
LEMMA FailingLast ==
  ASSUME Inv, Failing
  PROVE  /\ \/ nextTraj' = nextTraj
            \/ nextTraj' = LastTrajId /\ pc = "append"
            \/ InsertFails /\ nextTraj' = traj.id /\ traj \in TrajBegun
         /\ nextTraj' \in Int /\ nextTraj' >= -1
<1>1. LastTrajId \in Nat /\ nextTraj \in Int /\ nextTraj >= -1
  BY LastTrajTyped DEF Inv, Types, TypeOK
<1>2. CASE LineFails
  BY <1>1, <1>2 DEF LineFails, NumbersAnew
<1>3. CASE PageFails
  BY <1>1, <1>3 DEF PageFails
<1>4. CASE InsertFails
  <2>1. nextTraj' = traj.id /\ traj \in TrajBegun
    BY <1>4 DEF InsertFails, Inv, Types, TrajTyped
  <2>2. traj.id \in 0 .. MaxId
    BY <2>1 DEF TrajBegun
  <2> QED
    BY <1>4, <2>1, <2>2, BoundsAssumption
<1> QED
  BY <1>2, <1>3, <1>4 DEF Failing

(* Loading a trajectory. *)
LEMMA LoadStep ==
  ASSUME Inv, BeginTraj \/ DropTraj \/ CutPage \/ InsertRow \/ Failing
  PROVE  Inv'
<1> USE DEF Inv, TypeOK, Types, RowsTyped, TrajTyped, TreeTyped, OnlyRootFreed,
            diskVars, ghostVars
<1>1. CASE BeginTraj
  <2>1. NextLine /\ Head(todo) \in Line /\ todo' \in Seq(Line)
        /\ IdOf(Head(todo)) \in 0 .. MaxId /\ nextTraj' \in Int /\ nextTraj' >= -1
    BY <1>1, LineTyped, BoundsAssumption DEF BeginTraj
  <2>2. traj' \in TrajBegun /\ traj'.n >= 2 /\ traj'.rem = traj'.n /\ traj'.cur = 0
    BY <1>1, <2>1 DEF BeginTraj, Begun, TrajBegun, Line
  <2> QED
    BY <2>1, <2>2 DEF NextLine, Loading
<1>2. CASE DropTraj
  <2>1. todo' \in Seq(Line) /\ nextTraj' \in Int /\ nextTraj' >= -1
    BY <1>2, LineTyped DEF DropTraj
  <2> QED
    BY <1>2, <2>1 DEF DropTraj, NextLine
<1>3. CASE CutPage
  <2>1. PICK content : StoreNew(content)
    BY <1>3 DEF CutPage
  <2>2. PageTaken \in Page /\ nextPage' \in 0 .. MaxPage /\ emptyPages' \subseteq Page
        /\ DOMAIN dat' = Page /\ idx' = idx
    BY <2>1, StoreNewTyped
  <2>3. traj \in TrajBegun /\ traj.n >= 2 /\ traj.rem > 0 /\ pc \in {"load", "append"}
    BY <1>3 DEF CutPage
  <2>7. traj' \in TrajBegun /\ traj'.n >= 2 /\ traj'.first # -1
    BY <1>3, <2>2, <2>3, CutPageTraj
  <2>5. ~failedBuild => emptyPages' = {}
    BY <2>1, <2>3 DEF StoreNew
  <2> QED
    BY <1>3, <2>2, <2>3, <2>5, <2>7 DEF CutPage
<1>4. CASE InsertRow
  <2>1. traj \in TrajBegun /\ traj.n >= 2 /\ traj.first \in Page
    BY <1>4 DEF InsertRow, TrajBegun
  <2>2. RowsTyped' /\ \A id \in DOMAIN rows' : rows'[id].page \in Page /\ rows'[id].n >= 2
    <3>1. CASE traj.id \in DOMAIN rows
      BY <1>4, <3>1 DEF InsertRow
    <3>2. CASE traj.id \notin DOMAIN rows
      <4>1. rows' = [z \in DOMAIN rows \cup {traj.id} |->
                       IF z = traj.id THEN [page |-> traj.first, n |-> traj.n] ELSE rows[z]]
        BY <1>4, <3>2 DEF InsertRow, Put
      <4> QED
        BY <2>1, <4>1 DEF TrajBegun
    <3> QED
      BY <3>1, <3>2
  <2>3. nextTraj' \in Int /\ nextTraj' >= -1
    BY <1>4, <2>1 DEF InsertRow, TrajBegun
  <2> QED
    BY <1>4, <2>2, <2>3 DEF InsertRow
<1>5. CASE Failing
  <2>1. /\ open /\ open' = open /\ pc \in {"load", "append"} /\ pc' = pc /\ traj' = NoTraj
        /\ UNCHANGED <<bSubTraj, rows, property, names, tree, failedBuild, idx>>
        /\ todo' = <<>> \/ todo' = todo
        /\ earlier'.names = earlier.names
    BY <1>5, FailingFacts, FailingEarlier
  <2>2. nextTraj' \in Int /\ nextTraj' >= -1
    BY <1>5, FailingLast
  <2>3. /\ nextPage' \in 0 .. MaxPage /\ emptyPages' \subseteq Page /\ DOMAIN dat' = Page
        /\ ~failedBuild => emptyPages' = {}
    <3>1. CASE dat' = dat /\ nextPage' = nextPage /\ emptyPages' = emptyPages
      BY <2>1, <3>1
    <3>2. CASE StoreNew(Blank)
      BY <2>1, <3>2, StoreNewTyped DEF StoreNew
    <3> QED
      BY <1>5, <3>1, <3>2, FailingFacts
  <2>4. todo' \in Seq(Line)
    <3>1. todo \in Seq(Line)
      BY DEF Inv, Types
    <3> QED
      BY <2>1, <3>1, EmptySeq, Zenon
  <2>5. TypeOK'
    <3>1. /\ open' \in BOOLEAN /\ bSubTraj' \in BOOLEAN /\ failedBuild' \in BOOLEAN
          /\ idx'.saved \in BOOLEAN /\ idx'.next \in 0 .. MaxPage /\ idx'.empty \subseteq Page
          /\ property'.is \in {"absent", "torn", "written"}
          /\ DOMAIN property'.names \subseteq Names
          /\ DOMAIN names' \subseteq Names /\ earlier'.names \subseteq Names
      BY <2>1
    <3>2. \A id \in DOMAIN rows' : rows'[id].page \in Page /\ rows'[id].n >= 2
      BY <2>1
    <3>3. pc' \in {"idle", "load", "append", "flush", "truncate", "write",
                   "header", "bulk", "nodes"}
      BY <2>1
    <3> QED
      BY <2>2, <2>3, <3>1, <3>2, <3>3
  <2>6. Types'
    <3>1. RowsTyped' /\ TrajTyped'
      BY <2>1
    <3>2. TreeTyped'
      BY <2>1
    <3> QED
      BY <2>2, <2>4, <3>1, <3>2
  <2>7. OnlyRootFreed' /\ (~open' => pc' = "idle")
    BY <2>1, <2>3
  <2> QED
    BY <2>5, <2>6, <2>7
<1> QED
  BY <1>1, <1>2, <1>3, <1>4, <1>5

(* Building an index. *)
LEMMA BuildStep ==
  ASSUME Inv,
         \/ \E name \in Names : NewTree(name)
         \/ NewHeader \/ BeginBulk \/ BulkNode \/ EndBulk \/ BulkThrows
  PROVE  Inv'
<1> USE DEF Inv, TypeOK, Types, RowsTyped, TrajTyped, TreeTyped, OnlyRootFreed,
            diskVars, ghostVars
<1>1. ASSUME NEW content, StoreNew(content)
      PROVE  PageTaken \in Page /\ nextPage' \in 0 .. MaxPage /\ emptyPages' \subseteq Page
             /\ DOMAIN dat' = Page /\ idx' = idx
  BY <1>1, StoreNewTyped
<1>2. ASSUME NEW name \in Names, NewTree(name) PROVE Inv'
  <2>1. StoreNew(NodePage(name, 0))
    BY <1>2 DEF NewTree
  <2>2. nextTraj' \in Int /\ nextTraj' >= -1
    BY <1>2, LastTrajTyped DEF NewTree
  <2>3. ~failedBuild => emptyPages' = {}
    BY <1>2, <2>1 DEF NewTree, StoreNew
  <2>4. tree' \in TreeBegun /\ tree'.nodes = 0
    BY <1>1, <1>2, <2>1 DEF NewTree, TreeBegun
  <2> QED
    BY <1>1, <1>2, <2>1, <2>2, <2>3, <2>4 DEF NewTree
<1>3. CASE NewHeader
  <2>1. StoreNew(HeaderPage(tree.name, tree.root))
    BY <1>3 DEF NewHeader
  <2>2. ~failedBuild => emptyPages' = {}
    BY <1>3, <2>1 DEF NewHeader, StoreNew
  <2>3. tree' \in TreeBegun /\ tree'.nodes = 0 /\ tree'.header \in Page
    BY <1>1, <1>3, <2>1 DEF NewHeader, TreeBegun
  <2>4. DOMAIN names' \subseteq Names
    BY <1>3 DEF NewHeader, Put, TreeBegun
  <2> QED
    BY <1>1, <1>3, <2>1, <2>2, <2>3, <2>4 DEF NewHeader
<1>4. CASE BeginBulk
  BY <1>4 DEF BeginBulk, TreeBegun
<1>5. CASE BulkNode
  <2>1. StoreNew(NodePage(tree.name, tree.nodes + 1))
    BY <1>5 DEF BulkNode
  <2>4. tree' = [name |-> tree.name, root |-> PageTaken, header |-> tree.header,
                 nodes |-> tree.nodes + 1]
    BY <1>5 DEF BulkNode, TreeBegun
  <2>2. tree' \in TreeBegun /\ tree'.nodes # 0 /\ tree'.header = tree.header
    BY <1>1, <1>5, <2>1, <2>4 DEF BulkNode, TreeBegun
  <2>3. ~failedBuild => emptyPages' = {}
    <3>1. emptyPages = {tree.root} => PageTaken = tree.root
      BY <1>5 DEF BulkNode, TreeBegun, PageTaken, SmallestOf, Page
    <3> QED
      BY <1>5, <2>1, <3>1 DEF BulkNode, StoreNew
  <2> QED
    BY <1>1, <1>5, <2>1, <2>2, <2>3 DEF BulkNode
<1>6. CASE EndBulk
  BY <1>6 DEF EndBulk, TreeBegun
<1>7. CASE BulkThrows
  BY <1>7 DEF BulkThrows
<1> QED
  BY <1>2, <1>3, <1>4, <1>5, <1>6, <1>7

LEMMA InvStep == Inv /\ [Next]_vars => Inv'
<1> SUFFICES ASSUME Inv, [Next]_vars PROVE Inv'
  OBVIOUS
<1>1. CASE Next
  BY <1>1, StoreStep, LoadStep, BuildStep DEF Next, Failing
<1>2. CASE UNCHANGED vars
  BY <1>2 DEF vars, diskVars, ghostVars, Inv, TypeOK, Types, RowsTyped, TrajTyped,
              TreeTyped, OnlyRootFreed
<1> QED
  BY <1>1, <1>2

LEMMA InvHolds == Spec => []Inv
BY InvInit, InvStep, PTL DEF Spec

(* The variables, the files and the catalog keep their types: pages lie    *)
(* within the bounds, a row names a page and at least two points, and only *)
(* names of indexes are saved (xStore.cc, tjsql.cc, IndexBuildHelper.cc).  *)
THEOREM StoreTyped == Spec => []TypeOK
<1>1. Inv => TypeOK
  BY DEF Inv
<1> QED
  BY <1>1, InvHolds, PTL

(* No page is left empty when trajectories are cut, nor in the header a    *)
(* later process starts from, unless a bulk load has thrown: the root that *)
(* bulkLoadUsingSTR deletes is taken again by its first node.              *)
THEOREM PagesReused == Spec => []NoEmptyPageLeft
<1>1. Inv => NoEmptyPageLeft
  BY DEF Inv, OnlyRootFreed, NoEmptyPageLeft
<1> QED
  BY <1>1, InvHolds, PTL

-----------------------------------------------------------------------------
(* A page that the last flush counts as taken, and that holds points, is   *)
(* not written again, whatever builds, appends and crashes follow, unless  *)
(* the store is created anew.                                              *)
SavedPage == (0 .. idx.next - 1) \ idx.empty

SavedPointsStay ==
  idx'.saved => \A p \in SavedPage : dat[p].kind = "points" => dat'[p] = dat[p]

(* The pages of the tree being built hold its root and its header. *)
BuildPages ==
  /\ pc \in {"header", "bulk"} =>
       /\ dat[tree.root].kind = "node"
       /\ tree.root < nextPage /\ tree.root \notin emptyPages
  /\ pc \in {"bulk", "nodes"} =>
       /\ dat[tree.header].kind = "header"
       /\ tree.header < nextPage /\ tree.header \notin emptyPages
       /\ tree.nodes = 0 => tree.header # tree.root

(* What the process may write is empty since the last flush, a former root *)
(* or beyond the pages of that flush.                                      *)
SavedBelow ==
  /\ idx.saved \/ idx.next = 0
  /\ open => /\ idx.next <= nextPage
             /\ \A p \in emptyPages :
                  p \in idx.empty \/ p >= idx.next \/ dat[p].kind = "node"

EmptyBelow ==
  /\ emptyPages \subseteq 0 .. nextPage - 1
  /\ idx.empty \subseteq 0 .. idx.next - 1

PageInv == Inv /\ BuildPages /\ SavedBelow /\ EmptyBelow

LEMMA StoreNewPage ==
  ASSUME TypeOK, EmptyBelow, NEW content, StoreNew(content)
  PROVE  /\ PageTaken \in Page
         /\ PageTaken < nextPage' /\ nextPage <= nextPage'
         /\ PageTaken \in emptyPages \/ PageTaken >= nextPage
         /\ emptyPages' = emptyPages \ {PageTaken}
         /\ idx' = idx
         /\ dat'[PageTaken] = content
         /\ \A p \in Page : p # PageTaken => dat'[p] = dat[p]
<1>1. PageTaken \in Page /\ emptyPages' = emptyPages \ {PageTaken} /\ idx' = idx
  BY DEF StoreNew
<1>2. dat'[PageTaken] = content /\ \A p \in Page : p # PageTaken => dat'[p] = dat[p]
  BY DEF StoreNew, TypeOK
<1>3. nextPage \in Nat
  BY BoundsAssumption DEF TypeOK
<1>4. CASE emptyPages = {}
  BY <1>1, <1>2, <1>3, <1>4 DEF StoreNew, PageTaken
<1>5. CASE emptyPages # {}
  <2>1. emptyPages \in SUBSET Nat
    BY <1>3 DEF EmptyBelow
  <2>2. PageTaken \in emptyPages
    BY <1>5, <2>1, SmallestIsOf DEF PageTaken
  <2>3. nextPage' = nextPage /\ PageTaken < nextPage
    BY <1>3, <1>5, <2>2 DEF StoreNew, EmptyBelow
  <2> QED
    BY <1>1, <1>2, <1>3, <2>2, <2>3
<1> QED
  BY <1>4, <1>5

LEMMA Widens ==
  ASSUME NEW a \in Nat, NEW b \in Nat, a <= b, NEW p \in 0 .. a - 1
  PROVE  p \in 0 .. b - 1
OBVIOUS

(* A page taken while the process works is none of the last flush's. *)
LEMMA StoreNewKeeps ==
  ASSUME PageInv, open, open', NEW content, StoreNew(content)
  PROVE  SavedBelow' /\ EmptyBelow' /\ SavedPointsStay
<1>1. TypeOK /\ EmptyBelow /\ SavedBelow
  BY DEF PageInv, Inv
<1>2. /\ PageTaken \in Page
      /\ PageTaken < nextPage' /\ nextPage <= nextPage'
      /\ PageTaken \in emptyPages \/ PageTaken >= nextPage
      /\ emptyPages' = emptyPages \ {PageTaken}
      /\ idx' = idx
      /\ \A p \in Page : p # PageTaken => dat'[p] = dat[p]
  BY <1>1, StoreNewPage
<1>3. /\ nextPage \in Nat /\ nextPage' \in Nat /\ idx.next \in Nat
      /\ emptyPages \subseteq Page /\ 0 .. idx.next - 1 \subseteq Page
  <2>1. nextPage \in 0 .. MaxPage /\ idx.next \in 0 .. MaxPage /\ emptyPages \subseteq Page
    BY <1>1 DEF TypeOK
  <2>2. nextPage' \in 0 .. MaxPage
    BY <1>1, StoreNewTyped
  <2> QED
    BY <2>1, <2>2, BoundsAssumption DEF Page
<1>4. EmptyBelow'
  <2>1. ASSUME NEW p \in emptyPages' PROVE p \in 0 .. nextPage' - 1
    <3>1. p \in 0 .. nextPage - 1
      BY <1>1, <1>2 DEF EmptyBelow
    <3>2. nextPage \in Nat /\ nextPage' \in Nat /\ nextPage <= nextPage'
      BY <1>2, <1>3
    <3> QED
      BY <3>1, <3>2, Widens
  <2>2. idx'.empty \subseteq 0 .. idx'.next - 1
    BY <1>1, <1>2 DEF EmptyBelow
  <2> QED
    BY <2>1, <2>2 DEF EmptyBelow
<1>5. SavedBelow'
  <2>1. idx.next <= nextPage'
    BY <1>1, <1>2, <1>3 DEF SavedBelow
  <2>2. ASSUME NEW p \in emptyPages'
        PROVE  p \in idx.empty \/ p >= idx.next \/ dat'[p].kind = "node"
    BY <1>1, <1>2, <1>3, <2>2 DEF SavedBelow
  <2> QED
    BY <1>1, <1>2, <2>1, <2>2 DEF SavedBelow
<1>6. SavedPointsStay
  <2>1. ASSUME NEW p \in SavedPage, dat[p].kind = "points"
        PROVE  dat'[p] = dat[p]
    BY <1>1, <1>2, <1>3, <2>1 DEF SavedBelow, SavedPage
  <2> QED
    BY <2>1 DEF SavedPointsStay
<1> QED
  BY <1>4, <1>5, <1>6

LEMMA PageInit == Init => PageInv
<1>1. Init => BuildPages /\ SavedBelow /\ EmptyBelow
  BY DEF Init, BuildPages, SavedBelow, EmptyBelow, EmptyIdx
<1> QED
  BY <1>1, InvInit DEF PageInv

LEMMA StorePageStep ==
  ASSUME PageInv, Inv',
         \/ Create \/ Open \/ \E file \in Appended : LoadFile(file)
         \/ EndLoad \/ FlushDisk \/ TruncateProperty \/ WriteProperty
         \/ Close \/ Crash
  PROVE  PageInv' /\ SavedPointsStay
<1> USE DEF BuildPages, SavedBelow, EmptyBelow, SavedPointsStay, SavedPage, diskVars
<1>1. CASE Create
  BY <1>1 DEF PageInv, Create, EmptyIdx
<1>2. CASE Open
  <2>1. pc = "idle" /\ idx.next \in Nat
    BY <1>2, BoundsAssumption DEF Open, PageInv, Inv, TypeOK
  <2> QED
    BY <1>2, <2>1 DEF PageInv, Open
<1>3. CASE \E file \in Appended : LoadFile(file)
  BY <1>3 DEF PageInv, LoadFile
<1>4. CASE EndLoad
  BY <1>4 DEF PageInv, EndLoad
<1>5. CASE FlushDisk
  <2>1. nextPage \in Nat
    BY BoundsAssumption DEF PageInv, Inv, TypeOK
  <2> QED
    BY <1>5, <2>1 DEF PageInv, FlushDisk, Header
<1>6. CASE TruncateProperty
  BY <1>6 DEF PageInv, TruncateProperty
<1>7. CASE WriteProperty
  BY <1>7 DEF PageInv, WriteProperty
<1>8. CASE Close
  BY <1>8 DEF PageInv, Close, Forget, Header
<1>9. CASE Crash
  BY <1>9 DEF PageInv, Crash, Forget
<1> QED
  BY <1>1, <1>2, <1>3, <1>4, <1>5, <1>6, <1>7, <1>8, <1>9

LEMMA LoadPageStep ==
  ASSUME PageInv, Inv', BeginTraj \/ DropTraj \/ CutPage \/ InsertRow \/ Failing
  PROVE  PageInv' /\ SavedPointsStay
<1> USE DEF BuildPages, SavedBelow, EmptyBelow, SavedPointsStay, SavedPage, diskVars
<1>1. CASE BeginTraj \/ DropTraj
  <2>1. NextLine
    BY <1>1, Zenon DEF BeginTraj, DropTraj
  <2> QED
    BY <2>1 DEF PageInv, NextLine, Loading
<1>2. CASE CutPage
  <2>1. PICK content : StoreNew(content)
    BY <1>2 DEF CutPage
  <2>2. open /\ open' /\ pc' \in {"load", "append"}
    BY <1>2 DEF CutPage, Loading
  <2>3. SavedBelow' /\ EmptyBelow' /\ SavedPointsStay
    BY <2>1, <2>2, StoreNewKeeps
  <2> QED
    BY <2>2, <2>3 DEF PageInv
<1>3. CASE InsertRow
  BY <1>3 DEF PageInv, InsertRow
<1>4. CASE Failing
  <2>1. open /\ open' /\ pc' \in {"load", "append"} /\ idx' = idx
    BY <1>4, FailingFacts
  <2>2. CASE dat' = dat /\ nextPage' = nextPage /\ emptyPages' = emptyPages
    BY <2>1, <2>2 DEF PageInv
  <2>3. CASE StoreNew(Blank)
    BY <2>1, <2>3, StoreNewKeeps DEF PageInv
  <2> QED
    BY <1>4, <2>2, <2>3, FailingFacts
<1> QED
  BY <1>1, <1>2, <1>3, <1>4

LEMMA BuildPageStep ==
  ASSUME PageInv, Inv',
         \/ \E name \in Names : NewTree(name)
         \/ NewHeader \/ BeginBulk \/ BulkNode \/ EndBulk \/ BulkThrows
  PROVE  PageInv' /\ SavedPointsStay
<1>1. TypeOK /\ EmptyBelow /\ TreeTyped /\ BuildPages
  BY DEF PageInv, Inv, Types
<1>2. ASSUME NEW name \in Names, NewTree(name) PROVE PageInv' /\ SavedPointsStay
  <2>1. StoreNew(NodePage(name, 0)) /\ open /\ open' /\ pc' = "header"
        /\ tree' = [name |-> name, root |-> PageTaken, header |-> -1, nodes |-> 0]
    BY <1>2 DEF NewTree
  <2>2. SavedBelow' /\ EmptyBelow' /\ SavedPointsStay
    BY <2>1, StoreNewKeeps
  <2>3. PageTaken < nextPage' /\ PageTaken \notin emptyPages' /\ dat'[PageTaken] = NodePage(name, 0)
    BY <1>1, <2>1, StoreNewPage
  <2>4. BuildPages'
    BY <2>1, <2>3 DEF BuildPages, NodePage
  <2> QED
    BY <2>2, <2>4 DEF PageInv
<1>3. CASE NewHeader
  <2>1. StoreNew(HeaderPage(tree.name, tree.root)) /\ open /\ open' /\ pc' = "bulk"
    BY <1>3 DEF NewHeader
  <2>2. SavedBelow' /\ EmptyBelow' /\ SavedPointsStay
    BY <2>1, StoreNewKeeps
  <2>3. tree.root \in Page /\ tree.root \in Nat /\ tree.root < nextPage /\ tree.root \notin emptyPages
        /\ dat[tree.root].kind = "node"
    BY <1>1, <1>3 DEF NewHeader, BuildPages, TreeTyped, TreeBegun, Page
  <2>4. tree'.header = PageTaken /\ tree'.root = tree.root
    BY <1>1, <1>3 DEF NewHeader, TreeTyped, TreeBegun
  <2>5. /\ PageTaken < nextPage' /\ nextPage <= nextPage' /\ PageTaken \in Page
        /\ PageTaken \in emptyPages \/ PageTaken >= nextPage
        /\ emptyPages' = emptyPages \ {PageTaken}
        /\ dat'[PageTaken] = HeaderPage(tree.name, tree.root)
        /\ \A p \in Page : p # PageTaken => dat'[p] = dat[p]
    BY <1>1, <2>1, StoreNewPage
  <2>6. nextPage \in Nat /\ nextPage' \in Nat /\ PageTaken \in Nat
    BY <1>1, <2>1, <2>5, StoreNewTyped, BoundsAssumption DEF TypeOK, Page
  <2>7. tree.root # PageTaken /\ tree.root < nextPage'
    BY <2>3, <2>5, <2>6
  <2>8. BuildPages'
    BY <2>1, <2>3, <2>4, <2>5, <2>7 DEF BuildPages, HeaderPage
  <2> QED
    BY <2>2, <2>8 DEF PageInv
<1>4. CASE BeginBulk
  <2>1. open /\ open' /\ pc = "bulk" /\ pc' = "nodes" /\ emptyPages' = emptyPages \cup {tree.root}
        /\ UNCHANGED <<nextPage, idx, dat, tree>>
    BY <1>4 DEF BeginBulk
  <2>2. tree.root \in Nat /\ tree.root < nextPage /\ dat[tree.root].kind = "node"
        /\ tree.header # tree.root /\ nextPage \in Nat
    BY <1>1, <2>1, BoundsAssumption DEF BuildPages, TreeTyped, TreeBegun, Page, TypeOK
  <2>3. EmptyBelow'
    <3>1. tree.root \in 0 .. nextPage - 1
      BY <2>2
    <3>2. emptyPages \cup {tree.root} \subseteq 0 .. nextPage - 1
      BY <1>1, <3>1 DEF EmptyBelow
    <3> QED
      BY <1>1, <2>1, <3>2 DEF EmptyBelow
  <2>4. SavedBelow'
    BY <2>1, <2>2 DEF SavedBelow, PageInv
  <2>5. BuildPages'
    BY <1>1, <2>1, <2>2 DEF BuildPages
  <2> QED
    BY <2>1, <2>3, <2>4, <2>5 DEF PageInv, SavedPointsStay
<1>5. CASE BulkNode
  <2>1. StoreNew(NodePage(tree.name, tree.nodes + 1)) /\ open /\ open'
        /\ pc = "nodes" /\ pc' = "nodes"
    BY <1>5 DEF BulkNode
  <2>2. SavedBelow' /\ EmptyBelow' /\ SavedPointsStay
    BY <2>1, StoreNewKeeps
  <2>3. tree.header \in Page /\ tree.header \in Nat /\ tree.header < nextPage
        /\ tree.header \notin emptyPages /\ dat[tree.header].kind = "header"
    BY <1>1, <2>1 DEF BuildPages, TreeTyped, Page
  <2>4. tree'.header = tree.header /\ tree'.nodes # 0
    BY <1>1, <1>5 DEF BulkNode, TreeTyped, TreeBegun
  <2>5. /\ PageTaken \in Page /\ nextPage <= nextPage'
        /\ PageTaken \in emptyPages \/ PageTaken >= nextPage
        /\ emptyPages' = emptyPages \ {PageTaken}
        /\ \A p \in Page : p # PageTaken => dat'[p] = dat[p]
    BY <1>1, <2>1, StoreNewPage
  <2>6. nextPage \in Nat /\ nextPage' \in Nat /\ PageTaken \in Nat
    BY <1>1, <2>1, <2>5, StoreNewTyped, BoundsAssumption DEF TypeOK, Page
  <2>7. tree.header # PageTaken /\ tree.header < nextPage'
    BY <2>3, <2>5, <2>6
  <2>8. BuildPages'
    BY <2>1, <2>3, <2>4, <2>5, <2>7 DEF BuildPages
  <2> QED
    BY <2>2, <2>8 DEF PageInv
<1>6. CASE EndBulk
  <2>1. /\ pc' = "flush" /\ open /\ UNCHANGED <<open, nextPage, emptyPages, idx>>
        /\ dat' = [dat EXCEPT ![tree.header] = HeaderPage(tree.name, tree.root)]
        /\ pc = "nodes"
    BY <1>6 DEF EndBulk
  <2>2. dat[tree.header].kind = "header" /\ tree.header \notin emptyPages
    BY <1>1, <2>1 DEF BuildPages
  <2>3. ASSUME NEW p, p # tree.header, p \in Page PROVE dat'[p] = dat[p]
    BY <1>1, <2>1, <2>3 DEF TypeOK
  <2>4. emptyPages \subseteq Page /\ SavedPage \subseteq Page
    BY <1>1, BoundsAssumption DEF TypeOK, SavedPage, Page
  <2>5. SavedBelow'
    BY <2>1, <2>2, <2>3, <2>4 DEF SavedBelow, PageInv
  <2>6. SavedPointsStay
    BY <2>2, <2>3, <2>4 DEF SavedPointsStay
  <2> QED
    BY <2>1, <2>5, <2>6 DEF PageInv, BuildPages, EmptyBelow
<1>7. CASE BulkThrows
  BY <1>7 DEF BulkThrows, PageInv, BuildPages, SavedBelow, EmptyBelow, SavedPointsStay, diskVars
<1> QED
  BY <1>2, <1>3, <1>4, <1>5, <1>6, <1>7

LEMMA PageStep == PageInv /\ [Next]_vars => PageInv' /\ SavedPointsStay
<1> SUFFICES ASSUME PageInv, [Next]_vars PROVE PageInv' /\ SavedPointsStay
  OBVIOUS
<1>1. Inv'
  BY InvStep DEF PageInv
<1>2. CASE Next
  BY <1>1, <1>2, StorePageStep, LoadPageStep, BuildPageStep DEF Next, Failing
<1>3. CASE UNCHANGED vars
  BY <1>1, <1>3 DEF vars, diskVars, PageInv, BuildPages, SavedBelow, EmptyBelow, SavedPointsStay
<1> QED
  BY <1>2, <1>3

LEMMA PagesHold == Spec => []PageInv
<1>1. PageInv /\ [Next]_vars => PageInv'
  BY PageStep
<1> QED
  BY <1>1, PageInit, PTL DEF Spec

(* A page that the last flush counts as taken and that holds points is not *)
(* written again by this or a later process: the allocator offers nothing  *)
(* else than empty pages, deleted roots and pages beyond that flush, also  *)
(* after a crash or a bulk load that threw. (Creation anew clears it.)     *)
THEOREM SavedPoints == Spec => [][SavedPointsStay]_vars
<1>1. PageInv /\ [Next]_vars => [SavedPointsStay]_vars
  BY PageStep
<1> QED
  BY <1>1, PagesHold, PTL DEF Spec

-----------------------------------------------------------------------------
(* A trajectory is cut into pages that follow one another, each Stride     *)
(* points after the one before, and its row is inserted when they reach    *)
(* its last point.                                                         *)
Stride == IF bSubTraj THEN Fp - 1 ELSE Fp

Offset(p) == (p - traj.first) * Stride

CutLaidOut ==
  ~failedBuild /\ traj.first # -1 =>
    /\ traj.first < nextPage
    /\ \A p \in traj.first .. nextPage - 1 :
         dat[p] = PointsPage(traj.t, Offset(p), Smaller(Fp, traj.n - Offset(p)))
    /\ IF traj.rem > 0
       THEN traj.cur = Offset(nextPage) /\ traj.rem = traj.n - Offset(nextPage)
       ELSE traj.n <= Offset(nextPage - 1) + Fp

LEMMA OneMore ==
  ASSUME NEW a \in Int, NEW s \in Int
  PROVE  (a + 1) * s = a * s + s /\ 0 * s = 0 /\ a * s \in Int
OBVIOUS

(* A page more, at the end of those the trajectory has. *)
LEMMA CutStep ==
  ASSUME Inv, CutLaidOut, CutPage, ~failedBuild'
  PROVE  CutLaidOut'
<1> DEFINE f == IF traj.first = -1 THEN nextPage ELSE traj.first
           c == (nextPage - f) * Stride
<1>1. /\ traj \in TrajBegun /\ traj.n >= 2 /\ pc \in {"load", "append"} /\ traj.rem > 0
      /\ traj.first = -1 => traj.rem = traj.n /\ traj.cur = 0
      /\ ~failedBuild /\ emptyPages = {}
  BY DEF CutPage, Inv, Types, TrajTyped, OnlyRootFreed, ghostVars
<1>2. StoreNew(PointsPage(traj.t, traj.cur, Smaller(traj.rem, Fp))) /\ PageTaken = nextPage
  BY <1>1 DEF CutPage, PageTaken
<1>3. /\ nextPage \in Page /\ nextPage' = nextPage + 1 /\ nextPage \in Nat
      /\ dat'[nextPage] = PointsPage(traj.t, traj.cur, Smaller(traj.rem, Fp))
      /\ \A p \in Page : p # nextPage => dat'[p] = dat[p]
  BY <1>1, <1>2 DEF StoreNew, Inv, TypeOK, Page
<1>4. traj' = Cut(nextPage) /\ traj'.first = f /\ traj'.n = traj.n /\ traj'.t = traj.t
  BY <1>1, <1>2, <1>3, CutPageTraj DEF Cut
<1>5. Stride' = Stride /\ Stride \in Nat /\ Fp \in Nat /\ Fp >= 2
      /\ Stride = IF bSubTraj THEN Fp - 1 ELSE Fp
  BY FpAssumption DEF CutPage, Stride
<1>6. f \in Nat /\ f <= nextPage /\ f # -1
  BY <1>1, <1>3 DEF CutLaidOut, TrajBegun, Page
<1>7. traj.cur = c /\ traj.rem = traj.n - c /\ c \in Int
  <2>1. CASE traj.first = -1
    <3>1. nextPage - f = 0 /\ c = 0
      BY <2>1, <1>3, <1>5, OneMore
    <3> QED
      BY <1>1, <2>1, <3>1 DEF TrajBegun
  <2>2. CASE traj.first # -1
    <3>1. traj.cur = Offset(nextPage) /\ traj.rem = traj.n - Offset(nextPage)
      BY <1>1, <2>2 DEF CutLaidOut
    <3>2. traj.cur \in Int
      BY <1>1 DEF TrajBegun
    <3> QED
      BY <2>2, <3>1, <3>2 DEF Offset
  <2> QED
    BY <2>1, <2>2
<1>8. \A p \in Int : Offset(p)' = (p - f) * Stride
  BY <1>4, <1>5 DEF Offset
<1>9. ASSUME NEW p \in f .. nextPage
      PROVE  dat'[p] = PointsPage(traj'.t, Offset(p)', Smaller(Fp, traj'.n - Offset(p)'))
  <2>1. CASE p = nextPage
    <3>1. Offset(p)' = c
      BY <1>8, <1>3, <2>1
    <3>2. Smaller(traj.rem, Fp) = Smaller(Fp, traj.n - c)
      BY <1>1, <1>5, <1>7 DEF Smaller, TrajBegun
    <3> QED
      BY <1>3, <1>4, <1>7, <2>1, <3>1, <3>2
  <2>2. CASE p # nextPage
    <3>1. p \in f .. nextPage - 1 /\ p \in Page /\ p \in Int /\ traj.first # -1
      BY <1>3, <1>6, <2>2, BoundsAssumption DEF Page
    <3>2. f = traj.first
      BY <3>1
    <3>3. dat[p] = PointsPage(traj.t, Offset(p), Smaller(Fp, traj.n - Offset(p)))
      BY <1>1, <3>1, <3>2 DEF CutLaidOut
    <3>4. Offset(p)' = Offset(p)
      BY <1>8, <3>1, <3>2 DEF Offset
    <3> QED
      BY <1>3, <1>4, <2>2, <3>1, <3>3, <3>4
  <2> QED
    BY <2>1, <2>2
<1>10. Offset(nextPage)' = c + Stride /\ Offset(nextPage - 1)' = c
  <2>1. nextPage' \in Int /\ nextPage' - f = (nextPage - f) + 1 /\ nextPage' - 1 = nextPage
    BY <1>3, <1>6
  <2>2. (nextPage' - f) * Stride = c + Stride
    BY <2>1, <1>3, <1>5, <1>6, OneMore
  <2> QED
    BY <1>4, <1>5, <2>1, <2>2 DEF Offset
<1>11. IF traj'.rem > 0
       THEN traj'.cur = c + Stride /\ traj'.rem = traj'.n - (c + Stride)
       ELSE traj'.n <= c + Fp
  <2> HIDE DEF c, f
  <2>1. traj.n \in Int /\ traj.rem \in Int /\ traj.cur \in Int
    BY <1>1 DEF TrajBegun
  <2>2. CASE bSubTraj /\ traj.rem # Fp
    <3>1. traj'.rem = traj.rem - Fp + 1 /\ traj'.cur = traj.cur + Smaller(traj.rem, Fp) - 1
      BY <1>4, <2>2 DEF Cut
    <3> QED
      BY <1>4, <1>5, <1>7, <2>1, <2>2, <3>1 DEF Smaller
  <2>3. CASE ~ (bSubTraj /\ traj.rem # Fp)
    <3>1. traj'.rem = traj.rem - Fp /\ traj'.cur = traj.cur + Smaller(traj.rem, Fp)
      BY <1>4, <2>3 DEF Cut
    <3> QED
      BY <1>4, <1>5, <1>7, <2>1, <2>3, <3>1 DEF Smaller
  <2> QED
    BY <2>2, <2>3
<1>12. traj'.first < nextPage' /\ traj'.first .. nextPage' - 1 = f .. nextPage
  BY <1>3, <1>4, <1>6
<1> QED
  BY <1>9, <1>10, <1>11, <1>12 DEF CutLaidOut

LEMMA LaidOutStep == Inv /\ CutLaidOut /\ [Next]_vars => CutLaidOut'
<1> SUFFICES ASSUME Inv, CutLaidOut, [Next]_vars PROVE CutLaidOut'
  OBVIOUS
<1>1. traj'.first = -1 => CutLaidOut'
  BY DEF CutLaidOut
<1>2. CASE traj = NoTraj
  <2>1. \/ traj' = traj \/ traj' = NoTraj \/ BeginTraj
    BY <1>2, FailingFacts DEF Next, Failing, Create, Open, LoadFile, DropTraj, CutPage, InsertRow, EndLoad, FlushDisk,
        TruncateProperty, WriteProperty, NewTree, NewHeader, BeginBulk, BulkNode, EndBulk,
        BulkThrows, Close, Crash, Forget, vars
  <2>2. BeginTraj => traj'.first = -1
    BY DEF BeginTraj, Begun
  <2> QED
    BY <1>1, <1>2, <2>1, <2>2 DEF NoTraj
<1>3. CASE traj # NoTraj
  <2>1. pc \in {"load", "append"} /\ open
    BY <1>3 DEF Inv, Types, TrajTyped
  <2>2. CASE CutPage
    BY <2>2, CutStep DEF CutLaidOut
  <2>3. CASE InsertRow \/ Failing \/ Crash
    BY <1>1, <2>3, FailingFacts DEF InsertRow, Crash, Forget, NoTraj
  <2>4. CASE UNCHANGED vars
    BY <2>4 DEF vars, diskVars, ghostVars, CutLaidOut, Offset, Stride
  <2>5. CutPage \/ InsertRow \/ Failing \/ Crash \/ UNCHANGED vars
    BY <1>3, <2>1 DEF Next, Failing, Create, Open, LoadFile, BeginTraj, DropTraj, NextLine, EndLoad,
        FlushDisk, TruncateProperty, WriteProperty, NewTree, NewHeader, BeginBulk, BulkNode,
        EndBulk, BulkThrows, Close, Loading
  <2> QED
    BY <2>2, <2>3, <2>4, <2>5
<1> QED
  BY <1>2, <1>3

(* The pages of a trajectory follow one another, hold its points in order  *)
(* at the offsets loadTraj computes, and reach its last point when its row *)
(* is inserted, however many points it has; so it is trusted rightly that  *)
(* its first page leads to the others (xStore::loadFile, loadTraj).        *)
THEOREM TrajectoriesLaidOut == Spec => []CutLaidOut
<1>1. Init => CutLaidOut
  BY DEF Init, CutLaidOut, NoTraj
<1> QED
  BY <1>1, LaidOutStep, InvHolds, PTL DEF Spec

-----------------------------------------------------------------------------
(* The pages before end that trajectory x was cut into hold it. *)
LaidOut(x, end) ==
  /\ x.page \in Page
  /\ \E last \in x.page .. end - 1 :
       /\ x.n <= (last - x.page) * Stride + Fp
       /\ \A p \in x.page .. last :
            dat[p] = PointsPage(x.t, (p - x.page) * Stride,
                                Smaller(Fp, x.n - (p - x.page) * Stride))

(* What a process has loaded stays where it was laid out, and what some    *)
(* flush has covered stays there for later processes too.                  *)
KeptLaidOut ==
  ~failedBuild =>
    /\ \A id \in DOMAIN mine : LaidOut(mine[id], nextPage)
    /\ \A id \in DOMAIN committed : LaidOut(committed[id], idx.next)

KeptInv ==
  /\ PageInv /\ CutLaidOut /\ KeptLaidOut
  /\ ~failedBuild => \A p \in emptyPages : dat[p].kind = "node"
  /\ ~open => mine = Empty
  /\ pc \in {"truncate", "write"} => open /\ idx.next = nextPage

(* A page in use that holds points is not written while there is no reason *)
(* to (Create clears all).                                                 *)
LEMMA LivePointsStay ==
  ASSUME KeptInv, Next, ~Create, ~failedBuild
  PROVE  \A p \in 0 .. nextPage - 1 : dat[p].kind = "points" => dat'[p] = dat[p]
<1>1. /\ TypeOK /\ EmptyBelow /\ BuildPages /\ \A p \in emptyPages : dat[p].kind = "node"
      /\ nextPage \in Nat /\ 0 .. nextPage - 1 \subseteq Page
  BY BoundsAssumption DEF KeptInv, PageInv, Inv, TypeOK, Page
<1>2. ASSUME NEW content, StoreNew(content)
      PROVE  \A p \in 0 .. nextPage - 1 : dat[p].kind = "points" => dat'[p] = dat[p]
  <2>1. /\ PageTaken \in emptyPages \/ PageTaken >= nextPage
        /\ \A p \in Page : p # PageTaken => dat'[p] = dat[p]
        /\ PageTaken \in Nat
    BY <1>1, <1>2, StoreNewPage, BoundsAssumption DEF Page
  <2> QED
    BY <1>1, <2>1
<1>3. CASE dat' = dat
  BY <1>3
<1>4. CASE CutPage
  BY <1>2, <1>4 DEF CutPage
<1>5. CASE \E name \in Names : NewTree(name)
  BY <1>2, <1>5 DEF NewTree
<1>6. CASE NewHeader
  BY <1>2, <1>6 DEF NewHeader
<1>7. CASE BulkNode
  BY <1>2, <1>7 DEF BulkNode
<1>8. CASE EndBulk
  <2>1. dat' = [dat EXCEPT ![tree.header] = HeaderPage(tree.name, tree.root)]
        /\ dat[tree.header].kind = "header"
    BY <1>1, <1>8 DEF EndBulk, BuildPages
  <2> QED
    BY <1>1, <2>1 DEF TypeOK
<1>10. CASE Failing
  BY <1>2, <1>3, <1>10, FailingFacts
<1>9. \/ dat' = dat \/ CutPage \/ (\E name \in Names : NewTree(name)) \/ NewHeader
      \/ BulkNode \/ EndBulk \/ Failing
  BY DEF Next, Failing, Open, LoadFile, BeginTraj, DropTraj, NextLine, InsertRow, EndLoad, FlushDisk,
      TruncateProperty, WriteProperty, BeginBulk, BulkThrows, Close, Crash, Forget, diskVars
<1> QED
  BY <1>3, <1>4, <1>5, <1>6, <1>7, <1>8, <1>9, <1>10

LEMMA LaidOutStays ==
  ASSUME NEW x, NEW end \in Nat, NEW end2 \in Nat, end <= end2,
         LaidOut(x, end), Stride' = Stride,
         \A p \in 0 .. end - 1 : dat[p].kind = "points" => dat'[p] = dat[p]
  PROVE  LaidOut(x, end2)'
<1>1. x.page \in Nat /\ x.page \in Page
  BY BoundsAssumption DEF LaidOut, Page
<1>2. PICK last \in x.page .. end - 1 :
        /\ x.n <= (last - x.page) * Stride + Fp
        /\ \A p \in x.page .. last :
             dat[p] = PointsPage(x.t, (p - x.page) * Stride,
                                 Smaller(Fp, x.n - (p - x.page) * Stride))
  BY DEF LaidOut
<1>3. ASSUME NEW p \in x.page .. last
      PROVE  dat'[p] = dat[p]
  <2>1. p \in 0 .. end - 1
    BY <1>1
  <2>2. dat[p].kind = "points"
    <3>1. dat[p] = PointsPage(x.t, (p - x.page) * Stride,
                              Smaller(Fp, x.n - (p - x.page) * Stride))
      BY <1>2
    <3>2. \A a, b, c : PointsPage(a, b, c).kind = "points"
      BY DEF PointsPage
    <3> QED
      BY <3>1, <3>2
  <2> QED
    BY <2>1, <2>2
<1>4. last \in x.page .. end2 - 1
  BY <1>1
<1> QED
  BY <1>1, <1>2, <1>3, <1>4 DEF LaidOut

(* The trajectory whose row is inserted. *)
LEMMA InsertedLaidOut ==
  ASSUME KeptInv, InsertRow, ~failedBuild
  PROVE  LaidOut([t |-> traj.t, n |-> traj.n, page |-> traj.first], nextPage)
<1>1. traj \in TrajBegun /\ traj.n >= 2 /\ traj.rem <= 0 /\ traj.first # -1
  BY DEF InsertRow, KeptInv, PageInv, Inv, Types, TrajTyped, TrajBegun
<1>2. /\ traj.first \in Page /\ traj.first \in Nat /\ traj.first < nextPage
      /\ \A p \in traj.first .. nextPage - 1 :
           dat[p] = PointsPage(traj.t, Offset(p), Smaller(Fp, traj.n - Offset(p)))
      /\ traj.n <= Offset(nextPage - 1) + Fp
  BY <1>1, BoundsAssumption DEF KeptInv, CutLaidOut, TrajBegun, Page
<1>3. nextPage - 1 \in traj.first .. nextPage - 1
  BY <1>2, BoundsAssumption DEF KeptInv, PageInv, Inv, TypeOK
<1> QED
  BY <1>2, <1>3 DEF LaidOut, Offset

LEMMA KeptStep ==
  ASSUME KeptInv, Next, PageInv', ~failedBuild'
  PROVE  KeptLaidOut'
<1>1. CASE Create
  BY <1>1, EmptyDomain DEF Create, KeptInv, KeptLaidOut
<1>2. CASE ~Create
  <2>1. ~failedBuild
    BY <1>2, FailingFacts DEF Next, Failing, Open, LoadFile, BeginTraj, DropTraj, NextLine, CutPage,
        InsertRow, EndLoad, FlushDisk, TruncateProperty, WriteProperty, NewTree, NewHeader,
        BeginBulk, BulkNode, EndBulk, BulkThrows, Close, Crash, Forget, ghostVars
  <2>2. Stride' = Stride
    BY <1>2, FailingFacts DEF Stride, Next, Failing, Open, LoadFile, BeginTraj, DropTraj, NextLine, CutPage, InsertRow,
        EndLoad, FlushDisk, TruncateProperty, WriteProperty, NewTree, NewHeader, BeginBulk,
        BulkNode, EndBulk, BulkThrows, Close, Crash, Forget
  <2>3. \A p \in 0 .. nextPage - 1 : dat[p].kind = "points" => dat'[p] = dat[p]
    BY <1>2, <2>1, LivePointsStay
  <2>4. nextPage \in Nat /\ nextPage' \in Nat /\ idx.next \in Nat /\ idx'.next \in Nat
        /\ (open => idx.next <= nextPage)
    BY BoundsAssumption DEF KeptInv, PageInv, Inv, TypeOK, SavedBelow
  <2>5. ASSUME NEW x, LaidOut(x, idx.next)
        PROVE  idx.next <= idx'.next => LaidOut(x, idx.next)'
    <3>1. \A p \in 0 .. idx.next - 1 : dat[p].kind = "points" => dat'[p] = dat[p]
      <4>1. CASE open
        BY <2>3, <2>4, <4>1
      <4>2. CASE ~open
        <5>1. dat' = dat
          BY <1>2, <4>2, FailingFacts DEF Next, Failing, Open, LoadFile, BeginTraj, DropTraj,
              NextLine, CutPage, InsertRow, EndLoad, FlushDisk, TruncateProperty, WriteProperty, NewTree, NewHeader,
              BeginBulk, BulkNode, EndBulk, BulkThrows, Close, Crash, Loading
        <5> QED
          BY <5>1
      <4> QED
        BY <4>1, <4>2
    <3> QED
      BY <2>2, <2>4, <2>5, <3>1, LaidOutStays
  <2>6. ASSUME NEW x, LaidOut(x, nextPage)
        PROVE  nextPage <= nextPage' => LaidOut(x, nextPage)'
    BY <2>2, <2>3, <2>4, <2>6, LaidOutStays
  <2>7. idx.next <= idx'.next
    <3>1. idx' = idx \/ (idx' = Header /\ open)
      BY <1>2, FailingFacts DEF Next, Failing, Open, LoadFile, BeginTraj, DropTraj, NextLine,
          CutPage, InsertRow, EndLoad, FlushDisk, TruncateProperty, WriteProperty, NewTree, NewHeader, BeginBulk, BulkNode,
          EndBulk, BulkThrows, Close, Crash, StoreNew, diskVars
    <3> QED
      BY <2>4, <3>1 DEF Header
  <2>8. ASSUME NEW id \in DOMAIN mine'
        PROVE  LaidOut(mine[id], nextPage)'
    <3>1. \A x : x = mine'[id] /\ LaidOut(x, nextPage)' => LaidOut(mine[id], nextPage)'
      BY DEF LaidOut, Stride
    <3>2. CASE InsertRow
      <4>1. nextPage' = nextPage
        BY <3>2 DEF InsertRow, diskVars
      <4>2. id \in DOMAIN mine \cup {traj.id}
            /\ mine'[id] = IF id = traj.id THEN [t |-> traj.t, n |-> traj.n, page |-> traj.first]
                          ELSE mine[id]
        BY <3>2 DEF InsertRow, Put
      <4>3. LaidOut(mine'[id], nextPage)
        <5>1. CASE id = traj.id
          BY <2>1, <3>2, <4>2, <5>1, InsertedLaidOut
        <5>2. CASE id # traj.id
          BY <2>1, <4>2, <5>2 DEF KeptInv, KeptLaidOut
        <5> QED
          BY <5>1, <5>2
      <4> QED
        BY <2>4, <2>6, <3>1, <4>1, <4>3
    <3>3. CASE mine' = Empty
      BY <3>3, EmptyDomain
    <3>4. CASE mine' = mine /\ open /\ nextPage <= nextPage'
      <4>1. LaidOut(mine[id], nextPage)
        BY <2>1, <3>4 DEF KeptInv, KeptLaidOut
      <4> QED
        BY <2>6, <3>1, <3>4, <4>1
    <3>5. \/ InsertRow
          \/ mine' = Empty
          \/ (mine' = mine /\ open /\ nextPage <= nextPage')
      <4>1. CASE ~open
        BY <1>2, <4>1, FailingFacts DEF KeptInv, Next, Failing, Open, LoadFile, BeginTraj, DropTraj, NextLine, CutPage,
            InsertRow, EndLoad, FlushDisk, TruncateProperty, WriteProperty, NewTree, NewHeader,
            BeginBulk, BulkNode, EndBulk, BulkThrows, Close, Crash, Loading, ghostVars
      <4>2. CASE open
        <5>1. ASSUME NEW content, StoreNew(content) PROVE nextPage <= nextPage'
          BY <2>4, <5>1, StoreNewPage DEF KeptInv, PageInv, Inv
        <5>2. \/ InsertRow
              \/ mine' = Empty
              \/ (mine' = mine /\ nextPage' = nextPage)
              \/ (mine' = mine /\ \E content : StoreNew(content))
          BY <1>2, <4>2, FailingFacts DEF Next, Failing, Open, LoadFile, BeginTraj, DropTraj,
              NextLine, CutPage, EndLoad, FlushDisk, TruncateProperty, WriteProperty, NewTree, NewHeader,
              BeginBulk, BulkNode, EndBulk, BulkThrows, Close, Crash, Forget, diskVars, ghostVars
        <5> QED
          BY <2>4, <4>2, <5>1, <5>2
      <4> QED
        BY <4>1, <4>2
    <3> QED
      BY <3>2, <3>3, <3>4, <3>5
  <2>9. ASSUME NEW id \in DOMAIN committed'
        PROVE  LaidOut(committed[id], idx.next)'
    <3>1. \A x : x = committed'[id] /\ LaidOut(x, idx.next)' => LaidOut(committed[id], idx.next)'
      BY DEF LaidOut, Stride
    <3>2. LaidOut(committed'[id], idx.next)
      <4>1. CASE WriteProperty
        <5>1. /\ id \in DOMAIN committed \cup DOMAIN mine
              /\ committed'[id] = IF id \in DOMAIN committed THEN committed[id] ELSE mine[id]
          BY <4>1 DEF WriteProperty
        <5>2. idx.next = nextPage
          BY <4>1 DEF WriteProperty, KeptInv
        <5> QED
          BY <2>1, <5>1, <5>2 DEF KeptInv, KeptLaidOut
      <4>2. CASE committed' = committed
        BY <2>1, <4>2 DEF KeptInv, KeptLaidOut
      <4>3. WriteProperty \/ committed' = committed
        BY <1>2, FailingFacts DEF Next, Failing, Open, LoadFile, BeginTraj, DropTraj, NextLine,
            CutPage, InsertRow, EndLoad, FlushDisk, TruncateProperty, NewTree, NewHeader, BeginBulk, BulkNode,
            EndBulk, BulkThrows, Close, Crash, Forget, ghostVars
      <4> QED
        BY <4>1, <4>2, <4>3
    <3> QED
      BY <2>5, <2>7, <3>1, <3>2
  <2> QED
    BY <2>8, <2>9 DEF KeptLaidOut
<1> QED
  BY <1>1, <1>2

LEMMA KeptInit == Init => KeptInv
<1> SUFFICES ASSUME Init PROVE KeptInv
  OBVIOUS
<1>1. PageInv
  BY PageInit
<1>2. CutLaidOut
  BY DEF Init, CutLaidOut, NoTraj
<1> QED
  BY <1>1, <1>2, EmptyDomain DEF Init, KeptInv, KeptLaidOut

LEMMA KeptInvStep == KeptInv /\ [Next]_vars => KeptInv'
<1> SUFFICES ASSUME KeptInv, [Next]_vars PROVE KeptInv'
  OBVIOUS
<1>1. PageInv' /\ Inv'
  BY PageStep DEF KeptInv, PageInv
<1>2. CutLaidOut'
  BY LaidOutStep DEF KeptInv, PageInv
<1>3. CASE Next
  <2>1. KeptLaidOut'
    <3>1. CASE failedBuild'
      BY <3>1 DEF KeptLaidOut
    <3>2. CASE ~failedBuild'
      BY <1>1, <1>3, <3>2, KeptStep
    <3> QED
      BY <3>1, <3>2
  <2>2. (~failedBuild => \A p \in emptyPages : dat[p].kind = "node")'
    <3>1. SUFFICES ASSUME ~failedBuild', NEW p \in emptyPages' PROVE dat'[p].kind = "node"
      OBVIOUS
    <3>2. pc' = "nodes" /\ tree'.nodes = 0 /\ p = tree'.root
      BY <1>1, <3>1 DEF Inv, OnlyRootFreed
    <3>3. BeginBulk
      <4>1. ASSUME BulkNode PROVE FALSE
        <5>1. pc = "nodes" /\ tree' = [tree EXCEPT !.root = PageTaken, !.nodes = @ + 1]
          BY <4>1 DEF BulkNode
        <5>2. tree \in TreeBegun
          BY <5>1 DEF KeptInv, PageInv, Inv, Types, TreeTyped
        <5>3. tree'.nodes = tree.nodes + 1 /\ tree.nodes \in Nat
          BY <5>1, <5>2 DEF TreeBegun
        <5> QED
          BY <3>2, <5>3
      <4>2. ~open => pc = "idle"
        BY DEF KeptInv, PageInv, Inv
      <4>3. CASE \E name \in Names : NewTree(name)
        BY <3>2, <4>3 DEF NewTree
      <4> QED
        BY <1>3, <3>2, <4>1, <4>2, <4>3, FailingFacts DEF Next, Failing, Create, Open, LoadFile, BeginTraj, DropTraj,
            NextLine, CutPage, InsertRow, EndLoad, FlushDisk, TruncateProperty, WriteProperty,
            NewHeader, EndBulk, BulkThrows, Close, Crash, Forget, Loading
    <3> QED
      BY <3>1, <3>2, <3>3 DEF BeginBulk, KeptInv, PageInv, BuildPages
  <2>3. (~open => mine = Empty)'
    BY <1>3, FailingFacts DEF KeptInv, Next, Failing, Create, Open, LoadFile, BeginTraj, DropTraj, NextLine, CutPage,
        InsertRow, EndLoad, FlushDisk, TruncateProperty, WriteProperty, NewTree, NewHeader,
        BeginBulk, BulkNode, EndBulk, BulkThrows, Close, Crash, Forget, Loading, ghostVars
  <2>4. (pc \in {"truncate", "write"} => open /\ idx.next = nextPage)'
    BY <1>3, FailingFacts DEF KeptInv, Next, Failing, Create, Open, LoadFile, BeginTraj, DropTraj, NextLine, CutPage,
        InsertRow, EndLoad, FlushDisk, TruncateProperty, WriteProperty, NewTree, NewHeader,
        BeginBulk, BulkNode, EndBulk, BulkThrows, Close, Crash, Forget, Loading, Header,
        diskVars
  <2> QED
    BY <1>1, <1>2, <2>1, <2>2, <2>3, <2>4 DEF KeptInv
<1>4. CASE UNCHANGED vars
  BY <1>1, <1>2, <1>4 DEF vars, diskVars, ghostVars, KeptInv, KeptLaidOut, LaidOut, Stride
<1> QED
  BY <1>3, <1>4

(* What a process has loaded lies on consecutive pages from the one its    *)
(* row got, each holding the points loadTraj expects there, while it       *)
(* appends files and builds indexes; and what a flush has covered lies     *)
(* there for every later process, even one that starts from that flush's   *)
(* header after a crash. A bulk load that threw is excepted: it leaves an  *)
(* empty page that the next trajectory may begin on.                       *)
THEOREM LoadedLaidOut == Spec => []KeptLaidOut
<1>1. KeptInv => KeptLaidOut
  BY DEF KeptInv
<1> QED
  BY <1>1, KeptInit, KeptInvStep, PTL DEF Spec

-----------------------------------------------------------------------------
(* A name leads to the header of its index and from there to the last node *)
(* of its bulk load. NamesLead says so of the names in memory, with the    *)
(* allocator in memory, and of those in the .property file, with the       *)
(* allocator of the last flush; the tree that is being built is on its way *)
(* there (TreeAtHand).                                                     *)
Named(page, name) == page.kind = "node" /\ page.name = name

LeadsTo(d, name, header, end) ==
  /\ header \in 1 .. end - 1
  /\ d[header].kind = "header"
  /\ d[header].name = name
  /\ d[header].root \in header - 1 .. end - 1
  /\ Named(d[d[header].root], name)
  /\ \A p \in header - 1 .. end - 1 :
       Named(d[p], name) => d[p].k <= d[d[header].root].k

TreeAtHand ==
  /\ pc = "header" =>
       /\ tree.root = nextPage - 1 /\ idx.next <= tree.root
       /\ dat[tree.root] = NodePage(tree.name, 0)
  /\ pc \in {"bulk", "nodes"} =>
       /\ tree.name \in DOMAIN names
       /\ names[tree.name] = tree.header
       /\ tree.header \in 1 .. nextPage - 1 /\ idx.next < tree.header
       /\ dat[tree.header].kind = "header"
       /\ dat[tree.header].name = tree.name
       /\ tree.root \in tree.header - 1 .. nextPage - 1
       /\ dat[tree.root] = NodePage(tree.name, tree.nodes)
       /\ \A p \in tree.header - 1 .. nextPage - 1 :
            Named(dat[p], tree.name) => dat[p].k \in 0 .. tree.nodes

AtHand(name) == pc \in {"bulk", "nodes"} /\ name = tree.name

LiveNamesLead ==
  open => \A name \in DOMAIN names \ earlier.names :
            AtHand(name) \/ LeadsTo(dat, name, names[name], nextPage)

SavedNamesLead ==
  \A name \in DOMAIN property.names \ earlier.names :
    LeadsTo(dat, name, property.names[name], idx.next)

(* The .property file holds no name that memory has not, and a flush saves *)
(* the allocator before it.                                                *)
NamesKnown ==
  /\ property.is = "absent" => DOMAIN property.names = {}
  /\ open => \A name \in DOMAIN property.names \ earlier.names :
               name \in DOMAIN names /\ names[name] = property.names[name]
  /\ pc \in {"truncate", "write"} => idx.next = nextPage
  /\ pc = "header" => tree.name \notin DOMAIN names

NameInv ==
  /\ NamesKnown
  /\ ~failedBuild => TreeAtHand /\ LiveNamesLead /\ SavedNamesLead

(* A name leads where it led when pages are written, and added, that are   *)
(* neither its header nor a node of its index, before and after.           *)
LEMMA LeadsStill ==
  \A d1, d2, name, h : \A e1, e2 \in Nat :
    /\ LeadsTo(d1, name, h, e1)
    /\ e1 <= e2
    /\ \A p \in 0 .. e2 - 1 :
         \/ p < e1 /\ d2[p] = d1[p]
         \/ ~ Named(d2[p], name) /\ (p < e1 => ~ Named(d1[p], name) /\ p # h)
    => LeadsTo(d2, name, h, e2)
<1> TAKE d1, d2, name, h
<1> TAKE e1, e2 \in Nat
<1> HAVE /\ LeadsTo(d1, name, h, e1)
         /\ e1 <= e2
         /\ \A p \in 0 .. e2 - 1 :
              \/ p < e1 /\ d2[p] = d1[p]
              \/ ~ Named(d2[p], name) /\ (p < e1 => ~ Named(d1[p], name) /\ p # h)
<1> DEFINE r == d1[h].root
<1>1. h \in 1 .. e1 - 1 /\ r \in h - 1 .. e1 - 1 /\ Named(d1[r], name)
  BY DEF LeadsTo
<1>2. h \in 0 .. e2 - 1 /\ h < e1 /\ r \in 0 .. e2 - 1 /\ r < e1
  <2> HIDE DEF r
  <2> QED
    BY <1>1
<1>3. d2[h] = d1[h]
  BY <1>2
<1>4. d2[r] = d1[r]
  <2> HIDE DEF r
  <2> QED
    BY <1>1, <1>2
<1>5. h \in 1 .. e2 - 1 /\ r \in h - 1 .. e2 - 1
  <2> HIDE DEF r
  <2> QED
    BY <1>1
<1>6. ASSUME NEW p \in h - 1 .. e2 - 1, Named(d2[p], name)
      PROVE  d2[p].k <= d2[r].k
  <2>1. p \in 0 .. e2 - 1
    BY <1>1
  <2>2. p < e1 /\ d2[p] = d1[p]
    BY <1>6, <2>1
  <2>3. p \in h - 1 .. e1 - 1
    BY <1>1, <2>1, <2>2
  <2>4. d1[p].k <= d1[r].k
    BY <1>6, <2>2, <2>3 DEF LeadsTo
  <2> QED
    BY <1>4, <2>2, <2>4
<1>7. d2[h].kind = "header" /\ d2[h].name = name /\ d2[h].root = r
  BY <1>3 DEF LeadsTo
<1> HIDE DEF r
<1> QED
  BY <1>1, <1>4, <1>5, <1>6, <1>7 DEF LeadsTo

LEMMA NameInit == Init => NameInv
<1> SUFFICES ASSUME Init PROVE NameInv
  OBVIOUS
<1>1. DOMAIN names = {} /\ DOMAIN property.names = {} /\ ~open /\ pc = "idle"
  BY EmptyDomain DEF Init, NoProperty
<1> QED
  BY <1>1 DEF NameInv, NamesKnown, TreeAtHand, LiveNamesLead, SavedNamesLead

LEMMA NameTypes ==
  ASSUME PageInv
  PROVE  /\ MaxPage \in Nat /\ nextPage \in 0 .. MaxPage /\ idx.next \in 0 .. MaxPage
         /\ nextPage \in Nat /\ idx.next \in Nat
         /\ DOMAIN dat = 0 .. MaxPage - 1
         /\ 0 .. nextPage - 1 \subseteq Page
         /\ open => idx.next <= nextPage
<1>1. MaxPage \in Nat
  BY BoundsAssumption
<1> QED
  BY <1>1 DEF PageInv, Inv, TypeOK, SavedBelow, Page

(* A step that leaves pages, names and the tree at hand as they are. *)
LEMMA QuietNames ==
  ASSUME NameInv, UNCHANGED <<open, nextPage, idx, dat, names, property, tree, failedBuild>>,
         earlier'.names = earlier.names,
         pc \notin {"header", "bulk", "nodes"}, pc' \notin {"header", "bulk", "nodes"},
         pc' \in {"truncate", "write"} => pc \in {"truncate", "write"}
  PROVE  NameInv'
<1>1. NamesKnown'
  BY DEF NameInv, NamesKnown
<1>2. TreeAtHand'
  BY DEF TreeAtHand
<1>3. ~failedBuild => LiveNamesLead' /\ SavedNamesLead'
  BY DEF NameInv, LiveNamesLead, SavedNamesLead, AtHand
<1> QED
  BY <1>1, <1>2, <1>3 DEF NameInv

LEMMA StoreNameStep ==
  ASSUME PageInv, NameInv,
         \/ Create \/ Open \/ \E file \in Appended : LoadFile(file)
         \/ EndLoad \/ FlushDisk \/ TruncateProperty \/ WriteProperty
         \/ Close \/ Crash
  PROVE  NameInv'
<1>0. ~open => pc = "idle"
  BY DEF PageInv, Inv
<1>1. CASE Create
  <2>1. names' = Empty /\ pc' = "load" /\ UNCHANGED property
        /\ earlier' = IF FilesExist THEN [ids |-> DOMAIN rows, names |-> DOMAIN property.names]
                      ELSE earlier
    BY <1>1 DEF Create
  <2>2. DOMAIN names' = {}
    BY <2>1, EmptyDomain
  <2>3. DOMAIN property'.names \ earlier'.names = {}
    BY <2>1 DEF NameInv, NamesKnown, FilesExist
  <2>4. property'.is = "absent" => DOMAIN property'.names = {}
    BY <2>1 DEF NameInv, NamesKnown
  <2> QED
    BY <2>1, <2>2, <2>3, <2>4
       DEF NameInv, NamesKnown, TreeAtHand, LiveNamesLead, SavedNamesLead
<1>2. CASE Open
  <2>1. /\ nextPage' = idx.next /\ names' = property.names /\ ~open /\ pc = "idle" /\ pc' = "idle"
        /\ UNCHANGED <<idx, dat, property, earlier, failedBuild>>
    BY <1>0, <1>2 DEF Open, ghostVars
  <2>2. NamesKnown'
    BY <2>1 DEF NameInv, NamesKnown
  <2>3. TreeAtHand'
    BY <2>1 DEF TreeAtHand
  <2>4. ~failedBuild => LiveNamesLead' /\ SavedNamesLead'
    BY <2>1 DEF NameInv, LiveNamesLead, SavedNamesLead
  <2> QED
    BY <2>1, <2>2, <2>3, <2>4 DEF NameInv
<1>3. CASE \E file \in Appended : LoadFile(file)
  BY <1>3, QuietNames DEF LoadFile, diskVars, ghostVars
<1>4. CASE EndLoad
  BY <1>4, QuietNames DEF EndLoad, Loading, diskVars, ghostVars
<1>5. CASE FlushDisk
  <2>1. /\ open /\ pc = "flush" /\ pc' = "truncate" /\ idx'.next = nextPage
        /\ UNCHANGED <<open, nextPage, dat, names, property, earlier, failedBuild>>
    BY <1>5 DEF FlushDisk, Header, ghostVars
  <2>2. NamesKnown'
    BY <2>1 DEF NameInv, NamesKnown
  <2>3. TreeAtHand'
    BY <2>1 DEF TreeAtHand
  <2>4. ~failedBuild => LiveNamesLead' /\ SavedNamesLead'
    BY <2>1 DEF NameInv, NamesKnown, LiveNamesLead, SavedNamesLead, AtHand
  <2> QED
    BY <2>1, <2>2, <2>3, <2>4 DEF NameInv
<1>6. CASE TruncateProperty
  <2>1. /\ open /\ pc = "truncate" /\ pc' = "write" /\ property' = TornProperty
        /\ UNCHANGED <<open, nextPage, idx, dat, names, earlier, failedBuild>>
    BY <1>6 DEF TruncateProperty, diskVars, ghostVars
  <2>2. DOMAIN property'.names = {}
    BY <2>1, EmptyDomain DEF TornProperty
  <2>3. NamesKnown'
    BY <2>1, <2>2 DEF NameInv, NamesKnown
  <2>4. TreeAtHand' /\ SavedNamesLead'
    BY <2>1, <2>2 DEF TreeAtHand, SavedNamesLead
  <2>5. ~failedBuild => LiveNamesLead'
    BY <2>1 DEF NameInv, LiveNamesLead, AtHand
  <2> QED
    BY <2>1, <2>3, <2>4, <2>5 DEF NameInv
<1>7. CASE WriteProperty
  <2>1. /\ open /\ pc = "write" /\ pc' = "idle" /\ property' = [is |-> "written", names |-> names]
        /\ earlier' = IF names = Empty THEN [earlier EXCEPT !.names = {}] ELSE earlier
        /\ UNCHANGED <<open, nextPage, idx, dat, names, failedBuild>>
    BY <1>7 DEF WriteProperty, diskVars
  <2>2. DOMAIN names \ earlier'.names = DOMAIN names \ earlier.names
    BY <2>1, EmptyDomain
  <2>3. NamesKnown'
    BY <2>1, <2>2 DEF NameInv, NamesKnown
  <2>4. TreeAtHand'
    BY <2>1 DEF TreeAtHand
  <2>5. ~failedBuild => LiveNamesLead' /\ SavedNamesLead'
    BY <2>1, <2>2 DEF NameInv, NamesKnown, LiveNamesLead, SavedNamesLead, AtHand
  <2> QED
    BY <2>1, <2>3, <2>4, <2>5 DEF NameInv
<1>8. CASE Close \/ Crash
  <2>1. /\ open /\ ~open' /\ pc' = "idle"
        /\ UNCHANGED <<dat, property, earlier, failedBuild>>
        /\ idx' = idx \/ (pc = "idle" /\ idx'.next = nextPage)
    BY <1>8 DEF Close, Crash, Forget, Header
  <2>2. NamesKnown'
    BY <2>1 DEF NameInv, NamesKnown
  <2>3. TreeAtHand' /\ LiveNamesLead'
    BY <2>1 DEF TreeAtHand, LiveNamesLead
  <2>4. ~failedBuild => SavedNamesLead'
    BY <2>1 DEF NameInv, NamesKnown, LiveNamesLead, SavedNamesLead, AtHand
  <2> QED
    BY <2>1, <2>2, <2>3, <2>4 DEF NameInv
<1> QED
  BY <1>1, <1>2, <1>3, <1>4, <1>5, <1>6, <1>7, <1>8

(* A page is taken: beyond the flush, and from no other index. *)
LEMMA StoreNames ==
  ASSUME PageInv, NameInv, ~failedBuild, open, NEW content, StoreNew(content),
         PageTaken >= idx.next,
         PageTaken < nextPage => dat[PageTaken].kind = "node"
  PROVE  /\ \A name, h : LeadsTo(dat, name, h, idx.next) => LeadsTo(dat', name, h, idx'.next)
         /\ \A name, h :
              /\ LeadsTo(dat, name, h, nextPage)
              /\ ~ Named(content, name)
              /\ PageTaken < nextPage => dat[PageTaken].name # name
              => LeadsTo(dat', name, h, nextPage')
<1>1. /\ PageTaken \in Page
      /\ PageTaken < nextPage' /\ nextPage <= nextPage'
      /\ PageTaken \in emptyPages \/ PageTaken >= nextPage
      /\ idx' = idx
      /\ dat'[PageTaken] = content
      /\ \A p \in Page : p # PageTaken => dat'[p] = dat[p]
  BY StoreNewPage DEF PageInv, Inv
<1>2. /\ nextPage \in Nat /\ idx.next \in Nat /\ idx.next <= nextPage
      /\ nextPage' \in Nat /\ PageTaken \in Nat
      /\ \A p \in Nat : p < nextPage' => p \in Page
  <2>1. nextPage' \in 0 .. MaxPage
    BY StoreNewTyped DEF PageInv, Inv
  <2>2. MaxPage \in Nat /\ nextPage \in Nat /\ idx.next \in Nat /\ idx.next <= nextPage
    BY NameTypes
  <2>3. PageTaken \in Nat
    BY <1>1, <2>2 DEF Page
  <2>4. nextPage' \in Nat /\ nextPage' <= MaxPage
    BY <2>1, <2>2
  <2>5. ASSUME NEW p \in Nat, p < nextPage' PROVE p \in Page
    BY <2>2, <2>4, <2>5 DEF Page
  <2> QED
    BY <2>2, <2>3, <2>4, <2>5
<1>3. nextPage' = nextPage \/ (nextPage' = nextPage + 1 /\ PageTaken = nextPage)
  BY <1>2 DEF StoreNew, PageTaken
<1>4. ASSUME NEW name, NEW h, LeadsTo(dat, name, h, idx.next)
      PROVE  LeadsTo(dat', name, h, idx'.next)
  <2>1. ASSUME NEW p \in 0 .. idx.next - 1 PROVE p < idx.next /\ dat'[p] = dat[p]
    <3>1. p \in Nat /\ p < idx.next
      BY <1>2
    <3>2. p < nextPage' /\ p # PageTaken
      BY <1>1, <1>2, <3>1
    <3>3. p \in Page
      BY <1>2, <3>1, <3>2
    <3> QED
      BY <1>1, <3>1, <3>2, <3>3
  <2> QED
    BY <1>1, <1>2, <1>4, <2>1, LeadsStill
<1>5. ASSUME NEW name, NEW h, LeadsTo(dat, name, h, nextPage), ~ Named(content, name),
             PageTaken < nextPage => dat[PageTaken].name # name
      PROVE  LeadsTo(dat', name, h, nextPage')
  <2>1. PageTaken < nextPage => ~ Named(dat[PageTaken], name) /\ PageTaken # h
    BY <1>5 DEF Named, LeadsTo
  <2>0. PICK e \in Nat : e = nextPage'
    BY <1>2
  <2>2. ASSUME NEW p \in 0 .. e - 1
        PROVE  \/ p < nextPage /\ dat'[p] = dat[p]
               \/ ~ Named(dat'[p], name) /\ (p < nextPage => ~ Named(dat[p], name) /\ p # h)
    <3>1. CASE p = PageTaken
      BY <1>1, <1>5, <2>1, <3>1
    <3>2. CASE p # PageTaken
      <4>0. p \in Nat /\ p < e
        OBVIOUS
      <4>1. p \in Nat /\ p < nextPage'
        BY <1>2, <2>0, <4>0
      <4>2. p \in Page
        BY <1>2, <4>1
      <4>3. p < nextPage
        BY <1>2, <1>3, <3>2, <4>1
      <4> QED
        BY <1>1, <3>2, <4>2, <4>3
    <3> QED
      BY <3>1, <3>2
  <2> QED
    BY <1>1, <1>2, <1>5, <2>0, <2>2, LeadsStill
<1> QED
  BY <1>4, <1>5

LEMMA LoadNameStep ==
  ASSUME PageInv, NameInv, BeginTraj \/ DropTraj \/ CutPage \/ InsertRow \/ Failing
  PROVE  NameInv'
<1>1. CASE BeginTraj \/ DropTraj
  <2>1. NextLine
    BY <1>1, Zenon DEF BeginTraj, DropTraj
  <2> QED
    BY <2>1, QuietNames DEF NextLine, Loading, diskVars, ghostVars
<1>2. ASSUME NEW content, StoreNew(content), \A name : ~ Named(content, name),
             open, pc \in {"load", "append"}, earlier'.names = earlier.names,
             UNCHANGED <<open, names, property, pc, tree, failedBuild>>
      PROVE  NameInv'
  <2>1. NamesKnown' /\ TreeAtHand'
    BY <1>2 DEF NameInv, NamesKnown, TreeAtHand
  <2>2. ASSUME ~failedBuild PROVE LiveNamesLead' /\ SavedNamesLead'
    <3>1. emptyPages = {}
      BY <1>2, <2>2 DEF PageInv, Inv, OnlyRootFreed
    <3>2. PageTaken = nextPage /\ ~ (nextPage < nextPage) /\ nextPage >= idx.next
      BY <1>2, <3>1, NameTypes DEF PageTaken
    <3>3. /\ \A name, h : LeadsTo(dat, name, h, idx.next) => LeadsTo(dat', name, h, idx'.next)
          /\ \A name, h : LeadsTo(dat, name, h, nextPage) => LeadsTo(dat', name, h, nextPage')
      BY <1>2, <2>2, <3>2, StoreNames
    <3> QED
      BY <1>2, <2>2, <3>3 DEF NameInv, LiveNamesLead, SavedNamesLead, AtHand
  <2> QED
    BY <2>1, <2>2, <1>2 DEF NameInv
<1>3. CASE CutPage
  <2>1. PICK len : StoreNew(PointsPage(traj.t, traj.cur, len))
    BY <1>3 DEF CutPage
  <2>2. open /\ pc \in {"load", "append"}
        /\ UNCHANGED <<open, names, property, pc, tree, earlier, failedBuild>>
    BY <1>3 DEF CutPage, Loading, ghostVars
  <2>3. \A name : ~ Named(PointsPage(traj.t, traj.cur, len), name)
    BY DEF Named, PointsPage
  <2> QED
    BY <1>2, <2>1, <2>2, <2>3
<1>4. CASE InsertRow
  BY <1>4, QuietNames DEF InsertRow, Loading, diskVars, ghostVars
<1>5. CASE Failing
  <2>1. /\ open /\ open' = open /\ pc \in {"load", "append"} /\ pc' = pc
        /\ UNCHANGED <<property, names, tree, failedBuild, idx>>
        /\ earlier'.names = earlier.names
    BY <1>5, FailingFacts, FailingEarlier
  <2>2. CASE dat' = dat /\ nextPage' = nextPage
    BY <2>1, <2>2, QuietNames
  <2>3. CASE StoreNew(Blank)
    <3>1. \A name : ~ Named(Blank, name)
      BY DEF Named, Blank
    <3> QED
      BY <1>2, <2>1, <2>3, <3>1
  <2> QED
    BY <1>5, <2>2, <2>3, FailingFacts
<1> QED
  BY <1>1, <1>3, <1>4, <1>5

LEMMA BuildNameStep ==
  ASSUME PageInv, NameInv,
         \/ \E name \in Names : NewTree(name)
         \/ NewHeader \/ BeginBulk \/ BulkNode \/ EndBulk \/ BulkThrows
  PROVE  NameInv'
<1>0. /\ MaxPage \in Nat /\ nextPage \in Nat /\ idx.next \in Nat
      /\ open => idx.next <= nextPage
      /\ 0 .. nextPage - 1 \subseteq Page
  BY NameTypes
<1>1. ASSUME NEW name \in Names, NewTree(name) PROVE NameInv'
  <2>1. StoreNew(NodePage(name, 0)) /\ open /\ pc = "idle" /\ pc' = "header"
        /\ name \notin DOMAIN names
        /\ tree' = [name |-> name, root |-> PageTaken, header |-> -1, nodes |-> 0]
        /\ UNCHANGED <<open, names, property, earlier, failedBuild>>
    BY <1>1 DEF NewTree, ghostVars
  <2>2. NamesKnown'
    BY <2>1 DEF NameInv, NamesKnown
  <2>3. ASSUME ~failedBuild PROVE TreeAtHand' /\ LiveNamesLead' /\ SavedNamesLead'
    <3>1. emptyPages = {}
      BY <2>1, <2>3 DEF PageInv, Inv, OnlyRootFreed
    <3>2. PageTaken = nextPage /\ ~ (nextPage < nextPage) /\ nextPage >= idx.next
      BY <1>0, <2>1, <3>1 DEF PageTaken
    <3>3. \A x : x # name => ~ Named(NodePage(name, 0), x)
      BY DEF Named, NodePage
    <3>4. /\ \A x, h : LeadsTo(dat, x, h, idx.next) => LeadsTo(dat', x, h, idx'.next)
          /\ \A x, h : LeadsTo(dat, x, h, nextPage) /\ x # name => LeadsTo(dat', x, h, nextPage')
      BY <2>1, <2>3, <3>2, <3>3, StoreNames
    <3>5. dat'[nextPage] = NodePage(name, 0) /\ nextPage' = nextPage + 1 /\ idx' = idx
      BY <2>1, <3>1, <3>2, StoreNewPage DEF PageInv, Inv, StoreNew
    <3>6. TreeAtHand'
      BY <1>0, <2>1, <3>2, <3>5 DEF TreeAtHand
    <3>7. LiveNamesLead'
      BY <2>1, <2>3, <3>4 DEF NameInv, LiveNamesLead, AtHand
    <3>8. SavedNamesLead'
      BY <2>1, <2>3, <3>4 DEF NameInv, SavedNamesLead
    <3> QED
      BY <3>6, <3>7, <3>8
  <2> QED
    BY <2>1, <2>2, <2>3 DEF NameInv
<1>2. CASE NewHeader
  <2>1. StoreNew(HeaderPage(tree.name, tree.root)) /\ open /\ pc = "header" /\ pc' = "bulk"
        /\ names' = Put(names, tree.name, PageTaken)
        /\ UNCHANGED <<open, property, earlier, failedBuild>>
    BY <1>2 DEF NewHeader, ghostVars
  <2>2. tree' = [name |-> tree.name, root |-> tree.root, header |-> PageTaken, nodes |-> 0]
    BY <1>2, <2>1 DEF NewHeader, PageInv, Inv, Types, TreeTyped, TreeBegun
  <2>3. /\ DOMAIN names' = DOMAIN names \cup {tree.name} /\ names'[tree.name] = PageTaken
        /\ \A x \in DOMAIN names : x # tree.name => names'[x] = names[x]
    BY <2>1 DEF Put
  <2>4. ASSUME ~failedBuild PROVE TreeAtHand' /\ LiveNamesLead' /\ SavedNamesLead'
    <3>0. /\ tree.root = nextPage - 1 /\ idx.next <= tree.root
          /\ dat[tree.root] = NodePage(tree.name, 0)
          /\ tree.name \notin DOMAIN names
      BY <2>1, <2>4 DEF NameInv, NamesKnown, TreeAtHand
    <3>1. emptyPages = {}
      BY <2>1, <2>4 DEF PageInv, Inv, OnlyRootFreed
    <3>2. PageTaken = nextPage /\ ~ (nextPage < nextPage) /\ nextPage >= idx.next
      BY <1>0, <2>1, <3>1 DEF PageTaken
    <3>3. \A x : ~ Named(HeaderPage(tree.name, tree.root), x)
      BY DEF Named, HeaderPage
    <3>4. /\ \A x, h : LeadsTo(dat, x, h, idx.next) => LeadsTo(dat', x, h, idx'.next)
          /\ \A x, h : LeadsTo(dat, x, h, nextPage) => LeadsTo(dat', x, h, nextPage')
      BY <2>1, <2>4, <3>2, <3>3, StoreNames
    <3>5. /\ dat'[nextPage] = HeaderPage(tree.name, tree.root)
          /\ nextPage' = nextPage + 1 /\ idx' = idx
          /\ \A p \in Page : p # nextPage => dat'[p] = dat[p]
      BY <2>1, <3>1, <3>2, StoreNewPage DEF PageInv, Inv, StoreNew
    <3>6. TreeAtHand'
      <4>1. nextPage \in Nat \ {0} /\ nextPage - 1 \in Page
        BY <1>0, <3>0
      <4>2. dat'[nextPage - 1] = NodePage(tree.name, 0)
        BY <1>0, <3>0, <3>5, <4>1
      <4>3. dat'[nextPage].kind = "header" /\ dat'[nextPage].name = tree.name
        BY <3>5 DEF HeaderPage
      <4>4. ASSUME NEW p \in nextPage - 1 .. nextPage' - 1, Named(dat'[p], tree.name)
            PROVE  dat'[p].k \in 0 .. 0
        <5>1. p = nextPage - 1 \/ p = nextPage
          BY <1>0, <3>5
        <5>2. CASE p = nextPage
          BY <4>3, <4>4, <5>2 DEF Named
        <5>3. CASE p = nextPage - 1
          BY <4>2, <5>3 DEF NodePage
        <5> QED
          BY <5>1, <5>2, <5>3
      <4>5. tree'.header = nextPage /\ tree'.root = nextPage - 1 /\ tree'.nodes = 0
            /\ tree'.name = tree.name
        BY <2>2, <3>0, <3>2
      <4>6. nextPage \in 1 .. nextPage' - 1 /\ idx'.next < nextPage
            /\ nextPage - 1 \in nextPage - 1 .. nextPage' - 1
        BY <1>0, <3>0, <3>5, <4>1
      <4> QED
        BY <2>1, <2>3, <3>2, <4>2, <4>3, <4>4, <4>5, <4>6 DEF TreeAtHand
    <3>7. LiveNamesLead'
      BY <2>1, <2>2, <2>3, <2>4, <3>0, <3>4 DEF NameInv, LiveNamesLead, AtHand
    <3>8. SavedNamesLead'
      BY <2>1, <2>4, <3>4 DEF NameInv, SavedNamesLead
    <3> QED
      BY <3>6, <3>7, <3>8
  <2>5. NamesKnown'
    <3>1. tree.name \notin DOMAIN names
      BY <2>1 DEF NameInv, NamesKnown
    <3> QED
      BY <2>1, <2>3, <3>1 DEF NameInv, NamesKnown
  <2> QED
    BY <2>1, <2>4, <2>5 DEF NameInv
<1>3. CASE BeginBulk
  <2>1. pc = "bulk" /\ pc' = "nodes"
        /\ UNCHANGED <<open, nextPage, idx, dat, names, property, tree, earlier, failedBuild>>
    BY <1>3 DEF BeginBulk, ghostVars
  <2>2. NamesKnown'
    BY <2>1 DEF NameInv, NamesKnown
  <2>3. ~failedBuild => TreeAtHand'
    BY <2>1 DEF NameInv, TreeAtHand
  <2>4. ~failedBuild => LiveNamesLead' /\ SavedNamesLead'
    BY <2>1 DEF NameInv, LiveNamesLead, SavedNamesLead, AtHand
  <2> QED
    BY <2>1, <2>2, <2>3, <2>4 DEF NameInv
<1>4. CASE BulkNode
  <2>1. StoreNew(NodePage(tree.name, tree.nodes + 1)) /\ open /\ pc = "nodes" /\ pc' = "nodes"
        /\ UNCHANGED <<open, names, property, earlier, failedBuild>>
    BY <1>4 DEF BulkNode, ghostVars
  <2>2. /\ tree' = [name |-> tree.name, root |-> PageTaken, header |-> tree.header,
                    nodes |-> tree.nodes + 1]
        /\ tree.nodes \in Nat /\ tree.root \in Page
    BY <1>4, <2>1 DEF BulkNode, PageInv, Inv, Types, TreeTyped, TreeBegun
  <2>3. NamesKnown'
    BY <2>1 DEF NameInv, NamesKnown
  <2>4. ASSUME ~failedBuild PROVE TreeAtHand' /\ LiveNamesLead' /\ SavedNamesLead'
    <3>0. /\ tree.name \in DOMAIN names
          /\ names[tree.name] = tree.header
          /\ tree.header \in 1 .. nextPage - 1 /\ idx.next < tree.header
          /\ dat[tree.header].kind = "header"
          /\ dat[tree.header].name = tree.name
          /\ tree.root \in tree.header - 1 .. nextPage - 1
          /\ dat[tree.root] = NodePage(tree.name, tree.nodes)
          /\ \A p \in tree.header - 1 .. nextPage - 1 :
               Named(dat[p], tree.name) => dat[p].k \in 0 .. tree.nodes
      BY <2>1, <2>4 DEF NameInv, TreeAtHand
    <3>1. emptyPages = {} \/ emptyPages = {tree.root}
      BY <2>1, <2>4 DEF PageInv, Inv, OnlyRootFreed
    <3>2. PageTaken = nextPage \/ PageTaken = tree.root
      <4>1. CASE emptyPages = {}
        BY <4>1 DEF PageTaken
      <4>2. CASE emptyPages = {tree.root}
        BY <1>0, <2>2, <4>2 DEF PageTaken, SmallestOf, Page
      <4> QED
        BY <3>1, <4>1, <4>2
    <3>3. /\ PageTaken >= idx.next /\ PageTaken # tree.header
          /\ PageTaken < nextPage => PageTaken = tree.root
      <4>1. tree.root # tree.header
        BY <3>0 DEF NodePage
      <4> QED
        BY <1>0, <3>0, <3>2, <4>1
    <3>31. PageTaken < nextPage =>
             dat[PageTaken].kind = "node" /\ dat[PageTaken].name = tree.name
      BY <3>0, <3>3 DEF NodePage
    <3>4. \A x : x # tree.name => ~ Named(NodePage(tree.name, tree.nodes + 1), x)
      BY DEF Named, NodePage
    <3>5. /\ \A x, h : LeadsTo(dat, x, h, idx.next) => LeadsTo(dat', x, h, idx'.next)
          /\ \A x, h : LeadsTo(dat, x, h, nextPage) /\ x # tree.name
                       => LeadsTo(dat', x, h, nextPage')
      BY <2>1, <2>4, <3>3, <3>31, <3>4, StoreNames
    <3>6. /\ PageTaken \in Page
          /\ PageTaken < nextPage' /\ nextPage <= nextPage' /\ idx' = idx
          /\ dat'[PageTaken] = NodePage(tree.name, tree.nodes + 1)
          /\ \A p \in Page : p # PageTaken => dat'[p] = dat[p]
      BY <2>1, StoreNewPage DEF PageInv, Inv
    <3>7. /\ nextPage' \in Nat /\ PageTaken \in Nat
          /\ nextPage' = nextPage \/ (nextPage' = nextPage + 1 /\ PageTaken = nextPage)
      <4>1. nextPage' \in 0 .. MaxPage
        BY <2>1, StoreNewTyped DEF PageInv, Inv
      <4> QED
        BY <1>0, <2>1, <3>6, <4>1 DEF StoreNew, PageTaken, Page
    <3>8. TreeAtHand'
      <4>1. tree.header \in Page /\ tree.header \in 1 .. nextPage' - 1
        BY <1>0, <3>0, <3>6, <3>7
      <4>2. dat'[tree.header] = dat[tree.header]
        BY <3>3, <3>6, <4>1
      <4>3. PageTaken \in tree.header - 1 .. nextPage' - 1
        <5> DEFINE n == nextPage'
                   h == tree.header
                   q == PageTaken
        <5>1. n \in Nat /\ q \in Nat /\ q < n
          BY <3>6, <3>7
        <5>2. h \in Nat /\ h < nextPage /\ nextPage \in Nat
          BY <1>0, <3>0
        <5>3. q = nextPage \/ q \in h - 1 .. nextPage - 1
          BY <3>0, <3>2
        <5> HIDE DEF n, h, q
        <5>4. q \in h - 1 .. n - 1
          BY <5>1, <5>2, <5>3
        <5> QED
          BY <5>4 DEF n, h, q
      <4>4. ASSUME NEW p \in tree.header - 1 .. nextPage' - 1, Named(dat'[p], tree.name)
            PROVE  dat'[p].k \in 0 .. tree.nodes + 1
        <5>1. CASE p = PageTaken
          BY <2>2, <3>6, <5>1 DEF NodePage
        <5>2. CASE p # PageTaken
          <6>1. p \in tree.header - 1 .. nextPage - 1 /\ p \in Page
            BY <1>0, <3>0, <3>7, <5>2
          <6>2. dat'[p] = dat[p]
            BY <3>6, <5>2, <6>1
          <6>3. dat[p].k \in 0 .. tree.nodes
            BY <3>0, <4>4, <6>1, <6>2
          <6> QED
            BY <2>2, <6>2, <6>3
        <5> QED
          BY <5>1, <5>2
      <4>5. tree'.header = tree.header /\ tree'.root = PageTaken /\ tree'.nodes = tree.nodes + 1
            /\ tree'.name = tree.name
        BY <2>2
      <4> QED
        BY <2>1, <3>0, <3>6, <4>1, <4>2, <4>3, <4>4, <4>5 DEF TreeAtHand
    <3>9. LiveNamesLead'
      BY <2>1, <2>2, <2>4, <3>5 DEF NameInv, LiveNamesLead, AtHand
    <3>10. SavedNamesLead'
      BY <2>1, <2>4, <3>5 DEF NameInv, SavedNamesLead
    <3> QED
      BY <3>8, <3>9, <3>10
  <2> QED
    BY <2>1, <2>3, <2>4 DEF NameInv
<1>5. CASE EndBulk
  <2>1. /\ open /\ pc = "nodes" /\ pc' = "flush"
        /\ dat' = [dat EXCEPT ![tree.header] = HeaderPage(tree.name, tree.root)]
        /\ UNCHANGED <<open, nextPage, idx, names, property, earlier, failedBuild>>
    BY <1>5 DEF EndBulk, ghostVars
  <2>2. NamesKnown' /\ TreeAtHand'
    BY <2>1 DEF NameInv, NamesKnown, TreeAtHand
  <2>3. ASSUME ~failedBuild PROVE LiveNamesLead' /\ SavedNamesLead'
    <3>0. /\ names[tree.name] = tree.header
          /\ tree.header \in 1 .. nextPage - 1 /\ idx.next < tree.header
          /\ dat[tree.header].kind = "header"
          /\ dat[tree.header].name = tree.name
          /\ tree.root \in tree.header - 1 .. nextPage - 1
          /\ dat[tree.root] = NodePage(tree.name, tree.nodes)
          /\ \A p \in tree.header - 1 .. nextPage - 1 :
               Named(dat[p], tree.name) => dat[p].k \in 0 .. tree.nodes
      BY <2>1, <2>3 DEF NameInv, TreeAtHand
    <3>1. tree.header \in Page /\ tree.root \in Page /\ tree.root # tree.header
          /\ tree.header \in Nat
      BY <1>0, <3>0 DEF NodePage
    <3>2. /\ dat'[tree.header] = HeaderPage(tree.name, tree.root)
          /\ \A p \in Page : p # tree.header => dat'[p] = dat[p]
      BY <2>1, <3>1 DEF PageInv, Inv, TypeOK
    <3>3. LeadsTo(dat', tree.name, tree.header, nextPage)
      <4>1. dat'[tree.header].kind = "header" /\ dat'[tree.header].name = tree.name
            /\ dat'[tree.header].root = tree.root
        BY <3>2 DEF HeaderPage
      <4>2. dat'[tree.root] = NodePage(tree.name, tree.nodes)
        BY <3>0, <3>1, <3>2
      <4>3. ASSUME NEW p \in tree.header - 1 .. nextPage - 1, Named(dat'[p], tree.name)
            PROVE  dat'[p].k <= tree.nodes
        <5>1. p # tree.header
          BY <4>1, <4>3 DEF Named
        <5>2. p \in Page
          BY <1>0, <3>1, <3>0
        <5>3. dat'[p] = dat[p]
          BY <3>2, <5>1, <5>2
        <5>4. dat[p].k \in 0 .. tree.nodes
          BY <3>0, <4>3, <5>3
        <5> QED
          BY <5>3, <5>4
      <4> QED
        BY <3>0, <4>1, <4>2, <4>3 DEF LeadsTo, Named, NodePage
    <3>4. ASSUME NEW x, NEW h, LeadsTo(dat, x, h, nextPage), x # tree.name
          PROVE  LeadsTo(dat', x, h, nextPage)
      <4>1. h # tree.header
        BY <3>0, <3>4 DEF LeadsTo
      <4>2. ~ Named(dat'[tree.header], x) /\ ~ Named(dat[tree.header], x)
        BY <3>0, <3>2 DEF Named, HeaderPage
      <4>3. ASSUME NEW p \in 0 .. nextPage - 1
            PROVE  \/ p < nextPage /\ dat'[p] = dat[p]
                   \/ ~ Named(dat'[p], x) /\ (p < nextPage => ~ Named(dat[p], x) /\ p # h)
        <5>1. CASE p = tree.header
          BY <4>1, <4>2, <5>1
        <5>2. CASE p # tree.header
          BY <1>0, <3>2, <5>2
        <5> QED
          BY <5>1, <5>2
      <4> QED
        BY <1>0, <3>4, <4>3, LeadsStill
    <3>5. ASSUME NEW x, NEW h, LeadsTo(dat, x, h, idx.next)
          PROVE  LeadsTo(dat', x, h, idx.next)
      <4>1. ASSUME NEW p \in 0 .. idx.next - 1
            PROVE  p < idx.next /\ dat'[p] = dat[p]
        <5>1. p # tree.header /\ p \in 0 .. nextPage - 1 /\ p < idx.next
          BY <1>0, <2>1, <3>0, <3>1
        <5> QED
          BY <1>0, <3>2, <5>1
      <4> QED
        BY <1>0, <3>5, <4>1, LeadsStill
    <3>6. LiveNamesLead'
      <4>1. ASSUME NEW x \in DOMAIN names \ earlier.names
            PROVE  LeadsTo(dat', x, names[x], nextPage)
        <5>1. CASE x = tree.name
          BY <3>0, <3>3, <5>1
        <5>2. CASE x # tree.name
          BY <2>1, <2>3, <3>4, <5>2 DEF NameInv, LiveNamesLead, AtHand
        <5> QED
          BY <5>1, <5>2
      <4> QED
        BY <2>1, <4>1 DEF LiveNamesLead
    <3>7. SavedNamesLead'
      BY <2>1, <2>3, <3>5 DEF NameInv, SavedNamesLead
    <3> QED
      BY <3>6, <3>7
  <2> QED
    BY <2>1, <2>2, <2>3 DEF NameInv
<1>6. CASE BulkThrows
  <2>1. failedBuild' /\ pc' = "idle" /\ UNCHANGED <<open, names, property, earlier>>
    BY <1>6 DEF BulkThrows
  <2> QED
    BY <2>1 DEF NameInv, NamesKnown
<1> QED
  BY <1>1, <1>2, <1>3, <1>4, <1>5, <1>6

LEMMA NameStep == PageInv /\ NameInv /\ [Next]_vars => NameInv'
<1> SUFFICES ASSUME PageInv, NameInv, [Next]_vars PROVE NameInv'
  OBVIOUS
<1>1. CASE Next
  BY <1>1, StoreNameStep, LoadNameStep, BuildNameStep DEF Next, Failing
<1>2. CASE UNCHANGED vars
  BY <1>2 DEF vars, diskVars, ghostVars, NameInv, NamesKnown, TreeAtHand, LiveNamesLead,
              SavedNamesLead, AtHand
<1> QED
  BY <1>1, <1>2

(* A name in the .property file leads to the header of its index and from  *)
(* there to the last node of its bulk load, unless a bulk load threw or    *)
(* the name was left by a store this one was created over: the builder     *)
(* that finds a name opens a finished index, also after a crash between a  *)
(* bulk load and any step of the flush (IndexBuildHelper.cc, xStore.cc).   *)
THEOREM NamesResolve == Spec => []SavedNamesResolve
<1>1. PageInv /\ NameInv => SavedNamesResolve
  <2> SUFFICES ASSUME PageInv, NameInv, ~failedBuild,
                      NEW name \in DOMAIN property.names \ earlier.names
               PROVE  Resolves(name, property.names[name])
    BY DEF SavedNamesResolve
  <2> DEFINE h == property.names[name]
  <2>1. LeadsTo(dat, name, h, idx.next)
    BY DEF NameInv, SavedNamesLead
  <2> HIDE DEF h
  <2>2. idx.next \in Nat
    BY NameTypes
  <2>3. h \in 0 .. idx.next - 1
    <3>1. h \in 1 .. idx.next - 1
      BY <2>1 DEF LeadsTo
    <3> QED
      BY <2>2, <3>1
  <2>4. Resolves(name, h)
    BY <2>1, <2>3 DEF Resolves, NodesOf, LeadsTo, Named
  <2> QED
    BY <2>4 DEF h
<1>2. Spec => []NameInv
  BY NameInit, NameStep, PagesHold, PTL DEF Spec
<1> QED
  BY <1>1, <1>2, PagesHold, PTL

-----------------------------------------------------------------------------
(* What loadTraj computes, whatever the pages hold: the page that it looks *)
(* on for point j of an interval that ends with me, counted from the first *)
(* page of the trajectory, and the point it finds there.                   *)
PageOf(j, me) ==
  IF bSubTraj /\ j = me THEN Ceil(me, Fp - 1) - 1 ELSE j \div Stride

ReadPoint(page, j, me) == PointAt(page + PageOf(j, me), j - PageOf(j, me) * Stride)

Span(page, s, e, me) == [k \in 1 .. e - s + 1 |-> ReadPoint(page, s + k - 1, me)]

(* Division rounds down. *)
LEMMA Quotient ==
  ASSUME NEW m \in Nat, NEW b \in Nat \ {0}
  PROVE  m \div b \in Nat /\ (m \div b) * b <= m /\ m < (m \div b) * b + b
OBVIOUS

(* Of two multiples, one less than a step over the other is not beyond it. *)
LEMMA Between ==
  ASSUME NEW c \in Int, NEW d \in Int, NEW b \in Nat \ {0}, c * b < d * b + b
  PROVE  c <= d
<1>1. SUFFICES ASSUME c >= d + 1 PROVE FALSE
  OBVIOUS
<1>2. PICK k \in Nat : c = d + 1 + k
  <2>1. c - (d + 1) \in Nat
    BY <1>1
  <2> QED
    BY <2>1
<1>3. (d + 1 + k) * b = d * b + b + k * b /\ k * b \in Nat
  OBVIOUS
<1>4. d * b \in Int /\ b \in Int
  OBVIOUS
<1> QED
  BY <1>2, <1>3, <1>4

(* What a quotient is. *)
LEMMA QuotientIs ==
  \A m \in Nat, b \in Nat \ {0}, c \in Int : c * b <= m /\ m < c * b + b => m \div b = c
<1> SUFFICES ASSUME NEW m \in Nat, NEW b \in Nat \ {0}, NEW c \in Int,
                    c * b <= m, m < c * b + b
             PROVE  m \div b = c
  OBVIOUS
<1> DEFINE q == m \div b
<1>1. q \in Nat /\ q * b <= m /\ m < q * b + b
  BY Quotient
<1> HIDE DEF q
<1>2. q * b \in Int /\ c * b \in Int
  BY <1>1
<1>3. q * b < c * b + b /\ c * b < q * b + b
  BY <1>1, <1>2
<1>4. q <= c /\ c <= q
  BY <1>1, <1>3, Between
<1>5. q = c
  BY <1>1, <1>4
<1> QED
  BY <1>5 DEF q

(* Division that rounds up. *)
LEMMA CeilIs ==
  ASSUME NEW m \in Nat \ {0}, NEW b \in Nat \ {0}
  PROVE  /\ Ceil(m, b) - 1 \in Nat
         /\ (Ceil(m, b) - 1) * b < m
         /\ m <= (Ceil(m, b) - 1) * b + b
<1> DEFINE c == (m + b - 1) \div b
<1>1. m + b - 1 \in Nat
  OBVIOUS
<1>2. c \in Nat /\ c * b <= m + b - 1 /\ m + b - 1 < c * b + b
  BY <1>1, Quotient
<1> HIDE DEF c
<1>3. c # 0
  BY <1>2
<1>4. c - 1 \in Nat /\ (c - 1) * b = c * b - b /\ c * b \in Nat
  BY <1>2, <1>3
<1>5. c - 1 \in Nat /\ (c - 1) * b < m /\ m <= (c - 1) * b + b
  BY <1>2, <1>4
<1> QED
  BY <1>5 DEF c, Ceil

(* Two recursive functions with the same equation agree. *)
LEMMA SameRounds ==
  \A lo, hi \in Int : \A f, g :
    /\ lo <= hi
    /\ f[lo] = g[lo]
    /\ \A i \in lo + 1 .. hi : f[i - 1] = g[i - 1] => f[i] = g[i]
    => f[hi] = g[hi]
<1> SUFFICES ASSUME NEW lo \in Int, NEW hi \in Int
             PROVE  \A f, g :
                      /\ lo <= hi
                      /\ f[lo] = g[lo]
                      /\ \A i \in lo + 1 .. hi : f[i - 1] = g[i - 1] => f[i] = g[i]
                      => f[hi] = g[hi]
  BY Zenon
<1> SUFFICES ASSUME NEW f, NEW g, lo <= hi, f[lo] = g[lo],
                    \A i \in lo + 1 .. hi : f[i - 1] = g[i - 1] => f[i] = g[i]
             PROVE  f[hi] = g[hi]
  BY Zenon
<1> DEFINE D == {k \in 0 .. hi - lo : f[lo + k] # g[lo + k]}
<1>1. SUFFICES ASSUME D # {} PROVE FALSE
  <2>1. hi - lo \in 0 .. hi - lo /\ lo + (hi - lo) = hi
    OBVIOUS
  <2> QED
    BY <1>1, <2>1
<1>2. D \in SUBSET Nat
  OBVIOUS
<1>3. SmallestOf(D) \in D /\ \A y \in D : SmallestOf(D) <= y
  <2> HIDE DEF D
  <2> QED
    BY <1>1, <1>2, SmallestIsOf
<1>4. PICK k \in D : \A y \in D : k <= y
  BY <1>3
<1>5. k \in 0 .. hi - lo /\ k \in Nat /\ f[lo + k] # g[lo + k]
  OBVIOUS
<1>6. k # 0
  BY <1>5
<1>7. k - 1 \in 0 .. hi - lo /\ k - 1 \notin D
  BY <1>4, <1>5, <1>6
<1>8. f[lo + (k - 1)] = g[lo + (k - 1)]
  BY <1>7
<1>9. lo + k \in lo + 1 .. hi /\ lo + (k - 1) = (lo + k) - 1
  BY <1>5, <1>6
<1> QED
  BY <1>5, <1>8, <1>9

(* A function from 1 .. n is a sequence. *)
LEMMA RangeSeq ==
  \A n \in Nat : \A S : \A u \in [1 .. n -> S] : u \in Seq(S) /\ Len(u) = n
<1> SUFFICES ASSUME NEW n \in Nat, NEW S, NEW u \in [1 .. n -> S]
             PROVE  u \in Seq(S) /\ Len(u) = n
  OBVIOUS
<1>1. u \in Seq(S)
  BY SeqDef, Zenon
<1>2. DOMAIN u = 1 .. n /\ DOMAIN u = 1 .. Len(u) /\ Len(u) \in Nat
  BY <1>1, LenProperties
<1> QED
  BY <1>1, <1>2

(* The slots ps .. pe of page i hold the points m + 1 .. e of the interval. *)
Continues(page, me, s, i, m, e, ps, pe) ==
  /\ page \in Int /\ me \in Int /\ s \in Int /\ i \in Int
  /\ m \in Int /\ e \in Int /\ ps \in Int /\ pe \in Int
  /\ s <= m + 1
  /\ m <= e
  /\ pe - ps = e - m - 1
  /\ \A j \in m + 1 .. e : ReadPoint(page, j, me) = PointAt(i, ps + j - m - 1)

(* With those slots what has been read of the interval reaches e. *)
Grown(page, me, s, i, m, e, ps, pe) ==
  Span(page, s, m, me) \o SlotsOf(i, ps, pe) = Span(page, s, e, me)

(* A round adds a stretch of the interval to what has been read. *)
LEMMA SpanGrows ==
  \A page, me, s, i, m, e, ps, pe :
    Continues(page, me, s, i, m, e, ps, pe) => Grown(page, me, s, i, m, e, ps, pe)
<1> TAKE page, me, s, i, m, e, ps, pe
<1> HAVE Continues(page, me, s, i, m, e, ps, pe)
<1> USE DEF Continues, Grown
<1> DEFINE S == {PointAt(p, x) : p \in Int, x \in Int} \cup {ReadPoint(page, x, me) : x \in Int}
           u == Span(page, s, m, me)
           v == SlotsOf(i, ps, pe)
           w == Span(page, s, e, me)
<1>1. u \in Seq(S) /\ Len(u) = m - s + 1 /\ \A k \in 1 .. m - s + 1 : u[k] = ReadPoint(page, s + k - 1, me)
  <2>1. ASSUME NEW k \in 1 .. m - s + 1 PROVE ReadPoint(page, s + k - 1, me) \in S
    <3>1. s + k - 1 \in Int
      OBVIOUS
    <3> QED
      BY <3>1
  <2>2. m - s + 1 \in Nat /\ u = [k \in 1 .. m - s + 1 |-> ReadPoint(page, s + k - 1, me)]
    BY DEF Span
  <2> HIDE DEF S, u, v, w
  <2>3. u \in [1 .. m - s + 1 -> S]
    <3>1. \A k \in 1 .. m - s + 1 : u[k] \in S
      BY <2>1, <2>2
    <3>2. u = [k \in 1 .. m - s + 1 |-> u[k]]
      BY <2>2
    <3> QED
      BY <3>1, <3>2
  <2>4. u \in Seq(S) /\ Len(u) = m - s + 1
    <3> DEFINE n == m - s + 1
    <3>1. n \in Nat /\ u \in [1 .. n -> S]
      BY <2>2, <2>3
    <3> HIDE DEF n
    <3>2. u \in Seq(S) /\ Len(u) = n
      BY <3>1, RangeSeq, Zenon
    <3> QED
      BY <3>2 DEF n
  <2> QED
    BY <2>2, <2>4
<1>2. v \in Seq(S) /\ Len(v) = e - m /\ \A k \in 1 .. e - m : v[k] = PointAt(i, ps + k - 1)
  <2>1. ASSUME NEW k \in 1 .. e - m PROVE PointAt(i, ps + k - 1) \in S
    <3>1. ps + k - 1 \in Int
      OBVIOUS
    <3> QED
      BY <3>1
  <2>2. e - m \in Nat /\ v = [k \in 1 .. e - m |-> PointAt(i, ps + k - 1)]
    BY DEF SlotsOf
  <2> HIDE DEF S, u, v, w
  <2>3. v \in [1 .. e - m -> S]
    <3>1. \A k \in 1 .. e - m : v[k] \in S
      BY <2>1, <2>2
    <3>2. v = [k \in 1 .. e - m |-> v[k]]
      BY <2>2
    <3> QED
      BY <3>1, <3>2
  <2>4. v \in Seq(S) /\ Len(v) = e - m
    <3> DEFINE n == e - m
    <3>1. n \in Nat /\ v \in [1 .. n -> S]
      BY <2>2, <2>3
    <3> HIDE DEF n
    <3>2. v \in Seq(S) /\ Len(v) = n
      BY <3>1, RangeSeq, Zenon
    <3> QED
      BY <3>2 DEF n
  <2> QED
    BY <2>2, <2>4
<1>3. w \in Seq(S) /\ Len(w) = e - s + 1 /\ \A k \in 1 .. e - s + 1 : w[k] = ReadPoint(page, s + k - 1, me)
  <2>1. ASSUME NEW k \in 1 .. e - s + 1 PROVE ReadPoint(page, s + k - 1, me) \in S
    <3>1. s + k - 1 \in Int
      OBVIOUS
    <3> QED
      BY <3>1
  <2>2. e - s + 1 \in Nat /\ w = [k \in 1 .. e - s + 1 |-> ReadPoint(page, s + k - 1, me)]
    BY DEF Span
  <2> HIDE DEF S, u, v, w
  <2>3. w \in [1 .. e - s + 1 -> S]
    <3>1. \A k \in 1 .. e - s + 1 : w[k] \in S
      BY <2>1, <2>2
    <3>2. w = [k \in 1 .. e - s + 1 |-> w[k]]
      BY <2>2
    <3> QED
      BY <3>1, <3>2
  <2>4. w \in Seq(S) /\ Len(w) = e - s + 1
    <3> DEFINE n == e - s + 1
    <3>1. n \in Nat /\ w \in [1 .. n -> S]
      BY <2>2, <2>3
    <3> HIDE DEF n
    <3>2. w \in Seq(S) /\ Len(w) = n
      BY <3>1, RangeSeq, Zenon
    <3> QED
      BY <3>2 DEF n
  <2> QED
    BY <2>2, <2>4
<1> HIDE DEF u, v, w, S
<1>4. /\ u \o v \in Seq(S) /\ Len(u \o v) = e - s + 1
      /\ \A k \in 1 .. e - s + 1 : (u \o v)[k] = IF k <= m - s + 1 THEN u[k] ELSE v[k - (m - s + 1)]
  <2>1. /\ u \o v \in Seq(S) /\ Len(u \o v) = Len(u) + Len(v)
        /\ \A k \in 1 .. Len(u) + Len(v) : (u \o v)[k] = IF k <= Len(u) THEN u[k] ELSE v[k - Len(u)]
    BY <1>1, <1>2, ConcatProperties
  <2>2. Len(u) + Len(v) = e - s + 1 /\ Len(u) = m - s + 1
    BY <1>1, <1>2
  <2>3. u \o v \in Seq(S) /\ Len(u \o v) = e - s + 1
    BY <2>1, <2>2, Zenon
  <2>4. \A k \in 1 .. e - s + 1 :
          (u \o v)[k] = IF k <= m - s + 1 THEN u[k] ELSE v[k - (m - s + 1)]
    BY <2>1, <2>2, Zenon
  <2> QED
    BY <2>3, <2>4, Zenon
<1>5. ASSUME NEW k \in 1 .. e - s + 1 PROVE (u \o v)[k] = w[k]
  <2>1. CASE k <= m - s + 1
    BY <1>1, <1>3, <1>4, <2>1
  <2>2. CASE ~ (k <= m - s + 1)
    <3>1. k - (m - s + 1) \in 1 .. e - m /\ s + k - 1 \in m + 1 .. e
      BY <2>2
    <3>2. (u \o v)[k] = PointAt(i, ps + (k - (m - s + 1)) - 1)
      BY <1>2, <1>4, <2>2, <3>1
    <3>3. ps + (s + k - 1) - m - 1 = ps + (k - (m - s + 1)) - 1
      OBVIOUS
    <3> QED
      BY <1>3, <3>1, <3>2, <3>3
  <2> QED
    BY <2>1, <2>2
<1>6. u \o v = w
  BY <1>3, <1>4, <1>5, SeqEqual
<1> QED
  BY <1>6 DEF u, v, w

(* Before the first round nothing has been read. *)
LEMMA EmptySpan ==
  ASSUME NEW page \in Int, NEW s \in Int, NEW me \in Int
  PROVE  Span(page, s, s - 1, me) = <<>>
<1>1. 1 .. (s - 1) - s + 1 = 1 .. 0
  BY (s - 1) - s + 1 = 0
<1>2. Span(page, s, s - 1, me) = [k \in 1 .. 0 |-> ReadPoint(page, s + k - 1, me)]
  BY <1>1 DEF Span
<1>3. \A u \in [1 .. 0 -> {0}] : u \in Seq({0}) /\ Len(u) = 0
  BY RangeSeq
<1>4. Span(page, s, s - 1, me) \in [1 .. 0 -> {0}]
  <2>1. 1 .. 0 = {}
    OBVIOUS
  <2> QED
    BY <1>2, <2>1
<1> QED
  BY <1>3, <1>4, EmptySeq

(* loadTraj with subtrajectory pages. *)
LEMMA SubReads ==
  ASSUME bSubTraj, NEW page \in Nat, NEW m0 \in Nat, NEW me \in Nat, m0 < me
  PROVE  LoadSubTraj(page, m0, me) = Span(page, m0, me, me)
<1> DEFINE a == m0 \div (Fp - 1)
           b == Ceil(me, Fp - 1) - 1
           q == Fp - 1
           pages == page + m0 \div (Fp - 1)
           last == page + Ceil(me, Fp - 1) - 1
           pagee == IF pages > last THEN last + 1 ELSE last
           R[i \in pages - 1 .. pagee] ==
             IF i < pages THEN [out |-> <<>>, cur |-> (m0 \div (Fp - 1)) * (Fp - 1)]
             ELSE ReadSub(R[i - 1], i, pagee, m0, me)
           W == [i \in pages - 1 .. pagee |->
                   IF i < pages THEN [out |-> <<>>, cur |-> (m0 \div (Fp - 1)) * (Fp - 1)]
                   ELSE IF i # pagee
                   THEN [out |-> Span(page, m0, (i - page) * q + q - 1, me),
                         cur |-> (i - page) * q + q]
                   ELSE [out |-> Span(page, m0, me, me), cur |-> me + 1]]
<1>1. q \in Nat \ {0} /\ q = Stride /\ Fp \in Nat
  BY FpAssumption DEF Stride
<1>2. a \in Nat /\ a * q <= m0 /\ m0 < a * q + q
  <2> HIDE DEF q
  <2>1. m0 \div q \in Nat /\ (m0 \div q) * q <= m0 /\ m0 < (m0 \div q) * q + q
    BY <1>1, Quotient
  <2> QED
    BY <2>1 DEF q
<1>3. b \in Nat /\ b * q < me /\ me <= b * q + q
  <2> HIDE DEF q
  <2>1. me \in Nat \ {0}
    OBVIOUS
  <2>2. Ceil(me, q) - 1 \in Nat /\ (Ceil(me, q) - 1) * q < me /\ me <= (Ceil(me, q) - 1) * q + q
    BY <1>1, <2>1, CeilIs
  <2> QED
    BY <2>2 DEF q
<1>4. a <= b
  <2> HIDE DEF a, b, q
  <2>1. a * q \in Int /\ b * q \in Int
    BY <1>1, <1>2, <1>3
  <2>2. a * q < b * q + q
    BY <1>1, <1>2, <1>3, <2>1
  <2> QED
    BY <1>1, <1>2, <1>3, <2>2, Between
<1>5. LoadSubTraj(page, m0, me) = R[pagee].out
  BY DEF LoadSubTraj
<1>6. pages = page + a /\ pagee = page + b /\ last = page + b
  <2>1. pages = page + a
    OBVIOUS
  <2>2. last = page + b
    <3>1. b = Ceil(me, Fp - 1) - 1 /\ b \in Nat
      BY <1>3
    <3>2. Ceil(me, Fp - 1) \in Int
      BY <1>1 DEF Ceil
    <3> HIDE DEF b
    <3> QED
      BY <3>1, <3>2
  <2>3. ~ (pages > last)
    <3> HIDE DEF pages, last, a, b
    <3> QED
      BY <1>2, <1>3, <1>4, <2>1, <2>2
  <2> QED
    BY <2>1, <2>2, <2>3
<1>7. pages \in Int /\ pagee \in Int /\ pages <= pagee
  <2> HIDE DEF a, b, pages, pagee
  <2> QED
    BY <1>2, <1>3, <1>4, <1>6
<1> DEFINE E(f) == [i \in pages - 1 .. pagee |->
                     IF i < pages THEN [out |-> <<>>, cur |-> (m0 \div (Fp - 1)) * (Fp - 1)]
                     ELSE ReadSub(f[i - 1], i, pagee, m0, me)]
<1>70. R = CHOOSE f : f = E(f)
  OBVIOUS
<1> HIDE DEF R
<1> DEFINE Z(i) == (i - page) * q
<1>8. ASSUME NEW i \in pages .. pagee
      PROVE  /\ i - 1 \in pages - 1 .. pagee /\ i \in Int /\ i - page \in Nat
             /\ Z(i) \in Nat /\ m0 < Z(i) + q
             /\ i # pagee => Z(i) + q < me
             /\ i = pagee => Z(i) < me /\ me <= Z(i) + q
             /\ i = pages => Z(i) <= m0
             /\ i # pages => m0 < Z(i) /\ Z(i) = Z(i - 1) + q
  <2> HIDE DEF a, b, q, pages, pagee, last
  <2>1. i \in Int /\ page + a <= i /\ i <= page + b
    BY <1>2, <1>3, <1>6
  <2>2. PICK c \in Nat : c = i - page
    BY <1>2, <2>1
  <2>3. a <= c /\ c <= b /\ Z(i) = c * q /\ c * q \in Nat
    BY <1>1, <1>2, <1>3, <2>1, <2>2
  <2>4. a * q \in Nat /\ b * q \in Nat /\ a * q <= c * q
    <3>1. PICK k \in Nat : c = a + k
      <4>1. c - a \in Nat
        BY <1>2, <2>3
      <4> QED
        BY <4>1, <1>2
    <3>2. (a + k) * q = a * q + k * q /\ k * q \in Nat
      BY <1>1, <1>2
    <3> QED
      BY <1>1, <1>2, <1>3, <3>1, <3>2
  <2>5. c < b => c * q + q <= b * q
    <3>1. SUFFICES ASSUME c < b PROVE c * q + q <= b * q
      OBVIOUS
    <3>2. PICK k \in Nat : b = c + 1 + k
      <4>1. b - (c + 1) \in Nat
        BY <1>3, <3>1
      <4> QED
        BY <4>1, <1>3
    <3>3. (c + 1 + k) * q = c * q + q + k * q /\ k * q \in Nat
      BY <1>1
    <3> QED
      BY <1>1, <2>3, <3>2, <3>3
  <2>6. a < c => a * q + q <= c * q /\ c * q = (c - 1) * q + q /\ Z(i - 1) = (c - 1) * q
    <3>1. SUFFICES ASSUME a < c
                   PROVE a * q + q <= c * q /\ c * q = (c - 1) * q + q /\ Z(i - 1) = (c - 1) * q
      OBVIOUS
    <3>2. PICK k \in Nat : c = a + 1 + k
      <4>1. c - (a + 1) \in Nat
        BY <1>2, <3>1
      <4> QED
        BY <4>1, <1>2
    <3>3. (a + 1 + k) * q = a * q + q + k * q /\ k * q \in Nat
      BY <1>1, <1>2
    <3>4. c * q = (c - 1) * q + q
      BY <1>1
    <3>5. (i - 1) - page = c - 1
      BY <2>1, <2>2
    <3> QED
      BY <1>1, <2>3, <3>2, <3>3, <3>4, <3>5, <2>4
  <2>7. i - 1 \in pages - 1 .. pagee /\ (i # pagee <=> c # b) /\ (i # pages <=> c # a)
    BY <1>2, <1>3, <1>6, <2>1, <2>2
  <2> QED
    BY <1>1, <1>2, <1>3, <2>1, <2>2, <2>3, <2>4, <2>5, <2>6, <2>7
<1>9. ASSUME NEW i \in pages .. pagee
      PROVE  W[i] = ReadSub(W[i - 1], i, pagee, m0, me)
  <2> DEFINE m == Larger(m0, Z(i)) - 1
             e == IF i # pagee THEN Z(i) + q - 1 ELSE me
             ps == Larger(0, m0 - Z(i))
             pl == Smaller(Fp - 1, me - Z(i))
             pe == IF i # pagee /\ pl = Fp - 1 THEN pl - 1 ELSE pl
  <2>1. W[i - 1] = [out |-> Span(page, m0, m, me), cur |-> Z(i)]
    <3>1. CASE i = pages
      <4>1. i - 1 < pages /\ i - 1 \in pages - 1 .. pagee
        BY <1>8, <3>1
      <4>2. W[i - 1] = [out |-> <<>>, cur |-> (m0 \div (Fp - 1)) * (Fp - 1)]
        BY <4>1
      <4>3. Z(i) = (m0 \div (Fp - 1)) * (Fp - 1)
        <5>1. i - page = a
          BY <1>2, <1>6, <3>1
        <5> QED
          BY <5>1
      <4>4. m = m0 - 1
        <5> HIDE DEF Z
        <5> QED
          BY <1>8, <3>1 DEF Larger
      <4>5. Span(page, m0, m, me) = <<>>
        <5>1. page \in Int /\ m0 \in Int /\ me \in Int
          OBVIOUS
        <5> HIDE DEF m
        <5> QED
          BY <4>4, <5>1, EmptySpan
      <4> HIDE DEF W, Z, m
      <4> QED
        BY <4>2, <4>3, <4>5
    <3>2. CASE i # pages
      <4>1. i - 1 \in pages - 1 .. pagee /\ ~ (i - 1 < pages) /\ i - 1 # pagee
        <5> HIDE DEF pages, pagee
        <5> QED
          BY <1>7, <1>8, <3>2
      <4>2. W[i - 1] = [out |-> Span(page, m0, Z(i - 1) + q - 1, me), cur |-> Z(i - 1) + q]
        BY <4>1
      <4>3. Z(i) = Z(i - 1) + q /\ m = Z(i - 1) + q - 1
        <5>1. Z(i - 1) \in Int /\ Z(i) \in Int /\ q \in Int
          BY <1>1, <1>8
        <5> HIDE DEF Z, q
        <5> QED
          BY <1>8, <3>2, <5>1 DEF Larger
      <4> HIDE DEF W, Z, m
      <4> QED
        BY <4>2, <4>3
    <3> QED
      BY <3>1, <3>2
  <2>2. pe - ps = e - m - 1 /\ ps \in Int /\ pe \in Int /\ m \in Int /\ e \in Int
        /\ m0 <= m + 1 /\ m <= e /\ e <= me /\ Z(i) <= m + 1 /\ ps = m + 1 - Z(i)
        /\ (i # pagee => e < Z(i) + q /\ e < me /\ Z(i) + pe + 1 = Z(i) + q)
        /\ (i = pagee => Z(i) + pe + 1 = me + 1)
    <3> HIDE DEF Z, pages, pagee
    <3> QED
      BY <1>1, <1>8 DEF Larger, Smaller
  <2>3. W[i] = [out |-> Span(page, m0, e, me), cur |-> Z(i) + pe + 1]
    <3>1. i \in pages - 1 .. pagee /\ ~ (i < pages)
      <4> HIDE DEF pages, pagee
      <4> QED
        BY <1>7, <1>8
    <3>2. W[i] = IF i # pagee
                 THEN [out |-> Span(page, m0, Z(i) + q - 1, me), cur |-> Z(i) + q]
                 ELSE [out |-> Span(page, m0, me, me), cur |-> me + 1]
      BY <3>1
    <3> HIDE DEF W, Z, q, pe
    <3> QED
      BY <2>2, <3>2
  <2>4. ASSUME NEW j \in m + 1 .. e
        PROVE  ReadPoint(page, j, me) = PointAt(i, ps + j - m - 1)
    <3>1. j \in Nat /\ j <= e /\ Z(i) <= j /\ j <= me /\ ps + j - m - 1 = j - Z(i)
      <4> HIDE DEF Z, pages, pagee, m, e, ps
      <4> QED
        BY <1>8, <2>2
    <3>2. PageOf(j, me) = i - page
      <4>1. CASE j = me
        <5>1. i = pagee
          <6> HIDE DEF Z, pages, pagee, m, e
          <6> QED
            BY <2>2, <3>1, <4>1
        <5>2. i - page = b
          <6> HIDE DEF b, pages, pagee
          <6> QED
            BY <1>3, <1>6, <5>1
        <5> QED
          BY <4>1, <5>2 DEF PageOf
      <4>2. CASE j # me
        <5>1. (i - page) * q <= j /\ j < (i - page) * q + q
          <6>1. Z(i) <= j /\ j < Z(i) + q
            <7>1. Z(i) \in Int /\ q \in Int
              BY <1>1, <1>8
            <7> HIDE DEF Z, q, pages, pagee, m, e
            <7> QED
              BY <1>8, <2>2, <3>1, <4>2, <7>1
          <6> QED
            BY <6>1
        <5>2. j \div q = i - page
          <6>1. PICK c \in Nat : c = i - page
            BY <1>8
          <6>2. c * q <= j /\ j < c * q + q
            BY <5>1, <6>1
          <6>3. j \in Nat
            BY <3>1
          <6>4. q \in Nat \ {0} /\ c \in Int
            BY <1>1
          <6> HIDE DEF q, pages, pagee, m, e
          <6>5. j \div q = c
            BY <6>2, <6>3, <6>4, QuotientIs
          <6> QED
            BY <6>1, <6>5
        <5> HIDE DEF q, pages, pagee
        <5> QED
          BY <1>1, <4>2, <5>2 DEF PageOf
      <4> QED
        BY <4>1, <4>2
    <3>3. PageOf(j, me) * Stride = Z(i)
      BY <1>1, <3>2
    <3>4. page + PageOf(j, me) = i
      <4> HIDE DEF pages, pagee
      <4> QED
        BY <1>8, <3>2
    <3> HIDE DEF Z, m, e, ps
    <3> QED
      BY <3>1, <3>3, <3>4 DEF ReadPoint
  <2>5. Span(page, m0, m, me) \o SlotsOf(i, ps, pe) = Span(page, m0, e, me)
    <3>1. page \in Int /\ me \in Int /\ m0 \in Int /\ i \in Int
      <4> HIDE DEF pages, pagee
      <4> QED
        BY <1>8
    <3> HIDE DEF m, e, ps, pe, pages, pagee
    <3> QED
      <4>1. ps \in Int /\ pe \in Int /\ m \in Int /\ e \in Int
        BY <2>2
      <4>2. Continues(page, me, m0, i, m, e, ps, pe)
        BY <2>2, <2>4, <3>1, <4>1 DEF Continues
      <4>3. Grown(page, me, m0, i, m, e, ps, pe)
        BY <4>2, SpanGrows, Zenon
      <4> QED
        BY <4>3 DEF Grown
  <2>6. W[i - 1].cur = Z(i) /\ W[i - 1].out = Span(page, m0, m, me)
    <3> HIDE DEF W, m, Z
    <3> QED
      BY <2>1
  <2>7. ReadSub(W[i - 1], i, pagee, m0, me)
        = [out |-> W[i - 1].out \o SlotsOf(i, ps, pe), cur |-> W[i - 1].cur + pe + 1]
    <3> HIDE DEF W, Z, pagee
    <3> QED
      BY <2>6 DEF ReadSub
  <2> HIDE DEF W, m, e, Z, ps, pe
  <2> QED
    BY <2>3, <2>5, <2>6, <2>7
<1>10. W = E(W)
  <2>1. \A i \in pages - 1 .. pagee :
          W[i] = IF i < pages THEN [out |-> <<>>, cur |-> (m0 \div (Fp - 1)) * (Fp - 1)]
                 ELSE ReadSub(W[i - 1], i, pagee, m0, me)
    <3> SUFFICES ASSUME NEW i \in pages - 1 .. pagee
                 PROVE  W[i] = IF i < pages
                               THEN [out |-> <<>>, cur |-> (m0 \div (Fp - 1)) * (Fp - 1)]
                               ELSE ReadSub(W[i - 1], i, pagee, m0, me)
      OBVIOUS
    <3>1. CASE i < pages
      BY <3>1
    <3>2. CASE ~ (i < pages)
      <4>1. i \in pages .. pagee
        <5> HIDE DEF pages, pagee
        <5> QED
          BY <1>7, <3>2
      <4>2. W[i] = ReadSub(W[i - 1], i, pagee, m0, me)
        BY <1>9, <4>1
      <4> HIDE DEF W
      <4> QED
        BY <3>2, <4>2
    <3> QED
      BY <3>1, <3>2
  <2>2. W = [i \in pages - 1 .. pagee |-> W[i]]
    OBVIOUS
  <2> HIDE DEF W, pages, pagee
  <2> QED
    BY <2>1, <2>2
<1>11. R = E(R)
  <2> HIDE DEF E, W
  <2>1. \E f : f = E(f)
    BY <1>10
  <2> QED
    BY <1>70, <2>1
<1>12. R[pagee] = W[pagee]
  <2>1. \A i \in pages - 1 .. pagee :
          R[i] = IF i < pages THEN [out |-> <<>>, cur |-> (m0 \div (Fp - 1)) * (Fp - 1)]
                 ELSE ReadSub(R[i - 1], i, pagee, m0, me)
    <3> HIDE DEF pages, pagee
    <3> QED
      BY <1>11
  <2>2. \A i \in pages - 1 .. pagee :
          W[i] = IF i < pages THEN [out |-> <<>>, cur |-> (m0 \div (Fp - 1)) * (Fp - 1)]
                 ELSE ReadSub(W[i - 1], i, pagee, m0, me)
    <3> HIDE DEF W, pages, pagee
    <3> QED
      BY <1>10
  <2> HIDE DEF W, E, pages, pagee
  <2>3. R[pages - 1] = W[pages - 1]
    BY <1>7, <2>1, <2>2
  <2>4. ASSUME NEW i \in (pages - 1) + 1 .. pagee, R[i - 1] = W[i - 1]
        PROVE  R[i] = W[i]
    <3>1. i \in pages - 1 .. pagee /\ ~ (i < pages)
      BY <1>7
    <3> QED
      BY <2>1, <2>2, <2>4, <3>1
  <2>5. pages - 1 \in Int /\ pages - 1 <= pagee
    BY <1>7
  <2>6. \A f, g :
          /\ pages - 1 <= pagee
          /\ f[pages - 1] = g[pages - 1]
          /\ \A i \in (pages - 1) + 1 .. pagee : f[i - 1] = g[i - 1] => f[i] = g[i]
          => f[pagee] = g[pagee]
    <3> HIDE DEF R, pages, pagee
    <3>1. pages - 1 \in Int /\ pagee \in Int
      BY <1>7, <2>5, Zenon
    <3> QED
      BY <3>1, SameRounds, Zenon
  <2>7. \A i \in (pages - 1) + 1 .. pagee : R[i - 1] = W[i - 1] => R[i] = W[i]
    BY <2>4, Zenon
  <2>8. pages - 1 <= pagee
    BY <2>5, Zenon
  <2> HIDE DEF R
  <2> QED
    BY <2>3, <2>6, <2>7, <2>8, Zenon
<1>13. W[pagee].out = Span(page, m0, me, me)
  <2>1. pagee \in pages - 1 .. pagee /\ ~ (pagee < pages)
    <3> HIDE DEF pages, pagee
    <3> QED
      BY <1>7
  <2>2. W[pagee] = [out |-> Span(page, m0, me, me), cur |-> me + 1]
    BY <2>1
  <2> HIDE DEF W
  <2> QED
    BY <2>2
<1> QED
  BY <1>5, <1>12, <1>13
(* loadTraj without them. *)
LEMMA PlainReads ==
  ASSUME ~bSubTraj, NEW page \in Nat, NEW m0 \in Nat, NEW me \in Nat, m0 < me,
         (m0 + 1) % Fp # 0
  PROVE  LoadPlain(page, m0, me) = Span(page, m0, me, me)
<1> DEFINE a == (m0 + 1) \div Fp
           b == Ceil(me + 1, Fp) - 1
           q == Fp
           pages == page + (m0 + 1) \div Fp
           pagee == page + Ceil(me + 1, Fp) - 1
           R[i \in pages - 1 .. pagee] ==
             IF i < pages THEN [out |-> <<>>, cur |-> (m0 \div Fp) * Fp]
             ELSE ReadPlain(R[i - 1], i, m0, me)
           W == [i \in pages - 1 .. pagee |->
                   IF i < pages THEN [out |-> <<>>, cur |-> (m0 \div Fp) * Fp]
                   ELSE IF i # pagee
                   THEN [out |-> Span(page, m0, (i - page) * q + q - 1, me),
                         cur |-> (i - page) * q + q]
                   ELSE [out |-> Span(page, m0, me, me), cur |-> (i - page) * q + q]]
<1>1. q \in Nat \ {0} /\ q = Stride /\ Fp \in Nat
  BY FpAssumption DEF Stride
<1>2. a \in Nat /\ a * q <= m0 /\ m0 < a * q + q /\ m0 \div q = a
  <2> HIDE DEF q
  <2>1. m0 + 1 \in Nat /\ a = (m0 + 1) \div q
    BY DEF q
  <2>2. a \in Nat /\ a * q <= m0 + 1 /\ m0 + 1 < a * q + q
    BY <1>1, <2>1, Quotient
  <2>3. a * q # m0 + 1
    <3>1. (a * q) % q = 0
      BY <1>1, <2>2
    <3> HIDE DEF a
    <3> QED
      BY <3>1 DEF q
  <2> HIDE DEF a
  <2>4. a * q <= m0 /\ m0 < a * q + q
    <3>1. a * q \in Int
      BY <1>1, <2>2
    <3> QED
      BY <1>1, <2>2, <2>3, <3>1
  <2>5. m0 \div q = a
    BY <1>1, <2>2, <2>4, QuotientIs
  <2> QED
    BY <2>2, <2>4, <2>5
<1>3. b \in Nat /\ b * q <= me /\ me < b * q + q
  <2> HIDE DEF q
  <2>1. me + 1 \in Nat \ {0} /\ b = Ceil(me + 1, q) - 1
    BY DEF q
  <2>2. b \in Nat /\ b * q < me + 1 /\ me + 1 <= b * q + q
    BY <1>1, <2>1, CeilIs
  <2>3. b * q \in Int
    BY <1>1, <2>2
  <2> HIDE DEF b
  <2> QED
    BY <1>1, <2>2, <2>3
<1>4. a <= b
  <2> HIDE DEF a, b, q
  <2>1. a * q \in Int /\ b * q \in Int
    BY <1>1, <1>2, <1>3
  <2>2. a * q < b * q + q
    BY <1>1, <1>2, <1>3, <2>1
  <2> QED
    BY <1>1, <1>2, <1>3, <2>2, Between
<1>5. LoadPlain(page, m0, me) = R[pagee].out
  BY DEF LoadPlain
<1>6. pages = page + a /\ pagee = page + b
  <2>1. b = Ceil(me + 1, Fp) - 1 /\ b \in Nat
    BY <1>3
  <2>2. Ceil(me + 1, Fp) \in Int
    BY <1>1 DEF Ceil
  <2> HIDE DEF b
  <2> QED
    BY <2>1, <2>2
<1>7. pages \in Int /\ pagee \in Int /\ pages <= pagee
  <2> HIDE DEF a, b, pages, pagee
  <2> QED
    BY <1>2, <1>3, <1>4, <1>6
<1> DEFINE E(f) == [i \in pages - 1 .. pagee |->
                     IF i < pages THEN [out |-> <<>>, cur |-> (m0 \div Fp) * Fp]
                     ELSE ReadPlain(f[i - 1], i, m0, me)]
<1>70. R = CHOOSE f : f = E(f)
  OBVIOUS
<1> HIDE DEF R
<1> DEFINE Z(i) == (i - page) * q
<1>8. ASSUME NEW i \in pages .. pagee
      PROVE  /\ i - 1 \in pages - 1 .. pagee /\ i \in Int /\ i - page \in Nat
             /\ Z(i) \in Nat /\ m0 < Z(i) + q
             /\ i # pagee => Z(i) + q <= me
             /\ i = pagee => Z(i) <= me /\ me < Z(i) + q
             /\ i = pages => Z(i) <= m0
             /\ i # pages => m0 < Z(i) /\ Z(i) = Z(i - 1) + q
  <2> HIDE DEF a, b, q, pages, pagee
  <2>1. i \in Int /\ page + a <= i /\ i <= page + b
    BY <1>2, <1>3, <1>6
  <2>2. PICK c \in Nat : c = i - page
    BY <1>2, <2>1
  <2>3. a <= c /\ c <= b /\ Z(i) = c * q /\ c * q \in Nat
    BY <1>1, <1>2, <1>3, <2>1, <2>2
  <2>4. a * q \in Nat /\ b * q \in Nat /\ a * q <= c * q
    <3>1. PICK k \in Nat : c = a + k
      <4>1. c - a \in Nat
        BY <1>2, <2>3
      <4> QED
        BY <4>1, <1>2
    <3>2. (a + k) * q = a * q + k * q /\ k * q \in Nat
      BY <1>1, <1>2
    <3> QED
      BY <1>1, <1>2, <1>3, <3>1, <3>2
  <2>5. c < b => c * q + q <= b * q
    <3>1. SUFFICES ASSUME c < b PROVE c * q + q <= b * q
      OBVIOUS
    <3>2. PICK k \in Nat : b = c + 1 + k
      <4>1. b - (c + 1) \in Nat
        BY <1>3, <3>1
      <4> QED
        BY <4>1, <1>3
    <3>3. (c + 1 + k) * q = c * q + q + k * q /\ k * q \in Nat
      BY <1>1
    <3> QED
      BY <1>1, <2>3, <3>2, <3>3
  <2>6. a < c => a * q + q <= c * q /\ c * q = (c - 1) * q + q /\ Z(i - 1) = (c - 1) * q
    <3>1. SUFFICES ASSUME a < c
                   PROVE a * q + q <= c * q /\ c * q = (c - 1) * q + q /\ Z(i - 1) = (c - 1) * q
      OBVIOUS
    <3>2. PICK k \in Nat : c = a + 1 + k
      <4>1. c - (a + 1) \in Nat
        BY <1>2, <3>1
      <4> QED
        BY <4>1, <1>2
    <3>3. (a + 1 + k) * q = a * q + q + k * q /\ k * q \in Nat
      BY <1>1, <1>2
    <3>4. c * q = (c - 1) * q + q
      BY <1>1
    <3>5. (i - 1) - page = c - 1
      BY <2>1, <2>2
    <3> QED
      BY <1>1, <2>3, <3>2, <3>3, <3>4, <3>5, <2>4
  <2>7. i - 1 \in pages - 1 .. pagee /\ (i # pagee <=> c # b) /\ (i # pages <=> c # a)
    BY <1>2, <1>3, <1>6, <2>1, <2>2
  <2> QED
    BY <1>1, <1>2, <1>3, <2>1, <2>2, <2>3, <2>4, <2>5, <2>6, <2>7
<1>9. ASSUME NEW i \in pages .. pagee
      PROVE  W[i] = ReadPlain(W[i - 1], i, m0, me)
  <2> DEFINE m == Larger(m0, Z(i)) - 1
             e == IF i # pagee THEN Z(i) + q - 1 ELSE me
             ps == Larger(0, m0 - Z(i))
             pe == Smaller(Fp - 1, me - Z(i))
  <2>1. W[i - 1] = [out |-> Span(page, m0, m, me), cur |-> Z(i)]
    <3>1. CASE i = pages
      <4>1. i - 1 < pages /\ i - 1 \in pages - 1 .. pagee
        BY <1>8, <3>1
      <4>2. W[i - 1] = [out |-> <<>>, cur |-> (m0 \div Fp) * Fp]
        BY <4>1
      <4>3. Z(i) = (m0 \div Fp) * Fp
        <5>1. i - page = a
          BY <1>2, <1>6, <3>1
        <5> QED
          BY <1>2, <5>1
      <4>4. m = m0 - 1
        <5> HIDE DEF Z
        <5> QED
          BY <1>8, <3>1 DEF Larger
      <4>5. Span(page, m0, m, me) = <<>>
        <5>1. page \in Int /\ m0 \in Int /\ me \in Int
          OBVIOUS
        <5> HIDE DEF m
        <5> QED
          BY <4>4, <5>1, EmptySpan
      <4> HIDE DEF W, Z, m
      <4> QED
        BY <4>2, <4>3, <4>5
    <3>2. CASE i # pages
      <4>1. i - 1 \in pages - 1 .. pagee /\ ~ (i - 1 < pages) /\ i - 1 # pagee
        <5> HIDE DEF pages, pagee
        <5> QED
          BY <1>7, <1>8, <3>2
      <4>2. W[i - 1] = [out |-> Span(page, m0, Z(i - 1) + q - 1, me), cur |-> Z(i - 1) + q]
        BY <4>1
      <4>3. Z(i) = Z(i - 1) + q /\ m = Z(i - 1) + q - 1
        <5>1. Z(i - 1) \in Int /\ Z(i) \in Int /\ q \in Int
          BY <1>1, <1>8
        <5> HIDE DEF Z, q
        <5> QED
          BY <1>8, <3>2, <5>1 DEF Larger
      <4> HIDE DEF W, Z, m
      <4> QED
        BY <4>2, <4>3
    <3> QED
      BY <3>1, <3>2
  <2>2. pe - ps = e - m - 1 /\ ps \in Int /\ pe \in Int /\ m \in Int /\ e \in Int
        /\ m0 <= m + 1 /\ m <= e /\ e <= me /\ Z(i) <= m + 1 /\ ps = m + 1 - Z(i)
        /\ e < Z(i) + q
    <3> HIDE DEF Z, pages, pagee
    <3> QED
      BY <1>1, <1>8 DEF Larger, Smaller
  <2>3. W[i] = [out |-> Span(page, m0, e, me), cur |-> Z(i) + Fp]
    <3>1. i \in pages - 1 .. pagee /\ ~ (i < pages)
      <4> HIDE DEF pages, pagee
      <4> QED
        BY <1>7, <1>8
    <3>2. W[i] = IF i # pagee
                 THEN [out |-> Span(page, m0, Z(i) + q - 1, me), cur |-> Z(i) + q]
                 ELSE [out |-> Span(page, m0, me, me), cur |-> Z(i) + q]
      BY <3>1
    <3> HIDE DEF W, Z, pe
    <3> QED
      BY <2>2, <3>2
  <2>4. ASSUME NEW j \in m + 1 .. e
        PROVE  ReadPoint(page, j, me) = PointAt(i, ps + j - m - 1)
    <3>1. j \in Nat /\ j <= e /\ Z(i) <= j /\ j <= me /\ ps + j - m - 1 = j - Z(i)
      <4> HIDE DEF Z, pages, pagee, m, e, ps
      <4> QED
        BY <1>8, <2>2
    <3>2. PageOf(j, me) = i - page
      <4>1. PICK c \in Nat : c = i - page
        BY <1>8
      <4>2. Z(i) <= j /\ j < Z(i) + q
        <5>1. Z(i) \in Int /\ q \in Int
          BY <1>1, <1>8
        <5> HIDE DEF Z, q, pages, pagee, m, e
        <5> QED
          BY <1>8, <2>2, <3>1, <5>1
      <4>3. c * q <= j /\ j < c * q + q
        BY <4>1, <4>2
      <4>4. q \in Nat \ {0} /\ c \in Int /\ j \in Nat
        BY <1>1, <3>1
      <4> HIDE DEF q, pages, pagee, m, e
      <4>5. j \div q = c
        BY <4>3, <4>4, QuotientIs
      <4> QED
        BY <1>1, <4>1, <4>5 DEF PageOf
    <3>3. PageOf(j, me) * Stride = Z(i)
      BY <1>1, <3>2
    <3>4. page + PageOf(j, me) = i
      <4> HIDE DEF pages, pagee
      <4> QED
        BY <1>8, <3>2
    <3> HIDE DEF Z, m, e, ps
    <3> QED
      BY <3>1, <3>3, <3>4 DEF ReadPoint
  <2>5. Span(page, m0, m, me) \o SlotsOf(i, ps, pe) = Span(page, m0, e, me)
    <3>1. page \in Int /\ me \in Int /\ m0 \in Int /\ i \in Int
      <4> HIDE DEF pages, pagee
      <4> QED
        BY <1>8
    <3> HIDE DEF m, e, ps, pe, pages, pagee
    <3> QED
      <4>1. ps \in Int /\ pe \in Int /\ m \in Int /\ e \in Int
        BY <2>2
      <4>2. Continues(page, me, m0, i, m, e, ps, pe)
        BY <2>2, <2>4, <3>1, <4>1 DEF Continues
      <4>3. Grown(page, me, m0, i, m, e, ps, pe)
        BY <4>2, SpanGrows, Zenon
      <4> QED
        BY <4>3 DEF Grown
  <2>6. W[i - 1].cur = Z(i) /\ W[i - 1].out = Span(page, m0, m, me)
    <3> HIDE DEF W, m, Z
    <3> QED
      BY <2>1
  <2>7. ReadPlain(W[i - 1], i, m0, me)
        = [out |-> W[i - 1].out \o SlotsOf(i, ps, pe), cur |-> W[i - 1].cur + Fp]
    <3> HIDE DEF W, Z, pagee
    <3> QED
      BY <2>6 DEF ReadPlain
  <2> HIDE DEF W, m, e, Z, ps, pe
  <2> QED
    BY <2>3, <2>5, <2>6, <2>7
<1>10. W = E(W)
  <2>1. \A i \in pages - 1 .. pagee :
          W[i] = IF i < pages THEN [out |-> <<>>, cur |-> (m0 \div Fp) * Fp]
                 ELSE ReadPlain(W[i - 1], i, m0, me)
    <3> SUFFICES ASSUME NEW i \in pages - 1 .. pagee
                 PROVE  W[i] = IF i < pages
                               THEN [out |-> <<>>, cur |-> (m0 \div Fp) * Fp]
                               ELSE ReadPlain(W[i - 1], i, m0, me)
      OBVIOUS
    <3>1. CASE i < pages
      BY <3>1
    <3>2. CASE ~ (i < pages)
      <4>1. i \in pages .. pagee
        <5> HIDE DEF pages, pagee
        <5> QED
          BY <1>7, <3>2
      <4>2. W[i] = ReadPlain(W[i - 1], i, m0, me)
        BY <1>9, <4>1
      <4> HIDE DEF W
      <4> QED
        BY <3>2, <4>2
    <3> QED
      BY <3>1, <3>2
  <2>2. W = [i \in pages - 1 .. pagee |-> W[i]]
    OBVIOUS
  <2> HIDE DEF W, pages, pagee
  <2> QED
    BY <2>1, <2>2
<1>11. R = E(R)
  <2> HIDE DEF E, W
  <2>1. \E f : f = E(f)
    BY <1>10
  <2> QED
    BY <1>70, <2>1
<1>12. R[pagee] = W[pagee]
  <2>1. \A i \in pages - 1 .. pagee :
          R[i] = IF i < pages THEN [out |-> <<>>, cur |-> (m0 \div Fp) * Fp]
                 ELSE ReadPlain(R[i - 1], i, m0, me)
    <3> HIDE DEF pages, pagee
    <3> QED
      BY <1>11
  <2>2. \A i \in pages - 1 .. pagee :
          W[i] = IF i < pages THEN [out |-> <<>>, cur |-> (m0 \div Fp) * Fp]
                 ELSE ReadPlain(W[i - 1], i, m0, me)
    <3> HIDE DEF W, pages, pagee
    <3> QED
      BY <1>10
  <2> HIDE DEF W, E, pages, pagee
  <2>3. R[pages - 1] = W[pages - 1]
    BY <1>7, <2>1, <2>2
  <2>4. ASSUME NEW i \in (pages - 1) + 1 .. pagee, R[i - 1] = W[i - 1]
        PROVE  R[i] = W[i]
    <3>1. i \in pages - 1 .. pagee /\ ~ (i < pages)
      BY <1>7
    <3> QED
      BY <2>1, <2>2, <2>4, <3>1
  <2>5. pages - 1 \in Int /\ pages - 1 <= pagee
    BY <1>7
  <2>6. \A f, g :
          /\ pages - 1 <= pagee
          /\ f[pages - 1] = g[pages - 1]
          /\ \A i \in (pages - 1) + 1 .. pagee : f[i - 1] = g[i - 1] => f[i] = g[i]
          => f[pagee] = g[pagee]
    <3> HIDE DEF R, pages, pagee
    <3>1. pages - 1 \in Int /\ pagee \in Int
      BY <1>7, <2>5, Zenon
    <3> QED
      BY <3>1, SameRounds, Zenon
  <2>7. \A i \in (pages - 1) + 1 .. pagee : R[i - 1] = W[i - 1] => R[i] = W[i]
    BY <2>4, Zenon
  <2>8. pages - 1 <= pagee
    BY <2>5, Zenon
  <2> HIDE DEF R
  <2> QED
    BY <2>3, <2>6, <2>7, <2>8, Zenon
<1>13. W[pagee].out = Span(page, m0, me, me)
  <2>1. pagee \in pages - 1 .. pagee /\ ~ (pagee < pages)
    <3> HIDE DEF pages, pagee
    <3> QED
      BY <1>7
  <2>2. W[pagee] = [out |-> Span(page, m0, me, me), cur |-> (pagee - page) * q + q]
    BY <2>1
  <2> HIDE DEF W
  <2> QED
    BY <2>2
<1> QED
  BY <1>5, <1>12, <1>13

(* The slots loadTraj returns of an interval that starts on the last point *)
(* of a page, without subtrajectories: the last of the page after it, and  *)
(* whole pages up to page i.                                               *)
LastFirst(from, i) ==
  [k \in 1 .. 1 + (i - from) * Fp |->
     IF k = 1 THEN PointAt(from, Fp - 1)
     ELSE PointAt(from + 1 + (k - 2) \div Fp, k - 2 - ((k - 2) \div Fp) * Fp)]

(* One slot, to begin with, *)
LEMMA LastFirstBegins ==
  ASSUME NEW from \in Int
  PROVE  <<>> \o SlotsOf(from, Fp - 1, Fp - 1) = LastFirst(from, from)
<1> DEFINE P == PointAt(from, Fp - 1)
<1>1. SlotsOf(from, Fp - 1, Fp - 1) = <<P>>
  <2>1. (Fp - 1) - (Fp - 1) + 1 = 1 /\ (Fp - 1) + 1 - 1 = Fp - 1
    BY FpAssumption
  <2>2. SlotsOf(from, Fp - 1, Fp - 1) = [k \in 1 .. 1 |-> PointAt(from, (Fp - 1) + k - 1)]
    BY <2>1 DEF SlotsOf
  <2>3. \A k \in 1 .. 1 : PointAt(from, (Fp - 1) + k - 1) = P
    BY <2>1
  <2> HIDE DEF P
  <2> QED
    BY <2>2, <2>3
<1>2. LastFirst(from, from) = <<P>>
  <2>1. 1 + (from - from) * Fp = 1
    BY FpAssumption
  <2>2. LastFirst(from, from)
        = [k \in 1 .. 1 |->
             IF k = 1 THEN P
             ELSE PointAt(from + 1 + (k - 2) \div Fp, k - 2 - ((k - 2) \div Fp) * Fp)]
    BY <2>1 DEF LastFirst
  <2> HIDE DEF P
  <2> QED
    BY <2>2
<1> HIDE DEF P
<1> QED
  BY <1>1, <1>2

(* and a page more each round. *)
LEMMA LastFirstGrows ==
  ASSUME NEW from \in Int, NEW i \in Int, from < i
  PROVE  LastFirst(from, i - 1) \o SlotsOf(i, 0, Fp - 1) = LastFirst(from, i)
<1> DEFINE S == {PointAt(p, x) : p \in Int, x \in Int}
           u == LastFirst(from, i - 1)
           v == SlotsOf(i, 0, Fp - 1)
           w == LastFirst(from, i)
<1>1. PICK c \in Nat, q \in Nat \ {0} : c = i - 1 - from /\ q = Fp
  <2>1. i - 1 - from \in Nat /\ Fp \in Nat \ {0}
    BY FpAssumption
  <2> QED
    BY <2>1
<1>2. PICK l \in Nat : l = c * q
  BY <1>1
<1>3. (i - from) * Fp = l + q /\ (i - 1 - from) * Fp = l
  <2>1. i - from = c + 1 /\ i - 1 - from = c
    BY <1>1
  <2>2. (c + 1) * q = c * q + q
    BY <1>1
  <2> QED
    BY <1>1, <1>2, <2>1, <2>2
<1>4. v = [k \in 1 .. q |-> PointAt(i, k - 1)]
  <2>1. (Fp - 1) - 0 + 1 = q /\ \A k \in 1 .. q : 0 + k - 1 = k - 1
    BY <1>1
  <2> QED
    BY <2>1 DEF SlotsOf
<1>5. ASSUME NEW k \in Int, k > 1
      PROVE  /\ (k - 2) \div Fp \in Int
             /\ from + 1 + (k - 2) \div Fp \in Int
             /\ k - 2 - ((k - 2) \div Fp) * Fp \in Int
  <2>1. (k - 2) \div Fp \in Nat
    BY <1>1, <1>5, Quotient
  <2> QED
    BY <1>1, <2>1
<1>6. /\ u = [k \in 1 .. 1 + l |->
                IF k = 1 THEN PointAt(from, Fp - 1)
                ELSE PointAt(from + 1 + (k - 2) \div Fp, k - 2 - ((k - 2) \div Fp) * Fp)]
      /\ w = [k \in 1 .. 1 + l + q |->
                IF k = 1 THEN PointAt(from, Fp - 1)
                ELSE PointAt(from + 1 + (k - 2) \div Fp, k - 2 - ((k - 2) \div Fp) * Fp)]
  <2>1. 1 + (i - from) * Fp = 1 + l + q /\ 1 + (i - 1 - from) * Fp = 1 + l
    BY <1>1, <1>2, <1>3
  <2> QED
    BY <2>1 DEF LastFirst
<1> HIDE DEF u, v, w
<1>7. \A k \in 1 .. 1 + l + q : w[k] \in S
  <2> SUFFICES ASSUME NEW k \in 1 .. 1 + l + q PROVE w[k] \in S
    OBVIOUS
  <2>1. CASE k = 1
    <3>1. w[k] = PointAt(from, Fp - 1) /\ Fp - 1 \in Int
      BY <1>1, <1>6, <2>1
    <3> QED
      BY <3>1
  <2>2. CASE k # 1
    <3>1. k \in Int /\ k > 1
      BY <2>2
    <3>2. w[k] = PointAt(from + 1 + (k - 2) \div Fp, k - 2 - ((k - 2) \div Fp) * Fp)
      BY <1>6, <2>2
    <3> QED
      BY <1>5, <3>1, <3>2
  <2> QED
    BY <2>1, <2>2
<1>8. u \in Seq(S) /\ Len(u) = 1 + l /\ \A k \in 1 .. 1 + l : u[k] = w[k]
  <2>1. \A k \in 1 .. 1 + l : u[k] = w[k] /\ u[k] \in S
    <3>1. \A k \in 1 .. 1 + l : k \in 1 .. 1 + l + q
      OBVIOUS
    <3>2. \A k \in 1 .. 1 + l : u[k] = w[k]
      BY <1>6, <3>1
    <3> HIDE DEF S
    <3> QED
      BY <1>7, <3>1, <3>2
  <2>2. 1 + l \in Nat /\ u = [k \in 1 .. 1 + l |-> u[k]]
    BY <1>6
  <2> HIDE DEF S
  <2>3. u \in [1 .. 1 + l -> S]
    BY <2>1, <2>2
  <2> QED
    BY <2>1, <2>2, <2>3, RangeSeq
<1>9. v \in Seq(S) /\ Len(v) = q
  <2>1. \A k \in 1 .. q : PointAt(i, k - 1) \in S
    OBVIOUS
  <2> HIDE DEF S
  <2>2. v \in [1 .. q -> S]
    BY <1>4, <2>1
  <2> QED
    BY <1>1, <2>2, RangeSeq
<1>10. w \in Seq(S) /\ Len(w) = 1 + l + q
  <2>1. 1 + l + q \in Nat /\ w = [k \in 1 .. 1 + l + q |-> w[k]]
    BY <1>6
  <2> HIDE DEF S
  <2>2. w \in [1 .. 1 + l + q -> S]
    BY <1>7, <2>1
  <2> QED
    BY <2>1, <2>2, RangeSeq
<1> HIDE DEF S
<1>11. /\ u \o v \in Seq(S) /\ Len(u \o v) = 1 + l + q
       /\ \A k \in 1 .. 1 + l + q : (u \o v)[k] = IF k <= 1 + l THEN u[k] ELSE v[k - (1 + l)]
  <2>1. /\ u \o v \in Seq(S) /\ Len(u \o v) = Len(u) + Len(v)
        /\ \A k \in 1 .. Len(u) + Len(v) : (u \o v)[k] = IF k <= Len(u) THEN u[k] ELSE v[k - Len(u)]
    BY <1>8, <1>9, ConcatProperties
  <2>2. Len(u) + Len(v) = 1 + l + q /\ Len(u) = 1 + l
    BY <1>8, <1>9
  <2> QED
    BY <2>1, <2>2, Zenon
<1>12. ASSUME NEW k \in 1 .. 1 + l + q PROVE (u \o v)[k] = w[k]
  <2>1. CASE k <= 1 + l
    BY <1>8, <1>11, <2>1
  <2>2. CASE ~ (k <= 1 + l)
    <3>1. PICK j \in 1 .. q : j = k - (1 + l)
      BY <2>2
    <3>2. (u \o v)[k] = PointAt(i, j - 1)
      BY <1>4, <1>11, <2>2, <3>1
    <3>3. k - 2 \in Nat /\ c * q <= k - 2 /\ k - 2 < c * q + q /\ k # 1
      BY <1>2, <2>2, <3>1
    <3>4. (k - 2) \div q = c
      BY <1>1, <3>3, QuotientIs
    <3>5. from + 1 + c = i /\ k - 2 - c * q = j - 1
      BY <1>1, <1>2, <3>1
    <3>6. w[k] = PointAt(from + 1 + (k - 2) \div q, k - 2 - ((k - 2) \div q) * q)
      BY <1>1, <1>6, <3>3
    <3> QED
      BY <3>2, <3>4, <3>5, <3>6
  <2> QED
    BY <2>1, <2>2
<1>13. u \o v = w
  BY <1>10, <1>11, <1>12, SeqEqual
<1> QED
  BY <1>13 DEF u, v, w

(* loadTraj without subtrajectory pages misreads such an interval.         *)
LEMMA PlainMisreads ==
  ASSUME ~bSubTraj, NEW page \in Nat, NEW m0 \in Nat, NEW me \in Nat, m0 < me,
         (m0 + 1) % Fp = 0
  PROVE  /\ LoadPlain(page, m0, me)[1] = PointAt(page + (m0 + 1) \div Fp, Fp - 1)
         /\ m0 + 1 = ((m0 + 1) \div Fp) * Fp
<1> DEFINE b == (m0 + 1) \div Fp
           d == Ceil(me + 1, Fp) - 1
           q == Fp
           pages == page + (m0 + 1) \div Fp
           pagee == page + Ceil(me + 1, Fp) - 1
           R[i \in pages - 1 .. pagee] ==
             IF i < pages THEN [out |-> <<>>, cur |-> (m0 \div Fp) * Fp]
             ELSE ReadPlain(R[i - 1], i, m0, me)
           W == [i \in pages - 1 .. pagee |->
                   IF i < pages THEN [out |-> <<>>, cur |-> (m0 \div Fp) * Fp]
                   ELSE [out |-> LastFirst(pages, i), cur |-> (i - page) * q]]
<1>1. q \in Nat \ {0} /\ Fp \in Nat /\ q >= 2
  BY FpAssumption
<1>2. b \in Nat /\ b * q = m0 + 1 /\ b >= 1 /\ m0 \div q = b - 1 /\ (b - 1) * q = m0 + 1 - q
  <2> HIDE DEF q
  <2>1. m0 + 1 \in Nat /\ b = (m0 + 1) \div q /\ (m0 + 1) % q = 0
    BY DEF q
  <2>2. b \in Nat /\ b * q = m0 + 1
    <3>1. b \in Nat /\ b * q <= m0 + 1 /\ m0 + 1 < b * q + q
      BY <1>1, <2>1, Quotient
    <3>2. m0 + 1 = (b * q) + ((m0 + 1) % q)
      BY <1>1, <2>1
    <3>3. b * q \in Int
      BY <1>1, <3>1
    <3> HIDE DEF b
    <3> QED
      BY <2>1, <3>1, <3>2, <3>3
  <2> HIDE DEF b
  <2>3. b # 0
    <3>1. 0 * q = 0
      BY <1>1
    <3> QED
      BY <2>2, <3>1
  <2>4. b - 1 \in Nat /\ b >= 1
    BY <2>2, <2>3
  <2>5. (b - 1) * q = m0 + 1 - q
    <3>1. (b - 1) * q = (b * q) - q /\ q \in Int
      BY <1>1, <2>2
    <3> QED
      BY <2>2, <3>1
  <2>6. m0 \div q = b - 1
    <3>1. (b - 1) * q <= m0 /\ m0 < (b - 1) * q + q
      BY <1>1, <2>5
    <3> QED
      BY <1>1, <2>4, <3>1, QuotientIs
  <2> QED
    BY <2>2, <2>4, <2>5, <2>6
<1>3. d \in Nat /\ d * q <= me /\ me < d * q + q
  <2> HIDE DEF q
  <2>1. me + 1 \in Nat \ {0} /\ d = Ceil(me + 1, q) - 1
    BY DEF q
  <2>2. d \in Nat /\ d * q < me + 1 /\ me + 1 <= d * q + q
    BY <1>1, <2>1, CeilIs
  <2>3. d * q \in Int
    BY <1>1, <2>2
  <2> HIDE DEF d
  <2> QED
    BY <1>1, <2>2, <2>3
<1>4. b <= d
  <2> HIDE DEF b, d, q
  <2>1. b * q \in Int /\ d * q \in Int
    BY <1>1, <1>2, <1>3
  <2>2. b * q < d * q + q
    BY <1>1, <1>2, <1>3, <2>1
  <2> QED
    BY <1>1, <1>2, <1>3, <2>2, Between
<1>5. LoadPlain(page, m0, me) = R[pagee].out
  BY DEF LoadPlain
<1>6. pages = page + b /\ pagee = page + d
  <2>1. d = Ceil(me + 1, Fp) - 1 /\ d \in Nat
    BY <1>3
  <2>2. Ceil(me + 1, Fp) \in Int
    BY <1>1 DEF Ceil
  <2> HIDE DEF d
  <2> QED
    BY <2>1, <2>2
<1>7. pages \in Int /\ pagee \in Int /\ pages <= pagee
  <2> HIDE DEF b, d, pages, pagee
  <2> QED
    BY <1>2, <1>3, <1>4, <1>6
<1> DEFINE E(f) == [i \in pages - 1 .. pagee |->
                     IF i < pages THEN [out |-> <<>>, cur |-> (m0 \div Fp) * Fp]
                     ELSE ReadPlain(f[i - 1], i, m0, me)]
<1>70. R = CHOOSE f : f = E(f)
  OBVIOUS
<1> HIDE DEF R
<1> DEFINE Z(i) == (i - 1 - page) * q
<1>8. ASSUME NEW i \in pages .. pagee
      PROVE  /\ i - 1 \in pages - 1 .. pagee /\ i \in Int
             /\ Z(i) \in Int /\ Z(i) + q <= me /\ (i - page) * q = Z(i) + q
             /\ i = pages => Z(i) = m0 + 1 - q
             /\ i # pages => m0 < Z(i)
  <2> HIDE DEF b, d, q, pages, pagee
  <2>1. i \in Int /\ page + b <= i /\ i <= page + d
    BY <1>2, <1>3, <1>6
  <2>2. PICK c \in Nat : c = i - page
    BY <1>2, <2>1
  <2>3. b <= c /\ c <= d /\ Z(i) = (c - 1) * q
    <3>1. i - 1 - page = c - 1
      BY <2>1, <2>2
    <3> QED
      BY <1>2, <1>3, <2>1, <2>2, <3>1
  <2>4. (c - 1) * q = c * q - q /\ c * q \in Nat /\ b * q \in Nat /\ d * q \in Nat
    BY <1>1, <1>2, <1>3
  <2>5. c * q <= d * q
    <3>1. PICK k \in Nat : d = c + k
      <4>1. d - c \in Nat /\ d = c + (d - c)
        BY <1>3, <2>3
      <4> QED
        BY <4>1
    <3>2. (c + k) * q = c * q + k * q /\ k * q \in Nat
      BY <1>1
    <3> QED
      BY <2>4, <3>1, <3>2
  <2>6. b < c => b * q + q <= c * q
    <3>1. SUFFICES ASSUME b < c PROVE b * q + q <= c * q
      OBVIOUS
    <3>2. PICK k \in Nat : c = b + 1 + k
      <4>1. c - (b + 1) \in Nat /\ c = b + 1 + (c - (b + 1))
        BY <1>2, <3>1
      <4> QED
        BY <4>1
    <3>3. (b + 1 + k) * q = b * q + q + k * q /\ k * q \in Nat
      BY <1>1, <1>2
    <3> QED
      BY <1>1, <2>4, <3>2, <3>3
  <2>7. i - 1 \in pages - 1 .. pagee /\ (i = pages <=> c = b)
    BY <1>2, <1>3, <1>6, <2>1, <2>2
  <2>8. Z(i) = c * q - q /\ (i - page) * q = c * q
    BY <2>2, <2>3, <2>4
  <2> HIDE DEF Z
  <2> QED
    BY <1>1, <1>2, <1>3, <2>1, <2>3, <2>4, <2>5, <2>6, <2>7, <2>8
<1>9. ASSUME NEW i \in pages .. pagee
      PROVE  W[i] = ReadPlain(W[i - 1], i, m0, me)
  <2> DEFINE out == IF i = pages THEN <<>> ELSE LastFirst(pages, i - 1)
             ps == IF i = pages THEN q - 1 ELSE 0
  <2>1. W[i - 1] = [out |-> out, cur |-> Z(i)]
    <3>1. CASE i = pages
      <4>1. i - 1 < pages /\ i - 1 \in pages - 1 .. pagee
        BY <1>8, <3>1
      <4>2. W[i - 1] = [out |-> <<>>, cur |-> (m0 \div Fp) * Fp]
        BY <4>1
      <4>3. Z(i) = (m0 \div Fp) * Fp
        BY <1>2, <1>8, <3>1
      <4> HIDE DEF W, Z
      <4> QED
        BY <3>1, <4>2, <4>3
    <3>2. CASE i # pages
      <4>1. i - 1 \in pages - 1 .. pagee /\ ~ (i - 1 < pages)
        <5> HIDE DEF pages, pagee
        <5> QED
          BY <1>7, <1>8, <3>2
      <4>2. W[i - 1] = [out |-> LastFirst(pages, i - 1), cur |-> Z(i)]
        BY <4>1
      <4> HIDE DEF W, Z
      <4> QED
        BY <3>2, <4>2
    <3> QED
      BY <3>1, <3>2
  <2>2. Larger(0, m0 - Z(i)) = ps /\ Smaller(Fp - 1, me - Z(i)) = Fp - 1
    <3> HIDE DEF Z, pages, pagee
    <3> QED
      BY <1>1, <1>8 DEF Larger, Smaller
  <2>3. W[i] = [out |-> LastFirst(pages, i), cur |-> Z(i) + Fp]
    <3>1. i \in pages - 1 .. pagee /\ ~ (i < pages)
      <4> HIDE DEF pages, pagee
      <4> QED
        BY <1>7, <1>8
    <3>2. W[i] = [out |-> LastFirst(pages, i), cur |-> (i - page) * q]
      BY <3>1
    <3> HIDE DEF W, Z
    <3> QED
      BY <1>8, <3>2
  <2>4. out \o SlotsOf(i, ps, Fp - 1) = LastFirst(pages, i)
    <3>1. CASE i = pages
      BY <1>7, <3>1, LastFirstBegins
    <3>2. CASE i # pages
      <4>1. pages \in Int /\ i \in Int /\ pages < i
        <5> HIDE DEF pages, pagee
        <5> QED
          BY <1>7, <1>8, <3>2
      <4>2. LastFirst(pages, i - 1) \o SlotsOf(i, 0, Fp - 1) = LastFirst(pages, i)
        <5> HIDE DEF pages
        <5> QED
          BY <4>1, LastFirstGrows
      <4> QED
        BY <3>2, <4>2
    <3> QED
      BY <3>1, <3>2
  <2>5. W[i - 1].out = out /\ W[i - 1].cur = Z(i)
    <3> HIDE DEF W, out, Z
    <3> QED
      BY <2>1
  <2>6. ReadPlain(W[i - 1], i, m0, me)
        = [out |-> out \o SlotsOf(i, ps, Fp - 1), cur |-> Z(i) + Fp]
    <3> HIDE DEF W, Z, out, ps, pages, pagee
    <3> QED
      BY <2>2, <2>5 DEF ReadPlain
  <2> HIDE DEF W, Z, out, ps
  <2> QED
    BY <2>3, <2>4, <2>6
<1>10. W = E(W)
  <2>1. \A i \in pages - 1 .. pagee :
          W[i] = IF i < pages THEN [out |-> <<>>, cur |-> (m0 \div Fp) * Fp]
                 ELSE ReadPlain(W[i - 1], i, m0, me)
    <3> SUFFICES ASSUME NEW i \in pages - 1 .. pagee
                 PROVE  W[i] = IF i < pages
                               THEN [out |-> <<>>, cur |-> (m0 \div Fp) * Fp]
                               ELSE ReadPlain(W[i - 1], i, m0, me)
      OBVIOUS
    <3>1. CASE i < pages
      BY <3>1
    <3>2. CASE ~ (i < pages)
      <4>1. i \in pages .. pagee
        <5> HIDE DEF pages, pagee
        <5> QED
          BY <1>7, <3>2
      <4>2. W[i] = ReadPlain(W[i - 1], i, m0, me)
        BY <1>9, <4>1
      <4> HIDE DEF W
      <4> QED
        BY <3>2, <4>2
    <3> QED
      BY <3>1, <3>2
  <2>2. W = [i \in pages - 1 .. pagee |-> W[i]]
    OBVIOUS
  <2> HIDE DEF W, pages, pagee
  <2> QED
    BY <2>1, <2>2
<1>11. R = E(R)
  <2> HIDE DEF E, W
  <2>1. \E f : f = E(f)
    BY <1>10
  <2> QED
    BY <1>70, <2>1
<1>12. R[pagee] = W[pagee]
  <2>1. \A i \in pages - 1 .. pagee :
          R[i] = IF i < pages THEN [out |-> <<>>, cur |-> (m0 \div Fp) * Fp]
                 ELSE ReadPlain(R[i - 1], i, m0, me)
    <3> HIDE DEF pages, pagee
    <3> QED
      BY <1>11
  <2>2. \A i \in pages - 1 .. pagee :
          W[i] = IF i < pages THEN [out |-> <<>>, cur |-> (m0 \div Fp) * Fp]
                 ELSE ReadPlain(W[i - 1], i, m0, me)
    <3> HIDE DEF W, pages, pagee
    <3> QED
      BY <1>10
  <2> HIDE DEF W, E, pages, pagee
  <2>3. R[pages - 1] = W[pages - 1]
    BY <1>7, <2>1, <2>2
  <2>4. ASSUME NEW i \in (pages - 1) + 1 .. pagee, R[i - 1] = W[i - 1]
        PROVE  R[i] = W[i]
    <3>1. i \in pages - 1 .. pagee /\ ~ (i < pages)
      BY <1>7
    <3> QED
      BY <2>1, <2>2, <2>4, <3>1
  <2>5. pages - 1 \in Int /\ pages - 1 <= pagee
    BY <1>7
  <2>6. \A f, g :
          /\ pages - 1 <= pagee
          /\ f[pages - 1] = g[pages - 1]
          /\ \A i \in (pages - 1) + 1 .. pagee : f[i - 1] = g[i - 1] => f[i] = g[i]
          => f[pagee] = g[pagee]
    <3> HIDE DEF R, pages, pagee
    <3>1. pages - 1 \in Int /\ pagee \in Int
      BY <1>7, <2>5, Zenon
    <3> QED
      BY <3>1, SameRounds, Zenon
  <2>7. \A i \in (pages - 1) + 1 .. pagee : R[i - 1] = W[i - 1] => R[i] = W[i]
    BY <2>4, Zenon
  <2>8. pages - 1 <= pagee
    BY <2>5, Zenon
  <2> HIDE DEF R
  <2> QED
    BY <2>3, <2>6, <2>7, <2>8, Zenon
<1>13. W[pagee].out[1] = PointAt(page + (m0 + 1) \div Fp, Fp - 1)
  <2>1. pagee \in pages - 1 .. pagee /\ ~ (pagee < pages)
    <3> HIDE DEF pages, pagee
    <3> QED
      BY <1>7
  <2>2. W[pagee] = [out |-> LastFirst(pages, pagee), cur |-> (pagee - page) * q]
    BY <2>1
  <2>3. W[pagee].out = LastFirst(pages, pagee)
    <3> HIDE DEF W, pages, pagee
    <3> QED
      BY <2>2
  <2>4. 1 \in 1 .. 1 + (pagee - pages) * Fp
    <3>1. PICK k \in Nat : k = pagee - pages
      <4> HIDE DEF pages, pagee
      <4> QED
        BY <1>7
    <3>2. k * Fp \in Nat
      BY <1>1
    <3> QED
      BY <3>1, <3>2
  <2>5. LastFirst(pages, pagee)[1] = PointAt(pages, Fp - 1)
    <3> HIDE DEF pages, pagee
    <3> QED
      BY <2>4 DEF LastFirst
  <2> HIDE DEF W
  <2> QED
    BY <2>3, <2>5
<1> QED
  BY <1>2, <1>5, <1>12, <1>13

(* The pages of a trajectory of n points. *)
Pages(n) == IF bSubTraj THEN Ceil(n - 1, Fp - 1) ELSE Ceil(n, Fp)

(* A page begins with a point of its own but, with subtrajectories, for    *)
(* its last.                                                               *)
LEMMA StrideTyped ==
  ASSUME bSubTraj \in BOOLEAN
  PROVE  /\ Stride \in Nat \ {0} /\ Fp \in Nat /\ Fp >= 2
         /\ bSubTraj => Stride = Fp - 1
         /\ ~bSubTraj => Stride = Fp
BY FpAssumption DEF Stride

(* The page looked on holds the point, and is one of the trajectory's. *)
LEMMA PageLookedOn ==
  ASSUME bSubTraj \in BOOLEAN, NEW n \in Nat, NEW me \in Nat, NEW j \in Nat,
         me < n, 0 < me, j <= me
  PROVE  /\ PageOf(j, me) \in Nat
         /\ PageOf(j, me) * Stride <= j
         /\ j < PageOf(j, me) * Stride + Fp
         /\ PageOf(j, me) * Stride + Fp < n + Stride
<1> DEFINE c == PageOf(j, me)
<1>1. /\ Stride \in Nat \ {0} /\ Fp \in Nat
      /\ bSubTraj => Stride = Fp - 1
      /\ ~bSubTraj => Stride = Fp
  BY StrideTyped
<1>2. CASE bSubTraj /\ j = me
  <2>1. c = Ceil(me, Stride) - 1
    BY <1>1, <1>2 DEF PageOf
  <2>2. me \in Nat \ {0}
    OBVIOUS
  <2>3. c \in Nat /\ c * Stride < me /\ me <= c * Stride + Stride
    BY <1>1, <2>1, <2>2, CeilIs
  <2>4. c * Stride \in Int
    BY <1>1, <2>3
  <2> HIDE DEF c
  <2> QED
    BY <1>1, <1>2, <2>3, <2>4 DEF c
<1>3. CASE ~ (bSubTraj /\ j = me)
  <2>1. c = j \div Stride
    BY <1>3 DEF PageOf
  <2>2. c \in Nat /\ c * Stride <= j /\ j < c * Stride + Stride
    BY <1>1, <2>1, Quotient
  <2>3. c * Stride \in Int
    BY <1>1, <2>2
  <2> HIDE DEF c
  <2> QED
    BY <1>1, <1>3, <2>2, <2>3 DEF c
<1> QED
  BY <1>2, <1>3

(* The pages of a trajectory hold its points and none of them is left      *)
(* without.                                                                *)
LEMMA PagesReach ==
  ASSUME bSubTraj \in BOOLEAN, NEW n \in Nat, n >= 2
  PROVE  /\ Pages(n) \in Nat \ {0}
         /\ (Pages(n) - 1) * Stride + Fp < n + Stride
         /\ n <= (Pages(n) - 1) * Stride + Fp
<1>1. /\ Stride \in Nat \ {0} /\ Fp \in Nat
      /\ bSubTraj => Stride = Fp - 1
      /\ ~bSubTraj => Stride = Fp
  BY StrideTyped
<1> DEFINE k == Pages(n)
<1>2. CASE bSubTraj
  <2>1. k = Ceil(n - 1, Stride) /\ n - 1 \in Nat \ {0}
    BY <1>1, <1>2 DEF Pages
  <2>2. k - 1 \in Nat /\ (k - 1) * Stride < n - 1 /\ n - 1 <= (k - 1) * Stride + Stride
    BY <1>1, <2>1, CeilIs
  <2>3. (k - 1) * Stride \in Int /\ k \in Int
    <3>1. k \in Int
      BY <1>1, <2>1 DEF Ceil
    <3> QED
      BY <1>1, <2>2, <3>1
  <2> HIDE DEF k
  <2> QED
    BY <1>1, <1>2, <2>2, <2>3 DEF k
<1>3. CASE ~bSubTraj
  <2>1. k = Ceil(n, Stride) /\ n \in Nat \ {0}
    BY <1>1, <1>3 DEF Pages
  <2>2. k - 1 \in Nat /\ (k - 1) * Stride < n /\ n <= (k - 1) * Stride + Stride
    BY <1>1, <2>1, CeilIs
  <2>3. (k - 1) * Stride \in Int /\ k \in Int
    <3>1. k \in Int
      BY <1>1, <2>1 DEF Ceil
    <3> QED
      BY <1>1, <2>2, <3>1
  <2> HIDE DEF k
  <2> QED
    BY <1>1, <1>3, <2>2, <2>3 DEF k
<1> QED
  BY <1>2, <1>3

(* No page is looked on beyond the one that holds the end. *)
LEMMA LookedOnBefore ==
  ASSUME bSubTraj \in BOOLEAN, NEW n \in Nat, NEW me \in Nat, NEW j \in Nat,
         me < n, 0 < me, j <= me, NEW k \in Int, n <= k * Stride + Fp
  PROVE  PageOf(j, me) <= k
<1>1. Stride \in Nat \ {0} /\ Fp \in Nat
  BY StrideTyped
<1>2. PageOf(j, me) \in Nat /\ PageOf(j, me) * Stride + Fp < n + Stride
  BY PageLookedOn
<1> DEFINE c == PageOf(j, me)
<1> HIDE DEF c
<1>3. c \in Nat /\ c * Stride \in Int /\ k * Stride \in Int /\ c * Stride + Fp < n + Stride
  BY <1>1, <1>2 DEF c
<1>4. c * Stride < k * Stride + Stride
  BY <1>1, <1>3
<1>5. c <= k
  BY <1>1, <1>3, <1>4, Between
<1> QED
  BY <1>5 DEF c

(* The intervals that are not misread. *)
Sound(n) == {se \in Intervals(n) : ~Misread(se[1])}

(* Whatever the pages hold, loadTraj returns the points of these from      *)
(* where they are looked for.                                              *)
LEMMA IntervalRead ==
  ASSUME bSubTraj \in BOOLEAN
  PROVE  \A r : r.page \in Nat /\ r.n \in Nat =>
           \A se \in Sound(r.n) :
             /\ LoadTraj(r, se[1], se[2]) = Span(r.page, se[1], se[2], se[2])
             /\ se[1] \in Nat /\ se[2] \in Nat /\ se[1] < se[2] /\ se[2] < r.n
<1> SUFFICES ASSUME NEW r, r.page \in Nat, r.n \in Nat, NEW se \in Sound(r.n)
             PROVE  /\ LoadTraj(r, se[1], se[2]) = Span(r.page, se[1], se[2], se[2])
                    /\ se[1] \in Nat /\ se[2] \in Nat /\ se[1] < se[2] /\ se[2] < r.n
  OBVIOUS
<1>1. /\ se[1] \in Nat /\ se[2] \in Nat /\ se[1] < se[2] /\ se[2] <= r.n - 1
      /\ bSubTraj \/ (se[1] + 1) % Fp # 0
  BY DEF Sound, Intervals, Misread
<1>2. Smaller(r.n - 1, se[1]) = se[1] /\ Smaller(r.n - 1, se[2]) = se[2]
  BY <1>1 DEF Smaller
<1>3. LoadTraj(r, se[1], se[2])
      = IF bSubTraj THEN LoadSubTraj(r.page, se[1], se[2]) ELSE LoadPlain(r.page, se[1], se[2])
  BY <1>2 DEF LoadTraj
<1>4. CASE bSubTraj
  BY <1>1, <1>3, <1>4, SubReads
<1>5. CASE ~bSubTraj
  BY <1>1, <1>3, <1>5, PlainReads
<1> QED
  BY <1>1, <1>4, <1>5

(* So a trajectory that is laid out reads back. *)
LEMMA LaidOutReads ==
  ASSUME bSubTraj \in BOOLEAN
  PROVE  \A r, x : \A end \in Int :
           LaidOut(x, end) /\ end <= MaxPage /\ x.n \in Nat /\ r.page = x.page /\ r.n = x.n =>
             \A se \in Sound(x.n) : LoadTraj(r, se[1], se[2]) = Slice(x.t, se[1], se[2])
<1> SUFFICES ASSUME NEW r, NEW x, NEW end \in Int, LaidOut(x, end), end <= MaxPage, x.n \in Nat, r.page = x.page, r.n = x.n,
                    NEW se \in Sound(x.n)
             PROVE  LoadTraj(r, se[1], se[2]) = Slice(x.t, se[1], se[2])
  OBVIOUS
<1> DEFINE s == se[1]
           e == se[2]
<1>1. x.page \in Page /\ x.page \in Nat
  BY BoundsAssumption DEF LaidOut, Page
<1>2. LoadTraj(r, s, e) = Span(x.page, s, e, e) /\ s \in Nat /\ e \in Nat /\ s < e /\ e < x.n
  BY <1>1, IntervalRead
<1>3. PICK last \in x.page .. end - 1 :
        /\ x.n <= (last - x.page) * Stride + Fp
        /\ \A p \in x.page .. last :
             dat[p] = PointsPage(x.t, (p - x.page) * Stride,
                                 Smaller(Fp, x.n - (p - x.page) * Stride))
  BY DEF LaidOut
<1>4. ASSUME NEW j \in Nat, j <= e
      PROVE  ReadPoint(x.page, j, e) = [t |-> x.t, i |-> j]
  <2> DEFINE c == PageOf(j, e)
             p == x.page + c
             slot == j - c * Stride
  <2>1. Stride \in Nat \ {0} /\ Fp \in Nat /\ last \in Int /\ last - x.page \in Nat
    BY <1>1, StrideTyped
  <2>2. c \in Nat /\ c * Stride <= j /\ j < c * Stride + Fp /\ c <= last - x.page
    <3>1. PICK n \in Nat, k \in Int : n = x.n /\ k = last - x.page /\ n <= k * Stride + Fp
      BY <1>3, <2>1
    <3>2. e \in Nat /\ 0 < e /\ e < n
      BY <1>2, <3>1
    <3> HIDE DEF e
    <3>3. c \in Nat /\ c * Stride <= j /\ j < c * Stride + Fp
      BY <1>4, <3>1, <3>2, PageLookedOn
    <3>4. c <= k
      BY <1>4, <3>1, <3>2, LookedOnBefore
    <3> QED
      BY <3>1, <3>3, <3>4
  <2> HIDE DEF c
  <2>3. c * Stride \in Int
    BY <2>1, <2>2
  <2>4. p \in x.page .. last /\ p \in Page /\ p - x.page = c
    BY <1>1, <2>1, <2>2, BoundsAssumption DEF Page
  <2>5. dat[p] = PointsPage(x.t, c * Stride, Smaller(Fp, x.n - c * Stride))
    BY <1>3, <2>4
  <2>6. dat[p].kind = "points" /\ dat[p].t = x.t /\ dat[p].first = c * Stride
        /\ dat[p].len = Smaller(Fp, x.n - c * Stride)
    BY <2>5 DEF PointsPage
  <2>7. slot < Smaller(Fp, x.n - c * Stride) /\ c * Stride + slot = j
    <3> HIDE DEF e
    <3> QED
      BY <1>2, <1>4, <2>1, <2>2, <2>3 DEF Smaller
  <2>8. PointAt(p, slot) = [t |-> x.t, i |-> j]
    <3> HIDE DEF p, slot
    <3> QED
      BY <2>4, <2>6, <2>7 DEF PointAt
  <2> QED
    BY <2>8 DEF ReadPoint, c
<1>5. ASSUME NEW k \in 1 .. e - s + 1
      PROVE  ReadPoint(x.page, s + k - 1, e) = [t |-> x.t, i |-> s + k - 1]
  <2> HIDE DEF s, e
  <2>1. s + k - 1 \in Nat /\ s + k - 1 <= e
    BY <1>2
  <2> QED
    BY <1>4, <2>1
<1>6. Span(x.page, s, e, e) = Slice(x.t, s, e)
  <2> HIDE DEF s, e
  <2> QED
    BY <1>5 DEF Span, Slice
<1> QED
  BY <1>2, <1>6

-----------------------------------------------------------------------------
(* What holds in every state. *)

(* Lines of the constructor's file, the pages they need and the page each  *)
(* begins at in a store created where there was none.                      *)
Lines == 1 .. Len(File.lines)

Needed(k) == IF File.lines[k].n >= 2 THEN Pages(File.lines[k].n) ELSE 0

Starts(f) ==
  /\ f \in [1 .. Len(File.lines) + 1 -> Nat]
  /\ f[1] = 0
  /\ \A k \in Lines : f[k + 1] = f[k] + Needed(k)

Start == CHOOSE f : Starts(f)

(* The lines that have been read. *)
Done == Len(File.lines) - Len(todo)

(* The pages that rem points are still to be cut into. *)
Left(rem) == IF rem > 0 THEN Pages(rem) ELSE 0

RestOfFile ==
  /\ pc = "load" =>
       /\ Done \in Nat
       /\ \A k \in 1 .. Len(todo) : todo[k] = Trajectories(File)[Done + k]
       /\ traj # NoTraj =>
            /\ Done # 0
            /\ traj.id = File.lines[Done].id
            /\ traj.n = File.lines[Done].n
  /\ pc = "append" => \A k \in 1 .. Len(todo) : todo[k].id > KeptIds
  /\ traj # NoTraj /\ bSubTraj /\ traj.rem > 0 => traj.rem >= 2

(* A store created where there was none gives every line the same page, so *)
(* the rows that creations which died have left are those of the next one. *)
FirstLife ==
  property.is = "absent" =>
    /\ ~failedBuild
    /\ open => pc \in {"load", "flush", "truncate"}
    /\ \A id \in DOMAIN rows : \E k \in Lines :
         /\ File.lines[k].id = id
         /\ File.lines[k].n >= 2
         /\ rows[id] = [page |-> Start[k], n |-> File.lines[k].n]
    /\ pc = "load" =>
         /\ traj = NoTraj /\ todo # <<>> => nextPage = Start[Done + 1]
         /\ traj # NoTraj /\ traj.first = -1 => nextPage = Start[Done]
         /\ traj # NoTraj /\ traj.first # -1 =>
              /\ traj.first = Start[Done]
              /\ nextPage + Left(traj.rem) = Start[Done + 1]

(* The id a trajectory gets is beyond all that this process has given, and *)
(* beyond those in the catalog but for rows that earlier lives have left.  *)
Ahead(i) ==
  /\ pc = "load"
  /\ \/ traj # NoTraj /\ traj.id = i
     \/ \E k \in Lines : k > Done /\ File.lines[k].n >= 2 /\ File.lines[k].id = i

NewIds ==
  /\ ~open => nextTraj = -1
  /\ \A i \in DOMAIN mine : i \in Nat /\ i <= nextTraj
  /\ open /\ (nextTraj >= 0 \/ pc = "load") =>
       \A i \in DOMAIN rows \ earlier.ids : i <= nextTraj \/ Ahead(i)
  /\ pc = "load" =>
       /\ traj # NoTraj => nextTraj < traj.id
       /\ \A k \in Lines : k > Done => nextTraj < File.lines[k].id
       /\ property.is # "absent" => DOMAIN rows \ earlier.ids \subseteq DOMAIN mine
  /\ pc = "append" /\ traj # NoTraj => nextTraj >= 0 /\ traj.id = nextTraj + 1

RowsMatch ==
  \A id \in DOMAIN mine \ earlier.ids :
    id \in DOMAIN rows /\ rows[id].page = mine[id].page /\ rows[id].n = mine[id].n

(* The page that a trajectory goes on with is not before the one that      *)
(* loadTraj takes for it.                                                  *)
Reached ==
  traj # NoTraj /\ traj.first # -1 =>
    LET reach == traj.first + Pages(traj.n) - Left(traj.rem)
    IN reach <= nextPage /\ \A p \in emptyPages : reach <= p

(* No page beyond those in use holds points, nor does an empty one: so it  *)
(* is in the process that has created the store.                           *)
Clean ==
  /\ \A p \in emptyPages : dat[p].kind = "node"
  /\ \A p \in Page : p >= nextPage => dat[p].kind # "points"

(* Every trajectory of this process has a row of its own, and its pages,   *)
(* or what loadTraj takes for them, are in use or hold nodes: so it is in  *)
(* a process that has opened the store.                                    *)
OwnRow(id) ==
  /\ id \in DOMAIN rows
  /\ rows[id].page = mine[id].page /\ rows[id].n = mine[id].n

InUse(r) ==
  /\ r.page + Pages(r.n) <= nextPage
  /\ \A p \in r.page .. r.page + Pages(r.n) - 1 :
       p \in emptyPages => dat[p].kind = "node"

Own ==
  /\ pc # "load"
  /\ nextTraj >= 0 => \A i \in DOMAIN rows : i <= nextTraj
  /\ \A id \in DOMAIN mine : OwnRow(id) /\ InUse(rows[id])

(* A trajectory reads back over every interval that is not misread. *)
ReadsSound(id, x) ==
  /\ id \in DOMAIN rows
  /\ rows[id].n = x.n
  /\ \A se \in Sound(x.n) : LoadTraj(rows[id], se[1], se[2]) = Slice(x.t, se[1], se[2])

LEMMA ReadsSoundly ==
  \A id, x : ReadsBack(id, x) => ReadsSound(id, x)
BY DEF ReadsBack, ReadsSound, Sound

(* What a page of points has for its first is a point. *)
TypedPoints == \A p \in Page : dat[p].kind = "points" => dat[p].first \in Nat

(* What has been read back at a flush lies on pages the flush has saved. *)
SavedRead(id, x) ==
  /\ ReadsSound(id, x)
  /\ \A p \in rows[id].page .. rows[id].page + Pages(rows[id].n) - 1 :
       p \in SavedPage /\ dat[p].kind = "points"

Saved == \A id \in DOMAIN committed : SavedRead(id, committed[id])

ReadInv ==
  /\ KeptInv
  /\ pc \in {"truncate", "write"} => idx.empty = emptyPages
  /\ earlier = [ids |-> earlier.ids, names |-> earlier.names]
  /\ RestOfFile /\ FirstLife /\ NewIds /\ RowsMatch /\ Reached
  /\ open => Clean \/ Own
  /\ Saved
  /\ TypedPoints

(* The lines of a file and the trajectories loaded from them. *)
LEMMA LineFacts ==
  ASSUME NEW file \in Appended \cup {File}
  PROVE  /\ Len(file.lines) \in Nat
         /\ Len(Trajectories(file)) = Len(file.lines)
         /\ Trajectories(file) \in Seq(Line)
         /\ \A k \in 1 .. Len(file.lines) :
              /\ file.lines[k].id \in Nat /\ file.lines[k].n \in Nat
              /\ Trajectories(file)[k].id = file.lines[k].id
              /\ Trajectories(file)[k].n = file.lines[k].n
<1>1. file.lines \in Seq([id : Nat, n : Nat]) /\ Trajectories(file) \in Seq(Line)
  BY FileAssumption, TrajectoriesTyped
<1>2. Len(file.lines) \in Nat /\ \A k \in 1 .. Len(file.lines) : file.lines[k] \in [id : Nat, n : Nat]
  BY <1>1, LenProperties, ElementOfSeq
<1>3. Len(Trajectories(file)) = Len(file.lines)
  <2>1. DOMAIN Trajectories(file) = 1 .. Len(file.lines)
    BY DEF Trajectories
  <2>2. DOMAIN Trajectories(file) = 1 .. Len(Trajectories(file)) /\ Len(Trajectories(file)) \in Nat
    BY <1>1, LenProperties
  <2> QED
    BY <1>2, <2>1, <2>2
<1> QED
  BY <1>1, <1>2, <1>3 DEF Trajectories

(* Reading a line. *)
LEMMA NextLineFacts ==
  ASSUME Inv, NextLine
  PROVE  /\ traj = NoTraj /\ pc' = pc /\ open /\ open' /\ pc \in {"load", "append"}
         /\ todo \in Seq(Line) /\ Len(todo) \in Nat /\ Len(todo) >= 1
         /\ Head(todo) = todo[1] /\ Head(todo) \in Line
         /\ Len(todo') = Len(todo) - 1
         /\ \A k \in 1 .. Len(todo) - 1 : todo'[k] = todo[k + 1]
<1>1. todo \in Seq(Line) /\ todo # <<>> /\ todo' = Tail(todo)
  BY DEF NextLine, Inv, Types
<1>2. /\ Len(todo) \in Nat /\ Len(todo) >= 1
      /\ Head(todo) = todo[1] /\ Head(todo) \in Line
      /\ Len(todo') = Len(todo) - 1
      /\ \A k \in 1 .. Len(todo) - 1 : todo'[k] = todo[k + 1]
  BY <1>1, HeadTailProperties, LenProperties, EmptySeq
<1> QED
  BY <1>1, <1>2 DEF NextLine, Loading

(* The steps, by what they do to a load. *)
Building ==
  \/ \E name \in Names : NewTree(name)
  \/ NewHeader
  \/ BeginBulk
  \/ BulkNode
  \/ EndBulk
  \/ BulkThrows

Flushing == FlushDisk \/ TruncateProperty \/ WriteProperty

Ending == Close \/ Crash

(* The steps of the store. *)
LEMMA Steps ==
  Next => \/ Create \/ Open \/ \E file \in Appended : LoadFile(file)
          \/ BeginTraj \/ DropTraj \/ CutPage \/ InsertRow \/ Failing \/ EndLoad
          \/ Flushing \/ Building \/ Ending
BY DEF Next, Failing, Flushing, Building, Ending

(* A build changes no row and nothing that is loaded. *)
LEMMA BuildingFacts ==
  ASSUME Building
  PROVE  /\ open /\ open' /\ pc \in {"idle", "header", "bulk", "nodes"}
         /\ pc' \in {"idle", "header", "bulk", "nodes", "flush"}
         /\ UNCHANGED <<bSubTraj, rows, property, todo, traj, mine, committed, earlier, idx>>
         /\ nextTraj' = nextTraj \/ nextTraj' = LastTrajId
BY DEF Building, NewTree, NewHeader, BeginBulk, BulkNode, EndBulk, BulkThrows, StoreNew,
       diskVars, ghostVars

(* Nor does a flush. *)
LEMMA FlushingFacts ==
  ASSUME Flushing, earlier = [ids |-> earlier.ids, names |-> earlier.names]
  PROVE  /\ open /\ open' /\ pc \in {"flush", "truncate", "write"}
         /\ pc' \in {"truncate", "write", "idle"}
         /\ UNCHANGED <<bSubTraj, rows, nextTraj, todo, traj, mine, failedBuild, dat, nextPage, emptyPages>>
         /\ earlier'.ids = earlier.ids
         /\ earlier' = [ids |-> earlier'.ids, names |-> earlier'.names]
<1>1. /\ open /\ open' /\ pc \in {"flush", "truncate", "write"}
      /\ pc' \in {"truncate", "write", "idle"}
      /\ UNCHANGED <<bSubTraj, rows, nextTraj, todo, traj, mine, failedBuild, dat, nextPage, emptyPages>>
  BY DEF Flushing, FlushDisk, TruncateProperty, WriteProperty, diskVars, ghostVars
<1>2. earlier' = earlier \/ earlier' = [earlier EXCEPT !.names = {}]
  BY DEF Flushing, FlushDisk, TruncateProperty, WriteProperty, ghostVars
<1>3. [earlier EXCEPT !.names = {}] = [ids |-> earlier.ids, names |-> {}]
  OBVIOUS
<1> QED
  BY <1>1, <1>2, <1>3

(* What the end of a process leaves. *)
LEMMA EndingFacts ==
  ASSUME Ending
  PROVE  /\ open /\ ~open' /\ pc' = "idle" /\ nextTraj' = -1 /\ mine' = Empty
         /\ emptyPages' = {} /\ todo' = <<>> /\ traj' = NoTraj
         /\ UNCHANGED <<bSubTraj, rows, property, dat, committed, failedBuild, earlier>>
BY DEF Ending, Close, Crash, Forget

(* The file is loaded line by line. *)
LEMMA RestOfFileStep ==
  ASSUME ReadInv, Inv', Next
  PROVE  RestOfFile'
<1> DEFINE L == Len(File.lines)
<1>0. /\ Inv /\ RestOfFile /\ L \in Nat
      /\ \A k \in 1 .. L : Trajectories(File)[k].id = File.lines[k].id
                          /\ Trajectories(File)[k].n = File.lines[k].n
      /\ Len(Trajectories(File)) = L
  BY LineFacts DEF ReadInv, KeptInv, PageInv
<1> HIDE DEF L
<1>1. CASE Create
  <2>1. pc' = "load" /\ todo' = Trajectories(File) /\ traj' = traj /\ traj = NoTraj
    BY <1>0, <1>1 DEF Create, Inv, Types, TrajTyped
  <2>2. Len(todo') = L
    BY <1>0, <2>1
  <2>3. Done' = 0
    BY <1>0, <2>2 DEF Done, L
  <2> QED
    BY <1>0, <2>1, <2>2, <2>3 DEF RestOfFile
<1>2. CASE Open
  BY <1>0, <1>2 DEF Open, RestOfFile, Done, Inv
<1>3. ASSUME NEW file \in Appended, LoadFile(file)
      PROVE  RestOfFile'
  <2>1. pc' = "append" /\ todo' = Trajectories(file) /\ traj' = traj /\ traj = NoTraj
    BY <1>0, <1>3 DEF LoadFile, Inv, Types, TrajTyped
  <2>2. /\ Len(todo') = Len(file.lines)
        /\ \A k \in 1 .. Len(file.lines) : todo'[k].id = file.lines[k].id
    BY <2>1, LineFacts
  <2>3. \A k \in 1 .. Len(todo') : todo'[k].id > KeptIds
    BY <2>2, NumbersAssumption
  <2> QED
    BY <2>1, <2>3 DEF RestOfFile
<1>4. CASE BeginTraj \/ DropTraj
  <2>1. NextLine
    BY <1>4, Zenon DEF BeginTraj, DropTraj
  <2>2. /\ traj = NoTraj /\ pc' = pc /\ pc \in {"load", "append"}
        /\ Len(todo) \in Nat /\ Len(todo) >= 1 /\ Head(todo) = todo[1] /\ Head(todo) \in Line
        /\ Len(todo') = Len(todo) - 1
        /\ \A k \in 1 .. Len(todo) - 1 : todo'[k] = todo[k + 1]
    BY <1>0, <2>1, NextLineFacts
  <2>3. Done' = Done + 1
    BY <1>0, <2>2 DEF Done, L
  <2>4. CASE pc = "load"
    <3>1. Done \in Nat /\ \A k \in 1 .. Len(todo) : todo[k] = Trajectories(File)[Done + k]
      BY <1>0, <2>4 DEF RestOfFile
    <3>2. Done' \in Nat /\ Done' # 0 /\ Done' \in 1 .. L
      <4>1. Done = L - Len(todo)
        BY DEF Done, L
      <4>2. Done + 1 \in Nat /\ Done + 1 # 0 /\ Done + 1 \in 1 .. L
        BY <1>0, <2>2, <3>1, <4>1
      <4> QED
        BY <2>3, <4>2
    <3>3. ASSUME NEW k \in 1 .. Len(todo') PROVE todo'[k] = Trajectories(File)[Done' + k]
      <4>0. k \in 1 .. Len(todo) - 1
        BY <2>2, Zenon
      <4>1. k \in 1 .. Len(todo) - 1 /\ k + 1 \in 1 .. Len(todo) /\ Done + (k + 1) = (Done + 1) + k
        <5> DEFINE l == Len(todo)
                   d == Done
        <5>1. l \in Nat /\ d \in Nat /\ k \in 1 .. l - 1
          BY <2>2, <3>1, <4>0
        <5> HIDE DEF l, d
        <5>2. k + 1 \in 1 .. l /\ d + (k + 1) = (d + 1) + k
          BY <5>1
        <5> QED
          BY <4>0, <5>2 DEF l, d
      <4> QED
        BY <2>2, <2>3, <3>1, <4>1
    <3>4. Head(todo) = Trajectories(File)[Done']
      BY <2>2, <2>3, <3>1
    <3>5. traj' # NoTraj => traj'.id = File.lines[Done'].id /\ traj'.n = File.lines[Done'].n
      <4>1. CASE BeginTraj
        <5>1. traj' = Begun(Head(todo))
          BY <4>1 DEF BeginTraj
        <5>2. IdOf(Head(todo)) = Head(todo).id
          BY <2>4 DEF IdOf, NumbersAnew
        <5> QED
          BY <1>0, <3>2, <3>4, <5>1, <5>2 DEF Begun
      <4>2. CASE DropTraj
        BY <2>2, <4>2 DEF DropTraj
      <4> QED
        BY <1>4, <4>1, <4>2
    <3>6. traj' # NoTraj /\ traj'.rem > 0 => traj'.rem >= 2
      <4>1. CASE BeginTraj
        BY <4>1, <2>2 DEF BeginTraj, Begun
      <4>2. CASE DropTraj
        BY <2>2, <4>2 DEF DropTraj
      <4> QED
        BY <1>4, <4>1, <4>2
    <3> QED
      BY <2>2, <2>4, <3>2, <3>3, <3>5, <3>6 DEF RestOfFile
  <2>5. CASE pc = "append"
    <3>1. \A k \in 1 .. Len(todo') : todo'[k].id > KeptIds
      <4>1. \A k \in 1 .. Len(todo) : todo[k].id > KeptIds
        BY <1>0, <2>5 DEF RestOfFile
      <4> QED
        BY <2>2, <4>1
    <3>2. traj' # NoTraj /\ traj'.rem > 0 => traj'.rem >= 2
      <4>1. CASE BeginTraj
        BY <4>1, <2>2 DEF BeginTraj, Begun
      <4>2. CASE DropTraj
        BY <2>2, <4>2 DEF DropTraj
      <4> QED
        BY <1>4, <4>1, <4>2
    <3> QED
      BY <2>2, <2>5, <3>1, <3>2 DEF RestOfFile
  <2> QED
    BY <2>2, <2>4, <2>5
<1>5. CASE CutPage
  <2>1. todo' = todo /\ pc' = pc /\ traj # NoTraj /\ bSubTraj' = bSubTraj /\ Done' = Done
    BY <1>5 DEF CutPage, Done
  <2>2. /\ traj \in TrajBegun /\ traj.n >= 2 /\ PageTaken \in Page /\ traj.rem > 0
    BY <1>0, <1>5, StoreNewTyped DEF CutPage, Inv, Types, TrajTyped
  <2>3. traj' = Cut(PageTaken)
    BY <1>5, <2>2, CutPageTraj
  <2>4. traj'.id = traj.id /\ traj'.n = traj.n
    BY <2>3 DEF Cut
  <2>5. bSubTraj /\ traj'.rem > 0 => traj'.rem >= 2
    <3>1. traj.rem \in Int /\ Fp \in Nat
      BY <2>2, FpAssumption DEF TrajBegun
    <3>2. bSubTraj => traj'.rem = IF traj.rem # Fp THEN traj.rem - Fp + 1 ELSE traj.rem - Fp
      BY <2>3 DEF Cut
    <3> QED
      BY <3>1, <3>2
  <2> QED
    BY <1>0, <2>1, <2>4, <2>5 DEF RestOfFile
<1>6. CASE InsertRow
  BY <1>0, <1>6 DEF InsertRow, RestOfFile, Done
<1>7. CASE EndLoad
  BY <1>0, <1>7 DEF EndLoad, RestOfFile
<1>8. CASE Flushing
  BY <1>0, <1>8, FlushingFacts DEF ReadInv, RestOfFile
<1>9. CASE Building
  BY <1>0, <1>9, BuildingFacts DEF RestOfFile
<1>10. CASE Ending
  BY <1>10, EndingFacts DEF RestOfFile
<1>11. CASE Failing
  <2>1. pc' = pc /\ traj' = NoTraj /\ (todo' = <<>> \/ todo' = todo)
    BY <1>11, FailingFacts
  <2>2. CASE todo' = todo
    BY <1>0, <2>1, <2>2 DEF RestOfFile, Done
  <2>3. CASE todo' = <<>>
    <3>1. Done' = L /\ Len(todo') = 0
      BY <1>0, <2>3 DEF Done, L
    <3> QED
      BY <1>0, <2>1, <3>1 DEF RestOfFile
  <2> QED
    BY <2>1, <2>2, <2>3
<1> QED
  BY <1>1, <1>2, <1>3, <1>4, <1>5, <1>6, <1>7, <1>8, <1>9, <1>10, <1>11, Steps

(* Every line needs a number of pages. *)
LEMMA NeededTyped ==
  ASSUME bSubTraj \in BOOLEAN
  PROVE  \A k \in Lines : Needed(k) \in Nat
<1> SUFFICES ASSUME NEW k \in Lines PROVE Needed(k) \in Nat
  OBVIOUS
<1>1. File.lines[k].n \in Nat
  BY LineFacts DEF Lines
<1>2. File.lines[k].n >= 2 => Pages(File.lines[k].n) \in Nat
  BY <1>1, PagesReach
<1> QED
  BY <1>1, <1>2 DEF Needed

(* The first pages of the first K lines, and of the one after them. *)
StartsUpTo(K, f) ==
  /\ f \in [1 .. K + 1 -> Nat]
  /\ f[1] = 0
  /\ \A k \in 1 .. K : f[k + 1] = f[k] + Needed(k)

(* There are such first pages. *)
LEMMA StartIs ==
  ASSUME bSubTraj \in BOOLEAN
  PROVE  Starts(Start)
<1> DEFINE L == Len(File.lines)
           D == {K \in 0 .. L : ~ \E f : StartsUpTo(K, f)}
<1>1. L \in Nat
  BY LineFacts
<1>2. SUFFICES \E f : Starts(f)
  BY <1>2 DEF Start
<1>3. SUFFICES ASSUME D # {} PROVE FALSE
  <2>1. L \in 0 .. L
    BY <1>1
  <2>2. PICK f : StartsUpTo(L, f)
    BY <1>3, <2>1
  <2> QED
    BY <2>2 DEF StartsUpTo, Starts, Lines
<1>4. D \in SUBSET Nat
  BY <1>1
<1>5. SmallestOf(D) \in D /\ \A y \in D : SmallestOf(D) <= y
  <2> HIDE DEF D
  <2> QED
    BY <1>3, <1>4, SmallestIsOf
<1>6. PICK K \in D : \A y \in D : K <= y
  BY <1>5
<1>7. K \in Nat /\ K <= L /\ ~ \E f : StartsUpTo(K, f)
  BY <1>1
<1>8. K # 0
  <2> DEFINE g == [k \in 1 .. 1 |-> 0]
  <2>1. 1 .. 0 + 1 = 1 .. 1 /\ 1 .. 0 = {}
    OBVIOUS
  <2>2. StartsUpTo(0, g)
    BY <2>1 DEF StartsUpTo
  <2> QED
    BY <1>7, <2>2
<1>9. K - 1 \in 0 .. L /\ K - 1 \notin D
  BY <1>1, <1>6, <1>7, <1>8
<1>10. PICK f : StartsUpTo(K - 1, f)
  BY <1>9
<1>11. /\ f \in [1 .. K -> Nat] /\ f[1] = 0
       /\ \A k \in 1 .. K - 1 : f[k + 1] = f[k] + Needed(k)
  <2>1. (K - 1) + 1 = K
    BY <1>7
  <2> QED
    BY <1>10, <2>1 DEF StartsUpTo
<1>12. f[K] \in Nat /\ Needed(K) \in Nat /\ 1 \in 1 .. K /\ K \in Lines
  <2>1. K \in Lines /\ K \in 1 .. K
    BY <1>1, <1>7, <1>8 DEF Lines
  <2> QED
    BY <1>7, <1>8, <1>11, <2>1, NeededTyped
<1> DEFINE g == [k \in 1 .. K + 1 |-> IF k = K + 1 THEN f[K] + Needed(K) ELSE f[k]]
<1>13. g \in [1 .. K + 1 -> Nat]
  <2>1. ASSUME NEW k \in 1 .. K + 1 PROVE g[k] \in Nat
    <3>1. CASE k = K + 1
      BY <1>12, <3>1
    <3>2. CASE k # K + 1
      <4>1. k \in 1 .. K
        BY <1>7, <3>2
      <4> QED
        BY <1>11, <3>2, <4>1
    <3> QED
      BY <3>1, <3>2
  <2> QED
    BY <2>1
<1>14. g[1] = 0
  <2>1. 1 \in 1 .. K + 1 /\ 1 # K + 1
    BY <1>7, <1>8
  <2> QED
    BY <1>11, <2>1
<1>15. ASSUME NEW k \in 1 .. K PROVE g[k + 1] = g[k] + Needed(k)
  <2>1. k \in Nat /\ k + 1 \in 1 .. K + 1 /\ k \in 1 .. K + 1 /\ k # K + 1
    BY <1>7
  <2>2. g[k] = f[k]
    BY <2>1
  <2>3. CASE k = K
    BY <2>1, <2>2, <2>3
  <2>4. CASE k # K
    <3>1. k \in 1 .. K - 1 /\ k + 1 # K + 1
      BY <1>7, <2>1, <2>4
    <3>2. g[k + 1] = f[k + 1]
      BY <2>1, <3>1
    <3> QED
      BY <1>11, <2>2, <3>1, <3>2
  <2> QED
    BY <2>3, <2>4
<1>16. StartsUpTo(K, g)
  <2> HIDE DEF g
  <2> QED
    BY <1>13, <1>14, <1>15 DEF StartsUpTo
<1> QED
  BY <1>7, <1>16

(* They stay. *)
LEMMA StartSame == bSubTraj' = bSubTraj => Start' = Start
BY DEF Start, Starts, Needed, Pages, Lines

(* How many pages are left after a cut. *)
LEMMA CeilUnique ==
  ASSUME NEW m \in Nat \ {0}, NEW b \in Nat \ {0}, NEW k \in Int,
         (k - 1) * b < m, m <= (k - 1) * b + b
  PROVE  Ceil(m, b) = k
<1>1. PICK c \in Int : c = Ceil(m, b) - 1
  BY CeilIs
<1>2. c * b < m /\ m <= c * b + b /\ c * b \in Int /\ (k - 1) * b \in Int /\ k - 1 \in Int
  BY <1>1, CeilIs
<1>3. c <= k - 1 /\ k - 1 <= c
  <2>1. c * b < (k - 1) * b + b /\ (k - 1) * b < c * b + b
    BY <1>2
  <2> QED
    BY <1>2, <2>1, Between
<1>4. Ceil(m, b) \in Int
  BY DEF Ceil
<1> QED
  BY <1>1, <1>3, <1>4

(* Each cut leaves one page less to cut. *)
LEMMA CutLeft ==
  ASSUME bSubTraj \in BOOLEAN, NEW rem \in Nat, rem > 0, bSubTraj => rem >= 2
  PROVE  /\ Left(rem) \in Nat \ {0}
         /\ Left(IF bSubTraj /\ rem # Fp THEN rem - Fp + 1 ELSE rem - Fp) = Left(rem) - 1
<1>1. /\ Stride \in Nat \ {0} /\ Fp \in Nat /\ Fp >= 2
      /\ bSubTraj => Stride = Fp - 1
      /\ ~bSubTraj => Stride = Fp
  BY StrideTyped
<1> DEFINE a == IF bSubTraj THEN rem - 1 ELSE rem
           c == Ceil(a, Stride)
           next == IF bSubTraj /\ rem # Fp THEN rem - Fp + 1 ELSE rem - Fp
<1>2. a \in Nat \ {0}
  OBVIOUS
<1>3. Left(rem) = c
  BY <1>1 DEF Left, Pages
<1>4. c - 1 \in Nat /\ (c - 1) * Stride < a /\ a <= (c - 1) * Stride + Stride /\ c \in Int
  <2>1. c \in Int
    BY <1>1, <1>2 DEF Ceil
  <2> HIDE DEF a
  <2> QED
    BY <1>1, <1>2, <2>1, CeilIs
<1>5. next \in Int /\ (next > 0 <=> a > Stride)
  BY <1>1
<1>6. next > 0 => (IF bSubTraj THEN next - 1 ELSE next) = a - Stride
  BY <1>1
<1>7. CASE a <= Stride
  <2>1. c = 1
    <3>1. (1 - 1) * Stride < a /\ a <= (1 - 1) * Stride + Stride
      BY <1>1, <1>2, <1>7
    <3> HIDE DEF a
    <3> QED
      BY <1>1, <1>2, <3>1, CeilUnique
  <2>2. Left(next) = 0
    <3> HIDE DEF next, a
    <3> QED
      BY <1>1, <1>2, <1>5, <1>7 DEF Left
  <2> QED
    BY <1>3, <2>1, <2>2
<1>8. CASE a > Stride
  <2>1. Left(next) = Ceil(a - Stride, Stride)
    <3>1. next > 0
      BY <1>5, <1>8
    <3>2. Left(next) = Pages(next)
      BY <3>1 DEF Left
    <3>3. Pages(next) = Ceil(IF bSubTraj THEN next - 1 ELSE next, Stride)
      <4> HIDE DEF next
      <4> QED
        BY <1>1 DEF Pages
    <3> QED
      BY <1>6, <3>1, <3>2, <3>3
  <2>2. a - Stride \in Nat \ {0} /\ ((c - 1) - 1) * Stride = (c - 1) * Stride - Stride
        /\ (c - 1) * Stride \in Int
    <3>1. a \in Int
      BY <1>2
    <3> HIDE DEF a, c
    <3> QED
      BY <1>1, <1>2, <1>4, <1>8
  <2>3. Ceil(a - Stride, Stride) = c - 1
    <3>1. c - 1 \in Int /\ ((c - 1) - 1) * Stride < a - Stride
          /\ a - Stride <= ((c - 1) - 1) * Stride + Stride
      <4> HIDE DEF a, c
      <4> QED
        BY <1>1, <1>2, <1>4, <2>2
    <3> HIDE DEF a, c
    <3> QED
      BY <1>1, <2>2, <3>1, CeilUnique
  <2> QED
    BY <1>3, <1>4, <2>1, <2>3
<1>9. Left(rem) \in Nat \ {0}
  <2> HIDE DEF c
  <2> QED
    BY <1>3, <1>4
<1>10. a <= Stride \/ a > Stride
  <2>1. a \in Int
    BY <1>2
  <2> HIDE DEF a
  <2> QED
    BY <1>1, <2>1
<1> QED
  BY <1>7, <1>8, <1>9, <1>10

(* Subtrajectory pages or not is settled once. *)
LEMMA NextKeeps == Next => bSubTraj' = bSubTraj
BY BuildingFacts, EndingFacts, FailingFacts, Steps
   DEF Create, Open, LoadFile, BeginTraj, DropTraj, NextLine, CutPage, InsertRow, EndLoad,
       Flushing, FlushDisk, TruncateProperty, WriteProperty

(* While a trajectory is loaded by a process that has thrown nothing there *)
(* is no empty page.                                                       *)
LEMMA NoneEmpty ==
  ASSUME Inv, ~failedBuild, pc # "nodes"
  PROVE  emptyPages = {}
BY DEF Inv, OnlyRootFreed

(* The line being loaded. *)
LEMMA LineRead ==
  ASSUME Inv, RestOfFile, pc = "load", traj # NoTraj
  PROVE  /\ Done \in Lines
         /\ traj.id = File.lines[Done].id
         /\ traj.n = File.lines[Done].n
         /\ traj.n \in Nat /\ traj.n >= 2 /\ traj \in TrajBegun
         /\ Needed(Done) = Pages(traj.n)
<1> DEFINE L == Len(File.lines)
<1>1. L \in Nat /\ Len(todo) \in Nat
  BY LineFacts, LenProperties DEF Inv, Types
<1>2. Done \in Nat /\ Done # 0 /\ Done = L - Len(todo)
  BY DEF RestOfFile, Done
<1>3. Done \in Lines
  <2>1. L - Len(todo) \in Nat /\ L - Len(todo) # 0
    BY <1>2
  <2>2. L - Len(todo) \in 1 .. L
    <3> HIDE DEF L
    <3> QED
      BY <1>1, <2>1
  <2> QED
    BY <1>2, <2>2 DEF Lines
<1>4. traj \in TrajBegun /\ traj.n >= 2
  BY DEF Inv, Types, TrajTyped
<1>5. traj.n \in Nat
  BY <1>4 DEF TrajBegun
<1>6. traj.id = File.lines[Done].id /\ traj.n = File.lines[Done].n
  BY DEF RestOfFile
<1> QED
  BY <1>3, <1>4, <1>5, <1>6 DEF Needed

(* A line that has been read was one of those to be read. *)
LEMMA LineTaken ==
  ASSUME Inv, RestOfFile, NextLine, pc = "load"
  PROVE  /\ Done \in Nat /\ Done' = Done + 1
         /\ Done' \in Lines
         /\ Head(todo).id = File.lines[Done'].id
         /\ Head(todo).n = File.lines[Done'].n
         /\ nextTraj' = nextTraj
         /\ IdOf(Head(todo)) = Head(todo).id
<1> DEFINE L == Len(File.lines)
<1>0. /\ L \in Nat
      /\ \A k \in 1 .. L : Trajectories(File)[k].id = File.lines[k].id
                          /\ Trajectories(File)[k].n = File.lines[k].n
  BY LineFacts
<1>1. /\ Len(todo) \in Nat /\ Len(todo) >= 1 /\ Head(todo) = todo[1]
      /\ Len(todo') = Len(todo) - 1
  BY NextLineFacts
<1>2. Done \in Nat /\ \A k \in 1 .. Len(todo) : todo[k] = Trajectories(File)[Done + k]
  BY DEF RestOfFile
<1>3. Done = L - Len(todo) /\ Done' = L - Len(todo')
  BY DEF Done
<1>4. Done' = Done + 1 /\ Done' \in 1 .. L
  <2> HIDE DEF L
  <2>1. L - Len(todo) \in Nat
    BY <1>2, <1>3
  <2>2. L - (Len(todo) - 1) = (L - Len(todo)) + 1 /\ L - (Len(todo) - 1) \in 1 .. L
    BY <1>0, <1>1, <2>1
  <2> QED
    BY <1>1, <1>3, <2>2
<1>5. Head(todo) = Trajectories(File)[Done']
  <2>1. 1 \in 1 .. Len(todo)
    BY <1>1
  <2> QED
    BY <1>1, <1>2, <1>4, <2>1
<1>6. ~NumbersAnew(Head(todo))
  BY DEF NumbersAnew
<1>7. nextTraj' = nextTraj /\ IdOf(Head(todo)) = Head(todo).id
  BY <1>6 DEF NextLine, IdOf
<1> QED
  BY <1>0, <1>2, <1>4, <1>5, <1>7 DEF Lines

(* The numbers of lines. *)
LEMMA DoneTyped ==
  ASSUME Inv
  PROVE  /\ Done \in Int /\ Len(File.lines) \in Nat
         /\ \A k \in Lines : k \in Int /\ File.lines[k].id \in Nat /\ File.lines[k].n \in Nat
<1>1. Len(todo) \in Nat /\ Len(File.lines) \in Nat
  BY LineFacts, LenProperties DEF Inv, Types
<1>2. Done \in Int
  BY <1>1 DEF Done
<1>3. \A k \in Lines : k \in Int /\ File.lines[k].id \in Nat /\ File.lines[k].n \in Nat
  BY <1>1, LineFacts DEF Lines
<1> QED
  BY <1>1, <1>2, <1>3

(* The first life goes on, or ends with a property file. *)
LEMMA FirstLifeStep ==
  ASSUME ReadInv, Inv', Next
  PROVE  FirstLife'
<1> SUFFICES ASSUME property'.is = "absent"
             PROVE  /\ ~failedBuild'
                    /\ open' => pc' \in {"load", "flush", "truncate"}
                    /\ \A id \in DOMAIN rows' : \E k \in Lines :
                         /\ File.lines[k].id = id
                         /\ File.lines[k].n >= 2
                         /\ rows'[id] = [page |-> Start'[k], n |-> File.lines[k].n]
                    /\ pc' = "load" =>
                         /\ traj' = NoTraj /\ todo' # <<>> => nextPage' = Start'[Done' + 1]
                         /\ traj' # NoTraj /\ traj'.first = -1 => nextPage' = Start'[Done']
                         /\ traj' # NoTraj /\ traj'.first # -1 =>
                              /\ traj'.first = Start'[Done']
                              /\ nextPage' + Left(traj.rem)' = Start'[Done' + 1]
  BY DEF FirstLife, Lines
<1>0. /\ Inv /\ RestOfFile /\ FirstLife /\ TypeOK /\ bSubTraj \in BOOLEAN
      /\ bSubTraj' = bSubTraj /\ Start' = Start
      /\ Starts(Start)
  <2>1. Inv /\ RestOfFile /\ FirstLife /\ TypeOK /\ bSubTraj \in BOOLEAN
    BY DEF ReadInv, KeptInv, PageInv, Inv, TypeOK
  <2>2. bSubTraj' = bSubTraj
    BY NextKeeps
  <2> QED
    BY <2>1, <2>2, StartSame, StartIs
<1>1. CASE Create
  <2>1. /\ property' = property /\ failedBuild' = FALSE /\ pc' = "load" /\ rows' = rows
        /\ traj' = traj /\ nextPage' = 0 /\ todo' = Trajectories(File) /\ traj = NoTraj
    BY <1>0, <1>1 DEF Create, Inv, Types, TrajTyped
  <2>2. Done' = 0
    <3>1. Len(todo') = Len(File.lines) /\ Len(File.lines) \in Nat
      BY <2>1, LineFacts
    <3> QED
      BY <3>1 DEF Done
  <2>3. Start[0 + 1] = 0
    BY <1>0 DEF Starts
  <2>4. \A id \in DOMAIN rows : \E k \in Lines :
          /\ File.lines[k].id = id
          /\ File.lines[k].n >= 2
          /\ rows[id] = [page |-> Start[k], n |-> File.lines[k].n]
    BY <1>0, <2>1 DEF FirstLife
  <2> QED
    BY <1>0, <2>1, <2>2, <2>3, <2>4
<1>2. CASE Open
  BY <1>2 DEF Open, FilesExist
<1>3. ASSUME NEW file \in Appended, LoadFile(file)
      PROVE  FALSE
  BY <1>0, <1>3 DEF LoadFile, FirstLife
<1>4. ASSUME open, property' = property, failedBuild' = failedBuild, rows' = rows,
             open' = open, pc' \in {"load", "flush", "truncate"}
      PROVE  /\ ~failedBuild' /\ ~failedBuild
             /\ open' => pc' \in {"load", "flush", "truncate"}
             /\ pc \in {"load", "flush", "truncate"}
             /\ \A id \in DOMAIN rows' : \E k \in Lines :
                  /\ File.lines[k].id = id
                  /\ File.lines[k].n >= 2
                  /\ rows'[id] = [page |-> Start'[k], n |-> File.lines[k].n]
  BY <1>0, <1>4 DEF FirstLife
<1>5. ASSUME open, property' = property
      PROVE  pc \in {"load", "flush", "truncate"}
  BY <1>0, <1>5 DEF FirstLife
<1>6. CASE BeginTraj \/ DropTraj
  <2>1. NextLine
    BY <1>6, Zenon DEF BeginTraj, DropTraj
  <2>2. /\ open /\ open' = open /\ property' = property /\ failedBuild' = failedBuild
        /\ rows' = rows /\ pc' = pc /\ nextPage' = nextPage /\ traj = NoTraj
        /\ pc \in {"load", "append"}
    BY <2>1 DEF NextLine, Loading, ghostVars, diskVars
  <2>3. pc = "load"
    BY <1>5, <2>2
  <2>4. /\ Done \in Nat /\ Done' = Done + 1 /\ Done' \in Lines
        /\ Head(todo).n = File.lines[Done'].n
    BY <1>0, <2>1, <2>3, LineTaken
  <2>5. nextPage = Start[Done']
    <3>1. todo # <<>>
      BY <2>1 DEF NextLine
    <3> QED
      BY <1>0, <2>2, <2>3, <2>4, <3>1 DEF FirstLife
  <2>6. CASE BeginTraj
    <3>1. traj'.first = -1 /\ traj' # NoTraj
      <4>1. traj' = Begun(Head(todo)) /\ Head(todo).n >= 2
        BY <2>6 DEF BeginTraj
      <4>2. traj'.n >= 2 /\ traj'.first = -1 /\ NoTraj.n = 0
        BY <4>1 DEF Begun, NoTraj
      <4> QED
        BY <4>2
    <3> QED
      BY <1>0, <1>4, <2>2, <2>3, <2>5, <3>1
  <2>7. CASE DropTraj
    <3>1. traj' = NoTraj /\ Head(todo).n < 2
      BY <2>2, <2>7 DEF DropTraj
    <3>2. Start[Done' + 1] = Start[Done'] + Needed(Done')
      BY <1>0, <2>4 DEF Starts
    <3>3. Needed(Done') = 0
      <4>1. ASSUME NEW n \in Nat, n < 2 PROVE ~(n >= 2)
        BY <4>1
      <4>2. File.lines[Done'].n \in Nat
        BY <2>4, LineFacts DEF Lines
      <4>3. ~(File.lines[Done'].n >= 2)
        BY <2>4, <3>1, <4>1, <4>2
      <4> QED
        BY <4>3 DEF Needed
    <3>4. Start[Done'] \in Nat
      BY <1>0, <2>4 DEF Starts, Lines
    <3>5. nextPage' = Start[Done' + 1]
      BY <2>2, <2>5, <3>2, <3>3, <3>4
    <3> QED
      BY <1>0, <1>4, <2>2, <2>3, <3>1, <3>5
  <2> QED
    BY <1>6, <2>6, <2>7
<1>7. CASE CutPage
  <2>1. /\ open /\ open' = open /\ property' = property /\ failedBuild' = failedBuild
        /\ rows' = rows /\ pc' = pc /\ todo' = todo /\ traj # NoTraj /\ traj.rem > 0
        /\ pc \in {"load", "append"} /\ StoreNew(PointsPage(traj.t, traj.cur, Smaller(traj.rem, Fp)))
    BY <1>7 DEF CutPage, Loading, ghostVars
  <2>2. pc = "load" /\ Done' = Done
    BY <1>5, <2>1 DEF Done
  <2>3. /\ Done \in Lines /\ traj \in TrajBegun /\ traj.n \in Nat /\ traj.n >= 2
        /\ Needed(Done) = Pages(traj.n)
    BY <1>0, <2>1, <2>2, LineRead
  <2>4. emptyPages = {}
    BY <1>0, <1>4, <2>1, <2>2, NoneEmpty
  <2>5. PageTaken = nextPage /\ nextPage' = nextPage + 1 /\ nextPage \in Nat /\ PageTaken \in Page
    BY <1>0, <2>1, <2>4 DEF StoreNew, PageTaken, TypeOK
  <2>6. traj' = Cut(PageTaken) /\ traj' # NoTraj /\ traj'.first # -1
    <3>1. traj' = Cut(PageTaken) /\ traj'.n >= 2 /\ traj'.first # -1
      BY <1>7, <2>3, <2>5, CutPageTraj
    <3> QED
      BY <3>1 DEF NoTraj
  <2>7. /\ Left(traj.rem) \in Nat \ {0}
        /\ Left(traj'.rem) = Left(traj.rem) - 1
    <3>1. traj.rem \in Nat /\ (bSubTraj => traj.rem >= 2)
      BY <1>0, <2>1, <2>3 DEF TrajBegun, RestOfFile
    <3>2. traj'.rem = IF bSubTraj /\ traj.rem # Fp THEN traj.rem - Fp + 1 ELSE traj.rem - Fp
      BY <2>6 DEF Cut
    <3> QED
      BY <1>0, <2>1, <3>1, <3>2, CutLeft
  <2>8. Left(traj.rem)' = Left(traj'.rem)
    BY <1>0 DEF Left, Pages
  <2>9. Start[Done] \in Nat /\ Start[Done + 1] = Start[Done] + Needed(Done)
    <3>1. Done \in 1 .. Len(File.lines) + 1
      BY <1>0, <2>3, DoneTyped DEF Lines
    <3>2. Start[Done] \in Nat
      BY <1>0, <3>1 DEF Starts
    <3> QED
      BY <1>0, <2>3, <3>2 DEF Starts
  <2>10. CASE traj.first = -1
    <3>1. nextPage = Start[Done] /\ traj.rem = traj.n
      BY <1>0, <2>1, <2>2, <2>10 DEF FirstLife, Inv, Types, TrajTyped
    <3>2. traj'.first = nextPage
      BY <2>5, <2>6, <2>10 DEF Cut
    <3>3. Left(traj.rem) = Needed(Done)
      BY <2>1, <2>3, <3>1 DEF Left
    <3>4. nextPage' + Left(traj.rem)' = Start[Done + 1]
      BY <2>5, <2>7, <2>8, <2>9, <3>1, <3>3
    <3> QED
      BY <1>0, <1>4, <2>1, <2>2, <2>6, <3>1, <3>2, <3>4
  <2>11. CASE traj.first # -1
    <3>1. traj.first = Start[Done] /\ nextPage + Left(traj.rem) = Start[Done + 1]
      BY <1>0, <2>1, <2>2, <2>11 DEF FirstLife
    <3>2. traj'.first = traj.first
      BY <2>6, <2>11 DEF Cut
    <3>3. nextPage' + Left(traj.rem)' = Start[Done + 1]
      BY <2>5, <2>7, <2>8, <3>1
    <3> QED
      BY <1>0, <1>4, <2>1, <2>2, <2>6, <3>1, <3>2, <3>3
  <2> QED
    BY <2>10, <2>11
<1>8. CASE InsertRow
  <2>1. /\ open /\ open' = open /\ property' = property /\ failedBuild' = failedBuild
        /\ pc' = pc /\ todo' = todo /\ traj # NoTraj /\ traj.rem <= 0 /\ traj' = NoTraj
        /\ nextPage' = nextPage /\ pc \in {"load", "append"}
        /\ rows' = IF traj.id \in DOMAIN rows THEN rows
                   ELSE Put(rows, traj.id, [page |-> traj.first, n |-> traj.n])
    BY <1>8 DEF InsertRow, Loading, diskVars
  <2>2. pc = "load" /\ Done' = Done
    BY <1>5, <2>1 DEF Done
  <2>3. /\ Done \in Lines /\ traj \in TrajBegun /\ traj.n \in Nat /\ traj.n >= 2
        /\ traj.id = File.lines[Done].id /\ traj.n = File.lines[Done].n
    BY <1>0, <2>1, <2>2, LineRead
  <2>4. traj.first # -1
    <3>1. traj.first = -1 => traj.rem = traj.n
      BY <1>0, <2>1 DEF Inv, Types, TrajTyped
    <3> QED
      BY <2>1, <2>3, <3>1
  <2>5. traj.first = Start[Done] /\ nextPage + Left(traj.rem) = Start[Done + 1]
    BY <1>0, <2>1, <2>2, <2>4 DEF FirstLife
  <2>6. Left(traj.rem) = 0 /\ nextPage \in Nat
    <3>1. traj.rem \in Int
      BY <2>3 DEF TrajBegun
    <3> QED
      BY <1>0, <2>1, <3>1 DEF Left, TypeOK
  <2>7. nextPage' = Start[Done + 1]
    BY <2>1, <2>5, <2>6
  <2>8. ASSUME NEW id \in DOMAIN rows'
        PROVE  \E k \in Lines :
                  /\ File.lines[k].id = id
                  /\ File.lines[k].n >= 2
                  /\ rows'[id] = [page |-> Start[k], n |-> File.lines[k].n]
    <3>1. CASE id \in DOMAIN rows
      <4>1. rows'[id] = rows[id]
        BY <2>1, <3>1 DEF Put
      <4> QED
        BY <1>0, <2>1, <3>1, <4>1 DEF FirstLife
    <3>2. CASE id \notin DOMAIN rows
      <4>1. id = traj.id /\ rows'[id] = [page |-> traj.first, n |-> traj.n]
        BY <2>1, <3>2 DEF Put
      <4> QED
        BY <2>3, <2>5, <4>1
    <3> QED
      BY <3>1, <3>2
  <2>9. ~failedBuild'
    BY <1>0, <2>1 DEF FirstLife
  <2> QED
    BY <1>0, <2>1, <2>2, <2>7, <2>8, <2>9
<1>9. CASE EndLoad
  <2>1. /\ open /\ open' = open /\ property' = property /\ failedBuild' = failedBuild
        /\ rows' = rows /\ pc' = "flush"
    BY <1>9 DEF EndLoad, Loading, ghostVars
  <2> QED
    BY <1>4, <2>1
<1>10. CASE Flushing
  <2>1. CASE FlushDisk
    <3>1. /\ open /\ open' = open /\ property' = property /\ failedBuild' = failedBuild
          /\ rows' = rows /\ pc' = "truncate"
      BY <2>1 DEF FlushDisk, ghostVars
    <3> QED
      BY <1>4, <3>1
  <2>2. CASE TruncateProperty \/ WriteProperty
    BY <2>2 DEF TruncateProperty, WriteProperty, TornProperty
  <2> QED
    BY <1>10, <2>1, <2>2 DEF Flushing
<1>11. CASE Building
  BY <1>5, <1>11, BuildingFacts
<1>12. CASE Ending
  <2>1. /\ ~open' /\ property' = property /\ failedBuild' = failedBuild /\ rows' = rows /\ pc' = "idle"
    BY <1>12, EndingFacts
  <2> QED
    BY <1>0, <2>1 DEF FirstLife
<1>13. CASE Failing
  <2>1. /\ open /\ open' = open /\ property' = property /\ failedBuild' = failedBuild
        /\ rows' = rows /\ pc' = pc /\ traj' = NoTraj
    BY <1>13, FailingFacts
  <2>2. pc' = "load" /\ todo' # <<>> => nextPage' = Start'[Done' + 1]
    <3> SUFFICES ASSUME pc = "load", InsertFails PROVE nextPage' = Start[Done' + 1]
      BY <1>0, <1>13, <2>1, FailingFacts
    <3>1. /\ traj # NoTraj /\ traj.rem <= 0 /\ todo' = todo /\ nextPage' = nextPage
      BY DEF InsertFails, diskVars
    <3>2. traj \in TrajBegun /\ traj.n \in Nat /\ traj.n >= 2
      BY <1>0, <3>1, LineRead
    <3>3. traj.first # -1
      <4>1. traj.first = -1 => traj.rem = traj.n
        BY <1>0, <3>1 DEF Inv, Types, TrajTyped
      <4> QED
        BY <3>1, <3>2, <4>1
    <3>4. nextPage + Left(traj.rem) = Start[Done + 1]
      BY <1>0, <2>1, <3>1, <3>3 DEF FirstLife
    <3>5. Left(traj.rem) = 0 /\ nextPage \in Nat
      <4>1. traj.rem \in Int
        BY <3>2 DEF TrajBegun
      <4> QED
        BY <1>0, <3>1, <4>1 DEF Left, TypeOK
    <3>6. Done' = Done
      BY <3>1 DEF Done
    <3> QED
      BY <3>1, <3>4, <3>5, <3>6
  <2>3. /\ ~failedBuild'
        /\ open' => pc' \in {"load", "flush", "truncate"}
        /\ \A id \in DOMAIN rows' : \E k \in Lines :
             /\ File.lines[k].id = id
             /\ File.lines[k].n >= 2
             /\ rows'[id] = [page |-> Start'[k], n |-> File.lines[k].n]
    <3>1. pc' \in {"load", "flush", "truncate"}
      BY <1>5, <2>1
    <3> QED
      BY <1>4, <2>1, <3>1
  <2> QED
    BY <2>1, <2>2, <2>3
<1> QED
  BY <1>1, <1>2, <1>3, <1>6, <1>7, <1>8, <1>9, <1>10, <1>11, <1>12, <1>13, Steps

(* The last id is not below any that has been given. *)
LEMMA LastIs ==
  ASSUME Inv
  PROVE  /\ LastTrajId \in Nat /\ nextTraj \in Int
         /\ nextTraj <= LastTrajId
         /\ nextTraj >= 0 => LastTrajId = nextTraj
         /\ nextTraj < 0 => \A i \in DOMAIN rows : i <= LastTrajId
<1>1. RowsTyped /\ nextTraj \in Int /\ DOMAIN rows \subseteq 0 .. MaxId
  BY DEF Inv, Types, RowsTyped
<1>2. LastTrajId \in Nat
  BY <1>1, LastTrajTyped
<1>3. nextTraj >= 0 => LastTrajId = nextTraj
  BY DEF LastTrajId
<1>4. ASSUME nextTraj < 0 PROVE \A i \in DOMAIN rows : i <= LastTrajId
  <2>1. ~(nextTraj >= 0)
    BY <1>1, <1>4
  <2>2. CASE rows = Empty
    BY <2>2, EmptyDomain
  <2>3. CASE rows # Empty
    <3>1. DOMAIN rows # {}
      BY <1>1, <2>3 DEF RowsTyped, Empty
    <3>2. \E i \in DOMAIN rows : \A j \in DOMAIN rows : j <= i
      BY <1>1, <3>1, GreatestOf
    <3> QED
      BY <2>1, <2>3, <3>2 DEF LastTrajId
  <2> QED
    BY <2>2, <2>3
<1>5. nextTraj <= LastTrajId
  BY <1>1, <1>2, <1>3
<1> QED
  BY <1>1, <1>2, <1>3, <1>4, <1>5

(* The id a trajectory is appended under. *)
LEMMA LineAppended ==
  ASSUME Inv, RestOfFile, NextLine, pc = "append"
  PROVE  nextTraj' = LastTrajId /\ IdOf(Head(todo)) = LastTrajId + 1
<1>1. Len(todo) \in Nat /\ Len(todo) >= 1 /\ Head(todo) = todo[1]
  BY NextLineFacts
<1>2. 1 \in 1 .. Len(todo)
  BY <1>1
<1>3. Head(todo).id > KeptIds
  BY <1>1, <1>2 DEF RestOfFile
<1>4. NumbersAnew(Head(todo))
  BY <1>3 DEF NumbersAnew
<1> QED
  BY <1>4 DEF NextLine, IdOf

(* Also when a line, a page or a row fails. *)
LEMMA FailingIds ==
  ASSUME ReadInv, Failing
  PROVE  NewIds'
<1>0. /\ Inv /\ RestOfFile /\ NewIds
      /\ nextTraj \in Int /\ nextTraj >= -1
      /\ \A i \in DOMAIN rows : i \in Int
      /\ LastTrajId \in Nat /\ nextTraj <= LastTrajId
      /\ nextTraj >= 0 => LastTrajId = nextTraj
      /\ nextTraj < 0 => \A i \in DOMAIN rows : i <= LastTrajId
  <2>1. Inv /\ RestOfFile /\ NewIds
    BY DEF ReadInv, KeptInv, PageInv
  <2>2. nextTraj \in Int /\ nextTraj >= -1 /\ \A i \in DOMAIN rows : i \in Int
    BY <2>1 DEF Inv, Types, TypeOK, RowsTyped
  <2> QED
    BY <2>1, <2>2, LastIs
<1>1. /\ open /\ open' = open /\ pc \in {"load", "append"} /\ pc' = pc /\ traj' = NoTraj
      /\ property' = property /\ rows' = rows /\ mine' = mine
      /\ earlier.ids \subseteq earlier'.ids
      /\ (todo' = <<>> /\ NotReached) \/ (todo' = todo /\ earlier' = earlier /\ InsertFails)
  BY FailingFacts, FailingEarlier
<1>2. ASSUME nextTraj <= nextTraj', nextTraj' \in Int,
             \A i \in DOMAIN rows' \ earlier'.ids :
               nextTraj' >= 0 \/ pc' = "load" => i <= nextTraj' \/ Ahead(i)',
             pc = "load" =>
               /\ \A k \in Lines : k > Done' => nextTraj' < File.lines[k].id
               /\ property.is # "absent" => DOMAIN rows \ earlier'.ids \subseteq DOMAIN mine
      PROVE  NewIds'
  <2>1. ASSUME NEW i \in DOMAIN mine PROVE i \in Nat /\ i <= nextTraj'
    <3>1. i \in Nat /\ i <= nextTraj
      BY <1>0 DEF NewIds
    <3> QED
      BY <1>0, <1>2, <3>1
  <2> QED
    BY <1>1, <1>2, <2>1 DEF NewIds, Lines
<1>3. CASE InsertFails
  <2>1. /\ nextTraj' = traj.id /\ traj # NoTraj /\ todo' = todo /\ earlier' = earlier
    BY <1>3 DEF InsertFails
  <2>2. Done' = Done
    BY <2>1 DEF Done
  <2>3. traj.id \in Nat
    <3>1. traj \in TrajBegun
      BY <1>0, <2>1 DEF Inv, Types, TrajTyped
    <3>2. traj.id \in 0 .. MaxId
      BY <3>1 DEF TrajBegun
    <3> QED
      BY <3>2, BoundsAssumption
  <2>4. nextTraj < traj.id
    <3>1. CASE pc = "load"
      BY <1>0, <2>1, <3>1 DEF NewIds
    <3>2. CASE pc = "append"
      <4>1. traj.id = nextTraj + 1
        BY <1>0, <2>1, <3>2 DEF NewIds
      <4> QED
        BY <1>0, <4>1
    <3> QED
      BY <1>1, <3>1, <3>2
  <2>5. ASSUME NEW i \in DOMAIN rows' \ earlier'.ids PROVE i <= nextTraj' \/ Ahead(i)'
    <3>1. i \in DOMAIN rows \ earlier.ids /\ i \in Int
      BY <1>0, <1>1, <2>1
    <3>2. nextTraj >= 0 \/ pc = "load"
      BY <1>0, <1>1, <2>1 DEF NewIds
    <3>3. i <= nextTraj \/ Ahead(i)
      BY <1>0, <1>1, <3>1, <3>2 DEF NewIds
    <3>4. CASE i <= nextTraj
      BY <1>0, <2>1, <2>3, <2>4, <3>1, <3>4
    <3>5. CASE Ahead(i) /\ i = traj.id
      BY <2>1, <2>3, <3>5
    <3>6. CASE Ahead(i) /\ i # traj.id
      BY <1>1, <2>2, <3>6 DEF Ahead, Lines
    <3> QED
      BY <3>3, <3>4, <3>5, <3>6
  <2>6. ASSUME pc = "load", NEW k \in Lines, k > Done PROVE nextTraj' < File.lines[k].id
    <3>1. Done \in Lines /\ traj.id = File.lines[Done].id
      BY <1>0, <2>1, <2>6, LineRead
    <3>2. Done \in 1 .. Len(File.lines) /\ k \in 1 .. Len(File.lines) /\ Done < k
      BY <1>0, <2>6, <3>1, DoneTyped DEF Lines
    <3>3. File.lines[Done].id < File.lines[k].id
      BY <3>2, NumbersAssumption
    <3> QED
      BY <2>1, <3>1, <3>3
  <2>7. pc = "load" /\ property.is # "absent" => DOMAIN rows \ earlier.ids \subseteq DOMAIN mine
    BY <1>0 DEF NewIds
  <2>8. nextTraj <= nextTraj' /\ nextTraj' \in Int
    BY <1>0, <2>1, <2>3, <2>4
  <2> QED
    BY <1>2, <2>1, <2>2, <2>5, <2>6, <2>7, <2>8
<1>4. CASE todo' = <<>> /\ NotReached /\ ~InsertFails
  <2>1. /\ nextTraj' = nextTraj \/ (nextTraj' = LastTrajId /\ pc = "append")
        /\ nextTraj' \in Int
    BY <1>0, <1>4, FailingLast
  <2>2. nextTraj <= nextTraj'
    BY <1>0, <2>1
  <2>3. CASE pc = "load"
    <3>1. DOMAIN rows \ earlier'.ids \subseteq DOMAIN mine /\ nextTraj' = nextTraj
      BY <1>4, <2>1, <2>3 DEF NotReached
    <3>2. ASSUME NEW i \in DOMAIN rows' \ earlier'.ids PROVE i <= nextTraj'
      <4>1. i \in DOMAIN mine
        BY <1>1, <3>1
      <4> QED
        BY <1>0, <3>1, <4>1 DEF NewIds
    <3>3. \A k \in Lines : ~(k > Done')
      <4>1. Len(todo') = 0 /\ Len(File.lines) \in Nat
        BY <1>0, <1>4, DoneTyped
      <4>2. Done' = Len(File.lines)
        BY <4>1 DEF Done
      <4> QED
        BY <4>1, <4>2 DEF Lines
    <3> QED
      BY <1>2, <2>1, <2>2, <3>1, <3>2, <3>3
  <2>4. CASE pc = "append"
    <3>1. ASSUME NEW i \in DOMAIN rows' \ earlier'.ids, nextTraj' >= 0 PROVE i <= nextTraj'
      <4>1. i \in DOMAIN rows \ earlier.ids /\ i \in Int
        BY <1>0, <1>1
      <4>2. CASE nextTraj >= 0
        <5>1. i <= nextTraj
          BY <1>0, <1>1, <2>4, <4>1, <4>2 DEF NewIds, Ahead
        <5> QED
          BY <1>0, <2>1, <2>2, <4>1, <5>1
      <4>3. CASE nextTraj < 0
        <5>1. nextTraj' = LastTrajId
          BY <1>0, <2>1, <3>1, <4>3
        <5> QED
          BY <1>0, <4>1, <4>3, <5>1
      <4> QED
        BY <1>0, <4>2, <4>3
    <3> QED
      BY <1>1, <1>2, <2>1, <2>2, <2>4, <3>1
  <2> QED
    BY <1>1, <2>3, <2>4
<1> QED
  BY <1>1, <1>3, <1>4

(* Ids are given in order. *)
LEMMA NewIdsStep ==
  ASSUME ReadInv, Inv', Next
  PROVE  NewIds'
<1>0. /\ Inv /\ RestOfFile /\ FirstLife /\ NewIds
      /\ nextTraj \in Int /\ nextTraj' \in Int /\ nextTraj >= -1 /\ nextTraj' >= -1
      /\ \A i \in DOMAIN rows : i \in Int
      /\ ~open => mine = Empty /\ pc = "idle"
  <2>1. Inv /\ RestOfFile /\ FirstLife /\ NewIds /\ (~open => mine = Empty /\ pc = "idle")
    BY DEF ReadInv, KeptInv, PageInv, Inv
  <2>2. nextTraj \in Int /\ nextTraj' \in Int /\ nextTraj >= -1 /\ nextTraj' >= -1
    BY <2>1 DEF Inv, Types, TypeOK
  <2>3. \A i \in DOMAIN rows : i \in Int
    BY <2>1 DEF Inv, Types, RowsTyped
  <2> QED
    BY <2>1, <2>2, <2>3
<1>1. CASE Create
  <2>1. /\ ~open /\ open' /\ property' = property /\ pc' = "load" /\ rows' = rows /\ mine' = mine
        /\ traj' = traj /\ todo' = Trajectories(File) /\ traj = NoTraj /\ nextTraj' = nextTraj
        /\ FilesExist => earlier'.ids = DOMAIN rows
    BY <1>0, <1>1 DEF Create, Inv, Types, TrajTyped
  <2>2. Done' = 0
    <3>1. Len(todo') = Len(File.lines) /\ Len(File.lines) \in Nat
      BY <2>1, LineFacts
    <3> QED
      BY <3>1 DEF Done
  <2>3. nextTraj' = -1 /\ mine' = Empty
    BY <1>0, <2>1 DEF NewIds
  <2>4. \A k \in Lines : k > 0 /\ File.lines[k].id \in Nat
    BY <1>0, DoneTyped DEF Lines
  <2>5. ASSUME NEW i \in DOMAIN rows \ earlier'.ids PROVE Ahead(i)'
    <3>1. property.is = "absent"
      BY <2>1, <2>5 DEF FilesExist
    <3>2. PICK k \in Lines : File.lines[k].id = i /\ File.lines[k].n >= 2
      BY <1>0, <2>5, <3>1 DEF FirstLife
    <3> QED
      BY <2>1, <2>2, <2>4, <3>2 DEF Ahead, Lines
  <2>6. property'.is # "absent" => DOMAIN rows' \ earlier'.ids = {}
    BY <2>1 DEF FilesExist
  <2>7. \A k \in Lines : nextTraj' < File.lines[k].id
    BY <2>3, <2>4
  <2> QED
    BY <2>1, <2>3, <2>5, <2>6, <2>7, EmptyDomain DEF NewIds, Lines
<1>2. CASE Open
  <2>1. /\ nextTraj' = nextTraj /\ mine' = mine /\ open' /\ pc' = "idle" /\ ~open
    BY <1>0, <1>2 DEF Open, ghostVars
  <2>2. nextTraj' = -1 /\ mine' = Empty
    BY <1>0, <2>1 DEF NewIds
  <2> QED
    BY <2>1, <2>2, EmptyDomain DEF NewIds
<1>3. ASSUME NEW file \in Appended, LoadFile(file)
      PROVE  NewIds'
  <2>1. /\ open /\ open' = open /\ nextTraj' = nextTraj /\ mine' = mine /\ rows' = rows
        /\ pc = "idle" /\ pc' = "append" /\ earlier' = earlier /\ traj' = traj /\ traj = NoTraj
    BY <1>0, <1>3 DEF LoadFile, ghostVars, Inv, Types, TrajTyped
  <2>2. nextTraj >= 0 => \A i \in DOMAIN rows \ earlier.ids : i <= nextTraj
    BY <1>0, <2>1 DEF NewIds, Ahead
  <2> QED
    BY <1>0, <2>1, <2>2 DEF NewIds
<1>4. CASE BeginTraj \/ DropTraj
  <2>1. NextLine
    BY <1>4, Zenon DEF BeginTraj, DropTraj
  <2>2. /\ open /\ open' = open /\ property' = property /\ earlier' = earlier
        /\ rows' = rows /\ pc' = pc /\ mine' = mine /\ traj = NoTraj
        /\ pc \in {"load", "append"}
    BY <2>1 DEF NextLine, Loading, ghostVars, diskVars
  <2>3. /\ BeginTraj => traj' = Begun(Head(todo)) /\ traj' # NoTraj /\ traj'.id = IdOf(Head(todo))
        /\ DropTraj => traj' = NoTraj /\ Head(todo).n < 2
    <3>1. BeginTraj => traj' = Begun(Head(todo)) /\ Head(todo).n >= 2
      BY DEF BeginTraj
    <3>2. BeginTraj => traj'.n >= 2 /\ NoTraj.n = 0 /\ traj'.id = IdOf(Head(todo))
      BY <3>1 DEF Begun, NoTraj
    <3> QED
      BY <2>2, <3>1, <3>2 DEF DropTraj
  <2>4. CASE pc = "load"
    <3>1. /\ Done \in Nat /\ Done' = Done + 1 /\ Done' \in Lines
          /\ Head(todo).id = File.lines[Done'].id
          /\ Head(todo).n = File.lines[Done'].n
          /\ nextTraj' = nextTraj /\ IdOf(Head(todo)) = Head(todo).id
      BY <1>0, <2>1, <2>4, LineTaken
    <3>2. \A k \in Lines : k > Done => nextTraj < File.lines[k].id
      BY <1>0, <2>4 DEF NewIds
    <3>3. \A k \in Lines : k \in Int /\ File.lines[k].n \in Nat
      BY <1>0, DoneTyped
    <3>4. \A k \in Lines : k > Done' => nextTraj' < File.lines[k].id
      BY <3>1, <3>2, <3>3
    <3>5. traj' # NoTraj => nextTraj' < traj'.id
      <4>1. Done' > Done
        BY <3>1
      <4>2. nextTraj < File.lines[Done'].id
        BY <3>1, <3>2, <4>1
      <4> QED
        BY <1>4, <2>3, <3>1, <4>2
    <3>6. ASSUME NEW i, Ahead(i)
          PROVE  pc' = "load" /\ (\/ traj' # NoTraj /\ traj'.id = i
                                  \/ \E k \in Lines : k > Done' /\ File.lines[k].n >= 2 /\ File.lines[k].id = i)
      <4>1. PICK k \in Lines : k > Done /\ File.lines[k].n >= 2 /\ File.lines[k].id = i
        BY <2>2, <3>6 DEF Ahead
      <4>2. CASE k = Done'
        <5>1. ~(Head(todo).n < 2)
          BY <3>1, <3>3, <4>1, <4>2
        <5> QED
          BY <1>4, <2>2, <2>3, <2>4, <3>1, <4>1, <4>2, <5>1
      <4>3. CASE k # Done'
        <5>1. k > Done'
          <6>1. k \in Int /\ k > Done /\ k # Done + 1
            BY <3>1, <3>3, <4>1, <4>3
          <6>2. k > Done + 1
            BY <3>1, <6>1
          <6> QED
            BY <3>1, <6>2
        <5> QED
          BY <2>2, <2>4, <4>1, <5>1
      <4> QED
        BY <4>2, <4>3
    <3>7. \A i \in DOMAIN rows \ earlier.ids : i <= nextTraj \/ Ahead(i)
      BY <1>0, <2>2, <2>4 DEF NewIds
    <3>8. \A i \in DOMAIN rows' \ earlier'.ids : i <= nextTraj' \/ Ahead(i)'
      BY <2>2, <3>1, <3>6, <3>7 DEF Ahead, Lines
    <3>9. /\ \A i \in DOMAIN mine' : i <= nextTraj'
          /\ property'.is # "absent" => DOMAIN rows' \ earlier'.ids \subseteq DOMAIN mine'
      BY <1>0, <2>2, <2>4, <3>1 DEF NewIds
    <3> QED
      BY <1>0, <2>2, <2>4, <3>4, <3>5, <3>8, <3>9 DEF NewIds, Lines
  <2>5. CASE pc = "append"
    <3>1. nextTraj' = LastTrajId /\ IdOf(Head(todo)) = LastTrajId + 1
      BY <1>0, <2>1, <2>5, LineAppended
    <3>2. /\ LastTrajId \in Nat /\ nextTraj <= LastTrajId
          /\ nextTraj >= 0 => LastTrajId = nextTraj
          /\ nextTraj < 0 => \A i \in DOMAIN rows : i <= LastTrajId
      BY <1>0, LastIs
    <3>3. traj' # NoTraj => traj'.id = nextTraj' + 1
      BY <1>4, <2>3, <3>1
    <3>4. ASSUME NEW i \in DOMAIN rows \ earlier.ids PROVE i <= nextTraj'
      <4>1. CASE nextTraj >= 0
        BY <1>0, <2>2, <2>5, <3>1, <3>2, <4>1 DEF NewIds, Ahead
      <4>2. CASE nextTraj < 0
        BY <3>1, <3>2, <4>2
      <4> QED
        BY <1>0, <4>1, <4>2
    <3>5. ASSUME NEW i \in DOMAIN mine PROVE i <= nextTraj'
      <4>1. i \in Nat /\ i <= nextTraj
        BY <1>0 DEF NewIds
      <4>2. nextTraj >= 0 => nextTraj' = nextTraj
        BY <3>1, <3>2
      <4>3. CASE nextTraj >= 0
        BY <4>1, <4>2, <4>3
      <4> QED
        BY <1>0, <4>1, <4>3
    <3>6. nextTraj' >= 0
      BY <3>1, <3>2
    <3> QED
      BY <1>0, <2>2, <2>5, <3>3, <3>4, <3>5, <3>6 DEF NewIds
  <2> QED
    BY <2>2, <2>4, <2>5
<1>5. CASE CutPage
  <2>1. /\ open /\ open' = open /\ property' = property /\ earlier' = earlier /\ nextTraj' = nextTraj
        /\ rows' = rows /\ pc' = pc /\ mine' = mine /\ todo' = todo /\ traj # NoTraj /\ traj.rem > 0
    BY <1>5 DEF CutPage, Loading, ghostVars
  <2>2. traj' # NoTraj /\ traj'.id = traj.id
    <3>1. traj \in TrajBegun /\ traj.n >= 2 /\ PageTaken \in Page
      BY <1>0, <1>5, <2>1, StoreNewTyped DEF CutPage, Inv, Types, TrajTyped
    <3>2. traj' = Cut(PageTaken) /\ traj'.n >= 2
      BY <1>5, <3>1, CutPageTraj
    <3>3. traj'.id = traj.id
      BY <3>2 DEF Cut
    <3> QED
      BY <3>2, <3>3 DEF NoTraj
  <2>3. Done' = Done
    BY <2>1 DEF Done
  <2>4. \A i : Ahead(i)' <=> Ahead(i)
    BY <2>1, <2>2, <2>3 DEF Ahead, Lines
  <2>5. open /\ (nextTraj >= 0 \/ pc = "load") =>
          \A i \in DOMAIN rows \ earlier.ids : i <= nextTraj \/ Ahead(i)
    BY <1>0 DEF NewIds
  <2>6. open' /\ (nextTraj' >= 0 \/ pc' = "load") =>
          \A i \in DOMAIN rows' \ earlier'.ids : i <= nextTraj' \/ Ahead(i)'
    BY <2>1, <2>4, <2>5
  <2>7. /\ (~open' => nextTraj' = -1)
        /\ \A i \in DOMAIN mine' : i \in Nat /\ i <= nextTraj'
    BY <1>0, <2>1 DEF NewIds
  <2>8. pc = "load" =>
         /\ traj # NoTraj => nextTraj < traj.id
         /\ \A k \in Lines : k > Done => nextTraj < File.lines[k].id
         /\ property.is # "absent" => DOMAIN rows \ earlier.ids \subseteq DOMAIN mine
    BY <1>0 DEF NewIds
  <2>9. pc = "append" => nextTraj >= 0 /\ traj.id = nextTraj + 1
    BY <1>0, <2>1 DEF NewIds
  <2> QED
    BY <2>1, <2>2, <2>3, <2>6, <2>7, <2>8, <2>9 DEF NewIds, Lines
<1>6. CASE InsertRow
  <2>1. /\ open /\ open' = open /\ property' = property /\ earlier' = earlier /\ nextTraj' = traj.id
        /\ pc' = pc /\ todo' = todo /\ traj # NoTraj /\ traj' = NoTraj /\ pc \in {"load", "append"}
        /\ rows' = IF traj.id \in DOMAIN rows THEN rows
                   ELSE Put(rows, traj.id, [page |-> traj.first, n |-> traj.n])
        /\ mine' = Put(mine, traj.id, [t |-> traj.t, n |-> traj.n, page |-> traj.first])
    BY <1>6 DEF InsertRow, Loading
  <2>2. Done' = Done
    BY <2>1 DEF Done
  <2>3. traj.id \in Nat
    <3>1. traj \in TrajBegun
      BY <1>0, <2>1 DEF Inv, Types, TrajTyped
    <3>2. traj.id \in 0 .. MaxId
      BY <3>1 DEF TrajBegun
    <3> QED
      BY <3>2, BoundsAssumption
  <2>4. /\ DOMAIN rows' = DOMAIN rows \cup {traj.id}
        /\ DOMAIN mine' = DOMAIN mine \cup {traj.id}
    BY <2>1 DEF Put
  <2>5. nextTraj < traj.id
    <3>1. CASE pc = "load"
      BY <1>0, <2>1, <3>1 DEF NewIds
    <3>2. CASE pc = "append"
      <4>1. traj.id = nextTraj + 1
        BY <1>0, <2>1, <3>2 DEF NewIds
      <4> QED
        BY <1>0, <4>1
    <3> QED
      BY <2>1, <3>1, <3>2
  <2>6. \A i \in DOMAIN mine' : i \in Nat /\ i <= nextTraj'
    <3>1. \A i \in DOMAIN mine : i \in Nat /\ i <= nextTraj
      BY <1>0 DEF NewIds
    <3> QED
      BY <1>0, <2>1, <2>3, <2>4, <2>5, <3>1
  <2>7. ASSUME NEW i \in DOMAIN rows' \ earlier'.ids PROVE i <= nextTraj' \/ Ahead(i)'
    <3>1. CASE i = traj.id
      BY <2>1, <2>3, <3>1
    <3>2. CASE i # traj.id
      <4>1. i \in DOMAIN rows \ earlier.ids /\ i \in Int
        BY <1>0, <2>1, <2>4, <3>2
      <4>2. i <= nextTraj \/ Ahead(i)
        BY <1>0, <2>1, <4>1 DEF NewIds
      <4>3. i <= nextTraj => i <= nextTraj'
        BY <1>0, <2>1, <2>3, <2>5, <4>1
      <4>4. Ahead(i) => Ahead(i)'
        BY <2>1, <2>2, <3>2 DEF Ahead, Lines
      <4> QED
        BY <4>2, <4>3, <4>4
    <3> QED
      BY <3>1, <3>2
  <2>8. ASSUME pc = "load", NEW k \in Lines, k > Done PROVE nextTraj' < File.lines[k].id
    <3>1. Done \in Lines /\ traj.id = File.lines[Done].id
      BY <1>0, <2>1, <2>8, LineRead
    <3>2. Done \in 1 .. Len(File.lines) /\ k \in 1 .. Len(File.lines) /\ Done < k
      BY <1>0, <2>8, <3>1, DoneTyped DEF Lines
    <3>3. File.lines[Done].id < File.lines[k].id
      BY <3>2, NumbersAssumption
    <3> QED
      BY <2>1, <3>1, <3>3
  <2>9. pc = "load" /\ property.is # "absent" => DOMAIN rows \ earlier.ids \subseteq DOMAIN mine
    BY <1>0 DEF NewIds
  <2> QED
    BY <2>1, <2>2, <2>4, <2>6, <2>7, <2>8, <2>9 DEF NewIds, Lines
<1>7. ASSUME open, open', rows' = rows, mine' = mine, earlier'.ids = earlier.ids,
             nextTraj' = nextTraj \/ nextTraj' = LastTrajId,
             pc' \notin {"load", "append"},
             pc \notin {"load", "append"} \/ (traj = NoTraj /\ todo = <<>> /\ nextTraj' = nextTraj)
      PROVE  NewIds'
  <2>1. /\ LastTrajId \in Nat /\ nextTraj <= LastTrajId
        /\ nextTraj >= 0 => LastTrajId = nextTraj
        /\ nextTraj < 0 => \A i \in DOMAIN rows : i <= LastTrajId
    BY <1>0, LastIs
  <2>2. \A i : ~Ahead(i)
    <3>1. CASE pc \notin {"load", "append"}
      BY <3>1 DEF Ahead
    <3>2. CASE traj = NoTraj /\ todo = <<>>
      <4>1. Done = Len(File.lines) /\ Len(File.lines) \in Nat
        <5>1. Len(todo) = 0
          BY <3>2
        <5> QED
          BY <5>1, <1>0, DoneTyped DEF Done
      <4>2. \A k \in Lines : ~(k > Done)
        BY <4>1 DEF Lines
      <4> QED
        BY <3>2, <4>2 DEF Ahead
    <3> QED
      BY <1>7, <3>1, <3>2
  <2>3. nextTraj >= 0 => \A i \in DOMAIN rows \ earlier.ids : i <= nextTraj
    BY <1>0, <1>7, <2>2 DEF NewIds
  <2>4. \A i \in DOMAIN mine : i \in Nat /\ i <= nextTraj
    BY <1>0 DEF NewIds
  <2>5. nextTraj' >= 0 => \A i \in DOMAIN rows \ earlier.ids : i <= nextTraj'
    <3>1. CASE nextTraj' = nextTraj
      BY <2>3, <3>1
    <3>2. CASE nextTraj' = LastTrajId
      BY <1>0, <2>1, <2>3, <3>2
    <3> QED
      BY <1>7, <3>1, <3>2
  <2>6. \A i \in DOMAIN mine : i \in Nat /\ i <= nextTraj'
    <3>1. CASE nextTraj' = nextTraj
      BY <2>4, <3>1
    <3>2. CASE nextTraj' = LastTrajId
      BY <1>0, <2>1, <2>4, <3>2
    <3> QED
      BY <1>7, <3>1, <3>2
  <2> QED
    BY <1>7, <2>5, <2>6 DEF NewIds
<1>8. CASE EndLoad
  <2>1. /\ open /\ open' /\ rows' = rows /\ mine' = mine /\ earlier' = earlier
        /\ nextTraj' = nextTraj /\ pc' = "flush" /\ traj = NoTraj /\ todo = <<>>
    BY <1>8 DEF EndLoad, Loading, ghostVars
  <2> QED
    BY <1>7, <2>1
<1>9. CASE Flushing
  <2>1. /\ open /\ open' /\ rows' = rows /\ mine' = mine /\ earlier'.ids = earlier.ids
        /\ nextTraj' = nextTraj /\ pc' \notin {"load", "append"} /\ pc \notin {"load", "append"}
    BY <1>9, FlushingFacts DEF ReadInv
  <2>2. nextTraj' = nextTraj \/ nextTraj' = LastTrajId
    BY <2>1
  <2>3. pc \notin {"load", "append"} \/ (traj = NoTraj /\ todo = <<>> /\ nextTraj' = nextTraj)
    BY <2>1
  <2> QED
    BY <1>7, <2>1, <2>2, <2>3, Zenon
<1>10. CASE Building
  <2>1. /\ open /\ open' /\ rows' = rows /\ mine' = mine /\ earlier' = earlier
        /\ nextTraj' = nextTraj \/ nextTraj' = LastTrajId
        /\ pc' \notin {"load", "append"} /\ pc \notin {"load", "append"}
    BY <1>10, BuildingFacts
  <2>2. earlier'.ids = earlier.ids
    BY <2>1
  <2>3. pc \notin {"load", "append"} \/ (traj = NoTraj /\ todo = <<>> /\ nextTraj' = nextTraj)
    BY <2>1
  <2> QED
    BY <1>7, <2>1, <2>2, <2>3, Zenon
<1>11. CASE Ending
  <2>1. ~open' /\ nextTraj' = -1 /\ mine' = Empty /\ pc' = "idle"
    BY <1>11, EndingFacts
  <2> QED
    BY <2>1, EmptyDomain DEF NewIds
<1>12. CASE Failing
  BY <1>12, FailingIds
<1> QED
  BY <1>1, <1>2, <1>3, <1>4, <1>5, <1>6, <1>8, <1>9, <1>10, <1>11, <1>12, Steps

(* The steps that give a trajectory its row. *)
LEMMA InsertFacts ==
  ASSUME ReadInv, InsertRow
  PROVE  /\ traj # NoTraj /\ pc \in {"load", "append"} /\ pc' = pc
         /\ traj \in TrajBegun /\ traj.n \in Nat /\ traj.n >= 2
         /\ traj.rem \in Int /\ traj.rem <= 0 /\ traj.first # -1 /\ traj.first \in Page
         /\ nextTraj \in Int /\ nextTraj < traj.id /\ traj.id \in Nat
         /\ nextTraj' = traj.id
         /\ DOMAIN rows' = DOMAIN rows \cup {traj.id}
         /\ \A id \in DOMAIN rows : rows'[id] = rows[id]
         /\ traj.id \notin DOMAIN rows => rows'[traj.id] = [page |-> traj.first, n |-> traj.n]
         /\ DOMAIN mine' = DOMAIN mine \cup {traj.id}
         /\ \A id \in DOMAIN mine : id # traj.id => mine'[id] = mine[id]
         /\ mine'[traj.id] = [t |-> traj.t, n |-> traj.n, page |-> traj.first]
         /\ UNCHANGED <<diskVars, earlier, committed, failedBuild, bSubTraj, property>>
<1>1. /\ traj # NoTraj /\ pc \in {"load", "append"} /\ pc' = pc /\ traj.rem <= 0
      /\ nextTraj' = traj.id
      /\ rows' = IF traj.id \in DOMAIN rows THEN rows
                 ELSE Put(rows, traj.id, [page |-> traj.first, n |-> traj.n])
      /\ mine' = Put(mine, traj.id, [t |-> traj.t, n |-> traj.n, page |-> traj.first])
      /\ UNCHANGED <<diskVars, earlier, committed, failedBuild, bSubTraj, property>>
  BY DEF InsertRow, Loading
<1>2. Inv /\ NewIds
  BY DEF ReadInv, KeptInv, PageInv
<1>3. /\ traj \in TrajBegun /\ traj.n >= 2 /\ nextTraj \in Int
      /\ traj.first = -1 => traj.rem = traj.n
  BY <1>1, <1>2 DEF Inv, Types, TrajTyped
<1>4. /\ traj.n \in Nat /\ traj.rem \in Int /\ traj.first \in Page \cup {-1}
      /\ traj.id \in 0 .. MaxId
  BY <1>3 DEF TrajBegun
<1>5. traj.first # -1 /\ traj.first \in Page
  BY <1>1, <1>3, <1>4
<1>6. nextTraj < traj.id /\ traj.id \in Nat
  <2>1. traj.id \in Nat
    BY <1>4, BoundsAssumption
  <2>2. CASE pc = "load"
    BY <1>1, <1>2, <2>1, <2>2 DEF NewIds
  <2>3. CASE pc = "append"
    <3>1. traj.id = nextTraj + 1
      BY <1>1, <1>2, <2>3 DEF NewIds
    <3> QED
      BY <1>3, <2>1, <3>1
  <2> QED
    BY <1>1, <2>1, <2>2, <2>3
<1>7. /\ DOMAIN rows' = DOMAIN rows \cup {traj.id}
      /\ \A id \in DOMAIN rows : rows'[id] = rows[id]
      /\ traj.id \notin DOMAIN rows => rows'[traj.id] = [page |-> traj.first, n |-> traj.n]
  BY <1>1 DEF Put
<1>8. /\ DOMAIN mine' = DOMAIN mine \cup {traj.id}
      /\ \A id \in DOMAIN mine : id # traj.id => mine'[id] = mine[id]
      /\ mine'[traj.id] = [t |-> traj.t, n |-> traj.n, page |-> traj.first]
  BY <1>1 DEF Put
<1> QED
  BY <1>1, <1>3, <1>4, <1>5, <1>6, <1>7, <1>8

(* Nothing but the end of a load changes what has been loaded. *)
LEMMA LoadedSame ==
  ASSUME ReadInv, Next, ~Create, ~InsertRow, ~Ending
  PROVE  rows' = rows /\ mine' = mine /\ earlier.ids \subseteq earlier'.ids
<1>1. earlier = [ids |-> earlier.ids, names |-> earlier.names]
  BY DEF ReadInv
<1>2. CASE Flushing
  BY <1>1, <1>2, FlushingFacts
<1>3. CASE Building
  BY <1>3, BuildingFacts
<1>4. ASSUME NEW file \in Appended, LoadFile(file)
      PROVE  rows' = rows /\ mine' = mine /\ earlier'.ids = earlier.ids
  BY <1>4 DEF LoadFile, ghostVars
<1>5. CASE Open \/ EndLoad \/ CutPage
  BY <1>5 DEF Open, EndLoad, CutPage, ghostVars
<1>6. CASE BeginTraj \/ DropTraj
  BY <1>6 DEF BeginTraj, DropTraj, NextLine, ghostVars
<1>7. CASE Failing
  BY <1>7, FailingFacts, FailingEarlier
<1> QED
  BY <1>2, <1>3, <1>4, <1>5, <1>6, <1>7, Steps

(* A row is the one of the trajectory that was cut. *)
LEMMA RowsMatchStep ==
  ASSUME ReadInv, Inv', Next
  PROVE  RowsMatch'
<1>0. /\ Inv /\ RestOfFile /\ FirstLife /\ NewIds /\ RowsMatch
      /\ ~open => mine = Empty
  BY DEF ReadInv, KeptInv, PageInv
<1>1. CASE Create \/ Ending
  <2>1. CASE Create
    BY <1>0, <2>1, EmptyDomain DEF Create, RowsMatch
  <2>2. CASE Ending
    BY <2>2, EndingFacts, EmptyDomain DEF RowsMatch
  <2> QED
    BY <1>1, <2>1, <2>2
<1>2. CASE InsertRow
  <2>1. /\ traj # NoTraj /\ pc \in {"load", "append"} /\ traj.first # -1
        /\ nextTraj \in Int /\ nextTraj < traj.id /\ traj.id \in Nat
        /\ DOMAIN rows' = DOMAIN rows \cup {traj.id}
        /\ \A id \in DOMAIN rows : rows'[id] = rows[id]
        /\ traj.id \notin DOMAIN rows => rows'[traj.id] = [page |-> traj.first, n |-> traj.n]
        /\ DOMAIN mine' = DOMAIN mine \cup {traj.id}
        /\ \A id \in DOMAIN mine : id # traj.id => mine'[id] = mine[id]
        /\ mine'[traj.id] = [t |-> traj.t, n |-> traj.n, page |-> traj.first]
        /\ earlier' = earlier
    BY <1>2, InsertFacts
  <2> SUFFICES ASSUME NEW id \in DOMAIN mine' \ earlier'.ids
               PROVE  id \in DOMAIN rows' /\ rows'[id].page = mine'[id].page /\ rows'[id].n = mine'[id].n
    BY DEF RowsMatch
  <2>2. CASE id # traj.id
    BY <1>0, <2>1, <2>2 DEF RowsMatch
  <2>3. CASE id = traj.id /\ id \notin DOMAIN rows
    BY <2>1, <2>3
  <2>4. CASE id = traj.id /\ id \in DOMAIN rows
    <3>1. id \in DOMAIN rows \ earlier.ids /\ ~(id <= nextTraj) /\ open
      BY <1>0, <1>2, <2>1, <2>4 DEF InsertRow, Loading
    <3>2. pc = "load"
      <4>1. ASSUME pc = "append" PROVE FALSE
        <5>1. nextTraj >= 0
          BY <1>0, <2>1, <4>1 DEF NewIds
        <5>2. Ahead(id)
          BY <1>0, <3>1, <5>1 DEF NewIds
        <5> QED
          BY <4>1, <5>2 DEF Ahead
      <4> QED
        BY <2>1, <4>1
    <3>3. property.is = "absent"
      <4>1. ASSUME property.is # "absent" PROVE FALSE
        <5>1. id \in DOMAIN mine
          BY <1>0, <3>1, <3>2, <4>1 DEF NewIds
        <5> QED
          BY <1>0, <3>1, <5>1 DEF NewIds
      <4> QED
        BY <4>1
    <3>4. PICK k \in Lines : /\ File.lines[k].id = id
                             /\ rows[id] = [page |-> Start[k], n |-> File.lines[k].n]
      BY <1>0, <3>1, <3>3 DEF FirstLife
    <3>5. Done \in Lines /\ traj.id = File.lines[Done].id /\ traj.n = File.lines[Done].n
      BY <1>0, <2>1, <3>2, LineRead
    <3>6. k = Done
      <4>1. /\ k \in 1 .. Len(File.lines) /\ Done \in 1 .. Len(File.lines) /\ k \in Int /\ Done \in Int
            /\ File.lines[k].id \in Nat
        BY <1>0, <3>4, <3>5, DoneTyped DEF Lines
      <4>2. ~(k < Done)
        BY <2>4, <3>4, <3>5, <4>1, NumbersAssumption
      <4>3. ~(Done < k)
        BY <2>4, <3>4, <3>5, <4>1, NumbersAssumption
      <4> QED
        BY <4>1, <4>2, <4>3
    <3>7. traj.first = Start[Done]
      BY <1>0, <2>1, <3>2, <3>3 DEF FirstLife
    <3> QED
      BY <2>1, <2>4, <3>4, <3>5, <3>6, <3>7
  <2> QED
    BY <2>2, <2>3, <2>4
<1>3. CASE ~Create /\ ~InsertRow /\ ~Ending
  <2>1. rows' = rows /\ mine' = mine /\ earlier.ids \subseteq earlier'.ids
    BY <1>3, LoadedSame
  <2> QED
    BY <1>0, <2>1 DEF RowsMatch
<1> QED
  BY <1>1, <1>2, <1>3

(* The allocator takes the smallest of the empty pages. *)
LEMMA TakenSmallest ==
  ASSUME TypeOK, EmptyBelow, NEW content, StoreNew(content)
  PROVE  /\ PageTaken \in Page /\ PageTaken \in Nat /\ nextPage \in Nat /\ nextPage' \in Nat
         /\ PageTaken \in emptyPages \/ PageTaken = nextPage
         /\ PageTaken < nextPage'
         /\ emptyPages' = emptyPages \ {PageTaken}
         /\ \A p \in emptyPages' : p \in Nat /\ PageTaken < p
<1>1. /\ PageTaken \in Page /\ PageTaken < nextPage'
      /\ emptyPages' = emptyPages \ {PageTaken}
  BY StoreNewPage
<1>2. Page \subseteq Nat /\ nextPage \in Nat /\ emptyPages \subseteq Page
  BY BoundsAssumption DEF Page, TypeOK
<1>3. nextPage' \in Nat
  BY <1>2 DEF StoreNew
<1>4. CASE emptyPages = {}
  <2>1. PageTaken = nextPage
    BY <1>4 DEF PageTaken
  <2> QED
    BY <1>1, <1>2, <1>3, <1>4, <2>1
<1>5. CASE emptyPages # {}
  <2>1. emptyPages \in SUBSET Nat
    BY <1>2
  <2>2. SmallestOf(emptyPages) \in emptyPages /\ \A y \in emptyPages : SmallestOf(emptyPages) <= y
    BY <1>5, <2>1, SmallestIsOf
  <2>3. PageTaken \in emptyPages /\ \A y \in emptyPages : PageTaken <= y
    BY <1>5, <2>2 DEF PageTaken
  <2>4. ASSUME NEW p \in emptyPages' PROVE p \in Nat /\ PageTaken < p
    <3>1. p \in emptyPages /\ p # PageTaken /\ p \in Nat
      BY <1>1, <1>2, <2>4
    <3>2. PageTaken <= p /\ PageTaken \in Nat
      BY <1>2, <2>3, <3>1
    <3> QED
      BY <3>1, <3>2
  <2> QED
    BY <1>1, <1>2, <1>3, <2>3, <2>4
<1> QED
  BY <1>4, <1>5

(* Cutting goes on at or after the page that loadTraj takes. *)
LEMMA ReachedStep ==
  ASSUME ReadInv, Inv', Next
  PROVE  Reached'
<1>0. /\ Inv /\ RestOfFile /\ Reached /\ EmptyBelow /\ TypeOK /\ bSubTraj \in BOOLEAN
      /\ bSubTraj' = bSubTraj
  BY NextKeeps DEF ReadInv, KeptInv, PageInv, Inv, TypeOK
<1>1. CASE CutPage
  <2>1. /\ traj # NoTraj /\ traj.rem > 0
        /\ StoreNew(PointsPage(traj.t, traj.cur, Smaller(traj.rem, Fp)))
    BY <1>1 DEF CutPage, Loading, ghostVars
  <2>2. traj \in TrajBegun /\ traj.n >= 2 /\ traj.n \in Nat
    BY <1>0, <2>1 DEF Inv, Types, TrajTyped, TrajBegun
  <2>3. /\ PageTaken \in Page /\ PageTaken \in Nat /\ nextPage \in Nat /\ nextPage' \in Nat
        /\ PageTaken \in emptyPages \/ PageTaken = nextPage
        /\ PageTaken < nextPage'
        /\ emptyPages' = emptyPages \ {PageTaken}
        /\ \A p \in emptyPages' : p \in Nat /\ PageTaken < p
    BY <1>0, <2>1, TakenSmallest
  <2>4. traj' = Cut(PageTaken) /\ traj'.n = traj.n
    <3>1. traj' = Cut(PageTaken)
      BY <1>1, <2>2, <2>3, CutPageTraj
    <3> QED
      BY <3>1 DEF Cut
  <2>5. /\ Left(traj.rem) \in Nat \ {0}
        /\ Left(traj'.rem) = Left(traj.rem) - 1
    <3>1. traj.rem \in Nat /\ (bSubTraj => traj.rem >= 2)
      BY <1>0, <2>1, <2>2 DEF TrajBegun, RestOfFile
    <3>2. traj'.rem = IF bSubTraj /\ traj.rem # Fp THEN traj.rem - Fp + 1 ELSE traj.rem - Fp
      BY <2>4 DEF Cut
    <3> QED
      BY <1>0, <2>1, <3>1, <3>2, CutLeft
  <2>6. Left(traj.rem)' = Left(traj'.rem) /\ Pages(traj.n)' = Pages(traj'.n)
    <3>1. Left(traj.rem)' = Left(traj'.rem)
      BY <1>0 DEF Left, Pages
    <3>2. Pages(traj.n)' = Pages(traj'.n)
      BY <1>0 DEF Pages
    <3> QED
      BY <3>1, <3>2
  <2>7. Pages(traj.n) \in Nat
    BY <1>0, <2>2, PagesReach
  <2>8. traj'.first + Pages(traj.n) - Left(traj'.rem) <= PageTaken + 1 /\ traj'.first \in Nat
    <3>1. CASE traj.first = -1
      <4>1. traj.rem = traj.n /\ traj'.first = PageTaken
        BY <1>0, <2>1, <2>4, <3>1 DEF Cut, Inv, Types, TrajTyped
      <4>2. Left(traj.rem) = Pages(traj.n)
        BY <2>1, <4>1 DEF Left
      <4> QED
        BY <2>3, <2>5, <2>7, <4>1, <4>2
    <3>2. CASE traj.first # -1
      <4>1. traj'.first = traj.first /\ traj.first \in Nat
        <5>1. traj.first \in Page \cup {-1}
          BY <2>2 DEF TrajBegun
        <5> QED
          BY <2>4, <3>2, <5>1, BoundsAssumption DEF Cut, Page
      <4>2. /\ traj.first + Pages(traj.n) - Left(traj.rem) <= nextPage
            /\ \A p \in emptyPages : traj.first + Pages(traj.n) - Left(traj.rem) <= p
        BY <1>0, <2>1, <3>2 DEF Reached
      <4>3. traj.first + Pages(traj.n) - Left(traj.rem) <= PageTaken
        BY <2>3, <4>2
      <4> QED
        BY <2>3, <2>5, <2>7, <4>1, <4>3
    <3> QED
      BY <3>1, <3>2
  <2>9. PICK reach \in Int : reach = traj'.first + Pages(traj.n) - Left(traj'.rem)
    BY <2>5, <2>7, <2>8
  <2>10. reach <= nextPage' /\ \A p \in emptyPages' : reach <= p
    <3>1. reach <= PageTaken + 1
      BY <2>8, <2>9
    <3> QED
      BY <2>3, <3>1
  <2>11. reach = traj'.first + Pages(traj.n)' - Left(traj.rem)'
    BY <2>4, <2>6, <2>9
  <2> QED
    BY <2>10, <2>11 DEF Reached
<1>2. CASE BeginTraj
  <2>1. traj' = Begun(Head(todo))
    BY <1>2 DEF BeginTraj
  <2>2. traj'.first = -1
    BY <2>1 DEF Begun
  <2> QED
    BY <2>2 DEF Reached
<1>3. CASE traj' = NoTraj
  BY <1>3 DEF Reached
<1>4. CASE DropTraj \/ InsertRow \/ Failing \/ EndLoad \/ Ending
  <2>1. CASE DropTraj
    BY <1>3, <2>1 DEF DropTraj, NextLine
  <2>2. CASE InsertRow
    BY <1>3, <2>2 DEF InsertRow
  <2>3. CASE EndLoad
    BY <1>3, <2>3 DEF EndLoad
  <2>4. CASE Ending
    BY <1>3, <2>4, EndingFacts
  <2>5. CASE Failing
    BY <1>3, <2>5, FailingFacts
  <2> QED
    BY <1>4, <2>1, <2>2, <2>3, <2>4, <2>5
<1>5. ASSUME pc \notin {"load", "append"}, traj' = traj
      PROVE  Reached'
  <2>1. traj = NoTraj
    BY <1>0, <1>5 DEF Inv, Types, TrajTyped
  <2> QED
    BY <1>3, <1>5, <2>1
<1>6. CASE Create \/ Open
  <2>1. pc \notin {"load", "append"} /\ traj' = traj
    BY <1>0, <1>6 DEF Create, Open, Inv
  <2> QED
    BY <1>5, <2>1
<1>7. ASSUME NEW file \in Appended, LoadFile(file)
      PROVE  Reached'
  <2>1. pc \notin {"load", "append"} /\ traj' = traj
    BY <1>7 DEF LoadFile
  <2> QED
    BY <1>5, <2>1
<1>8. CASE Flushing \/ Building
  <2>1. pc \notin {"load", "append"} /\ traj' = traj
    BY <1>8, FlushingFacts, BuildingFacts DEF ReadInv
  <2> QED
    BY <1>5, <2>1
<1> QED
  BY <1>1, <1>2, <1>4, <1>6, <1>7, <1>8, Steps

(* The number of pages of a trajectory stays. *)
LEMMA PagesSame == bSubTraj' = bSubTraj => \A n : Pages(n)' = Pages(n)
BY DEF Pages

(* A page that is stored was neither in use nor held points. *)
LEMMA StoreNewClean ==
  ASSUME Inv, EmptyBelow, Clean, NEW content, StoreNew(content)
  PROVE  Clean'
<1>0. TypeOK
  BY DEF Inv
<1>1. /\ nextPage \in Nat /\ nextPage' \in Nat
      /\ PageTaken \in Nat /\ PageTaken < nextPage'
      /\ emptyPages' = emptyPages \ {PageTaken}
  BY <1>0, TakenSmallest
<1>2. /\ nextPage <= nextPage'
      /\ \A p \in Page : p # PageTaken => dat'[p] = dat[p]
  BY <1>0, StoreNewPage
<1>3. Page \subseteq Nat /\ emptyPages \subseteq Page
  BY <1>0, BoundsAssumption DEF Page, TypeOK
<1>4. ASSUME NEW p \in emptyPages' PROVE dat'[p].kind = "node"
  <2>1. p \in emptyPages /\ p # PageTaken /\ p \in Page
    BY <1>1, <1>3
  <2> QED
    BY <1>2, <2>1 DEF Clean
<1>5. ASSUME NEW p \in Page, p >= nextPage' PROVE dat'[p].kind # "points"
  <2>1. p \in Nat /\ p >= nextPage /\ p # PageTaken
    BY <1>1, <1>2, <1>3, <1>5
  <2> QED
    BY <1>2, <2>1 DEF Clean
<1> QED
  BY <1>4, <1>5 DEF Clean, Page

(* It does not free a page of what is in use. *)
LEMMA StoreNewInUse ==
  ASSUME Inv, EmptyBelow, NEW content, StoreNew(content), bSubTraj' = bSubTraj
  PROVE  \A r : r.page \in Nat /\ Pages(r.n) \in Nat /\ InUse(r) => InUse(r)'
<1>0. TypeOK
  BY DEF Inv
<1>1. /\ nextPage \in Nat /\ nextPage' \in Nat
      /\ emptyPages' = emptyPages \ {PageTaken}
  BY <1>0, TakenSmallest
<1>2. /\ nextPage <= nextPage'
      /\ \A p \in Page : p # PageTaken => dat'[p] = dat[p]
  BY <1>0, StoreNewPage
<1>3. emptyPages \subseteq Page
  BY <1>0 DEF TypeOK
<1> SUFFICES ASSUME NEW r, r.page \in Nat, Pages(r.n) \in Nat, InUse(r)
             PROVE  InUse(r)'
  OBVIOUS
<1>4. Pages(r.n)' = Pages(r.n)
  BY PagesSame
<1>5. r.page + Pages(r.n) <= nextPage'
  BY <1>1, <1>2 DEF InUse
<1>6. ASSUME NEW p \in r.page .. r.page + Pages(r.n) - 1, p \in emptyPages'
      PROVE  dat'[p].kind = "node"
  <2>1. p \in emptyPages /\ p # PageTaken /\ p \in Page
    BY <1>1, <1>3, <1>6
  <2> QED
    BY <1>2, <2>1 DEF InUse
<1> QED
  BY <1>4, <1>5, <1>6 DEF InUse

(* What a row says. *)
LEMMA RowTyped ==
  ASSUME Inv
  PROVE  \A id \in DOMAIN rows : /\ rows[id].page \in Page /\ rows[id].page \in Nat
                                 /\ rows[id].n \in Nat /\ rows[id].n >= 2
                                 /\ Pages(rows[id].n) \in Nat \ {0}
                                 /\ id \in Int
<1> SUFFICES ASSUME NEW id \in DOMAIN rows
             PROVE  /\ rows[id].page \in Page /\ rows[id].page \in Nat
                    /\ rows[id].n \in Nat /\ rows[id].n >= 2
                    /\ Pages(rows[id].n) \in Nat \ {0}
                    /\ id \in Int
  OBVIOUS
<1>1. rows[id] \in [page : Page, n : Nat] /\ rows[id].n >= 2 /\ id \in Int /\ bSubTraj \in BOOLEAN
  BY DEF Inv, TypeOK, Types, RowsTyped
<1>2. rows[id].page \in Page /\ rows[id].n \in Nat
  BY <1>1
<1>3. rows[id].page \in Nat
  BY <1>2, BoundsAssumption DEF Page
<1> QED
  BY <1>1, <1>2, <1>3, PagesReach

(* What keeps the trajectories of a process its own. *)
LEMMA OwnKept ==
  ASSUME Inv, Own, rows' = rows, mine' = mine, pc' # "load",
         nextTraj' = nextTraj \/ nextTraj' = LastTrajId,
         \A r : r.page \in Nat /\ Pages(r.n) \in Nat /\ InUse(r) => InUse(r)'
  PROVE  Own'
<1>1. /\ LastTrajId \in Nat /\ nextTraj \in Int
      /\ nextTraj >= 0 => LastTrajId = nextTraj
      /\ nextTraj < 0 => \A i \in DOMAIN rows : i <= LastTrajId
  BY LastIs
<1>2. nextTraj >= 0 => \A i \in DOMAIN rows : i <= nextTraj
  BY DEF Own
<1>3. \A i \in DOMAIN rows : i <= LastTrajId
  BY <1>1, <1>2
<1>4. nextTraj' >= 0 => \A i \in DOMAIN rows : i <= nextTraj'
  <2>1. CASE nextTraj' = nextTraj
    BY <1>2, <2>1
  <2>2. CASE nextTraj' = LastTrajId
    BY <1>3, <2>2
  <2> QED
    BY <2>1, <2>2
<1>5. ASSUME NEW id \in DOMAIN mine PROVE OwnRow(id)' /\ InUse(rows[id])'
  <2>1. OwnRow(id) /\ InUse(rows[id]) /\ id \in DOMAIN rows
    BY DEF Own, OwnRow
  <2>2. OwnRow(id)'
    BY <2>1 DEF OwnRow
  <2>3. rows[id].page \in Nat /\ Pages(rows[id].n) \in Nat
    BY <2>1, RowTyped
  <2>4. PICK r : r = rows[id]
    OBVIOUS
  <2>5. InUse(r)'
    BY <2>1, <2>3, <2>4
  <2>6. r = rows'[id]
    BY <2>4
  <2>7. InUse(rows[id])'
    BY <2>5, <2>6 DEF InUse
  <2> QED
    BY <2>2, <2>7
<1> QED
  BY <1>4, <1>5 DEF Own

(* When no page is taken, freed or written, nothing changes. *)
LEMMA AllocatorSame ==
  ASSUME Inv, bSubTraj' = bSubTraj, nextPage' = nextPage, emptyPages' = emptyPages, dat' = dat
  PROVE  /\ Clean => Clean'
         /\ \A r : r.page \in Nat /\ Pages(r.n) \in Nat /\ InUse(r) => InUse(r)'
<1>1. Clean => Clean'
  BY DEF Clean, Page
<1>2. \A n : Pages(n)' = Pages(n)
  BY PagesSame
<1>3. \A r : InUse(r) => InUse(r)'
  BY <1>2 DEF InUse
<1> QED
  BY <1>1, <1>3

(* A build frees nodes only and takes no page in use. *)
LEMMA BuildingOwn ==
  ASSUME ReadInv, Building
  PROVE  /\ Clean => Clean'
         /\ \A r : r.page \in Nat /\ Pages(r.n) \in Nat /\ InUse(r) => InUse(r)'
<1>0. /\ Inv /\ EmptyBelow /\ BuildPages /\ bSubTraj' = bSubTraj
      /\ \A n : Pages(n)' = Pages(n)
  BY BuildingFacts, PagesSame DEF ReadInv, KeptInv, PageInv
<1>1. ASSUME NEW content, StoreNew(content)
      PROVE  /\ Clean => Clean'
             /\ \A r : r.page \in Nat /\ Pages(r.n) \in Nat /\ InUse(r) => InUse(r)'
  BY <1>0, <1>1, StoreNewClean, StoreNewInUse
<1>2. ASSUME NEW name \in Names, NewTree(name)
      PROVE  /\ Clean => Clean'
             /\ \A r : r.page \in Nat /\ Pages(r.n) \in Nat /\ InUse(r) => InUse(r)'
  <2>1. StoreNew(NodePage(name, 0))
    BY <1>2 DEF NewTree
  <2> QED
    BY <1>1, <2>1
<1>3. CASE NewHeader
  <2>1. StoreNew(HeaderPage(tree.name, tree.root))
    BY <1>3 DEF NewHeader
  <2> QED
    BY <1>1, <2>1
<1>4. CASE BulkNode
  <2>1. StoreNew(NodePage(tree.name, tree.nodes + 1))
    BY <1>4 DEF BulkNode
  <2> QED
    BY <1>1, <2>1
<1>5. CASE BeginBulk
  <2>1. /\ emptyPages' = emptyPages \cup {tree.root} /\ nextPage' = nextPage /\ dat' = dat
        /\ dat[tree.root].kind = "node"
    BY <1>0, <1>5 DEF BeginBulk, BuildPages
  <2>2. Clean => Clean'
    BY <2>1 DEF Clean, Page
  <2>3. \A r : InUse(r) => InUse(r)'
    BY <1>0, <2>1 DEF InUse
  <2> QED
    BY <2>2, <2>3
<1>6. CASE EndBulk
  <2>1. /\ emptyPages' = emptyPages /\ nextPage' = nextPage
        /\ dat' = [dat EXCEPT ![tree.header] = HeaderPage(tree.name, tree.root)]
        /\ tree.header \notin emptyPages
        /\ DOMAIN dat = Page /\ emptyPages \subseteq Page
    BY <1>0, <1>6 DEF EndBulk, BuildPages, Inv, TypeOK
  <2>2. \A p \in Page : p # tree.header => dat'[p] = dat[p]
    BY <2>1
  <2>3. tree.header \in Page => dat'[tree.header].kind = "header"
    BY <2>1 DEF HeaderPage
  <2>4. Clean => Clean'
    BY <2>1, <2>2, <2>3 DEF Clean, Page
  <2>5. \A r : InUse(r) => InUse(r)'
    BY <1>0, <2>1, <2>2 DEF InUse
  <2> QED
    BY <2>4, <2>5
<1>7. CASE BulkThrows
  <2>1. nextPage' = nextPage /\ emptyPages' = emptyPages /\ dat' = dat
    BY <1>7 DEF BulkThrows, diskVars
  <2> QED
    BY <1>0, <2>1, AllocatorSame
<1> QED
  BY <1>2, <1>3, <1>4, <1>5, <1>6, <1>7 DEF Building

(* What a trajectory that is given its row in an opened store is read from. *)
LEMMA InsertedOwn ==
  ASSUME ReadInv, InsertRow, Own
  PROVE  Own'
<1>0. Inv /\ NewIds /\ Reached /\ bSubTraj \in BOOLEAN /\ bSubTraj' = bSubTraj
  BY InsertFacts DEF ReadInv, KeptInv, PageInv, Inv, TypeOK
<1>1. /\ traj # NoTraj /\ pc \in {"load", "append"} /\ pc' = pc
      /\ traj \in TrajBegun /\ traj.n \in Nat /\ traj.n >= 2
      /\ traj.rem \in Int /\ traj.rem <= 0 /\ traj.first # -1 /\ traj.first \in Page
      /\ nextTraj \in Int /\ nextTraj < traj.id /\ traj.id \in Nat
      /\ nextTraj' = traj.id
      /\ DOMAIN rows' = DOMAIN rows \cup {traj.id}
      /\ \A id \in DOMAIN rows : rows'[id] = rows[id]
      /\ traj.id \notin DOMAIN rows => rows'[traj.id] = [page |-> traj.first, n |-> traj.n]
      /\ DOMAIN mine' = DOMAIN mine \cup {traj.id}
      /\ \A id \in DOMAIN mine : id # traj.id => mine'[id] = mine[id]
      /\ mine'[traj.id] = [t |-> traj.t, n |-> traj.n, page |-> traj.first]
  BY InsertFacts
<1>2. nextPage' = nextPage /\ emptyPages' = emptyPages /\ dat' = dat
  BY InsertFacts DEF diskVars
<1>3. pc = "append" /\ pc' # "load" /\ nextTraj >= 0
  BY <1>0, <1>1 DEF Own, NewIds
<1>4. \A i \in DOMAIN rows : i \in Int /\ i <= nextTraj
  BY <1>0, <1>3, RowTyped DEF Own
<1>5. traj.id \notin DOMAIN rows
  BY <1>1, <1>4
<1>6. \A i \in DOMAIN rows' : i <= nextTraj'
  BY <1>1, <1>4
<1>7. \A n : Pages(n)' = Pages(n)
  BY <1>0, PagesSame
<1>8. \A r : InUse(r) => InUse(r)'
  BY <1>2, <1>7 DEF InUse
<1>9. InUse([page |-> traj.first, n |-> traj.n])
  <2>1. Left(traj.rem) = 0
    BY <1>1 DEF Left
  <2>2. Pages(traj.n) \in Nat /\ traj.first \in Nat
    BY <1>0, <1>1, PagesReach, BoundsAssumption DEF Page
  <2>3. /\ traj.first + Pages(traj.n) - Left(traj.rem) <= nextPage
        /\ \A p \in emptyPages : traj.first + Pages(traj.n) - Left(traj.rem) <= p
    BY <1>0, <1>1 DEF Reached
  <2>4. traj.first + Pages(traj.n) - Left(traj.rem) = traj.first + Pages(traj.n)
    BY <2>1, <2>2
  <2>5. \A p \in traj.first .. traj.first + Pages(traj.n) - 1 : p \notin emptyPages
    BY <2>2, <2>3, <2>4
  <2> QED
    BY <2>3, <2>4, <2>5 DEF InUse
<1>10. ASSUME NEW id \in DOMAIN mine' PROVE OwnRow(id)' /\ InUse(rows[id])'
  <2>1. CASE id = traj.id
    <3>1. rows'[id] = [page |-> traj.first, n |-> traj.n]
      BY <1>1, <1>5, <2>1
    <3>2. OwnRow(id)'
      BY <1>1, <2>1, <3>1 DEF OwnRow
    <3>3. PICK r : r = [page |-> traj.first, n |-> traj.n]
      OBVIOUS
    <3>4. InUse(r)'
      BY <1>8, <1>9, <3>3
    <3>5. r = rows'[id]
      BY <3>1, <3>3
    <3>6. InUse(rows[id])'
      BY <3>4, <3>5 DEF InUse
    <3> QED
      BY <3>2, <3>6
  <2>2. CASE id # traj.id
    <3>1. id \in DOMAIN mine /\ OwnRow(id) /\ InUse(rows[id]) /\ id \in DOMAIN rows
      BY <1>1, <2>2 DEF Own, OwnRow
    <3>2. OwnRow(id)'
      BY <1>1, <2>2, <3>1 DEF OwnRow
    <3>3. PICK r : r = rows[id]
      OBVIOUS
    <3>4. InUse(r)'
      BY <1>8, <3>1, <3>3
    <3>5. r = rows'[id]
      BY <1>1, <3>1, <3>3
    <3>6. InUse(rows[id])'
      BY <3>4, <3>5 DEF InUse
    <3> QED
      BY <3>2, <3>6
  <2> QED
    BY <2>1, <2>2
<1> QED
  BY <1>3, <1>6, <1>10 DEF Own

(* A process has created the store or loads beyond what it found. *)
LEMMA OwnStep ==
  ASSUME ReadInv, Inv', Next
  PROVE  open' => Clean' \/ Own'
<1>0. /\ Inv /\ RestOfFile /\ NewIds /\ EmptyBelow /\ (open => Clean \/ Own)
      /\ (~open => mine = Empty) /\ bSubTraj' = bSubTraj
  BY NextKeeps DEF ReadInv, KeptInv, PageInv
<1>1. CASE Create
  <2>1. emptyPages' = {} /\ dat' = [p \in Page |-> Blank]
    BY <1>1 DEF Create
  <2>2. \A p \in Page : dat'[p].kind # "points"
    BY <2>1 DEF Blank
  <2> QED
    BY <2>1, <2>2 DEF Clean, Page
<1>2. CASE Open
  <2>1. /\ ~open /\ pc' = "idle" /\ nextTraj' = nextTraj /\ mine' = mine
    BY <1>0, <1>2 DEF Open, ghostVars, Inv
  <2>2. nextTraj' = -1 /\ mine' = Empty
    BY <1>0, <2>1 DEF NewIds
  <2> QED
    BY <2>1, <2>2, EmptyDomain DEF Own
<1>3. ASSUME open, Clean => Clean', rows' = rows, mine' = mine, pc' # "load" \/ pc' = pc,
             nextTraj' = nextTraj \/ (pc # "load" /\ nextTraj' = LastTrajId),
             \A r : r.page \in Nat /\ Pages(r.n) \in Nat /\ InUse(r) => InUse(r)'
      PROVE  Clean' \/ Own'
  <2>1. CASE Clean
    BY <1>3, <2>1
  <2>2. CASE Own
    <3>1. pc' # "load" /\ (nextTraj' = nextTraj \/ nextTraj' = LastTrajId)
      BY <1>3, <2>2 DEF Own
    <3>2. Own'
      BY <1>0, <1>3, <2>2, <3>1, OwnKept
    <3> QED
      BY <3>2
  <2> QED
    BY <1>0, <1>3, <2>1, <2>2
<1>4. ASSUME open, nextPage' = nextPage, emptyPages' = emptyPages, dat' = dat,
             rows' = rows, mine' = mine, pc' # "load" \/ pc' = pc,
             nextTraj' = nextTraj \/ (pc # "load" /\ nextTraj' = LastTrajId)
      PROVE  Clean' \/ Own'
  <2>1. /\ Clean => Clean'
        /\ \A r : r.page \in Nat /\ Pages(r.n) \in Nat /\ InUse(r) => InUse(r)'
    BY <1>0, <1>4, AllocatorSame
  <2> QED
    BY <1>3, <1>4, <2>1, Zenon
<1>5. ASSUME NEW file \in Appended, LoadFile(file)
      PROVE  Clean' \/ Own'
  <2>1. /\ open /\ nextPage' = nextPage /\ emptyPages' = emptyPages /\ dat' = dat
        /\ rows' = rows /\ mine' = mine /\ pc' # "load" /\ nextTraj' = nextTraj
    BY <1>5 DEF LoadFile, ghostVars, diskVars
  <2> QED
    BY <1>4, <2>1
<1>6. CASE BeginTraj \/ DropTraj
  <2>1. NextLine
    BY <1>6, Zenon DEF BeginTraj, DropTraj
  <2>2. /\ open /\ nextPage' = nextPage /\ emptyPages' = emptyPages /\ dat' = dat
        /\ rows' = rows /\ mine' = mine /\ pc' = pc /\ pc \in {"load", "append"}
    BY <2>1 DEF NextLine, Loading, ghostVars, diskVars
  <2>3. nextTraj' = nextTraj \/ (pc # "load" /\ nextTraj' = LastTrajId)
    BY <1>0, <2>1, <2>2, LineTaken, LineAppended
  <2> QED
    BY <1>4, <2>2, <2>3
<1>7. CASE CutPage
  <2>1. /\ open /\ StoreNew(PointsPage(traj.t, traj.cur, Smaller(traj.rem, Fp)))
        /\ rows' = rows /\ mine' = mine /\ pc' = pc /\ nextTraj' = nextTraj
    BY <1>7 DEF CutPage, Loading, ghostVars
  <2>2. Clean => Clean'
    BY <1>0, <2>1, StoreNewClean
  <2>3. \A r : r.page \in Nat /\ Pages(r.n) \in Nat /\ InUse(r) => InUse(r)'
    BY <1>0, <2>1, StoreNewInUse
  <2> QED
    BY <1>3, <2>1, <2>2, <2>3, Zenon
<1>8. CASE InsertRow
  <2>1. open /\ nextPage' = nextPage /\ emptyPages' = emptyPages /\ dat' = dat
    BY <1>8 DEF InsertRow, Loading, diskVars
  <2>2. CASE Clean
    BY <1>0, <2>1, <2>2, AllocatorSame
  <2>3. CASE Own
    BY <1>8, <2>3, InsertedOwn
  <2> QED
    BY <1>0, <2>1, <2>2, <2>3
<1>9. CASE EndLoad
  <2>1. /\ open /\ nextPage' = nextPage /\ emptyPages' = emptyPages /\ dat' = dat
        /\ rows' = rows /\ mine' = mine /\ pc' # "load" /\ nextTraj' = nextTraj
    BY <1>9 DEF EndLoad, Loading, ghostVars, diskVars
  <2> QED
    BY <1>4, <2>1
<1>10. CASE Flushing
  <2>1. /\ open /\ nextPage' = nextPage /\ emptyPages' = emptyPages /\ dat' = dat
        /\ rows' = rows /\ mine' = mine /\ pc' # "load" /\ nextTraj' = nextTraj
    BY <1>10, FlushingFacts DEF ReadInv
  <2> QED
    BY <1>4, <2>1
<1>11. CASE Building
  <2>1. /\ open /\ rows' = rows /\ mine' = mine /\ pc' # "load" /\ pc # "load"
        /\ nextTraj' = nextTraj \/ nextTraj' = LastTrajId
    BY <1>11, BuildingFacts
  <2>2. /\ Clean => Clean'
        /\ \A r : r.page \in Nat /\ Pages(r.n) \in Nat /\ InUse(r) => InUse(r)'
    BY <1>11, BuildingOwn
  <2>3. nextTraj' = nextTraj \/ (pc # "load" /\ nextTraj' = LastTrajId)
    BY <2>1
  <2> QED
    BY <1>3, <2>1, <2>2, <2>3, Zenon
<1>12. CASE Ending
  BY <1>12, EndingFacts
<1>13. CASE Failing
  <2>1. /\ open /\ open' = open /\ pc \in {"load", "append"} /\ pc' = pc
        /\ rows' = rows /\ mine' = mine
        /\ \/ dat' = dat /\ nextPage' = nextPage /\ emptyPages' = emptyPages
           \/ StoreNew(Blank)
    BY <1>13, FailingFacts
  <2>2. /\ Clean => Clean'
        /\ \A r : r.page \in Nat /\ Pages(r.n) \in Nat /\ InUse(r) => InUse(r)'
    <3>1. CASE dat' = dat /\ nextPage' = nextPage /\ emptyPages' = emptyPages
      BY <1>0, <3>1, AllocatorSame
    <3>2. CASE StoreNew(Blank)
      BY <1>0, <3>2, StoreNewClean, StoreNewInUse
    <3> QED
      BY <2>1, <3>1, <3>2
  <2>3. CASE ~InsertFails
    <3>1. nextTraj' = nextTraj \/ (pc # "load" /\ nextTraj' = LastTrajId)
      BY <1>0, <1>13, <2>3, FailingLast
    <3> QED
      BY <1>3, <2>1, <2>2, <3>1, Zenon
  <2>4. CASE InsertFails /\ Own
    <3>1. pc = "append" /\ nextTraj' = traj.id /\ traj # NoTraj
      BY <2>1, <2>4 DEF InsertFails, Own
    <3>2. nextTraj >= 0 /\ traj.id = nextTraj + 1
      BY <1>0, <3>1 DEF NewIds
    <3>3. \A i \in DOMAIN rows : i \in Int /\ i <= nextTraj
      BY <1>0, <2>4, <3>2, RowTyped DEF Own
    <3>4. nextTraj \in Int
      BY <1>0, LastIs
    <3>5. \A i \in DOMAIN rows' : i <= nextTraj'
      BY <2>1, <3>1, <3>2, <3>3, <3>4
    <3>6. ASSUME NEW id \in DOMAIN mine PROVE OwnRow(id)' /\ InUse(rows[id])'
      <4>1. OwnRow(id) /\ InUse(rows[id]) /\ id \in DOMAIN rows
        BY <2>4 DEF Own, OwnRow
      <4>2. OwnRow(id)'
        BY <2>1, <4>1 DEF OwnRow
      <4>3. rows[id].page \in Nat /\ Pages(rows[id].n) \in Nat
        BY <1>0, <4>1, RowTyped
      <4>4. PICK r : r = rows[id]
        OBVIOUS
      <4>5. InUse(r)'
        BY <2>2, <4>1, <4>3, <4>4
      <4>6. r = rows'[id]
        BY <2>1, <4>4
      <4>7. InUse(rows[id])'
        BY <4>5, <4>6 DEF InUse
      <4> QED
        BY <4>2, <4>7
    <3> QED
      BY <2>1, <3>1, <3>5, <3>6 DEF Own
  <2>5. CASE InsertFails /\ Clean
    BY <2>2, <2>5
  <2> QED
    BY <1>0, <2>1, <2>3, <2>4, <2>5
<1> QED
  BY <1>1, <1>2, <1>5, <1>6, <1>7, <1>8, <1>9, <1>10, <1>11, <1>12, <1>13, Steps

(* What loadTraj returns, in any state. *)
IntervalsSpan ==
  \A r : r.page \in Nat /\ r.n \in Nat =>
    \A se \in Sound(r.n) :
      /\ LoadTraj(r, se[1], se[2]) = Span(r.page, se[1], se[2], se[2])
      /\ se[1] \in Nat /\ se[2] \in Nat /\ se[1] < se[2] /\ se[2] < r.n

(* So it is now, *)
LEMMA SpanNow == bSubTraj \in BOOLEAN => IntervalsSpan
BY IntervalRead DEF IntervalsSpan

(* and after any step. *)
LEMMA SpanThen == (bSubTraj \in BOOLEAN => IntervalsSpan)'
BY SpanNow, PTL

(* A page that stays shows the points it did. *)
LEMMA PointStays ==
  ASSUME NEW p, dat'[p] = dat[p]
  PROVE  \A slot : PointAt(p, slot)' = PointAt(p, slot)
BY DEF PointAt, Page

(* An interval reads the same while the pages of its trajectory stay. *)
LEMMA SpanStays ==
  ASSUME bSubTraj \in BOOLEAN, bSubTraj' = bSubTraj, NEW page \in Nat, NEW n \in Nat, n >= 2,
         \A p \in page .. page + Pages(n) - 1 : dat'[p] = dat[p]
  PROVE  \A s, e \in Nat : s < e /\ e < n => Span(page, s, e, e)' = Span(page, s, e, e)
<1> SUFFICES ASSUME NEW s \in Nat, NEW e \in Nat, s < e, e < n
             PROVE  Span(page, s, e, e)' = Span(page, s, e, e)
  OBVIOUS
<1>1. ASSUME NEW k \in 1 .. e - s + 1
      PROVE  ReadPoint(page, s + k - 1, e)' = ReadPoint(page, s + k - 1, e)
  <2>1. PICK j \in Nat : j = s + k - 1 /\ j <= e
    BY <1>1
  <2>2. PageOf(j, e)' = PageOf(j, e) /\ Stride' = Stride
    BY DEF PageOf, Stride
  <2>3. Pages(n) \in Nat \ {0} /\ n <= (Pages(n) - 1) * Stride + Fp /\ Pages(n) - 1 \in Int
    BY PagesReach
  <2>4. PageOf(j, e) \in Nat /\ PageOf(j, e) <= Pages(n) - 1
    <3>1. PageOf(j, e) \in Nat
      BY <2>1, PageLookedOn
    <3>2. PageOf(j, e) <= Pages(n) - 1
      BY <2>1, <2>3, LookedOnBefore
    <3> QED
      BY <3>1, <3>2
  <2>5. PICK p \in page .. page + Pages(n) - 1 : p = page + PageOf(j, e)
    BY <2>3, <2>4
  <2>6. \A slot : PointAt(p, slot)' = PointAt(p, slot)
    BY <2>5, PointStays
  <2>7. PICK slot : slot = j - PageOf(j, e) * Stride
    OBVIOUS
  <2>8. ReadPoint(page, j, e) = PointAt(p, slot)
    BY <2>5, <2>7 DEF ReadPoint
  <2>9. ReadPoint(page, j, e)' = PointAt(p, slot)'
    BY <2>2, <2>5, <2>7 DEF ReadPoint
  <2> QED
    BY <2>1, <2>6, <2>8, <2>9
<1> QED
  BY <1>1 DEF Span

(* The pages that a trajectory reads back from hold points. *)
LEMMA ReadHolds ==
  ASSUME Inv, NEW id, NEW x, ReadsSound(id, x)
  PROVE  \A p \in rows[id].page .. rows[id].page + Pages(rows[id].n) - 1 :
           p \in Page /\ dat[p].kind = "points"
<1>1. PICK r : r = rows[id]
  OBVIOUS
<1>2. /\ r.page \in Nat /\ r.n \in Nat /\ r.n >= 2 /\ Pages(r.n) \in Nat \ {0}
      /\ r.n = x.n /\ bSubTraj \in BOOLEAN
  <2>1. id \in DOMAIN rows /\ rows[id].n = x.n
    BY DEF ReadsSound
  <2> QED
    BY <1>1, <2>1, RowTyped DEF Inv, TypeOK
<1>3. /\ Stride \in Nat \ {0} /\ Fp \in Nat /\ Fp >= 2
      /\ bSubTraj => Stride = Fp - 1
      /\ ~bSubTraj => Stride = Fp
  BY <1>2, StrideTyped
<1>4. PICK n \in Nat : n = r.n /\ n >= 2 /\ n = x.n
  BY <1>2
<1>5. <<0, n - 1>> \in Sound(n)
  <2>1. 0 \in 0 .. n - 1 /\ n - 1 \in 0 .. n - 1 /\ 0 < n - 1
    BY <1>4
  <2>2. (0 + 1) % Fp # 0
    BY <1>3
  <2> QED
    BY <2>1, <2>2 DEF Sound, Intervals, Misread
<1>6. Span(r.page, 0, n - 1, n - 1) = Slice(x.t, 0, n - 1)
  <2>1. LoadTraj(r, 0, n - 1) = Slice(x.t, 0, n - 1)
    BY <1>1, <1>4, <1>5 DEF ReadsSound
  <2>2. LoadTraj(r, 0, n - 1) = Span(r.page, 0, n - 1, n - 1)
    BY <1>2, <1>4, <1>5, IntervalRead
  <2> QED
    BY <2>1, <2>2
<1> SUFFICES ASSUME NEW p \in r.page .. r.page + Pages(r.n) - 1
             PROVE  p \in Page /\ dat[p].kind = "points"
  BY <1>1
<1>7. PICK c \in Nat : c = Pages(n)
  BY <1>2, <1>4
<1>8. PICK q \in Nat : p = r.page + q /\ q <= c - 1
  <2>1. p \in Int /\ r.page <= p /\ p <= r.page + c - 1
    BY <1>2, <1>4, <1>7
  <2>2. p - r.page \in Nat /\ p - r.page <= c - 1 /\ p = r.page + (p - r.page)
    BY <1>2, <2>1
  <2> QED
    BY <2>2
<1>9. PICK j \in Nat : j = q * Stride
  BY <1>3
<1>10. j < n /\ (bSubTraj => j < n - 1) /\ j < q * Stride + Stride
  <2>1. (c - 1) * Stride + Fp < n + Stride
    BY <1>2, <1>4, <1>7, PagesReach
  <2>2. q * Stride <= (c - 1) * Stride
    <3>1. PICK d \in Nat : c - 1 = q + d
      <4>1. c - 1 - q \in Nat /\ c - 1 = q + (c - 1 - q)
        BY <1>7, <1>8
      <4> QED
        BY <4>1
    <3>2. (q + d) * Stride = q * Stride + d * Stride /\ d * Stride \in Nat /\ q * Stride \in Nat
      BY <1>3
    <3> QED
      BY <3>1, <3>2
  <2>3. (c - 1) * Stride \in Int
    BY <1>3, <1>7
  <2> QED
    BY <1>3, <1>9, <2>1, <2>2, <2>3
<1>11. PageOf(j, n - 1) = q
  <2>1. j \div Stride = q
    BY <1>3, <1>9, <1>10, QuotientIs
  <2>2. ~(bSubTraj /\ j = n - 1)
    BY <1>4, <1>9, <1>10
  <2> QED
    BY <2>1, <2>2 DEF PageOf
<1>12. ReadPoint(r.page, j, n - 1) = [t |-> x.t, i |-> j]
  <2>1. j + 1 \in 1 .. (n - 1) - 0 + 1 /\ 0 + (j + 1) - 1 = j
    BY <1>4, <1>9, <1>10
  <2>2. Span(r.page, 0, n - 1, n - 1)[j + 1] = ReadPoint(r.page, j, n - 1)
    BY <2>1 DEF Span
  <2>3. Slice(x.t, 0, n - 1)[j + 1] = [t |-> x.t, i |-> j]
    BY <2>1 DEF Slice
  <2> QED
    BY <1>6, <2>2, <2>3
<1>13. \E slot : PointAt(p, slot) = [t |-> x.t, i |-> j]
  BY <1>8, <1>11, <1>12 DEF ReadPoint
<1>14. [t |-> x.t, i |-> j] # Junk
  <2>1. [t |-> x.t, i |-> j].i = j /\ Junk.i = -1 /\ j # -1
    BY <1>9 DEF Junk
  <2> QED
    BY <2>1
<1> QED
  BY <1>13, <1>14 DEF PointAt

(* What reads back from saved pages still does when they and the rows stay. *)
LEMMA SavedReadStays ==
  ASSUME Inv, Inv', bSubTraj' = bSubTraj,
         \A i \in DOMAIN rows : i \in DOMAIN rows' /\ rows'[i] = rows[i],
         \A p \in SavedPage : dat[p].kind = "points" => dat'[p] = dat[p] /\ p \in SavedPage'
  PROVE  \A id, x : SavedRead(id, x) => SavedRead(id, x)'
<1> SUFFICES ASSUME NEW id, NEW x, SavedRead(id, x)
             PROVE  SavedRead(id, x)'
  OBVIOUS
<1>1. PICK r : r = rows[id]
  OBVIOUS
<1>2. /\ id \in DOMAIN rows /\ id \in DOMAIN rows' /\ r = rows'[id] /\ r.n = x.n
      /\ r.page \in Nat /\ r.n \in Nat /\ r.n >= 2 /\ Pages(r.n) \in Nat \ {0}
      /\ bSubTraj \in BOOLEAN /\ Pages(r.n)' = Pages(r.n)
  <2>1. id \in DOMAIN rows /\ r.n = x.n
    BY <1>1 DEF SavedRead, ReadsSound
  <2> QED
    BY <1>1, <2>1, RowTyped, PagesSame DEF Inv, TypeOK
<1>3. \A p \in r.page .. r.page + Pages(r.n) - 1 :
        p \in SavedPage /\ dat[p].kind = "points" /\ dat'[p] = dat[p] /\ p \in SavedPage'
  BY <1>1 DEF SavedRead
<1>4. Sound(x.n)' = Sound(x.n)
  BY DEF Sound, Intervals, Misread
<1>5. ASSUME NEW se \in Sound(x.n)
      PROVE  LoadTraj(r, se[1], se[2])' = Slice(x.t, se[1], se[2])
  <2>1. /\ LoadTraj(r, se[1], se[2]) = Slice(x.t, se[1], se[2])
        /\ se \in Sound(r.n) /\ se \in Sound(r.n)'
    BY <1>1, <1>2, <1>4, <1>5 DEF SavedRead, ReadsSound
  <2>2. /\ LoadTraj(r, se[1], se[2]) = Span(r.page, se[1], se[2], se[2])
        /\ se[1] \in Nat /\ se[2] \in Nat /\ se[1] < se[2] /\ se[2] < r.n
    BY <1>2, <2>1, SpanNow DEF IntervalsSpan
  <2>3. LoadTraj(r, se[1], se[2])' = Span(r.page, se[1], se[2], se[2])'
    <3>1. IntervalsSpan'
      BY <1>2, SpanThen
    <3> QED
      BY <1>2, <2>1, <3>1 DEF IntervalsSpan
  <2>4. PICK page \in Nat, n \in Nat : page = r.page /\ n = r.n
    BY <1>2
  <2>5. Span(page, se[1], se[2], se[2])' = Span(page, se[1], se[2], se[2])
    <3>1. \A p \in page .. page + Pages(n) - 1 : dat'[p] = dat[p]
      BY <1>3, <2>4
    <3> QED
      BY <1>2, <2>2, <2>4, <3>1, SpanStays
  <2> QED
    BY <2>1, <2>2, <2>3, <2>4, <2>5
<1>6. ReadsSound(id, x)'
  BY <1>2, <1>4, <1>5 DEF ReadsSound
<1>7. \A p \in r.page .. r.page + Pages(r.n)' - 1 : p \in SavedPage' /\ dat'[p].kind = "points"
  BY <1>2, <1>3
<1> QED
  BY <1>2, <1>6, <1>7 DEF SavedRead

(* A row in the catalog stays what it is. *)
LEMMA RowsKept ==
  ASSUME ReadInv, Next
  PROVE  \A i \in DOMAIN rows : i \in DOMAIN rows' /\ rows'[i] = rows[i]
<1>1. CASE Create
  BY <1>1 DEF Create
<1>2. CASE InsertRow
  BY <1>2, InsertFacts
<1>3. CASE Ending
  BY <1>3, EndingFacts
<1>4. CASE ~Create /\ ~InsertRow /\ ~Ending
  BY <1>4, LoadedSame
<1> QED
  BY <1>1, <1>2, <1>3, <1>4

(* A flush or a close saves the allocator, nothing else does. *)
LEMMA HeaderOrSame ==
  ASSUME Next, ~Create
  PROVE  idx' = idx \/ (open /\ idx' = Header)
<1>1. CASE Building
  BY <1>1, BuildingFacts
<1>2. CASE Flushing
  BY <1>2 DEF Flushing, FlushDisk, TruncateProperty, WriteProperty, diskVars
<1>3. CASE Ending
  BY <1>3 DEF Ending, Close, Crash
<1>4. ASSUME NEW file \in Appended, LoadFile(file)
      PROVE  idx' = idx
  BY <1>4 DEF LoadFile, diskVars
<1>5. CASE Open \/ EndLoad \/ CutPage \/ InsertRow
  BY <1>5 DEF Open, EndLoad, CutPage, InsertRow, StoreNew, diskVars
<1>6. CASE BeginTraj \/ DropTraj
  BY <1>6 DEF BeginTraj, DropTraj, NextLine, diskVars
<1>7. CASE Failing
  BY <1>7, FailingFacts
<1> QED
  BY <1>1, <1>2, <1>3, <1>4, <1>5, <1>6, <1>7, Steps

(* A saved page of points stays, and stays saved. *)
LEMMA SavedPageKept ==
  ASSUME PageInv, Next, ~Create, idx.saved
  PROVE  \A p \in SavedPage : dat[p].kind = "points" => dat'[p] = dat[p] /\ p \in SavedPage'
<1>1. SavedPointsStay
  BY PageStep
<1>2. idx' = idx \/ (open /\ idx' = Header)
  BY HeaderOrSame
<1>3. idx'.saved
  BY <1>2 DEF Header
<1> SUFFICES ASSUME NEW p \in SavedPage, dat[p].kind = "points"
             PROVE  dat'[p] = dat[p] /\ p \in SavedPage'
  OBVIOUS
<1>4. dat'[p] = dat[p]
  BY <1>1, <1>3 DEF SavedPointsStay
<1>5. CASE idx' = idx
  BY <1>4, <1>5 DEF SavedPage
<1>6. CASE open /\ idx' = Header
  <2>1. /\ idx'.next = nextPage /\ idx'.empty = emptyPages
        /\ idx.next \in Nat /\ nextPage \in Nat /\ idx.next <= nextPage
        /\ p \in 0 .. idx.next - 1 /\ p \notin idx.empty
    BY <1>6 DEF Header, PageInv, SavedBelow, Inv, TypeOK, SavedPage
  <2>2. p \in Int /\ ~(p >= idx.next) /\ p \in 0 .. nextPage - 1
    BY <2>1
  <2>3. p \notin emptyPages
    BY <1>6, <2>1, <2>2 DEF PageInv, SavedBelow
  <2> QED
    BY <1>4, <2>1, <2>2, <2>3 DEF SavedPage
<1> QED
  BY <1>2, <1>5, <1>6

(* What is committed by a flush is committed on pages of that flush. *)
LEMMA CommittedAnew ==
  ASSUME ReadInv, WriteProperty
  PROVE  \A id \in DOMAIN mine : ReadsBack(id, mine[id]) => SavedRead(id, mine[id])
<1>0. /\ Inv /\ (Clean \/ Own) /\ idx.next = nextPage /\ idx.empty = emptyPages
      /\ emptyPages \subseteq Page /\ nextPage \in Nat /\ Page \subseteq Nat
  <2>1. /\ Inv /\ (open => Clean \/ Own)
        /\ pc \in {"truncate", "write"} => idx.next = nextPage /\ idx.empty = emptyPages
    BY DEF ReadInv, KeptInv, PageInv
  <2>2. open /\ pc = "write"
    BY DEF WriteProperty
  <2> QED
    BY <2>1, <2>2, BoundsAssumption DEF Inv, TypeOK, Page
<1> SUFFICES ASSUME NEW id \in DOMAIN mine, ReadsBack(id, mine[id])
             PROVE  SavedRead(id, mine[id])
  OBVIOUS
<1>1. PICK x : x = mine[id]
  OBVIOUS
<1>2. \A p \in rows[id].page .. rows[id].page + Pages(rows[id].n) - 1 :
        p \in Page /\ dat[p].kind = "points"
  <2>1. ReadsSound(id, x)
    BY <1>1, ReadsSoundly
  <2> QED
    BY <1>0, <2>1, ReadHolds
<1>3. ASSUME NEW p \in rows[id].page .. rows[id].page + Pages(rows[id].n) - 1
      PROVE  p < nextPage /\ p \notin emptyPages
  <2>1. p \in Page /\ p \in Nat /\ dat[p].kind = "points"
    BY <1>0, <1>2
  <2>2. CASE Clean
    BY <1>0, <2>1, <2>2 DEF Clean
  <2>3. CASE Own
    <3>1. InUse(rows[id]) /\ id \in DOMAIN rows
      BY <2>3 DEF Own, OwnRow
    <3>2. rows[id].page \in Nat /\ Pages(rows[id].n) \in Nat
      BY <1>0, <3>1, RowTyped
    <3>3. rows[id].page + Pages(rows[id].n) <= nextPage
      BY <3>1 DEF InUse
    <3>4. p <= rows[id].page + Pages(rows[id].n) - 1
      BY <1>3, <3>2
    <3>5. p < nextPage
      BY <1>0, <2>1, <3>2, <3>3, <3>4
    <3>6. p \notin emptyPages
      BY <1>3, <2>1, <3>1 DEF InUse
    <3> QED
      BY <3>5, <3>6
  <2> QED
    BY <1>0, <2>2, <2>3
<1>4. \A p \in rows[id].page .. rows[id].page + Pages(rows[id].n) - 1 : p \in SavedPage
  BY <1>0, <1>2, <1>3 DEF SavedPage
<1> QED
  BY <1>2, <1>4, ReadsSoundly DEF SavedRead

(* What a flush has committed stays. *)
LEMMA SavedStep ==
  ASSUME ReadInv, Inv', Next
  PROVE  Saved'
<1>0. Inv /\ PageInv /\ Saved /\ bSubTraj' = bSubTraj
  BY NextKeeps DEF ReadInv, KeptInv, PageInv
<1>1. CASE Create
  BY <1>1, EmptyDomain DEF Create, Saved
<1>2. ASSUME ~Create PROVE \A id, x : SavedRead(id, x) => SavedRead(id, x)'
  <2> SUFFICES ASSUME NEW id, NEW x, SavedRead(id, x) PROVE SavedRead(id, x)'
    OBVIOUS
  <2>1. idx.saved
    <3>1. /\ rows[id].page \in Nat /\ Pages(rows[id].n) \in Nat \ {0}
      BY <1>0, RowTyped DEF SavedRead, ReadsSound
    <3>2. rows[id].page \in rows[id].page .. rows[id].page + Pages(rows[id].n) - 1
      BY <3>1
    <3>3. rows[id].page \in 0 .. idx.next - 1
      BY <3>2 DEF SavedRead, SavedPage
    <3>4. idx.next # 0
      BY <3>3
    <3> QED
      BY <1>0, <3>4 DEF PageInv, SavedBelow
  <2>2. \A p \in SavedPage : dat[p].kind = "points" => dat'[p] = dat[p] /\ p \in SavedPage'
    BY <1>0, <1>2, <2>1, SavedPageKept
  <2>3. \A i \in DOMAIN rows : i \in DOMAIN rows' /\ rows'[i] = rows[i]
    BY RowsKept
  <2> QED
    BY <1>0, <2>2, <2>3, SavedReadStays
<1>3. ASSUME ~Create, committed' = committed PROVE Saved'
  <2> SUFFICES ASSUME NEW id \in DOMAIN committed PROVE SavedRead(id, committed[id])'
    BY <1>3 DEF Saved
  <2>1. PICK x : x = committed[id] /\ x = committed'[id]
    BY <1>3
  <2>2. SavedRead(id, x)'
    BY <1>0, <1>2, <1>3, <2>1 DEF Saved
  <2> QED
    BY <2>1, <2>2 DEF SavedRead
<1>4. CASE WriteProperty /\ ~Create
  <2>1. committed' = [i \in DOMAIN committed \cup {j \in DOMAIN mine : ReadsBack(j, mine[j])} |->
                        IF i \in DOMAIN committed THEN committed[i] ELSE mine[i]]
    BY <1>4 DEF WriteProperty
  <2> SUFFICES ASSUME NEW id \in DOMAIN committed' PROVE SavedRead(id, committed[id])'
    BY DEF Saved
  <2>2. PICK x : x = committed'[id]
    OBVIOUS
  <2>3. SavedRead(id, x)
    <3>1. CASE id \in DOMAIN committed
      <4>1. x = committed[id]
        BY <2>1, <2>2, <3>1
      <4> QED
        BY <1>0, <3>1, <4>1 DEF Saved
    <3>2. CASE id \notin DOMAIN committed
      <4>1. id \in DOMAIN mine /\ ReadsBack(id, mine[id]) /\ x = mine[id]
        BY <2>1, <2>2, <3>2
      <4> QED
        BY <1>4, <4>1, CommittedAnew
    <3> QED
      BY <3>1, <3>2
  <2>4. SavedRead(id, x)'
    BY <1>2, <1>4, <2>3
  <2> QED
    BY <2>2, <2>4 DEF SavedRead
<1>5. CASE ~Create /\ ~WriteProperty
  <2> SUFFICES committed' = committed
    BY <1>3, <1>5
  <2>1. ASSUME NEW file \in Appended, LoadFile(file)
        PROVE  committed' = committed
    BY <2>1 DEF LoadFile, ghostVars
  <2>2. CASE Open \/ EndLoad \/ CutPage \/ InsertRow
    BY <2>2 DEF Open, EndLoad, CutPage, InsertRow, ghostVars
  <2>3. CASE BeginTraj \/ DropTraj
    BY <2>3 DEF BeginTraj, DropTraj, NextLine, ghostVars
  <2>4. CASE FlushDisk \/ TruncateProperty
    BY <2>4 DEF FlushDisk, TruncateProperty, ghostVars
  <2>5. CASE Building
    BY <2>5, BuildingFacts
  <2>6. CASE Ending
    BY <2>6, EndingFacts
  <2>7. CASE Failing
    BY <2>7, FailingFacts
  <2> QED
    BY <1>5, <2>1, <2>2, <2>3, <2>4, <2>5, <2>6, <2>7, Steps DEF Flushing
<1> QED
  BY <1>1, <1>4, <1>5

(* The invariant holds at first, *)
LEMMA ReadInit == Init => ReadInv
<1> SUFFICES ASSUME Init PROVE ReadInv
  OBVIOUS
<1>1. KeptInv
  BY KeptInit
<1>2. /\ open = FALSE /\ pc = "idle" /\ traj = NoTraj /\ rows = Empty /\ mine = Empty
      /\ committed = Empty /\ nextTraj = -1 /\ failedBuild = FALSE
      /\ earlier = [ids |-> {}, names |-> {}]
  BY DEF Init
<1>3. RestOfFile
  BY <1>2 DEF RestOfFile
<1>4. FirstLife
  BY <1>2, EmptyDomain DEF FirstLife
<1>5. NewIds
  BY <1>2, EmptyDomain DEF NewIds
<1>6. RowsMatch /\ Saved
  BY <1>2, EmptyDomain DEF RowsMatch, Saved
<1>7. Reached
  BY <1>2 DEF Reached
<1>8. earlier = [ids |-> earlier.ids, names |-> earlier.names]
  BY <1>2
<1>9. TypedPoints
  BY DEF Init, TypedPoints, Blank
<1> QED
  BY <1>1, <1>2, <1>3, <1>4, <1>5, <1>6, <1>7, <1>8, <1>9 DEF ReadInv

(* What is left over of an earlier store, and what a flush has saved. *)
LEMMA EarlierStep ==
  ASSUME ReadInv, Next
  PROVE  /\ earlier' = [ids |-> earlier'.ids, names |-> earlier'.names]
         /\ pc' \in {"truncate", "write"} => idx'.empty = emptyPages'
<1>0. /\ earlier = [ids |-> earlier.ids, names |-> earlier.names]
      /\ pc \in {"truncate", "write"} => idx.empty = emptyPages
  BY DEF ReadInv
<1>1. CASE Create
  BY <1>0, <1>1 DEF Create
<1>2. CASE Flushing
  <2>1. earlier' = [ids |-> earlier'.ids, names |-> earlier'.names]
    BY <1>0, <1>2, FlushingFacts
  <2>2. CASE FlushDisk
    <3>1. idx'.empty = emptyPages'
      BY <2>2 DEF FlushDisk, Header
    <3> QED
      BY <2>1, <3>1
  <2>3. CASE TruncateProperty \/ WriteProperty
    BY <1>0, <2>1, <2>3 DEF TruncateProperty, WriteProperty, diskVars
  <2> QED
    BY <1>2, <2>2, <2>3 DEF Flushing
<1>3. CASE Building
  BY <1>0, <1>3, BuildingFacts
<1>4. CASE Ending
  BY <1>0, <1>4, EndingFacts
<1>5. ASSUME NEW file \in Appended, LoadFile(file)
      PROVE  earlier' = earlier /\ pc' = "append"
  BY <1>5 DEF LoadFile, ghostVars
<1>6. CASE Open \/ EndLoad \/ CutPage \/ InsertRow
  <2>1. earlier' = earlier /\ (pc' = pc \/ pc' = "flush")
    BY <1>6 DEF Open, EndLoad, CutPage, InsertRow, ghostVars
  <2>2. pc \in {"truncate", "write"} => ~EndLoad /\ ~CutPage /\ ~InsertRow
    BY DEF EndLoad, CutPage, InsertRow, Loading
  <2>3. Open => pc = "idle"
    BY DEF Open, ReadInv, KeptInv, PageInv, Inv
  <2> QED
    BY <1>0, <1>6, <2>1, <2>2, <2>3
<1>7. CASE BeginTraj \/ DropTraj
  BY <1>0, <1>7 DEF BeginTraj, DropTraj, NextLine, Loading, ghostVars
<1>8. CASE Failing
  <2>1. pc' \in {"load", "append"}
    BY <1>8, FailingFacts
  <2>2. earlier' = earlier \/ NotReached
    BY <1>8, FailingFacts
  <2>3. earlier' = [ids |-> earlier'.ids, names |-> earlier'.names]
    BY <1>0, <2>2 DEF NotReached
  <2> QED
    BY <2>1, <2>3
<1> QED
  BY <1>0, <1>1, <1>2, <1>3, <1>4, <1>5, <1>6, <1>7, <1>8, Steps

(* A page is written with points that are counted. *)
LEMMA TypedStep ==
  ASSUME ReadInv, Next
  PROVE  TypedPoints'
<1>0. /\ TypedPoints /\ TypeOK /\ EmptyBelow
      /\ traj # NoTraj => traj.cur \in Nat
  <2>1. Inv /\ EmptyBelow /\ TypedPoints
    BY DEF ReadInv, KeptInv, PageInv
  <2>2. traj # NoTraj => traj.cur \in Nat
    BY <2>1 DEF Inv, Types, TrajTyped, TrajBegun
  <2> QED
    BY <2>1, <2>2 DEF Inv
<1>1. ASSUME dat' = dat PROVE TypedPoints'
  BY <1>0, <1>1 DEF TypedPoints, Page
<1>2. ASSUME NEW content, StoreNew(content), content.kind = "points" => content.first \in Nat
      PROVE  TypedPoints'
  <2>1. /\ PageTaken \in Page /\ dat'[PageTaken] = content
        /\ \A p \in Page : p # PageTaken => dat'[p] = dat[p]
    BY <1>0, <1>2, StoreNewPage
  <2> QED
    BY <1>0, <1>2, <2>1 DEF TypedPoints, Page
<1>3. CASE Create
  BY <1>3 DEF Create, TypedPoints, Blank, Page
<1>4. CASE CutPage
  <2>1. PICK len : StoreNew(PointsPage(traj.t, traj.cur, len)) /\ traj # NoTraj
    BY <1>4 DEF CutPage
  <2>2. PointsPage(traj.t, traj.cur, len).first \in Nat
    BY <1>0, <2>1 DEF PointsPage
  <2> QED
    BY <1>2, <2>1, <2>2
<1>5. CASE Failing
  <2>1. Blank.kind # "points"
    BY DEF Blank
  <2>2. dat' = dat \/ StoreNew(Blank)
    BY <1>5, FailingFacts
  <2> QED
    BY <1>1, <1>2, <2>1, <2>2
<1>6. CASE Building
  <2>1. \A name, k : NodePage(name, k).kind # "points" /\ HeaderPage(name, k).kind # "points"
    BY DEF NodePage, HeaderPage
  <2>2. CASE EndBulk
    <3>1. dat' = [dat EXCEPT ![tree.header] = HeaderPage(tree.name, tree.root)]
      BY <2>2 DEF EndBulk
    <3>2. \A p \in Page : dat'[p] = dat[p] \/ dat'[p] = HeaderPage(tree.name, tree.root)
      BY <1>0, <3>1 DEF TypeOK
    <3> QED
      BY <1>0, <2>1, <3>2 DEF TypedPoints, Page
  <2>3. ASSUME NEW name \in Names, NewTree(name) PROVE TypedPoints'
    BY <1>2, <2>1, <2>3 DEF NewTree
  <2>4. CASE NewHeader
    BY <1>2, <2>1, <2>4 DEF NewHeader
  <2>5. CASE BulkNode
    BY <1>2, <2>1, <2>5 DEF BulkNode
  <2>6. CASE BeginBulk \/ BulkThrows
    BY <1>1, <2>6 DEF BeginBulk, BulkThrows, diskVars
  <2> QED
    BY <1>6, <2>2, <2>3, <2>4, <2>5, <2>6 DEF Building
<1>7. CASE Flushing
  BY <1>1, <1>7 DEF Flushing, FlushDisk, TruncateProperty, WriteProperty, diskVars
<1>8. CASE Ending
  BY <1>1, <1>8, EndingFacts
<1>9. ASSUME NEW file \in Appended, LoadFile(file)
      PROVE  TypedPoints'
  BY <1>1, <1>9 DEF LoadFile, diskVars
<1>10. CASE Open \/ EndLoad \/ InsertRow
  BY <1>1, <1>10 DEF Open, EndLoad, InsertRow, diskVars
<1>11. CASE BeginTraj \/ DropTraj
  BY <1>1, <1>11 DEF BeginTraj, DropTraj, NextLine, diskVars
<1> QED
  BY <1>3, <1>4, <1>5, <1>6, <1>7, <1>8, <1>9, <1>10, <1>11, Steps

(* every step keeps it, *)
LEMMA ReadInvStep == ReadInv /\ [Next]_vars => ReadInv'
<1> SUFFICES ASSUME ReadInv, [Next]_vars PROVE ReadInv'
  OBVIOUS
<1>1. KeptInv'
  BY KeptInvStep DEF ReadInv
<1>2. CASE Next
  <2>1. Inv'
    BY <1>1 DEF KeptInv, PageInv
  <2>2. RestOfFile' /\ FirstLife' /\ NewIds' /\ RowsMatch' /\ Reached' /\ Saved'
    BY <1>2, <2>1, RestOfFileStep, FirstLifeStep, NewIdsStep, RowsMatchStep, ReachedStep, SavedStep
  <2>3. open' => Clean' \/ Own'
    BY <1>2, <2>1, OwnStep
  <2>4. /\ earlier' = [ids |-> earlier'.ids, names |-> earlier'.names]
        /\ pc' \in {"truncate", "write"} => idx'.empty = emptyPages'
    BY <1>2, EarlierStep
  <2>5. TypedPoints'
    BY <1>2, TypedStep
  <2> QED
    BY <1>1, <2>2, <2>3, <2>4, <2>5 DEF ReadInv
<1>3. CASE UNCHANGED vars
  <2>1. /\ open' = open /\ bSubTraj' = bSubTraj /\ nextPage' = nextPage
        /\ emptyPages' = emptyPages /\ idx' = idx /\ dat' = dat /\ rows' = rows
        /\ nextTraj' = nextTraj /\ property' = property /\ pc' = pc /\ todo' = todo
        /\ traj' = traj /\ mine' = mine /\ committed' = committed
        /\ failedBuild' = failedBuild /\ earlier' = earlier
    BY <1>3 DEF vars, ghostVars
  <2>2. /\ RestOfFile /\ FirstLife /\ NewIds /\ RowsMatch /\ Reached /\ Saved
        /\ (open => Clean \/ Own)
        /\ earlier = [ids |-> earlier.ids, names |-> earlier.names]
        /\ pc \in {"truncate", "write"} => idx.empty = emptyPages
        /\ Start' = Start /\ \A n : Pages(n)' = Pages(n)
    BY <2>1, StartSame, PagesSame DEF ReadInv
  <2>3. Done' = Done /\ \A i : Ahead(i)' <=> Ahead(i)
    BY <2>1 DEF Done, Ahead, Lines
  <2>4. RestOfFile' /\ RowsMatch'
    BY <2>1, <2>2, <2>3 DEF RestOfFile, RowsMatch
  <2>5. FirstLife'
    <3>1. Left(traj.rem)' = Left(traj.rem)
      BY <2>1, <2>2 DEF Left
    <3> QED
      BY <2>1, <2>2, <2>3, <3>1 DEF FirstLife, Lines
  <2>6. NewIds'
    BY <2>1, <2>2, <2>3 DEF NewIds, Lines
  <2>7. Reached'
    BY <2>1, <2>2 DEF Reached, Left
  <2>8. open' => Clean' \/ Own'
    <3>1. Clean => Clean'
      BY <2>1 DEF Clean, Page
    <3>2. Own => Own'
      BY <2>1, <2>2 DEF Own, OwnRow, InUse
    <3> QED
      BY <2>1, <2>2, <3>1, <3>2
  <2>9. Saved'
    <3>1. Inv /\ Inv'
      BY <1>1 DEF ReadInv, KeptInv, PageInv
    <3>2. SavedPage' = SavedPage
      BY <2>1 DEF SavedPage
    <3>3. \A id, x : SavedRead(id, x) => SavedRead(id, x)'
      BY <2>1, <3>1, <3>2, SavedReadStays
    <3> SUFFICES ASSUME NEW id \in DOMAIN committed PROVE SavedRead(id, committed[id])'
      BY <2>1 DEF Saved
    <3>4. PICK x : x = committed[id] /\ x = committed'[id]
      BY <2>1
    <3>5. SavedRead(id, x)'
      BY <2>2, <3>3, <3>4 DEF Saved
    <3> QED
      BY <3>4, <3>5 DEF SavedRead
  <2>10. TypedPoints'
    BY <2>1 DEF ReadInv, TypedPoints, Page
  <2> QED
    BY <1>1, <2>1, <2>2, <2>4, <2>5, <2>6, <2>7, <2>8, <2>9, <2>10 DEF ReadInv
<1> QED
  BY <1>2, <1>3

(* and so it always holds. *)
LEMMA ReadsHold == Spec => []ReadInv
BY ReadInit, ReadInvStep, PTL DEF Spec

(* The intervals that are left are never read right: the page after the    *)
(* one they start in begins with the point after their first, so its last  *)
(* slot has another point, or none.                                        *)
LEMMA ReadsAll ==
  ASSUME Inv, TypedPoints, NEW id, NEW x, ReadsSound(id, x)
  PROVE  ReadsBack(id, x)
<1>1. PICK r : r = rows[id]
  OBVIOUS
<1>2. /\ id \in DOMAIN rows /\ r.n = x.n /\ bSubTraj \in BOOLEAN
      /\ r.page \in Nat /\ r.n \in Nat /\ r.n >= 2
  <2>1. id \in DOMAIN rows /\ rows[id].n = x.n
    BY DEF ReadsSound
  <2> QED
    BY <1>1, <2>1, RowTyped DEF Inv, TypeOK
<1>3. PICK n \in Nat, page \in Nat : n = r.n /\ n >= 2 /\ n = x.n /\ page = r.page
  BY <1>2
<1>4. \A se \in Sound(n) : LoadTraj(r, se[1], se[2]) = Slice(x.t, se[1], se[2])
  BY <1>1, <1>3 DEF ReadsSound
<1>5. ASSUME NEW se \in Intervals(n), Misread(se[1])
      PROVE  LoadTraj(r, se[1], se[2]) # Slice(x.t, se[1], se[2])
  <2>1. PICK s \in Nat, e \in Nat : s = se[1] /\ e = se[2] /\ s < e /\ e <= n - 1
    BY <1>5 DEF Intervals
  <2>2. ~bSubTraj /\ (s + 1) % Fp = 0
    BY <1>5, <2>1 DEF Misread
  <2>3. PICK k \in Nat : k = (s + 1) \div Fp
    BY <2>1, FpAssumption, Quotient
  <2>4. LoadTraj(r, s, e)[1] = PointAt(page + k, Fp - 1) /\ s + 1 = k * Fp
    <3>1. Smaller(r.n - 1, s) = s /\ Smaller(r.n - 1, e) = e
      BY <1>3, <2>1 DEF Smaller
    <3>2. LoadTraj(r, s, e) = LoadPlain(page, s, e)
      BY <1>3, <2>2, <3>1 DEF LoadTraj
    <3> QED
      BY <2>1, <2>2, <2>3, <3>2, PlainMisreads
  <2>5. PointAt(page + k, 0) = [t |-> x.t, i |-> s + 1]
    <3>1. <<0, n - 1>> \in Sound(n)
      <4>1. 0 \in 0 .. n - 1 /\ n - 1 \in 0 .. n - 1 /\ 0 < n - 1
        BY <1>3
      <4>2. (0 + 1) % Fp # 0
        BY FpAssumption
      <4> QED
        BY <4>1, <4>2 DEF Sound, Intervals, Misread
    <3>2. Span(page, 0, n - 1, n - 1) = Slice(x.t, 0, n - 1)
      <4>1. LoadTraj(r, 0, n - 1) = Slice(x.t, 0, n - 1)
        BY <1>4, <3>1
      <4>2. LoadTraj(r, 0, n - 1) = Span(page, 0, n - 1, n - 1)
        BY <1>2, <1>3, <3>1, IntervalRead
      <4> QED
        BY <4>1, <4>2
    <3>3. s + 2 \in 1 .. (n - 1) - 0 + 1 /\ 0 + (s + 2) - 1 = s + 1
      BY <1>3, <2>1
    <3>4. ReadPoint(page, s + 1, n - 1) = [t |-> x.t, i |-> s + 1]
      <4>1. Span(page, 0, n - 1, n - 1)[s + 2] = ReadPoint(page, s + 1, n - 1)
        BY <3>3 DEF Span
      <4>2. Slice(x.t, 0, n - 1)[s + 2] = [t |-> x.t, i |-> s + 1]
        BY <3>3 DEF Slice
      <4> QED
        BY <3>2, <4>1, <4>2
    <3>5. Stride = Fp /\ PageOf(s + 1, n - 1) = k
      BY <2>2, <2>3 DEF Stride, PageOf
    <3>6. (s + 1) - k * Fp = 0
      <4>1. k * Fp \in Int /\ s \in Int
        BY <2>1, FpAssumption
      <4> QED
        BY <2>4, <4>1
    <3>7. ReadPoint(page, s + 1, n - 1) = PointAt(page + k, (s + 1) - k * Fp)
      <4>1. PICK c, q : c = PageOf(s + 1, n - 1) /\ q = Stride
        OBVIOUS
      <4>2. ReadPoint(page, s + 1, n - 1) = PointAt(page + c, (s + 1) - c * q)
        BY <4>1 DEF ReadPoint
      <4>3. c = k /\ q = Fp
        BY <3>5, <4>1
      <4> QED
        BY <4>2, <4>3
    <3>8. PointAt(page + k, (s + 1) - k * Fp) = PointAt(page + k, 0)
      BY <3>6, Zenon
    <3> QED
      BY <3>4, <3>7, <3>8, Zenon
  <2>6. /\ page + k \in Page /\ dat[page + k].kind = "points"
        /\ dat[page + k].first = s + 1
    <3>1. [t |-> x.t, i |-> s + 1] # Junk
      <4>1. [t |-> x.t, i |-> s + 1].i = s + 1 /\ Junk.i = -1 /\ s + 1 # -1
        BY <2>1 DEF Junk
      <4> QED
        BY <4>1
    <3>2. /\ page + k \in Page /\ dat[page + k].kind = "points"
          /\ dat[page + k].first + 0 = s + 1
      BY <2>5, <3>1 DEF PointAt
    <3>3. dat[page + k].first \in Nat
      BY <3>2 DEF TypedPoints
    <3> QED
      BY <3>2, <3>3
  <2>7. PointAt(page + k, Fp - 1).i # s
    <3>1. \/ PointAt(page + k, Fp - 1) = Junk
          \/ PointAt(page + k, Fp - 1) = [t |-> dat[page + k].t, i |-> dat[page + k].first + (Fp - 1)]
      BY <2>6 DEF PointAt
    <3>2. Junk.i = -1
      BY DEF Junk
    <3>3. s # -1 /\ (s + 1) + (Fp - 1) # s
      BY <2>1, FpAssumption
    <3> QED
      BY <2>6, <3>1, <3>2, <3>3
  <2>8. Slice(x.t, s, e)[1].i = s
    <3>1. 1 \in 1 .. e - s + 1 /\ s + 1 - 1 = s
      BY <2>1
    <3> QED
      BY <3>1 DEF Slice
  <2> QED
    BY <2>1, <2>4, <2>7, <2>8
<1>6. \A se \in Intervals(n) :
        (LoadTraj(r, se[1], se[2]) = Slice(x.t, se[1], se[2])) <=> ~Misread(se[1])
  BY <1>4, <1>5 DEF Sound
<1> QED
  BY <1>1, <1>2, <1>3, <1>6 DEF ReadsBack

LEMMA AllReadBack == ReadInv => LoadedReadsBack
<1> SUFFICES ASSUME ReadInv, ~failedBuild, NEW id \in DOMAIN mine \ earlier.ids
             PROVE  ReadsBack(id, mine[id])
  BY DEF LoadedReadsBack
<1>1. Inv /\ KeptLaidOut /\ RowsMatch /\ bSubTraj \in BOOLEAN /\ nextPage \in Int /\ nextPage <= MaxPage
  BY BoundsAssumption DEF ReadInv, KeptInv, PageInv, Inv, TypeOK
<1>2. PICK x : x = mine[id]
  OBVIOUS
<1>3. PICK r : r = rows[id]
  OBVIOUS
<1>4. id \in DOMAIN rows /\ r.page = x.page /\ r.n = x.n
  BY <1>1, <1>2, <1>3 DEF RowsMatch
<1>5. x.n \in Nat
  BY <1>1, <1>3, <1>4, RowTyped
<1>6. LaidOut(x, nextPage)
  BY <1>1, <1>2 DEF KeptLaidOut
<1>7. \A se \in Sound(x.n) : LoadTraj(r, se[1], se[2]) = Slice(x.t, se[1], se[2])
  BY <1>1, <1>4, <1>5, <1>6, LaidOutReads
<1> QED
  <2>1. ReadsSound(id, x)
    BY <1>2, <1>3, <1>4, <1>7 DEF ReadsSound
  <2>2. TypedPoints
    BY DEF ReadInv
  <2> QED
    BY <1>1, <1>2, <2>1, <2>2, ReadsAll

LEMMA CommittedReadBack == ReadInv => CommittedReadsBack
<1> SUFFICES ASSUME ReadInv, NEW id \in DOMAIN committed
             PROVE  ReadsBack(id, committed[id])
  BY DEF CommittedReadsBack
<1>1. Inv /\ TypedPoints /\ ReadsSound(id, committed[id])
  BY DEF ReadInv, KeptInv, PageInv, Saved, SavedRead
<1> QED
  BY <1>1, ReadsAll

(* Every trajectory a process has loaded reads back (loadFile and loadTraj *)
(* of xStore.cc), unless a bulk load has thrown or an earlier catalog has  *)
(* left its id: with subtrajectory pages over every interval, without them *)
(* over those that do not start on the last point of a page, and over none *)
(* of those that do (xStore.cc:462).                                       *)
THEOREM LoadedRead == Spec => []LoadedReadsBack
BY AllReadBack, ReadsHold, PTL

(* A trajectory that read back when a flush completed reads back ever      *)
(* after, over the intervals that do not start on the last point of a page *)
(* written without subtrajectories, in this process and in those that open *)
(* the store later, after crashes and after bulk loads that throw.         *)
THEOREM CommittedRead == Spec => []CommittedReadsBack
BY CommittedReadBack, ReadsHold, PTL

-----------------------------------------------------------------------------
(* How a trajectory is cut. Its times ascend; a piece of it is right if it *)
(* has the points of its time, each once, and its interval reaches over    *)
(* it.                                                                     *)
Ordered(s) == s \in Seq(Int) /\ \A j, k \in DOMAIN s : j < k => s[j] < s[k]

PieceSet == [ms : Int, me : Int, seg : Seq(Int)]

Right(s, p) ==
  /\ \A j \in DOMAIN p.seg : j > 1 => p.seg[j - 1] < p.seg[j]
  /\ Len(p.seg) > 1
  /\ {t \in SP!ToSet(s) : SP!Starts(p) < t /\ t < SP!Ends(p)}
     = SP!ToSet(p.seg) \ {SP!Starts(p), SP!Ends(p)}
  /\ 0 <= p.ms /\ p.ms < p.me /\ p.me < Len(s)
  /\ s[p.ms + 1] <= SP!Starts(p) /\ SP!Ends(p) <= s[p.me + 1]

(* What a piece made of points has. *)
MadeOf(p, b, e, P) ==
  /\ p \in PieceSet
  /\ p.ms = b - 1 /\ p.me = e - 1 /\ p.seg = P
  /\ Len(P) > 0 => SP!Starts(p) = P[1] /\ SP!Ends(p) = P[Len(P)]

LEMMA PieceIs ==
  ASSUME NEW b \in Int, NEW e \in Int, NEW P \in Seq(Int)
  PROVE  MadeOf(SP!Piece(b, e, P), b, e, P)
BY DEF MadeOf, SP!Piece, PieceSet, SP!Starts, SP!Ends, SP!Last

(* Later points have later times, and the other way round. *)
LEMMA Rises ==
  ASSUME NEW l \in Nat, NEW s \in [1 .. l -> Int],
         \A j, k \in 1 .. l : j < k => s[j] < s[k]
  PROVE  \A j, k \in 1 .. l : /\ s[j] < s[k] <=> j < k
                              /\ s[j] <= s[k] <=> j <= k
<1> TAKE j \in 1 .. l
<1> TAKE k \in 1 .. l
<1>1. s[j] \in Int /\ s[k] \in Int
  OBVIOUS
<1>2. CASE j < k
  <2>1. s[j] < s[k]
    BY <1>2
  <2> QED
    BY <1>1, <1>2, <2>1
<1>3. CASE k < j
  <2>1. s[k] < s[j]
    BY <1>3
  <2> QED
    BY <1>1, <1>3, <2>1
<1>4. CASE k = j
  BY <1>1, <1>4
<1> QED
  BY <1>2, <1>3, <1>4

(* The same of the times of a trajectory. *)
LEMMA OrderedIs ==
  ASSUME NEW s, Ordered(s)
  PROVE  /\ s \in Seq(Int) /\ Len(s) \in Nat /\ DOMAIN s = 1 .. Len(s)
         /\ \A j \in 1 .. Len(s) : s[j] \in Int
         /\ \A j, k \in 1 .. Len(s) : (s[j] < s[k] <=> j < k) /\ (s[j] <= s[k] <=> j <= k)
<1> DEFINE l == Len(s)
<1>1. s \in Seq(Int) /\ \A j, k \in DOMAIN s : j < k => s[j] < s[k]
  BY Zenon DEF Ordered
<1>2. l \in Nat /\ s \in [1 .. l -> Int] /\ DOMAIN s = 1 .. l
  BY <1>1
<1> HIDE DEF l
<1>3. \A j \in 1 .. l : s[j] \in Int
  BY <1>2
<1>4. \A j, k \in 1 .. l : j < k => s[j] < s[k]
  BY <1>1, <1>2, Zenon
<1>5. \A j, k \in 1 .. l : (s[j] < s[k] <=> j < k) /\ (s[j] <= s[k] <=> j <= k)
  BY <1>2, <1>4, Rises, Zenon
<1> QED
  BY <1>1, <1>2, <1>3, <1>5, Zenon DEF l

(* The points P of a piece: the first is at or after point m and before    *)
(* the next, the others are those that follow, and the last may be at a    *)
(* time before that of the point it stands for.                            *)
Along(P, s, m) ==
  LET n == Len(P)
  IN /\ P \in Seq(Int) /\ n >= 2
     /\ m \in 1 .. Len(s) /\ m + n - 1 <= Len(s)
     /\ s[m] <= P[1] /\ P[1] < s[m + 1] /\ P[1] < P[n]
     /\ \A j \in 2 .. n - 1 : P[j] = s[m + j - 1]
     /\ s[m + n - 2] < P[n] /\ P[n] <= s[m + n - 1]

AlongFacts(P, s, m) ==
  LET n == Len(P)
      l == Len(s)
      d == m + n - 1
  IN /\ n \in Nat /\ l \in Nat /\ n >= 2 /\ d \in 1 .. l /\ m \in 1 .. l
     /\ \A j \in 1 .. n : P[j] \in Int
     /\ \A j \in 1 .. l : s[j] \in Int
     /\ P \in Seq(Int) /\ DOMAIN P = 1 .. n /\ DOMAIN s = 1 .. l
     /\ \A j, k \in 1 .. l : (s[j] < s[k] <=> j < k) /\ (s[j] <= s[k] <=> j <= k)
     /\ s[m] <= P[1] /\ P[1] < s[m + 1] /\ P[1] < P[n]
     /\ \A j \in 2 .. n - 1 : P[j] = s[m + j - 1]
     /\ s[d - 1] < P[n] /\ P[n] <= s[d]

(* What is known of points along those of a trajectory. *)
LEMMA AlongIs ==
  ASSUME NEW s, Ordered(s), NEW P, NEW m, Along(P, s, m)
  PROVE  AlongFacts(P, s, m)
<1> DEFINE n == Len(P)
           l == Len(s)
           d == m + n - 1
<1>0. n = Len(P) /\ l = Len(s) /\ d = m + n - 1
  OBVIOUS
<1> HIDE DEF n, l, d
<1>1. /\ s \in Seq(Int) /\ l \in Nat /\ DOMAIN s = 1 .. l
      /\ \A j \in 1 .. l : s[j] \in Int
      /\ \A j, k \in 1 .. l : (s[j] < s[k] <=> j < k) /\ (s[j] <= s[k] <=> j <= k)
  BY OrderedIs, Zenon DEF l
<1>2. P \in Seq(Int) /\ n >= 2 /\ m \in 1 .. l /\ m + n - 1 <= l
  BY Zenon DEF Along, n, l
<1>3. n \in Nat /\ l \in Nat
  BY <1>0, <1>1, <1>2
<1>4. P \in [1 .. n -> Int] /\ DOMAIN P = 1 .. n
  BY <1>0, <1>2, <1>3
<1>8. d \in 1 .. l /\ d - 1 = m + n - 2
  BY <1>0, <1>2, <1>3
<1>9. /\ s[m] <= P[1] /\ P[1] < s[m + 1] /\ P[1] < P[n]
      /\ \A j \in 2 .. n - 1 : P[j] = s[m + j - 1]
      /\ s[m + n - 2] < P[n] /\ P[n] <= s[m + n - 1]
  BY Zenon DEF Along, n
<1>10. s[d - 1] < P[n] /\ P[n] <= s[d]
  BY <1>0, <1>8, <1>9, Zenon
<1>11. \A j \in 1 .. n : P[j] \in Int
  BY <1>4
<1>12. n \in Nat /\ l \in Nat /\ n >= 2 /\ d \in 1 .. l /\ m \in 1 .. l
  BY <1>2, <1>3, <1>8
<1> QED
  BY <1>1, <1>2, <1>4, <1>9, <1>10, <1>11, <1>12, Zenon DEF n, l, d, AlongFacts

AllBetween(P, s) ==
  LET n == Len(P)
      l == Len(s)
  IN /\ \A j \in 2 .. n : P[j - 1] < P[j]
     /\ \A k \in 1 .. l : P[1] < s[k] /\ s[k] < P[n] => \E j \in 2 .. n - 1 : P[j] = s[k]
     /\ \A j \in 2 .. n - 1 : P[1] < P[j] /\ P[j] < P[n] /\ \E k \in 1 .. l : P[j] = s[k]

(* Points along those of the trajectory are all there are of their time. *)
LEMMA PointsBetween ==
  ASSUME NEW s, Ordered(s), NEW P, NEW m, Along(P, s, m)
  PROVE  AllBetween(P, s)
<1>0. AlongFacts(P, s, m)
  BY AlongIs, Zenon
<1> DEFINE n == Len(P)
           l == Len(s)
           d == m + n - 1
<1> HIDE DEF n, l, d
<1>1. /\ n \in Nat /\ l \in Nat /\ n >= 2 /\ d \in 1 .. l /\ m \in 1 .. l
      /\ \A j \in 1 .. n : P[j] \in Int
      /\ \A j \in 1 .. l : s[j] \in Int
      /\ \A j, k \in 1 .. l : (s[j] < s[k] <=> j < k) /\ (s[j] <= s[k] <=> j <= k)
      /\ s[m] <= P[1] /\ P[1] < s[m + 1] /\ P[1] < P[n]
      /\ \A j \in 2 .. n - 1 : P[j] = s[m + j - 1]
      /\ s[d - 1] < P[n] /\ P[n] <= s[d]
  BY <1>0, Zenon DEF AlongFacts, d, n, l
<1>2. n \in Nat /\ l \in Nat /\ n >= 2 /\ d \in 1 .. l /\ m \in 1 .. l /\ d = m + n - 1
  BY <1>1, Zenon DEF d
<1>3. (\A j \in 1 .. n : P[j] \in Int) /\ (\A j \in 1 .. l : s[j] \in Int)
  BY <1>1, Zenon
<1>4. \A j, k \in 1 .. l : (s[j] < s[k] <=> j < k) /\ (s[j] <= s[k] <=> j <= k)
  BY <1>1, Zenon
<1>5. s[m] <= P[1] /\ P[1] < s[m + 1] /\ s[d - 1] < P[n] /\ P[n] <= s[d] /\ P[1] < P[n]
  BY <1>1, Zenon
<1>6. \A j \in 2 .. n - 1 : P[j] = s[m + j - 1]
  BY <1>1, Zenon
<1>7. P[1] \in Int /\ P[n] \in Int
  <2>1. 1 \in 1 .. n /\ n \in 1 .. n
    BY <1>2
  <2> QED
    BY <1>3, <2>1
<1>8. ASSUME NEW j \in 2 .. n - 1
      PROVE  /\ P[1] < P[j] /\ P[j] < P[n] /\ \E k \in 1 .. l : P[j] = s[k]
             /\ j > 2 => P[j - 1] < P[j]
  <2> DEFINE i == m + j - 1
             c == m + 1
             f == d - 1
  <2>1. /\ i \in 1 .. l /\ c \in 1 .. l /\ f \in 1 .. l
        /\ i = m + j - 1 /\ c = m + 1 /\ f = d - 1 /\ c <= i /\ i <= f
    <3>1. f = m + n - 2 /\ f \in Int /\ i \in Int /\ c \in Int
      BY <1>2
    <3>2. 2 <= j /\ j <= n - 1 /\ j \in Int
      BY <1>2
    <3> QED
      BY <1>2, <3>1, <3>2
  <2> HIDE DEF i, c, f
  <2>2. P[j] = s[i]
    BY <1>6, Zenon DEF i
  <2>3. s[c] <= s[i] /\ s[i] <= s[f]
    BY <1>4, <2>1, Zenon
  <2>4. P[1] < s[c] /\ s[f] < P[n]
    <3>1. s[c] = s[m + 1] /\ s[f] = s[d - 1]
      BY <1>2, <2>1
    <3> QED
      BY <1>2, <1>5, <3>1
  <2>5. s[c] \in Int /\ s[i] \in Int /\ s[f] \in Int
    BY <1>3, <2>1
  <2>6. P[1] < P[j] /\ P[j] < P[n]
    BY <1>7, <2>2, <2>3, <2>4, <2>5
  <2>7. ASSUME j > 2 PROVE P[j - 1] < P[j]
    <3>1. PICK g \in 1 .. l, h \in 2 .. n - 1 : g = m + h - 1 /\ h = j - 1 /\ g < i
      BY <1>2, <2>1, <2>7
    <3>2. P[h] = s[g]
      <4>1. P[h] = s[m + h - 1]
        BY <1>6, Zenon
      <4> QED
        BY <1>2, <3>1, <4>1
    <3>3. s[g] < s[i]
      BY <1>4, <2>1, <3>1, Zenon
    <3> QED
      BY <2>2, <3>1, <3>2, <3>3, Zenon
  <2> QED
    BY <2>1, <2>2, <2>6, <2>7, Zenon
<1>9. ASSUME NEW j \in 2 .. n
      PROVE  P[j - 1] < P[j]
  <2>1. \/ j = n /\ j - 1 = 1
        \/ j = n /\ n - 1 \in 2 .. n - 1
        \/ j \in 2 .. n - 1 /\ j - 1 = 1
        \/ j \in 2 .. n - 1 /\ j > 2
    BY <1>2
  <2> QED
    BY <1>5, <1>8, <2>1, Zenon
<1>10. ASSUME NEW k \in 1 .. l, P[1] < s[k], s[k] < P[n]
       PROVE  \E j \in 2 .. n - 1 : P[j] = s[k]
  <2>1. s[m] \in Int /\ s[k] \in Int /\ s[d] \in Int
    BY <1>2, <1>3
  <2>2. s[m] < s[k] /\ s[k] < s[d]
    BY <1>5, <1>7, <1>10, <2>1
  <2>3. m < k /\ k < d
    BY <1>2, <1>4, <2>2, Zenon
  <2>4. PICK j \in 2 .. n - 1 : j = k - m + 1 /\ m + j - 1 = k
    BY <1>2, <2>3
  <2> QED
    BY <1>6, <2>4
<1> QED
  BY <1>8, <1>9, <1>10, Zenon DEF n, l, AllBetween

(* So a piece of them is right, when its interval reaches over them. *)
LEMMA PieceRight ==
  ASSUME NEW s, Ordered(s), NEW P, NEW m, Along(P, s, m),
         NEW b \in 1 .. Len(s), NEW e \in 1 .. Len(s), s[b] <= P[1], P[Len(P)] <= s[e]
  PROVE  /\ SP!Piece(b, e, P) \in PieceSet
         /\ Right(s, SP!Piece(b, e, P))
         /\ SP!Starts(SP!Piece(b, e, P)) = P[1]
         /\ SP!Ends(SP!Piece(b, e, P)) = P[Len(P)]
<1> DEFINE p == SP!Piece(b, e, P)
           n == Len(P)
           l == Len(s)
           d == m + n - 1
<1> HIDE DEF n, l, d, p
<1>0. b \in 1 .. l /\ e \in 1 .. l /\ s[b] <= P[1] /\ P[n] <= s[e]
  BY Zenon DEF n, l
<1>1. /\ n \in Nat /\ l \in Nat /\ n >= 2 /\ d \in 1 .. l
      /\ \A j \in 1 .. n : P[j] \in Int
      /\ \A j \in 1 .. l : s[j] \in Int
      /\ P \in Seq(Int) /\ DOMAIN P = 1 .. n /\ DOMAIN s = 1 .. l
      /\ \A j, k \in 1 .. l : s[j] < s[k] <=> j < k
      /\ P[1] < P[n]
  <2>1. AlongFacts(P, s, m)
    BY AlongIs, Zenon
  <2> QED
    BY <2>1, Zenon DEF AlongFacts, n, l, d
<1>2. n \in Nat /\ l \in Nat /\ n >= 2 /\ P \in Seq(Int) /\ DOMAIN P = 1 .. n /\ DOMAIN s = 1 .. l
  BY <1>1, Zenon
<1>3. /\ \A j \in 2 .. n : P[j - 1] < P[j]
      /\ \A k \in 1 .. l : P[1] < s[k] /\ s[k] < P[n] => \E j \in 2 .. n - 1 : P[j] = s[k]
      /\ \A j \in 2 .. n - 1 : P[1] < P[j] /\ P[j] < P[n] /\ \E k \in 1 .. l : P[j] = s[k]
  <2>1. AllBetween(P, s)
    BY PointsBetween, Zenon
  <2> QED
    BY <2>1, Zenon DEF AllBetween, n, l
<1>4. P[1] \in Int /\ P[n] \in Int /\ (\A j \in 1 .. l : s[j] \in Int)
  <2>1. 1 \in 1 .. n /\ n \in 1 .. n
    BY <1>2
  <2> QED
    BY <1>1, <2>1, Zenon
<1>5. b < e
  <2>1. s[b] \in Int /\ s[e] \in Int
    BY <1>0, <1>4
  <2>2. P[1] < P[n]
    BY <1>1, Zenon
  <2>3. s[b] < s[e]
    BY <1>0, <1>4, <2>1, <2>2
  <2> QED
    BY <1>0, <1>1, <2>3, Zenon
<1>6. /\ p \in PieceSet /\ p.ms = b - 1 /\ p.me = e - 1 /\ p.seg = P
      /\ SP!Starts(p) = P[1] /\ SP!Ends(p) = P[n]
  <2>1. n > 0 /\ b \in Int /\ e \in Int
    BY <1>0, <1>2
  <2>2. MadeOf(p, b, e, P)
    BY <1>2, <2>1, PieceIs, Zenon DEF p
  <2> QED
    BY <2>1, <2>2, Zenon DEF MadeOf, n
<1>7. SP!ToSet(s) = {s[k] : k \in 1 .. l} /\ SP!ToSet(P) = {P[j] : j \in 1 .. n}
  BY <1>2 DEF SP!ToSet
<1>8. {t \in SP!ToSet(s) : P[1] < t /\ t < P[n]} = SP!ToSet(P) \ {P[1], P[n]}
  <2>1. ASSUME NEW t \in SP!ToSet(s), P[1] < t, t < P[n]
        PROVE  t \in SP!ToSet(P) /\ t # P[1] /\ t # P[n]
    <3>1. PICK k \in 1 .. l : t = s[k]
      BY <1>7
    <3>2. PICK j \in 2 .. n - 1 : P[j] = t
      BY <1>3, <2>1, <3>1, Zenon
    <3>3. t # P[1] /\ t # P[n]
      BY <1>4, <2>1, <3>1
    <3>4. j \in 1 .. n
      BY <1>2, <3>2
    <3> QED
      BY <1>7, <3>2, <3>3, <3>4
  <2>2. ASSUME NEW t \in SP!ToSet(P), t # P[1], t # P[n]
        PROVE  t \in SP!ToSet(s) /\ P[1] < t /\ t < P[n]
    <3>1. PICK j \in 1 .. n : t = P[j]
      BY <1>7
    <3>2. j \in 2 .. n - 1
      BY <1>2, <2>2, <3>1
    <3>3. P[1] < t /\ t < P[n] /\ \E k \in 1 .. l : t = s[k]
      BY <1>3, <3>1, <3>2, Zenon
    <3> QED
      BY <1>7, <3>3
  <2> QED
    BY <2>1, <2>2, Zenon
<1>9. \A j \in DOMAIN p.seg : j > 1 => p.seg[j - 1] < p.seg[j]
  <2>1. \A j \in 1 .. n : j > 1 => j \in 2 .. n
    BY <1>2
  <2> QED
    BY <1>2, <1>3, <1>6, <2>1, Zenon
<1>10. 0 <= p.ms /\ p.ms < p.me /\ p.me < l /\ p.ms + 1 = b /\ p.me + 1 = e
  BY <1>0, <1>2, <1>5, <1>6
<1>11. s[p.ms + 1] <= P[1] /\ P[n] <= s[p.me + 1]
  BY <1>0, <1>10, Zenon
<1>12. n > 1
  BY <1>2
<1>13. Right(s, p)
  BY <1>6, <1>8, <1>9, <1>10, <1>11, <1>12, Zenon DEF Right, n, l
<1> QED
  BY <1>6, <1>13, Zenon DEF p, n

(* The pieces cut so far, one where the one before ends, and where the     *)
(* next begins.                                                            *)
Chained(s, r) ==
  /\ r \in Seq(PieceSet)
  /\ \A k \in 1 .. Len(r) :
       /\ Right(s, r[k])
       /\ SP!Starts(r[k]) = IF k = 1 THEN s[1] ELSE SP!Ends(r[k - 1])

Frontier(s, r) == IF r = <<>> THEN s[1] ELSE SP!Ends(r[Len(r)])

(* A right piece that starts where the last one ends goes on with the      *)
(* pieces.                                                                 *)
LEMMA ChainGrows ==
  ASSUME NEW s, NEW r, Chained(s, r), NEW p \in PieceSet, Right(s, p),
         SP!Starts(p) = Frontier(s, r)
  PROVE  Chained(s, Append(r, p)) /\ Frontier(s, Append(r, p)) = SP!Ends(p)
<1> DEFINE n == Len(r)
           t == Append(r, p)
<1>1. n \in Nat /\ r \in Seq(PieceSet) /\ (r = <<>> <=> n = 0)
  BY EmptySeq DEF Chained
<1>2. t \in Seq(PieceSet) /\ Len(t) = n + 1 /\ t[n + 1] = p /\ \A k \in 1 .. n : t[k] = r[k]
  BY <1>1
<1>3. t # <<>>
  BY <1>1, <1>2
<1> HIDE DEF t
<1>4. \A k \in 1 .. n : Right(s, r[k]) /\ SP!Starts(r[k]) = IF k = 1 THEN s[1] ELSE SP!Ends(r[k - 1])
  BY DEF Chained
<1>5. SP!Starts(p) = IF n = 0 THEN s[1] ELSE SP!Ends(r[n])
  BY <1>1 DEF Frontier
<1> HIDE DEF n
<1>6. ASSUME NEW k \in 1 .. n + 1
      PROVE  Right(s, t[k]) /\ SP!Starts(t[k]) = IF k = 1 THEN s[1] ELSE SP!Ends(t[k - 1])
  <2>1. CASE k \in 1 .. n
    <3>1. t[k] = r[k] /\ (k # 1 => k - 1 \in 1 .. n /\ t[k - 1] = r[k - 1])
      BY <1>1, <1>2, <2>1
    <3> QED
      BY <1>4, <2>1, <3>1
  <2>2. CASE k = n + 1
    <3>1. t[k] = p /\ (k # 1 => n # 0 /\ k - 1 = n /\ t[n] = r[n]) /\ (k = 1 => n = 0)
      BY <1>1, <1>2, <2>2
    <3> QED
      BY <1>5, <3>1
  <2> QED
    BY <1>1, <2>1, <2>2
<1>7. Chained(s, t)
  BY <1>2, <1>6 DEF Chained
<1>8. Frontier(s, t) = SP!Ends(p)
  BY <1>2, <1>3 DEF Frontier
<1> QED
  BY <1>7, <1>8 DEF t
(* The points S of the piece that is being gathered from point m of s; the *)
(* point looked at is a, and the part ends with point l.                   *)
OpenLen(m, a) == IF m = a THEN 1 ELSE a - m

OpenPiece(S, s, m, a, l) ==
  /\ S \in Seq(Int)
  /\ m \in 1 .. l /\ a \in m .. l + 1 /\ l \in 1 .. Len(s)
  /\ Len(S) = OpenLen(m, a)
  /\ \A j \in 2 .. Len(S) : S[j] = s[m + j - 1]
  /\ s[m] <= S[1] /\ (m < l => S[1] < s[m + 1]) /\ (m = l => S[1] = s[m])

(* A piece is begun with a time from that of a point on. *)
LEMMA OpenWith ==
  ASSUME NEW s, Ordered(s), NEW l \in 1 .. Len(s), NEW m \in 1 .. l, NEW a \in {m, m + 1},
         NEW t \in Int, s[m] <= t, m < l => t < s[m + 1], m = l => t = s[m]
  PROVE  OpenPiece(<<t>>, s, m, a, l)
<1>1. <<t>> \in Seq(Int) /\ Len(<<t>>) = 1 /\ <<t>>[1] = t
  OBVIOUS
<1>2. Len(s) \in Nat
  BY DEF Ordered
<1>3. a \in m .. l + 1 /\ OpenLen(m, a) = 1
  BY <1>2 DEF OpenLen
<1>4. \A j \in 2 .. Len(<<t>>) : FALSE
  BY <1>1
<1> QED
  BY <1>1, <1>3, <1>4, Zenon DEF OpenPiece

(* A point before the end of the stretch is passed. *)
LEMMA OpenPasses ==
  ASSUME NEW s, Ordered(s), NEW l, NEW m, NEW a, NEW S,
         OpenPiece(S, s, m, a, l), a <= l
  PROVE  OpenPiece(IF m = a THEN S ELSE Append(S, s[a]), s, m, a + 1, l)
<1>0. /\ s[m] <= S[1] /\ (m < l => S[1] < s[m + 1]) /\ (m = l => S[1] = s[m])
      /\ \A j \in 2 .. Len(S) : S[j] = s[m + j - 1]
  BY Zenon DEF OpenPiece
<1>1. /\ S \in Seq(Int)
      /\ m \in 1 .. l /\ a \in m .. l + 1 /\ l \in 1 .. Len(s)
      /\ Len(S) = IF m = a THEN 1 ELSE a - m
  BY Zenon DEF OpenPiece, OpenLen
<1>2. s \in Seq(Int) /\ Len(s) \in Nat
  BY DEF Ordered
<1>4. m \in 1 .. l /\ l \in 1 .. Len(s) /\ a + 1 \in m .. l + 1 /\ a \in 1 .. Len(s)
  BY <1>1, <1>2
<1>5. CASE m = a
  <2>1. Len(S) = OpenLen(m, a + 1)
    BY <1>1, <1>2, <1>5 DEF OpenLen
  <2>2. OpenPiece(S, s, m, a + 1, l)
    BY <1>0, <1>1, <1>4, <2>1, Zenon DEF OpenPiece
  <2> QED
    BY <1>5, <2>2
<1>6. CASE m # a
  <2> DEFINE T == Append(S, s[a])
  <2>1. Len(S) = a - m /\ Len(S) \in Nat /\ Len(S) >= 1
    BY <1>1, <1>2, <1>6
  <2>2. s[a] \in Int
    BY <1>2, <1>4
  <2>3. T \in Seq(Int) /\ Len(T) = a + 1 - m /\ T[1] = S[1] /\ T[a - m + 1] = s[a]
    BY <1>1, <2>1, <2>2
  <2>4. ASSUME NEW j \in 2 .. Len(T)
        PROVE  T[j] = s[m + j - 1]
    <3>1. CASE j \in 2 .. Len(S)
      <4>1. T[j] = S[j]
        BY <1>1, <2>1, <2>2, <3>1
      <4>2. S[j] = s[m + j - 1]
        BY <1>0, <3>1, Zenon
      <4> QED
        BY <4>1, <4>2, Zenon
    <3>2. CASE j \notin 2 .. Len(S)
      <4>1. j = a - m + 1 /\ m + j - 1 = a
        BY <1>1, <1>2, <2>1, <2>3, <3>2
      <4> QED
        BY <2>3, <4>1, Zenon
    <3> QED
      BY <3>1, <3>2
  <2> HIDE DEF T
  <2>5. Len(T) = OpenLen(m, a + 1)
    <3>1. Len(T) = a + 1 - m
      BY <2>3, Zenon
    <3>2. m # a + 1
      BY <1>1, <1>2, <1>6
    <3> QED
      BY <1>1, <1>2, <3>1, <3>2 DEF OpenLen
  <2>6. s[m] <= T[1] /\ (m < l => T[1] < s[m + 1]) /\ (m = l => T[1] = s[m])
    BY <1>0, <2>3, Zenon
  <2>7. OpenPiece(T, s, m, a + 1, l)
    BY <1>4, <2>3, <2>4, <2>5, <2>6, Zenon DEF OpenPiece
  <2> QED
    BY <1>6, <2>7, Zenon DEF T
<1> QED
  BY <1>5, <1>6

(* It is cut at a time t up to that of the point looked at, *)
LEMMA OpenEnds ==
  ASSUME NEW s, Ordered(s), NEW l, NEW m, NEW a, NEW S,
         OpenPiece(S, s, m, a, l), m < a, a <= l,
         NEW t \in Int, S[1] < t, s[a - 1] < t, t <= s[a]
  PROVE  /\ Along(Append(S, t), s, m)
         /\ Append(S, t)[1] = S[1]
         /\ Append(S, t)[Len(Append(S, t))] = t
<1>0. /\ s[m] <= S[1] /\ (m < l => S[1] < s[m + 1]) /\ (m = l => S[1] = s[m])
      /\ \A j \in 2 .. Len(S) : S[j] = s[m + j - 1]
  BY Zenon DEF OpenPiece
<1>1. /\ S \in Seq(Int)
      /\ m \in 1 .. l /\ a \in m .. l + 1 /\ l \in 1 .. Len(s)
      /\ Len(S) = IF m = a THEN 1 ELSE a - m
  BY Zenon DEF OpenPiece, OpenLen
<1>2. s \in Seq(Int) /\ Len(s) \in Nat
  BY DEF Ordered
<1> DEFINE T == Append(S, t)
           n == a - m + 1
<1>3. l \in Int /\ m \in Int /\ a \in Int /\ 1 <= m /\ m < a /\ a <= l /\ l <= Len(s)
  BY <1>1, <1>2
<1>4. Len(S) = a - m /\ Len(S) \in Nat /\ Len(S) >= 1 /\ m < l /\ n \in Nat /\ n >= 2
  <2>1. m # a
    BY <1>3
  <2>2. Len(S) = a - m
    BY <1>1, <2>1
  <2> QED
    BY <1>3, <2>2
<1>5. T \in Seq(Int) /\ Len(T) = n /\ T[1] = S[1] /\ T[n] = t
  <2>1. S \in Seq(Int) /\ Len(S) \in Nat /\ Len(S) >= 1 /\ n = Len(S) + 1
    BY <1>1, <1>3, <1>4
  <2> HIDE DEF n
  <2> QED
    BY <2>1
<1>6. ASSUME NEW j \in 2 .. n - 1
      PROVE  T[j] = s[m + j - 1]
  <2>1. S \in Seq(Int) /\ j \in 2 .. Len(S) /\ j \in 1 .. Len(S)
    BY <1>1, <1>3, <1>4
  <2>2. T[j] = S[j]
    BY <2>1
  <2> QED
    BY <1>0, <2>1, <2>2, Zenon
<1>7. m \in 1 .. Len(s) /\ m + n - 1 <= Len(s) /\ m + n - 2 = a - 1 /\ m + n - 1 = a
  BY <1>2, <1>3
<1> HIDE DEF T, n
<1>8. s[m] <= T[1] /\ T[1] < s[m + 1] /\ T[1] < T[n]
  BY <1>0, <1>4, <1>5, Zenon
<1>9. s[m + n - 2] < T[n] /\ T[n] <= s[m + n - 1]
  BY <1>5, <1>7, Zenon
<1>10. Along(T, s, m)
  BY <1>4, <1>5, <1>6, <1>7, <1>8, <1>9, Zenon DEF Along
<1> QED
  BY <1>5, <1>10, Zenon DEF T

(* or at the point before it.                                              *)
LEMMA OpenEndsBefore ==
  ASSUME NEW s, Ordered(s), NEW l, NEW m, NEW a, NEW S,
         OpenPiece(S, s, m, a, l), m + 1 < a
  PROVE  Along(S, s, m) /\ S[Len(S)] = s[a - 1] /\ S[1] < s[a - 1]
<1>0. /\ s[m] <= S[1] /\ (m < l => S[1] < s[m + 1]) /\ (m = l => S[1] = s[m])
      /\ \A j \in 2 .. Len(S) : S[j] = s[m + j - 1]
  BY Zenon DEF OpenPiece
<1>1. /\ S \in Seq(Int)
      /\ m \in 1 .. l /\ a \in m .. l + 1 /\ l \in 1 .. Len(s)
      /\ Len(S) = IF m = a THEN 1 ELSE a - m
  BY Zenon DEF OpenPiece, OpenLen
<1>2. s \in Seq(Int) /\ Len(s) \in Nat
  BY DEF Ordered
<1> DEFINE n == Len(S)
           c == m + 1
           e == a - 1
           d == a - 2
<1>4. /\ n = a - m /\ n \in Nat /\ n >= 2 /\ m < l /\ n \in 2 .. n
      /\ m \in 1 .. Len(s) /\ c \in 1 .. Len(s) /\ e \in 1 .. Len(s) /\ d \in 1 .. Len(s)
      /\ c <= e /\ d < e /\ m + n - 1 = e /\ m + n - 2 = d /\ m + n - 1 <= Len(s)
      /\ n - 1 <= n /\ 1 \in 1 .. n
  BY <1>1, <1>2
<1> HIDE DEF n, c, e, d
<1>5. S[n] = s[e]
  <2>1. S[n] = s[m + n - 1]
    BY <1>0, <1>4, Zenon DEF n
  <2> QED
    BY <1>4, <2>1, Zenon
<1>6. s[c] <= s[e] /\ s[d] < s[e] /\ s[c] \in Int /\ s[d] \in Int /\ s[e] \in Int
  <2>1. /\ \A j \in 1 .. Len(s) : s[j] \in Int
        /\ \A j, k \in 1 .. Len(s) : (s[j] < s[k] <=> j < k) /\ (s[j] <= s[k] <=> j <= k)
    BY OrderedIs, Zenon
  <2> QED
    BY <1>4, <2>1, Zenon
<1>7. S[1] < s[c] /\ s[m] <= S[1] /\ S[1] \in Int
  <2>1. S[1] < s[m + 1]
    BY <1>0, <1>4, Zenon
  <2>2. S[1] \in Int
    BY <1>1, <1>4 DEF n
  <2> QED
    BY <1>0, <2>1, <2>2, Zenon DEF c
<1>8. S[1] < s[e]
  BY <1>6, <1>7
<1>9. \A j \in 2 .. n - 1 : j \in 2 .. n
  BY <1>4
<1>10. \A j \in 2 .. n - 1 : S[j] = s[m + j - 1]
  BY <1>0, <1>9, Zenon DEF n
<1>11. S[n] <= s[e] /\ s[d] < S[n] /\ S[1] < S[n]
  BY <1>5, <1>6, <1>8
<1>12. s[m + n - 2] < S[n] /\ S[n] <= s[m + n - 1] /\ S[1] < s[m + 1]
  BY <1>4, <1>7, <1>11, Zenon DEF c
<1>13. Along(S, s, m)
  BY <1>1, <1>4, <1>7, <1>10, <1>11, <1>12, Zenon DEF Along, n
<1> QED
  BY <1>5, <1>8, <1>13, Zenon DEF n, e
(* The interval of points that is looked up for a time. *)
LEMMA LeastNat ==
  ASSUME NEW S \in SUBSET Nat, S # {}
  PROVE  SP!Min(S) \in S /\ \A y \in S : SP!Min(S) <= y
<1>1. PICK x \in S : \A y \in S : ~(<<y, x>> \in OpToRel(<, Nat))
  BY NatLessThanWellFounded, WFMin
<1>2. ASSUME NEW y \in S
      PROVE  x <= y
  <2>1. x \in Nat /\ y \in Nat
    OBVIOUS
  <2>2. ~(y < x)
    BY <1>1, <2>1 DEF OpToRel
  <2> QED
    BY <2>1, <2>2
<1> QED
  BY <1>2 DEF SP!Min

(* The greater of two numbers. *)
LEMMA LargerOfTwo ==
  ASSUME NEW a \in Int, NEW b \in Int
  PROVE  SP!Max({a, b}) = IF a >= b THEN a ELSE b
<1>1. PICK x \in {a, b} : (\A y \in {a, b} : x >= y) /\ x = IF a >= b THEN a ELSE b
  OBVIOUS
<1>2. SP!Max({a, b}) \in {a, b} /\ \A y \in {a, b} : SP!Max({a, b}) >= y
  BY <1>1 DEF SP!Max
<1> QED
  BY <1>2

PartIs ==
  /\ Ordered(time)
  /\ SP!PartEnd \in 1 .. Len(time)
  /\ partStart \in 1 .. SP!PartEnd

(* The point looked up for a time is the first that is not before it. *)
LEMMA ReachingIs ==
  ASSUME PartIs, NEW t \in Int, t <= time[SP!PartEnd]
  PROVE  /\ SP!Reaching(t) \in 1 .. Len(time) /\ t <= time[SP!Reaching(t)]
         /\ SP!Before(t) \in 1 .. Len(time)
         /\ time[partStart] <= t => time[SP!Before(t)] <= t
<1> DEFINE r == SP!Reaching(t)
           e == SP!PartEnd
           K == {k \in partStart .. e : time[k] >= t}
<1>1. /\ \A j \in 1 .. Len(time) : time[j] \in Int
      /\ Len(time) \in Nat
  BY OrderedIs, Zenon DEF PartIs
<1>2. e \in 1 .. Len(time) /\ partStart \in 1 .. e
  BY Zenon DEF PartIs
<1> HIDE DEF e
<1>3. time[e] \in Int /\ partStart \in 1 .. Len(time) /\ e \in partStart .. e
  BY <1>1, <1>2
<1>4. e \in K
  <2>1. t <= time[e]
    BY Zenon DEF e
  <2> QED
    BY <1>3, <2>1
<1>5. K \in SUBSET Nat
  BY <1>1, <1>2
<1>6. r = SP!Min(K)
  BY Zenon DEF SP!Reaching, e
<1> HIDE DEF r
<1>7. r \in K /\ \A y \in K : r <= y
  BY <1>4, <1>5, <1>6, LeastNat
<1>8. r \in partStart .. e /\ time[r] >= t
  BY <1>7
<1>9. r \in 1 .. Len(time) /\ time[r] \in Int /\ t <= time[r]
  BY <1>1, <1>2, <1>8
<1>10. SP!Before(t) = IF partStart >= r - 1 THEN partStart ELSE r - 1
  <2>1. SP!Before(t) = SP!Max({partStart, r - 1})
    BY Zenon DEF SP!Before, r
  <2>2. partStart \in Int /\ r - 1 \in Int
    BY <1>3, <1>9
  <2> QED
    BY <2>1, <2>2, LargerOfTwo, Zenon
<1>11. CASE partStart >= r - 1
  BY <1>3, <1>9, <1>10, <1>11 DEF r
<1>12. CASE ~(partStart >= r - 1)
  <2> DEFINE q == r - 1
  <2>1. q \in partStart .. e /\ q \in 1 .. Len(time) /\ ~(r <= q)
    BY <1>1, <1>2, <1>3, <1>8, <1>12
  <2>2. SP!Before(t) = q
    BY <1>10, <1>12
  <2> HIDE DEF q
  <2>3. ~(time[q] >= t) /\ time[q] \in Int
    BY <1>1, <1>7, <2>1
  <2>4. time[q] <= t
    BY <2>3
  <2> QED
    BY <1>9, <2>1, <2>2, <2>4, Zenon DEF r
<1> QED
  BY <1>11, <1>12

(* A piece is recorded with the points it has. *)
Records(p, P) ==
  /\ p \in PieceSet /\ Right(time, p)
  /\ SP!Starts(p) = P[1] /\ SP!Ends(p) = P[Len(P)]

(* ISS, which notes its points, and GSS, which looks them up, both cut     *)
(* right pieces.                                                           *)
LEMMA CutRight ==
  ASSUME PartIs, NEW P, Along(P, time, ms), partStart <= ms, ms <= SP!PartEnd,
         NEW me \in 1 .. Len(time), P[Len(P)] <= time[me], P[Len(P)] <= time[SP!PartEnd]
  PROVE  Records(SP!Cut(me, P), P)
<1> DEFINE n == Len(P)
<1>0. Ordered(time)
  BY Zenon DEF PartIs
<1>1. /\ P \in Seq(Int) /\ n \in Nat /\ n >= 2 /\ ms \in 1 .. Len(time)
      /\ \A j \in 1 .. n : P[j] \in Int
      /\ time[ms] <= P[1] /\ P[1] < P[n]
  <2>1. AlongFacts(P, time, ms)
    BY <1>0, AlongIs, Zenon
  <2> QED
    BY <2>1, Zenon DEF AlongFacts
<1>2. /\ Len(time) \in Nat /\ \A j \in 1 .. Len(time) : time[j] \in Int
      /\ \A j, k \in 1 .. Len(time) : (time[j] < time[k] <=> j < k) /\ (time[j] <= time[k] <=> j <= k)
  BY <1>0, OrderedIs, Zenon
<1>3. CASE cut.by = "ISS"
  <2>1. SP!Cut(me, P) = SP!Piece(ms, me, P)
    BY <1>3 DEF SP!Cut
  <2> QED
    <3>1. ms \in 1 .. Len(time) /\ time[ms] <= P[1]
      BY <1>1, Zenon
    <3> HIDE DEF n
    <3>2. Records(SP!Piece(ms, me, P), P)
      BY <1>0, <3>1, PieceRight, Zenon DEF Records
    <3> QED
      BY <2>1, <3>2, Zenon
<1>4. CASE cut.by # "ISS"
  <2> DEFINE b == SP!Before(P[1])
             e == SP!Reaching(P[n])
  <2>0. P[1] \in Int /\ P[n] \in Int /\ P[1] <= P[n]
    <3>1. 1 \in 1 .. n /\ n \in 1 .. n
      BY <1>1
    <3>2. P[1] \in Int /\ P[n] \in Int /\ P[1] < P[n]
      BY <1>1, <3>1, Zenon
    <3> QED
      BY <3>2
  <2>1. SP!Cut(me, P) = SP!Piece(b, e, P)
    <3>1. P # <<>>
      BY <1>1
    <3>2. SP!Last(P) = P[n] /\ Head(P) = P[1]
      BY <1>1, <3>1 DEF SP!Last
    <3> QED
      BY <1>4, <3>2 DEF SP!Cut
  <2>2. /\ SP!PartEnd \in 1 .. Len(time) /\ time[SP!PartEnd] \in Int
        /\ partStart \in 1 .. Len(time) /\ time[partStart] \in Int /\ time[ms] \in Int
        /\ time[partStart] <= time[ms]
    <3>1. SP!PartEnd \in 1 .. Len(time) /\ partStart \in 1 .. SP!PartEnd
      BY Zenon DEF PartIs
    <3>2. partStart \in 1 .. Len(time)
      BY <1>2, <3>1
    <3> QED
      BY <1>1, <1>2, <3>1, <3>2, Zenon
  <2> HIDE DEF n
  <2>3. P[1] <= time[SP!PartEnd] /\ P[n] <= time[SP!PartEnd] /\ time[partStart] <= P[1]
    <3>1. P[n] <= time[SP!PartEnd]
      BY Zenon DEF n
    <3>2. time[ms] <= P[1]
      BY <1>1, Zenon
    <3> DEFINE a == P[1]
               c == P[n]
               x == time[partStart]
               y == time[ms]
               z == time[SP!PartEnd]
    <3>3. /\ a \in Int /\ c \in Int /\ x \in Int /\ y \in Int /\ z \in Int
          /\ a <= c /\ c <= z /\ x <= y /\ y <= a
      BY <2>0, <2>2, <3>1, <3>2, Zenon
    <3> HIDE DEF a, c, x, y, z
    <3>4. a <= z /\ c <= z /\ x <= a
      BY <3>3
    <3> QED
      BY <3>4, Zenon DEF a, c, x, z
  <2>4. b \in 1 .. Len(time) /\ time[b] <= P[1]
    BY <2>0, <2>3, ReachingIs, Zenon
  <2>5. e \in 1 .. Len(time) /\ P[n] <= time[e]
    BY <2>0, <2>3, ReachingIs, Zenon
  <2> HIDE DEF b, e
  <2>6. Records(SP!Piece(b, e, P), P)
    BY <1>0, <2>4, <2>5, PieceRight, Zenon DEF Records, n
  <2> QED
    BY <2>1, <2>6, Zenon
<1> QED
  BY <1>3, <1>4

-----------------------------------------------------------------------------
(* The invariant of the cutting: nothing is cut before the parts are       *)
(* chosen; the pieces are chained up to where the next one begins; the     *)
(* piece being gathered by number (ByNumber) or in stretches of time       *)
(* (ByTime) has the points since then; and how long pieces are.            *)
SplitTyped ==
  /\ cut \in {[by |-> "none", np |-> 0]} \cup Cuts
  /\ time \in Seq(Int)
  /\ partStart \in Nat /\ parts \in SUBSET Nat
  /\ at \in Nat /\ ms \in Nat /\ segStart \in Int
  /\ seg \in Seq(Int) /\ res \in Seq(PieceSet)
  /\ done \in BOOLEAN /\ exact \in SUBSET Nat

NotBegun ==
  /\ parts = {} /\ partStart = 1 /\ ~done
  /\ at = 0 /\ ms = 0
  /\ seg = <<>> /\ res = <<>> /\ exact = {}

ByNumber ==
  /\ at < Len(time) /\ (at = 0 => ms = 0) /\ (at > 0 => ms < at)
  /\ Len(seg) = at - ms
  /\ \A j \in 1 .. Len(seg) : seg[j] = time[ms + j]
  /\ Frontier(time, res) = time[ms + 1]

LongestRest == IF Len(res) \in exact THEN 2 * Stretch ELSE Stretch + Soft

ByTime ==
  /\ OpenPiece(seg, time, ms, at, SP!PartEnd)
  /\ partStart <= ms
  /\ seg[1] = Frontier(time, res)
  /\ seg[1] + Soft <= SP!End
  /\ at > ms + 1 => time[at - 1] < SP!End
  /\ SP!End - seg[1] <= LongestRest
  /\ cut.by # "OPTS" /\ res # <<>> => SP!End - seg[1] > Stretch - Soft

CutsPart ==
  /\ parts # {} /\ ~done
  /\ parts \subseteq 2 .. Len(time) /\ Len(time) \in parts
  /\ partStart \in 1 .. Len(time) /\ \A p \in parts : partStart < p
  /\ cut.by \notin {"RDP", "OPTS"} => parts = {Len(time)} /\ partStart = 1
  /\ at = 0 => seg = <<>> /\ Frontier(time, res) = time[partStart]
  /\ at = 0 /\ partStart = 1 => res = <<>>
  /\ at > 0 => cut.by = "FP" \/ SP!InStretches
  /\ cut.by = "FP" => ByNumber
  /\ at > 0 /\ SP!InStretches => ByTime

HasCut ==
  /\ parts = {} /\ done
  /\ Frontier(time, res) = time[Len(time)]
  /\ SP!InStretches => at = 0

LengthOf(p) == SP!Ends(p) - SP!Starts(p)

Longest(ex, k) == IF k - 1 \in ex THEN 2 * Stretch + Soft ELSE Stretch + 2 * Soft

Near(r, ex) == \A k \in 1 .. Len(r) : LengthOf(r[k]) < Longest(ex, k)

LongEnough(r, n) == \A k \in 2 .. n : LengthOf(r[k]) > Stretch - 2 * Soft

NearLength ==
  SP!InStretches =>
    /\ exact \subseteq 1 .. Len(res)
    /\ Near(res, exact)
    /\ cut.by # "OPTS" => LongEnough(res, IF done THEN Len(res) - 1 ELSE Len(res))

Called ==
  /\ cut \in Cuts /\ Ordered(time) /\ Len(time) >= 2
  /\ Chained(time, res)
  /\ NotBegun \/ CutsPart \/ HasCut
  /\ NearLength

SplitInv ==
  /\ SplitTyped
  /\ cut.by = "none" => NotBegun
  /\ cut.by # "none" => Called

(* Nothing is cut at first; *)
LEMMA SplitBegins == SP!Init => SplitInv
<1> SUFFICES ASSUME SP!Init PROVE SplitInv
  OBVIOUS
<1>1. SplitTyped
  <2>1. <<>> \in Seq(Int) /\ <<>> \in Seq(PieceSet)
    OBVIOUS
  <2>2. /\ cut \in {[by |-> "none", np |-> 0]} \cup Cuts
        /\ {} \in SUBSET Nat /\ 0 \in Nat /\ 1 \in Nat /\ 0 \in Int
    BY DEF SP!Init
  <2> QED
    BY <2>1, <2>2, Zenon DEF SP!Init, SplitTyped
<1>2. cut.by = "none" /\ NotBegun
  BY DEF SP!Init, NotBegun
<1> QED
  BY <1>1, <1>2 DEF SplitInv

(* a function is called with a trajectory of two points or more; *)
LEMMA SplitTaken ==
  ASSUME SplitInv, NEW s, Ordered(s), Len(s) >= 2, NEW c \in Cuts, SP!Take(s, c)
  PROVE  SplitInv'
<1>1. /\ cut.by = "none" /\ cut' = c /\ time' = s
      /\ UNCHANGED <<partStart, parts, at, ms, segStart, seg, res, done, exact>>
  BY DEF SP!Take
<1>2. SplitTyped /\ NotBegun
  BY <1>1 DEF SplitInv
<1>3. NotBegun'
  BY <1>1, <1>2 DEF NotBegun
<1>4. c.by # "none" /\ s \in Seq(Int)
  BY CutsAssumption DEF Ordered
<1>5. SplitTyped'
  BY <1>1, <1>2, <1>4 DEF SplitTyped
<1>6. Chained(s, <<>>) /\ Len(<<>>) = 0
  BY DEF Chained
<1>7. res' = <<>> /\ exact' = {} /\ done' = FALSE
  BY <1>3 DEF NotBegun
<1>8. NearLength'
  BY <1>6, <1>7 DEF NearLength, Near, LongEnough
<1>9. Called'
  BY <1>1, <1>3, <1>6, <1>7, <1>8 DEF Called
<1> QED
  BY <1>1, <1>4, <1>5, <1>9 DEF SplitInv
(* While there are parts, the first of them is being cut. *)
LEMMA FirstPart ==
  ASSUME SplitInv, parts # {}
  PROVE  /\ SplitTyped /\ Called /\ CutsPart /\ PartIs
         /\ SP!PartEnd \in parts /\ \A p \in parts : SP!PartEnd <= p
<1>1. SplitTyped /\ Called /\ CutsPart
  BY DEF SplitInv, NotBegun, Called, HasCut
<1>2. parts \in SUBSET Nat
  BY <1>1 DEF SplitTyped
<1>3. SP!PartEnd \in parts /\ \A p \in parts : SP!PartEnd <= p
  BY <1>2, LeastNat, Zenon DEF SP!PartEnd
<1>4. Ordered(time) /\ Len(time) \in Nat
  BY <1>1 DEF Called, Ordered
<1> DEFINE e == SP!PartEnd
<1> HIDE DEF e
<1>5. e \in 2 .. Len(time) /\ partStart \in 1 .. Len(time) /\ partStart < e
  BY <1>1, <1>3, Zenon DEF CutsPart, e
<1>6. e \in 1 .. Len(time) /\ partStart \in 1 .. e
  BY <1>4, <1>5
<1>7. PartIs
  BY <1>4, <1>6, Zenon DEF PartIs, e
<1> QED
  BY <1>1, <1>3, <1>7, Zenon

(* Whether stretches are cut depends on the call alone. *)
LEMMA SameCall ==
  ASSUME UNCHANGED <<cut, time>>
  PROVE  (SP!InStretches' <=> SP!InStretches) /\ (SP!AtOnce' <=> SP!AtOnce)
BY DEF SP!InStretches, SP!AtOnce, SP!Duration, SP!Last

(* A step of a function keeps the invariant if it keeps these parts of it. *)
LEMMA StillCalled ==
  ASSUME SplitInv, cut.by # "none", UNCHANGED <<cut, time>>,
         SplitTyped', Chained(time, res'), CutsPart' \/ HasCut', NearLength'
  PROVE  SplitInv'
<1>1. cut' = cut /\ time' = time
  OBVIOUS
<1>2. cut \in Cuts /\ Ordered(time) /\ Len(time) >= 2
  BY Zenon DEF SplitInv, Called
<1>3. Called'
  BY <1>1, <1>2, Zenon DEF Called
<1> QED
  BY <1>1, <1>3, Zenon DEF SplitInv

(* The next part is taken, or there is none left. *)
LEMMA PartDone ==
  ASSUME SplitInv, parts # {}, UNCHANGED <<cut, time>>, SP!NextPart,
         Frontier(time, res') = time[SP!PartEnd],
         parts' # {} => at' = 0 /\ seg' = <<>>,
         SP!InStretches => at' = 0
  PROVE  CutsPart' \/ HasCut'
<1> DEFINE e == SP!PartEnd
           n == Len(time)
<1>1. CutsPart /\ PartIs /\ SplitTyped
  BY FirstPart, Zenon
<1>2. e \in parts /\ \A p \in parts : e <= p
  BY FirstPart, Zenon
<1>3. /\ partStart' = e /\ parts' = parts \ {e} /\ (done' <=> parts' = {})
      /\ cut' = cut /\ time' = time /\ Frontier(time, res') = time[e]
  BY Zenon DEF SP!NextPart
<1> HIDE DEF e
<1>4. /\ parts \subseteq 2 .. n /\ n \in parts
      /\ cut.by \notin {"RDP", "OPTS"} => parts = {n}
  BY <1>1 DEF CutsPart
<1>5. n \in Nat
  BY <1>1 DEF PartIs, Ordered
<1>6. CASE parts' = {}
  <2>1. e = n
    BY <1>3, <1>4, <1>6
  <2>2. done' /\ Frontier(time', res') = time'[Len(time')]
    BY <1>3, <1>6, <2>1
  <2>3. SP!InStretches' => at' = 0
    BY SameCall
  <2> QED
    BY <1>6, <2>2, <2>3 DEF HasCut
<1>7. CASE parts' # {}
  <2>1. PICK p \in parts : p # e
    BY <1>3, <1>7
  <2>2. n # e
    BY <1>2, <1>4, <1>5, <2>1
  <2>3. parts' \subseteq 2 .. n /\ n \in parts' /\ e \in 1 .. n /\ e # 1
    BY <1>2, <1>3, <1>4, <1>5, <2>2
  <2>4. \A q \in parts' : e < q
    <3>1. \A q \in parts' : q \in parts /\ q # e /\ q \in Int
      BY <1>3, <1>4, <1>5
    <3> QED
      BY <1>2, <2>3, <3>1
  <2>5. cut.by \in {"RDP", "OPTS"}
    BY <1>2, <1>4, <2>1
  <2>6. ~done' /\ at' = 0 /\ seg' = <<>> /\ Frontier(time', res') = time'[partStart']
    BY <1>3, <1>7
  <2>7. cut'.by \in {"RDP", "OPTS"} /\ cut'.by # "FP"
    BY <1>3, <2>5
  <2>8. CutsPart'
    BY <1>3, <1>7, <2>3, <2>4, <2>6, <2>7 DEF CutsPart
  <2> QED
    BY <2>8
<1> QED
  BY <1>6, <1>7

(* The lengths of the pieces stay near while none is cut, *)
LEMMA NearStays ==
  ASSUME SplitTyped, NearLength, ~done, UNCHANGED <<cut, time, res, exact>>
  PROVE  NearLength'
<1>1. SP!InStretches' <=> SP!InStretches
  BY SameCall
<1>2. /\ cut' = cut /\ res' = res /\ exact' = exact
      /\ SP!InStretches =>
           /\ exact \subseteq 1 .. Len(res)
           /\ Near(res, exact)
           /\ cut.by # "OPTS" => LongEnough(res, Len(res))
  BY DEF NearLength
<1>3. LongEnough(res, Len(res)) => LongEnough(res, Len(res) - 1)
  <2>1. Len(res) \in Nat
    BY DEF SplitTyped
  <2>2. \A k \in 2 .. Len(res) - 1 : k \in 2 .. Len(res)
    BY <2>1
  <2> QED
    BY <2>2, Zenon DEF LongEnough
<1> QED
  BY <1>1, <1>2, <1>3 DEF NearLength

(* and with a piece of a length that is near. *)
LEMMA NearGrows ==
  ASSUME SplitTyped, NearLength, ~done, UNCHANGED <<cut, time>>,
         NEW p \in PieceSet, res' = Append(res, p),
         exact' \in {exact, exact \cup {Len(res) + 1}},
         SP!InStretches =>
           /\ LengthOf(p) < Longest(exact, Len(res) + 1)
           /\ cut.by # "OPTS" /\ ~done' /\ res # <<>> => LengthOf(p) > Stretch - 2 * Soft
  PROVE  NearLength'
<1> DEFINE n == Len(res)
           t == Append(res, p)
<1>1. res \in Seq(PieceSet) /\ n \in Nat
  BY DEF SplitTyped
<1>2. t = res' /\ Len(t) = n + 1 /\ t[n + 1] = p /\ \A k \in 1 .. n : t[k] = res[k]
  BY <1>1
<1>3. SP!InStretches' <=> SP!InStretches
  BY SameCall
<1> SUFFICES ASSUME SP!InStretches
             PROVE  /\ exact' \subseteq 1 .. n + 1
                    /\ Near(t, exact')
                    /\ cut.by # "OPTS" => LongEnough(t, IF done' THEN n ELSE n + 1)
  BY <1>1, <1>2, <1>3 DEF NearLength
<1>4. /\ exact \subseteq 1 .. n
      /\ Near(res, exact)
      /\ cut.by # "OPTS" => LongEnough(res, n)
  BY DEF NearLength
<1> HIDE DEF n, t
<1>5. exact' \subseteq 1 .. n + 1 /\ \A k \in 1 .. n + 1 : k - 1 \in exact' <=> k - 1 \in exact
  BY <1>1, <1>4 DEF n
<1>6. \A k \in 1 .. n + 1 : Longest(exact', k) = Longest(exact, k)
  BY <1>5 DEF Longest
<1>7. ASSUME NEW k \in 1 .. n + 1
      PROVE  LengthOf(t[k]) < Longest(exact', k)
  <2>1. CASE k \in 1 .. n
    BY <1>2, <1>4, <1>6, <2>1, Zenon DEF Near, n
  <2>2. CASE k = n + 1
    BY <1>2, <1>6, <2>2, Zenon DEF n
  <2> QED
    BY <1>1, <2>1, <2>2
<1>8. Near(t, exact')
  BY <1>2, <1>7, Zenon DEF Near
<1>9. ASSUME cut.by # "OPTS", NEW k \in 2 .. (IF done' THEN n ELSE n + 1)
      PROVE  LengthOf(t[k]) > Stretch - 2 * Soft
  <2>1. CASE k \in 2 .. n
    <3>1. k \in 1 .. n
      BY <1>1, <2>1
    <3> QED
      BY <1>2, <1>4, <1>9, <2>1, <3>1, Zenon DEF LongEnough
  <2>2. CASE k \notin 2 .. n
    <3>1. ~done' /\ k = n + 1 /\ n # 0
      BY <1>1, <1>9, <2>2
    <3>2. res # <<>>
      BY <3>1 DEF n
    <3> QED
      BY <1>2, <1>9, <3>1, <3>2, Zenon
  <2> QED
    BY <2>1, <2>2
<1>10. cut.by # "OPTS" => LongEnough(t, IF done' THEN n ELSE n + 1)
  BY <1>9, Zenon DEF LongEnough
<1> QED
  BY <1>5, <1>8, <1>10, Zenon

-----------------------------------------------------------------------------
(* Every step of the cutting keeps the invariant.                          *)
LEMMA SameCardinality == \A S : SP!Cardinality(S) = Cardinality(S)
BY DEF SP!Cardinality, Cardinality

(* Where one part is asked for there is one. *)
LEMMA OnePart ==
  ASSUME NEW S, IsFiniteSet(S), SP!Cardinality(S) < SP!Max({1, 1})
  PROVE  S = {}
<1>1. SP!Max({1, 1}) = 1
  BY LargerOfTwo
<1>2. Cardinality(S) < 1 /\ Cardinality(S) \in Nat
  BY <1>1, SameCardinality, FS_CardinalityType
<1>3. Cardinality(S) = 0
  BY <1>2
<1> QED
  BY <1>3, FS_EmptySet

(* simplifyWithRDPN leaves parts that end with the trajectory. *)
LEMMA PartsChosen ==
  ASSUME SplitInv, SP!ChooseParts
  PROVE  SplitInv'
<1> DEFINE n == Len(time)
<1>1. /\ cut.by # "none" /\ parts = {} /\ ~done
      /\ UNCHANGED <<cut, time, partStart, at, ms, segStart, seg, res, done, exact>>
  BY DEF SP!ChooseParts
<1>2. PICK points \in SUBSET (2 .. n - 1) :
        /\ SP!Cardinality(points) < SP!Max({1, SP!PartsAsked})
        /\ parts' = points \cup {n}
  BY DEF SP!ChooseParts
<1>3. Called /\ SplitTyped /\ NotBegun
  BY <1>1 DEF SplitInv, Called, CutsPart, HasCut
<1>4. n \in Nat /\ n >= 2 /\ Chained(time, res)
  BY <1>3 DEF Called, Ordered
<1>5. ASSUME cut.by \notin {"RDP", "OPTS"}
      PROVE  parts' = {n}
  <2>1. SP!PartsAsked = 1
    BY <1>5 DEF SP!PartsAsked
  <2>2. IsFiniteSet(points)
    <3>1. IsFiniteSet(2 .. n - 1)
      BY <1>4, FS_Interval
    <3> QED
      BY <3>1, FS_Subset
  <2>3. points = {}
    BY <1>2, <2>1, <2>2, OnePart, Zenon
  <2> QED
    BY <1>2, <2>3
<1>6. parts' # {} /\ parts' \subseteq 2 .. n /\ n \in parts' /\ parts' \in SUBSET Nat
  <2> HIDE DEF n
  <2>1. parts' = points \cup {n} /\ points \subseteq 2 .. n - 1 /\ n \in Nat /\ n >= 2
    BY <1>2, <1>4, Zenon
  <2> QED
    BY <2>1
<1>7. /\ partStart' = 1 /\ at' = 0 /\ ms' = 0 /\ seg' = <<>> /\ res' = <<>> /\ ~done'
      /\ cut' = cut /\ time' = time
  BY <1>1, <1>3 DEF NotBegun
<1>8. \A p \in parts' : 1 < p
  BY <1>4, <1>6
<1>9. ByNumber'
  BY <1>4, <1>7 DEF ByNumber, Frontier
<1>10. CutsPart'
  BY <1>4, <1>5, <1>6, <1>7, <1>8, <1>9 DEF CutsPart, Frontier
<1>11. SplitTyped'
  BY <1>1, <1>3, <1>6 DEF SplitTyped
<1>12. NearLength'
  BY <1>1, <1>3, NearStays DEF Called
<1>13. Chained(time, res')
  BY <1>1, <1>4
<1> QED
  BY <1>1, <1>10, <1>11, <1>12, <1>13, StillCalled

(* Consecutive points of a trajectory are along it. *)
LEMMA StretchAlong ==
  ASSUME NEW s, Ordered(s), NEW b \in 1 .. Len(s), NEW e \in 1 .. Len(s), b < e
  PROVE  /\ Along(SubSeq(s, b, e), s, b)
         /\ SubSeq(s, b, e)[1] = s[b]
         /\ SubSeq(s, b, e)[Len(SubSeq(s, b, e))] = s[e]
<1> DEFINE P == SubSeq(s, b, e)
           n == e - b + 1
           l == Len(s)
<1>1. /\ s \in Seq(Int) /\ l \in Nat
      /\ \A j \in 1 .. l : s[j] \in Int
      /\ \A j, k \in 1 .. l : (s[j] < s[k] <=> j < k) /\ (s[j] <= s[k] <=> j <= k)
  BY OrderedIs, Zenon
<1>2. s \in Seq(Int) /\ l \in Nat
  BY <1>1, Zenon
<1>3. /\ P \in Seq(Int) /\ Len(P) = n /\ n \in Nat /\ n >= 2
      /\ \A j \in 1 .. n : P[j] = s[b + j - 1]
  <2>1. n \in Nat /\ n >= 2
    BY <1>2
  <2> QED
    BY <1>2, <2>1
<1> DEFINE c == b + 1
           d == e - 1
<1>4. /\ c \in 1 .. l /\ d \in 1 .. l /\ b \in 1 .. l /\ e \in 1 .. l /\ b + n - 1 = e /\ b + n - 2 = d
      /\ 1 \in 1 .. n /\ n \in 1 .. n /\ b + 1 - 1 = b /\ b + n - 1 <= l /\ b < c /\ d < e /\ b < e
  BY <1>2
<1> HIDE DEF P, n, c, d, l
<1>5. P[1] = s[b] /\ P[n] = s[e]
  <2>1. P[1] = s[b + 1 - 1] /\ P[n] = s[b + n - 1]
    BY <1>3, <1>4, Zenon
  <2> QED
    BY <1>4, <2>1, Zenon
<1>6. s[b] < s[c] /\ s[d] < s[e] /\ s[b] < s[e] /\ s[b] \in Int /\ s[e] \in Int
  BY <1>1, <1>4, Zenon
<1>7. s[b] <= s[b] /\ s[e] <= s[e]
  BY <1>6
<1>8. \A j \in 2 .. n - 1 : j \in 1 .. n
  BY <1>3
<1>9. \A j \in 2 .. n - 1 : P[j] = s[b + j - 1]
  BY <1>3, <1>8, Zenon
<1>10. s[b] <= P[1] /\ P[1] < s[b + 1] /\ P[1] < P[n] /\ s[b + n - 2] < P[n] /\ P[n] <= s[b + n - 1]
  BY <1>4, <1>5, <1>6, <1>7, Zenon DEF c
<1>11. Along(P, s, b)
  BY <1>3, <1>4, <1>9, <1>10, Zenon DEF Along, l
<1> QED
  BY <1>3, <1>5, <1>11, Zenon DEF P

(* RDP, OneBox, and OPTS of a short trajectory: a piece for each part. *)
LEMMA PieceOfPart ==
  ASSUME SplitInv, SP!PiecePerPart
  PROVE  SplitInv'
<1> DEFINE P == SubSeq(time, partStart, SP!PartEnd)
           p == SP!Piece(partStart, SP!PartEnd, P)
<1>1. /\ parts # {} /\ SP!AtOnce /\ SP!NextPart /\ res' = Append(res, p)
      /\ UNCHANGED <<cut, time, at, ms, segStart, seg, exact>>
  BY Zenon DEF SP!PiecePerPart
<1>2. SplitTyped /\ Called /\ CutsPart /\ PartIs
  BY <1>1, FirstPart, Zenon
<1>3. /\ SP!PartEnd \in parts /\ SP!PartEnd \in 1 .. Len(time) /\ partStart \in 1 .. Len(time)
      /\ partStart < SP!PartEnd
  BY <1>1, <1>2, FirstPart, Zenon DEF CutsPart, PartIs
<1>4. /\ Ordered(time) /\ Chained(time, res)
      /\ \A j \in 1 .. Len(time) : time[j] \in Int
  BY <1>2, OrderedIs, Zenon DEF Called
<1>5. at = 0 /\ seg = <<>> /\ Frontier(time, res) = time[partStart] /\ ~done
  BY <1>1, <1>2 DEF CutsPart, SP!InStretches, SP!AtOnce, SplitTyped
<1>6. /\ Along(P, time, partStart) /\ P[1] = time[partStart] /\ P[Len(P)] = time[SP!PartEnd]
  BY <1>3, <1>4, StretchAlong, Zenon
<1>7. time[partStart] \in Int /\ time[SP!PartEnd] \in Int
  BY <1>3, <1>4, Zenon
<1>8. time[partStart] <= P[1] /\ P[Len(P)] <= time[SP!PartEnd]
  BY <1>6, <1>7
<1>9. /\ p \in PieceSet /\ Right(time, p)
      /\ SP!Starts(p) = P[1] /\ SP!Ends(p) = P[Len(P)]
  BY <1>3, <1>4, <1>6, <1>8, PieceRight, Zenon
<1> HIDE DEF p, P
<1>10. Chained(time, res') /\ Frontier(time, res') = time[SP!PartEnd]
  BY <1>1, <1>4, <1>5, <1>6, <1>9, ChainGrows, Zenon
<1>11. UNCHANGED <<cut, time>> /\ at' = 0 /\ seg' = <<>> /\ exact' = exact /\ ~SP!InStretches /\ cut.by # "none"
  BY <1>1, <1>5 DEF SP!InStretches, SP!AtOnce
<1>12. CutsPart' \/ HasCut'
  BY <1>1, <1>10, <1>11, PartDone, Zenon
<1>13. NearLength'
  <2>1. exact' \in {exact, exact \cup {Len(res) + 1}}
    BY <1>11
  <2> QED
    BY <1>1, <1>2, <1>5, <1>9, <1>11, <2>1, NearGrows, Zenon DEF Called
<1>14. SplitTyped'
  <2>1. res' \in Seq(PieceSet)
    BY <1>10 DEF Chained
  <2> QED
    BY <1>1, <1>2, <1>3, <2>1 DEF SplitTyped, SP!NextPart
<1> QED
  BY <1>10, <1>11, <1>12, <1>13, <1>14, StillCalled, Zenon

LinePieces(s) == [k \in 1 .. Len(s) - 1 |-> SP!Piece(k, k + 1, SubSeq(s, k, k + 1))]

(* EveryLine: a piece for each line. *)
LEMMA LineByLine ==
  ASSUME NEW s, Ordered(s), Len(s) >= 2
  PROVE  Chained(s, LinePieces(s)) /\ Frontier(s, LinePieces(s)) = s[Len(s)]
<1> DEFINE n == Len(s)
           r == LinePieces(s)
<1>1. n \in Nat /\ n >= 2 /\ \A j \in 1 .. n : s[j] \in Int
  BY OrderedIs, Zenon
<1>0. DOMAIN r = 1 .. n - 1 /\ \A k \in 1 .. n - 1 : r[k] = SP!Piece(k, k + 1, SubSeq(s, k, k + 1))
  BY DEF LinePieces
<1> HIDE DEF r
<1>2. ASSUME NEW k \in 1 .. n - 1
      PROVE  /\ r[k] \in PieceSet /\ Right(s, r[k])
             /\ SP!Starts(r[k]) = s[k] /\ SP!Ends(r[k]) = s[k + 1]
  <2> DEFINE e == k + 1
             P == SubSeq(s, k, e)
  <2>1. k \in 1 .. n /\ e \in 1 .. n /\ k < e
    BY <1>1
  <2>2. r[k] = SP!Piece(k, e, P)
    BY <1>0, Zenon
  <2> HIDE DEF e
  <2>3. Along(P, s, k) /\ P[1] = s[k] /\ P[Len(P)] = s[e]
    BY <2>1, StretchAlong, Zenon
  <2>4. s[k] \in Int /\ s[e] \in Int
    BY <1>1, <2>1, Zenon
  <2>5. s[k] <= P[1] /\ P[Len(P)] <= s[e]
    <3>1. s[k] <= s[k] /\ s[e] <= s[e]
      BY <2>4
    <3> HIDE DEF P
    <3> QED
      BY <2>3, <3>1, Zenon
  <2> HIDE DEF P
  <2> DEFINE p == SP!Piece(k, e, P)
  <2>6. /\ p \in PieceSet /\ Right(s, p)
        /\ SP!Starts(p) = P[1] /\ SP!Ends(p) = P[Len(P)]
    BY <2>1, <2>3, <2>5, PieceRight, Zenon
  <2> HIDE DEF p
  <2>7. r[k] = p
    BY <2>2, Zenon DEF p
  <2> QED
    BY <2>3, <2>6, <2>7, Zenon DEF e
<1>3. r \in Seq(PieceSet) /\ Len(r) = n - 1 /\ n - 1 \in 1 .. n - 1
  <2> HIDE DEF n
  <2>0. n - 1 \in Nat /\ n - 1 \in 1 .. n - 1
    BY <1>1
  <2>1. r = [k \in DOMAIN r |-> r[k]]
    BY DEF r, LinePieces
  <2>2. r \in [1 .. n - 1 -> PieceSet]
    BY <1>0, <1>2, <2>1
  <2> QED
    BY <2>0, <2>2
<1> HIDE DEF n
<1>4. r # <<>>
  <2>1. Len(r) # 0
    BY <1>1, <1>3
  <2> QED
    BY <2>1
<1>5. ASSUME NEW k \in 1 .. n - 1
      PROVE  SP!Starts(r[k]) = IF k = 1 THEN s[1] ELSE SP!Ends(r[k - 1])
  <2>1. CASE k = 1
    BY <1>2, <2>1, Zenon
  <2>2. CASE k # 1
    <3>1. PICK j \in 1 .. n - 1 : j = k - 1 /\ j + 1 = k
      BY <1>1, <2>2
    <3>2. SP!Ends(r[j]) = s[k]
      BY <1>2, <3>1, Zenon
    <3> QED
      BY <1>2, <2>2, <3>1, <3>2, Zenon
  <2> QED
    BY <2>1, <2>2
<1>6. Chained(s, r)
  <2>1. Len(r) = n - 1 /\ r \in Seq(PieceSet)
    BY <1>3
  <2> QED
    BY <1>2, <1>5, <2>1 DEF Chained
<1>7. Frontier(s, r) = s[n]
  <2> DEFINE d == n - 1
  <2>1. d \in 1 .. n - 1 /\ d + 1 = n /\ Len(r) = d
    BY <1>1, <1>3
  <2> HIDE DEF d
  <2>2. SP!Ends(r[d]) = s[d + 1]
    BY <1>2, <2>1, Zenon
  <2> QED
    BY <1>4, <2>1, <2>2, Zenon DEF Frontier
<1> QED
  BY <1>6, <1>7, Zenon DEF n, r

(* So the invariant holds of them. *)
LEMMA PieceOfLine ==
  ASSUME SplitInv, SP!PiecePerLine
  PROVE  SplitInv'
<1>1. /\ parts # {} /\ cut.by = "EveryLine" /\ SP!NextPart
      /\ res' = [k \in 1 .. Len(time) - 1 |-> SP!Piece(k, k + 1, SubSeq(time, k, k + 1))]
      /\ UNCHANGED <<cut, time, at, ms, segStart, seg, exact>>
  BY Zenon DEF SP!PiecePerLine
<1>2. SplitTyped /\ Called /\ CutsPart /\ PartIs /\ SP!PartEnd \in parts
  BY <1>1, FirstPart, Zenon
<1>3. parts = {Len(time)} /\ SP!PartEnd = Len(time)
  BY <1>1, <1>2 DEF CutsPart
<1>4. Chained(time, res') /\ Frontier(time, res') = time[SP!PartEnd]
  <2>1. res' = LinePieces(time)
    BY <1>1, Zenon DEF LinePieces
  <2> QED
    BY <1>2, <1>3, <2>1, LineByLine, Zenon DEF Called
<1>5. parts' = {} /\ ~SP!InStretches /\ UNCHANGED <<cut, time>> /\ cut.by # "none"
  BY <1>1, <1>3 DEF SP!NextPart, SP!InStretches
<1>6. CutsPart' \/ HasCut'
  BY <1>1, <1>4, <1>5, PartDone, Zenon
<1>7. NearLength'
  BY <1>5, SameCall, Zenon DEF NearLength
<1>8. SplitTyped'
  <2>1. res' \in Seq(PieceSet)
    BY <1>4 DEF Chained
  <2>2. SP!PartEnd \in Nat
    BY <1>2 DEF SplitTyped
  <2> QED
    BY <1>1, <1>2, <1>5, <2>1, <2>2 DEF SplitTyped, SP!NextPart
<1> QED
  BY <1>4, <1>5, <1>6, <1>7, <1>8, StillCalled, Zenon

(* The points of a piece of FP. *)
Gathered(S, s, m, a) ==
  /\ S \in Seq(Int) /\ Len(S) = a - m
  /\ \A j \in 1 .. Len(S) : S[j] = s[m + j]

(* One more is gathered; two or more are a piece. *)
LEMMA GathersOne ==
  ASSUME NEW s, Ordered(s), NEW a \in Nat, NEW m \in 0 .. a, NEW S, Gathered(S, s, m, a),
         NEW k \in 1 .. Len(s), k = a + 1
  PROVE  /\ Gathered(Append(S, s[k]), s, m, k)
         /\ k >= m + 2 =>
              /\ Along(Append(S, s[k]), s, m + 1)
              /\ Append(S, s[k])[1] = s[m + 1]
              /\ Append(S, s[k])[Len(Append(S, s[k]))] = s[k]
<1> DEFINE T == Append(S, s[k])
           n == k - m
           b == m + 1
           l == Len(s)
<1>1. /\ l \in Nat
      /\ \A j \in 1 .. l : s[j] \in Int
      /\ \A i, j \in 1 .. l : (s[i] < s[j] <=> i < j) /\ (s[i] <= s[j] <=> i <= j)
  BY OrderedIs, Zenon
<1>2. l \in Nat /\ s[k] \in Int /\ S \in Seq(Int) /\ Len(S) = a - m /\ n \in Nat /\ n >= 1
      /\ b \in 1 .. l
  BY <1>1 DEF Gathered
<1>3. \A j \in 1 .. Len(S) : S[j] = s[m + j]
  BY Zenon DEF Gathered
<1>4. /\ T \in Seq(Int) /\ Len(T) = n /\ T[n] = s[k]
      /\ \A j \in 1 .. a - m : T[j] = S[j]
  BY <1>2
<1>5. ASSUME NEW j \in 1 .. n
      PROVE  T[j] = s[m + j]
  <2>1. CASE j \in 1 .. a - m
    BY <1>2, <1>3, <1>4, <2>1, Zenon
  <2>2. CASE j \notin 1 .. a - m
    <3>1. j = n /\ m + j = k
      BY <1>2, <2>2
    <3> QED
      BY <1>4, <3>1, Zenon
  <2> QED
    BY <2>1, <2>2
<1> HIDE DEF T, n, b, l
<1>6. Gathered(T, s, m, k)
  <2>1. Len(T) = k - m
    BY <1>4 DEF n
  <2> QED
    BY <1>4, <1>5, <2>1, Zenon DEF Gathered
<1>7. ASSUME k >= m + 2
      PROVE  Along(T, s, b) /\ T[1] = s[b] /\ T[Len(T)] = s[k]
  <2> DEFINE c == m + 2
             d == k - 1
  <2>1. /\ n \in Nat /\ n >= 2 /\ b \in 1 .. l /\ b + n - 1 = k /\ b + n - 2 = d
        /\ c \in 1 .. l /\ d \in 1 .. l /\ b < c /\ b + 1 = c /\ d < k /\ b < k
        /\ 1 \in 1 .. n /\ n \in 1 .. n /\ m + 1 = b /\ b + n - 1 <= l /\ k \in 1 .. l
    BY <1>2, <1>7 DEF n, b, l
  <2> HIDE DEF c, d
  <2>2. T[1] = s[b] /\ T[n] = s[k]
    BY <1>4, <1>5, <2>1, Zenon
  <2>3. s[b] < s[c] /\ s[d] < s[k] /\ s[b] < s[k] /\ s[b] \in Int /\ s[k] \in Int
    BY <1>1, <2>1, Zenon
  <2>4. s[b] <= s[b] /\ s[k] <= s[k]
    BY <2>3
  <2>5. \A j \in 2 .. n - 1 : j \in 1 .. n /\ b + j - 1 = m + j
    BY <1>2, <2>1 DEF b
  <2>6. \A j \in 2 .. n - 1 : T[j] = s[b + j - 1]
    BY <1>5, <2>5
  <2>7. s[b] <= T[1] /\ T[1] < s[b + 1] /\ T[1] < T[n] /\ s[b + n - 2] < T[n] /\ T[n] <= s[b + n - 1]
    BY <2>1, <2>2, <2>3, <2>4, Zenon
  <2>8. Along(T, s, b)
    BY <1>4, <2>1, <2>6, <2>7, Zenon DEF Along, l
  <2> QED
    BY <1>4, <2>2, <2>8, Zenon
<1> QED
  BY <1>6, <1>7, Zenon DEF T, b

(* FP: a piece for so many points. *)
LEMMA PieceOfNumber ==
  ASSUME SplitInv, SP!CutByNumber
  PROVE  SplitInv'
<1> DEFINE n == Len(time)
           k == at + 1
           full == Append(seg, time[k])
           ends == k = n \/ Len(full) >= cut.np
           b == ms + 1
           p == SP!Piece(b, k, full)
<1>1. /\ parts # {} /\ cut.by = "FP" /\ at' = k
      /\ res' = IF ends THEN Append(res, p) ELSE res
      /\ seg' = IF ends THEN <<time[k]>> ELSE full
      /\ ms' = IF ends THEN k - 1 ELSE ms
      /\ IF k = n THEN SP!NextPart ELSE UNCHANGED <<partStart, parts, done>>
      /\ UNCHANGED <<cut, time, segStart, exact>>
  BY DEF SP!CutByNumber
<1>2. SplitTyped /\ Called /\ CutsPart /\ PartIs /\ SP!PartEnd \in parts
  BY <1>1, FirstPart, Zenon
<1>3. parts = {n} /\ SP!PartEnd = n /\ partStart = 1 /\ ByNumber /\ ~done
  BY <1>1, <1>2 DEF CutsPart
<1>4. /\ n \in Nat /\ \A j \in 1 .. n : time[j] \in Int
      /\ Ordered(time) /\ n >= 2 /\ Chained(time, res) /\ NearLength /\ cut \in Cuts
  BY <1>2, OrderedIs, Zenon DEF Called
<1>5. /\ at \in Nat /\ ms \in 0 .. at /\ at < n /\ (at > 0 => ms < at)
      /\ seg \in Seq(Int) /\ res \in Seq(PieceSet)
  BY <1>2, <1>3 DEF ByNumber, SplitTyped
<1>6. Gathered(seg, time, ms, at)
  BY <1>2, <1>3 DEF ByNumber, SplitTyped, Gathered
<1>7. Frontier(time, res) = time[b]
  BY <1>3, Zenon DEF ByNumber
<1> HIDE DEF n, k, full, ends, b, p
<1>8. k \in 1 .. n /\ k = at + 1 /\ b \in 1 .. n /\ b = ms + 1
  BY <1>4, <1>5 DEF k, b
<1>9. /\ Gathered(full, time, ms, k)
      /\ k >= ms + 2 =>
           Along(full, time, b) /\ full[1] = time[b] /\ full[Len(full)] = time[k]
  <2>1. /\ Gathered(Append(seg, time[k]), time, ms, k)
        /\ k >= ms + 2 =>
             /\ Along(Append(seg, time[k]), time, ms + 1)
             /\ Append(seg, time[k])[1] = time[ms + 1]
             /\ Append(seg, time[k])[Len(Append(seg, time[k]))] = time[k]
    <3>1. k \in 1 .. Len(time)
      BY <1>8 DEF n
    <3> QED
      BY <1>4, <1>5, <1>6, <1>8, <3>1, GathersOne
  <2> QED
    BY <2>1, Zenon DEF full, b
<1>10. /\ UNCHANGED <<cut, time>> /\ ~SP!InStretches /\ exact' = exact /\ cut.by # "none"
       /\ time[k] \in Int /\ time[b] \in Int /\ segStart' = segStart /\ at' = k
  BY <1>1, <1>4, <1>8 DEF SP!InStretches
<1>11. NearLength'
  BY <1>10, SameCall, Zenon DEF NearLength
<1>12. Len(full) = k - ms /\ full \in Seq(Int) /\ \A j \in 1 .. Len(full) : full[j] = time[ms + j]
  BY <1>9, Zenon DEF Gathered
<1>13. CASE ends
  <2>1. k >= ms + 2
    <3>1. CASE k = n
      BY <1>4, <1>5, <1>8, <3>1
    <3>2. CASE k # n
      <4>1. Len(full) >= cut.np
        BY <1>13, <3>2, Zenon DEF ends
      <4>2. cut.np \in Nat /\ cut.np >= 2
        BY <1>1, <1>4, CutsAssumption
      <4> QED
        BY <1>5, <1>8, <1>12, <4>1, <4>2
    <3> QED
      BY <3>1, <3>2
  <2>2. Along(full, time, b) /\ full[1] = time[b] /\ full[Len(full)] = time[k]
    BY <1>9, <2>1, Zenon
  <2>3. time[b] <= full[1] /\ full[Len(full)] <= time[k]
    BY <1>10, <2>2
  <2>4. /\ p \in PieceSet /\ Right(time, p)
        /\ SP!Starts(p) = full[1] /\ SP!Ends(p) = full[Len(full)]
    BY <1>4, <1>8, <2>2, <2>3, PieceRight, Zenon DEF p, n
  <2>5. Chained(time, res') /\ Frontier(time, res') = time[k]
    BY <1>1, <1>4, <1>7, <1>13, <2>2, <2>4, ChainGrows, Zenon
  <2>6. seg' = <<time[k]>> /\ ms' = k - 1 /\ ms' = at /\ at' = k
    BY <1>1, <1>5, <1>8, <1>13
  <2>7. CASE k = n
    <3>1. SP!NextPart /\ parts' = {}
      BY <1>1, <1>3, <2>7 DEF SP!NextPart
    <3>2. CutsPart' \/ HasCut'
      BY <1>1, <1>3, <1>10, <2>5, <2>7, <3>1, PartDone, Zenon
    <3>3. SplitTyped'
      <4>1. res' \in Seq(PieceSet)
        BY <2>5 DEF Chained
      <4>2. partStart' \in Nat /\ done' \in BOOLEAN
        BY <1>3, <1>4, <3>1 DEF SP!NextPart
      <4>3. /\ seg' \in Seq(Int) /\ ms' \in Nat /\ at' \in Nat /\ parts' \in SUBSET Nat
            /\ segStart' = segStart
        BY <1>5, <1>8, <1>10, <2>6, <3>1
      <4> QED
        BY <1>2, <1>10, <4>1, <4>2, <4>3 DEF SplitTyped
    <3> QED
      BY <1>10, <1>11, <2>5, <3>2, <3>3, StillCalled, Zenon
  <2>8. CASE k # n
    <3>1. UNCHANGED <<partStart, parts, done>>
      BY <1>1, <2>8
    <3>2. ByNumber'
      <4>1. k < n /\ k > 0 /\ at < k /\ n = Len(time')
        BY <1>4, <1>5, <1>8, <1>10, <2>8 DEF n
      <4>2. Len(seg') = 1 /\ seg'[1] = time'[k] /\ k - at = 1
        BY <1>1, <1>5, <1>8, <2>6
      <4>3. Frontier(time', res') = time'[at + 1]
        BY <1>1, <1>8, <2>5
      <4>4. \A j \in 1 .. Len(seg') : seg'[j] = time'[at + j]
        BY <1>8, <4>2
      <4> QED
        BY <1>5, <2>6, <4>1, <4>2, <4>3, <4>4 DEF ByNumber
    <3>3. CutsPart'
      <4>1. at' # 0 /\ cut'.by = "FP" /\ time' = time
        BY <1>1, <1>8
      <4> QED
        BY <1>1, <1>2, <1>10, <3>1, <3>2, <4>1 DEF CutsPart, SP!InStretches
    <3>4. SplitTyped'
      <4>1. res' \in Seq(PieceSet)
        BY <2>5 DEF Chained
      <4>2. seg' \in Seq(Int) /\ ms' \in Nat /\ at' \in Nat /\ segStart' = segStart
        BY <1>5, <1>8, <1>10, <2>6
      <4> QED
        BY <1>2, <1>10, <3>1, <4>1, <4>2 DEF SplitTyped
    <3> QED
      BY <1>10, <1>11, <2>5, <3>3, <3>4, StillCalled, Zenon
  <2> QED
    BY <2>7, <2>8
<1>14. CASE ~ends
  <2>1. k # n /\ res' = res /\ seg' = full /\ ms' = ms /\ UNCHANGED <<partStart, parts, done>>
    BY <1>1, <1>14 DEF ends
  <2>2. ByNumber'
    <3>1. k < n /\ k > 0 /\ ms < k /\ n = Len(time')
      BY <1>1, <1>4, <1>5, <1>8, <2>1 DEF n
    <3>2. Frontier(time', res') = time'[ms' + 1]
      BY <1>1, <1>7, <1>8, <2>1
    <3>3. \A j \in 1 .. Len(seg') : seg'[j] = time'[ms' + j]
      BY <1>1, <1>12, <2>1
    <3>4. Len(seg') = at' - ms' /\ at' = k /\ ms' = ms
      BY <1>1, <1>12, <2>1
    <3> QED
      BY <3>1, <3>2, <3>3, <3>4 DEF ByNumber
  <2>3. CutsPart'
    <3>1. at' # 0 /\ cut'.by = "FP" /\ time' = time
      BY <1>1, <1>8
    <3> QED
      BY <1>1, <1>2, <1>10, <2>1, <2>2, <3>1 DEF CutsPart, SP!InStretches
  <2>4. SplitTyped'
    <3>1. seg' \in Seq(Int) /\ ms' \in Nat /\ at' \in Nat /\ segStart' = segStart
      BY <1>1, <1>5, <1>8, <1>12, <2>1
    <3> QED
      BY <1>2, <1>10, <2>1, <3>1 DEF SplitTyped
  <2>5. Chained(time, res')
    BY <1>4, <2>1
  <2> QED
    BY <1>10, <1>11, <2>3, <2>4, <2>5, StillCalled, Zenon
<1> QED
  BY <1>13, <1>14

(* What the length and the tolerance are. *)
LEMMA SplitNumbers ==
  /\ Stretch \in Nat /\ Soft \in Nat /\ Soft >= 1 /\ 2 * Soft < Stretch /\ Stretch >= 1
BY SplitAssumption

(* The grid has a line at most Soft after t, and none until the next one.  *)
LEMMA OnGrid ==
  ASSUME NEW t \in Int
  PROVE  /\ SP!GridStart(t) \in Int
         /\ SP!GridStart(t) <= t + Soft /\ t + Soft < SP!GridStart(t) + Stretch
<1> DEFINE a == t - Stretch + Soft
           q == a \div Stretch
<1>1. a \in Int /\ Stretch \in Int /\ Stretch > 0 /\ Soft \in Int /\ a = t - Stretch + Soft
  BY SplitNumbers
<1> HIDE DEF a
<1>2. q \in Int /\ q * Stretch <= a /\ a < (q + 1) * Stretch
  BY <1>1
<1> HIDE DEF q
<1>3. q * Stretch \in Int /\ (q + 1) * Stretch = q * Stretch + Stretch
  BY <1>1, <1>2
<1>4. SP!GridStart(t) = (q + 1) * Stretch
  BY Zenon DEF SP!GridStart, q, a
<1> DEFINE g == (q + 1) * Stretch
           f == q * Stretch
<1>5. g = f + Stretch /\ f \in Int /\ f <= a /\ a < g
  BY <1>2, <1>3
<1> HIDE DEF g, f
<1>6. g \in Int /\ g <= t + Soft /\ t + Soft < g + Stretch
  BY <1>1, <1>5
<1> QED
  BY <1>4, <1>6 DEF g

(* What is known of the piece that is being gathered. *)
LEMMA Gathering ==
  ASSUME SplitInv, SP!InStretches, at > 0, parts # {} \/ SP!Looking
  PROVE  /\ parts # {} /\ ByTime /\ cut.by # "none"
         /\ SplitTyped /\ Called /\ CutsPart /\ PartIs
         /\ SP!PartEnd \in parts /\ SP!PartEnd \in 1 .. Len(time)
         /\ ms \in 1 .. SP!PartEnd /\ at \in ms .. SP!PartEnd + 1
         /\ seg \in Seq(Int) /\ seg[1] \in Int /\ SP!End \in Int
         /\ Ordered(time) /\ Len(time) \in Nat
<1>1. parts # {} /\ cut.by # "none" /\ ~(at = 0)
  BY DEF SplitInv, NotBegun, Called, CutsPart, HasCut, SP!InStretches
<1>2. /\ SplitTyped /\ Called /\ CutsPart /\ PartIs /\ SP!PartEnd \in parts
  BY <1>1, FirstPart, Zenon
<1>3. ByTime
  BY <1>2 DEF CutsPart
<1>4. Ordered(time) /\ SP!PartEnd \in 1 .. Len(time)
  BY <1>2, Zenon DEF PartIs
<1>5. /\ seg \in Seq(Int)
      /\ ms \in 1 .. SP!PartEnd /\ at \in ms .. SP!PartEnd + 1
      /\ Len(seg) = OpenLen(ms, at)
  BY <1>3, Zenon DEF ByTime, OpenPiece
<1>6. Len(time) \in Nat
  BY <1>4 DEF Ordered
<1>7. SP!End \in Int
  BY <1>2, SplitNumbers DEF SplitTyped, SP!End
<1> DEFINE e == SP!PartEnd
<1> HIDE DEF e
<1>8. seg[1] \in Int
  <2>1. e \in 1 .. Len(time) /\ ms \in 1 .. e /\ at \in ms .. e + 1
    BY <1>4, <1>5, Zenon DEF e
  <2>2. OpenLen(ms, at) \in Nat /\ OpenLen(ms, at) >= 1
    BY <1>6, <2>1 DEF OpenLen
  <2> QED
    BY <1>5, <2>2
<1> QED
  BY <1>1, <1>2, <1>3, <1>4, <1>5, <1>6, <1>7, <1>8, Zenon

(* A part is begun with its first point, which its stretch is near. *)
LEMMA PartBegun ==
  ASSUME SplitInv, SP!BeginPart
  PROVE  SplitInv'
<1> DEFINE e == SP!PartEnd
           b == partStart
           t == time[b]
<1>1. /\ parts # {} /\ at = 0 /\ SP!InStretches
      /\ segStart' = IF cut.by = "ISS" THEN t ELSE SP!GridStart(t)
      /\ seg' = <<t>> /\ ms' = b /\ at' = b + 1
      /\ UNCHANGED <<cut, time, partStart, parts, res, done, exact>>
  BY DEF SP!BeginPart
<1>2. SplitTyped /\ Called /\ CutsPart /\ PartIs /\ e \in parts
  BY <1>1, FirstPart, Zenon
<1> HIDE DEF e
<1>3. e \in 1 .. Len(time) /\ b \in 1 .. Len(time) /\ b < e /\ Ordered(time) /\ Chained(time, res)
  BY <1>2, Zenon DEF CutsPart, PartIs, Called, e
<1>4. /\ Frontier(time, res) = t /\ (b = 1 => res = <<>>) /\ ~done
      /\ cut.by \notin {"RDP", "OPTS"} => b = 1
  BY <1>1, <1>2 DEF CutsPart
<1>5. /\ \A j \in 1 .. Len(time) : time[j] \in Int
      /\ \A j, k \in 1 .. Len(time) : (time[j] < time[k] <=> j < k) /\ (time[j] <= time[k] <=> j <= k)
      /\ Len(time) \in Nat
  BY <1>3, OrderedIs, Zenon
<1>6. b + 1 \in 1 .. Len(time) /\ b \in 1 .. e /\ b < b + 1 /\ b \in Nat
  BY <1>3, <1>5
<1>7. t \in Int /\ t < time[b + 1] /\ t <= t
  <2>1. t \in Int /\ t < time[b + 1]
    BY <1>3, <1>5, <1>6, Zenon
  <2> QED
    BY <2>1
<1> HIDE DEF t
<1>8. OpenPiece(<<t>>, time, b, b + 1, e)
  <2>1. b + 1 \in {b, b + 1} /\ b # e
    BY <1>3, <1>5
  <2>2. time[b] <= t /\ (b < e => t < time[b + 1]) /\ (b = e => t = time[b])
    BY <1>7, <2>1, Zenon DEF t
  <2> QED
    BY <1>3, <1>6, <1>7, <2>1, <2>2, OpenWith, Zenon
<1>9. /\ segStart' \in Int /\ SP!End' \in Int
      /\ t + Soft <= SP!End' /\ SP!End' - t <= Stretch + Soft
      /\ cut.by \in {"RDP", "OPTS"} \/ res = <<>>
  <2> DEFINE E == SP!End'
  <2>0. E = segStart' + Stretch
    BY DEF SP!End
  <2> HIDE DEF E
  <2>1. cut.by \in {"RDP", "OPTS"} \/ res = <<>>
    BY <1>4
  <2>2. CASE cut.by = "ISS"
    <3>1. segStart' = t /\ E = t + Stretch
      BY <1>1, <2>0, <2>2
    <3>2. E \in Int /\ t + Soft <= E /\ E - t <= Stretch + Soft
      BY <1>7, <3>1, SplitNumbers
    <3> QED
      BY <1>7, <2>1, <3>1, <3>2, Zenon DEF E
  <2>3. CASE cut.by # "ISS"
    <3> DEFINE g == SP!GridStart(t)
    <3>1. segStart' = g /\ E = g + Stretch
      BY <1>1, <2>0, <2>3
    <3>2. g \in Int /\ g <= t + Soft /\ t + Soft < g + Stretch
      BY <1>7, OnGrid, Zenon
    <3> HIDE DEF g
    <3>3. E \in Int /\ t + Soft <= E /\ E - t <= Stretch + Soft
      BY <1>7, <3>1, <3>2, SplitNumbers
    <3> QED
      BY <2>1, <3>1, <3>2, <3>3, Zenon DEF E
  <2> QED
    BY <2>2, <2>3
<1>10. UNCHANGED <<cut, time>> /\ cut' = cut /\ time' = time /\ parts' = parts /\ res' = res
       /\ exact' = exact /\ partStart' = b /\ done' = done
       /\ cut.by \in {"ISS", "GSS", "OPTS"} /\ cut.by # "none"
  BY <1>1 DEF SP!InStretches
<1>11. SP!InStretches' /\ SP!PartEnd' = e
  BY <1>1, <1>10, SameCall DEF SP!PartEnd, e
<1>12. ByTime'
  <2>2. seg' = <<t>> /\ seg'[1] = t /\ ms' = b /\ at' = b + 1
    BY <1>1, Zenon DEF t
  <2>3. SP!End' - t <= LongestRest'
    <3> DEFINE E == SP!End'
    <3>1. LongestRest' \in Int /\ Stretch + Soft <= LongestRest'
      BY SplitNumbers DEF LongestRest
    <3>2. E \in Int /\ E - t <= Stretch + Soft
      BY <1>9, Zenon
    <3> HIDE DEF E
    <3>3. E - t <= LongestRest'
      BY <1>7, <3>1, <3>2, SplitNumbers
    <3> QED
      BY <3>3, Zenon DEF E
  <2>4. OpenPiece(seg', time', ms', at', SP!PartEnd')
    BY <1>8, <1>10, <1>11, <2>2
  <2>5. seg'[1] = Frontier(time', res')
    BY <1>4, <1>10, <2>2
  <2>6. partStart' <= ms' /\ ~(at' > ms' + 1)
    BY <1>6, <1>10, <2>2
  <2>7. ~(cut'.by # "OPTS" /\ res' # <<>>)
    BY <1>9, <1>10
  <2>8. seg'[1] + Soft <= SP!End' /\ SP!End' - seg'[1] <= LongestRest'
    BY <1>9, <2>2, <2>3
  <2> QED
    BY <2>4, <2>5, <2>6, <2>7, <2>8, Zenon DEF ByTime
<1>13. CutsPart'
  <2>1. at' # 0 /\ cut'.by # "FP"
    BY <1>1, <1>6, <1>10
  <2> QED
    BY <1>2, <1>10, <1>11, <1>12, <2>1 DEF CutsPart
<1>14. SplitTyped'
  <2>1. seg' \in Seq(Int) /\ ms' \in Nat /\ at' \in Nat
    BY <1>1, <1>6, <1>7 DEF t
  <2> QED
    BY <1>2, <1>6, <1>9, <1>10, <2>1 DEF SplitTyped
<1>15. NearLength' /\ Chained(time, res')
  BY <1>2, <1>3, <1>4, <1>10, NearStays DEF Called
<1> QED
  BY <1>10, <1>13, <1>14, <1>15, StillCalled, Zenon

(* A point before the end of the stretch is passed. *)
LEMMA PointPassed ==
  ASSUME SplitInv, SP!Pass
  PROVE  SplitInv'
<1> DEFINE e == SP!PartEnd
           w == time[at]
           S == IF ms = at THEN seg ELSE Append(seg, w)
<1>1. /\ SP!Looking /\ SP!InStretches /\ at > 0 /\ at <= e /\ w < SP!End
      /\ seg' = S /\ at' = at + 1
      /\ UNCHANGED <<cut, time, partStart, parts, ms, segStart, res, done, exact>>
  BY DEF SP!Pass, SP!Looking, SP!Now
<1>2. /\ parts # {} /\ ByTime /\ cut.by # "none"
      /\ SplitTyped /\ Called /\ CutsPart
      /\ e \in 1 .. Len(time) /\ ms \in 1 .. e /\ at \in ms .. e + 1
      /\ seg \in Seq(Int) /\ seg[1] \in Int
      /\ Ordered(time) /\ Len(time) \in Nat
  BY <1>1, Gathering, Zenon
<1>3. /\ OpenPiece(seg, time, ms, at, e) /\ partStart <= ms
      /\ seg[1] = Frontier(time, res)
      /\ seg[1] + Soft <= SP!End
      /\ SP!End - seg[1] <= LongestRest
      /\ cut.by # "OPTS" /\ res # <<>> => SP!End - seg[1] > Stretch - Soft
  BY <1>2, Zenon DEF ByTime
<1>4. OpenPiece(S, time, ms, at + 1, e)
  BY <1>1, <1>2, <1>3, OpenPasses, Zenon
<1>5. w \in Int
  <2>1. at \in 1 .. Len(time)
    BY <1>1, <1>2
  <2> QED
    BY <1>2, <2>1, OrderedIs, Zenon
<1>6. S[1] = seg[1] /\ S \in Seq(Int)
  <2>1. CASE ms = at
    BY <1>2, <2>1
  <2>2. CASE ms # at
    <3>1. Len(seg) = at - ms
      BY <1>3, <2>2 DEF OpenPiece, OpenLen
    <3>2. Len(seg) >= 1
      BY <1>2, <2>2, <3>1
    <3> QED
      BY <1>2, <1>5, <2>2, <3>2
  <2> QED
    BY <2>1, <2>2
<1> HIDE DEF S, w, e
<1>7. /\ UNCHANGED <<cut, time, res, exact>>
      /\ cut' = cut /\ time' = time /\ parts' = parts /\ res' = res /\ exact' = exact
      /\ partStart' = partStart /\ done' = done /\ ms' = ms /\ segStart' = segStart
  BY <1>1
<1>8. SP!InStretches' /\ SP!PartEnd' = e /\ SP!End' = SP!End /\ LongestRest' = LongestRest
  BY <1>1, <1>7, SameCall DEF SP!PartEnd, SP!End, LongestRest, e
<1>9. at' > 0 /\ at' # 0 /\ at' \in Nat /\ at' - 1 = at
  BY <1>1, <1>2
<1>10. ByTime'
  <2>1. OpenPiece(seg', time', ms', at', SP!PartEnd')
    BY <1>1, <1>4, <1>7, <1>8
  <2>2. seg'[1] = seg[1] /\ Frontier(time', res') = Frontier(time, res)
    BY <1>1, <1>6, <1>7
  <2>3. time'[at' - 1] < SP!End'
    BY <1>1, <1>7, <1>8, <1>9 DEF w
  <2> QED
    BY <1>3, <1>7, <1>8, <2>1, <2>2, <2>3 DEF ByTime
<1>11. CutsPart'
  <2>1. cut'.by # "FP"
    BY <1>1, <1>7 DEF SP!InStretches
  <2> QED
    BY <1>2, <1>7, <1>8, <1>9, <1>10, <2>1 DEF CutsPart
<1>12. SplitTyped'
  BY <1>1, <1>2, <1>6, <1>7, <1>9 DEF SplitTyped
<1>13. NearLength' /\ Chained(time, res')
  BY <1>2, <1>7, NearStays DEF Called, CutsPart
<1> QED
  BY <1>2, <1>7, <1>11, <1>12, <1>13, StillCalled, Zenon

(* A cut: the piece has the points P, the last at time t within Soft of    *)
(* the end of the stretch; the next piece begins there.                    *)
CutAt(P, t, me) ==
  /\ SP!Looking
  /\ UNCHANGED <<cut, time, partStart, parts, at, done>>
  /\ Along(P, time, ms) /\ P[1] = seg[1] /\ P[Len(P)] = t
  /\ t <= time[me] /\ t <= time[SP!PartEnd]
  /\ t > SP!End - Soft /\ t < SP!End + Soft
  /\ res' = Append(res, SP!Cut(me, P)) /\ exact' \in {exact, exact \cup {Len(res) + 1}}
  /\ seg' = <<t>> /\ OpenPiece(<<t>>, time, ms', at, SP!PartEnd)
  /\ ms <= ms' /\ at <= ms' + 1
  /\ segStart' \in Int
  /\ t + Soft <= SP!End'
  /\ SP!End' - t > Stretch - Soft
  /\ \/ SP!End' - t <= Stretch + Soft
     \/ Len(res) + 1 \in exact' /\ SP!End' - t <= 2 * Stretch

(* So a piece is cut. *)
LEMMA PieceIsCut ==
  ASSUME SplitInv, NEW P, NEW t \in Int, NEW me \in 1 .. Len(time), CutAt(P, t, me)
  PROVE  SplitInv'
<1> DEFINE e == SP!PartEnd
           p == SP!Cut(me, P)
           h == seg[1]
<1>1. SP!Looking /\ SP!InStretches /\ at > 0 /\ at <= e
  BY Zenon DEF SP!Looking, CutAt
<1>2. /\ parts # {} /\ ByTime /\ cut.by # "none"
      /\ SplitTyped /\ Called /\ CutsPart /\ PartIs
      /\ e \in 1 .. Len(time) /\ ms \in 1 .. e /\ at \in ms .. e + 1
      /\ seg \in Seq(Int) /\ h \in Int /\ SP!End \in Int
      /\ Ordered(time) /\ Len(time) \in Nat
  BY <1>1, Gathering, Zenon
<1>3. /\ partStart <= ms
      /\ h = Frontier(time, res)
      /\ h + Soft <= SP!End
      /\ SP!End - h <= LongestRest
      /\ cut.by # "OPTS" /\ res # <<>> => SP!End - h > Stretch - Soft
  BY <1>2, Zenon DEF ByTime
<1>4. Records(p, P)
  <2>1. ms <= e
    BY <1>2
  <2>2. Along(P, time, ms) /\ P[Len(P)] <= time[me] /\ P[Len(P)] <= time[e]
    BY Zenon DEF CutAt
  <2> QED
    BY <1>2, <1>3, <2>1, <2>2, CutRight, Zenon
<1>5. p \in PieceSet /\ Right(time, p) /\ SP!Starts(p) = h /\ SP!Ends(p) = t
  BY <1>4, Zenon DEF Records, CutAt
<1> HIDE DEF e, p
<1>6. res' = Append(res, p) /\ Chained(time, res) /\ NearLength /\ ~done
  BY <1>2, Zenon DEF p, Called, CutsPart, CutAt
<1>7. Chained(time, res') /\ Frontier(time, res') = t
  BY <1>3, <1>5, <1>6, ChainGrows, Zenon
<1>8. /\ UNCHANGED <<cut, time>>
      /\ cut' = cut /\ time' = time /\ parts' = parts
      /\ partStart' = partStart /\ done' = done /\ at' = at
      /\ seg' = <<t>>
  BY DEF CutAt
<1>9. SP!InStretches' /\ SP!PartEnd' = e /\ SP!End' = segStart' + Stretch
  BY <1>1, <1>8, SameCall DEF SP!PartEnd, SP!End, e
<1>10. LengthOf(p) < Longest(exact, Len(res) + 1)
       /\ (cut.by # "OPTS" /\ ~done' /\ res # <<>> => LengthOf(p) > Stretch - 2 * Soft)
  <2>1. LengthOf(p) = t - h
    BY <1>5, Zenon DEF LengthOf
  <2>2. Len(res) + 1 - 1 = Len(res)
    BY <1>2 DEF SplitTyped
  <2>3. /\ LongestRest \in Int /\ Longest(exact, Len(res) + 1) \in Int
        /\ LongestRest + Soft = Longest(exact, Len(res) + 1)
    BY <2>2, SplitNumbers DEF LongestRest, Longest
  <2>0. t > SP!End - Soft /\ t < SP!End + Soft
    BY Zenon DEF CutAt
  <2> DEFINE E == SP!End
             L == LongestRest
             G == Longest(exact, Len(res) + 1)
  <2>6. /\ E \in Int /\ h \in Int /\ L \in Int /\ G \in Int /\ L + Soft = G
        /\ E - h <= L /\ t > E - Soft /\ t < E + Soft
    BY <1>2, <1>3, <2>0, <2>3, Zenon
  <2>7. Soft \in Nat /\ Stretch \in Nat
    BY SplitNumbers
  <2> HIDE DEF E, L, G, h
  <2>4. t - h < G
    BY <2>6, <2>7
  <2>5. ASSUME E - h > Stretch - Soft PROVE t - h > Stretch - 2 * Soft
    BY <2>5, <2>6, <2>7
  <2> QED
    BY <1>3, <2>1, <2>4, <2>5, Zenon DEF E, G
<1>11. NearLength'
  <2>1. exact' \in {exact, exact \cup {Len(res) + 1}}
    BY Zenon DEF CutAt
  <2> QED
    BY <1>2, <1>5, <1>6, <1>8, <1>10, <2>1, NearGrows, Zenon
<1>12. Len(res') = Len(res) + 1 /\ res' \in Seq(PieceSet) /\ exact' \in SUBSET Nat /\ ms' \in Nat
  <2>1. ms' \in Nat
    <3>1. ms' \in 1 .. e
      BY Zenon DEF OpenPiece, CutAt, e
    <3> QED
      BY <1>2, <3>1
  <2>2. exact' \in {exact, exact \cup {Len(res) + 1}}
    BY Zenon DEF CutAt
  <2>3. res \in Seq(PieceSet) /\ p \in PieceSet /\ res' = Append(res, p)
    BY <1>2, <1>5, <1>6, Zenon DEF SplitTyped
  <2>4. Len(res') = Len(res) + 1 /\ res' \in Seq(PieceSet) /\ Len(res) \in Nat
    BY <2>3
  <2>5. exact' \in SUBSET Nat
    BY <1>2, <2>2, <2>4 DEF SplitTyped
  <2> QED
    BY <2>1, <2>4, <2>5
<1>13. ByTime'
  <2>1. OpenPiece(seg', time', ms', at', SP!PartEnd')
    BY <1>8, <1>9 DEF e, CutAt
  <2>2. seg'[1] = t /\ Frontier(time', res') = t
    BY <1>7, <1>8
  <2>3. partStart' <= ms' /\ ~(at' > ms' + 1)
    <3> DEFINE m == ms'
    <3>1. ms <= m /\ at <= m + 1 /\ partStart <= ms /\ m \in Nat
      BY <1>3, <1>12, Zenon DEF CutAt
    <3>2. partStart \in Nat /\ ms \in Nat /\ at \in Nat
      BY <1>2, Zenon DEF SplitTyped
    <3> HIDE DEF m
    <3>3. partStart <= m /\ ~(at > m + 1)
      BY <3>1, <3>2
    <3> QED
      BY <1>8, <3>3, Zenon DEF m
  <2> DEFINE E == SP!End'
  <2>4. /\ t + Soft <= E /\ E - t > Stretch - Soft
        /\ \/ E - t <= Stretch + Soft
           \/ Len(res) + 1 \in exact' /\ E - t <= 2 * Stretch
    BY Zenon DEF CutAt
  <2>0. E \in Int
    <3>1. segStart' \in Int
      BY Zenon DEF CutAt
    <3> QED
      BY <1>9, <3>1, SplitNumbers
  <2> HIDE DEF E
  <2>5. E - t <= LongestRest'
    BY <1>12, <2>0, <2>4, SplitNumbers DEF LongestRest
  <2>6. SP!End' = E
    BY DEF E
  <2> QED
    BY <2>1, <2>2, <2>3, <2>4, <2>5, <2>6 DEF ByTime
<1>14. CutsPart'
  <2>1. cut'.by # "FP" /\ at' # 0 /\ at' > 0
    BY <1>1, <1>2, <1>8 DEF SP!InStretches
  <2> QED
    BY <1>2, <1>8, <1>9, <1>13, <2>1 DEF CutsPart
<1>15. SplitTyped'
  <2>1. seg' \in Seq(Int) /\ segStart' \in Int
    BY <1>8 DEF CutAt
  <2> QED
    BY <1>2, <1>8, <1>12, <2>1 DEF SplitTyped
<1> QED
  BY <1>2, <1>7, <1>8, <1>11, <1>14, <1>15, StillCalled, Zenon
(* Where the stretch ends at or before the point looked at. *)
EndReached ==
  LET e == SP!PartEnd
      h == seg[1]
      v == time[at - 1]
      w == time[at]
  IN /\ Ordered(time) /\ e \in 1 .. Len(time)
     /\ at \in 1 .. e /\ at - 1 \in 1 .. e /\ ms \in Nat /\ ms <= at - 1
     /\ at \in 1 .. Len(time) /\ at - 1 \in 1 .. Len(time)
     /\ OpenPiece(seg, time, ms, at, e)
     /\ h \in Int /\ v \in Int /\ w \in Int /\ SP!End \in Int /\ segStart \in Int
     /\ h + Soft <= SP!End /\ v < w /\ v <= time[e] /\ w <= time[e]
     /\ at > ms + 1 => v < SP!End
     /\ at = ms + 1 => v <= h

(* It is so whenever a piece is to be cut. *)
LEMMA StretchReached ==
  ASSUME SplitInv, SP!Looking, SP!Now = SP!End \/ SP!Now > SP!End
  PROVE  EndReached
<1> DEFINE e == SP!PartEnd
           h == seg[1]
           v == time[at - 1]
           w == time[at]
           E == SP!End
<1>1. SP!InStretches /\ at > 0 /\ at <= e
  BY Zenon DEF SP!Looking
<1>2. /\ ByTime /\ SplitTyped
      /\ e \in 1 .. Len(time) /\ ms \in 1 .. e /\ at \in ms .. e + 1
      /\ h \in Int /\ E \in Int /\ Ordered(time) /\ Len(time) \in Nat
  BY <1>1, Gathering, Zenon
<1>3. /\ OpenPiece(seg, time, ms, at, e) /\ h + Soft <= E /\ time[ms] <= h
      /\ at > ms + 1 => v < E
  BY <1>2, Zenon DEF ByTime, OpenPiece
<1>4. /\ \A j \in 1 .. Len(time) : time[j] \in Int
      /\ \A j, k \in 1 .. Len(time) : (time[j] < time[k] <=> j < k) /\ (time[j] <= time[k] <=> j <= k)
  BY <1>2, OrderedIs, Zenon
<1> DEFINE d == at - 1
<1> HIDE DEF e, E, d
<1>5. at \in 1 .. Len(time) /\ at \in 1 .. e /\ at <= e /\ ms \in 1 .. Len(time) /\ segStart \in Int
  BY <1>1, <1>2 DEF SplitTyped
<1>6. w \in Int /\ time[ms] \in Int /\ w >= E
  <2>1. w \in Int /\ time[ms] \in Int /\ (w = E \/ w > E)
    BY <1>4, <1>5, Zenon DEF SP!Now, E
  <2> QED
    BY <1>2, <2>1 DEF E
<1>7. ms < at
  <2>1. ms <= at
    BY <1>2
  <2>2. time[ms] < w
    BY <1>2, <1>3, <1>6, SplitNumbers
  <2> QED
    BY <1>4, <1>5, <2>2, Zenon
<1>8. d \in 1 .. e /\ d \in 1 .. Len(time) /\ ms <= d /\ d < at /\ d <= e /\ ms \in Nat /\ (at = ms + 1 => d = ms)
  BY <1>2, <1>5, <1>7 DEF d
<1>9. time[d] \in Int /\ time[d] < w /\ time[d] <= time[e] /\ w <= time[e]
  BY <1>2, <1>4, <1>5, <1>8, Zenon
<1>10. at = ms + 1 => time[d] <= h
  BY <1>3, <1>8, Zenon
<1> QED
  BY <1>2, <1>3, <1>5, <1>6, <1>8, <1>9, <1>10, Zenon DEF EndReached, e, E, d

(* The next stretch ends Stretch after where it begins. *)
LEMMA EndMoves ==
  ASSUME NEW k \in Int, SP!End \in Int, segStart' = SP!End + k
  PROVE  /\ segStart' \in Int /\ SP!End' \in Int
         /\ SP!End' = SP!End + k + Stretch
BY SplitNumbers DEF SP!End

(* A cut at a point where the stretch ends: the end is advanced twice. *)
LEMMA IsCutAtPoint ==
  ASSUME SplitInv, SP!CutAtPoint
  PROVE  SplitInv'
<1> DEFINE w == time[at]
           P == Append(seg, w)
           e == SP!PartEnd
           E == SP!End
           F == SP!End'
<1>1. /\ SP!Looking /\ w = E
      /\ res' = Append(res, SP!Cut(at, P)) /\ seg' = <<w>> /\ segStart' = E + Stretch
      /\ ms' = at /\ exact' = exact \cup {Len(res) + 1}
      /\ UNCHANGED <<cut, time, partStart, parts, at, done>>
  BY DEF SP!CutAtPoint, SP!CutTo, SP!Now
<1>0. w = E
  BY <1>1, Zenon
<1>2. EndReached
  BY <1>1, StretchReached, Zenon DEF SP!Now
<1>3. /\ Ordered(time) /\ e \in 1 .. Len(time)
      /\ at \in 1 .. e /\ ms \in Nat /\ ms <= at - 1 /\ at \in 1 .. Len(time)
      /\ OpenPiece(seg, time, ms, at, e)
      /\ seg[1] \in Int /\ w \in Int /\ E \in Int
      /\ seg[1] + Soft <= E /\ time[at - 1] < w /\ w <= time[e]
  BY <1>2, Zenon DEF EndReached
<1>4. /\ ms < at /\ at <= e /\ ms <= at /\ at <= at + 1 /\ at \in Nat /\ Len(time) \in Nat
  BY <1>3 DEF Ordered
<1>5. seg[1] < w /\ w <= w /\ w > E - Soft /\ w < E + Soft
  BY <1>1, <1>3, SplitNumbers
<1>6. Along(P, time, ms) /\ P[1] = seg[1] /\ P[Len(P)] = w
  <2>1. w <= time[at]
    BY <1>5
  <2> HIDE DEF w, e
  <2>2. /\ Ordered(time) /\ OpenPiece(seg, time, ms, at, e) /\ ms < at /\ at <= e
        /\ w \in Int /\ seg[1] < w /\ time[at - 1] < w /\ w <= time[at]
    BY <1>3, <1>4, <1>5, <2>1, Zenon
  <2> QED
    BY <2>2, OpenEnds
<1>7. OpenPiece(<<w>>, time, at, at, e)
  <2>1. at \in {at, at + 1} /\ (at < e => w < time[at + 1])
    <3>1. at < e => at + 1 \in 1 .. Len(time) /\ at < at + 1
      BY <1>3, <1>4
    <3> QED
      BY <1>3, <3>1, OrderedIs, Zenon
  <2> QED
    BY <1>3, <1>5, <2>1, OpenWith, Zenon
<1>8. /\ F \in Int /\ segStart' \in Int /\ w + Soft <= F /\ F - w > Stretch - Soft /\ F - w <= 2 * Stretch
  <2>1. Stretch \in Int /\ F \in Int /\ segStart' \in Int /\ F = E + Stretch + Stretch
    BY <1>1, <1>3, EndMoves, SplitNumbers
  <2> HIDE DEF F, E, w
  <2>2. w + Soft <= F /\ F - w > Stretch - Soft /\ F - w <= 2 * Stretch
    BY <1>0, <1>3, <2>1, SplitNumbers
  <2> QED
    BY <2>1, <2>2, Zenon
<1>9. /\ exact' \in {exact, exact \cup {Len(res) + 1}} /\ Len(res) + 1 \in exact'
      /\ ms <= ms' /\ at <= ms' + 1 /\ OpenPiece(<<w>>, time, ms', at, e)
  BY <1>1, <1>4, <1>7
<1>10. CutAt(P, w, at)
  BY <1>1, <1>3, <1>5, <1>6, <1>8, <1>9, Zenon DEF CutAt
<1> QED
  BY <1>3, <1>10, PieceIsCut, Zenon
(* The other cuts: at a time t, and the next stretch ends Stretch later.   *)
LEMMA IsCutBy ==
  ASSUME SplitInv, SP!Looking, UNCHANGED <<cut, time, partStart, parts, at, done, exact>>,
         EndReached, NEW P, NEW t \in Int, NEW me \in 1 .. Len(time),
         Along(P, time, ms), P[1] = seg[1], P[Len(P)] = t,
         t <= time[me], t <= time[SP!PartEnd],
         t > SP!End - Soft, t < SP!End + Soft,
         res' = Append(res, SP!Cut(me, P)), seg' = <<t>>, segStart' = SP!End,
         NEW m \in {at - 1, at}, ms' = m, OpenPiece(<<t>>, time, m, at, SP!PartEnd)
  PROVE  SplitInv'
<1> DEFINE E == SP!End
           F == SP!End'
<1>1. E \in Int /\ at \in Nat /\ ms \in Nat /\ ms <= at - 1
  <2>1. /\ SP!PartEnd \in 1 .. Len(time) /\ at \in 1 .. SP!PartEnd /\ Ordered(time)
        /\ E \in Int /\ ms \in Nat /\ ms <= at - 1
    BY Zenon DEF EndReached
  <2> QED
    BY <2>1 DEF Ordered
<1>2. /\ F \in Int /\ segStart' \in Int
      /\ t + Soft <= F /\ F - t > Stretch - Soft /\ F - t <= Stretch + Soft
  <2>1. F \in Int /\ segStart' \in Int /\ F = E + Stretch
    BY <1>1, SplitNumbers DEF SP!End
  <2>2. t > E - Soft /\ t < E + Soft
    OBVIOUS
  <2> HIDE DEF F, E
  <2>3. t + Soft <= F /\ F - t > Stretch - Soft /\ F - t <= Stretch + Soft
    BY <1>1, <2>1, <2>2, SplitNumbers
  <2> QED
    BY <2>1, <2>3, Zenon
<1>3. ms <= m /\ at <= m + 1
  BY <1>1
<1>4. /\ exact' \in {exact, exact \cup {Len(res) + 1}}
      /\ ms <= ms' /\ at <= ms' + 1 /\ OpenPiece(<<t>>, time, ms', at, SP!PartEnd)
      /\ UNCHANGED <<cut, time, partStart, parts, at, done>>
  BY <1>3
<1>5. CutAt(P, t, me)
  BY <1>2, <1>4, Zenon DEF CutAt
<1> QED
  BY <1>5, PieceIsCut, Zenon

(* at the point before, *)
LEMMA IsCutBefore ==
  ASSUME SplitInv, SP!CutBefore
  PROVE  SplitInv'
<1> DEFINE v == time[at - 1]
           e == SP!PartEnd
           E == SP!End
           b == at - 1
<1>1. /\ SP!Looking /\ time[at] > E /\ v > E - Soft
      /\ res' = Append(res, SP!Cut(b, seg)) /\ seg' = <<v>> /\ segStart' = E
      /\ ms' = b
      /\ UNCHANGED <<cut, time, partStart, parts, at, done, exact>>
  BY DEF SP!CutBefore, SP!CutTo, SP!Now, SP!CloseBefore
<1>2. EndReached
  BY <1>1, StretchReached, Zenon DEF SP!Now
<1>3. /\ Ordered(time) /\ e \in 1 .. Len(time)
      /\ at \in 1 .. e /\ b \in 1 .. e /\ ms \in Nat /\ ms <= b /\ b \in 1 .. Len(time)
      /\ OpenPiece(seg, time, ms, at, e)
      /\ seg[1] \in Int /\ v \in Int /\ E \in Int
      /\ seg[1] + Soft <= E /\ v < time[at] /\ v <= time[e]
      /\ at > ms + 1 => v < E
      /\ at = ms + 1 => v <= seg[1]
  BY <1>2, Zenon DEF EndReached
<1>4. v > E - Soft
  BY <1>1, Zenon
<1> HIDE DEF v, E, e
<1>5. ms + 1 < at
  <2>1. at # ms + 1
    BY <1>3, <1>4, SplitNumbers
  <2> QED
    BY <1>3, <2>1 DEF Ordered
<1>6. Along(seg, time, ms) /\ seg[Len(seg)] = v
  BY <1>3, <1>5, OpenEndsBefore, Zenon DEF v
<1>7. v <= time[b] /\ v < E + Soft
  <2>1. v < E /\ v \in Int /\ E \in Int /\ at > ms + 1
    BY <1>3, <1>5
  <2>2. v <= v /\ v < E + Soft
    BY <2>1, SplitNumbers
  <2> QED
    BY <2>2, Zenon DEF v
<1>8. OpenPiece(<<v>>, time, b, at, e)
  <2>1. at \in {b, b + 1} /\ b < e /\ b + 1 = at
    BY <1>3 DEF Ordered
  <2>2. time[b] <= v /\ v < time[b + 1] /\ b # e
    <3>1. time[b] <= v
      BY <1>3 DEF v
    <3>2. v < time[b + 1]
      BY <1>3, <2>1, Zenon
    <3> QED
      BY <1>3, <2>1, <3>1, <3>2
  <2> QED
    BY <1>3, <2>1, <2>2, OpenWith, Zenon
<1>9. b \in {at - 1, at}
  OBVIOUS
<1> QED
  BY <1>1, <1>2, <1>3, <1>4, <1>6, <1>7, <1>8, <1>9, IsCutBy, Zenon DEF E, e

(* at the point looked at, *)
LEMMA IsCutAfter ==
  ASSUME SplitInv, SP!CutAfter
  PROVE  SplitInv'
<1> DEFINE w == time[at]
           v == time[at - 1]
           e == SP!PartEnd
           E == SP!End
           P == Append(seg, w)
<1>1. /\ SP!Looking /\ w > E /\ w < E + Soft
      /\ res' = Append(res, SP!Cut(at, P)) /\ seg' = <<w>> /\ segStart' = E
      /\ ms' = at
      /\ UNCHANGED <<cut, time, partStart, parts, at, done, exact>>
  BY DEF SP!CutAfter, SP!CutTo, SP!Now, SP!CloseAfter
<1>2. EndReached
  BY <1>1, StretchReached, Zenon DEF SP!Now
<1>3. /\ Ordered(time) /\ e \in 1 .. Len(time)
      /\ at \in 1 .. e /\ ms \in Nat /\ ms <= at - 1 /\ at \in 1 .. Len(time)
      /\ OpenPiece(seg, time, ms, at, e)
      /\ seg[1] \in Int /\ w \in Int /\ E \in Int
      /\ seg[1] + Soft <= E /\ v < w /\ w <= time[e]
  BY <1>2, Zenon DEF EndReached
<1>4. /\ ms < at /\ at <= e /\ at \in Nat /\ Len(time) \in Nat
  BY <1>3 DEF Ordered
<1>5. w > E /\ w < E + Soft
  BY <1>1, Zenon
<1> HIDE DEF w, v, E, e
<1>6. seg[1] < w /\ w <= w /\ w > E - Soft
  BY <1>3, <1>5, SplitNumbers
<1>7. w <= time[at]
  BY <1>6 DEF w
<1>8. Along(P, time, ms) /\ P[1] = seg[1] /\ P[Len(P)] = w
  <2>1. time[at - 1] < w
    BY <1>3 DEF v
  <2>2. /\ Ordered(time) /\ OpenPiece(seg, time, ms, at, e) /\ ms < at /\ at <= e
        /\ w \in Int /\ seg[1] < w /\ time[at - 1] < w /\ w <= time[at]
    BY <1>3, <1>4, <1>6, <1>7, <2>1, Zenon
  <2> QED
    BY <2>2, OpenEnds
<1>9. OpenPiece(<<w>>, time, at, at, e)
  <2>1. at \in {at, at + 1} /\ (at < e => w < time[at + 1])
    <3>1. at < e => at + 1 \in 1 .. Len(time) /\ at < at + 1
      BY <1>3, <1>4
    <3> QED
      BY <1>3, <3>1, OrderedIs, Zenon DEF w
  <2>2. time[at] <= w /\ w = time[at]
    BY <1>6 DEF w
  <2> QED
    BY <1>3, <2>1, <2>2, OpenWith, Zenon
<1>10. at \in {at - 1, at}
  OBVIOUS
<1> HIDE DEF P
<1>11. res' = Append(res, SP!Cut(at, P)) /\ seg' = <<w>>
  BY <1>1, Zenon DEF P, w
<1> QED
  BY <1>1, <1>2, <1>3, <1>5, <1>6, <1>7, <1>8, <1>9, <1>10, <1>11, IsCutBy, Zenon DEF E, e

(* and between the two. *)
LEMMA IsCutBetween ==
  ASSUME SplitInv, SP!CutBetween
  PROVE  SplitInv'
<1> DEFINE w == time[at]
           v == time[at - 1]
           e == SP!PartEnd
           E == SP!End
           P == Append(seg, E)
           b == at - 1
<1>1. /\ SP!Looking /\ w > E /\ ~(v > E - Soft)
      /\ res' = Append(res, SP!Cut(at, P)) /\ seg' = <<E>> /\ segStart' = E
      /\ ms' = b
      /\ UNCHANGED <<cut, time, partStart, parts, at, done, exact>>
  BY DEF SP!CutBetween, SP!CutTo, SP!Now, SP!CloseBefore
<1>2. EndReached
  BY <1>1, StretchReached, Zenon DEF SP!Now
<1>3. /\ Ordered(time) /\ e \in 1 .. Len(time)
      /\ at \in 1 .. e /\ b \in 1 .. e /\ ms \in Nat /\ ms <= b /\ at \in 1 .. Len(time)
      /\ b \in 1 .. Len(time)
      /\ OpenPiece(seg, time, ms, at, e)
      /\ seg[1] \in Int /\ w \in Int /\ v \in Int /\ E \in Int /\ time[e] \in Int
      /\ seg[1] + Soft <= E /\ v < w /\ w <= time[e]
  <2>1. Ordered(time) /\ e \in 1 .. Len(time)
    BY <1>2, Zenon DEF EndReached
  <2>2. time[e] \in Int
    BY <2>1, OrderedIs, Zenon
  <2> QED
    BY <1>2, <2>2, Zenon DEF EndReached
<1>4. /\ ms < at /\ at <= e /\ at \in Nat /\ Len(time) \in Nat /\ b < e /\ b # e /\ b + 1 = at
  BY <1>3 DEF Ordered
<1>5. w > E /\ ~(v > E - Soft)
  BY <1>1, Zenon
<1> HIDE DEF w, v, E, e
<1>6. /\ seg[1] < E /\ E > E - Soft /\ E < E + Soft /\ v < E /\ v <= E /\ E < w /\ E <= w
      /\ E <= time[e]
  BY <1>3, <1>5, SplitNumbers
<1>7. E <= time[at] /\ time[b] < E /\ time[b] <= E /\ E < time[at]
  BY <1>6, Zenon DEF w, v
<1>8. Along(P, time, ms) /\ P[1] = seg[1] /\ P[Len(P)] = E
  <2>1. time[at - 1] < E
    BY <1>6 DEF v
  <2>2. /\ Ordered(time) /\ OpenPiece(seg, time, ms, at, e) /\ ms < at /\ at <= e
        /\ E \in Int /\ seg[1] < E /\ time[at - 1] < E /\ E <= time[at]
    BY <1>3, <1>4, <1>6, <1>7, <2>1, Zenon
  <2> QED
    BY <2>2, OpenEnds
<1>9. OpenPiece(<<E>>, time, b, at, e)
  <2>1. at \in {b, b + 1} /\ E < time[b + 1]
    BY <1>4, <1>7
  <2> QED
    BY <1>3, <1>4, <1>7, <2>1, OpenWith, Zenon
<1>10. b \in {at - 1, at}
  OBVIOUS
<1> HIDE DEF P
<1>11. res' = Append(res, SP!Cut(at, P)) /\ seg' = <<E>>
  BY <1>1, Zenon DEF P, E
<1> QED
  BY <1>1, <1>2, <1>3, <1>6, <1>7, <1>8, <1>9, <1>10, <1>11, IsCutBy, Zenon DEF E, e

(* The rest of a part is a piece, unless it is a point. *)
LEMMA PartEnds ==
  ASSUME SplitInv, SP!EndPart
  PROVE  SplitInv'
<1> DEFINE e == SP!PartEnd
           h == seg[1]
           p == SP!Cut(e, seg)
           E == SP!End
<1>1. /\ parts # {} /\ SP!InStretches /\ at > e
      /\ res' = IF Len(seg) > 1 THEN Append(res, p) ELSE res
      /\ SP!NextPart /\ at' = 0 /\ seg' = <<>>
      /\ UNCHANGED <<cut, time, ms, segStart, exact>>
  BY Zenon DEF SP!EndPart
<1>2. /\ e \in 1 .. Len(time) /\ SplitTyped /\ Ordered(time) /\ Len(time) \in Nat
  <2>1. SplitTyped /\ PartIs
    BY <1>1, FirstPart, Zenon
  <2> QED
    BY <2>1 DEF PartIs, Ordered
<1>3. at > 0 /\ at \in Nat
  BY <1>1, <1>2 DEF SplitTyped
<1>4. /\ ByTime /\ Called /\ CutsPart /\ PartIs /\ cut.by # "none"
      /\ ms \in 1 .. e /\ at \in ms .. e + 1
      /\ seg \in Seq(Int) /\ h \in Int /\ E \in Int
  BY <1>1, <1>3, Gathering, Zenon
<1>5. /\ OpenPiece(seg, time, ms, at, e) /\ partStart <= ms
      /\ h = Frontier(time, res)
      /\ at > ms + 1 => time[at - 1] < E
      /\ E - h <= LongestRest
  BY <1>4, Zenon DEF ByTime
<1>6. /\ Len(seg) = OpenLen(ms, at) /\ (ms = e => h = time[ms])
  BY <1>5, Zenon DEF OpenPiece
<1> HIDE DEF e, h, p, E
<1>7. at = e + 1 /\ at - 1 = e /\ Len(seg) = e + 1 - ms /\ ms <= e /\ e \in Nat /\ ms \in Nat
  BY <1>1, <1>2, <1>4, <1>6 DEF OpenLen
<1>8. /\ Ordered(time) /\ Chained(time, res) /\ NearLength /\ ~done
      /\ cut.by # "OPTS" => parts = {Len(time)}
  BY <1>1, <1>4 DEF Called, CutsPart, SP!InStretches
<1>9. Chained(time, res') /\ Frontier(time, res') = time[e] /\ NearLength'
  <2>1. UNCHANGED <<cut, time>> /\ exact' = exact
    BY <1>1, Zenon
  <2>2. CASE Len(seg) > 1
    <3>1. ms + 1 < at
      BY <1>7, <2>2
    <3>2. Along(seg, time, ms) /\ seg[Len(seg)] = time[e]
      <4>1. Along(seg, time, ms) /\ seg[Len(seg)] = time[at - 1]
        BY <1>5, <1>8, <3>1, OpenEndsBefore, Zenon
      <4> QED
        BY <1>7, <4>1
    <3>3. time[e] \in Int /\ time[e] <= time[e] /\ time[e] < E
      <4>1. time[e] \in Int
        BY <1>2, OrderedIs, Zenon
      <4>2. at > ms + 1
        BY <1>7, <2>2
      <4> QED
        BY <1>5, <1>7, <4>1, <4>2
    <3>4. Records(p, seg)
      <4>1. seg[Len(seg)] <= time[e]
        BY <3>2, <3>3
      <4> QED
        BY <1>2, <1>4, <1>5, <1>7, <3>2, <4>1, CutRight, Zenon DEF p, e
    <3>5. p \in PieceSet /\ Right(time, p) /\ SP!Starts(p) = h /\ SP!Ends(p) = time[e]
      BY <3>2, <3>4, Zenon DEF Records, h
    <3>6. res' = Append(res, p)
      BY <1>1, <2>2
    <3>7. Chained(time, res') /\ Frontier(time, res') = time[e]
      BY <1>5, <1>8, <3>5, <3>6, ChainGrows, Zenon
    <3>8. LengthOf(p) < Longest(exact, Len(res) + 1)
      <4>1. LengthOf(p) = time[e] - h
        BY <3>5, Zenon DEF LengthOf
      <4>2. Len(res) + 1 - 1 = Len(res)
        BY <1>2 DEF SplitTyped
      <4>3. /\ LongestRest \in Int /\ Longest(exact, Len(res) + 1) \in Int
            /\ LongestRest + Soft = Longest(exact, Len(res) + 1)
        BY <4>2, SplitNumbers DEF LongestRest, Longest
      <4>4. time[e] - h < Longest(exact, Len(res) + 1)
        <5>1. E - h <= LongestRest /\ E \in Int /\ h \in Int /\ time[e] \in Int /\ time[e] < E
          BY <1>4, <1>5, <3>3
        <5> QED
          BY <4>3, <5>1, SplitNumbers
      <4> QED
        BY <4>1, <4>4
    <3>9. cut.by # "OPTS" => done'
      <4>1. e \in parts
        BY <1>1, FirstPart, Zenon DEF e
      <4> QED
        BY <1>1, <1>8, <4>1 DEF SP!NextPart, e
    <3>10. exact' \in {exact, exact \cup {Len(res) + 1}}
      BY <2>1
    <3>11. NearLength'
      BY <1>2, <1>8, <2>1, <3>5, <3>6, <3>8, <3>9, <3>10, NearGrows, Zenon
    <3> QED
      BY <3>7, <3>11
  <2>3. CASE ~(Len(seg) > 1)
    <3>1. ms = e /\ res' = res
      BY <1>1, <1>7, <2>3
    <3>2. Frontier(time, res) = time[e]
      BY <1>5, <1>6, <3>1, Zenon
    <3>3. NearLength'
      BY <1>2, <1>8, <2>1, <3>1, NearStays
    <3> QED
      BY <1>8, <3>1, <3>2, <3>3
  <2> QED
    BY <2>2, <2>3
<1>10. CutsPart' \/ HasCut'
  BY <1>1, <1>9, PartDone DEF e
<1>11. SplitTyped'
  <2>1. res' \in Seq(PieceSet) /\ seg' \in Seq(Int) /\ at' \in Nat
    BY <1>1, <1>9 DEF Chained
  <2>2. partStart' \in Nat /\ parts' \in SUBSET Nat /\ done' \in BOOLEAN
    BY <1>1, <1>2, <1>7 DEF SP!NextPart, SplitTyped, e
  <2>3. cut' = cut /\ time' = time /\ ms' = ms /\ segStart' = segStart /\ exact' = exact
    BY <1>1, Zenon
  <2> QED
    BY <1>2, <2>1, <2>2, <2>3 DEF SplitTyped
<1>12. UNCHANGED <<cut, time>>
  BY <1>1, Zenon
<1> QED
  BY <1>4, <1>9, <1>10, <1>11, <1>12, StillCalled, Zenon

(* So every step of the functions keeps the invariant, *)
LEMMA SplitStep ==
  ASSUME SplitInv, SP!Next
  PROVE  SplitInv'
BY PartsChosen, PieceOfPart, PieceOfLine, PieceOfNumber, PartBegun, PointPassed, IsCutAtPoint,
   IsCutBefore, IsCutAfter, IsCutBetween, PartEnds, Zenon DEF SP!Next

(* and every step that leaves their variables alone. *)
LEMMA SplitStays ==
  ASSUME SplitInv, UNCHANGED <<cut, time, partStart, parts, at, ms, segStart, seg, res, done, exact>>
  PROVE  SplitInv'
<1>1. UNCHANGED <<cut, time>>
  OBVIOUS
<1>2. SplitTyped' <=> SplitTyped
  BY DEF SplitTyped
<1>3. SP!InStretches' <=> SP!InStretches
  BY <1>1, SameCall
<1>4. NotBegun' <=> NotBegun
  BY DEF NotBegun
<1>5. HasCut' <=> HasCut
  BY <1>3 DEF HasCut
<1>6. ByNumber' <=> ByNumber
  BY DEF ByNumber
<1>7. ByTime' <=> ByTime
  BY DEF ByTime, SP!PartEnd, SP!End, LongestRest
<1>8. CutsPart' <=> CutsPart
  BY <1>3, <1>6, <1>7 DEF CutsPart
<1>9. NearLength' <=> NearLength
  BY <1>3 DEF NearLength
<1>10. Called' <=> Called
  BY <1>4, <1>5, <1>8, <1>9 DEF Called
<1> QED
  BY <1>2, <1>4, <1>10 DEF SplitInv

(* The invariant has what the pieces promise: they cover the trajectory, *)
LEMMA Covers ==
  ASSUME SplitInv
  PROVE  SP!PiecesCover
<1> SUFFICES ASSUME done PROVE SP!PiecesCover
  BY Zenon DEF SP!PiecesCover
<1> DEFINE n == Len(time)
           l == Len(res)
<1>1. Called /\ HasCut
  BY Zenon DEF SplitInv, NotBegun, Called, CutsPart
<1>2. /\ Ordered(time) /\ n >= 2 /\ Frontier(time, res) = time[n]
      /\ Chained(time, res)
  BY <1>1, Zenon DEF Called, HasCut
<1>3. /\ n \in Nat /\ \A j \in 1 .. n : time[j] \in Int
      /\ \A j, k \in 1 .. n : (time[j] < time[k] <=> j < k) /\ (time[j] <= time[k] <=> j <= k)
      /\ time \in Seq(Int)
  BY <1>2, OrderedIs, Zenon
<1>4. res # <<>>
  <2>1. 1 \in 1 .. n /\ n \in 1 .. n /\ 1 < n
    BY <1>2, <1>3
  <2>2. time[1] < time[n] /\ time[1] \in Int /\ time[n] \in Int
    BY <1>3, <2>1, Zenon
  <2>3. time[1] # time[n]
    BY <2>2
  <2> QED
    BY <1>2, <2>3, Zenon DEF Frontier
<1>5. l \in Nat /\ l >= 1 /\ DOMAIN res = 1 .. l /\ 1 \in 1 .. l /\ Head(res) = res[1] /\ SP!Last(res) = res[l]
  <2>1. res \in Seq(PieceSet)
    BY <1>2, Zenon DEF Chained
  <2> QED
    BY <1>4, <2>1 DEF SP!Last
<1>6. Head(time) = time[1] /\ SP!Last(time) = time[n]
  <2>1. time # <<>>
    BY <1>2, <1>3
  <2> QED
    BY <1>3, <2>1 DEF SP!Last
<1>7. \A k \in 1 .. l :
        /\ Right(time, res[k])
        /\ SP!Starts(res[k]) = IF k = 1 THEN time[1] ELSE SP!Ends(res[k - 1])
  BY <1>2, Zenon DEF Chained
<1>8. SP!Starts(Head(res)) = Head(time)
  <2>1. SP!Starts(res[1]) = time[1]
    BY <1>5, <1>7
  <2> QED
    BY <1>5, <1>6, <2>1, Zenon
<1>9. SP!Ends(SP!Last(res)) = SP!Last(time)
  BY <1>2, <1>4, <1>5, <1>6, Zenon DEF Frontier
<1> HIDE DEF l, n
<1>10. ASSUME NEW k \in DOMAIN res
       PROVE  LET p == res[k]
              IN /\ k > 1 => SP!Starts(p) = SP!Ends(res[k - 1])
                 /\ \A j \in DOMAIN p.seg : j > 1 => p.seg[j - 1] < p.seg[j]
                 /\ Len(p.seg) > 1
                 /\ {t \in SP!ToSet(time) : SP!Starts(p) < t /\ t < SP!Ends(p)}
                    = SP!ToSet(p.seg) \ {SP!Starts(p), SP!Ends(p)}
                 /\ 0 <= p.ms /\ p.ms < p.me /\ p.me < Len(time)
                 /\ time[p.ms + 1] <= SP!Starts(p) /\ SP!Ends(p) <= time[p.me + 1]
  <2>1. k \in 1 .. l
    BY <1>5, Zenon
  <2>2. k > 1 => k # 1
    BY <1>5, <2>1
  <2>3. k > 1 => SP!Starts(res[k]) = SP!Ends(res[k - 1])
    BY <1>7, <2>1, <2>2, Zenon
  <2>4. Right(time, res[k])
    BY <1>7, <2>1, Zenon
  <2> QED
    BY <2>3, <2>4, Zenon DEF Right
<1> QED
  BY <1>4, <1>8, <1>9, <1>10, Zenon DEF SP!PiecesCover

(* and their lengths are near the one asked for. *)
LEMMA NearLengths ==
  ASSUME SplitInv
  PROVE  SP!PiecesNearLength
<1> SUFFICES ASSUME SP!InStretches, NEW k \in DOMAIN res
             PROVE  LET length == SP!Ends(res[k]) - SP!Starts(res[k])
                    IN /\ length < (IF k - 1 \in exact THEN 2 * Stretch + Soft ELSE Stretch + 2 * Soft)
                       /\ cut.by # "OPTS" /\ 1 < k /\ k < Len(res) => length > Stretch - 2 * Soft
  BY Zenon DEF SP!PiecesNearLength
<1>1. cut.by # "none"
  BY DEF SP!InStretches
<1>2. Called /\ SplitTyped
  BY <1>1, Zenon DEF SplitInv
<1>3. /\ Near(res, exact)
      /\ cut.by # "OPTS" => LongEnough(res, IF done THEN Len(res) - 1 ELSE Len(res))
  BY <1>2, Zenon DEF Called, NearLength
<1>4. k \in 1 .. Len(res) /\ Len(res) \in Nat
  BY <1>2 DEF SplitTyped
<1>5. LengthOf(res[k]) < Longest(exact, k)
  BY <1>3, <1>4, Zenon DEF Near
<1>6. ASSUME cut.by # "OPTS", 1 < k, k < Len(res)
      PROVE  LengthOf(res[k]) > Stretch - 2 * Soft
  <2>1. k \in 2 .. (IF done THEN Len(res) - 1 ELSE Len(res))
    BY <1>4, <1>6
  <2> QED
    BY <1>3, <1>6, <2>1, Zenon DEF LongEnough
<1> QED
  BY <1>5, <1>6, Zenon DEF LengthOf, Longest

-----------------------------------------------------------------------------
(* A trajectory that is loaded and cut (TrajectoryStream): while the store *)
(* works nothing is cut, and the other way round.                          *)
GotRow ==
  /\ got # NoId => got \in DOMAIN rows /\ Len(time) <= rows[got].n
  /\ got = NoId => cut.by = "none"

CuttingInv == ReadInv /\ GotRow /\ SplitInv

(* What is loaded to be cut has two points or more, those of the row. *)
LEMMA WholeRead ==
  ASSUME Inv, NEW id \in DOMAIN rows
  PROVE  /\ Len(LoadTraj(rows[id], 0, WholeEnd)) >= 2
         /\ Len(LoadTraj(rows[id], 0, WholeEnd)) <= rows[id].n
         /\ rows[id].n \in Nat
<1> DEFINE r == rows[id]
           me == Smaller(r.n - 1, WholeEnd)
<1>1. r.page \in Nat /\ r.n \in Nat /\ r.n >= 2 /\ bSubTraj \in BOOLEAN
  BY RowTyped DEF Inv, TypeOK
<1> HIDE DEF r
<1>2. me \in 1 .. r.n - 1 /\ me \in Nat /\ Smaller(r.n - 1, me) = me /\ Smaller(r.n - 1, 0) = 0
  BY <1>1 DEF Smaller, WholeEnd
<1>3. LoadTraj(r, 0, WholeEnd) = LoadTraj(r, 0, me)
  BY <1>2 DEF LoadTraj
<1> HIDE DEF me
<1>4. <<0, me>> \in Sound(r.n)
  <2>1. (0 + 1) % Fp # 0
    BY FpAssumption
  <2> QED
    BY <1>1, <1>2, <2>1 DEF Sound, Intervals, Misread
<1>5. LoadTraj(r, 0, me) = Span(r.page, 0, me, me)
  <2>1. <<0, me>>[1] = 0 /\ <<0, me>>[2] = me
    OBVIOUS
  <2> QED
    BY <1>1, <1>4, <2>1, IntervalRead
<1>6. Len(Span(r.page, 0, me, me)) = me + 1
  BY <1>2 DEF Span
<1>7. me + 1 >= 2 /\ me + 1 <= r.n
  BY <1>1, <1>2
<1> QED
  BY <1>1, <1>3, <1>5, <1>6, <1>7 DEF r

(* The store is empty and nothing is cut; *)
LEMMA StreamBegins == StreamInit => CuttingInv
<1>1. StreamInit => GotRow
  BY DEF StreamInit, GotRow, SP!Init
<1> QED
  BY <1>1, ReadInit, SplitBegins DEF StreamInit, CuttingInv

(* a trajectory is loaded whole and the function called with it; *)
LEMMA GetNextKeeps ==
  ASSUME CuttingInv, NEW id \in 0 .. MaxId, GetNext(id)
  PROVE  SplitInv' /\ GotRow'
<1>1. /\ id \in DOMAIN rows /\ got' = id /\ rows' = rows
      /\ \E s \in {t \in Times : Len(t) = Len(LoadTraj(rows[id], 0, WholeEnd))}, c \in Cuts : SP!Take(s, c)
  BY DEF GetNext, vars
<1>2. PICK s \in Times, c \in Cuts : Len(s) = Len(LoadTraj(rows[id], 0, WholeEnd)) /\ SP!Take(s, c)
  BY <1>1
<1>3. Len(s) >= 2 /\ Len(s) <= rows[id].n
  <2>1. Inv
    BY DEF CuttingInv, ReadInv, KeptInv, PageInv
  <2> QED
    BY <1>1, <1>2, <2>1, WholeRead
<1>4. Ordered(s)
  <2>1. s \in Seq(Nat) /\ \A j, k \in DOMAIN s : j < k => s[j] < s[k]
    BY TimesAssumption
  <2>2. Len(s) \in Nat /\ \A k \in 1 .. Len(s) : s[k] \in Int
    BY <2>1
  <2>3. s = [k \in 1 .. Len(s) |-> s[k]]
    BY <2>1
  <2>4. s \in [1 .. Len(s) -> Int]
    BY <2>2, <2>3
  <2>5. s \in Seq(Int)
    BY <2>2, <2>4, RangeSeq
  <2> QED
    BY <2>1, <2>5 DEF Ordered
<1>5. id # NoId
  BY BoundsAssumption DEF NoId
<1>6. SplitInv'
  BY <1>2, <1>3, <1>4, SplitTaken DEF CuttingInv
<1>7. time' = s
  BY <1>2 DEF SP!Take
<1> QED
  BY <1>1, <1>3, <1>5, <1>6, <1>7 DEF GotRow

(* The functions leave what they are called with alone. *)
LEMMA TimesStay == SP!Next => time' = time
BY DEF SP!Next, SP!ChooseParts, SP!PiecePerPart, SP!PiecePerLine, SP!CutByNumber, SP!BeginPart,
       SP!Pass, SP!CutAtPoint, SP!CutBefore, SP!CutAfter, SP!CutBetween, SP!CutTo, SP!EndPart

(* and the store stays as it is while the trajectory is cut. *)
LEMMA StreamStep == CuttingInv /\ [StreamNext]_<<vars, streamVars>> => CuttingInv'
<1> SUFFICES ASSUME CuttingInv, [StreamNext]_<<vars, streamVars>> PROVE CuttingInv'
  OBVIOUS
<1>1. ReadInv /\ GotRow /\ SplitInv
  BY DEF CuttingInv
<1>2. ASSUME UNCHANGED vars
      PROVE  ReadInv' /\ rows' = rows
  BY <1>1, <1>2, ReadInvStep DEF vars
<1>3. ASSUME NEW id \in 0 .. MaxId, GetNext(id)
      PROVE  CuttingInv'
  <2>1. UNCHANGED vars
    BY <1>3 DEF GetNext
  <2>2. SplitInv' /\ GotRow'
    BY <1>3, GetNextKeeps
  <2> QED
    BY <1>2, <2>1, <2>2 DEF CuttingInv
<1>4. CASE CutFunc
  <2>1. UNCHANGED vars /\ got' = got /\ got # NoId /\ SP!Next
    BY <1>4 DEF CutFunc
  <2>2. SplitInv' /\ time' = time
    BY <1>1, <2>1, SplitStep, TimesStay
  <2>3. GotRow'
    BY <1>1, <1>2, <2>1, <2>2 DEF GotRow
  <2> QED
    BY <1>2, <2>1, <2>2, <2>3 DEF CuttingInv
<1>5. CASE StoreWorks
  <2>1. Next /\ got = NoId /\ got' = NoId
        /\ UNCHANGED <<cut, time, partStart, parts, at, ms, segStart, seg, res, done, exact>>
    BY <1>5 DEF StoreWorks, streamVars
  <2>2. SplitInv'
    BY <1>1, <2>1, SplitStays
  <2> QED
    <3>1. ReadInv'
      BY <1>1, <2>1, ReadInvStep
    <3>2. GotRow'
      BY <1>1, <2>1 DEF GotRow
    <3> QED
      BY <2>2, <3>1, <3>2 DEF CuttingInv
<1>6. CASE UNCHANGED <<vars, streamVars>>
  <2>1. UNCHANGED vars /\ got' = got
        /\ UNCHANGED <<cut, time, partStart, parts, at, ms, segStart, seg, res, done, exact>>
    BY <1>6 DEF streamVars
  <2>2. SplitInv'
    BY <1>1, <2>1, SplitStays
  <2> QED
    BY <1>1, <1>2, <2>1, <2>2 DEF CuttingInv, GotRow
<1> QED
  BY <1>3, <1>4, <1>5, <1>6 DEF StreamNext

LEMMA StreamHolds == StreamSpec => []CuttingInv
BY StreamBegins, StreamStep, PTL DEF StreamSpec

(* The pieces that ISS, GSS, OPTS, FP, RDP, EveryLine and OneBox cut a     *)
(* trajectory into follow one another from its first point to its last,    *)
(* each with the points of its time; and loadTraj returns for the interval *)
(* kept with a piece those points of that trajectory, unless, without      *)
(* subtrajectory pages, the interval starts on the last point of a page    *)
(* (xStore.cc:462): then it never does. So it is with a trajectory this    *)
(* process has loaded and with one that was whole at some flush.           *)
THEOREM PiecesAreLoaded == StreamSpec => []PiecesLoad
<1>1. CuttingInv => PiecesLoad
  <2> SUFFICES ASSUME CuttingInv PROVE PiecesLoad
    OBVIOUS
  <2>1. ReadInv /\ GotRow /\ SplitInv
    BY DEF CuttingInv
  <2>2. SP!PiecesCover
    BY <2>1, Covers
  <2>3. ASSUME done, NEW x \in Stored(got), NEW k \in DOMAIN res
        PROVE  (LoadTraj(rows[got], res[k].ms, res[k].me) = Slice(x.t, res[k].ms, res[k].me))
               <=> ~Misread(res[k].ms)
    <3>1. ReadsBack(got, x)
      <4>1. CASE x = mine[got] /\ ~failedBuild /\ got \in DOMAIN mine \ earlier.ids
        BY <2>1, <4>1, AllReadBack DEF LoadedReadsBack
      <4>2. CASE x = committed[got] /\ got \in DOMAIN committed
        BY <2>1, <4>2, CommittedReadBack DEF CommittedReadsBack
      <4> QED
        BY <2>3, <4>1, <4>2 DEF Stored
    <3>2. got # NoId
      BY <2>1, <2>3 DEF GotRow, SplitInv, NotBegun
    <3>3. rows[got].n = x.n /\ rows[got].n \in Nat /\ Len(time) <= x.n
      <4>1. Inv
        BY <2>1 DEF ReadInv, KeptInv, PageInv
      <4> QED
        BY <2>1, <3>1, <3>2, <4>1, WholeRead DEF GotRow, ReadsBack
    <3>4. 0 <= res[k].ms /\ res[k].ms < res[k].me /\ res[k].me < Len(time)
      BY <2>2, <2>3 DEF SP!PiecesCover
    <3>5. res[k].ms \in Int /\ res[k].me \in Int /\ Len(time) \in Int
      <4>1. Called /\ HasCut
        BY <2>1, <2>3, Zenon DEF SplitInv, NotBegun, Called, CutsPart
      <4>2. res \in Seq(PieceSet) /\ time \in Seq(Int)
        BY <4>1, Zenon DEF Called, HasCut, Chained, Ordered
      <4>3. res[k] \in PieceSet
        BY <2>3, <4>2
      <4> QED
        BY <4>2, <4>3 DEF PieceSet
    <3>6. <<res[k].ms, res[k].me>> \in Intervals(x.n)
      BY <3>3, <3>4, <3>5 DEF Intervals
    <3>7. <<res[k].ms, res[k].me>>[1] = res[k].ms /\ <<res[k].ms, res[k].me>>[2] = res[k].me
      OBVIOUS
    <3> QED
      BY <3>1, <3>6, <3>7 DEF ReadsBack
  <2> QED
    BY <2>2, <2>3 DEF PiecesLoad
<1> QED
  BY <1>1, StreamHolds, PTL

(* The pieces ISS, GSS and OPTS cut are near the length asked for          *)
(* (splitSoftThres), the longer ones after an exact cut too.               *)
THEOREM PiecesAreNearLength == StreamSpec => []PiecesNearLength
<1>1. CuttingInv => PiecesNearLength
  BY NearLengths DEF CuttingInv, PiecesNearLength
<1> QED
  BY <1>1, StreamHolds, PTL
=============================================================================

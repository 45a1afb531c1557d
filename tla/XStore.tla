------------------------------- MODULE XStore -------------------------------
(***************************************************************************)
(* The trajectory store (src/storagemanager/xStore.cc) over the disk       *)
(* storage manager and the sqlite catalog (tjsql.cc), with the index       *)
(* builders (IndexBuildHelper.cc, BulkLoader.cc) that share its pages.     *)
(*                                                                         *)
(* A trajectory is cut into pages of at most Fp points, written under      *)
(* NewPage one after the other; its row in the catalog names the first     *)
(* page and the number of points, and loadTraj computes from these which   *)
(* pages to read: it takes for granted that they are consecutive. Rows are *)
(* durable at once, pages are on disk at once, the allocator is durable at *)
(* a flush and m_property (the .property file) after it.                   *)
(*                                                                         *)
(* DiskStorageManager.tla models the writes inside a flush and a store;    *)
(* here each of the two is one step, and records have one page. A store    *)
(* that fails leaves the failbit of the .dat file set, and the process     *)
(* cannot store any more: that later stores may work again here is one     *)
(* behaviour more. A flush that throws ends the process: a Crash.          *)
(*                                                                         *)
(* Not modelled: the store named "od" (xStore.cc:236), which is created    *)
(* without files and gets a storage manager in its first loadFile, whose   *)
(* files are opened when they are there and created otherwise (:115).      *)
(***************************************************************************)
EXTENDS Integers, Sequences, FiniteSets, SequencesExt

CONSTANTS
  Fp,         \* points per page, fp in the code
  File,       \* the constructor's file: its name and its lines, [id, n]
  Appended,   \* the files loadFile is given
  Names,      \* names of indexes
  MaxNodes,   \* bound: nodes of an index
  MaxPage,    \* bound: pages of the .dat file
  MaxId,      \* bound: ids of the catalog
  SubTraj,    \* the values of the constructor's argument subtrajs
  KeptIds,    \* loadFile keeps ids up to this one (10 in the code)
  MaxFailures, \* bound: lines, pages and rows that fail to load
  BulkFails,  \* whether a bulk load may throw half way
  ForceNew    \* whether a store may be created over an existing one

ASSUME FpAssumption == Fp \in Nat /\ Fp >= 2
ASSUME BoundsAssumption == {MaxPage, MaxId, MaxNodes, MaxFailures, KeptIds} \subseteq Nat
ASSUME SubTrajAssumption == SubTraj \subseteq BOOLEAN
ASSUME FileAssumption ==
  \A file \in Appended \cup {File} : file.lines \in Seq([id : Nat, n : Nat])
(* The trajectories of the constructor's file are numbered upwards, those  *)
(* of the others are numbered anew; an id that is in use would keep the    *)
(* row it has.                                                             *)
ASSUME NumbersAssumption ==
  /\ \A j, k \in 1 .. Len(File.lines) : j < k => File.lines[j].id < File.lines[k].id
  /\ \A file \in Appended : \A k \in 1 .. Len(file.lines) : file.lines[k].id > KeptIds

VARIABLES
  open,        \* a process has the store open
  bSubTraj,    \* m_bSubTraj
  nextPage, emptyPages,   \* the allocator, in memory
  idx,         \* the .idx file: the allocator as of the last flush
  dat,         \* page -> what it holds
  rows,        \* the traj table: id -> [page, n]
  nextTraj,    \* next_traj, the cache of db_last_trajid
  property,    \* the .property file
  names,       \* m_property in memory: index name -> header page
  pc,          \* what the process is doing
  todo,        \* the rest of the file being loaded
  traj,        \* the trajectory being cut
  tree,        \* the index being built
  \* for the properties only:
  mine,        \* what this process loaded: id -> [t, n, page]
  committed,   \* what had been loaded and read back at some completed flush
  failedBuild, \* some bulk load has thrown
  earlier,     \* ids and index names left by the store this one was created over,
               \* and ids left by a creation that died when this one did not reach them
  failures     \* for the bound: lines, pages and rows that have failed to load

diskVars == <<nextPage, emptyPages, idx, dat>>
ghostVars == <<mine, committed, failedBuild, earlier, failures>>
vars == <<open, bSubTraj, nextPage, emptyPages, idx, dat, rows, nextTraj,
          property, names, pc, todo, traj, tree, ghostVars>>

-----------------------------------------------------------------------------
(* Data. A trajectory is known by the file it came from and its place in   *)
(* it; a point by its trajectory and its place there.                      *)

Page == 0 .. MaxPage - 1
Blank == [kind |-> "blank"]
Empty == [x \in {} |-> x]

EmptyIdx == [saved |-> FALSE, next |-> 0, empty |-> {}]
NoProperty == [is |-> "absent", names |-> Empty]
TornProperty == [is |-> "torn", names |-> Empty]

NoTraj == [id |-> -1, n |-> 0, t |-> <<>>, rem |-> 0, cur |-> 0, first |-> -1]
NoTree == [name |-> "", root |-> -1, header |-> -1, nodes |-> 0]

PointsPage(t, first, len) == [kind |-> "points", t |-> t, first |-> first, len |-> len]
NodePage(name, k) == [kind |-> "node", name |-> name, k |-> k]
HeaderPage(name, root) == [kind |-> "header", name |-> name, root |-> root]

Put(f, x, y) == [z \in DOMAIN f \cup {x} |-> IF z = x THEN y ELSE f[z]]

Smaller(a, b) == IF a <= b THEN a ELSE b
Larger(a, b) == IF a <= b THEN b ELSE a
Ceil(a, b) == (a + b - 1) \div b

(* The allocator of DiskStorageManager: the smallest empty page, or the    *)
(* page after the last.                                                    *)
SmallestOf(S) == CHOOSE p \in S : \A q \in S : p <= q
(* A bug: pages are always appended and empty ones never used again. *)
PageAppended == nextPage
PageTaken == IF emptyPages # {} THEN SmallestOf(emptyPages) ELSE nextPage
StoreNew(content) ==
  /\ PageTaken \in Page                                     \* bound
  /\ dat' = [dat EXCEPT ![PageTaken] = content]
  /\ emptyPages' = emptyPages \ {PageTaken}
  /\ nextPage' = IF emptyPages = {} THEN nextPage + 1 ELSE nextPage
  /\ UNCHANGED idx

(* db_last_trajid: the cache, or else the largest id of the table (0 when  *)
(* the table is empty).                                                    *)
LastTrajId ==
  IF nextTraj >= 0 THEN nextTraj
  ELSE IF rows = Empty THEN 0
  ELSE CHOOSE i \in DOMAIN rows : \A j \in DOMAIN rows : j <= i

-----------------------------------------------------------------------------
(* loadTraj for the points s..e of a trajectory of n points whose row      *)
(* names page: the points it returns, Junk where it reads bytes that no    *)
(* point of a trajectory was written to.                                   *)

Junk == [t |-> <<>>, i |-> -1]

PointAt(p, slot) ==
  IF p \in Page /\ dat[p].kind = "points" /\ slot < dat[p].len
  THEN [t |-> dat[p].t, i |-> dat[p].first + slot]
  ELSE Junk

SlotsOf(p, from, to) == [k \in 1 .. to - from + 1 |-> PointAt(p, from + k - 1)]

(* One round of the loop over the pages: what it adds to acc, the points   *)
(* read so far and the place of the page's first point.                    *)
ReadSub(acc, i, pagee, ms, me) ==
  LET ps == Larger(0, ms - acc.cur)
      pl == Smaller(Fp - 1, me - acc.cur)
      pe == IF i # pagee /\ pl = Fp - 1 THEN pl - 1 ELSE pl
  IN [out |-> acc.out \o SlotsOf(i, ps, pe), cur |-> acc.cur + pe + 1]

LoadSubTraj(page, ms, me) ==
  LET pages  == page + ms \div (Fp - 1)
      last   == page + Ceil(me, Fp - 1) - 1
      pagee  == IF pages > last THEN last + 1 ELSE last
      Read[i \in pages - 1 .. pagee] ==
        IF i < pages THEN [out |-> <<>>, cur |-> (ms \div (Fp - 1)) * (Fp - 1)]
        ELSE ReadSub(Read[i - 1], i, pagee, ms, me)
  IN Read[pagee].out

ReadPlain(acc, i, ms, me) ==
  LET ps == Larger(0, ms - acc.cur)
      pe == Smaller(Fp - 1, me - acc.cur)
  IN [out |-> acc.out \o SlotsOf(i, ps, pe), cur |-> acc.cur + Fp]

LoadPlain(page, ms, me) ==
  LET pages == page + (ms + 1) \div Fp
      pagee == page + Ceil(me + 1, Fp) - 1
      Read[i \in pages - 1 .. pagee] ==
        IF i < pages THEN [out |-> <<>>, cur |-> (ms \div Fp) * Fp]
        ELSE ReadPlain(Read[i - 1], i, ms, me)
  IN Read[pagee].out

LoadTraj(row, s, e) ==
  LET ms == Smaller(row.n - 1, s)
      me == Smaller(row.n - 1, e)
  IN IF bSubTraj THEN LoadSubTraj(row.page, ms, me) ELSE LoadPlain(row.page, ms, me)

(* The points s..e of trajectory t, as the caller of loadTraj wants them. *)
Slice(t, s, e) == [k \in 1 .. e - s + 1 |-> [t |-> t, i |-> s + k - 1]]

(* The intervals of a trajectory of n points. *)
Intervals(n) == {se \in (0 .. n - 1) \X (0 .. n - 1) : se[1] < se[2]}

(* Without subtrajectory pages loadTraj computes the first page from s + 1 *)
(* instead of s (xStore.cc:462): an interval that starts on the last point *)
(* of a page is read from the page after it, whose last point comes first. *)
Misread(s) == ~bSubTraj /\ (s + 1) % Fp = 0

(* Of a trajectory every interval reads back, point by point, but those.   *)
ReadsBack(id, x) ==
  /\ id \in DOMAIN rows
  /\ rows[id].n = x.n
  /\ \A se \in Intervals(x.n) :
       (LoadTraj(rows[id], se[1], se[2]) = Slice(x.t, se[1], se[2])) <=> ~Misread(se[1])

-----------------------------------------------------------------------------
Init ==
  /\ open = FALSE
  /\ bSubTraj \in SubTraj
  /\ nextPage = 0
  /\ emptyPages = {}
  /\ idx = EmptyIdx
  /\ dat = [p \in Page |-> Blank]
  /\ rows = Empty
  /\ nextTraj = -1
  /\ property = NoProperty
  /\ names = Empty
  /\ pc = "idle"
  /\ todo = <<>>
  /\ traj = NoTraj
  /\ tree = NoTree
  /\ mine = Empty
  /\ committed = Empty
  /\ failedBuild = FALSE
  /\ earlier = [ids |-> {}, names |-> {}]
  /\ failures = 0

-----------------------------------------------------------------------------
(* The constructor *)

(* CheckFilesExists looks for .idx, .dat, .sqlite and .property; the first *)
(* three are there from the first creation on.                             *)
FilesExist == property.is # "absent"

(* The trajectories of a file, with their names. *)
Trajectories(file) ==
  [k \in 1 .. Len(file.lines) |->
     [id |-> file.lines[k].id, n |-> file.lines[k].n, t |-> <<file.name, k>>]]

(* Creation truncates .idx and .dat; the catalog and the .property file    *)
(* of an earlier life stay until they are written.                         *)
Create ==
  /\ ~open
  /\ ~FilesExist \/ ForceNew
  /\ open' = TRUE
  /\ nextPage' = 0
  /\ emptyPages' = {}
  /\ idx' = EmptyIdx
  /\ dat' = [p \in Page |-> Blank]
  /\ names' = Empty
  /\ pc' = "load"
  /\ todo' = Trajectories(File)
  /\ failedBuild' = FALSE
  /\ committed' = Empty
  /\ earlier' = IF FilesExist THEN [ids |-> DOMAIN rows, names |-> DOMAIN property.names] ELSE earlier
  /\ UNCHANGED <<bSubTraj, rows, nextTraj, property, traj, tree, mine, failures>>

(* The existing store: the allocator from .idx, m_property from .property. *)
(* An empty .idx or a .property cut short makes the constructor throw.     *)
Open ==
  /\ ~open
  /\ FilesExist
  /\ idx.saved
  /\ property.is # "torn"
  /\ open' = TRUE
  /\ nextPage' = idx.next
  /\ emptyPages' = idx.empty
  /\ names' = property.names
  /\ UNCHANGED <<bSubTraj, idx, dat, rows, nextTraj, property, pc, todo, traj,
                 tree, ghostVars>>

-----------------------------------------------------------------------------
(* Loading a file: the constructor keeps the ids of its file, loadFile     *)
(* replaces those beyond KeptIds.                                          *)

LoadFile(file) ==
  /\ open
  /\ pc = "idle"
  /\ pc' = "append"
  /\ todo' = Trajectories(file)
  /\ UNCHANGED <<open, bSubTraj, diskVars, rows, nextTraj, property, names,
                 traj, tree, ghostVars>>

Loading == open /\ pc \in {"load", "append"}

NumbersAnew(x) == pc = "append" /\ x.id > KeptIds

(* A bug: the id of an appended trajectory is the last one, not the next. *)
IdReused(x) == IF NumbersAnew(x) THEN LastTrajId ELSE x.id
IdOf(x) == IF NumbersAnew(x) THEN LastTrajId + 1 ELSE x.id

NextLine ==
  /\ Loading
  /\ traj = NoTraj
  /\ todo # <<>>
  /\ todo' = Tail(todo)
  /\ nextTraj' = IF NumbersAnew(Head(todo)) THEN LastTrajId ELSE nextTraj
  /\ UNCHANGED <<open, bSubTraj, diskVars, rows, property, names, pc, tree, ghostVars>>

Begun(x) == [id |-> IdOf(x), n |-> x.n, t |-> x.t, rem |-> x.n, cur |-> 0, first |-> -1]

(* A bug: trajectories of one point are stored too. *)
BeginTrajShort ==
  /\ NextLine
  /\ IdOf(Head(todo)) <= MaxId
  /\ traj' = Begun(Head(todo))

BeginTraj ==
  /\ NextLine
  /\ Head(todo).n >= 2
  /\ IdOf(Head(todo)) <= MaxId                              \* bound
  /\ traj' = Begun(Head(todo))

(* A trajectory of one point is passed over. *)
DropTraj ==
  /\ NextLine
  /\ Head(todo).n < 2
  /\ UNCHANGED traj

Fails ==
  /\ failures < MaxFailures                                 \* bound
  /\ failures' = failures + 1

(* The constructor's file has ended early: rows of a creation that died,   *)
(* which it would have come to, are still in the catalog.                  *)
NotReached ==
  earlier' = IF pc = "load"
             THEN [ids |-> earlier.ids \cup (DOMAIN rows \ DOMAIN mine), names |-> earlier.names]
             ELSE earlier

(* A line that cannot be read, its id or its points, throws: the loader    *)
(* catches whatever it is and ends the file there.                         *)
LineFails ==
  /\ Fails
  /\ Loading
  /\ traj = NoTraj
  /\ todo # <<>>
  /\ todo' = <<>>
  /\ \/ UNCHANGED nextTraj
     \/ NumbersAnew(Head(todo)) /\ nextTraj' = LastTrajId
  /\ NotReached
  /\ UNCHANGED <<open, bSubTraj, diskVars, rows, property, names, pc, traj, tree,
                 mine, committed, failedBuild>>

(* A bug: the last page of a trajectory is cut without the shared point. *)
CutPageLastAlone ==
  /\ Loading
  /\ traj # NoTraj
  /\ traj.rem > 0
  /\ LET plen == Smaller(traj.rem, Fp)
         left == traj.rem - Fp
         again == bSubTraj /\ left > Fp
     IN /\ StoreNew(PointsPage(traj.t, traj.cur, plen))
        /\ traj' = [traj EXCEPT
             !.first = IF @ = -1 THEN PageTaken ELSE @,
             !.rem = IF again THEN left + 1 ELSE left,
             !.cur = IF again THEN @ + plen - 1 ELSE @ + plen]
  /\ UNCHANGED <<open, bSubTraj, rows, nextTraj, property, names, pc, todo,
                 tree, ghostVars>>

(* One page: with subtrajectories the last point of a page is written      *)
(* again as the first of the next.                                         *)
CutPage ==
  /\ Loading
  /\ traj # NoTraj
  /\ traj.rem > 0
  /\ LET plen == Smaller(traj.rem, Fp)
         left == traj.rem - Fp
         again == bSubTraj /\ left # 0
     IN /\ StoreNew(PointsPage(traj.t, traj.cur, plen))
        /\ traj' = [traj EXCEPT
             !.first = IF @ = -1 THEN PageTaken ELSE @,
             !.rem = IF again THEN left + 1 ELSE left,
             !.cur = IF again THEN @ + plen - 1 ELSE @ + plen]
  /\ UNCHANGED <<open, bSubTraj, rows, nextTraj, property, names, pc, todo,
                 tree, ghostVars>>

(* The page is taken and the store of it throws: the file ends here too,   *)
(* and the pages of the trajectory are lost.                               *)
PageFails ==
  /\ Fails
  /\ Loading
  /\ traj # NoTraj
  /\ traj.rem > 0
  /\ StoreNew(Blank)
  /\ traj' = NoTraj
  /\ todo' = <<>>
  /\ NotReached
  /\ UNCHANGED <<open, bSubTraj, rows, nextTraj, property, names, pc, tree,
                 mine, committed, failedBuild>>

(* db_insert_traj: the cache takes the id whatever it was, and a row that  *)
(* is already there stays as it is (the error is only printed).            *)
InsertRow ==
  /\ Loading
  /\ traj # NoTraj
  /\ traj.rem <= 0
  /\ nextTraj' = traj.id
  /\ rows' = IF traj.id \in DOMAIN rows THEN rows
             ELSE Put(rows, traj.id, [page |-> traj.first, n |-> traj.n])
  /\ mine' = Put(mine, traj.id, [t |-> traj.t, n |-> traj.n, page |-> traj.first])
  /\ traj' = NoTraj
  /\ UNCHANGED <<open, bSubTraj, diskVars, property, names, pc, todo, tree,
                 committed, failedBuild, earlier, failures>>

(* The insert fails for another reason, which is only printed as well: the *)
(* trajectory has its pages and no row.                                    *)
InsertFails ==
  /\ Fails
  /\ Loading
  /\ traj # NoTraj
  /\ traj.rem <= 0
  /\ nextTraj' = traj.id
  /\ traj' = NoTraj
  /\ UNCHANGED <<open, bSubTraj, diskVars, rows, property, names, pc, todo, tree,
                 mine, committed, failedBuild, earlier>>

EndLoad ==
  /\ Loading
  /\ traj = NoTraj
  /\ todo = <<>>
  /\ pc' = "flush"
  /\ UNCHANGED <<open, bSubTraj, diskVars, rows, nextTraj, property, names,
                 todo, traj, tree, ghostVars>>

-----------------------------------------------------------------------------
(* flush: the storage manager, then the .property file, which is truncated *)
(* when it is opened and written after.                                    *)

Header == [saved |-> TRUE, next |-> nextPage, empty |-> emptyPages]

(* A bug: the storage manager is not flushed, only its destructor does it. *)
FlushDiskLater ==
  /\ open
  /\ pc = "flush"
  /\ pc' = "truncate"
  /\ idx' = IF idx.saved THEN idx ELSE Header
  /\ UNCHANGED <<open, bSubTraj, nextPage, emptyPages, dat, rows, nextTraj,
                 property, names, todo, traj, tree, ghostVars>>

FlushDisk ==
  /\ open
  /\ pc = "flush"
  /\ idx' = Header
  /\ pc' = "truncate"
  /\ UNCHANGED <<open, bSubTraj, nextPage, emptyPages, dat, rows, nextTraj,
                 property, names, todo, traj, tree, ghostVars>>

TruncateProperty ==
  /\ open
  /\ pc = "truncate"
  /\ property' = TornProperty
  /\ pc' = "write"
  /\ UNCHANGED <<open, bSubTraj, diskVars, rows, nextTraj, names, todo, traj,
                 tree, ghostVars>>

WriteProperty ==
  /\ open
  /\ pc = "write"
  /\ property' = [is |-> "written", names |-> names]
  /\ pc' = "idle"
  /\ committed' = [i \in DOMAIN committed \cup {j \in DOMAIN mine : ReadsBack(j, mine[j])} |->
                     IF i \in DOMAIN committed THEN committed[i] ELSE mine[i]]
  /\ earlier' = IF names = Empty THEN [earlier EXCEPT !.names = {}] ELSE earlier
  /\ UNCHANGED <<open, bSubTraj, diskVars, rows, nextTraj, names, todo, traj,
                 tree, mine, failedBuild, failures>>

-----------------------------------------------------------------------------
(* Building an index (buildMBRRTreeWP and its siblings) *)

(* A new tree: its empty root and its header are stored, and the name goes *)
(* into m_property at once.                                                *)
NewTree(name) ==
  /\ open
  /\ pc = "idle"
  /\ name \notin DOMAIN names
  /\ StoreNew(NodePage(name, 0))
  /\ tree' = [name |-> name, root |-> PageTaken, header |-> -1, nodes |-> 0]
  /\ nextTraj' = LastTrajId
  /\ pc' = "header"
  /\ UNCHANGED <<open, bSubTraj, rows, property, names, todo, traj, ghostVars>>

NewHeader ==
  /\ open
  /\ pc = "header"
  /\ StoreNew(HeaderPage(tree.name, tree.root))
  /\ tree' = [tree EXCEPT !.header = PageTaken]
  /\ names' = Put(names, tree.name, PageTaken)
  /\ pc' = "bulk"
  /\ UNCHANGED <<open, bSubTraj, rows, nextTraj, property, todo, traj, ghostVars>>

(* bulkLoadUsingSTR: the stream of boxes is empty unless the last id is    *)
(* positive; the root is deleted, then the nodes are written.              *)
BeginBulk ==
  /\ open
  /\ pc = "bulk"
  /\ LastTrajId > 0
  /\ emptyPages' = emptyPages \cup {tree.root}
  /\ pc' = "nodes"
  /\ UNCHANGED <<open, bSubTraj, nextPage, idx, dat, rows, nextTraj, property,
                 names, todo, traj, tree, ghostVars>>

BulkNode ==
  /\ open
  /\ pc = "nodes"
  /\ tree.nodes < MaxNodes                                  \* bound
  /\ StoreNew(NodePage(tree.name, tree.nodes + 1))
  /\ tree' = [tree EXCEPT !.root = PageTaken, !.nodes = @ + 1]
  /\ UNCHANGED <<open, bSubTraj, rows, nextTraj, property, names, pc, todo,
                 traj, ghostVars>>

(* A bug: the header is not stored again with the root of the bulk load. *)
EndBulkOldHeader ==
  /\ open
  /\ pc = "nodes"
  /\ tree.nodes > 0
  /\ tree' = NoTree
  /\ pc' = "flush"
  /\ UNCHANGED <<open, bSubTraj, diskVars, rows, nextTraj,
                 property, names, todo, traj, ghostVars>>

EndBulk ==
  /\ open
  /\ pc = "nodes"
  /\ tree.nodes > 0
  /\ dat' = [dat EXCEPT ![tree.header] = HeaderPage(tree.name, tree.root)]
  /\ tree' = NoTree
  /\ pc' = "flush"
  /\ UNCHANGED <<open, bSubTraj, nextPage, emptyPages, idx, rows, nextTraj,
                 property, names, todo, traj, ghostVars>>

(* An exception leaves the name in m_property and the tree half built. *)
BulkThrows ==
  /\ open
  /\ \/ pc = "bulk" /\ LastTrajId <= 0
     \/ pc = "nodes" /\ BulkFails
  /\ failedBuild' = TRUE
  /\ tree' = NoTree
  /\ pc' = "idle"
  /\ UNCHANGED <<open, bSubTraj, diskVars, rows, nextTraj, property, names,
                 todo, traj, mine, committed, earlier, failures>>

-----------------------------------------------------------------------------
(* The end of the process. The destructor flushes the storage manager and  *)
(* not the .property file.                                                 *)

Forget ==
  /\ open' = FALSE
  /\ nextPage' = 0
  /\ emptyPages' = {}
  /\ nextTraj' = -1
  /\ names' = Empty
  /\ pc' = "idle"
  /\ todo' = <<>>
  /\ traj' = NoTraj
  /\ tree' = NoTree
  /\ mine' = Empty
  /\ UNCHANGED <<bSubTraj, dat, rows, property, committed, failedBuild, earlier, failures>>

Close ==
  /\ open
  /\ pc = "idle"
  /\ Forget
  /\ idx' = Header

Crash ==
  /\ open
  /\ Forget
  /\ UNCHANGED idx

Next ==
  \/ Create
  \/ Open
  \/ \E file \in Appended : LoadFile(file)
  \/ BeginTraj
  \/ DropTraj
  \/ LineFails
  \/ CutPage
  \/ PageFails
  \/ InsertRow
  \/ InsertFails
  \/ EndLoad
  \/ FlushDisk
  \/ TruncateProperty
  \/ WriteProperty
  \/ \E name \in Names : NewTree(name)
  \/ NewHeader
  \/ BeginBulk
  \/ BulkNode
  \/ EndBulk
  \/ BulkThrows
  \/ Close
  \/ Crash

Spec == Init /\ [][Next]_vars

-----------------------------------------------------------------------------
(* Properties *)

TypeOK ==
  /\ open \in BOOLEAN
  /\ bSubTraj \in BOOLEAN
  /\ nextPage \in 0 .. MaxPage
  /\ emptyPages \subseteq Page
  /\ idx.saved \in BOOLEAN /\ idx.next \in 0 .. MaxPage /\ idx.empty \subseteq Page
  /\ DOMAIN dat = Page
  /\ \A id \in DOMAIN rows : rows[id].page \in Page /\ rows[id].n >= 2
  /\ nextTraj >= -1
  /\ property.is \in {"absent", "torn", "written"} /\ DOMAIN property.names \subseteq Names
  /\ DOMAIN names \subseteq Names
  /\ pc \in {"idle", "load", "append", "flush", "truncate", "write",
             "header", "bulk", "nodes"}
  /\ failedBuild \in BOOLEAN
  /\ earlier.names \subseteq Names

(* loadTraj trusts that the pages of a trajectory follow one another,      *)
(* while the allocator prefers an empty page: what keeps the two together  *)
(* is that the one page an index build frees, its first root, is taken     *)
(* again by its first node. So no empty page is left when trajectories are *)
(* cut, nor in the header a later process starts from.                     *)
NoEmptyPageLeft ==
  ~failedBuild =>
    /\ pc # "nodes" => emptyPages = {}
    /\ idx.empty = {}

(* Every trajectory a process has loaded reads back, while files are       *)
(* appended, indexes are built, lines, pages and rows fail to load and     *)
(* earlier processes have died anywhere; also in a store created over      *)
(* another, but for ids that the other's catalog has left. It reads back   *)
(* over every interval but, in the plain layout, the ones that start on    *)
(* the last point of a page: loadTraj never returns those right.           *)
LoadedReadsBack ==
  ~failedBuild => \A id \in DOMAIN mine \ earlier.ids : ReadsBack(id, mine[id])

(* A trajectory that read back when a flush completed reads back ever      *)
(* after: no allocation of this or of a later process, not even one that   *)
(* starts from the header of that flush after a crash, nor a bulk load     *)
(* that throws, lands on its pages.                                        *)
CommittedReadsBack ==
  \A id \in DOMAIN committed : ReadsBack(id, committed[id])

(* The nodes of one build lie from the page before its header on; those of *)
(* builds that a crash cut off lie below.                                  *)
NodesOf(name, header) ==
  {p \in header - 1 .. idx.next - 1 : dat[p].kind = "node" /\ dat[p].name = name}

Resolves(name, header) ==
  /\ header \in 0 .. idx.next - 1
  /\ dat[header].kind = "header"
  /\ dat[header].name = name
  /\ dat[header].root \in NodesOf(name, header)
  /\ \A p \in NodesOf(name, header) : dat[p].k <= dat[dat[header].root].k

(* A name in the .property file leads to the header of its index and from  *)
(* there to the last node of its bulk load, the root, on pages that the    *)
(* saved allocator counts as taken: a builder that finds the name opens    *)
(* that index unchecked. Names left by a store this one was created over   *)
(* are excepted, until a flush writes none of them.                        *)
SavedNamesResolve ==
  ~failedBuild /\ property.is = "written" =>
    \A name \in DOMAIN property.names \ earlier.names : Resolves(name, property.names[name])
=============================================================================

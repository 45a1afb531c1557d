# A verification project for TRI-Framework

TRI-Framework stores trajectories in pages, cuts them into boxes, packs the
boxes into R-trees and answers range and nearest-neighbour queries over them.
The library derives from libspatialindex; what it adds is the trajectory store
(`xStore`), the index builders, a bulk loader that links leaves of the same
trajectory, and a best-first search that loads partial trajectories.

This directory holds TLA+ modules of its parts, TLC configurations that
model-check them on small instances, and proofs, checked by TLAPS, of theorems
about the disk storage manager, the trajectory store and what it reads back, the
external sorter and the bulk loader, the range query, both kinds of
nearest-neighbour search and the priority queue under one of them, the buffer
and the page cache, and the query threads' connections, for every size of the
instance.

Paths below are relative to `src/` in the repository; `sm/` stands for
`src/storagemanager/`, `xr/` for `src/xrtree/`.

## Inventory

| Component | State it keeps | Operations | Hard because | Correct when |
|---|---|---|---|---|
| Disk storage manager (`sm/DiskStorageManager.cc`) | `m_nextPage`, `m_emptyPages`, the `.dat` and `.idx` files, the failbit of the stream | create, load, `storeByteArray`, `loadByteArray`, `deleteByteArray`, `flush`, destructor, read-only clones | the allocator is durable only at a flush, pages at once; the header is rewritten in place; a store can fail half way; pages are reused | no page that is held is handed out again, in this or in a later process |
| Trajectory store (`sm/xStore.cc`) and catalog (`sm/tjsql.cc`, sqlite) | the `.property` file and `m_property`, the page cache, rows `id -> (first page, points)`, the cached last id | create or open, `loadFile`, `loadTraj`, `flush`, clones | `loadTraj` computes page numbers and trusts that a trajectory's pages follow one another, the allocator prefers empty pages; three durable stores become durable at three moments | what was loaded reads back, over every interval the page arithmetic gets right, after any restart |
| Index builders (`sm/IndexBuildHelper.cc`) | the tree under construction, `m_property` | `buildMBRRTreeWP` and siblings | they interleave page allocation with the store's; names are registered before the tree is complete | a saved name leads to a complete index |
| Bulk loader (`xr/BulkLoader.cc`) | runs of the external sorter, the level being packed, leaf links | `insert`, `sort`, `getNextRecord`, `createLevel`, `createLevelT` | a multi-pass merge over end-of-file flags; links resolved one level later | nothing is lost, the order is the one the tiling asks for, links connect the right leaves |
| xRTree (`xr/xRTree.cc`, `Node.cc`, `Leaf.cc`, `Index.cc`) | root, tree header, statistics | open, close, `intersectsWithQuery`, `nearestNeighborQuery` | pending candidates merged at the end of a range query | results are exactly the trajectories that match |
| Nearest-neighbour search (`xr/PartStore.cc`, `PartStoreBFMST.cc`, `MutablePriorityQueue.h`) | two queues, the partial trajectories, links missing and loaded | `insert`, `updateValue`, `loadLeaf`, `top`, `pop`, `push` | bounds computed earlier decide later; handles into a queue that moves its elements | candidates come out in order of their true distance |
| Forest (`sm/../include SBBForest`, `xTrajIdx.h`) | trees with their box lengths | `chooseTree` | a tree is chosen per query | the chosen tree answers the query |
| Buffers (`sm/Buffer.cc`, `RandomEvictionsBuffer.cc`) and memory storage manager | entries with dirty flags | load, store, delete, flush, evict | write back, a capacity of zero, use after `flush` | a buffer is transparent |
| Pools (`PointerPool.h`, `ObjectPool.h`) | free objects | acquire, release | release while referenced | an object has one owner |
| Cutting of trajectories (`spatialindex/xTrajectory.cc`, from `ISS` on) and `xSBBStream` | the piece begun, the end of the stretch | `ISS`, `GSS`, `OPTS`, `FP`, `RDP`, `EveryLine`, `OneBox`, `getNext` | ends of stretches at, near and between points | pieces cover the trajectory, what is loaded for a piece reaches over it |
| Geometry (`spatialindex/*.cc`) | none | distances, bounds | floating point | bounds bound |
| Vendored: sqlite, stxxl, nlohmann json; the C API of the original library | | | | |

How they interact: a builder (one process, one thread) opens `xStore`, which
opens the disk storage manager and the catalog; `loadFile` cuts trajectories
into pages and inserts rows; the builder creates a tree, whose nodes go through
`xStore::storeByteArray` into the same page file, bulk loads it from a stream
over the rows, and calls `xStore::flush`, which flushes the storage manager and
rewrites `.property`. Query threads use clones: `xStore` clones share the page
file, have a cache of their own, and a catalog connection per thread.

## Modules

| Module | Models | Corresponds |
|---|---|---|
| `PageMap` | what a page store promises its client | abstract; no code of its own |
| `DiskStorageManager` | `sm/DiskStorageManager.cc`, every operation | variables are the members and the two files; each write inside `storeByteArray` and `flush` is a step of its own, because a crash can fall between any two |
| `DiskStorageManager_proofs` | | theorems about it |
| `XStore` | `xStore.cc`, `tjsql.cc`, the allocation side of the builders and of the bulk load | one step per page cut, row inserted, file written; a store of a page and the flush of the header are one step each (`DiskStorageManager` has their inside) |
| `XStore_proofs` | | theorems about it: pages, rows, names, what `loadTraj` returns, and the pieces a trajectory is cut into |
| `Splitting` | the seven cutting functions of `spatialindex/xTrajectory.cc` | variables are their locals; a step is a point passed or a piece cut |
| `TrajectoryStream` | `xSBBStream::getNext` over `XStore` and `Splitting` | the store is filled, then a trajectory is loaded whole and cut |
| `ExternalSorter` | the sorter of `xr/BulkLoader.cc` | one step per record inserted, per pass begun or ended, per record merged |
| `ExternalSorter_proofs` | | theorems about it |
| `BulkLoader` | `bulkLoadUsingSTR`, `createLevel`, `createLevelT` of `xr/BulkLoader.cc`, `xSBBStream` of `sm/xStore.cc` | one step per box streamed, level or slab begun, record taken by `createLevelT`, slice or strip begun, node packed |
| `BulkLoader_proofs` | | theorems about it |
| `IStorageManager` | what a tree expects of the storage it is given, whatever stands behind it | abstract; no code of its own |
| `LayeredStorage` | `sm/Buffer.cc`, `RandomEvictionsBuffer.cc` over `MemoryStorageManager.cc`; the page cache of `xStore.cc` over its disk manager | variables are the entries (`m_buffer` or `m_pagecache`) and the pages below; one step per call, with the eviction inside it |
| `QueryThreads` | `sm/tjsql.cc` (`dbfile`, `db`, `next_traj`), `xStore`'s constructor and `clone()`, `MTQ` of `test/testx/testFuncs.h` | the main thread's calls are steps; a query thread copies the name, connects, reads and releases in steps of its own |
| `Storage_proofs` | | theorems about `LayeredStorage` and about `QueryThreads` |
| `KNearest` | what a nearest-neighbour query promises, with ties or without | abstract; no code of its own |
| `PartsStore` | the SBB-driven branch of `xRTree::nearestNeighborQuery` with `xr/PartStore.cc` | variables are the members of `PartsStore` and the locals of the loop; a step is an iteration of the loop, of the loop inside `top()`, or a trajectory queued by `loadLeaf` |
| `PartsStore_proofs` | | theorems about it, the refinement of `KNearest` included |
| `MutablePriorityQueue` | `MutablePriorityQueue.h` | operators: a queue is a record of `elements`, `heap`, `index`, `invalid`, an operation gives the next one |
| `MutablePriorityQueue_proofs` | | what `Push`, `Update`, `Top` and `Pop` keep, for any strict weak order |
| `PartsStoreBFMST` | the other branch of `nearestNeighborQuery` with `xr/PartStoreBFMST.cc`, over two of these queues | as `PartsStore`; a step is an iteration of `top()` or of the loop, or a child pushed |
| `RangeQuery` | `xRTree::intersectsWithQuery` | variables are its locals; a step is a node taken from the stack, an entry of a leaf looked at, or a pending piece |
| `SBBForest` | `xr/SBBForest.cc`, over `PartsStoreBFMST` and `RangeQuery` | `chooseTree` is a step, then the query of the tree runs |
| `SBBForest_proofs` | | theorems about both kinds of query, so about `RangeQuery` and `PartsStoreBFMST`, the refinement of `KNearest` included |
| `MC*` | instances for TLC | |

Ghost variables (listed last in each module, under "for the properties only" or as "history")
record what the client knows: ids it holds (`live`), what it stored (`want`),
what the last flush covered (`saved`, `kept`, `committed`), what was inserted
and returned. No action reads them, with one exception: the client rewrites
and deletes only ids in `live`, as `xRTree` and `xStore` do.

### DiskStorageManager

*Client.* `db_load_page` is a stub that answers with the id alone and
`db_insert_page` records nothing (`sm/tjsql.cc:103-165`), so a record is its
first page as far as loads, rewrites and deletes go; `BeginStoreOld` and
`Delete` follow that. The run `disk_multipage` shows what it means for a record
of two pages, against the comment at `DiskStorageManager.cc:121`.

*Crashes.* Both files are opened with `pubsetbuf(0,0)`: a write is in the file
when it returns. `Crash` may come at any step. After a crash the client holds
the ids of the last completed flush, since that is where `xStore` gets its
names and its rows agree with the header.

*Flushes that throw.* `FlushFails` may come at every field; the destructor's
flush has no one to throw to, which ends the process. The process
goes on and keeps its allocator and its records. `idxBad` is the failbit of
`m_indexFile`, which nothing clears: no later flush of the process begins, but in
vain. It also tells whether the header is still whole: the old one, as nothing
was written yet, or torn. A write that fails changes nothing in the file. What
`m_indexFile.flush()` and `sync()` return is not looked at
(`DiskStorageManager.cc:323-326`); the file is unbuffered, so they have nothing
left to lose. In `PageMap` such a flush is `SyncFails`, after which the process
serves on (`phase = "torn"`) until it ends, or was a stutter.

*Torn headers.* `flush` overwrites `.idx` field by field and has nothing to
detect a header that is part new and part old. A process that dies after the
first field, or that goes on after a flush failed there and then ends, leaves
such a file (`sound = FALSE`), which a later load may accept
and from which live pages may be taken for empty ones. The code promises nothing
here, so the properties speak of sound files, `PageMap` has the phase `void`
for the others, and the constraint `NotTorn` makes TLC check such states
without continuing them; `Create` leaves them.

*Bounds.* `MaxPage` (pages of the file), `MaxLen` (pages of a record), the sets
`Value` and `Clone`. Two pages suffice for a page to be taken, freed, taken by
another record and overwritten; three for a header whose list of empty pages
shrinks, so that stale page numbers remain behind it. In that larger instance a
process has one broken stream, of `.dat` or of `.idx` (`OneFailure`); the smaller
one has both. The theorems hold for every bound and any failures.

### XStore

A point is known by its trajectory and its place in it, so that a load that
reads the wrong page or slot is told from a right one. `loadTraj` is translated
as the arithmetic it is, for both layouts (`subtrajs` true and false): a recursive
function over the pages, of which `ReadSub` and `ReadPlain` are one round. A line of
a file begins a trajectory (`BeginTraj`), whose pages are then cut one by one, or
is passed over when it has a single point (`DropTraj`); either way an appended id
beyond `KeptIds` has asked the catalog for its last id. `mine` and `committed`
are ghosts: which points a process stored under an id and from which page on,
and what of it a flush has covered.

*Numbers.* `db_insert_traj` ignores the error of an insertion under an id that is
in use (`sm/tjsql.cc:188-201`): the old row stays, the new pages are lost.
`NumbersAssumption` keeps to files in which that cannot happen: the constructor's
is numbered upwards, those appended have ids beyond `KeptIds`, which `loadFile`
replaces.

*Intervals.* All intervals of a trajectory are asked for. Without
subtrajectory pages `xStore.cc:462` computes the first page from `ms + 1`; an
interval that starts on the last point of a page (`Misread`) is read from the page
after it. `ReadsBack` therefore says two things: every other interval reads back,
and these never do. They are not out of the way: pieces of `EveryLine` and `FP`
start there. No test or comment of the repository speaks about them, so this
stands here and under the hazards rather than as a refuted claim.

*Failures.* Both loaders catch whatever a line or the store of a page throws, end
the file there and go on to the flush (`xStore.cc:193-195`, `:316-318`):
`LineFails` comes before the trajectory is begun, with or without a look at the last id;
`PageFails` after its page was taken, and what it wrote is nobody's. The error of
an insert is printed (`InsertFails`): the trajectory has pages and no row. If the
constructor's file ends early, rows that a creation which died had left for the lines not
reached are still in the catalog and lead into other pages; `NotReached` adds
them to `earlier`. A store that throws breaks the stream for good, so
later stores of that process would fail too; that they may work here is a behaviour
more. A flush that throws ends the process, as a crash does.

*The store named `od`* is created without files (`xStore.cc:236`) and opens or
creates them in `loadFile` (`:115`); it is not modelled.

*ForceNew.* The life run creates stores over older ones at any moment
(`ForceNew = TRUE`): pages are truncated, the sqlite file and `.property` are
not. `earlier` remembers the ids and index names the older store left; they can
go wrong and are excepted from `LoadedReadsBack` and `SavedNamesResolve`. (A
row of the earlier life is kept instead of the new one after a crash that
skipped a flush, and old names point into an empty file until the next flush.)
What the new store adds, and all that `CommittedReadsBack` says, holds.

*Bulk loads that throw.* `failedBuild` marks stores in which one did: the root
it deleted may stay an empty page and its name may be saved.
`CommittedReadsBack` is claimed of these too.

*Bounds.* A file with a one-page, a two-page and a single-point trajectory (the
loader drops the last), two files to append, one index of up to two nodes,
eight pages, ids up to three: enough for an append after an index build, a
crash in every step of both, and a restart from a header older than the rows.
One line, page or row fails in a behaviour (`MaxFailures`), and from then on the
run follows the store while a page is free, no bulk load has thrown and, over an
older life, before it builds an index (`FewFailures`).
The paging run takes every length from 2 to 10 points for pages of 3, and lets
nothing fail. The theorems hold for any number of failures.

### Splitting and TrajectoryStream

*A piece* is the interval of points its entry names and the points its box is
drawn around, known by their times. `ISS`, `GSS` and `OPTS` (which is `GSS` on
parts) end a piece where a stretch of time ends: at a point, at one within the
tolerance (`Soft`) before or after, or at one made up between two. In the last
case the next piece begins between points and its interval one point before, so
two intervals share a line; `RangeAssumption` of `SBBForest` allows for that.

*Choices.* `simplifyWithRDPN` cuts where points lie farthest from a line: any
points, fewer than asked for when the rest lies straight. `parts` has the last
points of the parts not yet cut, `partStart` (`pointPrev`) is where the next of
them begins. Times are any sequence of `Times` that is as long as what was
loaded; `TimesAssumption` says that they ascend, `CutsAssumption` which functions
there are and that `FP` gives a piece two points or more. Times are natural
numbers, so the comparison with `1e-7` is equality, and the first end of a stretch
of `gss_impl`, which the code gets by a conversion that truncates
(`xTrajectory.cc:1776`), is that of a floor; times before zero are not modelled. The flags `fakehead` and `fakeback`
do not reach an entry and are left out.

*A stretch that ends at a point* advances its end twice (`xTrajectory.cc:1694`
and `:1731`, `:1796` and `:1833`), so the next piece may be twice as long.
`exact` remembers these pieces; `PiecesNearLength` allows the long piece after
one of them and nowhere else. Nothing in the repository says how long pieces
are, so this is no refuted claim.

*What is loaded* is asked of the store the run filled, for any number that has a
row, whichever process loaded it. `PiecesLoad` says of every piece what
`ReadsBack` says of every interval: its points are loaded, unless it is one
of those of `xStore.cc:462`, and of these something else is. What there is to
compare with is `Stored`: what this process loaded, with the exceptions of
`LoadedReadsBack` (not after a bulk load that threw, nor for an id that the
catalog of an earlier store has left), and what was whole when a flush completed.

*Numbers without a row.* `xSBBStream` goes through all numbers up to the last. A
line of one point is passed over (`xStore.cc:266`) and keeps its number, an insert may
fail: such a number has no row, and `getNext` (`xStore.cc:553`) loads page 0 with
as many points as were asked for. Neither `TrajectoryStream` nor `BulkLoader` models
this; it is listed under the hazards.

*Not covered.* `FP` with one point a piece, whose first piece is a single point;
lengths below one, of which `gss_impl` divides by the integer part
(`xTrajectory.cc:1776`); trajectories of one point, which the loader drops.

*Bounds.* A stretch of 5 with a tolerance of 2 (the code's is a fifth: 1 would
leave no integer close before the end); every choice of times for two and three
points in 13 and 12 units, of four points in 11 from time 0, six patterns for
longer ones. All four ways to cut occur, twice in one trajectory, and stretches
without a point. `OPTS` takes a part for one stretch instead of five (`Coarse`),
so that short trajectories have several.

### ExternalSorter

A record is its number in the order of insertion, which leads to its sort key,
so that two records with one key are told apart. `std::sort` leaves the order of
equal keys open: `Ascending` is the set of all orders in which no record comes
before a smaller one. `eof` is set by the read that fails, as
`BufferedFileReader` does, and not by the one that returns the last record,
which the merge relies on. The priority queue compares with `<` on the heads,
so `Top` is a *largest* head: the run `sorter_order` shows that two runs do not
come out in order, although the comment at `BulkLoader.cc:141` calls for sorted
buckets that an external merge sort then merges. What does hold: no record is
lost or doubled, the end is reported after all of them, and a single buffer
comes out sorted.

*Bounds.* Buffers of four records; every input of up to five records over two
keys, and five inputs of nine records: three runs, two passes, runs that end
inside and at a buffer, equal keys within and across runs. With `BufferPages = 1` a pass merges one
run into one and `sort()` never ends; the bulk loader is built with more.

*Fairness.* `WF_vars(SortStep)`: `sort()` is a loop of one thread that nothing
blocks. It is used for `SortEnds` only.

### BulkLoader

*Sorters.* A sorter is the set of what is left in it, and hands out any record
next: `ExternalSorter` shows that it neither loses nor doubles one, and its order
depends on coordinates (over several buffers it is not even sorted). What the
order decides, which records share a node, is then a choice of `PackNode`. How
many records each node gets is computed as in the code: `createLevel` calls itself
for three dimensions, and its sorters of one slice and of one strip are counters
of what is left (`slice`, `strip`, each `Stride` records or the rest). The second
dimension takes the square root, the first a number of slices that comes from
floating-point statistics, here any from 1 to `P`.

*Links.* A leaf is first written with its flags as the numbers 0 and 1;
`PackNode` of level 1 reads each of its leaves, replaces the flags by pages or
-1 and writes it again. `LinksLead` is what `PartsStore` assumes of `LoadLeaf`'s
neighbours, `WholeTree` what it assumes of the leaves under the root.

*Trees of a single leaf* never reach level 1. `LinksLead` says nothing of them:
the leaf keeps its flags, and `nearestNeighborQuery` pushes the root as an inner
node whatever it is (`xr/xRTree.cc:983`). Nothing in the repository speaks of
trees that small. A store whose last id is 0 gives an empty stream
(`EmptyStream`), and its bulk load throws.

*Bounds.* One to three trajectories, two to eight boxes, three boxes per leaf
and two nodes per inner node: up to three leaves and three levels, slabs that
end at a full slab, at the end of the stream, and before a record that comes
too early. Pages overlap the numbers of boxes, so that a page taken for a box
would be noticed. Every number up to the last has a row (see *Numbers without a
row* above).

*Fairness.* `WF_vars(Next)`: one thread that waits for nothing, for `LoadEnds`.
`Bt` is positive (`xr/xRTree.cc:194` refuses others) and an inner node holds two
nodes or more.

### PartsStore

*Geometry as numbers.* The boxes of a trajectory partition the time of the
query. A box lasts `width` slots, its lower bound is `rate` per slot and its
upper bound `slack` more; a whole trajectory has a `distance` between the sums of
these bounds, of which `excess` comes from simplifying the query (Euclidean distance only), and a
`reach`, what the speed limit allows over a gap. A node is as far as if all of
the query lay next to its nearest box (`NodeDist`). What the search relies on,
that a trajectory is at least as far as the sum of its boxes and no farther than
their upper bounds, that its boxes last as long as the query, and that simplifying
the query costs at most `delta` and `ssdelta`, is `ShapeAssumption`; that a node is
no farther than anything in it follows. The properties are about what the search
makes of it.

*Queues and hash sets.* A queue is the set of its entries and its top the first
in `EntryMPQ`'s order; the heap and its handles are those of
`MutablePriorityQueue`, which the run `forest_queries` checks under the other
branch. `getOneMissingPart` takes whichever leaf the hash set has first: any.
`\E b \in {expression}` binds a value, it is no choice.

*Two calls of `top()`.* Case 3 compares `ps.top()` with `NULL` and, when it is
not, calls `top()` again for its bound; the first call can bring a candidate up
to date and except it, and the second then drops it. `caller` tells them apart
(`check`, `judge`).

*What ends a query.* Both queues empty, `k` results, the assertion of the
queue's `top()`, or an exception. The run `nn_empty_top` shows that the
assertion is reached. The default build compiles assertions out
(`RelWithDebInfo`); `TopOfNothing` has both outcomes: the loop of the query
takes an entry that is not there and stops, as `k` results are in by then, while
case 3 calls `top()` again, which gives `NULL`, and dereferences it. A failed query has reported only right answers so far,
which is what `KNearest` asks of it. `MissingMeansIncomplete` shows that
`getOneMissingPart` never throws, `NodeForEveryGap` that `nodetop()` is never
asked of an empty queue.

*Left out.* The 100000-iteration cut-off, which ends a query early without
notice; distances other than `RMDTW` and `IED`, for which `updateValue` returns
at once; the `MBL` mode, which behaves as `loadleaf = FALSE` here.

*Bounds.* Every choice of three trajectories among nine shapes over a root, two
inner nodes and three leaves; `k` of one, two and four (more than there are).
Three trajectories let one be excepted, one be incomplete and one be compared;
the shapes have boxes far and near in either order, several boxes in one leaf,
and a middle box whose leaf can be read by the search or as a missing part.

*Fairness.* `WF_vars(Next)`: a query is one thread that waits for nothing. It
is used for `Ends` only. `DiskStorageManager` and `XStore` need no fairness.

### SBBForest, PartsStoreBFMST, MutablePriorityQueue

*The composition.* `SBBForest` holds the state of both kinds of query and
instantiates `PartsStoreBFMST` and `RangeQuery`; `chooseTree` picks the first
range, in the order of the map, that takes the length of the query, or nothing,
and then the code dereferences `NULL` (`pc = "crashed"`). A tree with boxes and
links goes to the branch of `PartsStore` (`pc = "partsstore"`, followed in
`nn_search`); a warping distance over a query without a whole minute compares
nothing and returns without an answer (`pc = "short"`, `xr/xRTree.cc:937-943`,
a ceiling of an integer division).

*Two queues.* Entries are handles into heaps that move; `Lower` and `Raise` are
the chains of swaps of `lower` and `raise`, computed as the path they take.
`handlers` keeps handles of popped candidates, and `push` takes such handles
again for others: `QueuesAgree` says that a handle in use still leads to its
own candidate.

*Entries.* The children of a visited node, nodes or boxes, wait as a set and are
pushed by the least id first. A box entry is numbered as boxes are when they are
cut, here `MaxBoxes * t + i`; a trajectory has fewer than `MaxBoxes` boxes
(`ShapeAssumption`), so no two share a number. The instance has `MaxBoxes = 10`.

*Bounds of candidates.* As in `PartsStore`, boxes have numbers. A candidate's
estimate may overstate a gap whose boxes wait in the node queue; the answer is
right all the same, because those boxes are visited first. Estimates equal to
the k-th answer may be left unreported (`xr/xRTree.cc:1130`), so `KNearest` is
used with `Ties`.

*Assumptions.* `NodeAssumption`: under a node are the leaves under its children,
and no leaf is under two of them, which is `WholeTree` of `BulkLoader`.
`NumberAssumption`: the query has a length and one neighbour or more is asked
for. `ShapeAssumption` says what geometry owes the search: the parts of a
trajectory and the times it does not exist in make up the query; no distance
reaches 1e300; the time before a trajectory exists costs at least the rate of
its first box, the time after it that of its last, as the box holds the point it
is measured from; what the speed limit allows over a gap is no more than any
part in the gap; a trajectory that begins and ends within the query has no box
beyond it. `gapDist` (`spatialindex/xTrajectory.cc:1464`) measures the far end of
a gap from its near point, so a lower bound can exceed the distance; shapes have
honest ones, and the bound itself is not judged here.

*Boxes beyond the query.* A leaf may hold boxes of a trajectory that do not
overlap the query; they enter the queue at distance 1e300 (`Huge`). When
nothing else is left, such a box breaks the query (`pc = "broken"`), which
happens only after every trajectory in it was reported.

*Bounds.* Two forests (ranges that touch, one range inside the other), lengths
that one, two or no tree takes; every choice of three trajectories among six
shapes over the same tree as `PartsStore`, `k` of one, two and four.

*Fairness.* `WF_vars(Next)`, for `Ends`: one thread that waits for nothing.

### RangeQuery

Geometry is the relation of each box to the circle (`checkRel`: beside, touches,
within) and the steps of a trajectory that enter the circle in time
(`RangeAssumption`: a box within is entered, a step that enters lies in the
interval of a box that meets it; intervals of consecutive boxes share a point
or a step). A multimap keeps ids in order and pieces of one id in the order
of insertion. A merged interval reaches from the first to the last
piece, over boxes that do not touch the circle; that may only add points.
*Bounds.* Ten kinds of trajectories of one to three boxes, three at a time:
pieces that are contiguous, overlapping, apart or single, the last trajectory with one and
with several, a box that is within after others of its trajectory are pending.

### LayeredStorage

*One client, one thread*, as a tree is; it stores and deletes pages it holds,
and may ask a buffer for others (`BufferInvalid`). A store to a page never held
is accepted by a buffer that writes back and throws only at the eviction; no
tree does this. Pages are numbered from 1.

*Where an empty page is taken from.* The memory manager keeps a stack, the disk
manager an ordered set (`Reused`).

*Misuse.* `flush()` frees the entries and keeps the map that leads to them, so
that the next access, and the destructor, which flushes again, read freed
memory; a page cache of size zero looks for an entry past the end of an empty
map. From then on anything may happen (`undefined`); `misused` is what
`IStorageManager` knows of it. A buffer of capacity zero meets an assertion at
its second insertion; the default build has none, and it grows, as here.

*The page cache* is off by default. A store drops the cached page whether the
cache is on or off, a delete does not touch it: `EntriesAgree` says that a copy
which could be read is never stale, also of a page deleted and taken again by
another record of the tree. Only tree records go through this layer: the loaders of
`xStore` store the pages of trajectories straight below it (`xStore.cc:163`,
`:286`) and `loadTraj` reads them there. So a copy of a tree record may stay in the
cache when a trajectory has taken its page, and nobody asks for it.
Builders switch the cache off and on (`Switch`, at any moment).

*Bounds.* Capacities of 0, 1 and 2 over three pages and two values: entries are
evicted in every operation, pages deleted and taken again.

### QueryThreads

Stores are opened by the main thread, which prepares trees and clones and then
runs query threads and waits for them (`MTQ`). A query thread has no connection
at first: `db_load_traj_entry` copies the process-wide name and calls
`conn_init` with it, which assigns the name and opens. Several threads do this
at once; that the name is right depends on `clone()` putting the extension back
that the disk storage manager's file names take away.

*Two stores in one process.* `conn_init` keeps an open connection, so the second
store's rows go into the first one's catalog, and `next_traj` is shared.
`mixed` marks such stores. The tests open one store per process; for these the
property is unconditional. A missing row reads as page 0 with no points, of
which `npoint - 1` wraps: such a thread would read other pages, and the module
stops at the wrong catalog.

*Assigning `dbfile` by several threads* is a data race on a `std::string` by the
letter; the bytes are equal, and it is modelled as an assignment.

*Names.* `ThreadsInit`, `ThreadsNext`, `ThreadsSpec` and `ThreadsTypeOK` carry the
prefix because `MCStorage` and `Storage_proofs` extend `LayeredStorage` too.

*Bounds.* Two stores, two query threads, any number of processes.

## Runs

| Run | Asks | Shows |
|---|---|---|
| `disk_store` | `TypeOK`, `AllocSafe`, `HeadIntact`, `ImplementsPageMap`; 2 pages, 2 values, a clone | stores, failed stores, deletes, flushes, failed flushes, crashes and restarts keep every held record |
| `disk_header` | `HeaderSafe`, `ImplementsPageMap`; 3 pages | the header between two flushes never offers a page of the last one |
| `disk_multipage` | `ReadsBack` (violated) | a record of two pages reads back as its first |
| `xstore_life` | `TypeOK`, `NoEmptyPageLeft`, `LoadedReadsBack`, `CommittedReadsBack`, `SavedNamesResolve` | trajectories and index names survive appends, builds, failures of a load, failed bulk loads, crashes and creation over an older store |
| `xstore_paging` | `LoadedReadsBack`, `PiecesLoad`, `PiecesNearLength` | the page arithmetic, for all lengths and intervals: which read back and which do not; the pieces an index is built from |
| `sorter` | `TypeOK`, `NothingLost`, `EndMeansAll`, `OneBufferSorted`, `SortEnds` | the merge passes |
| `sorter_order` | `Sorted` (violated) | the order of the merge |
| `bulk_load` | `TypeOK`, `WholeTree`, `LinksLead`, `FullNodes`, `LoadEnds` | every box is in the tree once, links lead to the leaves of the neighbours and back, nodes are full, the build ends |
| `nn_search` | `TypeOK`, `ExceptedAreFar`, `MissingMeansIncomplete`, `NodeForEveryGap`, `ImplementsKNearest`, `Ends` | trajectories are reported in the order of their true distance and the query ends, whatever it decided on bounds |
| `forest_queries` | `TypeOK`, `QueuesAgree`, `RangeAnswers`, `OnlyKnownFailures`, `ImplementsKNearest`, `Ends` | both queries through a forest: range answers are complete and single, neighbours come in order, handles lead to their entries, failures are the two known ones, every query ends |
| `storage_layers` | `TypeOK`, `EntriesAgree`, `ThreadsReadTheirStore`, `ImplementsIStorageManager` | buffer and page cache are storage managers; threads read the catalog of their store (two modules that share nothing, checked side by side) |
| `nn_empty_top` | `TopIsOfNonEmptyQueue` (violated) | `top()` of an empty queue is reached when the last answer excepts what is left |

`CHECK_DEADLOCK FALSE` is set where the system may stop: a `.idx` that cannot
be read leaves no process to go on in instances without re-creation, the page
and id bounds can be reached, and a sorter that reported its end, a query that
ended or a buffer that was destroyed is done.

## Proofs

`DiskStorageManager_proofs` proves, for every number of pages, length of
record, set of values and of clones (`MaxPage \in Nat`, `MaxLen \in Nat \ {0}`
are the only assumptions):

| Theorem | States |
|---|---|
| `Invariance` | `Spec => []Invariant` |
| `TypeCorrect` | `Spec => []TypeOK` |
| `AllocationIsSafe` | `Spec => []AllocSafe` |
| `HeaderIsSafe` | `Spec => []HeaderSafe` |
| `HeadsStayIntact` | `Spec => []HeadIntact` |
| `Refinement` | `Spec => ImplementsPageMap` |

The argument. None of the safety invariants is inductive alone: `AllocSafe`
after a restart needs that the header was safe, `HeaderSafe` after a flush
needs that the allocator was safe *and* that the half-written header already
lists exactly the empty pages up to the last one written, and `HeadIntact`
after a store needs what the store has written so far. `Invariant` is therefore
`TypeOK` with `Consistent`, which joins the three with `StoreSoFar`,
`FlushSoFar` and `ProcessState`; TLC checked it first on the two passing
instances. One lemma per action shows that the action keeps it. The lemmas
below them are `SmallestIsLeast` (the smallest empty page exists; from the
well-foundedness of strict inclusion on finite sets), `WriteSlotWrites` (a slot
written into the header changes no earlier one), `HeaderNamesPages`, and
`PageTakenIsFree` (the page a store takes is nobody's). `FlushPageKeeps` counts:
after each slot the slots written are the empty pages up to the last, and as
many. `NextRefines` maps every step to a step of `PageMap` or to a stutter; a
page written for a new record is a stutter until `EndStore` hands out its id.

`XStore_proofs` proves, for every number of pages, of points per page, of ids and
of nodes of a build, all files and all index names, from the assumptions of
`XStore` (a page holds two points or more, the bounds are natural numbers, the
files are sequences of lines with an id and a number of points):

| Theorem | States |
|---|---|
| `StoreTyped` | `Spec => []TypeOK` |
| `PagesReused` | `Spec => []NoEmptyPageLeft` |
| `SavedPoints` | `Spec => [][SavedPointsStay]_vars`: a page of the last flush that holds points is not written again |
| `TrajectoriesLaidOut` | `Spec => []CutLaidOut`: the pages cut so far of the trajectory at hand are consecutive, up to the last page there is |
| `NamesResolve` | `Spec => []SavedNamesResolve` |
| `LoadedLaidOut` | `Spec => []KeptLaidOut`: the same of all that a process has loaded, and of all that a flush has covered, through later appends, builds, restarts and crashes |

The argument. That a trajectory's pages are consecutive rests on nobody but the
index builders: `OnlyRootFreed` says that the one page ever empty is the first
root of the build at hand, from its deletion to its first node. `Inv` adds what
the steps of a build and of a load know of `tree`, `traj` and `todo`. `PageInv`
adds that a build's root and header are pages of that kind (`BuildPages`, so that
storing the header again hits no trajectory), and that what the allocator can
offer is empty since the last flush, a former root, or beyond that flush
(`SavedBelow`, `EmptyBelow`). `CutLaidOut` then follows page by page: the next
one is the page after the last, `Stride` points further (one less than a page
with shared points). A row is inserted when the last point is on the last page
(`InsertedLaidOut`), pages with points stay (`LivePointsStay`), and a flush makes
the header end where the pages end, so what was loaded is covered (`KeptInv`).
`SmallestIsOf` and `GreatestOf` (the least empty page and the greatest id exist)
rest on the well-foundedness of `<`.

`SavedNamesResolve` is about two files that are written one after the other: the
names in `.property` and the allocator of the header. `NameInv` says of the names
in memory what it says of the saved ones, with the allocator in memory
(`LiveNamesLead`, `SavedNamesLead`), that memory holds all names the file holds, and
that nothing is allocated between the two writes (`NamesKnown`). `TreeAtHand`
follows the build: its pages lie beyond the flush, its first node takes the page
of the first root, just before the header, and no node of that name has a higher
number than the last. `LeadsStill`: a name leads where it led as long as what is
written is neither its header nor one of its nodes.

Of what is read back it proves, from these assumptions and `NumbersAssumption`:

| Theorem | States |
|---|---|
| `LoadedRead` | `Spec => []LoadedReadsBack` |
| `CommittedRead` | `Spec => []CommittedReadsBack` |

The argument has three parts. First, `loadTraj`: a recursive function is the
`CHOOSE` of one that satisfies its equation, so it suffices to give one that does,
point by point (`Span`, the page and the slot where point `j` is looked for,
`PageOf`), and to show that no other does (`SameRounds`, by well-foundedness of `<`).
`IntervalRead` does this for both layouts and the intervals that are not misread
(`Sound`), whatever the pages hold; `LaidOutReads` concludes that a trajectory laid
out as `LoadedLaidOut` says reads back over them. Of the others `PlainMisreads`
follows the same loop (`LastFirst` is what it returns): the point it returns first is in the
last slot of the page after the one it should be read from, and that page begins with
the next point of the trajectory, so it is another point or none (`ReadsAll`). Second, the
rows: that the row of an id is the one that was inserted for the trajectory, though
`db_insert_traj` keeps a row that is there. `NewIds` says that the id given next is
beyond all ids in use, `RestOfFile` what is left of the file, and `FirstLife` that a
creation which died before its `.property` file existed, and whose rows stay in the
catalog, has left only rows the next one is about to write (`Start`: the page
each line of the file begins at). Third, the pages: in the process that created
the store nothing beyond its pages holds points (`Clean`); in later ones every row of
the process is its own and its pages are in use (`Own`); what a flush has covered
lies on pages that the header counts as taken (`Saved`). `ReadInv` joins these with
`KeptInv`; TLC checked it on the life run, with both layouts.

Of the pieces an index keeps it proves, from these assumptions, `SplitAssumption`
(twice the tolerance is less than a stretch; the code's tolerance is a fifth),
`TimesAssumption` and `CutsAssumption`:

| Theorem | States |
|---|---|
| `PiecesAreLoaded` | `StreamSpec => []PiecesLoad` |
| `PiecesAreNearLength` | `StreamSpec => []PiecesNearLength` |

The argument. The points of a piece lie along those of the trajectory (`Along`): the
first at or after some point `m` and before the next, the last at or before the
point where they end, and what is between is the trajectory's own. From that alone
a piece has all points of its time, each once (`PointsBetween`), and an interval
that reaches over its ends reaches over it (`PieceRight`). `Chained` says that the
pieces so far are right and that each starts where the one before ends, the first
with the trajectory; `Frontier` is where they have got to. `SplitInv` adds, for each
kind of function, what is known of the piece begun: for `FP` its points so far
(`Gathered`); for `ISS`, `GSS` and `OPTS` that it would be along the points with the
next one (`OpenPiece`, which has the two cases of `ms`: at the point looked at, after
an `i--`, or before it), that the stretch ends no more than a stretch and the tolerance after it
begins, or two stretches after a cut at a point, and, for the lower bound, no less
than a stretch less the tolerance (`ByTime`). Each of the four ways to cut ends the
piece at a time the tolerance allows and begins the next so (`PieceIsCut`); the
interval is the one noted (`ISS`) or looked up by time (`GSS`, `CutRight`). `CuttingInv`
joins `SplitInv` with `ReadInv`: a trajectory that is to be cut has its row, and
what is stored under its number reads back as `ReadsBack` says (`ReadsAll`,
`AllReadBack`), so what is loaded for a piece is what it was cut from.
TLC checked `SplitInv` on the paging run.

`ExternalSorter_proofs` proves, for every set of keys, size of a page, number of
buffer pages and input, from `KeyAssumption` (keys are numbers) and
`SizeAssumption` (a page holds a record, there is a buffer page):

| Theorem | States |
|---|---|
| `Invariant` | `Spec => []IInv` |
| `SorterTyped` | `Spec => []TypeOK` |
| `NothingIsLost` | `Spec => []NothingLost` |
| `EndIsAll` | `Spec => []EndMeansAll` |
| `OneBufferIsSorted` | `Spec => []OneBufferSorted` |

The argument. A step carries records from holder to holder: of every place after
it there is one before it with the same record, another for another, and none is
left behind (`Carries`); so records stand in one place each after it if they did
before. For each action the two maps of places are given and checked, holder by
holder (`Comes`, `Goes`). Two steps drop holders: the end of a pass drops the runs
merged, their pages and heads, and `EndOfStream` counts what it returned as all
there is. That nothing is left in what is dropped is `PassRuns`, the strengthening:
a run whose head is not in the queue has an empty page and an empty file, a run
that is not being merged has records, and a file at its end has none left; the last
holds because `eof` is set by a read that fails. `Phases` says which variables are in use when, and
`OneRun`, for the input of one buffer, that there is one run at most, it is in
order, and what was returned is no larger than what is left.

`BulkLoader_proofs` proves, for every store, length of slabs and number of boxes in
a leaf and of nodes in an inner node, from the assumptions of `BulkLoader` (a leaf
holds one box or more, an inner node two or more, slabs have a length, every
trajectory is cut into one box or more):

| Theorem | States |
|---|---|
| `TypeCorrect` | `Spec => []TypeOK` |
| `TreeIsWhole` | `Spec => []WholeTree` |
| `LinksAreRight` | `Spec => []LinksLead` |
| `NodesAreFull` | `Spec => []FullNodes` |

The argument. `StreamInv`: boxes are numbered in the order they are cut, the flags of
a box tell whether its neighbours belong to its trajectory, and what is still to
come of each trajectory is in the buffer. `PlaceInv`: every record of the level at
hand is in one place, a sorter or a node (`Placed`, `Nested`), the counters of slice
and strip never promise more records than the sorter has (`Waiting`), `part2node`
names the leaf of each packed box, and a leaf that has a parent has its links set
(`LinksSet`). `Tiled` and `Full` are about numbers: a slice and a strip have a
multiple of the capacity or all that is left, so a node is short only when nothing
is left to pack, and so at most one of a level is.

`MutablePriorityQueue_proofs` proves, for every set of entries and every strict
weak order of them (`Queue(q, E)`: the handles in the heap are distinct, each
knows its place and leads to an entry, a handle is in the heap or free, and no
entry comes before its parent):

| Theorem | States |
|---|---|
| `PushKeeps` | `Push` gives a `Queue` with one entry more, under a handle that was not in the heap |
| `UpdateKeeps` | `Update` gives a `Queue` in which one handle leads to another entry |
| `TopLeast` | no entry comes before the `Top` |
| `PopKeeps` | `Pop` gives a `Queue` without the handle of the top, all others as they were |

The argument. `lower` and `raise` let handles trade places along a path of the heap
(`Permutes`), so that links survive and the entries are only rearranged. The order
is restored because before the move at most one place was out of order
(`HeapedBut`), and the path from it goes on exactly as long as the entry there
comes before its parent, or after a child.

`SBBForest_proofs` proves, for every forest, tree, set of trajectories and boxes,
number of neighbours, from `NodeAssumption`, `NumberAssumption`, `RangeAssumption`
(what `RangeQuery` takes of geometry, see above) and `ShapeAssumption`:

| Theorem | States |
|---|---|
| `RangeInvariant` | `Spec => []IInv` |
| `RangeIsAnswered` | `Spec => []RangeAnswers` |
| `ForestInvariant` | `Spec => []ForestInv` |
| `ForestIsTyped` | `Spec => []TypeOK` |
| `QueuesStayTogether` | `Spec => []QueuesAgree` |
| `FailuresAreKnown` | `Spec => []OnlyKnownFailures` |
| `SearchIsNearest` | `Spec => ImplementsKNearest` |

The argument for range queries. A trajectory that enters the circle has a box that
shows it (`Needs`); as long as the trajectory is no answer, that box is awaited: its
leaf is under a node on the stack, it is an entry not looked at yet, its interval is
among the pending ones of its trajectory, or it lies in the interval merged so far
(`Followed`). When stack, entries and pending pieces are gone, every such trajectory
is an answer. `Apart` keeps the pending pieces of a trajectory in the order of its
boxes, which is what merging them into one interval needs; `Sound` and `Once` are the
other direction and that nothing is reported twice.

The argument for nearest-neighbour queries has four parts. *Queues:* what
`MutablePriorityQueue_proofs` says holds of both queues in every step; a candidate
is at the handle `m_handlers` has for it while it is queued (`Candidates`), and what
`top()` returned is what `pop()` removes (`PoppedIs`). *Boxes:* exactly one waiting
entry, queued or about to be pushed, leads to each box that has not been read
(`Led`, `OneWay`), and it bounds what it leads to (`Waits`). So no box is read twice,
and when nothing nearer than 1e300 is left in the node queue every box is read
(`AllRead`), and every trajectory not reported is queued with its exact distance
(`ReadIsExact`). *Bounds:* a candidate that is not complete has an estimate of
at most `BoundOf`: what was read, and for each gap what the last node visited allows.
Once no missing box is under the last node, that is at most its distance
(`BoundFits`, sums over disjoint gaps); until then a node waits that is nearer.
Either way something queued is no farther than the trajectory (`MissingIsFar`), so
what is first in both queues when it is complete is as near as any that is left
(`NoneNearer`). *Failures:* a box beyond the
query comes first only when nothing nearer than 1e300 waits, which is when all have
been reported, and the switch never meets a candidate of type 2 (`FailsAtEnd`). `Ranked` says that
`knearest` is the distance last reported, and that nothing unreported is nearer, so
that a query which stops with `k` reported leaves nothing that is nearer.
`Resting` says of each
kind of query that it leaves the variables of the other alone; `ForestInv` joins
all of them. Every step is a `Report`, a `Finish`, a `Fail` or a stutter of
`KNearest`. TLC checked the invariant on the instance of `forest_queries`.

`Storage_proofs` has two parts. The first proves of `LayeredStorage`, for every number of pages, set of values and
capacity, from `LayerAssumption` (the null entry is no value, `MaxPages` and
capacities are natural numbers):

| Theorem | States |
|---|---|
| `LayersTyped` | `Spec => []TypeOK` |
| `LayersAgree` | `Spec => []EntriesAgree` |
| `LayersImplement` | `Spec => ImplementsIStorageManager` |

The argument. `EntriesAgree` carries it: an entry that is not dirty is what lies
below, so it makes no difference to a client which entry is dropped. `Inv` adds
`TypeOK` (empty pages are listed once and are exactly the deleted ones), that
only a buffer has freed entries, and that no entry is of a page beyond the last.
One lemma per action (`...Step`) gives the invariant after it and the step of
`IStorageManager` it is; flush, clear, the destructor and evictions are
stutters of what is kept. Below them: `RemoveAtRemoves` (taking an element out
of a sequence), `LeastOfSeq` (there is a least empty page; well-foundedness of
`<`), `NewPageIsFree`, `StillEmptyLess` (what is left is still listed once),
`AddEntryAdds` and `AddEntryKeeps` (an insertion with its eviction changes
nothing a client sees), `WrittenKeeps`.

The second proves of `QueryThreads`, for any number of stores and query threads, from
`Apart` (the value that stands for nobody is no store and no file, the main
thread is no query thread):

| Theorem | States |
|---|---|
| `ThreadsTyped` | `ThreadsSpec => []ThreadsTypeOK` |
| `ThreadsReadTheirs` | `ThreadsSpec => []ThreadsReadTheirStore` |

The argument. While threads run, nobody changes the name but they, to what it
is (`Running`), and it is the name of the last clone (`Cloned`). The rows are
right because a catalog of a store that met no process which used another lists
that store or nothing (`RowsRight`), and the main thread is connected to a
catalog of a store it has used (`MainConnected`).

`PartsStore_proofs` proves, for every tree, set of trajectories and boxes, number of
neighbours and both distances, from `NumberAssumption` (the query has a length, one
neighbour or more is asked for), `TrajAssumption` (ids are natural numbers and
finitely many: ties are broken by them), `NodeAssumption` (under an inner node are
the leaves under its children, under the root all) and `ShapeAssumption` (see above):

| Theorem | States |
|---|---|
| `InvariantHolds` | `Spec => []Invariant` |
| `TypeCorrect` | `Spec => []TypeOK` |
| `ExceptedIsFar` | `Spec => []ExceptedAreFar` |
| `MissingIsIncomplete` | `Spec => []MissingMeansIncomplete` |
| `GapHasNode` | `Spec => []NodeForEveryGap` |
| `Refinement` | `Spec => ImplementsKNearest` |

The argument has three parts. *Links:* a trajectory that is not excepted has exactly
its boxes in the leaves read, and lacks exactly the leaves they link to that have not
been read (`UpToDate`, in `Followed`); as neighbours link to each other, what is
missing is empty exactly when all boxes are read (`LinksReachAll`, induction along the
boxes), and as every unread leaf with a box lies under a waiting node (`Covered`),
some node waits until then (`NoNodeAllRead`). A trajectory excepted later may miss
boxes: it keeps `Complete` if it was, and is looked at only in the step in which it
was excepted. *Bounds:* a node that waits is queued with no more than its distance,
so the nearest node's share of a gap is no more than what the boxes of the gap add
(`SharesFit`, over `SumFunctionOnSet`), whatever the order in which boxes were read
and although the shares are rounded down. Hence `Bound` brackets the true distance
(`BoundIsRight`, `Bracketed`). *Exceptions:* `m_pes` is in order with one upper bound
for an id (`Least`, `PoppqInsertIs`), so a lower bound beyond its k-th entry is beyond
k other distances, and stays so, as distances do not change.

The refinement rests on `NearestWaits`: while fewer than k are reported, the nearest
trajectory left is not excepted (the k nearer ones would all have been reported), so
it is a candidate, is in the hand of case 3, or has not been met, and then a node
waits that is queued with no more than its distance. What is first in both queues, or
below the bound of what is first, is therefore as near as any that is left
(`NoneNearer`), and both queues are empty only when nothing is left. Every step is a
`Report`, a `Finish`, a `Fail` or a stutter. Sums over finite sets, least elements and
`RemoveAt`, `InsertAt` come with lemmas of their own; induction over a finite set is
stated for a set of its subsets (`SetInduction`).

The proofs gave these modules their form: sums are functions over boxes, queue
entries are replaced with `With` and `Without`, records of the sorter have
numbers, the children of a node are a set, and so are the parts a trajectory is
cut into.

Every invariant and action property of a passing run is a theorem. Only
model-checked are `SortEnds`, `LoadEnds` and `Ends`: liveness under fairness, which
is out of the prover's reach.

## Plan

What is left:

1. Geometry as operators over integers: `ldd`, `gapDist`, which would turn
   `ShapeAssumption` into results.

## Not modelled

Floating-point geometry, and where `simplifyWithRDPN` cuts: they enter
as relations and numbers under assumptions that are written where they are
used. Insertion, deletion and splitting of tree nodes, which no builder or query
of this repository reaches, and the encoding of nodes into bytes; `xStoreDB`,
which is compiled out; the object pools, which recycle memory only; the C API of
the original library, which does not reach this index; sqlite, stxxl and the
json library, most of the repository's lines, of which the durable table of
sqlite is all that enters. Statistics and printing are left out throughout.

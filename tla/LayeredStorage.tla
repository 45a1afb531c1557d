--------------------------- MODULE LayeredStorage ---------------------------
(***************************************************************************)
(* A layer of memory between a tree and the pages: the random-evictions    *)
(* buffer (Buffer, RandomEvictionsBuffer) over the memory storage manager, *)
(* writing back or through, or the page cache of an xStore over its disk   *)
(* storage manager. One client, one thread; the layer drops an entry of    *)
(* its own choice whenever it is full. The client works on pages it holds; *)
(* it may ask the buffer to load or delete another. The client of the page *)
(* cache is a tree, and its pages are tree records: the loaders of xStore  *)
(* store the pages of trajectories straight below (xStore.cc:163, :286)    *)
(* and loadTraj reads them there, so a cached copy of a tree record whose  *)
(* page a trajectory has taken is stale, and nobody asks for it.           *)
(*                                                                         *)
(* Pages count from 1. A buffer's flush frees its entries and keeps the    *)
(* map that leads to them: `freed` are those, any use of which is          *)
(* undefined.                                                              *)
(***************************************************************************)
EXTENDS Integers, Sequences, SequencesExt, FiniteSetsExt

CONSTANTS
  Value,     \* what a page can hold
  Gone,      \* a null entry of the memory manager; no value
  MaxPages,  \* bound: pages ever taken
  Layers     \* [kind : {"buffer", "cache"}, capacity : Nat, writeThrough : BOOLEAN]

ASSUME LayerAssumption ==
  /\ Gone \notin Value
  /\ MaxPages \in Nat
  /\ Layers \subseteq [kind : {"buffer", "cache"}, capacity : Nat, writeThrough : BOOLEAN]

VARIABLES
  layer,    \* which layer it is (never changes)
  page,     \* what the pages of the manager below hold
  empty,    \* m_emptyPages, the last one deleted last
  entries,  \* m_buffer, or m_pagecache
  freed,    \* the entries a flush has freed
  on,       \* m_bPageCache
  closed,   \* the buffer has been destroyed
  answer    \* what the last call returned

base == <<page, empty>>
vars == <<layer, base, entries, freed, on, closed, answer>>

Buffered == layer.kind = "buffer"
Held == {p \in DOMAIN page : page[p] # Gone}
Dirty(es) == {p \in DOMAIN es : es[p].dirty}

Init ==
  /\ layer \in Layers
  /\ page = <<>>
  /\ empty = <<>>
  /\ entries = <<>>
  /\ freed = {}
  /\ on = FALSE
  /\ closed = FALSE
  /\ answer = [call |-> "none"]

Open == ~closed /\ answer.call # "undefined"

-----------------------------------------------------------------------------
(* The managers below. A new record takes an empty page first, the last    *)
(* one deleted from memory, the least one of a file.                       *)
Reused ==
  IF Buffered THEN Len(empty)
  ELSE CHOOSE i \in DOMAIN empty : \A j \in DOMAIN empty : empty[i] <= empty[j]

NewPage == IF empty = <<>> THEN Len(page) + 1 ELSE empty[Reused]
Room == empty # <<>> \/ Len(page) < MaxPages

(* A bug: the stack is not popped. *)
StillEmptyAll == empty

StillEmpty == IF empty = <<>> THEN empty ELSE RemoveAt(empty, Reused)

Stored(p, v) == IF p > Len(page) THEN Append(page, v) ELSE [page EXCEPT ![p] = v]

(* The entries `dropped`, if dirty, are stored below before they go. *)
(* A bug: they just go. *)
WrittenNot(dropped, pages) == pages

Written(dropped, pages) ==
  [p \in DOMAIN pages |-> IF p \in dropped \cap Dirty(entries) THEN entries[p].data ELSE pages[p]]

-----------------------------------------------------------------------------
(* Which entry is dropped to make room for another, none while there is    *)
(* room. A buffer of capacity zero has nothing to drop and grows; a cache  *)
(* of size zero looks for the end of an empty map.                         *)
Size == Cardinality(DOMAIN entries)

Dropped ==
  IF Size = layer.capacity /\ Size > 0 THEN {{p} : p \in DOMAIN entries} ELSE {{}}

Entry(v, dirty) == [data |-> v, dirty |-> dirty]
Without(es, ps) == [q \in DOMAIN es \ ps |-> es[q]]
With(es, p, e) == [q \in DOMAIN es \cup {p} |-> IF q = p THEN e ELSE es[q]]

(* addEntry, over the pages `below`. *)
AddEntry(p, e, below) ==
  \E d \in Dropped :
    /\ d \cap freed = {}
    /\ entries' = With(Without(entries, d), p, e)
    /\ page' = Written(d, below)

-----------------------------------------------------------------------------
(* Buffer. *)
BufferStoreNew(v) ==
  /\ Open /\ Buffered /\ Room
  /\ AddEntry(NewPage, Entry(v, FALSE), Stored(NewPage, v))
  /\ empty' = StillEmpty
  /\ answer' = [call |-> "stored", page |-> NewPage]
  /\ UNCHANGED <<layer, freed, on, closed>>

BufferStore(p, v) ==
  /\ Open /\ Buffered
  /\ p \in Held \ freed
  /\ LET below == IF layer.writeThrough THEN Stored(p, v) ELSE page
         e == Entry(v, ~layer.writeThrough)
     IN IF p \in DOMAIN entries
        THEN entries' = [entries EXCEPT ![p] = e] /\ page' = below
        ELSE AddEntry(p, e, below)
  /\ answer' = [call |-> "stored", page |-> p]
  /\ UNCHANGED <<layer, empty, freed, on, closed>>

BufferHit(p) ==
  /\ Open /\ Buffered
  /\ p \in DOMAIN entries \ freed
  /\ answer' = [call |-> "loaded", page |-> p, value |-> entries[p].data]
  /\ UNCHANGED <<layer, base, entries, freed, on, closed>>

BufferMiss(p) ==
  /\ Open /\ Buffered
  /\ p \in Held \ DOMAIN entries
  /\ AddEntry(p, Entry(page[p], FALSE), page)
  /\ answer' = [call |-> "loaded", page |-> p, value |-> page[p]]
  /\ UNCHANGED <<layer, empty, freed, on, closed>>

BufferDelete(p) ==
  /\ Open /\ Buffered
  /\ p \in Held \ freed
  /\ entries' = Without(entries, {p})
  /\ page' = [page EXCEPT ![p] = Gone]
  /\ empty' = Append(empty, p)
  /\ answer' = [call |-> "deleted", page |-> p]
  /\ UNCHANGED <<layer, freed, on, closed>>

(* The manager below throws at a load or a delete. *)
BufferInvalid(p) ==
  /\ Open /\ Buffered
  /\ p \in 1 .. MaxPages \ (Held \cup DOMAIN entries)
  /\ answer' = [call |-> "InvalidPageException", page |-> p]
  /\ UNCHANGED <<layer, base, entries, freed, on, closed>>

BufferFlush ==
  /\ Open /\ Buffered
  /\ freed = {}
  /\ page' = Written(DOMAIN entries, page)
  /\ freed' = DOMAIN entries
  /\ UNCHANGED <<layer, empty, entries, on, closed, answer>>

BufferClear ==
  /\ Open /\ Buffered
  /\ freed = {}
  /\ page' = Written(DOMAIN entries, page)
  /\ entries' = <<>>
  /\ UNCHANGED <<layer, empty, freed, on, closed, answer>>

(* The destructor flushes. *)
BufferClose ==
  /\ Open /\ Buffered
  /\ freed = {}
  /\ page' = Written(DOMAIN entries, page)
  /\ entries' = <<>>
  /\ closed' = TRUE
  /\ UNCHANGED <<layer, empty, freed, on, answer>>

(* Any call that meets an entry freed, among them the destructor. *)
UseAfterFlush ==
  /\ Open /\ Buffered
  /\ freed # {}
  /\ answer' = [call |-> "undefined"]
  /\ UNCHANGED <<layer, base, entries, freed, on, closed>>

-----------------------------------------------------------------------------
(* The page cache. A store below drops the page from the cache, whether    *)
(* the cache is on or not; a delete leaves it there.                       *)
CacheStoreNew(v) ==
  /\ Open /\ ~Buffered /\ Room
  /\ page' = Stored(NewPage, v)
  /\ empty' = StillEmpty
  /\ entries' = Without(entries, {NewPage})
  /\ answer' = [call |-> "stored", page |-> NewPage]
  /\ UNCHANGED <<layer, freed, on, closed>>

(* A bug: only while the cache is on. *)
CacheStoreOn(p, v) ==
  /\ Open /\ ~Buffered
  /\ p \in Held
  /\ page' = Stored(p, v)
  /\ entries' = IF on THEN Without(entries, {p}) ELSE entries
  /\ answer' = [call |-> "stored", page |-> p]
  /\ UNCHANGED <<layer, empty, freed, on, closed>>

CacheStore(p, v) ==
  /\ Open /\ ~Buffered
  /\ p \in Held
  /\ page' = Stored(p, v)
  /\ entries' = Without(entries, {p})
  /\ answer' = [call |-> "stored", page |-> p]
  /\ UNCHANGED <<layer, empty, freed, on, closed>>

CacheLoad(p) ==
  /\ Open /\ ~Buffered
  /\ p \in Held
  /\ IF ~on \/ p \in DOMAIN entries
     THEN UNCHANGED <<page, entries>>
     ELSE layer.capacity > 0 /\ AddEntry(p, Entry(page[p], FALSE), page)
  /\ answer' = [call |-> "loaded", page |-> p,
                value |-> IF on /\ p \in DOMAIN entries THEN entries[p].data ELSE page[p]]
  /\ UNCHANGED <<layer, empty, freed, on, closed>>

CacheOfNothing(p) ==
  /\ Open /\ ~Buffered
  /\ p \in Held
  /\ on /\ layer.capacity = 0
  /\ answer' = [call |-> "undefined"]
  /\ UNCHANGED <<layer, base, entries, freed, on, closed>>

CacheDelete(p) ==
  /\ Open /\ ~Buffered
  /\ p \in Held
  /\ page' = [page EXCEPT ![p] = Gone]
  /\ empty' = Append(empty, p)
  /\ answer' = [call |-> "deleted", page |-> p]
  /\ UNCHANGED <<layer, entries, freed, on, closed>>

(* Builders switch it off and back to its default; its user may switch it. *)
Switch ==
  /\ Open /\ ~Buffered
  /\ on' = ~on
  /\ UNCHANGED <<layer, base, entries, freed, closed, answer>>

-----------------------------------------------------------------------------
Next ==
  \/ \E v \in Value : BufferStoreNew(v) \/ CacheStoreNew(v)
  \/ \E p \in 1 .. MaxPages :
       \/ \E v \in Value : BufferStore(p, v) \/ CacheStore(p, v)
       \/ BufferHit(p) \/ BufferMiss(p) \/ BufferDelete(p) \/ BufferInvalid(p)
       \/ CacheLoad(p) \/ CacheOfNothing(p) \/ CacheDelete(p)
  \/ BufferFlush \/ BufferClear \/ BufferClose \/ UseAfterFlush
  \/ Switch

Spec == Init /\ [][Next]_vars

-----------------------------------------------------------------------------
TypeOK ==
  /\ layer \in Layers
  /\ page \in Seq(Value \cup {Gone})
  /\ Len(page) <= MaxPages
  /\ empty \in Seq(DOMAIN page)
  /\ IsInjective(empty) /\ ToSet(empty) = DOMAIN page \ Held
  /\ \A p \in DOMAIN entries : entries[p] \in [data : Value, dirty : BOOLEAN]
  /\ freed \subseteq DOMAIN entries
  /\ on \in BOOLEAN /\ closed \in BOOLEAN

(* A layer holds no more than it may, only a buffer that writes back holds *)
(* what is not below, a buffer knows no page that is not held (so a new    *)
(* page never is in it), and what else is buffered or cached of a page     *)
(* held is what the page below holds, also after it was deleted and taken  *)
(* again while the cache was off.                                          *)
EntriesAgree ==
  /\ layer.capacity > 0 => Size <= layer.capacity
  /\ Dirty(entries) # {} => Buffered /\ ~layer.writeThrough
  /\ Buffered => DOMAIN entries \subseteq Held
  /\ \A p \in DOMAIN entries \cap Held : entries[p].dirty \/ entries[p].data = page[p]

(* Through either layer the client sees a storage manager: whatever is     *)
(* dropped, written later or not at all, loads return what was last        *)
(* stored; flush, clear and the destructor leave it all below. Calls are   *)
(* undefined only after a flush, or with a cache of nothing.               *)
Through(p) ==
  IF p \in DOMAIN entries \ freed /\ (Buffered \/ on) THEN entries[p].data ELSE page[p]

Kept == [p \in Held |-> Through(p)]
Misused == freed # {} \/ layer.capacity = 0

SM == INSTANCE IStorageManager WITH Page <- 1 .. MaxPages, kept <- Kept, misused <- Misused
ImplementsIStorageManager == SM!Spec
=============================================================================

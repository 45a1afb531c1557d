------------------------- MODULE DiskStorageManager -------------------------
(***************************************************************************)
(* The disk storage manager (src/storagemanager/DiskStorageManager.cc):    *)
(* pages of one size in a .dat file, an allocator (m_nextPage and the set  *)
(* m_emptyPages) kept in memory, and a .idx file that holds the allocator  *)
(* as of the last flush.                                                   *)
(*                                                                         *)
(* Both files are opened unbuffered (pubsetbuf(0,0)), so a page is on disk *)
(* when its write returns, and flush() rewrites the .idx file in place one *)
(* field after the other. A process may die between any two of these       *)
(* writes, and each of them may fail. A record is a sequence of pages; its *)
(* id is its first page. What a field write that fails leaves is the field *)
(* as it was. The m_indexFile.flush() and sync() that end a flush have     *)
(* nothing left to write, and a loss of theirs, which the code does not    *)
(* look at, is not modelled.                                               *)
(*                                                                         *)
(* The client is the code of xRTree and xStore: it rewrites and deletes    *)
(* only ids it holds. After the process dies it holds the ids it held at   *)
(* the last flush.                                                         *)
(***************************************************************************)
EXTENDS Integers, FiniteSets, Sequences

CONSTANTS
  Value,     \* what clients store in a record
  MaxLen,    \* the largest number of pages of a record
  MaxPage,   \* bound: pages the .dat file can grow to
  Clone      \* names of read-only clones

ASSUME MaxLenAssumption == MaxLen \in Nat \ {0}
ASSUME MaxPageAssumption == MaxPage \in Nat

VARIABLES
  up,          \* a process has the store open for writing
  nextPage,    \* m_nextPage
  emptyPages,  \* m_emptyPages
  dat,         \* the .dat file: page -> the part of the record it holds
  idx,         \* the .idx file
  ioBad,       \* the failbit of m_dataFile
  idxBad,      \* the failbit of m_indexFile: "no", or set with the header "whole" or "torn"
  job,         \* the call in progress
  clones,      \* m_nextPage of each open clone
  \* what the client knows, for the properties only:
  live,        \* the ids it holds
  want,        \* what it last stored under an id; Unknown after a loss
  saved,       \* the ids it held at the last completed flush
  kept,        \* those it neither rewrote nor deleted since
  sound        \* no process died on a header half written since the files were created

fileVars   == <<dat, idx>>
memoryVars == <<nextPage, emptyPages, ioBad, idxBad>>
clientVars == <<live, want, saved, kept, sound>>
vars == <<up, nextPage, emptyPages, dat, idx, ioBad, idxBad, job, clones,
          live, want, saved, kept, sound>>

-----------------------------------------------------------------------------
(* Data *)

Page    == 0 .. MaxPage - 1
NewPage == -1
Blank   == [val |-> "blank", part |-> 0]   \* a page nobody wrote
Torn    == [val |-> "torn", part |-> 0]    \* a page whose write failed
Part    == [val : Value, part : 1 .. MaxLen]
Content == Part \cup {Blank, Torn}

Unknown == [val |-> "unknown", len |-> 0]
Record  == [val : Value, len : 1 .. MaxLen]

NoJob == [op |-> "none"]
StoreJob == [op : {"store"}, id : Page \cup {NewPage}, fresh : BOOLEAN,
             val : Value, len : 1 .. MaxLen, done : 0 .. MaxLen]
FlushJob == [op : {"flush"}, at : {"next", "count", "pages"},
             last : Page \cup {-1}, slot : Nat, exit : BOOLEAN]

(* The .idx file: how many of its two fixed fields were ever written, the  *)
(* fields, and the page numbers that follow them. Entries beyond count are *)
(* left over from longer lists of earlier flushes.                         *)
EmptyIdx == [fields |-> 0, next |-> 0, count |-> 0, slots |-> <<>>]
IdxFile  == [fields : 0 .. 2, next : 0 .. MaxPage, count : Nat, slots : Seq(Page)]

TypeOK ==
  /\ up \in BOOLEAN
  /\ nextPage \in 0 .. MaxPage
  /\ emptyPages \subseteq Page
  /\ dat \in [Page -> Content]
  /\ idx \in IdxFile
  /\ ioBad \in BOOLEAN
  /\ idxBad \in {"no", "whole", "torn"}
  /\ job \in {NoJob} \cup StoreJob \cup FlushJob
  /\ DOMAIN clones \subseteq Clone
  /\ \A c \in DOMAIN clones : clones[c] \in 0 .. MaxPage
  /\ live \subseteq Page
  /\ want \in [Page -> Record \cup {Unknown}]
  /\ saved \subseteq Page
  /\ kept \subseteq saved
  /\ sound \in BOOLEAN

Idle == up /\ job = NoJob

SmallestOf(S) == CHOOSE p \in S : \A q \in S : p <= q

(* What the constructor reads back: it stops with an exception when the    *)
(* file ends early.                                                        *)
Readable(f) == f.fields = 2 /\ f.count <= Len(f.slots)
(* A bug: every page number of the file is read, not the first count. *)
EmptyPagesOfWhole(f) == {f.slots[i] : i \in 1 .. Len(f.slots)}
EmptyPagesOf(f) == {f.slots[i] : i \in 1 .. f.count}

Init ==
  /\ up = FALSE
  /\ nextPage = 0
  /\ emptyPages = {}
  /\ dat = [p \in Page |-> Blank]
  /\ idx = EmptyIdx
  /\ ioBad = FALSE
  /\ idxBad = "no"
  /\ job = NoJob
  /\ clones = [c \in {} |-> 0]
  /\ live = {}
  /\ want = [p \in Page |-> Unknown]
  /\ saved = {}
  /\ kept = {}
  /\ sound = TRUE

-----------------------------------------------------------------------------
(* Opening and closing *)

(* createNewDiskStorageManager: Overwrite is set, both files are truncated. *)
Create ==
  /\ ~up
  /\ up' = TRUE
  /\ nextPage' = 0
  /\ emptyPages' = {}
  /\ dat' = [p \in Page |-> Blank]
  /\ idx' = EmptyIdx
  /\ live' = {}
  /\ want' = [p \in Page |-> Unknown]
  /\ saved' = {}
  /\ kept' = {}
  /\ sound' = TRUE
  /\ UNCHANGED <<ioBad, idxBad, job, clones>>

(* loadDiskStorageManager: the allocator comes from the .idx file. An      *)
(* empty or short file makes the constructor throw, and nothing is opened. *)
Open ==
  /\ ~up
  /\ Readable(idx)
  /\ up' = TRUE
  /\ nextPage' = idx.next
  /\ emptyPages' = EmptyPagesOf(idx)
  /\ UNCHANGED <<fileVars, ioBad, idxBad, job, clones, clientVars>>

(* No flush is under way or has failed that had begun to write: such a     *)
(* flush leaves a header that is part new and part old.                    *)
HeaderStable ==
  /\ job.op = "flush" => job.at = "next"
  /\ idxBad # "torn"

(* The death of the process: memory is gone, the client falls back on the  *)
(* ids of the last flush.                                                  *)
Crash ==
  /\ up
  /\ up' = FALSE
  /\ nextPage' = 0
  /\ emptyPages' = {}
  /\ ioBad' = FALSE
  /\ idxBad' = "no"
  /\ job' = NoJob
  /\ clones' = [c \in {} |-> 0]
  /\ live' = saved
  /\ want' = [p \in Page |-> IF p \in kept THEN want[p] ELSE Unknown]
  /\ sound' = (sound /\ HeaderStable)
  /\ UNCHANGED <<fileVars, saved, kept>>

-----------------------------------------------------------------------------
(* storeByteArray *)

(* The call with page = NewPage. *)
BeginStoreNew(v, n) ==
  /\ Idle
  /\ job' = [op |-> "store", id |-> NewPage, fresh |-> TRUE,
             val |-> v, len |-> n, done |-> 0]
  /\ UNCHANGED <<up, memoryVars, fileVars, clones, clientVars>>

(* The call with the id of a record: db_load_page says it has one page.    *)
BeginStoreOld(p, v, n) ==
  /\ Idle
  /\ p \in live
  /\ job' = [op |-> "store", id |-> p, fresh |-> FALSE,
             val |-> v, len |-> n, done |-> 0]
  /\ UNCHANGED <<up, memoryVars, fileVars, clones, clientVars>>

Storing == job.op = "store" /\ job.done < job.len

ReusesOld == ~job.fresh /\ job.done = 0

(* The smallest empty page, or the page after the last one. *)
PageTaken ==
  IF ReusesOld THEN job.id
  ELSE IF emptyPages # {} THEN SmallestOf(emptyPages)
  ELSE nextPage

(* Bugs: a page taken from the empty ones stays among them; m_nextPage     *)
(* moves on although an empty page was taken.                              *)
TakeKeepsEmpty ==
  /\ PageTaken \in Page
  /\ emptyPages' = emptyPages
  /\ nextPage' = IF ~ReusesOld /\ emptyPages = {} THEN nextPage + 1 ELSE nextPage
TakeSkips ==
  /\ PageTaken \in Page
  /\ emptyPages' = IF ReusesOld THEN emptyPages ELSE emptyPages \ {PageTaken}
  /\ nextPage' = IF ~ReusesOld THEN nextPage + 1 ELSE nextPage
Take ==
  /\ PageTaken \in Page                                    \* bound
  /\ emptyPages' = IF ReusesOld THEN emptyPages ELSE emptyPages \ {PageTaken}
  /\ nextPage' = IF ~ReusesOld /\ emptyPages = {} THEN nextPage + 1 ELSE nextPage

(* One turn of the loop over the record: a page is taken and written. *)
WritePage ==
  /\ Storing
  /\ ~ioBad
  /\ Take
  /\ dat' = [dat EXCEPT ![PageTaken] = [val |-> job.val, part |-> job.done + 1]]
  /\ job' = [job EXCEPT !.id = IF @ = NewPage THEN PageTaken ELSE @,
                        !.done = @ + 1]
  /\ want' = IF ReusesOld THEN [want EXCEPT ![PageTaken] = Unknown] ELSE want
  /\ kept' = kept \ {PageTaken}
  /\ UNCHANGED <<up, idx, ioBad, idxBad, clones, live, saved, sound>>

(* The same turn when seekp or write fails: the call throws with the page  *)
(* already taken. The failbit stays, so every later store fails in seekp,  *)
(* before it writes.                                                       *)
WriteFails ==
  /\ Storing
  /\ Take
  /\ ioBad' = TRUE
  /\ dat' \in {dat} \cup (IF ioBad THEN {} ELSE {[dat EXCEPT ![PageTaken] = Torn]})
  /\ job' = NoJob
  /\ want' = IF ReusesOld THEN [want EXCEPT ![PageTaken] = Unknown] ELSE want
  /\ kept' = kept \ {PageTaken}
  /\ UNCHANGED <<up, idx, idxBad, clones, live, saved, sound>>

(* The call returns the id. *)
EndStore ==
  /\ job.op = "store"
  /\ job.done = job.len
  /\ live' = live \cup {job.id}
  /\ want' = [want EXCEPT ![job.id] = [val |-> job.val, len |-> job.len]]
  /\ job' = NoJob
  /\ UNCHANGED <<up, memoryVars, fileVars, clones, saved, kept, sound>>

-----------------------------------------------------------------------------
(* deleteByteArray *)

Delete(p) ==
  /\ Idle
  /\ p \in live
  /\ emptyPages' = emptyPages \cup {p}
  /\ live' = live \ {p}
  /\ kept' = kept \ {p}
  /\ UNCHANGED <<up, nextPage, ioBad, idxBad, fileVars, job, clones, want, saved, sound>>

-----------------------------------------------------------------------------
(* flush: the page size and m_nextPage, the number of empty pages, then    *)
(* the empty pages in increasing order. The destructor flushes and closes. *)

BeginFlush(exit) ==
  /\ Idle
  /\ job' = [op |-> "flush", at |-> "next", last |-> -1, slot |-> 1, exit |-> exit]
  /\ UNCHANGED <<up, memoryVars, fileVars, clones, clientVars>>

Flushing(at) == job.op = "flush" /\ job.at = at

(* A bug: m_nextPage is written only once, by the first flush. *)
FlushNextOnce ==
  /\ Flushing("next")
  /\ idx' = IF idx.fields = 0 THEN [idx EXCEPT !.next = nextPage, !.fields = 1] ELSE idx
  /\ job' = [job EXCEPT !.at = "count"]
  /\ UNCHANGED <<up, memoryVars, dat, clones, clientVars>>

FlushNext ==
  /\ Flushing("next")
  /\ idxBad = "no"
  /\ idx' = [idx EXCEPT !.next = nextPage, !.fields = IF @ = 0 THEN 1 ELSE @]
  /\ job' = [job EXCEPT !.at = "count"]
  /\ UNCHANGED <<up, memoryVars, dat, clones, clientVars>>

FlushCount ==
  /\ Flushing("count")
  /\ idx' = [idx EXCEPT !.count = Cardinality(emptyPages), !.fields = 2]
  /\ job' = [job EXCEPT !.at = "pages"]
  /\ UNCHANGED <<up, memoryVars, dat, clones, clientVars>>

Unwritten == {p \in emptyPages : p > job.last}

WriteSlot(slots, i, p) ==
  IF i <= Len(slots) THEN [slots EXCEPT ![i] = p] ELSE Append(slots, p)

FlushPage ==
  /\ Flushing("pages")
  /\ Unwritten # {}
  /\ idx' = [idx EXCEPT !.slots = WriteSlot(@, job.slot, SmallestOf(Unwritten))]
  /\ job' = [job EXCEPT !.last = SmallestOf(Unwritten), !.slot = @ + 1]
  /\ UNCHANGED <<up, memoryVars, dat, clones, clientVars>>

(* seekp or one of the writes fails: flush throws and the process goes on  *)
(* with its allocator, over a header that is the old one or, once a field  *)
(* of it has been written, a torn one. The failbit stays, so every later   *)
(* flush throws in seekp. (A destructor that throws ends the process: that *)
(* is a Crash.)                                                            *)
FlushFails ==
  /\ job.op = "flush"
  /\ ~job.exit
  /\ job.at = "pages" => Unwritten # {}
  /\ idxBad' = IF idxBad # "no" THEN idxBad ELSE IF job.at = "next" THEN "whole" ELSE "torn"
  /\ job' = NoJob
  /\ UNCHANGED <<up, nextPage, emptyPages, ioBad, fileVars, clones, clientVars>>

EndFlush ==
  /\ Flushing("pages")
  /\ Unwritten = {}
  /\ saved' = live
  /\ kept' = live
  /\ job' = NoJob
  /\ up' = ~job.exit
  /\ IF job.exit
     THEN /\ nextPage' = 0
          /\ emptyPages' = {}
          /\ ioBad' = FALSE
          /\ idxBad' = "no"
          /\ clones' = [c \in {} |-> 0]
     ELSE UNCHANGED <<memoryVars, clones>>
  /\ UNCHANGED <<fileVars, live, want, sound>>

-----------------------------------------------------------------------------
(* Read-only clones: m_isro is set, m_nextPage copied, m_emptyPages not.   *)
(* A clone reads the same .dat file; its stores and deletes throw.         *)

MakeClone(c) ==
  /\ Idle
  /\ c \notin DOMAIN clones
  /\ clones' = [d \in DOMAIN clones \cup {c} |-> IF d = c THEN nextPage ELSE clones[d]]
  /\ UNCHANGED <<up, memoryVars, fileVars, job, clientVars>>

(* A bug: flush does not look at m_isro; a clone has no empty pages. *)
FlushedByAnyClone(c) == [idx EXCEPT !.next = clones[c], !.count = 0, !.fields = 2]

(* What flush leaves in the .idx file when a clone calls it. *)
FlushedByClone(c) == idx

(* The destructor of a clone flushes too. *)
CloseClone(c) ==
  /\ c \in DOMAIN clones
  /\ idx' = FlushedByClone(c)
  /\ clones' = [d \in DOMAIN clones \ {c} |-> clones[d]]
  /\ UNCHANGED <<up, memoryVars, dat, job, clientVars>>

-----------------------------------------------------------------------------
Next ==
  \/ Create
  \/ Open
  \/ Crash
  \/ \E v \in Value, n \in 1 .. MaxLen : BeginStoreNew(v, n)
  \/ \E p \in Page, v \in Value, n \in 1 .. MaxLen : BeginStoreOld(p, v, n)
  \/ WritePage
  \/ WriteFails
  \/ EndStore
  \/ \E p \in Page : Delete(p)
  \/ \E exit \in BOOLEAN : BeginFlush(exit)
  \/ FlushNext
  \/ FlushCount
  \/ FlushPage
  \/ FlushFails
  \/ EndFlush
  \/ \E c \in Clone : MakeClone(c) \/ CloseClone(c)

Spec == Init /\ [][Next]_vars

-----------------------------------------------------------------------------
(* Properties. They speak of files whose header no process has left torn:  *)
(* the code rewrites it in place and has nothing to detect a torn one.     *)

(* The id of the store in progress, once it has one. *)
InFlight == IF job.op = "store" /\ job.id # NewPage THEN {job.id} ELSE {}

(* The allocator never holds as empty, or as not yet allocated, a page     *)
(* some client refers to: otherwise the next store writes over a live node *)
(* or trajectory page.                                                     *)
AllocSafe ==
  sound /\ up =>
    /\ (live \cup InFlight) \cap emptyPages = {}
    /\ live \cup InFlight \cup emptyPages \subseteq 0 .. nextPage - 1

(* The same of the allocator that a later process would read from the .idx *)
(* file: no page of the last flush is handed out again after a restart,    *)
(* although pages were taken and freed since.                              *)
HeaderSafe ==
  sound /\ HeaderStable /\ idx.fields = 2 =>
    /\ Readable(idx)
    /\ saved \cap EmptyPagesOf(idx) = {}
    /\ saved \cup EmptyPagesOf(idx) \subseteq 0 .. idx.next - 1

(* Every record the client holds begins on its own page with what was last *)
(* stored under its id, through any number of other stores, deletions,     *)
(* failures of stores, crashes and restarts.                               *)
HeadIntact ==
  sound => \A p \in live :
    want[p] # Unknown => dat[p] = [val |-> want[p].val, part |-> 1]

(* The strengthening that makes the three above inductive: what the call   *)
(* in progress has done so far, and what a half written header holds.      *)
StoreSoFar ==
  job.op = "store" =>
    /\ job.fresh /\ job.done = 0 <=> job.id = NewPage
    /\ ~job.fresh => job.id \in live
    /\ sound /\ job.done > 0 => dat[job.id] = [val |-> job.val, part |-> 1]

Written == {p \in emptyPages : p <= job.last}

FlushSoFar ==
  job.op = "flush" =>
    /\ job.at # "pages" => job.last = -1 /\ job.slot = 1
    /\ job.at # "next" => idxBad = "no" /\ idx.next = nextPage /\ idx.fields # 0
    /\ job.at = "pages" =>
         /\ idx.fields = 2
         /\ idx.count = Cardinality(emptyPages)
         /\ job.slot = Cardinality(Written) + 1
         /\ job.slot - 1 <= Len(idx.slots)
         /\ {idx.slots[i] : i \in 1 .. job.slot - 1} = Written

ProcessState ==
  /\ job # NoJob => up
  /\ ~up => live = saved /\ idxBad = "no"
  /\ kept \subseteq live
  /\ sound /\ HeaderStable /\ idx.fields # 2 => saved = {}

(* The inductive invariant: in every state the allocator, the header, the  *)
(* pages and the call in progress fit together, so that no call, no crash  *)
(* and no restart hands out a page that is held.                           *)
Consistent ==
  /\ ProcessState
  /\ StoreSoFar
  /\ FlushSoFar
  /\ AllocSafe
  /\ HeaderSafe
  /\ HeadIntact

(* loadByteArray reads the pages db_load_page names, which is the id alone. *)
LoadByteArray(p) == <<dat[p]>>

(* A load returns the whole of what was stored, as the comment on          *)
(* createNewDiskStorageManager says: "The storage manager will use         *)
(* multiple pages per node if needed."                                     *)
ReadsBack ==
  sound => \A p \in live :
    want[p] # Unknown =>
      LoadByteArray(p) = [i \in 1 .. want[p].len |-> [val |-> want[p].val, part |-> i]]

(* The disk storage manager is a page map: ids handed out are new to the   *)
(* client, nothing but a store under an id changes its record, and what    *)
(* was flushed and left alone survives a crash.                            *)
AbstractStore == [p \in live |-> dat[p]]

AbstractPhase ==
  IF ~sound THEN "void"
  ELSE IF ~up THEN "down"
  ELSE IF idxBad = "torn" THEN "torn"
  ELSE IF job.op = "flush" /\ job.at # "next" THEN "sync"
  ELSE "up"

AbstractRewriting == IF job.op = "store" /\ ~job.fresh THEN {job.id} ELSE {}

PM == INSTANCE PageMap WITH
  store <- AbstractStore, rewriting <- AbstractRewriting, phase <- AbstractPhase

ImplementsPageMap == PM!Spec
=============================================================================

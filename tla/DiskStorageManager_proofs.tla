----------------------- MODULE DiskStorageManager_proofs -----------------------
(***************************************************************************)
(* Theorems about DiskStorageManager, for every number of pages, every     *)
(* length of a record and all sets of values and clones: its types, the    *)
(* inductive invariant Consistent, the three safety invariants that follow *)
(* from it, and the refinement of PageMap.                                 *)
(***************************************************************************)
EXTENDS DiskStorageManager, TLAPS, FiniteSetTheorems, SequenceTheorems

-----------------------------------------------------------------------------
(* Lemmas about the operators of the model. *)

(* Sets of pages are finite, so their number can be written to the header. *)
LEMMA PagesFinite ==
  ASSUME NEW S, S \subseteq Page
  PROVE  IsFiniteSet(S) /\ Cardinality(S) \in Nat
<1>1. IsFiniteSet(Page)
  BY FS_Interval, MaxPageAssumption DEF Page
<1> QED
  BY <1>1, FS_Subset, FS_CardinalityType

(* A non-empty set of pages has a smallest one, which SmallestOf names:    *)
(* the allocator's begin() of m_emptyPages is well defined.                *)
LEMMA SmallestIsLeast ==
  ASSUME NEW S, S \subseteq Page, S # {}
  PROVE  /\ SmallestOf(S) \in S
         /\ \A q \in S : SmallestOf(S) <= q
<1>1. S \subseteq Nat
  BY MaxPageAssumption DEF Page
<1> DEFINE Below(x) == {q \in S : q <= x}
           T == {Below(x) : x \in S}
<1>2. IsFiniteSet(S)
  BY PagesFinite
<1>3. T \subseteq FiniteSubsetsOf(S) /\ T # {}
  <2>1. \A x \in S : Below(x) \in SUBSET S /\ IsFiniteSet(Below(x))
    BY <1>2, FS_Subset
  <2> QED
    BY <2>1 DEF FiniteSubsetsOf
<1>4. PICK m \in T : \A U \in T : ~ (<<U, m>> \in StrictSubsetOrdering(S))
  <2> HIDE DEF T
  <2> QED
    BY <1>3, FS_StrictSubsetOrderingWellFounded, WFMin
<1>5. PICK x \in S : m = Below(x)
  OBVIOUS
<1>6. ASSUME NEW y \in S, y < x
      PROVE  FALSE
  <2>1. y \in Nat /\ x \in Nat
    BY <1>1, <1>6
  <2>2. \A q \in S : q <= y => q <= x
    BY <1>1, <1>6, <2>1
  <2>3. x <= x /\ ~ (x <= y)
    BY <1>6, <2>1
  <2>4. <<Below(y), Below(x)>> \in StrictSubsetOrdering(S)
    BY <2>2, <2>3 DEF StrictSubsetOrdering
  <2> QED
    BY <1>4, <1>5, <2>4
<1>7. \A y \in S : x <= y
  BY <1>1, <1>6
<1> QED
  BY <1>7 DEF SmallestOf

(* Writing one page number into the header puts it at its place and leaves *)
(* the others: the file grows by at most the one slot.                     *)
LEMMA WriteSlotWrites ==
  ASSUME NEW slots \in Seq(Page), NEW i \in 1 .. Len(slots) + 1, NEW p \in Page
  PROVE  /\ WriteSlot(slots, i, p) \in Seq(Page)
         /\ Len(WriteSlot(slots, i, p)) >= Len(slots)
         /\ i <= Len(WriteSlot(slots, i, p))
         /\ WriteSlot(slots, i, p)[i] = p
         /\ \A j \in 1 .. i - 1 : WriteSlot(slots, i, p)[j] = slots[j]
<1>1. Len(slots) \in Nat
  BY LenProperties
<1>2. CASE i <= Len(slots)
  <2>1. i \in 1 .. Len(slots)
    BY <1>1, <1>2
  <2> QED
    BY <1>1, <2>1, ExceptSeq DEF WriteSlot
<1>3. CASE i > Len(slots)
  <2>1. i = Len(slots) + 1
    BY <1>1, <1>3
  <2> QED
    BY <1>1, <2>1, AppendProperties DEF WriteSlot
<1> QED
  BY <1>1, <1>2, <1>3

(* The pages a readable header names as empty are pages. *)
LEMMA HeaderNamesPages ==
  ASSUME NEW f \in IdxFile, f.count <= Len(f.slots)
  PROVE  EmptyPagesOf(f) \subseteq Page
<1>1. f.slots \in Seq(Page) /\ f.count \in Nat
  BY DEF IdxFile
<1>2. Len(f.slots) \in Nat
  BY <1>1, LenProperties
<1>3. \A i \in 1 .. f.count : i \in 1 .. Len(f.slots)
  BY <1>1, <1>2
<1>4. \A i \in 1 .. Len(f.slots) : f.slots[i] \in Page
  BY <1>1, ElementOfSeq
<1> QED
  BY <1>3, <1>4 DEF EmptyPagesOf

-----------------------------------------------------------------------------
(* The inductive invariant, one lemma per action. *)

Invariant == TypeOK /\ Consistent

(* What kind of call is in progress is told by its op. *)
LEMMA JobKinds ==
  ASSUME TypeOK
  PROVE  /\ job.op = "store" => job \in StoreJob
         /\ job.op = "flush" => job \in FlushJob
         /\ job # NoJob => job.op \in {"store", "flush"}
         /\ NoJob.op = "none"
BY DEF TypeOK, StoreJob, FlushJob, NoJob

(* Nothing is held and nothing is under way in a store nobody has created. *)
LEMMA InitInvariant == Init => Invariant
<1> SUFFICES ASSUME Init PROVE Invariant
  OBVIOUS
<1>1. TypeOK
  <2>1. idx \in IdxFile
    BY MaxPageAssumption, EmptySeq DEF Init, EmptyIdx, IdxFile
  <2>2. nextPage \in 0 .. MaxPage /\ dat \in [Page -> Content]
    BY MaxPageAssumption DEF Init, Content
  <2>5. /\ up \in BOOLEAN /\ ioBad \in BOOLEAN /\ sound \in BOOLEAN
        /\ idxBad \in {"no", "whole", "torn"}
    BY DEF Init
  <2>3. DOMAIN clones \subseteq Clone /\ \A c \in DOMAIN clones : clones[c] \in 0 .. MaxPage
    BY DEF Init
  <2>4. /\ emptyPages \subseteq Page /\ live \subseteq Page
        /\ saved \subseteq Page /\ kept \subseteq saved
        /\ want \in [Page -> Record \cup {Unknown}]
        /\ job \in {NoJob}
    BY DEF Init
  <2> QED
    BY <2>1, <2>2, <2>3, <2>4, <2>5 DEF TypeOK
<1>2. Consistent
  BY DEF Init, Consistent, ProcessState, StoreSoFar, FlushSoFar, AllocSafe, HeaderSafe,
         HeadIntact, HeaderStable, NoJob, EmptyIdx
<1> QED
  BY <1>1, <1>2 DEF Invariant

(* A new store is empty whatever files were there. *)
LEMMA CreateKeeps == Invariant /\ Create => Invariant'
<1> SUFFICES ASSUME Invariant, Create PROVE Invariant'
  OBVIOUS
<1> USE DEF Invariant, Create
<1>1. TypeOK'
  <2>1. idx' \in IdxFile
    BY MaxPageAssumption, EmptySeq DEF EmptyIdx, IdxFile
  <2> QED
    BY <2>1, MaxPageAssumption DEF TypeOK, Content
<1>2. job = NoJob
  BY DEF Consistent, ProcessState
<1>3. Consistent'
  BY <1>2, MaxPageAssumption
     DEF Consistent, ProcessState, StoreSoFar, FlushSoFar, AllocSafe, HeaderSafe,
         HeadIntact, HeaderStable, InFlight, NoJob, EmptyIdx, Page
<1> QED
  BY <1>1, <1>3

(* A process that opens the store takes over what the header says, and the *)
(* header is safe.                                                         *)
LEMMA OpenKeeps == Invariant /\ Open => Invariant'
<1> SUFFICES ASSUME Invariant, Open PROVE Invariant'
  OBVIOUS
<1> USE DEF Invariant, Open
<1>1. TypeOK'
  <2>1. idx \in IdxFile /\ idx.next \in 0 .. MaxPage
    BY DEF TypeOK, IdxFile
  <2>2. EmptyPagesOf(idx) \subseteq Page
    BY <2>1, HeaderNamesPages DEF Readable
  <2> QED
    BY <2>1, <2>2 DEF TypeOK, fileVars, clientVars
<1>2. job = NoJob /\ job' = NoJob /\ NoJob.op = "none" /\ live = saved /\ idxBad = "no"
  BY DEF Consistent, ProcessState, NoJob
<1>3. ProcessState' /\ StoreSoFar' /\ FlushSoFar'
  BY <1>2 DEF Consistent, ProcessState, StoreSoFar, FlushSoFar, HeaderStable, fileVars, clientVars
<1>4. AllocSafe'
  BY <1>2 DEF Consistent, AllocSafe, HeaderSafe, HeaderStable, Readable, InFlight, fileVars, clientVars
<1>5. HeaderSafe' /\ HeadIntact'
  BY <1>2 DEF Consistent, HeaderSafe, HeaderStable, HeadIntact, Readable, EmptyPagesOf, fileVars, clientVars
<1> QED
  BY <1>1, <1>3, <1>4, <1>5 DEF Consistent

(* The client of a process that died falls back on what the header says is *)
(* held, unless a flush was cut.                                           *)
LEMMA CrashKeeps == Invariant /\ Crash => Invariant'
<1> SUFFICES ASSUME Invariant, Crash PROVE Invariant'
  OBVIOUS
<1>1. TypeOK'
  <2>1. /\ up' \in BOOLEAN /\ ioBad' \in BOOLEAN /\ sound' \in BOOLEAN
        /\ idxBad' \in {"no", "whole", "torn"}
    BY DEF Crash
  <2>5. nextPage' \in 0 .. MaxPage
    BY MaxPageAssumption DEF Crash
  <2>2. dat' \in [Page -> Content] /\ idx' \in IdxFile
    BY DEF Invariant, TypeOK, Crash, fileVars
  <2>3. DOMAIN clones' \subseteq Clone /\ \A c \in DOMAIN clones' : clones'[c] \in 0 .. MaxPage
    BY DEF Crash
  <2>4. /\ emptyPages' \subseteq Page /\ live' \subseteq Page
        /\ saved' \subseteq Page /\ kept' \subseteq saved'
        /\ want' \in [Page -> Record \cup {Unknown}]
        /\ job' \in {NoJob}
    BY DEF Invariant, TypeOK, Crash
  <2> QED
    BY <2>1, <2>2, <2>3, <2>4, <2>5 DEF TypeOK
<1> USE DEF Invariant, Crash
<1>2. job' = NoJob /\ NoJob.op = "none" /\ (sound' => sound /\ HeaderStable)
  BY DEF NoJob
<1>3. ProcessState' /\ StoreSoFar' /\ FlushSoFar' /\ AllocSafe'
  BY <1>2 DEF Consistent, TypeOK, ProcessState, StoreSoFar, FlushSoFar, AllocSafe, HeaderStable,
              fileVars
<1>4. HeaderSafe'
  BY <1>2 DEF Consistent, HeaderSafe, HeaderStable, Readable, EmptyPagesOf, fileVars
<1>5. HeadIntact'
  BY <1>2 DEF Consistent, TypeOK, ProcessState, HeadIntact, fileVars
<1> QED
  BY <1>1, <1>3, <1>4, <1>5 DEF Consistent

(* Beginning a call changes nothing but the call in progress. *)
LEMMA BeginStoreKeeps ==
  ASSUME NEW p, NEW v \in Value, NEW n \in 1 .. MaxLen, Invariant,
         BeginStoreNew(v, n) \/ BeginStoreOld(p, v, n)
  PROVE  Invariant'
<1> DEFINE others == <<up, memoryVars, fileVars, clones, clientVars>>
<1>1. Idle /\ UNCHANGED others
  BY DEF BeginStoreNew, BeginStoreOld
<1>2. /\ job' \in StoreJob /\ job'.op = "store" /\ job'.done = 0
      /\ job'.fresh <=> job'.id = NewPage
      /\ ~job'.fresh => job'.id \in live
  <2>1. live \subseteq Page /\ 0 \in 0 .. MaxLen /\ NewPage \notin Page
    BY MaxLenAssumption, MaxPageAssumption DEF Invariant, TypeOK, NewPage, Page
  <2>2. CASE BeginStoreNew(v, n)
    <3>1. job' = [op |-> "store", id |-> NewPage, fresh |-> TRUE,
                  val |-> v, len |-> n, done |-> 0]
      BY <2>2 DEF BeginStoreNew
    <3>2. job' \in StoreJob
      BY <2>1, <3>1 DEF StoreJob
    <3> QED
      BY <3>1, <3>2
  <2>3. CASE BeginStoreOld(p, v, n)
    <3>1. p \in live /\ job' = [op |-> "store", id |-> p, fresh |-> FALSE,
                                val |-> v, len |-> n, done |-> 0]
      BY <2>3 DEF BeginStoreOld
    <3>2. job' \in StoreJob
      BY <2>1, <3>1 DEF StoreJob
    <3> QED
      BY <2>1, <3>1, <3>2
  <2> QED
    BY <2>2, <2>3
<1> USE DEF Invariant, fileVars, memoryVars, clientVars
<1>3. TypeOK'
  BY <1>1, <1>2 DEF TypeOK
<1>4. ProcessState' /\ StoreSoFar' /\ FlushSoFar'
  BY <1>1, <1>2 DEF Consistent, ProcessState, StoreSoFar, FlushSoFar, HeaderStable, Idle, NoJob
<1>5. AllocSafe'
  BY <1>1, <1>2 DEF Consistent, AllocSafe, InFlight
<1>6. HeaderSafe' /\ HeadIntact'
  <2>1. NoJob.op = "none" /\ job = NoJob /\ UNCHANGED <<idx, idxBad, saved, sound, dat, live, want>>
    BY <1>1 DEF Idle, NoJob
  <2> QED
    BY <1>2, <2>1 DEF Consistent, HeaderSafe, HeaderStable, HeadIntact, Readable, EmptyPagesOf
<1> QED
  BY <1>3, <1>4, <1>5, <1>6 DEF Consistent

(* The page a store takes: the client's own page for the first turn of a   *)
(* store under an old id; otherwise a page that nobody holds and that no   *)
(* later store can take again.                                             *)
LEMMA PageTakenIsFree ==
  ASSUME Invariant, Storing, Take
  PROVE  /\ job \in StoreJob /\ up
         /\ PageTaken \in Page
         /\ emptyPages' \subseteq emptyPages
         /\ nextPage' \in nextPage .. MaxPage
         /\ ReusesOld => PageTaken = job.id /\ job.id # NewPage
         /\ ~ReusesOld /\ sound => /\ PageTaken \notin live \cup InFlight
                                  /\ PageTaken \notin emptyPages'
                                  /\ PageTaken < nextPage'
<1>1. job \in StoreJob /\ up /\ PageTaken \in Page
  BY JobKinds DEF Invariant, Consistent, ProcessState, Storing, Take
<1>2. emptyPages' \subseteq emptyPages
  BY DEF Take
<1>3. nextPage' \in nextPage .. MaxPage
  <2>1. nextPage \in 0 .. MaxPage
    BY DEF Invariant, TypeOK
  <2>2. CASE ~ReusesOld /\ emptyPages = {}
    BY <1>1, <2>1, <2>2, MaxPageAssumption DEF Take, PageTaken, Page
  <2>3. CASE ReusesOld \/ emptyPages # {}
    BY <2>1, <2>3, MaxPageAssumption DEF Take
  <2> QED
    BY <2>2, <2>3
<1>4. ReusesOld => PageTaken = job.id /\ job.id # NewPage
  BY <1>1, MaxPageAssumption DEF ReusesOld, PageTaken, Page, NewPage
<1>5. ASSUME ~ReusesOld, sound
      PROVE  /\ PageTaken \notin live \cup InFlight
             /\ PageTaken \notin emptyPages'
             /\ PageTaken < nextPage'
  <2>1. /\ (live \cup InFlight) \cap emptyPages = {}
        /\ live \cup InFlight \cup emptyPages \subseteq 0 .. nextPage - 1
        /\ nextPage \in Nat
    BY <1>1, <1>5 DEF Invariant, TypeOK, Consistent, AllocSafe
  <2>2. CASE emptyPages # {}
    <3>1. PageTaken = SmallestOf(emptyPages) /\ PageTaken \in emptyPages
      BY <1>5, <2>2, SmallestIsLeast DEF PageTaken, Invariant, TypeOK
    <3>2. nextPage' = nextPage /\ emptyPages' = emptyPages \ {PageTaken}
      BY <1>5, <2>2 DEF Take
    <3> QED
      BY <2>1, <3>1, <3>2
  <2>3. CASE emptyPages = {}
    BY <1>5, <2>1, <2>3 DEF Take, PageTaken
  <2> QED
    BY <2>2, <2>3
<1> QED
  BY <1>1, <1>2, <1>3, <1>4, <1>5

(* One page of a store: it changes no page but the taken one. *)
LEMMA WritePageKeeps == Invariant /\ WritePage => Invariant'
<1> SUFFICES ASSUME Invariant, WritePage PROVE Invariant'
  OBVIOUS
<1>1. Storing /\ Take /\ UNCHANGED <<up, idx, ioBad, idxBad, clones, live, saved, sound>>
  BY DEF WritePage
<1>2. /\ job \in StoreJob /\ up
      /\ PageTaken \in Page
      /\ emptyPages' \subseteq emptyPages
      /\ nextPage' \in nextPage .. MaxPage
      /\ ReusesOld => PageTaken = job.id /\ job.id # NewPage
      /\ ~ReusesOld /\ sound => /\ PageTaken \notin live \cup InFlight
                               /\ PageTaken \notin emptyPages'
                               /\ PageTaken < nextPage'
  BY <1>1, PageTakenIsFree
<1>3. /\ job' = [job EXCEPT !.id = IF @ = NewPage THEN PageTaken ELSE @, !.done = @ + 1]
      /\ dat' = [dat EXCEPT ![PageTaken] = [val |-> job.val, part |-> job.done + 1]]
      /\ want' = IF ReusesOld THEN [want EXCEPT ![PageTaken] = Unknown] ELSE want
      /\ kept' = kept \ {PageTaken}
  BY DEF WritePage
<1>4. /\ job' \in StoreJob /\ job'.op = "store" /\ job'.done = job.done + 1
      /\ job'.id = IF job.id = NewPage THEN PageTaken ELSE job.id
      /\ job'.id \in Page /\ job'.val = job.val /\ job'.fresh = job.fresh
      /\ job.done + 1 \in 1 .. MaxLen
  <2>1. job.done + 1 \in 1 .. MaxLen
    BY <1>1, <1>2, MaxLenAssumption DEF StoreJob, Storing
  <2>2. (IF job.id = NewPage THEN PageTaken ELSE job.id) \in Page
    BY <1>2 DEF StoreJob
  <2>3. job' \in StoreJob
    <3>1. job.done + 1 \in 0 .. MaxLen
      BY <2>1, MaxLenAssumption
    <3> DEFINE id == IF job.id = NewPage THEN PageTaken ELSE job.id
               done == job.done + 1
    <3>2. job' = [job EXCEPT !.id = id, !.done = done]
      BY <1>3
    <3> HIDE DEF id, done
    <3>3. id \in Page /\ done \in 0 .. MaxLen
      BY <2>2, <3>1 DEF id, done
    <3> QED
      BY <1>2, <3>2, <3>3 DEF StoreJob
  <2>4. /\ job'.op = "store" /\ job'.done = job.done + 1 /\ job'.val = job.val
        /\ job'.fresh = job.fresh
        /\ job'.id = IF job.id = NewPage THEN PageTaken ELSE job.id
    BY <1>2, <1>3 DEF StoreJob
  <2> QED
    BY <2>1, <2>2, <2>3, <2>4
<1>5. TypeOK'
  <2>1. [val |-> job.val, part |-> job.done + 1] \in Content
    BY <1>2, <1>4 DEF Content, Part, StoreJob
  <2>2. dat' \in [Page -> Content] /\ want' \in [Page -> Record \cup {Unknown}]
    BY <1>3, <2>1 DEF Invariant, TypeOK
  <2>3. nextPage' \in 0 .. MaxPage
    BY <1>2, MaxPageAssumption DEF Invariant, TypeOK
  <2> QED
    BY <1>1, <1>2, <1>3, <1>4, <2>2, <2>3 DEF Invariant, TypeOK
<1>6. ProcessState' /\ FlushSoFar'
  BY <1>1, <1>2, <1>3, <1>4
     DEF Invariant, Consistent, ProcessState, FlushSoFar, HeaderStable, Storing
<1>7. StoreSoFar'
  <2>1. job.fresh /\ job.done = 0 <=> job.id = NewPage
    BY <1>1 DEF Invariant, Consistent, StoreSoFar, Storing
  <2>2. job'.id # NewPage /\ job'.done # 0
    BY <1>4, MaxPageAssumption DEF Page, NewPage
  <2>3. ASSUME sound PROVE dat'[job'.id] = [val |-> job.val, part |-> 1]
    <3>1. CASE job.done = 0
      <4>1. job'.id = PageTaken
        BY <1>2, <1>4, <2>1, <3>1 DEF ReusesOld
      <4> QED
        BY <1>2, <1>3, <3>1, <4>1 DEF Invariant, TypeOK
    <3>2. CASE job.done # 0
      <4>1. job'.id = job.id /\ job.id \in InFlight /\ ~ReusesOld
        BY <1>1, <1>4, <2>1, <3>2 DEF InFlight, Storing, ReusesOld
      <4>2. dat[job.id] = [val |-> job.val, part |-> 1]
        BY <1>1, <1>2, <2>3, <3>2 DEF Invariant, Consistent, StoreSoFar, Storing, StoreJob
      <4> QED
        BY <1>2, <1>3, <1>4, <2>3, <4>1, <4>2 DEF Invariant, TypeOK
    <3> QED
      BY <3>1, <3>2
  <2>4. ~job.fresh => job'.id \in live
    BY <1>1, <1>4, <2>1 DEF Invariant, Consistent, StoreSoFar, Storing
  <2> QED
    BY <1>1, <1>4, <2>2, <2>3, <2>4 DEF StoreSoFar
<1>8. AllocSafe'
  <2> SUFFICES ASSUME sound
               PROVE  /\ (live \cup {job'.id}) \cap emptyPages' = {}
                      /\ live \cup {job'.id} \cup emptyPages' \subseteq 0 .. nextPage' - 1
    BY <1>1, <1>4, MaxPageAssumption DEF AllocSafe, InFlight, Page, NewPage
  <2>1. /\ (live \cup InFlight) \cap emptyPages = {}
        /\ live \cup InFlight \cup emptyPages \subseteq 0 .. nextPage - 1
    BY <1>1, <1>2 DEF Invariant, Consistent, AllocSafe
  <2>2. live \cup InFlight \cup emptyPages' \subseteq 0 .. nextPage' - 1
    <3>1. nextPage \in Nat /\ nextPage' \in Nat /\ nextPage <= nextPage'
      BY <1>2, MaxPageAssumption DEF Invariant, TypeOK
    <3> QED
      BY <1>2, <2>1, <3>1
  <2>3. job'.id \in InFlight \/ (~ReusesOld /\ job'.id = PageTaken)
    BY <1>1, <1>2, <1>4 DEF InFlight, Storing
  <2>4. ~ReusesOld => PageTaken \in 0 .. nextPage' - 1
    <3>1. PageTaken \in Nat /\ nextPage' \in Nat
      BY <1>2, MaxPageAssumption DEF Page, Invariant, TypeOK
    <3>2. \A a, b \in Nat : a < b => a \in 0 .. b - 1
      OBVIOUS
    <3>3. ~ReusesOld => PageTaken < nextPage'
      BY <1>2
    <3> QED
      BY <3>1, <3>2, <3>3
  <2> QED
    BY <1>2, <2>1, <2>2, <2>3, <2>4
<1>9. HeaderSafe' /\ HeadIntact'
  <2>1. HeaderSafe'
    BY <1>1, <1>4 DEF Invariant, Consistent, HeaderSafe, HeaderStable, Storing, Readable, EmptyPagesOf
  <2>2. HeadIntact'
    BY <1>1, <1>2, <1>3 DEF Invariant, TypeOK, Consistent, HeadIntact
  <2> QED
    BY <2>1, <2>2
<1> QED
  BY <1>5, <1>6, <1>7, <1>8, <1>9 DEF Invariant, Consistent

(* A store that throws loses the pages it took and touches no other.       *)
LEMMA WriteFailsKeeps == Invariant /\ WriteFails => Invariant'
<1> SUFFICES ASSUME Invariant, WriteFails PROVE Invariant'
  OBVIOUS
<1>1. Storing /\ Take /\ UNCHANGED <<up, idx, idxBad, clones, live, saved, sound>>
  BY DEF WriteFails
<1>2. /\ job \in StoreJob /\ up
      /\ PageTaken \in Page
      /\ emptyPages' \subseteq emptyPages
      /\ nextPage' \in nextPage .. MaxPage
      /\ ReusesOld => PageTaken = job.id /\ job.id # NewPage
      /\ ~ReusesOld /\ sound => PageTaken \notin live \cup InFlight
  BY <1>1, PageTakenIsFree
<1>3. /\ job' = NoJob /\ NoJob.op = "none" /\ ioBad' \in BOOLEAN
      /\ dat' = dat \/ dat' = [dat EXCEPT ![PageTaken] = Torn]
      /\ want' = IF ReusesOld THEN [want EXCEPT ![PageTaken] = Unknown] ELSE want
      /\ kept' = kept \ {PageTaken}
  BY DEF WriteFails, NoJob
<1>4. TypeOK'
  <2>1. dat' \in [Page -> Content] /\ want' \in [Page -> Record \cup {Unknown}]
    BY <1>3 DEF Invariant, TypeOK, Content
  <2>2. nextPage' \in 0 .. MaxPage
    BY <1>2, MaxPageAssumption DEF Invariant, TypeOK
  <2> QED
    BY <1>1, <1>2, <1>3, <2>1, <2>2 DEF Invariant, TypeOK
<1>5. ProcessState' /\ StoreSoFar' /\ FlushSoFar'
  BY <1>1, <1>2, <1>3
     DEF Invariant, Consistent, ProcessState, StoreSoFar, FlushSoFar, HeaderStable, Storing
<1>6. AllocSafe'
  <2> SUFFICES ASSUME sound
               PROVE  /\ live \cap emptyPages' = {}
                      /\ live \cup emptyPages' \subseteq 0 .. nextPage' - 1
    BY <1>1, <1>3 DEF AllocSafe, InFlight
  <2>1. /\ live \cap emptyPages = {}
        /\ live \cup emptyPages \subseteq 0 .. nextPage - 1
    BY <1>1, <1>2 DEF Invariant, Consistent, AllocSafe
  <2>2. nextPage \in Nat /\ nextPage' \in Nat /\ nextPage <= nextPage'
    BY <1>2, MaxPageAssumption DEF Invariant, TypeOK
  <2> QED
    BY <1>2, <2>1, <2>2
<1>7. HeaderSafe'
  BY <1>1, <1>3 DEF Invariant, Consistent, HeaderSafe, HeaderStable, Storing, Readable, EmptyPagesOf
<1>8. HeadIntact'
  BY <1>1, <1>2, <1>3 DEF Invariant, TypeOK, Consistent, HeadIntact
<1> QED
  BY <1>4, <1>5, <1>6, <1>7, <1>8 DEF Invariant, Consistent

(* The id a store returns is the page it wrote first. *)
LEMMA EndStoreKeeps == Invariant /\ EndStore => Invariant'
<1> SUFFICES ASSUME Invariant, EndStore PROVE Invariant'
  OBVIOUS
<1>1. /\ job.op = "store" /\ job.done = job.len
      /\ live' = live \cup {job.id}
      /\ want' = [want EXCEPT ![job.id] = [val |-> job.val, len |-> job.len]]
      /\ job' = NoJob /\ NoJob.op = "none"
      /\ UNCHANGED <<up, nextPage, emptyPages, ioBad, idxBad, dat, idx, clones, saved, kept, sound>>
  BY DEF EndStore, NoJob, memoryVars, fileVars
<1>2. job \in StoreJob /\ up
  BY <1>1, JobKinds DEF Invariant, Consistent, ProcessState
<1>3. job.done > 0 /\ job.id \in Page /\ job.id # NewPage
  BY <1>1, <1>2, MaxLenAssumption DEF Invariant, Consistent, StoreSoFar, StoreJob
<1>4. TypeOK'
  <2>1. [val |-> job.val, len |-> job.len] \in Record
    BY <1>2 DEF StoreJob, Record
  <2>2. want' \in [Page -> Record \cup {Unknown}]
    BY <1>1, <2>1 DEF Invariant, TypeOK
  <2> QED
    BY <1>1, <1>3, <2>2 DEF Invariant, TypeOK
<1>5. ProcessState' /\ StoreSoFar' /\ FlushSoFar'
  BY <1>1, <1>2
     DEF Invariant, Consistent, ProcessState, StoreSoFar, FlushSoFar, HeaderStable
<1>6. AllocSafe'
  BY <1>1, <1>3 DEF Invariant, Consistent, AllocSafe, InFlight
<1>7. HeaderSafe'
  BY <1>1 DEF Invariant, Consistent, HeaderSafe, HeaderStable, Readable, EmptyPagesOf
<1>8. HeadIntact'
  <2>1. sound => dat[job.id] = [val |-> job.val, part |-> 1]
    BY <1>1, <1>3 DEF Invariant, Consistent, StoreSoFar
  <2> QED
    BY <1>1, <1>3, <2>1 DEF Invariant, TypeOK, Consistent, HeadIntact
<1> QED
  BY <1>4, <1>5, <1>6, <1>7, <1>8 DEF Invariant, Consistent

(* A deleted id becomes an empty page only when the client lets go of it. *)
LEMMA DeleteKeeps == ASSUME NEW p \in Page, Invariant, Delete(p) PROVE Invariant'
<1>1. /\ p \in live /\ up /\ job = NoJob /\ NoJob.op = "none"
      /\ emptyPages' = emptyPages \cup {p}
      /\ live' = live \ {p} /\ kept' = kept \ {p}
      /\ UNCHANGED <<up, nextPage, ioBad, idxBad, dat, idx, job, clones, want, saved, sound>>
  BY DEF Delete, Idle, NoJob, fileVars
<1>2. TypeOK'
  BY <1>1 DEF Invariant, TypeOK
<1>3. ProcessState' /\ StoreSoFar' /\ FlushSoFar'
  BY <1>1 DEF Invariant, Consistent, ProcessState, StoreSoFar, FlushSoFar, HeaderStable
<1>4. AllocSafe'
  BY <1>1 DEF Invariant, Consistent, AllocSafe, InFlight
<1>5. HeaderSafe' /\ HeadIntact'
  BY <1>1 DEF Invariant, Consistent, HeaderSafe, HeaderStable, HeadIntact, Readable, EmptyPagesOf
<1> QED
  BY <1>2, <1>3, <1>4, <1>5 DEF Invariant, Consistent

(* Opening and closing a clone leaves the manager and its files alone. *)
LEMMA CloneKeeps ==
  ASSUME NEW c \in Clone, Invariant, MakeClone(c) \/ CloseClone(c) PROVE Invariant'
<1>1. UNCHANGED <<up, nextPage, emptyPages, ioBad, idxBad, dat, idx, job, live, want, saved, kept, sound>>
  BY DEF MakeClone, CloseClone, FlushedByClone, memoryVars, fileVars, clientVars
<1>2. DOMAIN clones' \subseteq Clone /\ \A d \in DOMAIN clones' : clones'[d] \in 0 .. MaxPage
  BY DEF Invariant, TypeOK, MakeClone, CloseClone
<1>3. TypeOK'
  BY <1>1, <1>2 DEF Invariant, TypeOK
<1>4. ProcessState' /\ StoreSoFar' /\ FlushSoFar'
  BY <1>1 DEF Invariant, Consistent, ProcessState, StoreSoFar, FlushSoFar, HeaderStable, Written
<1>5. AllocSafe' /\ HeaderSafe' /\ HeadIntact'
  BY <1>1 DEF Invariant, Consistent, AllocSafe, InFlight, HeaderSafe, HeaderStable, HeadIntact, Readable,
              EmptyPagesOf
<1> QED
  BY <1>3, <1>4, <1>5 DEF Invariant, Consistent

(* A flush begins with nothing written. *)
LEMMA BeginFlushKeeps ==
  ASSUME NEW exit \in BOOLEAN, Invariant, BeginFlush(exit) PROVE Invariant'
<1>1. /\ up /\ job = NoJob /\ NoJob.op = "none"
      /\ UNCHANGED <<up, nextPage, emptyPages, ioBad, idxBad, dat, idx, clones, live, want, saved, kept, sound>>
  BY DEF BeginFlush, Idle, NoJob, memoryVars, fileVars, clientVars
<1>2. /\ job' = [op |-> "flush", at |-> "next", last |-> -1, slot |-> 1, exit |-> exit]
      /\ job' \in FlushJob
  BY DEF BeginFlush, FlushJob
<1>3. TypeOK'
  BY <1>1, <1>2 DEF Invariant, TypeOK
<1>4. ProcessState' /\ StoreSoFar' /\ FlushSoFar'
  BY <1>1, <1>2 DEF Invariant, Consistent, ProcessState, StoreSoFar, FlushSoFar, HeaderStable
<1>5. AllocSafe'
  BY <1>1, <1>2 DEF Invariant, Consistent, AllocSafe, InFlight
<1>6. HeaderSafe' /\ HeadIntact'
  BY <1>1, <1>2 DEF Invariant, Consistent, HeaderSafe, HeaderStable, HeadIntact, Readable, EmptyPagesOf
<1> QED
  BY <1>3, <1>4, <1>5, <1>6 DEF Invariant, Consistent

(* The writes of a flush touch the header and the flush only, and from the *)
(* first of them on the header is not claimed to be safe.                  *)
LEMMA FlushWriteKeeps ==
  ASSUME Invariant, job.op = "flush", job' \in FlushJob, job'.at # "next", idx' \in IdxFile,
         UNCHANGED <<up, memoryVars, dat, clones, clientVars>>, FlushSoFar'
  PROVE  Invariant'
<1>1. /\ job'.op = "flush" /\ job' # NoJob /\ job # NoJob
      /\ UNCHANGED <<up, nextPage, emptyPages, ioBad, idxBad, dat, clones, live, want, saved, kept, sound>>
  BY DEF FlushJob, NoJob, memoryVars, clientVars
<1>2. TypeOK'
  BY <1>1 DEF Invariant, TypeOK
<1>3. ProcessState' /\ StoreSoFar'
  BY <1>1 DEF Invariant, Consistent, ProcessState, StoreSoFar, HeaderStable
<1>4. AllocSafe' /\ HeaderSafe' /\ HeadIntact'
  BY <1>1 DEF Invariant, Consistent, AllocSafe, InFlight, HeaderSafe, HeaderStable, HeadIntact
<1> QED
  BY <1>2, <1>3, <1>4 DEF Invariant, Consistent

(* m_nextPage is written. *)
LEMMA FlushNextKeeps == Invariant /\ FlushNext => Invariant'
<1> SUFFICES ASSUME Invariant, FlushNext PROVE Invariant'
  OBVIOUS
<1>1. /\ job.op = "flush" /\ job.at = "next" /\ idxBad = "no"
      /\ idx' = [idx EXCEPT !.next = nextPage, !.fields = IF @ = 0 THEN 1 ELSE @]
      /\ job' = [job EXCEPT !.at = "count"]
      /\ UNCHANGED <<up, memoryVars, dat, clones, clientVars>>
  BY DEF FlushNext, Flushing
<1>2. job \in FlushJob /\ idx \in IdxFile /\ nextPage \in 0 .. MaxPage
  BY <1>1, JobKinds DEF Invariant, TypeOK
<1>3. /\ job' \in FlushJob /\ job'.op = "flush" /\ job'.at = "count"
      /\ job'.last = job.last /\ job'.slot = job.slot
  BY <1>1, <1>2 DEF FlushJob
<1>4. idx' \in IdxFile /\ idx'.next = nextPage /\ idx'.fields # 0
  <2> DEFINE fields == IF idx.fields = 0 THEN 1 ELSE idx.fields
  <2>1. fields \in 0 .. 2 /\ fields # 0
    BY <1>2 DEF IdxFile
  <2>2. idx' = [idx EXCEPT !.next = nextPage, !.fields = fields]
    BY <1>1
  <2> HIDE DEF fields
  <2> QED
    BY <1>2, <2>1, <2>2 DEF IdxFile
<1>5. FlushSoFar'
  BY <1>1, <1>3, <1>4 DEF Invariant, Consistent, FlushSoFar, memoryVars
<1> QED
  BY <1>1, <1>3, <1>4, <1>5, FlushWriteKeeps

(* The number of empty pages is written. *)
LEMMA FlushCountKeeps == Invariant /\ FlushCount => Invariant'
<1> SUFFICES ASSUME Invariant, FlushCount PROVE Invariant'
  OBVIOUS
<1>1. /\ job.op = "flush" /\ job.at = "count"
      /\ idx' = [idx EXCEPT !.count = Cardinality(emptyPages), !.fields = 2]
      /\ job' = [job EXCEPT !.at = "pages"]
      /\ UNCHANGED <<up, memoryVars, dat, clones, clientVars>>
  BY DEF FlushCount, Flushing
<1>2. job \in FlushJob /\ idx \in IdxFile /\ Cardinality(emptyPages) \in Nat
  BY <1>1, JobKinds, PagesFinite DEF Invariant, TypeOK
<1>3. /\ job' \in FlushJob /\ job'.op = "flush" /\ job'.at = "pages"
      /\ job'.last = job.last /\ job'.slot = job.slot
  BY <1>1, <1>2 DEF FlushJob
<1>4. /\ idx' \in IdxFile /\ idx'.fields = 2 /\ idx'.next = idx.next
      /\ idx'.count = Cardinality(emptyPages) /\ idx'.slots = idx.slots
  <2> DEFINE count == Cardinality(emptyPages)
  <2>1. idx' = [idx EXCEPT !.count = count, !.fields = 2] /\ count \in Nat
    BY <1>1, <1>2
  <2> HIDE DEF count
  <2>2. /\ idx'.fields = 2 /\ idx'.next = idx.next
        /\ idx'.count = count /\ idx'.slots = idx.slots
    BY <1>2, <2>1 DEF IdxFile
  <2>3. idx' \in IdxFile
    <3>1. 2 \in 0 .. 2
      OBVIOUS
    <3> QED
      BY <1>2, <2>1, <3>1 DEF IdxFile
  <2> QED
    BY <2>2, <2>3 DEF count
<1>5. job.last = -1 /\ job.slot = 1 /\ idx.next = nextPage /\ idxBad = "no"
  BY <1>1 DEF Invariant, Consistent, FlushSoFar
<1>6. Written' = {}
  BY <1>1, <1>3, <1>5, MaxPageAssumption DEF Written, memoryVars, Page, Invariant, TypeOK
<1>7. Len(idx.slots) \in Nat
  BY <1>2, LenProperties DEF IdxFile
<1>8. FlushSoFar'
  BY <1>1, <1>3, <1>4, <1>5, <1>6, <1>7, FS_EmptySet DEF FlushSoFar, memoryVars
<1> QED
  BY <1>1, <1>3, <1>4, <1>8, FlushWriteKeeps

(* The next empty page is written behind those already there. *)
LEMMA FlushPageKeeps == Invariant /\ FlushPage => Invariant'
<1> SUFFICES ASSUME Invariant, FlushPage PROVE Invariant'
  OBVIOUS
<1> DEFINE p == SmallestOf(Unwritten)
<1>1. /\ job.op = "flush" /\ job.at = "pages" /\ Unwritten # {}
      /\ idx' = [idx EXCEPT !.slots = WriteSlot(@, job.slot, p)]
      /\ job' = [job EXCEPT !.last = p, !.slot = @ + 1]
      /\ UNCHANGED <<up, memoryVars, dat, clones, clientVars>>
  BY DEF FlushPage, Flushing
<1>2. /\ job \in FlushJob /\ idx \in IdxFile /\ emptyPages \subseteq Page
      /\ idx.slots \in Seq(Page) /\ job.slot \in Nat /\ job.last \in Int
  BY <1>1, JobKinds, MaxPageAssumption DEF Invariant, TypeOK, IdxFile, FlushJob, Page
<1>3. /\ p \in emptyPages /\ p \in Page /\ p \in Nat /\ p > job.last
      /\ \A q \in Unwritten : p <= q
  <2>1. Unwritten \subseteq emptyPages /\ Unwritten \subseteq Page /\ Unwritten # {}
    BY <1>1, <1>2 DEF Unwritten
  <2>2. p \in Unwritten /\ \A q \in Unwritten : p <= q
    BY <2>1, SmallestIsLeast
  <2>3. p \in Nat
    <3>1. Page \subseteq Nat
      BY MaxPageAssumption DEF Page
    <3> QED
      BY <2>1, <2>2, <3>1
  <2>4. p > job.last
    BY <2>2 DEF Unwritten
  <2> QED
    BY <2>1, <2>2, <2>3, <2>4
<1>4. /\ idx.next = nextPage /\ idx.fields = 2 /\ idx.count = Cardinality(emptyPages)
      /\ idxBad = "no"
      /\ job.slot = Cardinality(Written) + 1
      /\ job.slot - 1 <= Len(idx.slots)
      /\ {idx.slots[i] : i \in 1 .. job.slot - 1} = Written
  BY <1>1 DEF Invariant, Consistent, FlushSoFar
<1>5. /\ IsFiniteSet(Written) /\ Cardinality(Written) \in Nat
      /\ p \notin Written
  BY <1>2, <1>3, PagesFinite DEF Written
<1>6. job.slot \in 1 .. Len(idx.slots) + 1 /\ Len(idx.slots) \in Nat
  BY <1>2, <1>4, <1>5, LenProperties
<1> HIDE DEF p
<1>7. /\ job' \in FlushJob /\ job'.op = "flush" /\ job'.at = "pages"
      /\ job'.last = p /\ job'.slot = job.slot + 1
  <2> DEFINE slot == job.slot + 1
  <2>1. slot \in Nat /\ p \in Page \cup {-1}
    BY <1>2, <1>3
  <2>2. job' = [job EXCEPT !.last = p, !.slot = slot]
    BY <1>1
  <2> HIDE DEF slot
  <2>3. /\ job' \in FlushJob /\ job'.op = "flush" /\ job'.at = job.at
        /\ job'.last = p /\ job'.slot = slot
    BY <1>2, <2>1, <2>2 DEF FlushJob
  <2> QED
    BY <1>1, <2>3 DEF slot
<1>8. /\ idx'.slots = WriteSlot(idx.slots, job.slot, p)
      /\ idx'.next = idx.next /\ idx'.fields = idx.fields /\ idx'.count = idx.count
      /\ idx' \in IdxFile
  <2> DEFINE slots == WriteSlot(idx.slots, job.slot, p)
  <2>1. slots \in Seq(Page)
    BY <1>2, <1>3, <1>6, WriteSlotWrites
  <2>2. idx' = [idx EXCEPT !.slots = slots]
    BY <1>1
  <2> HIDE DEF slots
  <2>3. /\ idx'.slots = slots /\ idx'.next = idx.next /\ idx'.fields = idx.fields
        /\ idx'.count = idx.count /\ idx' \in IdxFile
    BY <1>2, <2>1, <2>2 DEF IdxFile
  <2> QED
    BY <2>3 DEF slots
<1>9. Written' = Written \cup {p}
  <2>1. emptyPages' = emptyPages /\ emptyPages \subseteq Int
    BY <1>1, <1>2, MaxPageAssumption DEF memoryVars, Page
  <2>2. \A q \in emptyPages : q <= p <=> (q <= job.last \/ q = p)
    BY <1>2, <1>3, <2>1 DEF Unwritten
  <2> QED
    BY <1>3, <1>7, <2>1, <2>2 DEF Written
<1>10. Cardinality(Written') = job.slot /\ job.slot >= 1
  <2>1. Cardinality(Written \cup {p}) = Cardinality(Written) + 1
    BY <1>5, FS_AddElement
  <2> QED
    BY <1>4, <1>5, <1>9, <2>1
<1>11. {idx'.slots[i] : i \in 1 .. job.slot} = Written'
  <2>1. /\ idx'.slots[job.slot] = p
        /\ \A j \in 1 .. job.slot - 1 : idx'.slots[j] = idx.slots[j]
    BY <1>2, <1>3, <1>6, <1>8, WriteSlotWrites
  <2>2. 1 .. job.slot = (1 .. job.slot - 1) \cup {job.slot}
    BY <1>2, <1>10
  <2>3. {idx'.slots[i] : i \in 1 .. job.slot} =
          {idx.slots[i] : i \in 1 .. job.slot - 1} \cup {p}
    BY <2>1, <2>2
  <2> QED
    BY <1>4, <1>9, <2>3
<1>12. job.slot <= Len(idx'.slots)
  BY <1>2, <1>3, <1>6, <1>8, WriteSlotWrites
<1>13. FlushSoFar'
  <2>1. nextPage' = nextPage /\ emptyPages' = emptyPages /\ idxBad' = idxBad
    BY <1>1 DEF memoryVars
  <2>2. job'.slot - 1 = job.slot
    BY <1>2, <1>7
  <2> QED
    BY <1>2, <1>4, <1>7, <1>8, <1>10, <1>11, <1>12, <2>1, <2>2 DEF FlushSoFar
<1> QED
  BY <1>1, <1>7, <1>8, <1>13, FlushWriteKeeps

(* A flush that throws leaves the allocator as it is, and a header of      *)
(* which something is claimed only when nothing of it was written.         *)
LEMMA FlushFailsKeeps == Invariant /\ FlushFails => Invariant'
<1> SUFFICES ASSUME Invariant, FlushFails PROVE Invariant'
  OBVIOUS
<1>1. /\ job.op = "flush" /\ job' = NoJob /\ NoJob.op = "none"
      /\ idxBad' = IF idxBad # "no" THEN idxBad ELSE IF job.at = "next" THEN "whole" ELSE "torn"
      /\ UNCHANGED <<up, nextPage, emptyPages, ioBad, dat, idx, clones, live, want, saved, kept, sound>>
  BY DEF FlushFails, NoJob, fileVars, clientVars
<1>2. up
  BY <1>1 DEF NoJob, Invariant, Consistent, ProcessState
<1>3. /\ idxBad' \in {"no", "whole", "torn"}
      /\ idxBad' # "torn" => job.at = "next" /\ idxBad # "torn"
  <2>1. idxBad \in {"no", "whole", "torn"} /\ (job.at # "next" => idxBad = "no")
    BY <1>1 DEF Invariant, TypeOK, Consistent, FlushSoFar
  <2> QED
    BY <1>1, <2>1
<1>4. TypeOK'
  BY <1>1, <1>3 DEF Invariant, TypeOK
<1>5. ProcessState' /\ StoreSoFar' /\ FlushSoFar'
  BY <1>1, <1>2, <1>3
     DEF Invariant, Consistent, ProcessState, StoreSoFar, FlushSoFar, HeaderStable
<1>6. AllocSafe'
  BY <1>1 DEF Invariant, Consistent, AllocSafe, InFlight
<1>7. HeaderSafe' /\ HeadIntact'
  BY <1>1, <1>3
     DEF Invariant, Consistent, HeaderSafe, HeaderStable, HeadIntact, Readable, EmptyPagesOf
<1> QED
  BY <1>4, <1>5, <1>6, <1>7 DEF Invariant, Consistent

(* When the last empty page is written, the header says of every page what *)
(* the allocator says of it.                                               *)
LEMMA EndFlushKeeps == Invariant /\ EndFlush => Invariant'
<1> SUFFICES ASSUME Invariant, EndFlush PROVE Invariant'
  OBVIOUS
<1>1. /\ job.op = "flush" /\ job.at = "pages" /\ Unwritten = {}
      /\ saved' = live /\ kept' = live
      /\ job' = NoJob /\ NoJob.op = "none"
      /\ up' = ~job.exit
      /\ UNCHANGED <<dat, idx, live, want, sound>>
  BY DEF EndFlush, Flushing, NoJob, fileVars
<1>2. /\ job \in FlushJob /\ up /\ idx \in IdxFile /\ idx.slots \in Seq(Page)
      /\ emptyPages \subseteq Page /\ job.last \in Int
  BY <1>1, JobKinds, MaxPageAssumption
     DEF Invariant, TypeOK, Consistent, ProcessState, IdxFile, FlushJob, Page
<1>3. /\ nextPage' \in {nextPage, 0} /\ emptyPages' \in {emptyPages, {}}
      /\ up' => nextPage' = nextPage /\ emptyPages' = emptyPages
  BY <1>1 DEF EndFlush, memoryVars
<1>4. ioBad' \in BOOLEAN /\ idxBad' = "no"
  <2>1. (ioBad' = FALSE \/ ioBad' = ioBad) /\ (idxBad' = "no" \/ idxBad' = idxBad)
    BY DEF EndFlush, memoryVars
  <2>2. idxBad = "no"
    BY <1>1 DEF Invariant, Consistent, FlushSoFar
  <2> QED
    BY <2>1, <2>2 DEF Invariant, TypeOK
<1>5. DOMAIN clones' \subseteq Clone /\ \A d \in DOMAIN clones' : clones'[d] \in 0 .. MaxPage
  <2>1. CASE job.exit
    <3>1. clones' = [c \in {} |-> 0]
      BY <2>1 DEF EndFlush
    <3> QED
      BY <3>1
  <2>2. CASE ~job.exit
    BY <2>2 DEF EndFlush, Invariant, TypeOK
  <2> QED
    BY <2>1, <2>2
<1>6. TypeOK'
  <2>1. up' \in BOOLEAN
    BY <1>1, <1>2 DEF FlushJob
  <2>2. nextPage' \in 0 .. MaxPage
    BY <1>3, MaxPageAssumption DEF Invariant, TypeOK
  <2> QED
    BY <1>1, <1>3, <1>4, <1>5, <2>1, <2>2 DEF Invariant, TypeOK
<1>7. /\ Readable(idx) /\ idx.fields = 2 /\ idx.next = nextPage
      /\ EmptyPagesOf(idx) = emptyPages
  <2>1. Written = emptyPages
    <3>1. \A p \in emptyPages : ~ (p > job.last)
      BY <1>1 DEF Unwritten
    <3>2. \A p \in emptyPages : p \in Int
      BY <1>2, MaxPageAssumption DEF Page
    <3>3. \A p \in emptyPages : p <= job.last
      BY <1>2, <3>1, <3>2
    <3> QED
      BY <3>3 DEF Written
  <2>2. /\ idx.next = nextPage /\ idx.fields = 2 /\ idx.count = Cardinality(emptyPages)
        /\ job.slot = Cardinality(Written) + 1
        /\ job.slot - 1 <= Len(idx.slots)
        /\ {idx.slots[i] : i \in 1 .. job.slot - 1} = Written
    BY <1>1 DEF Invariant, Consistent, FlushSoFar
  <2>3. job.slot - 1 = idx.count
    BY <1>2, <2>1, <2>2, PagesFinite
  <2> QED
    BY <2>1, <2>2, <2>3 DEF Readable, EmptyPagesOf
<1>8. ProcessState' /\ StoreSoFar' /\ FlushSoFar'
  BY <1>1, <1>4, <1>7 DEF ProcessState, StoreSoFar, FlushSoFar, HeaderStable
<1>9. AllocSafe'
  BY <1>1, <1>2, <1>3 DEF Invariant, Consistent, AllocSafe, InFlight
<1>10. HeaderSafe'
  <2>1. sound => /\ live \cap emptyPages = {}
                 /\ live \cup emptyPages \subseteq 0 .. nextPage - 1
    BY <1>2 DEF Invariant, Consistent, AllocSafe
  <2>2. Readable(idx)' /\ EmptyPagesOf(idx)' = emptyPages
    BY <1>1, <1>7 DEF Readable, EmptyPagesOf
  <2> QED
    BY <1>1, <1>7, <2>1, <2>2 DEF HeaderSafe, HeaderStable
<1>11. HeadIntact'
  BY <1>1 DEF Invariant, Consistent, HeadIntact
<1> QED
  BY <1>6, <1>8, <1>9, <1>10, <1>11 DEF Invariant, Consistent

(* Every step of the manager and its client keeps the invariant. *)
LEMMA NextKeeps == Invariant /\ [Next]_vars => Invariant'
<1> SUFFICES ASSUME Invariant, [Next]_vars PROVE Invariant'
  OBVIOUS
<1>1. CASE Create
  BY <1>1, CreateKeeps
<1>2. CASE Open
  BY <1>2, OpenKeeps
<1>3. CASE Crash
  BY <1>3, CrashKeeps
<1>4. ASSUME NEW v \in Value, NEW n \in 1 .. MaxLen, BeginStoreNew(v, n) PROVE Invariant'
  BY <1>4, BeginStoreKeeps
<1>5. ASSUME NEW p \in Page, NEW v \in Value, NEW n \in 1 .. MaxLen, BeginStoreOld(p, v, n)
      PROVE  Invariant'
  BY <1>5, BeginStoreKeeps
<1>6. CASE WritePage
  BY <1>6, WritePageKeeps
<1>7. CASE WriteFails
  BY <1>7, WriteFailsKeeps
<1>8. CASE EndStore
  BY <1>8, EndStoreKeeps
<1>9. ASSUME NEW p \in Page, Delete(p) PROVE Invariant'
  BY <1>9, DeleteKeeps
<1>10. ASSUME NEW exit \in BOOLEAN, BeginFlush(exit) PROVE Invariant'
  BY <1>10, BeginFlushKeeps
<1>11. CASE FlushNext
  BY <1>11, FlushNextKeeps
<1>12. CASE FlushCount
  BY <1>12, FlushCountKeeps
<1>13. CASE FlushPage
  BY <1>13, FlushPageKeeps
<1>14. CASE EndFlush
  BY <1>14, EndFlushKeeps
<1>15. ASSUME NEW c \in Clone, MakeClone(c) \/ CloseClone(c) PROVE Invariant'
  BY <1>15, CloneKeeps
<1>17. CASE FlushFails
  BY <1>17, FlushFailsKeeps
<1>16. CASE UNCHANGED vars
  BY <1>16 DEF Invariant, vars, TypeOK, Consistent, ProcessState, StoreSoFar, FlushSoFar,
               HeaderStable, Written, AllocSafe, InFlight, HeaderSafe, HeadIntact, Readable,
               EmptyPagesOf
<1> QED
  BY <1>1, <1>2, <1>3, <1>4, <1>5, <1>6, <1>7, <1>8, <1>9, <1>10, <1>11, <1>12, <1>13, <1>14,
     <1>15, <1>16, <1>17 DEF Next

-----------------------------------------------------------------------------
(* The theorems. *)

(* In every reachable state the types hold and the allocator, the header,  *)
(* the pages and the call in progress fit together.                        *)
THEOREM Invariance == Spec => []Invariant
<1>1. Init => Invariant
  BY InitInvariant
<1>2. Invariant /\ [Next]_vars => Invariant'
  BY NextKeeps
<1> QED
  BY <1>1, <1>2, PTL DEF Spec

(* Page numbers stay in the file, and a call in progress is well formed. *)
THEOREM TypeCorrect == Spec => []TypeOK
<1>1. Invariant => TypeOK
  BY DEF Invariant
<1> QED
  BY <1>1, Invariance, PTL

(* storeByteArray never takes a page that a client refers to or that an    *)
(* unfinished store has taken, whatever was stored, deleted, failed,       *)
(* flushed or recovered before.                                            *)
THEOREM AllocationIsSafe == Spec => []AllocSafe
<1>1. Invariant => AllocSafe
  BY DEF Invariant, Consistent
<1> QED
  BY <1>1, Invariance, PTL

(* The .idx file between two flushes never offers a page of the last flush *)
(* to the process that will load it.                                       *)
THEOREM HeaderIsSafe == Spec => []HeaderSafe
<1>1. Invariant => HeaderSafe
  BY DEF Invariant, Consistent
<1> QED
  BY <1>1, Invariance, PTL

(* A record a client holds begins with what was last stored under its id.  *)
THEOREM HeadsStayIntact == Spec => []HeadIntact
<1>1. Invariant => HeadIntact
  BY DEF Invariant, Consistent
<1> QED
  BY <1>1, Invariance, PTL

-----------------------------------------------------------------------------
(* The refinement of PageMap. *)

(* A step that leaves the held pages, their contents and the progress of a *)
(* flush alone is no step of the page map.                                 *)
LEMMA StutterStep ==
  ASSUME UNCHANGED <<live, saved, kept, sound>>,
         \A p \in live : dat'[p] = dat[p],
         AbstractRewriting' = AbstractRewriting, AbstractPhase' = AbstractPhase
  PROVE  UNCHANGED PM!abstractVars
<1>1. AbstractStore' = AbstractStore
  BY DEF AbstractStore
<1> QED
  BY <1>1 DEF PM!abstractVars

(* Of a store that a process left with a torn header nothing is claimed. *)
LEMMA VoidStep ==
  ASSUME ~sound, ~sound' PROVE PM!Next
BY DEF AbstractPhase, PM!Next, PM!Void

(* A process whose client may call it serves, also after a failed flush. *)
LEMMA ServingPhase ==
  ASSUME sound, up, ~ (job.op = "flush" /\ job.at # "next") PROVE PM!Serving
BY DEF AbstractPhase, PM!Serving

(* The phase stays while none of what it is made of changes. *)
LEMMA SamePhase ==
  ASSUME UNCHANGED <<sound, up, idxBad>>,
         ~ (job.op = "flush" /\ job.at # "next"), ~ (job'.op = "flush" /\ job'.at # "next")
  PROVE  AbstractPhase' = AbstractPhase
BY DEF AbstractPhase

(* Each turn of a store rewrites the page of an id the client holds, or    *)
(* fills one that the client does not know of yet.                         *)
LEMMA WriteRefines ==
  ASSUME Invariant, WritePage \/ WriteFails
  PROVE  [PM!Next]_PM!abstractVars
<1>1. /\ Storing /\ Take /\ UNCHANGED <<up, idxBad, live, saved, sound>>
      /\ kept' = kept \ {PageTaken}
      /\ AbstractRewriting' \in {AbstractRewriting, {}}
      /\ job' = NoJob \/ job'.op = "store"
      /\ \A p \in Page : p # PageTaken => dat'[p] = dat[p]
  <2>1. PageTaken \in Page /\ Storing /\ Take
    BY DEF WritePage, WriteFails, Take
  <2>2. job \in StoreJob
    BY <2>1, JobKinds DEF Storing, Invariant
  <2>3. CASE WritePage
    <3>1. /\ job'.op = "store" /\ job'.fresh = job.fresh
          /\ job.id # NewPage => job'.id = job.id
      BY <2>1, <2>2, <2>3 DEF WritePage, Storing, StoreJob
    <3>2. ~job.fresh => job.id # NewPage
      BY <2>1 DEF Invariant, Consistent, StoreSoFar, Storing
    <3>3. AbstractRewriting' = AbstractRewriting
      BY <2>1, <3>1, <3>2 DEF AbstractRewriting, Storing
    <3> QED
      BY <2>1, <2>3, <3>1, <3>3 DEF WritePage, Invariant, TypeOK
  <2>4. CASE WriteFails
    <3>1. AbstractRewriting' = {}
      BY <2>4 DEF WriteFails, NoJob, AbstractRewriting
    <3> QED
      BY <2>1, <2>4, <3>1 DEF WriteFails, Invariant, TypeOK
  <2> QED
    BY <2>3, <2>4
<1>2. PageTaken \in Page /\ up /\ dat' \in [Page -> Content] /\ live \subseteq Page
  <2>1. TypeOK'
    BY WritePageKeeps, WriteFailsKeeps DEF Invariant
  <2> QED
    BY <1>1, <2>1, PageTakenIsFree DEF Invariant, TypeOK
<1>3. CASE ~sound
  BY <1>1, <1>3, VoidStep
<1>4. CASE sound
  <2>1. PM!Serving /\ AbstractPhase' = AbstractPhase
    <3>1. job.op = "store" /\ NoJob.op = "none"
      BY <1>1 DEF Storing, NoJob
    <3> QED
      BY <1>1, <1>2, <1>4, <3>1, ServingPhase, SamePhase
  <2>2. CASE PageTaken \in live
    <3>1. AbstractStore' = [AbstractStore EXCEPT ![PageTaken] = dat'[PageTaken]]
      BY <1>1, <1>2 DEF AbstractStore
    <3>2. PageTaken \in AbstractRewriting
      BY <1>1, <1>4, <2>2, PageTakenIsFree DEF AbstractRewriting, Storing, ReusesOld
    <3>3. PM!Rewrite(PageTaken, dat'[PageTaken])
      BY <1>1, <2>1, <3>1, <3>2 DEF PM!Rewrite
    <3>4. dat'[PageTaken] \in Content
      BY <1>2
    <3> QED
      BY <1>2, <3>3, <3>4 DEF PM!Next
  <2>3. CASE PageTaken \notin live
    <3>1. kept' = kept
      BY <1>1, <2>3 DEF Invariant, Consistent, ProcessState
    <3>2. \A p \in live : dat'[p] = dat[p]
      BY <1>1, <1>2, <2>3
    <3>3. CASE AbstractRewriting' = AbstractRewriting
      BY <1>1, <2>1, <3>1, <3>2, <3>3, StutterStep
    <3>4. CASE AbstractRewriting' # AbstractRewriting
      <4>1. AbstractStore' = AbstractStore
        BY <1>1, <3>2 DEF AbstractStore
      <4>2. AbstractRewriting # {} /\ AbstractRewriting' = {}
        BY <1>1, <3>4
      <4> QED
        BY <1>1, <2>1, <3>1, <4>1, <4>2 DEF PM!Next, PM!EndRewrite
    <3> QED
      BY <3>3, <3>4
  <2> QED
    BY <2>2, <2>3
<1> QED
  BY <1>3, <1>4

(* The end of a store hands out an id the client does not hold, or         *)
(* confirms the one it gave.                                               *)
LEMMA EndStoreRefines ==
  ASSUME Invariant, EndStore PROVE [PM!Next]_PM!abstractVars
<1>1. /\ job.op = "store" /\ job' = NoJob /\ NoJob.op = "none"
      /\ live' = live \cup {job.id}
      /\ UNCHANGED <<up, idxBad, dat, saved, kept, sound>>
  BY DEF EndStore, NoJob, fileVars, memoryVars
<1>2. up /\ job.id \in Page /\ dat \in [Page -> Content] /\ live \subseteq Page
  <2>1. TypeOK'
    BY EndStoreKeeps DEF Invariant
  <2> QED
    BY <1>1, <2>1, JobKinds DEF Invariant, TypeOK, Consistent, ProcessState
<1>3. CASE ~sound
  BY <1>1, <1>3, VoidStep
<1>4. CASE sound
  <2>1. PM!Serving /\ AbstractPhase' = AbstractPhase
    BY <1>1, <1>2, <1>4, ServingPhase, SamePhase
  <2>2. AbstractRewriting' = {}
    BY <1>1 DEF AbstractRewriting
  <2>3. CASE job.fresh
    <3>1. AbstractRewriting = {}
      BY <2>3 DEF AbstractRewriting
    <3>2. CASE job.id \in live
      <4>1. live' = live
        BY <1>1, <3>2
      <4> QED
        BY <1>1, <2>1, <2>2, <3>1, <4>1, StutterStep
    <3>3. CASE job.id \notin live
      <4>1. PM!Alloc(job.id, dat[job.id])
        BY <1>1, <1>2, <2>1, <2>2, <3>1, <3>3 DEF PM!Alloc, PM!Held, AbstractStore
      <4> QED
        BY <1>2, <4>1 DEF PM!Next
    <3> QED
      BY <3>2, <3>3
  <2>4. CASE ~job.fresh
    <3>1. job.id \in live
      BY <1>1, <2>4 DEF Invariant, Consistent, StoreSoFar
    <3>2. AbstractStore' = AbstractStore
      BY <1>1, <3>1 DEF AbstractStore
    <3>3. AbstractRewriting # {}
      BY <1>1, <2>4 DEF AbstractRewriting
    <3> QED
      BY <1>1, <2>1, <2>2, <3>2, <3>3 DEF PM!Next, PM!EndRewrite
  <2> QED
    BY <2>3, <2>4
<1> QED
  BY <1>3, <1>4

(* The death of the process is a crash of the page map, or the end of all  *)
(* promises when it cuts a flush or comes after one that failed.           *)
LEMMA CrashRefines ==
  ASSUME Invariant, Crash PROVE PM!Next
<1>1. /\ up /\ up' = FALSE /\ live' = saved
      /\ sound' = (sound /\ HeaderStable)
      /\ job' = NoJob /\ NoJob.op = "none"
      /\ UNCHANGED <<dat, saved, kept>>
      /\ kept \subseteq live /\ kept \subseteq saved
  BY DEF Crash, NoJob, fileVars, Invariant, TypeOK, Consistent, ProcessState
<1>2. CASE ~sound
  <2>1. ~sound'
    BY <1>1, <1>2
  <2> QED
    BY <1>2, <2>1, VoidStep
<1>3. CASE sound /\ ~HeaderStable
  <2>1. AbstractPhase \in {"sync", "torn"} /\ AbstractPhase' = "void"
    BY <1>1, <1>3 DEF AbstractPhase, HeaderStable
  <2> QED
    BY <2>1 DEF PM!Next, PM!CrashInSync
<1>4. CASE sound /\ HeaderStable
  <2>1. AbstractPhase = "up" /\ AbstractPhase' = "down"
    BY <1>1, <1>4 DEF AbstractPhase, HeaderStable
  <2>2. DOMAIN AbstractStore' = saved /\ \A p \in kept : AbstractStore'[p] = AbstractStore[p]
    BY <1>1 DEF AbstractStore
  <2>3. AbstractRewriting' = {}
    BY <1>1 DEF AbstractRewriting
  <2> QED
    BY <1>1, <2>1, <2>2, <2>3 DEF PM!Next, PM!Crash
<1> QED
  BY <1>2, <1>3, <1>4

(* The last write of a flush is the moment its ids are saved. *)
LEMMA EndFlushRefines ==
  ASSUME Invariant, EndFlush PROVE PM!Next
<1>1. /\ job.op = "flush" /\ job.at = "pages"
      /\ saved' = live /\ kept' = live /\ job' = NoJob /\ NoJob.op = "none"
      /\ UNCHANGED <<dat, live, sound>>
      /\ up' \in BOOLEAN /\ up
      /\ idxBad = "no" /\ idxBad' = "no"
  <2>1. up' \in BOOLEAN /\ up
    BY EndFlushKeeps, JobKinds
       DEF Invariant, TypeOK, Consistent, ProcessState, EndFlush, Flushing
  <2>2. idxBad = "no"
    BY DEF EndFlush, Flushing, Invariant, Consistent, FlushSoFar
  <2>3. idxBad' = "no"
    BY <2>2 DEF EndFlush, memoryVars
  <2> QED
    BY <2>1, <2>2, <2>3 DEF EndFlush, Flushing, NoJob, fileVars
<1>2. CASE ~sound
  BY <1>1, <1>2, VoidStep
<1>3. CASE sound
  <2>1. AbstractPhase = "sync" /\ AbstractPhase' \in {"up", "down"}
    BY <1>1, <1>3 DEF AbstractPhase
  <2>2. AbstractStore' = AbstractStore /\ DOMAIN AbstractStore = live
    BY <1>1 DEF AbstractStore
  <2>3. AbstractRewriting' = AbstractRewriting
    BY <1>1 DEF AbstractRewriting
  <2> QED
    BY <1>1, <2>1, <2>2, <2>3 DEF PM!Next, PM!EndSync, PM!Held
<1> QED
  BY <1>2, <1>3

(* A flush that fails after its first write is a sync that fails; before   *)
(* it, nothing has happened.                                               *)
LEMMA FlushFailsRefines ==
  ASSUME Invariant, FlushFails PROVE [PM!Next]_PM!abstractVars
<1>1. /\ job.op = "flush" /\ job' = NoJob /\ NoJob.op = "none"
      /\ idxBad' = IF idxBad # "no" THEN idxBad ELSE IF job.at = "next" THEN "whole" ELSE "torn"
      /\ UNCHANGED <<up, dat, live, saved, kept, sound>>
  BY DEF FlushFails, NoJob, fileVars, clientVars
<1>2. up /\ (job.at # "next" => idxBad = "no")
  BY <1>1 DEF NoJob, Invariant, Consistent, ProcessState, FlushSoFar
<1>3. AbstractRewriting = {} /\ AbstractRewriting' = {} /\ AbstractStore' = AbstractStore
  BY <1>1 DEF AbstractRewriting, AbstractStore
<1>4. CASE ~sound
  BY <1>1, <1>4, VoidStep
<1>5. CASE sound /\ job.at = "next"
  <2>1. AbstractPhase' = AbstractPhase
    BY <1>1, <1>2, <1>5 DEF AbstractPhase
  <2> QED
    BY <1>1, <1>3, <2>1, StutterStep
<1>6. CASE sound /\ job.at # "next"
  <2>1. AbstractPhase = "sync" /\ AbstractPhase' = "torn"
    BY <1>1, <1>2, <1>6 DEF AbstractPhase
  <2> QED
    BY <1>1, <1>3, <2>1 DEF PM!Next, PM!SyncFails
<1> QED
  BY <1>4, <1>5, <1>6

(* A call that begins, unless it names an id, and a write of the header    *)
(* after its first, is no step of the page map; the first write of the     *)
(* header is the beginning of a sync.                                      *)
LEMMA JobStepRefines ==
  ASSUME Invariant, UNCHANGED <<up, idxBad, dat, live, saved, kept, sound>>, up,
         AbstractRewriting = {}, AbstractRewriting' = {},
         \/ ~(job.op = "flush" /\ job.at # "next")
         \/ job'.op = "flush" /\ job'.at # "next"
  PROVE  [PM!Next]_PM!abstractVars
<1>1. CASE ~sound
  BY <1>1, VoidStep
<1>2. CASE AbstractPhase' = AbstractPhase
  BY <1>2, StutterStep
<1>3. CASE sound /\ AbstractPhase' # AbstractPhase
  <2>1. AbstractPhase = "up" /\ AbstractPhase' = "sync"
    BY <1>3 DEF AbstractPhase
  <2>2. AbstractStore' = AbstractStore
    BY DEF AbstractStore
  <2> QED
    BY <2>1, <2>2 DEF PM!Next, PM!BeginSync
<1> QED
  BY <1>1, <1>2, <1>3

(* A store under an id the client holds announces which one it is. *)
LEMMA BeginStoreOldRefines ==
  ASSUME NEW p \in Page, NEW v, NEW n, Invariant, BeginStoreOld(p, v, n)
  PROVE  PM!Next
<1>1. /\ up /\ job = NoJob /\ NoJob.op = "none" /\ p \in live
      /\ job'.op = "store" /\ ~job'.fresh /\ job'.id = p
      /\ UNCHANGED <<up, idxBad, dat, live, saved, kept, sound>>
  BY DEF BeginStoreOld, Idle, NoJob, memoryVars, fileVars, clientVars
<1>2. CASE ~sound
  BY <1>1, <1>2, VoidStep
<1>3. CASE sound
  <2>1. PM!Serving /\ AbstractPhase' = AbstractPhase
    BY <1>1, <1>3, ServingPhase, SamePhase
  <2>2. AbstractRewriting = {} /\ AbstractRewriting' = {p}
    BY <1>1 DEF AbstractRewriting
  <2>3. AbstractStore' = AbstractStore /\ p \in DOMAIN AbstractStore
    BY <1>1 DEF AbstractStore
  <2>4. PM!BeginRewrite(p)
    BY <1>1, <2>1, <2>2, <2>3 DEF PM!BeginRewrite, PM!Held
  <2> QED
    BY <2>4 DEF PM!Next
<1> QED
  BY <1>2, <1>3

(* Every step of the manager is a step of the page map or changes nothing  *)
(* the page map speaks of.                                                 *)
LEMMA NextRefines == Invariant /\ [Next]_vars => [PM!Next]_PM!abstractVars
<1> SUFFICES ASSUME Invariant, [Next]_vars PROVE [PM!Next]_PM!abstractVars
  OBVIOUS
<1>0. NoJob.op = "none"
  BY DEF NoJob
<1>1. CASE Create
  <2>1. AbstractStore' = PM!EmptyMap
    BY <1>1 DEF Create, AbstractStore, PM!EmptyMap
  <2>2. job = NoJob /\ idxBad = "no"
    BY <1>1 DEF Create, Invariant, Consistent, ProcessState
  <2>3. AbstractPhase \in {"down", "void"} /\ AbstractPhase' = "up"
    BY <1>0, <1>1, <2>2 DEF Create, AbstractPhase
  <2>4. AbstractRewriting' = {}
    BY <1>0, <1>1, <2>2 DEF Create, AbstractRewriting
  <2> QED
    BY <1>1, <2>1, <2>3, <2>4 DEF Create, PM!Next, PM!Create
<1>2. CASE Open
  <2>1. job = NoJob
    BY <1>2 DEF Open, Invariant, Consistent, ProcessState
  <2>2. /\ AbstractStore' = AbstractStore /\ UNCHANGED <<saved, kept, sound>>
        /\ AbstractRewriting' = AbstractRewriting
        /\ idxBad = "no" /\ idxBad' = "no"
    BY <1>2 DEF Open, AbstractStore, AbstractRewriting, clientVars, fileVars,
                Invariant, Consistent, ProcessState
  <2>3. CASE sound
    <3>1. AbstractPhase = "down" /\ AbstractPhase' = "up"
      BY <1>0, <1>2, <2>1, <2>2, <2>3 DEF Open, AbstractPhase, clientVars
    <3> QED
      BY <2>2, <3>1 DEF PM!Next, PM!Open
  <2>4. CASE ~sound
    BY <2>2, <2>4, VoidStep
  <2> QED
    BY <2>3, <2>4
<1>3. CASE Crash
  BY <1>3, CrashRefines
<1>4. ASSUME NEW v, NEW n, BeginStoreNew(v, n) PROVE [PM!Next]_PM!abstractVars
  <2>1. AbstractRewriting = {} /\ AbstractRewriting' = {}
    BY <1>0, <1>4 DEF BeginStoreNew, Idle, AbstractRewriting
  <2> QED
    BY <1>0, <1>4, <2>1, JobStepRefines DEF BeginStoreNew, Idle, memoryVars, fileVars, clientVars
<1>14. CASE FlushFails
  BY <1>14, FlushFailsRefines
<1>13. ASSUME NEW p \in Page, NEW v, NEW n, BeginStoreOld(p, v, n)
       PROVE  [PM!Next]_PM!abstractVars
  BY <1>13, BeginStoreOldRefines
<1>5. CASE WritePage \/ WriteFails
  BY <1>5, WriteRefines
<1>6. CASE EndStore
  BY <1>6, EndStoreRefines
<1>7. ASSUME NEW p \in Page, Delete(p) PROVE [PM!Next]_PM!abstractVars
  <2>1. /\ p \in live /\ up /\ job = NoJob
        /\ live' = live \ {p} /\ kept' = kept \ {p}
        /\ UNCHANGED <<up, idxBad, dat, job, saved, sound>>
    BY <1>7 DEF Delete, Idle, fileVars
  <2>2. CASE sound
    <3>1. PM!Serving /\ AbstractPhase' = AbstractPhase
      BY <1>0, <2>1, <2>2, ServingPhase, SamePhase
    <3>2. AbstractRewriting = {} /\ AbstractRewriting' = {}
      BY <1>0, <2>1 DEF AbstractRewriting
    <3>3. PM!Free(p)
      BY <2>1, <3>1, <3>2 DEF PM!Free, PM!Held, AbstractStore
    <3> QED
      BY <3>3 DEF PM!Next
  <2>3. CASE ~sound
    BY <2>1, <2>3, VoidStep
  <2> QED
    BY <2>2, <2>3
<1>8. ASSUME NEW exit, BeginFlush(exit) PROVE [PM!Next]_PM!abstractVars
  <2>1. AbstractRewriting = {} /\ AbstractRewriting' = {}
    BY <1>0, <1>8 DEF BeginFlush, Idle, AbstractRewriting
  <2> QED
    BY <1>0, <1>8, <2>1, JobStepRefines DEF BeginFlush, Idle, memoryVars, fileVars, clientVars
<1>9. CASE FlushNext \/ FlushCount \/ FlushPage
  <2>1. /\ job.op = "flush" /\ UNCHANGED <<up, idxBad, dat, live, saved, kept, sound>>
        /\ job'.op = "flush" /\ job'.at # "next"
    <3>1. job.op = "flush" /\ UNCHANGED <<up, idxBad, dat, live, saved, kept, sound>>
      BY <1>9 DEF FlushNext, FlushCount, FlushPage, Flushing, memoryVars, clientVars
    <3>2. job \in FlushJob
      BY <3>1, JobKinds DEF Invariant
    <3> QED
      BY <1>9, <3>1, <3>2 DEF FlushNext, FlushCount, FlushPage, Flushing, FlushJob
  <2>2. up
    BY <2>1, JobKinds DEF Invariant, Consistent, ProcessState
  <2>3. AbstractRewriting = {} /\ AbstractRewriting' = {}
    BY <2>1 DEF AbstractRewriting
  <2> QED
    BY <2>1, <2>2, <2>3, JobStepRefines
<1>10. CASE EndFlush
  BY <1>10, EndFlushRefines
<1>11. ASSUME NEW c \in Clone, MakeClone(c) \/ CloseClone(c)
       PROVE  [PM!Next]_PM!abstractVars
  <2>1. UNCHANGED <<up, idxBad, dat, job, live, saved, kept, sound>>
    BY <1>11 DEF MakeClone, CloseClone, memoryVars, fileVars, clientVars
  <2>2. AbstractPhase' = AbstractPhase /\ AbstractRewriting' = AbstractRewriting
    BY <2>1 DEF AbstractPhase, AbstractRewriting
  <2> QED
    BY <2>1, <2>2, StutterStep
<1>12. CASE UNCHANGED vars
  <2>1. /\ AbstractPhase' = AbstractPhase /\ AbstractRewriting' = AbstractRewriting
        /\ UNCHANGED <<dat, live, saved, kept, sound>>
    BY <1>12 DEF vars, AbstractPhase, AbstractRewriting
  <2> QED
    BY <2>1, StutterStep
<1> QED
  BY <1>1, <1>2, <1>3, <1>4, <1>5, <1>6, <1>7, <1>8, <1>9, <1>10, <1>11, <1>12, <1>13, <1>14
     DEF Next

(* The disk storage manager implements the page map: ids handed out are    *)
(* new, only a store under an id changes its record, and what was flushed  *)
(* and left alone survives a crash.                                        *)
THEOREM Refinement == Spec => ImplementsPageMap
<1>1. Init => PM!Init
  BY DEF Init, PM!Init, PM!EmptyMap, AbstractStore, AbstractRewriting, AbstractPhase, NoJob
<1>2. Invariant /\ [Next]_vars => [PM!Next]_PM!abstractVars
  BY NextRefines
<1> QED
  BY <1>1, <1>2, Invariance, PTL DEF Spec, ImplementsPageMap, PM!Spec

=============================================================================

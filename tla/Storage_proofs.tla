--------------------------- MODULE Storage_proofs ---------------------------
(***************************************************************************)
(* Two parts that stand between a tree and its pages and share nothing.    *)
(*                                                                         *)
(* Buffer and page cache as storage managers, for every number of pages,   *)
(* every set of values and every capacity: types, agreement of the entries *)
(* with the pages below, and the refinement of IStorageManager. What       *)
(* carries the proof is agreement: an entry that is not dirty holds what   *)
(* the page below it holds. Then it makes no difference to a client which  *)
(* entry is dropped, whether it is read above or below, and when it is     *)
(* written; a new page is in no buffer, since a buffer knows only pages    *)
(* held.                                                                   *)
(*                                                                         *)
(* Which catalog a thread reads, for any number of stores and threads.     *)
(* That a query thread is right follows from what the name shared by the   *)
(* process is while threads run: nobody changes it but the threads         *)
(* themselves, to what it is. That the rows are right follows from what    *)
(* the catalog of a store can list: nothing or the store, as long as the   *)
(* store never met a process that used another.                            *)
(***************************************************************************)
EXTENDS LayeredStorage, QueryThreads, TLAPS, FiniteSetTheorems, SequenceTheorems,
        WellFoundedInduction

Data == Value \cup {Gone}
EntrySet == [data : Value, dirty : BOOLEAN]
HeldOf(pages) == {p \in DOMAIN pages : pages[p] # Gone}

-----------------------------------------------------------------------------
(* Lemmas about the operators of the model. *)

(* A function on 1 .. n is a sequence of length n. *)
LEMMA FunctionIsSeq ==
  ASSUME NEW S, NEW n \in Nat, NEW f \in [1 .. n -> S]
  PROVE  f \in Seq(S) /\ Len(f) = n
<1>1. f \in Seq(S)
  BY SeqDef
<1> QED
  BY <1>1, LenProperties

(* Taking one element out of a sequence leaves the others. *)
LEMMA RemoveAtRemoves ==
  ASSUME NEW S, NEW s \in Seq(S), NEW i \in 1 .. Len(s)
  PROVE  /\ RemoveAt(s, i) \in Seq(S)
         /\ Len(RemoveAt(s, i)) = Len(s) - 1
         /\ \A j \in 1 .. Len(s) - 1 : RemoveAt(s, i)[j] = IF j < i THEN s[j] ELSE s[j + 1]
<1> DEFINE a == SubSeq(s, 1, i - 1)
           b == SubSeq(s, i + 1, Len(s))
<1>1. Len(s) \in Nat /\ i \in Nat
  BY LenProperties
<1>2. /\ a \in Seq(S) /\ Len(a) = i - 1
      /\ \A j \in 1 .. i - 1 : a[j] = s[j]
  BY <1>1, SubSeqProperties
<1>3. /\ b \in Seq(S) /\ Len(b) = Len(s) - i
      /\ \A j \in 1 .. Len(s) - i : b[j] = s[i + j]
  BY <1>1, SubSeqProperties
<1> HIDE DEF a, b
<1>4. RemoveAt(s, i) = a \o b
  BY DEF RemoveAt, a, b
<1>5. /\ a \o b \in Seq(S)
      /\ Len(a \o b) = Len(a) + Len(b)
      /\ \A j \in 1 .. Len(a) + Len(b) :
           (a \o b)[j] = IF j <= Len(a) THEN a[j] ELSE b[j - Len(a)]
  BY <1>2, <1>3, ConcatProperties
<1>6. ASSUME NEW j \in 1 .. Len(s) - 1
      PROVE  (a \o b)[j] = IF j < i THEN s[j] ELSE s[j + 1]
  <2>1. j \in 1 .. Len(a) + Len(b)
    BY <1>1, <1>2, <1>3
  <2>2. (a \o b)[j] = IF j <= i - 1 THEN a[j] ELSE b[j - (i - 1)]
    BY <1>2, <1>5, <2>1
  <2>3. CASE j < i
    <3>1. j \in 1 .. i - 1
      BY <1>1, <2>3
    <3> QED
      BY <1>1, <1>2, <2>2, <2>3, <3>1
  <2>4. CASE ~ (j < i)
    <3>1. j - (i - 1) \in 1 .. Len(s) - i /\ i + (j - (i - 1)) = j + 1 /\ ~ (j <= i - 1)
      BY <1>1, <2>4
    <3>2. b[j - (i - 1)] = s[i + (j - (i - 1))]
      BY <1>3, <3>1
    <3> QED
      BY <2>2, <2>4, <3>1, <3>2
  <2> QED
    BY <2>3, <2>4
<1> QED
  BY <1>1, <1>2, <1>3, <1>4, <1>5, <1>6

(* Some element of a sequence of numbers is the least. *)
LEMMA LeastOfSeq ==
  ASSUME NEW s \in Seq(Nat), s # <<>>
  PROVE  \E i \in DOMAIN s : \A j \in DOMAIN s : s[i] <= s[j]
<1> DEFINE T == {s[i] : i \in DOMAIN s}
<1>1. DOMAIN s = 1 .. Len(s) /\ Len(s) \in Nat /\ Len(s) # 0
  BY LenProperties, EmptySeq
<1>2. T \subseteq Nat /\ T # {}
  <2>1. 1 \in DOMAIN s
    BY <1>1
  <2> QED
    BY <2>1, ElementOfSeq, <1>1
<1>3. PICK x \in T : \A y \in T : ~ (<<y, x>> \in OpToRel(<, Nat))
  <2> HIDE DEF T
  <2> QED
    BY <1>2, NatLessThanWellFounded, WFMin
<1>4. \A y \in T : ~ (y < x)
  <2> SUFFICES ASSUME NEW y \in T, y < x PROVE FALSE
    OBVIOUS
  <2>1. x \in Nat /\ y \in Nat
    BY <1>2
  <2> HIDE DEF T
  <2>2. <<y, x>> \in OpToRel(<, Nat)
    BY <2>1, Zenon DEF OpToRel
  <2> QED
    BY <1>3, <2>2
<1>5. PICK i \in DOMAIN s : x = s[i]
  OBVIOUS
<1>6. ASSUME NEW j \in DOMAIN s PROVE s[i] <= s[j]
  <2>1. s[j] \in T /\ s[i] \in Nat /\ s[j] \in Nat
    BY <1>1, ElementOfSeq
  <2>2. ~ (s[j] < s[i])
    <3> HIDE DEF T
    <3> QED
      BY <1>4, <1>5, <2>1
  <2> QED
    BY <2>1, <2>2
<1> QED
  BY <1>6
-----------------------------------------------------------------------------
(* Only a buffer has a flush. *)
FreedByBuffer == ~Buffered => freed = {}

(* The inductive invariant. A cache may hold pages that are gone, but none *)
(* that never was.                                                         *)
Inv ==
  /\ TypeOK
  /\ EntriesAgree
  /\ FreedByBuffer
  /\ DOMAIN entries \subseteq DOMAIN page

(* The page that a new record takes is not held, and it leaves the empty   *)
(* pages as they are but for itself.                                       *)
LEMMA EmptyIsRoom ==
  ASSUME Inv, empty # <<>>
  PROVE  Reused \in 1 .. Len(empty)
<1>1. DOMAIN page = 1 .. Len(page) /\ Len(page) \in Nat
  BY LenProperties DEF Inv, TypeOK
<1>2. empty \in Seq(DOMAIN page) /\ DOMAIN page \subseteq Nat
  BY <1>1 DEF Inv, TypeOK
<1>3. empty \in Seq(Nat)
  BY <1>2, SeqMonotonic
<1>4. DOMAIN empty = 1 .. Len(empty) /\ Len(empty) \in Nat /\ Len(empty) # 0
  BY <1>3, LenProperties, EmptySeq
<1>5. CASE Buffered
  BY <1>4, <1>5 DEF Reused
<1>6. CASE ~Buffered
  <2>1. \E i \in DOMAIN empty : \A j \in DOMAIN empty : empty[i] <= empty[j]
    BY <1>3, LeastOfSeq
  <2> QED
    BY <1>4, <1>6, <2>1 DEF Reused
<1> QED
  BY <1>5, <1>6

LEMMA NewPageIsFree ==
  ASSUME Inv, Room
  PROVE  /\ NewPage \in 1 .. MaxPages
         /\ NewPage \notin Held
         /\ empty = <<>> => NewPage = Len(page) + 1
         /\ empty # <<>> => NewPage \in DOMAIN page
<1>1. DOMAIN page = 1 .. Len(page) /\ Len(page) \in Nat /\ Len(page) <= MaxPages
  BY LenProperties DEF Inv, TypeOK
<1>2. CASE empty = <<>>
  BY <1>1, <1>2, LayerAssumption DEF NewPage, Room, Held
<1>3. CASE empty # <<>>
  <2>1. empty \in Seq(DOMAIN page) /\ Reused \in 1 .. Len(empty)
    BY <1>3, EmptyIsRoom DEF Inv, TypeOK
  <2>2. Reused \in DOMAIN empty /\ empty[Reused] \in DOMAIN page
    BY <2>1, LenProperties, ElementOfSeq
  <2>3. empty[Reused] \in ToSet(empty)
    BY <2>2 DEF ToSet
  <2>4. empty[Reused] \in DOMAIN page \ Held
    BY <2>3 DEF Inv, TypeOK
  <2> QED
    BY <1>1, <1>3, <2>4, LayerAssumption DEF NewPage
<1> QED
  BY <1>2, <1>3

LEMMA StillEmptyLess ==
  ASSUME Inv, Room
  PROVE  /\ StillEmpty \in Seq(DOMAIN page)
         /\ IsInjective(StillEmpty)
         /\ ToSet(StillEmpty) = (DOMAIN page \ Held) \ {NewPage}
<1>1. CASE empty = <<>>
  <2>1. StillEmpty = empty
    BY <1>1 DEF StillEmpty
  <2>2. ToSet(empty) = {}
    BY <1>1, EmptySeq DEF ToSet
  <2> QED
    BY <2>1, <2>2 DEF Inv, TypeOK
<1>2. CASE empty # <<>>
  <2> DEFINE n == Len(empty)
             r == RemoveAt(empty, Reused)
  <2>1. /\ empty \in Seq(DOMAIN page) /\ Reused \in 1 .. n
        /\ n \in Nat /\ DOMAIN empty = 1 .. n
    BY <1>2, EmptyIsRoom, LenProperties DEF Inv, TypeOK
  <2>2. /\ r \in Seq(DOMAIN page) /\ Len(r) = n - 1
        /\ \A j \in 1 .. n - 1 : r[j] = IF j < Reused THEN empty[j] ELSE empty[j + 1]
    BY <2>1, RemoveAtRemoves
  <2>3. DOMAIN r = 1 .. n - 1
    BY <2>2, LenProperties
  <2>4. StillEmpty = r /\ NewPage = empty[Reused]
    BY <1>2 DEF StillEmpty, NewPage
  <2>5. \A i, j \in 1 .. n : empty[i] = empty[j] => i = j
    BY <2>1 DEF Inv, TypeOK, IsInjective
  <2> HIDE DEF n, r
  <2>6. IsInjective(r)
    <3> SUFFICES ASSUME NEW i \in 1 .. n - 1, NEW j \in 1 .. n - 1, r[i] = r[j] PROVE i = j
      BY <2>3 DEF IsInjective
    <3> DEFINE at(k) == IF k < Reused THEN k ELSE k + 1
    <3>1. at(i) \in 1 .. n /\ at(j) \in 1 .. n
      BY <2>1
    <3>2. r[i] = empty[at(i)] /\ r[j] = empty[at(j)]
      BY <2>2
    <3>3. at(i) = at(j)
      <4> HIDE DEF at
      <4> QED
        BY <2>5, <3>1, <3>2
    <3> QED
      BY <2>1, <3>3
  <2>7. ToSet(r) = ToSet(empty) \ {empty[Reused]}
    <3>1. ASSUME NEW x \in ToSet(r) PROVE x \in ToSet(empty) \ {empty[Reused]}
      <4>1. PICK i \in 1 .. n - 1 : x = r[i]
        BY <2>3, <3>1 DEF ToSet
      <4>2. PICK k \in 1 .. n : k # Reused /\ x = empty[k]
        <5>1. CASE i < Reused
          BY <2>1, <2>2, <4>1, <5>1
        <5>2. CASE ~ (i < Reused)
          <6>1. i + 1 \in 1 .. n /\ i + 1 # Reused
            BY <2>1, <5>2
          <6> QED
            BY <2>1, <2>2, <4>1, <5>2, <6>1
        <5> QED
          BY <5>1, <5>2
      <4> QED
        BY <2>1, <2>5, <4>2 DEF ToSet
    <3>2. ASSUME NEW x \in ToSet(empty) \ {empty[Reused]} PROVE x \in ToSet(r)
      <4>1. PICK k \in 1 .. n : x = empty[k] /\ k # Reused
        BY <2>1, <3>2 DEF ToSet
      <4>2. CASE k < Reused
        <5>1. k \in 1 .. n - 1 /\ r[k] = x
          BY <2>1, <2>2, <4>1, <4>2
        <5> QED
          BY <2>3, <5>1 DEF ToSet
      <4>3. CASE ~ (k < Reused)
        <5>1. k - 1 \in 1 .. n - 1 /\ ~ (k - 1 < Reused) /\ (k - 1) + 1 = k
          BY <2>1, <4>1, <4>3
        <5>2. r[k - 1] = empty[(k - 1) + 1]
          BY <2>2, <5>1
        <5> QED
          BY <2>3, <4>1, <5>1, <5>2 DEF ToSet
      <4> QED
        BY <4>2, <4>3
    <3> QED
      BY <3>1, <3>2
  <2> QED
    BY <2>2, <2>4, <2>6, <2>7 DEF Inv, TypeOK
<1> QED
  BY <1>1, <1>2

(* Storing below changes the page and makes it one if it was none. *)
LEMMA StoredStores ==
  ASSUME Inv, NEW v \in Value, NEW p,
         p \in DOMAIN page \/ p = Len(page) + 1
  PROVE  /\ Stored(p, v) \in Seq(Data)
         /\ Len(page) \in Nat /\ Len(Stored(p, v)) = IF p \in DOMAIN page THEN Len(page) ELSE p
         /\ DOMAIN Stored(p, v) = DOMAIN page \cup {p}
         /\ \A q \in DOMAIN page \cup {p} : Stored(p, v)[q] = IF q = p THEN v ELSE page[q]
<1>1. page \in Seq(Data) /\ v \in Data
  BY DEF Inv, TypeOK, Data
<1>2. DOMAIN page = 1 .. Len(page) /\ Len(page) \in Nat
  BY <1>1, LenProperties
<1>3. CASE p = Len(page) + 1
  <2>1. p > Len(page) /\ p \notin DOMAIN page
    BY <1>2, <1>3
  <2>0. Stored(p, v) = Append(page, v)
    BY <2>1, Zenon DEF Stored
  <2>2. /\ Append(page, v) \in Seq(Data)
        /\ Len(Append(page, v)) = p
        /\ \A q \in 1 .. Len(page) : Append(page, v)[q] = page[q]
        /\ Append(page, v)[p] = v
    BY <1>1, <1>3, AppendProperties
  <2>3. DOMAIN Append(page, v) = 1 .. p /\ 1 .. p = DOMAIN page \cup {p}
    BY <1>2, <1>3, <2>2, LenProperties
  <2> QED
    BY <1>2, <2>0, <2>1, <2>2, <2>3
<1>4. CASE p \in DOMAIN page
  <2>0. ~ (p > Len(page))
    BY <1>2, <1>4
  <2>1. Stored(p, v) = [page EXCEPT ![p] = v]
    BY <2>0, Zenon DEF Stored
  <2>2. [page EXCEPT ![p] = v] \in Seq(Data) /\ Len([page EXCEPT ![p] = v]) = Len(page)
    BY <1>1, <1>2, <1>4, ExceptSeq
  <2> QED
    BY <1>2, <1>4, <2>1, <2>2
<1> QED
  BY <1>3, <1>4

-----------------------------------------------------------------------------
(* What addEntry does: an entry may go, and is written if it is dirty.     *)
LEMMA AddEntryAdds ==
  ASSUME Inv, NEW p, p \notin DOMAIN entries, NEW e, NEW below \in Seq(Data),
         DOMAIN entries \subseteq DOMAIN below, AddEntry(p, e, below)
  PROVE  \E d \in SUBSET DOMAIN entries :
           /\ d \cap freed = {}
           /\ DOMAIN entries' = (DOMAIN entries \ d) \cup {p}
           /\ entries'[p] = e
           /\ \A q \in DOMAIN entries \ d : entries'[q] = entries[q]
           /\ page' \in Seq(Data) /\ Len(page') = Len(below) /\ DOMAIN page' = DOMAIN below
           /\ \A q \in DOMAIN below :
                page'[q] = IF q \in d /\ entries[q].dirty THEN entries[q].data ELSE below[q]
           /\ layer.capacity > 0 => Cardinality(DOMAIN entries') <= layer.capacity
<1>1. PICK d \in Dropped :
        /\ d \cap freed = {}
        /\ entries' = With(Without(entries, d), p, e)
        /\ page' = Written(d, below)
  BY DEF AddEntry
<1>2. d \in SUBSET DOMAIN entries
  BY DEF Dropped
<1>3. /\ DOMAIN entries' = (DOMAIN entries \ d) \cup {p}
      /\ entries'[p] = e
      /\ \A q \in DOMAIN entries \ d : entries'[q] = entries[q]
  BY <1>1 DEF With, Without
<1>4. /\ page' \in Seq(Data) /\ Len(page') = Len(below) /\ DOMAIN page' = DOMAIN below
      /\ \A q \in DOMAIN below :
           page'[q] = IF q \in d /\ entries[q].dirty THEN entries[q].data ELSE below[q]
  <2>1. DOMAIN below = 1 .. Len(below) /\ Len(below) \in Nat /\ \A q \in DOMAIN below : below[q] \in Data
    BY LenProperties, ElementOfSeq
  <2>2. \A q \in DOMAIN entries : entries[q].data \in Data
    BY DEF Inv, TypeOK, Data
  <2>3. \A q \in DOMAIN below :
          page'[q] = IF q \in d /\ entries[q].dirty THEN entries[q].data ELSE below[q]
    BY <1>1, <1>2 DEF Written, Dirty
  <2>4. page' \in [1 .. Len(below) -> Data]
    BY <1>1, <1>2, <2>1, <2>2 DEF Written
  <2> QED
    BY <2>1, <2>3, <2>4, FunctionIsSeq
<1>5. layer.capacity > 0 => Cardinality(DOMAIN entries') <= layer.capacity
  <2> SUFFICES ASSUME layer.capacity > 0 PROVE Cardinality(DOMAIN entries') <= layer.capacity
    OBVIOUS
  <2>1. layer.capacity \in Nat /\ Size <= layer.capacity
    BY LayerAssumption DEF Inv, TypeOK, EntriesAgree
  <2>2. IsFiniteSet(DOMAIN entries) /\ Size \in Nat
    <3>1. DOMAIN page = 1 .. Len(page) /\ Len(page) \in Nat
      BY LenProperties DEF Inv, TypeOK
    <3>2. IsFiniteSet(1 .. Len(page))
      BY <3>1, FS_Interval
    <3> QED
      BY <3>1, <3>2, FS_Subset, FS_CardinalityType DEF Inv, Size
  <2>3. CASE d = {}
    <3>1. Size < layer.capacity
      <4>1. ~ (Size = layer.capacity /\ Size > 0)
        BY <2>3 DEF Dropped
      <4> QED
        BY <2>1, <2>2, <4>1
    <3>2. DOMAIN entries' = DOMAIN entries \cup {p}
      BY <1>3, <2>3
    <3>3. Cardinality(DOMAIN entries \cup {p}) = Size + 1
      BY <2>2, FS_AddElement DEF Size
    <3> QED
      BY <2>1, <2>2, <3>1, <3>2, <3>3
  <2>4. CASE d # {}
    <3>1. PICK q \in DOMAIN entries : d = {q}
      BY <2>4 DEF Dropped
    <3>2. IsFiniteSet(DOMAIN entries \ {q}) /\ Cardinality(DOMAIN entries \ {q}) = Size - 1
      BY <2>2, <3>1, FS_RemoveElement DEF Size
    <3>3. Cardinality((DOMAIN entries \ {q}) \cup {p}) = Size - 1 + 1
      BY <3>2, FS_AddElement
    <3> QED
      BY <1>3, <2>1, <2>2, <3>1, <3>3
  <2> QED
    BY <2>3, <2>4
<1> QED
  BY <1>2, <1>3, <1>4, <1>5, <1>1

(* An entry added to a layer that agrees with the pages below leaves it in *)
(* agreement, and nothing else the client sees changes.                    *)
Agrees(below) ==
  \A q \in DOMAIN entries : below[q] # Gone => entries[q].dirty \/ entries[q].data = below[q]

LEMMA AddEntryKeeps ==
  ASSUME Inv, NEW p, p \notin DOMAIN entries, NEW e \in EntrySet, NEW below \in Seq(Data),
         DOMAIN entries \cup {p} \subseteq DOMAIN below, below[p] # Gone,
         Buffered => DOMAIN entries \subseteq HeldOf(below),
         Agrees(below), e.dirty \/ e.data = below[p],
         e.dirty => Buffered /\ ~layer.writeThrough,
         Buffered \/ on, UNCHANGED <<layer, freed, on>>,
         AddEntry(p, e, below)
  PROVE  /\ page' \in Seq(Data) /\ Len(page') = Len(below) /\ DOMAIN page' = DOMAIN below
         /\ Held' = HeldOf(below)
         /\ EntriesAgree' /\ DOMAIN entries' \subseteq DOMAIN page'
         /\ \A q \in DOMAIN entries' : entries'[q] \in EntrySet
         /\ freed' \subseteq DOMAIN entries'
         /\ Kept' = [q \in HeldOf(below) |->
                       IF q = p THEN e.data
                       ELSE IF q \in DOMAIN entries \ freed THEN entries[q].data
                       ELSE below[q]]
<1>1. PICK d \in SUBSET DOMAIN entries :
           /\ d \cap freed = {}
           /\ DOMAIN entries' = (DOMAIN entries \ d) \cup {p}
           /\ entries'[p] = e
           /\ \A q \in DOMAIN entries \ d : entries'[q] = entries[q]
           /\ page' \in Seq(Data) /\ Len(page') = Len(below) /\ DOMAIN page' = DOMAIN below
           /\ \A q \in DOMAIN below :
                page'[q] = IF q \in d /\ entries[q].dirty THEN entries[q].data ELSE below[q]
           /\ layer.capacity > 0 => Cardinality(DOMAIN entries') <= layer.capacity
  BY AddEntryAdds
<1>2. \A q \in DOMAIN entries :
        /\ entries[q] \in EntrySet /\ entries[q].data \in Value
        /\ entries[q].dirty => Buffered /\ ~layer.writeThrough
  BY DEF Inv, TypeOK, EntriesAgree, Dirty, EntrySet
<1>3. Held' = HeldOf(below)
  <2>1. \A q \in DOMAIN below : page'[q] # Gone <=> below[q] # Gone
    BY <1>1, <1>2, LayerAssumption DEF HeldOf
  <2> QED
    BY <1>1, <2>1 DEF Held, HeldOf
<1>4. EntriesAgree'
  <2>1. (layer.capacity > 0 => Size <= layer.capacity)'
    BY <1>1 DEF Size
  <2>2. (Dirty(entries) # {} => Buffered /\ ~layer.writeThrough)'
    BY <1>1, <1>2 DEF Dirty, Buffered
  <2>3. (Buffered => DOMAIN entries \subseteq Held)'
    BY <1>1, <1>3 DEF Buffered, HeldOf
  <2>4. (\A q \in DOMAIN entries \cap Held : entries[q].dirty \/ entries[q].data = page[q])'
    <3> SUFFICES ASSUME NEW q \in DOMAIN entries', q \in HeldOf(below)
                 PROVE entries'[q].dirty \/ entries'[q].data = page'[q]
      BY <1>3
    <3>1. CASE q = p
      BY <1>1, <3>1
    <3>2. CASE q # p
      BY <1>1, <3>2 DEF Agrees, HeldOf
    <3> QED
      BY <3>1, <3>2
  <2> QED
    BY <2>1, <2>2, <2>3, <2>4 DEF EntriesAgree
<1>5. /\ DOMAIN entries' \subseteq DOMAIN page'
      /\ \A q \in DOMAIN entries' : entries'[q] \in EntrySet
      /\ freed' \subseteq DOMAIN entries'
  BY <1>1, <1>2 DEF Inv, TypeOK
<1>6. ASSUME NEW q \in HeldOf(below)
      PROVE  Through(q)' = IF q = p THEN e.data
                           ELSE IF q \in DOMAIN entries \ freed THEN entries[q].data
                           ELSE below[q]
  <2>0. Through(q)' = IF q \in DOMAIN entries' \ freed THEN entries'[q].data ELSE page'[q]
    BY DEF Through, Buffered
  <2>1. p \notin freed
    BY DEF Inv, TypeOK
  <2>2. CASE q = p
    BY <1>1, <2>0, <2>1, <2>2
  <2>3. CASE q # p /\ q \in d
    BY <1>1, <2>0, <2>3 DEF Agrees, HeldOf
  <2>4. CASE q # p /\ q \notin d
    BY <1>1, <2>0, <2>4 DEF HeldOf
  <2> QED
    BY <2>2, <2>3, <2>4
<1>7. Kept' = [q \in HeldOf(below) |->
                 IF q = p THEN e.data
                 ELSE IF q \in DOMAIN entries \ freed THEN entries[q].data
                 ELSE below[q]]
  BY <1>3, <1>6 DEF Kept
<1> QED
  BY <1>1, <1>3, <1>4, <1>5, <1>7

(* What the client sees before. *)
LEMMA KeptIs ==
  Kept = [q \in Held |-> IF q \in DOMAIN entries \ freed /\ (Buffered \/ on)
                         THEN entries[q].data ELSE page[q]]
BY DEF Kept, Through

(* A step that leaves pages and entries alone. *)
LEMMA QuietStep ==
  ASSUME Inv, UNCHANGED <<layer, base, entries, freed, on>>, closed' \in BOOLEAN
  PROVE  Inv' /\ Kept' = Kept /\ Misused' = Misused
<1>1. UNCHANGED <<layer, page, empty, entries, freed, on>>
  BY DEF base
<1>2. Held' = Held
  BY <1>1 DEF Held
<1>3. TypeOK'
  BY <1>1, <1>2 DEF Inv, TypeOK
<1>4. EntriesAgree'
  BY <1>1, <1>2 DEF Inv, EntriesAgree, Size, Dirty, Buffered
<1>5. Kept' = Kept
  BY <1>1, <1>2 DEF Kept, Through, Buffered
<1>6. FreedByBuffer'
  BY <1>1 DEF Inv, FreedByBuffer, Buffered
<1> QED
  BY <1>1, <1>3, <1>4, <1>5, <1>6 DEF Inv, Misused

-----------------------------------------------------------------------------
(* The steps of a buffer. *)
LEMMA BufferStoreNewStep ==
  ASSUME Inv, NEW v \in Value, BufferStoreNew(v)
  PROVE  Inv' /\ SM!Next
<1> DEFINE n == NewPage
           e == Entry(v, FALSE)
           below == Stored(n, v)
<1>1. Buffered /\ Room /\ AddEntry(n, e, below) /\ UNCHANGED <<layer, freed, on, closed>>
      /\ empty' = StillEmpty /\ answer' = [call |-> "stored", page |-> n] /\ Open
  BY DEF BufferStoreNew
<1>2. n \in 1 .. MaxPages /\ n \notin Held /\ (n = Len(page) + 1 \/ n \in DOMAIN page)
  BY <1>1, NewPageIsFree
<1>3. /\ below \in Seq(Data) /\ DOMAIN below = DOMAIN page \cup {n}
      /\ Len(page) \in Nat /\ Len(below) = IF n \in DOMAIN page THEN Len(page) ELSE n
      /\ \A q \in DOMAIN page \cup {n} : below[q] = IF q = n THEN v ELSE page[q]
  BY <1>2, StoredStores
<1>4. e \in EntrySet /\ e.dirty = FALSE /\ e.data = v /\ v # Gone
  BY LayerAssumption DEF Entry, EntrySet
<1>5. n \notin DOMAIN entries /\ DOMAIN entries \subseteq Held
  BY <1>1, <1>2 DEF Inv, EntriesAgree
<1>6. StillEmpty \in Seq(DOMAIN page) /\ IsInjective(StillEmpty)
      /\ ToSet(StillEmpty) = (DOMAIN page \ Held) \ {n}
  BY <1>1, StillEmptyLess
<1> HIDE DEF n, e, below
<1>7. HeldOf(below) = Held \cup {n}
  BY <1>3, <1>4 DEF HeldOf, Held
<1>8. Agrees(below)
  BY <1>3, <1>5 DEF Agrees, Inv, EntriesAgree, Held
<1>9. /\ page' \in Seq(Data) /\ Len(page') = Len(below) /\ DOMAIN page' = DOMAIN below
      /\ Held' = HeldOf(below)
      /\ EntriesAgree' /\ DOMAIN entries' \subseteq DOMAIN page'
      /\ \A q \in DOMAIN entries' : entries'[q] \in EntrySet
      /\ freed' \subseteq DOMAIN entries'
      /\ Kept' = [q \in HeldOf(below) |->
                    IF q = n THEN e.data
                    ELSE IF q \in DOMAIN entries \ freed THEN entries[q].data
                    ELSE below[q]]
  BY <1>1, <1>3, <1>4, <1>5, <1>7, <1>8, AddEntryKeeps DEF HeldOf, Held
<1>10. TypeOK'
  <2>1. Len(page') <= MaxPages
    BY <1>2, <1>3, <1>9 DEF Inv, TypeOK
  <2>2. empty' \in Seq(DOMAIN page') /\ IsInjective(empty)' /\ ToSet(empty)' = DOMAIN page' \ Held'
    <3>1. empty' \in Seq(DOMAIN page')
      BY <1>1, <1>3, <1>6, <1>9, SeqMonotonic
    <3>2. IsInjective(empty') /\ ToSet(empty') = DOMAIN page' \ Held'
      BY <1>1, <1>3, <1>6, <1>7, <1>9
    <3> QED
      BY <3>1, <3>2 DEF IsInjective, ToSet
  <2>3. (on \in BOOLEAN)' /\ (closed \in BOOLEAN)' /\ (layer \in Layers)'
    BY <1>1 DEF Inv, TypeOK
  <2> QED
    BY <1>9, <2>1, <2>2, <2>3 DEF TypeOK, EntrySet, Data
<1>11. SM!StoreNew(n, v)
  <2>1. \A q \in Held : below[q] = page[q]
    BY <1>2, <1>3 DEF Held
  <2>2. Kept' = [q \in DOMAIN Kept \cup {n} |-> IF q = n THEN v ELSE Kept[q]]
    BY <1>1, <1>4, <1>7, <1>9, <2>1, KeptIs
  <2>3. Misused' = Misused
    BY <1>1 DEF Misused
  <2> QED
    BY <1>1, <1>2, <2>2, <2>3, KeptIs DEF SM!StoreNew, SM!Working, Open
<1> QED
  BY <1>1, <1>2, <1>9, <1>10, <1>11 DEF Inv, FreedByBuffer, Buffered, SM!Next

LEMMA BufferStoreStep ==
  ASSUME Inv, NEW p, NEW v \in Value, BufferStore(p, v)
  PROVE  Inv' /\ SM!Next
<1> DEFINE below == IF layer.writeThrough THEN Stored(p, v) ELSE page
           e == Entry(v, ~layer.writeThrough)
<1>1. /\ Buffered /\ Open /\ p \in Held \ freed
      /\ answer' = [call |-> "stored", page |-> p]
      /\ UNCHANGED <<layer, empty, freed, on, closed>>
  BY DEF BufferStore
<1>2. DOMAIN page = 1 .. Len(page) /\ Len(page) \in Nat /\ Len(page) <= MaxPages
      /\ page \in Seq(Data) /\ p \in DOMAIN page
  BY <1>1, LenProperties DEF Inv, TypeOK, Data, Held
<1>3. p \in 1 .. MaxPages
  BY <1>2, LayerAssumption
<1>4. /\ below \in Seq(Data) /\ DOMAIN below = DOMAIN page /\ Len(below) = Len(page)
      /\ \A q \in DOMAIN page : q # p => below[q] = page[q]
      /\ below[p] = IF layer.writeThrough THEN v ELSE page[p]
  <2>1. CASE layer.writeThrough
    <3>1. below = Stored(p, v)
      BY <2>1
    <3>2. /\ Stored(p, v) \in Seq(Data) /\ DOMAIN Stored(p, v) = DOMAIN page
          /\ Len(Stored(p, v)) = Len(page)
          /\ \A q \in DOMAIN page : Stored(p, v)[q] = IF q = p THEN v ELSE page[q]
      <4>1. /\ Stored(p, v) \in Seq(Data)
            /\ Len(Stored(p, v)) = IF p \in DOMAIN page THEN Len(page) ELSE p
            /\ DOMAIN Stored(p, v) = DOMAIN page \cup {p}
            /\ \A q \in DOMAIN page \cup {p} : Stored(p, v)[q] = IF q = p THEN v ELSE page[q]
        BY <1>2, StoredStores
      <4>2. DOMAIN page \cup {p} = DOMAIN page
        BY <1>2
      <4> QED
        BY <1>2, <4>1, <4>2
    <3> HIDE DEF below
    <3> QED
      BY <1>2, <2>1, <3>1, <3>2
  <2>2. CASE ~layer.writeThrough
    BY <1>2, <2>2
  <2> QED
    BY <2>1, <2>2
<1>5. layer.writeThrough \in BOOLEAN
  BY LayerAssumption DEF Inv, TypeOK
<1>6. e \in EntrySet /\ e.data = v /\ v # Gone /\ (e.dirty <=> ~layer.writeThrough)
  BY <1>5, LayerAssumption DEF Entry, EntrySet
<1>7. IF p \in DOMAIN entries
      THEN entries' = [entries EXCEPT ![p] = e] /\ page' = below
      ELSE AddEntry(p, e, below)
  BY DEF BufferStore
<1> HIDE DEF below, e
<1>8. HeldOf(below) = Held
  BY <1>1, <1>4, <1>6 DEF HeldOf, Held
<1>9. \A q \in DOMAIN entries :
        /\ q \in Held /\ entries[q] \in EntrySet
        /\ entries[q].dirty \/ entries[q].data = page[q]
        /\ entries[q].dirty => ~layer.writeThrough
  BY <1>1 DEF Inv, TypeOK, EntriesAgree, EntrySet, Dirty
<1>10. /\ page' \in Seq(Data) /\ Len(page') = Len(below) /\ DOMAIN page' = DOMAIN below
       /\ Held' = Held
       /\ EntriesAgree' /\ DOMAIN entries' \subseteq DOMAIN page'
       /\ \A q \in DOMAIN entries' : entries'[q] \in EntrySet
       /\ freed' \subseteq DOMAIN entries'
       /\ Kept' = [q \in Held |-> IF q = p THEN v
                                  ELSE IF q \in DOMAIN entries \ freed THEN entries[q].data
                                  ELSE page[q]]
  <2>1. CASE p \in DOMAIN entries
    <3>1. /\ page' = below /\ DOMAIN entries' = DOMAIN entries
          /\ entries'[p] = e /\ \A q \in DOMAIN entries : q # p => entries'[q] = entries[q]
      BY <1>7, <2>1
    <3>2. Held' = Held
      BY <1>8, <3>1 DEF Held, HeldOf
    <3>3. /\ \A q \in DOMAIN entries : entries'[q] \in EntrySet
          /\ \A q \in DOMAIN entries : entries'[q].dirty \/ entries'[q].data = page'[q]
          /\ \A q \in DOMAIN entries : entries'[q].dirty => ~layer.writeThrough
      BY <1>4, <1>6, <1>9, <3>1 DEF Held
    <3>4. (layer.capacity > 0 => Size <= layer.capacity)'
      BY <1>1, <3>1 DEF Inv, EntriesAgree, Size
    <3>5. EntriesAgree'
      BY <1>1, <1>9, <3>1, <3>2, <3>3, <3>4 DEF EntriesAgree, Dirty, Buffered
    <3>6. Kept' = [q \in Held |-> IF q = p THEN v
                                  ELSE IF q \in DOMAIN entries \ freed THEN entries[q].data
                                  ELSE page[q]]
      <4>1. Kept' = [q \in Held |-> IF q \in DOMAIN entries \ freed
                                    THEN entries'[q].data ELSE below[q]]
        BY <1>1, <3>1, <3>2 DEF Kept, Through, Buffered
      <4> QED
        BY <1>1, <1>4, <1>6, <2>1, <3>1, <4>1 DEF Held
    <3> QED
      BY <1>1, <1>4, <1>9, <3>1, <3>2, <3>3, <3>5, <3>6 DEF Inv, TypeOK, Held
  <2>2. CASE p \notin DOMAIN entries
    <3>1. Agrees(below) /\ below[p] # Gone /\ (e.dirty \/ e.data = below[p])
      BY <1>1, <1>4, <1>6, <1>9, <2>2 DEF Agrees, Held
    <3>2. DOMAIN entries \cup {p} \subseteq DOMAIN below /\ (Buffered => DOMAIN entries \subseteq HeldOf(below))
      BY <1>2, <1>4, <1>8, <1>9 DEF Held
    <3>3. /\ page' \in Seq(Data) /\ Len(page') = Len(below) /\ DOMAIN page' = DOMAIN below
          /\ Held' = HeldOf(below)
          /\ EntriesAgree' /\ DOMAIN entries' \subseteq DOMAIN page'
          /\ \A q \in DOMAIN entries' : entries'[q] \in EntrySet
          /\ freed' \subseteq DOMAIN entries'
          /\ Kept' = [q \in HeldOf(below) |->
                        IF q = p THEN e.data
                        ELSE IF q \in DOMAIN entries \ freed THEN entries[q].data
                        ELSE below[q]]
      BY <1>1, <1>4, <1>6, <1>7, <2>2, <3>1, <3>2, AddEntryKeeps
    <3>4. \A q \in Held : q # p => below[q] = page[q]
      BY <1>4 DEF Held
    <3> QED
      BY <1>6, <1>8, <3>3, <3>4
  <2> QED
    BY <2>1, <2>2
<1>11. TypeOK'
  BY <1>1, <1>2, <1>4, <1>10 DEF Inv, TypeOK, EntrySet, Data
<1>12. SM!Overwrite(p, v)
  <2>1. DOMAIN Kept = Held /\ Kept' = [Kept EXCEPT ![p] = v] /\ Misused' = Misused
    BY <1>1, <1>10, KeptIs DEF Misused
  <2> QED
    BY <1>1, <2>1 DEF SM!Overwrite, SM!Working, Open
<1> QED
  BY <1>1, <1>3, <1>10, <1>11, <1>12 DEF Inv, FreedByBuffer, Buffered, SM!Next

LEMMA BufferHitStep ==
  ASSUME Inv, NEW p, BufferHit(p)
  PROVE  Inv' /\ SM!Next
<1>1. /\ Open /\ Buffered /\ p \in DOMAIN entries \ freed
      /\ answer' = [call |-> "loaded", page |-> p, value |-> entries[p].data]
      /\ UNCHANGED <<layer, base, entries, freed, on, closed>>
  BY DEF BufferHit
<1>2. p \in Held /\ p \in 1 .. MaxPages
  <2>1. DOMAIN page = 1 .. Len(page) /\ Len(page) \in Nat /\ Len(page) <= MaxPages
    BY LenProperties DEF Inv, TypeOK
  <2> QED
    BY <1>1, <2>1, LayerAssumption DEF Inv, EntriesAgree
<1>3. Inv' /\ Kept' = Kept /\ Misused' = Misused
  BY <1>1, QuietStep DEF Inv, TypeOK
<1>4. SM!Load(p)
  BY <1>1, <1>2, <1>3, KeptIs DEF SM!Load, SM!Working, Open
<1> QED
  BY <1>2, <1>3, <1>4 DEF SM!Next

LEMMA BufferInvalidStep ==
  ASSUME Inv, NEW p, BufferInvalid(p)
  PROVE  Inv' /\ SM!Next
<1>1. Inv' /\ Kept' = Kept /\ Misused' = Misused
  BY QuietStep DEF BufferInvalid, Inv, TypeOK
<1>2. SM!Invalid(p)
  BY <1>1, KeptIs DEF BufferInvalid, SM!Invalid, SM!Working, Open
<1> QED
  BY <1>1, <1>2 DEF BufferInvalid, SM!Next

LEMMA UndefinedStep ==
  ASSUME Inv, UseAfterFlush \/ \E p : CacheOfNothing(p)
  PROVE  Inv' /\ SM!Next
<1>1. Inv' /\ Kept' = Kept /\ Misused' = Misused
  BY QuietStep DEF UseAfterFlush, CacheOfNothing, Inv, TypeOK
<1>2. SM!Break
  BY <1>1 DEF UseAfterFlush, CacheOfNothing, SM!Break, Misused
<1> QED
  BY <1>1, <1>2 DEF SM!Next

LEMMA BufferMissStep ==
  ASSUME Inv, NEW p, BufferMiss(p)
  PROVE  Inv' /\ SM!Next
<1> DEFINE e == Entry(page[p], FALSE)
<1>1. /\ Open /\ Buffered /\ p \in Held \ DOMAIN entries
      /\ AddEntry(p, e, page)
      /\ answer' = [call |-> "loaded", page |-> p, value |-> page[p]]
      /\ UNCHANGED <<layer, empty, freed, on, closed>>
  BY DEF BufferMiss
<1>2. DOMAIN page = 1 .. Len(page) /\ Len(page) \in Nat /\ Len(page) <= MaxPages
      /\ page \in Seq(Data) /\ p \in DOMAIN page /\ page[p] # Gone
  BY <1>1, LenProperties DEF Inv, TypeOK, Data, Held
<1>3. p \in 1 .. MaxPages /\ page[p] \in Value
  BY <1>2, ElementOfSeq, LayerAssumption DEF Data
<1>4. e \in EntrySet /\ e.dirty = FALSE /\ e.data = page[p]
  BY <1>3 DEF Entry, EntrySet
<1> HIDE DEF e
<1>5. HeldOf(page) = Held /\ DOMAIN entries \subseteq Held /\ DOMAIN entries \cup {p} \subseteq DOMAIN page
  BY <1>1 DEF HeldOf, Held, Inv, EntriesAgree
<1>6. Agrees(page)
  BY DEF Agrees, Inv, EntriesAgree, Held
<1>7. /\ page' \in Seq(Data) /\ Len(page') = Len(page) /\ DOMAIN page' = DOMAIN page
      /\ Held' = HeldOf(page)
      /\ EntriesAgree' /\ DOMAIN entries' \subseteq DOMAIN page'
      /\ \A q \in DOMAIN entries' : entries'[q] \in EntrySet
      /\ freed' \subseteq DOMAIN entries'
      /\ Kept' = [q \in HeldOf(page) |->
                    IF q = p THEN e.data
                    ELSE IF q \in DOMAIN entries \ freed THEN entries[q].data
                    ELSE page[q]]
  BY <1>1, <1>2, <1>4, <1>5, <1>6, AddEntryKeeps
<1>8. TypeOK'
  BY <1>1, <1>2, <1>5, <1>7 DEF Inv, TypeOK, EntrySet, Data
<1>9. Kept' = Kept /\ Misused' = Misused
  BY <1>1, <1>4, <1>5, <1>7, KeptIs DEF Misused
<1>10. SM!Load(p)
  BY <1>1, <1>9, KeptIs DEF SM!Load, SM!Working, Open
<1> QED
  BY <1>1, <1>3, <1>7, <1>8, <1>10 DEF Inv, FreedByBuffer, Buffered, SM!Next

(* A page taken from the held ones becomes the last of the empty ones. *)
LEMMA DeletedIsEmpty ==
  ASSUME Inv, NEW p \in Held, page' = [page EXCEPT ![p] = Gone], empty' = Append(empty, p)
  PROVE  /\ page' \in Seq(Data) /\ Len(page') = Len(page) /\ DOMAIN page' = DOMAIN page
         /\ Held' = Held \ {p}
         /\ \A q \in DOMAIN page : q # p => page'[q] = page[q]
         /\ empty' \in Seq(DOMAIN page')
         /\ IsInjective(empty') /\ ToSet(empty') = DOMAIN page' \ Held'
<1>1. /\ page \in Seq(Data) /\ p \in DOMAIN page /\ Gone \in Data
      /\ DOMAIN page = 1 .. Len(page) /\ Len(page) \in Nat
  BY LenProperties DEF Inv, TypeOK, Data, Held
<1>2. page' \in Seq(Data) /\ Len(page') = Len(page)
  BY <1>1, ExceptSeq
<1>3. DOMAIN page' = DOMAIN page /\ page'[p] = Gone /\ \A q \in DOMAIN page : q # p => page'[q] = page[q]
  BY <1>1
<1>4. Held' = Held \ {p}
  BY <1>3 DEF Held
<1> DEFINE n == Len(empty)
<1>5. /\ empty \in Seq(DOMAIN page) /\ n \in Nat /\ DOMAIN empty = 1 .. n
      /\ \A i, j \in 1 .. n : empty[i] = empty[j] => i = j
      /\ ToSet(empty) = DOMAIN page \ Held
  BY LenProperties DEF Inv, TypeOK, IsInjective
<1>6. /\ empty' \in Seq(DOMAIN page) /\ Len(empty') = n + 1
      /\ \A i \in 1 .. n : empty'[i] = empty[i]
      /\ empty'[n + 1] = p
  BY <1>1, <1>5, AppendProperties
<1>7. DOMAIN empty' = 1 .. n + 1
  BY <1>6, LenProperties
<1>8. \A i \in 1 .. n : empty[i] # p
  BY <1>5 DEF ToSet
<1> HIDE DEF n
<1>9. IsInjective(empty')
  <2> SUFFICES ASSUME NEW i \in 1 .. n + 1, NEW j \in 1 .. n + 1, empty'[i] = empty'[j] PROVE i = j
    BY <1>7 DEF IsInjective
  <2>1. (i \in 1 .. n \/ i = n + 1) /\ (j \in 1 .. n \/ j = n + 1)
    BY <1>5
  <2> QED
    BY <1>5, <1>6, <1>8, <2>1
<1>10. ToSet(empty') = ToSet(empty) \cup {p}
  <2>1. ToSet(empty') = {empty'[i] : i \in 1 .. n + 1} /\ ToSet(empty) = {empty[i] : i \in 1 .. n}
    BY <1>5, <1>7 DEF ToSet
  <2>2. \A i \in 1 .. n + 1 : i \in 1 .. n \/ i = n + 1
    BY <1>5
  <2>3. 1 .. n \subseteq 1 .. n + 1 /\ n + 1 \in 1 .. n + 1
    BY <1>5
  <2> QED
    BY <1>6, <2>1, <2>2, <2>3
<1> QED
  BY <1>1, <1>2, <1>3, <1>4, <1>5, <1>6, <1>9, <1>10 DEF Held

LEMMA BufferDeleteStep ==
  ASSUME Inv, NEW p, BufferDelete(p)
  PROVE  Inv' /\ SM!Next
<1>1. /\ Open /\ Buffered /\ p \in Held \ freed
      /\ entries' = Without(entries, {p})
      /\ page' = [page EXCEPT ![p] = Gone] /\ empty' = Append(empty, p)
      /\ answer' = [call |-> "deleted", page |-> p]
      /\ UNCHANGED <<layer, freed, on, closed>>
  BY DEF BufferDelete
<1>2. /\ page' \in Seq(Data) /\ Len(page') = Len(page) /\ DOMAIN page' = DOMAIN page
      /\ Held' = Held \ {p}
      /\ \A q \in DOMAIN page : q # p => page'[q] = page[q]
      /\ empty' \in Seq(DOMAIN page')
      /\ IsInjective(empty') /\ ToSet(empty') = DOMAIN page' \ Held'
  BY <1>1, DeletedIsEmpty
<1>3. p \in 1 .. MaxPages /\ DOMAIN page = 1 .. Len(page) /\ Len(page) \in Nat /\ Len(page) <= MaxPages
  BY <1>1, LenProperties, LayerAssumption DEF Inv, TypeOK, Held
<1>4. DOMAIN entries' = DOMAIN entries \ {p} /\ \A q \in DOMAIN entries' : entries'[q] = entries[q]
  BY <1>1 DEF Without
<1>5. TypeOK'
  <2>1. empty' \in Seq(DOMAIN page') /\ IsInjective(empty)' /\ ToSet(empty)' = DOMAIN page' \ Held'
    BY <1>2 DEF IsInjective, ToSet
  <2> QED
    BY <1>1, <1>2, <1>4, <2>1 DEF Inv, TypeOK, Data
<1>6. EntriesAgree'
  <2>1. (layer.capacity > 0 => Size <= layer.capacity)'
    <3>0. IsFiniteSet(1 .. Len(page)) /\ DOMAIN entries \subseteq 1 .. Len(page)
      BY <1>3, FS_Interval DEF Inv
    <3>1. IsFiniteSet(DOMAIN entries)
      BY <3>0, FS_Subset
    <3>2. Cardinality(DOMAIN entries') <= Cardinality(DOMAIN entries)
      BY <1>4, <3>1, FS_Subset
    <3>3. IsFiniteSet(DOMAIN entries') /\ Cardinality(DOMAIN entries) \in Nat /\ Cardinality(DOMAIN entries') \in Nat
      BY <1>4, <3>1, FS_Subset, FS_CardinalityType
    <3>4. layer \in Layers /\ layer' = layer /\ layer.capacity \in Nat
      BY <1>1, LayerAssumption DEF Inv, TypeOK
    <3> QED
      BY <3>2, <3>3, <3>4 DEF Inv, EntriesAgree, Size
  <2>2. \A q \in DOMAIN entries' : q \in DOMAIN entries /\ q \in Held' /\ page'[q] = page[q]
    BY <1>1, <1>2, <1>4 DEF Inv, EntriesAgree, Held
  <2>3. (Dirty(entries) # {} => Buffered /\ ~layer.writeThrough)'
    BY <1>1, <1>4 DEF Inv, EntriesAgree, Dirty, Buffered
  <2>4. (Buffered => DOMAIN entries \subseteq Held)'
    BY <2>2
  <2>5. (\A q \in DOMAIN entries \cap Held : entries[q].dirty \/ entries[q].data = page[q])'
    <3>1. \A q \in DOMAIN entries : entries[q].dirty \/ entries[q].data = page[q]
      BY <1>1 DEF Inv, EntriesAgree
    <3> QED
      BY <1>4, <2>2, <3>1
  <2> QED
    BY <2>1, <2>3, <2>4, <2>5 DEF EntriesAgree
<1>7. SM!Delete(p)
  <2>1. Kept' = [q \in DOMAIN Kept \ {p} |-> Kept[q]]
    <3>1. Kept' = [q \in Held \ {p} |-> IF q \in DOMAIN entries' \ freed
                                         THEN entries'[q].data ELSE page'[q]]
      BY <1>1, <1>2 DEF Kept, Through, Buffered
    <3>2. \A q \in Held \ {p} : page'[q] = page[q]
      BY <1>2 DEF Held
    <3> QED
      BY <1>1, <1>4, <3>1, <3>2, KeptIs
  <2>2. Misused' = Misused
    BY <1>1 DEF Misused
  <2> QED
    BY <1>1, <2>1, <2>2, KeptIs DEF SM!Delete, SM!Working, Open
<1> QED
  BY <1>1, <1>2, <1>3, <1>4, <1>5, <1>6, <1>7 DEF Inv, FreedByBuffer, Buffered, SM!Next

(* flush, clear and the destructor write what is dirty: what a client sees *)
(* is then below, whatever becomes of the entries.                         *)
LEMMA WrittenKeeps ==
  ASSUME Inv, Buffered, freed = {}, page' = Written(DOMAIN entries, page)
  PROVE  /\ page' \in Seq(Data) /\ Len(page') = Len(page) /\ DOMAIN page' = DOMAIN page
         /\ Held' = Held
         /\ \A q \in DOMAIN entries : page'[q] = entries[q].data
         /\ \A q \in DOMAIN page \ DOMAIN entries : page'[q] = page[q]
         /\ Kept = [q \in Held |-> page'[q]]
<1>1. /\ page \in Seq(Data) /\ DOMAIN page = 1 .. Len(page) /\ Len(page) \in Nat
      /\ \A q \in DOMAIN page : page[q] \in Data
  BY LenProperties, ElementOfSeq DEF Inv, TypeOK, Data
<1>2. \A q \in DOMAIN entries :
        /\ q \in DOMAIN page /\ page[q] # Gone
        /\ entries[q].data \in Value
        /\ entries[q].dirty \/ entries[q].data = page[q]
  BY DEF Inv, TypeOK, EntriesAgree, Held
<1>3. page' = [q \in DOMAIN page |-> IF q \in DOMAIN entries \cap Dirty(entries) THEN entries[q].data ELSE page[q]]
  BY DEF Written
<1>4. page' \in [1 .. Len(page) -> Data]
  BY <1>1, <1>2, <1>3 DEF Data
<1>5. page' \in Seq(Data) /\ Len(page') = Len(page)
  BY <1>1, <1>4, FunctionIsSeq
<1>6. DOMAIN page' = DOMAIN page
  BY <1>3
<1>7. /\ \A q \in DOMAIN entries : page'[q] = entries[q].data
      /\ \A q \in DOMAIN page \ DOMAIN entries : page'[q] = page[q]
  BY <1>2, <1>3 DEF Dirty
<1>8. Held' = Held
  BY <1>2, <1>6, <1>7, LayerAssumption DEF Held
<1>9. Kept = [q \in Held |-> page'[q]]
  <2>1. \A q \in Held : (IF q \in DOMAIN entries THEN entries[q].data ELSE page[q]) = page'[q]
    BY <1>7 DEF Held
  <2>2. Kept = [q \in Held |-> IF q \in DOMAIN entries THEN entries[q].data ELSE page[q]]
    BY KeptIs
  <2> QED
    BY <2>1, <2>2
<1> QED
  BY <1>5, <1>6, <1>7, <1>8, <1>9

LEMMA FlushStep ==
  ASSUME Inv, BufferFlush \/ BufferClear \/ BufferClose
  PROVE  Inv' /\ [SM!Next]_SM!vars
<1>1. /\ Buffered /\ freed = {} /\ page' = Written(DOMAIN entries, page)
      /\ UNCHANGED <<layer, empty, on, answer>> /\ closed' \in BOOLEAN
      /\ \/ entries' = entries /\ freed' = DOMAIN entries
         \/ entries' = <<>> /\ freed' = {}
  BY DEF BufferFlush, BufferClear, BufferClose, Inv, TypeOK
<1>2. /\ page' \in Seq(Data) /\ Len(page') = Len(page) /\ DOMAIN page' = DOMAIN page
      /\ Held' = Held
      /\ \A q \in DOMAIN entries : page'[q] = entries[q].data
      /\ Kept = [q \in Held |-> page'[q]]
  BY <1>1, WrittenKeeps
<1>3. /\ DOMAIN entries' \subseteq DOMAIN entries
      /\ \A q \in DOMAIN entries' : entries'[q] = entries[q]
      /\ freed' \subseteq DOMAIN entries'
  BY <1>1
<1>4. TypeOK'
  <2>1. empty' \in Seq(DOMAIN page') /\ IsInjective(empty)' /\ ToSet(empty)' = DOMAIN page' \ Held'
    BY <1>1, <1>2 DEF Inv, TypeOK, IsInjective, ToSet
  <2> QED
    BY <1>1, <1>2, <1>3, <2>1 DEF Inv, TypeOK, Data
<1>5. EntriesAgree'
  <2>1. (layer.capacity > 0 => Size <= layer.capacity)'
    <3>1. CASE entries' = entries
      BY <1>1, <3>1 DEF Inv, EntriesAgree, Size
    <3>2. CASE entries' = <<>>
      <4>1. DOMAIN entries' = {} /\ Cardinality({}) = 0
        BY <3>2, FS_EmptySet
      <4>2. layer' = layer /\ layer.capacity \in Nat
        BY <1>1, LayerAssumption DEF Inv, TypeOK
      <4> QED
        BY <4>1, <4>2 DEF Size
    <3> QED
      BY <1>1, <3>1, <3>2
  <2> QED
    BY <1>1, <1>2, <1>3, <2>1 DEF Inv, EntriesAgree, Dirty, Buffered
<1>6. Kept' = Kept
  <2>1. Kept' = [q \in Held |-> IF q \in DOMAIN entries' \ freed' THEN entries'[q].data ELSE page'[q]]
    BY <1>1, <1>2 DEF Kept, Through, Buffered
  <2>2. \A q \in Held : (IF q \in DOMAIN entries' \ freed' THEN entries'[q].data ELSE page'[q]) = page'[q]
    BY <1>2, <1>3
  <2> QED
    BY <1>2, <2>1, <2>2
<1>7. SM!Misuse
  BY <1>1, <1>6 DEF SM!Misuse, Misused
<1> QED
  BY <1>1, <1>2, <1>3, <1>4, <1>5, <1>7 DEF Inv, FreedByBuffer, Buffered, SM!Next

-----------------------------------------------------------------------------
(* The steps of a page cache: nothing in it is ever dirty. *)
LEMMA CacheIsClean ==
  ASSUME Inv, ~Buffered
  PROVE  /\ \A q \in DOMAIN entries : ~entries[q].dirty
         /\ \A q \in DOMAIN entries \cap Held : entries[q].data = page[q]
BY DEF Inv, EntriesAgree, Dirty, TypeOK

(* A client sees the pages themselves. *)
LEMMA CacheKept ==
  ASSUME Inv, ~Buffered
  PROVE  Kept = [q \in Held |-> page[q]]
<1>1. \A q \in DOMAIN entries \cap Held : entries[q].data = page[q]
  BY CacheIsClean
<1> QED
  BY <1>1 DEF Kept, Through

(* Dropping entries of a cache whose pages change, or none. *)
LEMMA CacheShrinks ==
  ASSUME Inv, ~Buffered, UNCHANGED <<layer, freed, on, closed>>,
         NEW d, entries' = Without(entries, d), freed \cap d = {},
         Held' \cap (DOMAIN entries \ d) \subseteq Held,
         DOMAIN page \subseteq DOMAIN page',
         \A q \in DOMAIN entries \ d : q \in Held' => page'[q] = page[q],
         page' \in Seq(Data), Len(page') <= MaxPages,
         empty' \in Seq(DOMAIN page'), IsInjective(empty'), ToSet(empty') = DOMAIN page' \ Held'
  PROVE  Inv' /\ Kept' = [q \in Held' |-> page'[q]]
<1>1. DOMAIN entries' = DOMAIN entries \ d /\ \A q \in DOMAIN entries' : entries'[q] = entries[q]
  BY DEF Without
<1>2. TypeOK'
  <2>1. IsInjective(empty)' /\ ToSet(empty)' = DOMAIN page' \ Held'
    BY DEF IsInjective, ToSet
  <2> QED
    BY <1>1, <2>1 DEF Inv, TypeOK, Data
<1>3. \A q \in DOMAIN entries' : ~entries'[q].dirty
  BY <1>1, CacheIsClean
<1>4. \A q \in DOMAIN entries' \cap Held' : entries'[q].data = page'[q]
  BY <1>1, CacheIsClean
<1>5. EntriesAgree'
  <2>1. (layer.capacity > 0 => Size <= layer.capacity)'
    <3>1. DOMAIN page = 1 .. Len(page) /\ Len(page) \in Nat
      BY LenProperties DEF Inv, TypeOK
    <3>2. IsFiniteSet(1 .. Len(page)) /\ DOMAIN entries \subseteq 1 .. Len(page)
      BY <3>1, FS_Interval DEF Inv
    <3>3. IsFiniteSet(DOMAIN entries)
      BY <3>2, FS_Subset
    <3>4. /\ IsFiniteSet(DOMAIN entries') /\ Cardinality(DOMAIN entries') <= Cardinality(DOMAIN entries)
          /\ Cardinality(DOMAIN entries) \in Nat /\ Cardinality(DOMAIN entries') \in Nat
      BY <1>1, <3>3, FS_Subset, FS_CardinalityType
    <3>5. layer' = layer /\ layer.capacity \in Nat
      BY LayerAssumption DEF Inv, TypeOK
    <3> QED
      BY <3>4, <3>5 DEF Inv, EntriesAgree, Size
  <2>2. ~Buffered'
    BY DEF Buffered
  <2> QED
    BY <1>3, <1>4, <2>1, <2>2 DEF EntriesAgree, Dirty
<1>6. Inv'
  BY <1>1, <1>2, <1>5 DEF Inv, FreedByBuffer, Buffered
<1>7. Kept' = [q \in Held' |-> page'[q]]
  BY <1>4 DEF Kept, Through
<1> QED
  BY <1>6, <1>7

LEMMA CacheStoreNewStep ==
  ASSUME Inv, NEW v \in Value, CacheStoreNew(v)
  PROVE  Inv' /\ SM!Next
<1> DEFINE n == NewPage
<1>1. /\ Open /\ ~Buffered /\ Room
      /\ page' = Stored(n, v) /\ empty' = StillEmpty /\ entries' = Without(entries, {n})
      /\ answer' = [call |-> "stored", page |-> n]
      /\ UNCHANGED <<layer, freed, on, closed>>
  BY DEF CacheStoreNew
<1>2. n \in 1 .. MaxPages /\ n \notin Held /\ (n = Len(page) + 1 \/ n \in DOMAIN page)
  BY <1>1, NewPageIsFree
<1>3. /\ page' \in Seq(Data) /\ DOMAIN page' = DOMAIN page \cup {n}
      /\ Len(page) \in Nat /\ Len(page') = IF n \in DOMAIN page THEN Len(page) ELSE n
      /\ \A q \in DOMAIN page \cup {n} : page'[q] = IF q = n THEN v ELSE page[q]
  BY <1>1, <1>2, StoredStores
<1>4. StillEmpty \in Seq(DOMAIN page) /\ IsInjective(StillEmpty)
      /\ ToSet(StillEmpty) = (DOMAIN page \ Held) \ {n}
  BY <1>1, StillEmptyLess
<1> HIDE DEF n
<1>5. Held' = Held \cup {n} /\ v # Gone
  BY <1>3, LayerAssumption DEF Held
<1>6. empty' \in Seq(DOMAIN page')
  BY <1>1, <1>3, <1>4, SeqMonotonic
<1>7. IsInjective(empty') /\ ToSet(empty') = DOMAIN page' \ Held'
  BY <1>1, <1>3, <1>4, <1>5
<1>8. Len(page') <= MaxPages
  BY <1>2, <1>3 DEF Inv, TypeOK
<1>9. freed \cap {n} = {}
  <2>1. freed = {}
    BY <1>1 DEF Inv, FreedByBuffer
  <2> QED
    BY <2>1
<1>10. Inv' /\ Kept' = [q \in Held' |-> page'[q]]
  <2>1. /\ Held' \cap (DOMAIN entries \ {n}) \subseteq Held
        /\ DOMAIN page \subseteq DOMAIN page'
        /\ \A q \in DOMAIN entries \ {n} : q \in Held' => page'[q] = page[q]
    BY <1>1, <1>3, <1>5, <1>6, <1>7, <1>8, <1>9 DEF Inv
  <2>2. page' \in Seq(Data) /\ Len(page') <= MaxPages
    BY <1>1, <1>3, <1>5, <1>6, <1>7, <1>8, <1>9
  <2> QED
    BY <1>1, <1>3, <1>5, <1>6, <1>7, <1>8, <1>9, <2>1, <2>2, CacheShrinks
<1>11. SM!StoreNew(n, v)
  <2>1. Kept = [q \in Held |-> page[q]]
    BY <1>1, CacheKept
  <2>2. Kept' = [q \in DOMAIN Kept \cup {n} |-> IF q = n THEN v ELSE Kept[q]]
    <3>1. \A q \in Held : q # n => page'[q] = page[q]
      BY <1>3 DEF Held
    <3> QED
      BY <1>2, <1>3, <1>5, <1>10, <2>1, <3>1
  <2>3. Misused' = Misused
    BY <1>1 DEF Misused
  <2> QED
    BY <1>1, <1>2, <2>1, <2>2, <2>3 DEF SM!StoreNew, SM!Working, Open
<1> QED
  BY <1>2, <1>10, <1>11 DEF SM!Next

LEMMA CacheStoreStep ==
  ASSUME Inv, NEW p, NEW v \in Value, CacheStore(p, v)
  PROVE  Inv' /\ SM!Next
<1>1. /\ Open /\ ~Buffered /\ p \in Held
      /\ page' = Stored(p, v) /\ entries' = Without(entries, {p})
      /\ answer' = [call |-> "stored", page |-> p]
      /\ UNCHANGED <<layer, empty, freed, on, closed>>
  BY DEF CacheStore
<1>2. p \in DOMAIN page /\ DOMAIN page = 1 .. Len(page) /\ Len(page) \in Nat /\ Len(page) <= MaxPages
  BY <1>1, LenProperties DEF Inv, TypeOK, Held
<1>3. /\ page' \in Seq(Data) /\ DOMAIN page' = DOMAIN page \cup {p}
      /\ Len(page') = IF p \in DOMAIN page THEN Len(page) ELSE p
      /\ \A q \in DOMAIN page \cup {p} : page'[q] = IF q = p THEN v ELSE page[q]
  BY <1>1, <1>2, StoredStores
<1>4. DOMAIN page' = DOMAIN page /\ Held' = Held /\ v # Gone
  BY <1>1, <1>2, <1>3, LayerAssumption DEF Held
<1>5. empty' \in Seq(DOMAIN page') /\ IsInjective(empty') /\ ToSet(empty') = DOMAIN page' \ Held'
  BY <1>1, <1>4 DEF Inv, TypeOK
<1>6. freed \cap {p} = {}
  BY <1>1 DEF Inv, FreedByBuffer
<1>7. Inv' /\ Kept' = [q \in Held' |-> page'[q]]
  <2>1. /\ Held' \cap (DOMAIN entries \ {p}) \subseteq Held
        /\ DOMAIN page \subseteq DOMAIN page'
        /\ \A q \in DOMAIN entries \ {p} : q \in Held' => page'[q] = page[q]
    BY <1>1, <1>2, <1>3, <1>4, <1>5, <1>6 DEF Inv
  <2>2. page' \in Seq(Data) /\ Len(page') <= MaxPages
    BY <1>1, <1>2, <1>3, <1>4, <1>5, <1>6
  <2> QED
    BY <1>1, <1>2, <1>3, <1>4, <1>5, <1>6, <2>1, <2>2, CacheShrinks
<1>8. SM!Overwrite(p, v)
  <2>1. Kept = [q \in Held |-> page[q]]
    BY <1>1, CacheKept
  <2>2. Kept' = [Kept EXCEPT ![p] = v]
    BY <1>1, <1>3, <1>4, <1>7, <2>1 DEF Held
  <2>3. Misused' = Misused
    BY <1>1 DEF Misused
  <2> QED
    BY <1>1, <2>1, <2>2, <2>3 DEF SM!Overwrite, SM!Working, Open
<1> QED
  BY <1>2, <1>7, <1>8, LayerAssumption DEF SM!Next

LEMMA CacheDeleteStep ==
  ASSUME Inv, NEW p, CacheDelete(p)
  PROVE  Inv' /\ SM!Next
<1>1. /\ Open /\ ~Buffered /\ p \in Held
      /\ page' = [page EXCEPT ![p] = Gone] /\ empty' = Append(empty, p)
      /\ answer' = [call |-> "deleted", page |-> p]
      /\ UNCHANGED <<layer, entries, freed, on, closed>>
  BY DEF CacheDelete
<1>2. /\ page' \in Seq(Data) /\ Len(page') = Len(page) /\ DOMAIN page' = DOMAIN page
      /\ Held' = Held \ {p}
      /\ \A q \in DOMAIN page : q # p => page'[q] = page[q]
      /\ empty' \in Seq(DOMAIN page')
      /\ IsInjective(empty') /\ ToSet(empty') = DOMAIN page' \ Held'
  BY <1>1, DeletedIsEmpty
<1>3. p \in 1 .. MaxPages /\ Len(page') <= MaxPages
  <2>1. DOMAIN page = 1 .. Len(page) /\ Len(page) \in Nat /\ Len(page) <= MaxPages
    BY LenProperties DEF Inv, TypeOK
  <2> QED
    BY <1>1, <1>2, <2>1, LayerAssumption DEF Held
<1>4. TypeOK'
  <2>1. IsInjective(empty)' /\ ToSet(empty)' = DOMAIN page' \ Held'
    BY <1>2 DEF IsInjective, ToSet
  <2> QED
    BY <1>1, <1>2, <1>3, <2>1 DEF Inv, TypeOK, Data
<1>5. EntriesAgree'
  BY <1>1, <1>2 DEF Inv, EntriesAgree, Size, Dirty, Buffered, Held
<1>6. Inv'
  BY <1>1, <1>2, <1>4, <1>5 DEF Inv, FreedByBuffer, Buffered
<1>7. SM!Delete(p)
  <2>1. Kept = [q \in Held |-> page[q]] /\ Kept' = [q \in Held' |-> page'[q]]
    <3>1. Kept = [q \in Held |-> page[q]]
      BY <1>1, CacheKept
    <3>2. \A q \in DOMAIN entries \cap Held' : entries[q].data = page'[q]
      BY <1>1, <1>2, CacheIsClean DEF Held
    <3>3. Kept' = [q \in Held' |-> page'[q]]
      BY <1>1, <3>2 DEF Kept, Through
    <3> QED
      BY <3>1, <3>3
  <2>2. \A q \in Held' : page'[q] = page[q]
    BY <1>2 DEF Held
  <2>3. Kept' = [q \in DOMAIN Kept \ {p} |-> Kept[q]]
    BY <1>2, <2>1, <2>2
  <2>4. Misused' = Misused
    BY <1>1 DEF Misused
  <2> QED
    BY <1>1, <2>1, <2>3, <2>4 DEF SM!Delete, SM!Working, Open
<1> QED
  BY <1>3, <1>6, <1>7 DEF SM!Next

LEMMA CacheLoadStep ==
  ASSUME Inv, NEW p, CacheLoad(p)
  PROVE  Inv' /\ SM!Next
<1>1. /\ Open /\ ~Buffered /\ p \in Held
      /\ UNCHANGED <<layer, empty, freed, on, closed>>
  BY DEF CacheLoad
<1>2. p \in 1 .. MaxPages /\ p \in DOMAIN page /\ page[p] # Gone /\ page[p] \in Value /\ page \in Seq(Data)
      /\ Len(page) <= MaxPages
  <2>1. DOMAIN page = 1 .. Len(page) /\ Len(page) \in Nat /\ Len(page) <= MaxPages /\ page \in Seq(Data)
    BY LenProperties DEF Inv, TypeOK, Data
  <2> QED
    BY <1>1, <2>1, ElementOfSeq, LayerAssumption DEF Held, Data
<1>3. answer' = [call |-> "loaded", page |-> p, value |-> page[p]]
  BY <1>1, CacheIsClean DEF CacheLoad
<1>4. Inv' /\ Kept' = Kept
  <2>1. CASE ~on \/ p \in DOMAIN entries
    <3>1. UNCHANGED <<page, entries>>
      BY <2>1 DEF CacheLoad
    <3> QED
      BY <1>1, <3>1, QuietStep DEF base, Inv, TypeOK
  <2>2. CASE ~ (~on \/ p \in DOMAIN entries)
    <3> DEFINE e == Entry(page[p], FALSE)
    <3>1. AddEntry(p, e, page)
      BY <2>2 DEF CacheLoad
    <3>2. e \in EntrySet /\ e.dirty = FALSE /\ e.data = page[p]
      BY <1>2 DEF Entry, EntrySet
    <3> HIDE DEF e
    <3>3. Agrees(page) /\ HeldOf(page) = Held /\ DOMAIN entries \cup {p} \subseteq DOMAIN page
      BY <1>2 DEF Agrees, Inv, EntriesAgree, HeldOf, Held
    <3>4. /\ page' \in Seq(Data) /\ Len(page') = Len(page) /\ DOMAIN page' = DOMAIN page
          /\ Held' = HeldOf(page)
          /\ EntriesAgree' /\ DOMAIN entries' \subseteq DOMAIN page'
          /\ \A q \in DOMAIN entries' : entries'[q] \in EntrySet
          /\ freed' \subseteq DOMAIN entries'
          /\ Kept' = [q \in HeldOf(page) |->
                        IF q = p THEN e.data
                        ELSE IF q \in DOMAIN entries \ freed THEN entries[q].data
                        ELSE page[q]]
      BY <1>1, <1>2, <2>2, <3>1, <3>2, <3>3, AddEntryKeeps
    <3>5. TypeOK'
      BY <1>1, <1>2, <3>3, <3>4 DEF Inv, TypeOK, EntrySet, Data
    <3>6. Kept' = Kept
      BY <1>1, <3>2, <3>3, <3>4, CacheKept, CacheIsClean
    <3> QED
      BY <1>1, <3>4, <3>5, <3>6 DEF Inv, FreedByBuffer, Buffered
  <2> QED
    BY <2>1, <2>2
<1>5. Misused' = Misused
  BY <1>1 DEF Misused
<1>6. SM!Load(p)
  BY <1>1, <1>3, <1>4, <1>5, CacheKept DEF SM!Load, SM!Working, Open
<1> QED
  BY <1>2, <1>4, <1>6 DEF SM!Next

(* What is cached of a page held is what it holds, so the switch changes   *)
(* nothing a client sees.                                                  *)
LEMMA SwitchStep ==
  ASSUME Inv, Switch
  PROVE  Inv' /\ UNCHANGED SM!vars
<1>1. ~Buffered /\ UNCHANGED <<layer, page, empty, entries, freed, closed, answer>> /\ on' \in BOOLEAN
  BY DEF Switch, base, Inv, TypeOK
<1>2. Held' = Held
  BY <1>1 DEF Held
<1>3. TypeOK' /\ EntriesAgree' /\ FreedByBuffer'
  <2>1. TypeOK'
    BY <1>1, <1>2 DEF Inv, TypeOK
  <2>2. EntriesAgree' /\ FreedByBuffer'
    BY <1>1, <1>2 DEF Inv, EntriesAgree, FreedByBuffer, Size, Dirty, Buffered
  <2> QED
    BY <2>1, <2>2
<1>4. Kept' = Kept
  <2>1. \A q \in DOMAIN entries \cap Held : entries[q].data = page[q]
    BY <1>1, CacheIsClean
  <2> QED
    BY <1>1, <1>2, <2>1 DEF Kept, Through, Buffered
<1> QED
  BY <1>1, <1>3, <1>4 DEF Inv, SM!vars, Misused

-----------------------------------------------------------------------------
LEMMA NextStep == Inv /\ [Next]_vars => Inv' /\ [SM!Next]_SM!vars
<1> SUFFICES ASSUME Inv, [Next]_vars PROVE Inv' /\ [SM!Next]_SM!vars
  OBVIOUS
<1>1. CASE UNCHANGED vars
  <2>1. Inv' /\ Kept' = Kept /\ Misused' = Misused
    BY <1>1, QuietStep DEF vars, Inv, TypeOK
  <2> QED
    BY <1>1, <2>1 DEF vars, SM!vars
<1>2. CASE \E v \in Value : BufferStoreNew(v) \/ CacheStoreNew(v)
  BY <1>2, BufferStoreNewStep, CacheStoreNewStep
<1>3. CASE \E p \in 1 .. MaxPages, v \in Value : BufferStore(p, v) \/ CacheStore(p, v)
  BY <1>3, BufferStoreStep, CacheStoreStep
<1>4. CASE \E p \in 1 .. MaxPages :
             \/ BufferHit(p) \/ BufferMiss(p) \/ BufferDelete(p) \/ BufferInvalid(p)
             \/ CacheLoad(p) \/ CacheDelete(p)
  BY <1>4, BufferHitStep, BufferMissStep, BufferDeleteStep, BufferInvalidStep, CacheLoadStep, CacheDeleteStep
<1>5. CASE BufferFlush \/ BufferClear \/ BufferClose
  BY <1>5, FlushStep
<1>6. CASE UseAfterFlush \/ \E p \in 1 .. MaxPages : CacheOfNothing(p)
  BY <1>6, UndefinedStep
<1>7. CASE Switch
  BY <1>7, SwitchStep
<1> QED
  BY <1>1, <1>2, <1>3, <1>4, <1>5, <1>6, <1>7 DEF Next

LEMMA InitInv == Init => Inv
<1> SUFFICES ASSUME Init PROVE Inv
  OBVIOUS
<1> USE DEF Init
<1>1. page = <<>> /\ empty = <<>> /\ entries = <<>> /\ freed = {}
  OBVIOUS
<1>2. DOMAIN page = {} /\ DOMAIN empty = {} /\ DOMAIN entries = {} /\ Len(page) = 0
  BY <1>1, EmptySeq
<1>3. Held = {} /\ ToSet(empty) = {} /\ IsInjective(empty)
  BY <1>2 DEF Held, ToSet, IsInjective
<1>4. TypeOK
  <2>1. page \in Seq(Value \cup {Gone}) /\ empty \in Seq(DOMAIN page)
    BY <1>1, EmptySeq
  <2>2. Len(page) <= MaxPages
    BY <1>2, LayerAssumption
  <2> QED
    BY <1>1, <1>2, <1>3, <2>1, <2>2 DEF TypeOK
<1>5. EntriesAgree
  <2>1. Size = 0
    BY <1>2, FS_EmptySet DEF Size
  <2>2. layer.capacity \in Nat
    BY LayerAssumption
  <2> QED
    BY <1>2, <2>1, <2>2 DEF EntriesAgree, Dirty
<1> QED
  BY <1>1, <1>2, <1>4, <1>5 DEF Inv, FreedByBuffer

LEMMA Invariance == Spec => []Inv
<1>1. Init => Inv
  BY InitInv
<1>2. Inv /\ [Next]_vars => Inv'
  BY NextStep
<1> QED
  BY <1>1, <1>2, PTL DEF Spec

(* Pages, entries and empty pages are what they should be: the empty pages *)
(* are those gone, each of them once, and entries freed are still known.   *)
THEOREM LayersTyped == Spec => []TypeOK
<1>1. Inv => TypeOK
  BY DEF Inv
<1> QED
  BY <1>1, Invariance, PTL

(* A layer keeps to its capacity and agrees with the pages below, whatever *)
(* it drops: addEntry, storeByteArray and deleteByteArray of Buffer, and   *)
(* storeByteArray of xStore, which drops a page from the cache even while  *)
(* that is off.                                                            *)
THEOREM LayersAgree == Spec => []EntriesAgree
<1>1. Inv => EntriesAgree
  BY DEF Inv
<1> QED
  BY <1>1, Invariance, PTL

(* A buffer, writing back or through, and a page cache are storage         *)
(* managers: every load returns what was stored last, until entries that a *)
(* flush has freed are used or a cache of size zero is.                    *)
THEOREM LayersImplement == Spec => ImplementsIStorageManager
<1>1. Init => SM!Init
  <2> SUFFICES ASSUME Init PROVE SM!Init
    OBVIOUS
  <2>1. DOMAIN page = {}
    BY EmptySeq DEF Init
  <2>2. Kept = <<>>
    BY <2>1 DEF Kept, Held
  <2> QED
    BY <2>2 DEF SM!Init, SM!Nothing, Init, Misused
<1>2. Inv /\ [Next]_vars => [SM!Next]_SM!vars
  BY NextStep
<1> QED
  BY <1>1, <1>2, Invariance, PTL DEF Spec, ImplementsIStorageManager, SM!Spec

-----------------------------------------------------------------------------
(* The connections of threads. *)
(* While threads run, they work on prepared stores, and whoever has copied *)
(* the name has copied the name there is.                                  *)
Running ==
  \A w \in Worker : pc[w] # "off" =>
    /\ job[w] \in prepared
    /\ dbfile # Nobody
    /\ pc[w] = "connect" => path[w] = dbfile

(* The name is the one of the clones, and so are the connections. *)
Cloned ==
  cloned # Nobody =>
    /\ dbfile = Sqlite(cloned)
    /\ \A w \in Worker : pc[w] = "read" => conn[w] = Sqlite(cloned)

(* The main thread is connected to a catalog of a store it has used. *)
MainConnected ==
  /\ used # {} <=> conn[Main] # Nobody
  /\ conn[Main] # Nobody => \E s \in used : conn[Main] = Sqlite(s)
  /\ used # {} => dbfile # Nobody
  /\ used \subseteq saved

(* What catalogs list. *)
RowsRight ==
  \A s \in Store \ mixed :
    /\ rows[Sqlite(s)] \in {Nobody, s}
    /\ s \in saved => rows[Sqlite(s)] = s

LastIdRight ==
  /\ used = {} => nextTraj = Nobody
  /\ \A s \in Store \ mixed : used = {s} => nextTraj \in {Nobody, s}

States == pc \in [Worker -> {"off", "start", "connect", "read"}]
          /\ job \in [Worker -> Store \cup {Nobody}]
          /\ path \in [Worker -> File \cup {Nobody}]

IInv ==
  /\ ThreadsTypeOK
  /\ States
  /\ Running
  /\ Cloned
  /\ MainConnected
  /\ RowsRight
  /\ LastIdRight

(* The invariant says what the property says. *)
LEMMA InvariantSuffices == IInv => ThreadsReadTheirStore
<1> SUFFICES ASSUME IInv PROVE ThreadsReadTheirStore
  OBVIOUS
<1> USE DEF IInv
<1>1. ASSUME NEW w \in Worker, pc[w] = "read", job[w] = cloned
      PROVE /\ conn[w] = Sqlite(job[w])
            /\ job[w] \in mixed \/ rows[conn[w]] = job[w]
  <2>1. job[w] \in Store /\ job[w] \in saved
    BY <1>1 DEF ThreadsTypeOK, Running, MainConnected
  <2>2. conn[w] = Sqlite(job[w])
    BY <1>1, <2>1, ThreadAssumption DEF Cloned
  <2> QED
    BY <2>1, <2>2 DEF RowsRight
<1>2. ASSUME NEW s \in open, used = {s}, s \notin mixed
      PROVE rows[conn[Main]] = s /\ nextTraj \in {Nobody, s}
  <2>1. s \in Store /\ s \in saved /\ conn[Main] = Sqlite(s)
    BY <1>2 DEF ThreadsTypeOK, MainConnected
  <2> QED
    BY <1>2, <2>1 DEF RowsRight, LastIdRight
<1> QED
  BY <1>1, <1>2 DEF ThreadsReadTheirStore

(* It holds at first. *)
LEMMA InvariantInit == ThreadsInit => IInv
<1> SUFFICES ASSUME ThreadsInit PROVE IInv
  OBVIOUS
<1> USE DEF ThreadsInit, Unconnected, Idle
<1>1. ThreadsTypeOK /\ States
  BY ThreadAssumption DEF ThreadsTypeOK, States
<1>2. Running /\ Cloned
  BY DEF Running, Cloned
<1>3. MainConnected
  BY DEF MainConnected
<1>4. RowsRight /\ LastIdRight
  BY DEF RowsRight, LastIdRight, File, Sqlite
<1> QED
  BY <1>1, <1>2, <1>3, <1>4 DEF IInv
-----------------------------------------------------------------------------
(* The steps of the main thread: no query thread runs. *)
LEMMA OpenStorePreserves == ASSUME NEW s \in Store PROVE IInv /\ OpenStore(s) => IInv'
<1> SUFFICES ASSUME IInv, OpenStore(s) PROVE IInv'
  OBVIOUS
<1> USE DEF IInv
<1>1. /\ Sqlite(s) \in File /\ Bare(s) \in File
      /\ Sqlite(s) # Nobody /\ Bare(s) # Nobody
      /\ conn \in [Worker \cup {Main} -> File \cup {Nobody}]
  BY ThreadAssumption DEF Sqlite, Bare, File, ThreadsTypeOK
<1>2. /\ conn' \in [Worker \cup {Main} -> File \cup {Nobody}]
      /\ conn'[Main] = IF conn[Main] = Nobody THEN Sqlite(s) ELSE conn[Main]
      /\ conn'[Main] \in File /\ conn'[Main] # Nobody
      /\ \A w \in Worker : conn'[w] = conn[w]
  BY <1>1, ThreadAssumption DEF OpenStore
<1>3. \E t \in used' : conn'[Main] = Sqlite(t)
  BY <1>2 DEF OpenStore, MainConnected
<1>4. ThreadsTypeOK'
  <2>1. dbfile' \in File \cup {Nobody} /\ conn' \in [Worker \cup {Main} -> File \cup {Nobody}]
    BY <1>1, <1>2 DEF OpenStore
  <2>2. rows' \in [File -> Store \cup {Nobody}] /\ nextTraj' \in Store \cup {Nobody}
    BY <1>2 DEF OpenStore, ThreadsTypeOK
  <2>3. made' \subseteq File /\ saved' \subseteq Store
    BY <1>2 DEF OpenStore, ThreadsTypeOK
  <2>4. prepared' \subseteq open' /\ open' \subseteq used' /\ used' \subseteq Store
    BY DEF OpenStore, ThreadsTypeOK
  <2>5. /\ \A w \in Worker : (pc'[w] = "read") <=> (conn'[w] # Nobody)
        /\ \A w \in Worker : (pc'[w] = "off") <=> (job'[w] = Nobody)
    BY <1>2 DEF OpenStore, ThreadsTypeOK
  <2>6. cloned' \in Store \cup {Nobody} /\ mixed' \subseteq Store
    BY DEF OpenStore, ThreadsTypeOK
  <2> QED
    BY <2>1, <2>2, <2>3, <2>4, <2>5, <2>6 DEF ThreadsTypeOK
<1>5. States' /\ Running' /\ Cloned'
  BY DEF OpenStore, States, Running, Cloned, Waiting
<1>6. MainConnected'
  BY <1>1, <1>2, <1>3 DEF OpenStore, MainConnected
<1>7. s \notin mixed' => s \notin mixed /\ used \subseteq {s} /\ conn'[Main] = Sqlite(s)
  BY <1>2 DEF OpenStore, MainConnected
<1>8. RowsRight'
  <2> SUFFICES ASSUME NEW t \in Store, t \notin mixed'
               PROVE /\ rows'[Sqlite(t)] \in {Nobody, t}
                     /\ t \in saved' => rows'[Sqlite(t)] = t
    BY DEF RowsRight
  <2>1. t \notin mixed /\ Sqlite(t) \in File
    BY DEF OpenStore, Sqlite, File
  <2>2. rows[Sqlite(t)] \in {Nobody, t} /\ (t \in saved => rows[Sqlite(t)] = t)
    BY <2>1 DEF RowsRight
  <2>3. CASE t = s
    <3>1. conn'[Main] = Sqlite(s)
      BY <2>3, <1>7
    <3> QED
      BY <2>1, <2>2, <2>3, <3>1 DEF OpenStore, ThreadsTypeOK
  <2>4. CASE t # s
    <3>1. conn'[Main] = Sqlite(t) => t \in saved
      BY <2>4, <1>2, <1>3 DEF OpenStore, MainConnected, Sqlite
    <3>2. rows'[Sqlite(t)] = rows[Sqlite(t)]
      BY <2>1, <2>2, <3>1, <1>2, ThreadAssumption DEF OpenStore, ThreadsTypeOK
    <3> QED
      BY <2>2, <2>4, <3>2 DEF OpenStore
  <2> QED
    BY <2>3, <2>4
<1>9. LastIdRight'
  <2>1. used' # {}
    BY DEF OpenStore
  <2>2. ASSUME NEW t \in Store, t \notin mixed', used' = {t}
        PROVE nextTraj' \in {Nobody, t}
    <3>1. t = s /\ t \notin mixed /\ (used = {} \/ used = {t})
      BY <2>2 DEF OpenStore
    <3>2. nextTraj \in {Nobody, t}
      BY <3>1 DEF LastIdRight
    <3> QED
      BY <3>1, <3>2 DEF OpenStore
  <2> QED
    BY <2>1, <2>2 DEF LastIdRight
<1> QED
  BY <1>4, <1>5, <1>6, <1>8, <1>9

LEMMA PrepareTreesPreserves == ASSUME NEW s \in Store PROVE IInv /\ PrepareTrees(s) => IInv'
<1> SUFFICES ASSUME IInv, PrepareTrees(s) PROVE IInv'
  OBVIOUS
<1> USE DEF IInv
<1>1. Sqlite(s) \in File /\ Sqlite(s) # Nobody /\ conn[Main] \in File
  BY ThreadAssumption DEF Sqlite, File, ThreadsTypeOK, MainConnected, PrepareTrees
<1>2. ThreadsTypeOK'
  BY <1>1 DEF PrepareTrees, ThreadsTypeOK
<1>3. States' /\ Running' /\ Cloned'
  BY DEF PrepareTrees, States, Running, Cloned, Waiting
<1>4. MainConnected' /\ RowsRight'
  BY <1>1 DEF PrepareTrees, MainConnected, RowsRight
<1>5. LastIdRight'
  <2>1. used # {}
    BY DEF PrepareTrees, ThreadsTypeOK
  <2>2. ASSUME NEW t \in Store, t \notin mixed, used = {t}
        PROVE rows[conn[Main]] = t
    BY <2>2 DEF MainConnected, RowsRight
  <2> QED
    BY <2>1, <2>2 DEF PrepareTrees, LastIdRight
<1> QED
  BY <1>2, <1>3, <1>4, <1>5

LEMMA RunQueriesPreserves == ASSUME NEW s \in Store PROVE IInv /\ RunQueries(s) => IInv'
<1> SUFFICES ASSUME IInv, RunQueries(s) PROVE IInv'
  OBVIOUS
<1> USE DEF IInv
<1>1. used # {} /\ dbfile # Nobody /\ s # Nobody
  BY ThreadAssumption DEF RunQueries, ThreadsTypeOK, MainConnected
<1>2. \A w \in Worker : conn[w] = Nobody
  BY DEF RunQueries, Waiting, ThreadsTypeOK
<1>3. ThreadsTypeOK'
  BY <1>1, <1>2 DEF RunQueries, ThreadsTypeOK, main, history
<1>4. States' /\ Running' /\ Cloned'
  BY <1>1 DEF RunQueries, States, Running, Cloned, main, history
<1>5. MainConnected' /\ RowsRight' /\ LastIdRight'
  BY DEF RunQueries, MainConnected, RowsRight, LastIdRight, main, history
<1> QED
  BY <1>3, <1>4, <1>5

LEMMA CloseStorePreserves == ASSUME NEW s \in Store PROVE IInv /\ CloseStore(s) => IInv'
<1> SUFFICES ASSUME IInv, CloseStore(s) PROVE IInv'
  OBVIOUS
<1> USE DEF IInv
<1>1. ThreadsTypeOK'
  BY DEF CloseStore, ThreadsTypeOK, history
<1>2. States' /\ Running' /\ Cloned'
  BY DEF CloseStore, States, Running, Cloned, Waiting, history
<1>3. MainConnected' /\ RowsRight' /\ LastIdRight'
  BY DEF CloseStore, MainConnected, RowsRight, LastIdRight, history
<1> QED
  BY <1>1, <1>2, <1>3

LEMMA EndProcessPreserves == IInv /\ EndProcess => IInv'
<1> SUFFICES ASSUME IInv, EndProcess PROVE IInv'
  OBVIOUS
<1> USE DEF IInv
<1>1. /\ conn' \in [Worker \cup {Main} -> {Nobody}]
      /\ \A w \in Worker : pc[w] = "off"
  BY DEF EndProcess, Unconnected, Waiting
<1>2. ThreadsTypeOK'
  BY <1>1 DEF EndProcess, ThreadsTypeOK
<1>3. States' /\ Running' /\ Cloned'
  BY <1>1 DEF EndProcess, States, Running, Cloned
<1>4. MainConnected' /\ RowsRight' /\ LastIdRight'
  BY <1>1 DEF EndProcess, MainConnected, RowsRight, LastIdRight
<1> QED
  BY <1>2, <1>3, <1>4

-----------------------------------------------------------------------------
(* The steps of a query thread: the name stays what it is. *)
LEMMA CopyNamePreserves == ASSUME NEW w \in Worker PROVE IInv /\ CopyName(w) => IInv'
<1> SUFFICES ASSUME IInv, CopyName(w) PROVE IInv'
  OBVIOUS
<1> USE DEF IInv
<1>1. ThreadsTypeOK'
  BY DEF CopyName, ThreadsTypeOK, States, main, history
<1>2. States'
  BY DEF CopyName, States, ThreadsTypeOK
<1>3. Running' /\ Cloned'
  BY DEF CopyName, States, Running, Cloned, main, history
<1>4. MainConnected' /\ RowsRight' /\ LastIdRight'
  BY DEF CopyName, MainConnected, RowsRight, LastIdRight, main, history
<1> QED
  BY <1>1, <1>2, <1>3, <1>4

LEMMA ConnectPreserves == ASSUME NEW w \in Worker PROVE IInv /\ Connect(w) => IInv'
<1> SUFFICES ASSUME IInv, Connect(w) PROVE IInv'
  OBVIOUS
<1> USE DEF IInv
<1>1. path[w] = dbfile /\ dbfile \in File /\ dbfile # Nobody
  BY DEF Connect, Running, ThreadsTypeOK
<1>2. dbfile' = dbfile /\ w # Main
  BY <1>1, ThreadAssumption DEF Connect
<1>3. ThreadsTypeOK'
  BY <1>1, <1>2 DEF Connect, ThreadsTypeOK, States, history
<1>4. States'
  BY DEF Connect, States
<1>5. Running' /\ Cloned'
  BY <1>1, <1>2 DEF Connect, States, Running, Cloned, ThreadsTypeOK, history
<1>6. MainConnected' /\ RowsRight' /\ LastIdRight'
  BY <1>2 DEF Connect, MainConnected, RowsRight, LastIdRight, ThreadsTypeOK, history
<1> QED
  BY <1>3, <1>4, <1>5, <1>6

LEMMA ReleasePreserves == ASSUME NEW w \in Worker PROVE IInv /\ Release(w) => IInv'
<1> SUFFICES ASSUME IInv, Release(w) PROVE IInv'
  OBVIOUS
<1> USE DEF IInv
<1>1. w # Main
  BY ThreadAssumption
<1>2. ThreadsTypeOK'
  BY <1>1 DEF Release, ThreadsTypeOK, States, main, history
<1>3. States'
  BY DEF Release, States
<1>4. Running' /\ Cloned'
  BY DEF Release, States, Running, Cloned, ThreadsTypeOK, main, history
<1>5. MainConnected' /\ RowsRight' /\ LastIdRight'
  BY <1>1 DEF Release, MainConnected, RowsRight, LastIdRight, ThreadsTypeOK, main, history
<1> QED
  BY <1>2, <1>3, <1>4, <1>5

-----------------------------------------------------------------------------
(* The invariant holds of every behaviour. *)
LEMMA InvariantHolds == ThreadsSpec => []IInv
<1>1. ThreadsInit => IInv
  BY InvariantInit
<1>2. IInv /\ [ThreadsNext]_threads => IInv'
  <2> SUFFICES ASSUME IInv, [ThreadsNext]_threads PROVE IInv'
    OBVIOUS
  <2>1. CASE UNCHANGED threads
    BY <2>1 DEF threads, main, history, IInv, ThreadsTypeOK, States, Running, Cloned, MainConnected, RowsRight, LastIdRight
  <2>2. CASE \E s \in Store : OpenStore(s) \/ PrepareTrees(s) \/ RunQueries(s) \/ CloseStore(s)
    BY <2>2, OpenStorePreserves, PrepareTreesPreserves, RunQueriesPreserves, CloseStorePreserves
  <2>3. CASE EndProcess
    BY <2>3, EndProcessPreserves
  <2>4. CASE \E w \in Worker : CopyName(w) \/ Connect(w) \/ Release(w)
    BY <2>4, CopyNamePreserves, ConnectPreserves, ReleasePreserves
  <2> QED
    BY <2>1, <2>2, <2>3, <2>4 DEF ThreadsNext
<1> QED
  BY <1>1, <1>2, PTL DEF ThreadsSpec

(* The variables keep their types: a query thread has a connection exactly *)
(* while it reads, and only stores in use are prepared.                    *)
THEOREM ThreadsTyped == ThreadsSpec => []ThreadsTypeOK
<1>1. IInv => ThreadsTypeOK
  BY DEF IInv
<1> QED
  BY <1>1, InvariantHolds, PTL

(* A query thread reads the catalog of the store its clone was made of,    *)
(* however threads are interleaved, and the rows of a store that met no    *)
(* process that used another are its own (conn_init, clone, MTQ).          *)
THEOREM ThreadsReadTheirs == ThreadsSpec => []ThreadsReadTheirStore
<1>1. IInv => ThreadsReadTheirStore
  BY InvariantSuffices
<1> QED
  BY <1>1, InvariantHolds, PTL
=============================================================================

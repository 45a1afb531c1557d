-------------------------- MODULE SBBForest_proofs --------------------------
(***************************************************************************)
(* Proofs about the queries of SBBForest, for every forest, tree, number   *)
(* of trajectories and shape of theirs.                                    *)
(*                                                                         *)
(* A range query answers exactly the trajectories that enter the circle,   *)
(* each once (RangeAnswers). The invariant follows every box that holds a  *)
(* step into the circle from the root to the answer: as long as its        *)
(* trajectory is no answer, the leaf of the box is under a node on the     *)
(* stack, or the box is an entry not looked at, or its interval is         *)
(* pending, or in the interval merged.                                     *)
(*                                                                         *)
(* A nearest-neighbour query reports trajectories in the order of their    *)
(* true distance (ImplementsKNearest), its queues agree with each other    *)
(* and with m_handlers (QueuesAgree), and it fails only where it is known  *)
(* to (OnlyKnownFailures). The invariant says that exactly one entry       *)
(* leads to each box not read, that an entry bounds what it leads to, and  *)
(* that a candidate is either exact or bounded by what has been read and   *)
(* what the last node visited allows for the rest. What                    *)
(* MutablePriorityQueue_proofs proves of the heap is taken over as H.      *)
(***************************************************************************)
EXTENDS SBBForest, SequenceTheorems, FiniteSetTheorems, TLAPS

H == INSTANCE MutablePriorityQueue_proofs WITH Less <- NN!Less

Pieces == [id : Traj, s : Nat, e : Nat]

(* A box that its trajectory cannot be found without, when no other is. *)
Needs(t, i) ==
  /\ world[t].box[i].rel > 0
  /\ world[t].hits \cap world[t].box[i].s .. world[t].box[i].e - 1 # {}

Holds(p, b) == p.s <= b.s /\ b.e <= p.e

OnStack(t, i) == \E n \in ToSet(stack) : world[t].box[i].leaf \in Under[n]
Postponed(t, i) == \E p \in ToSet(pending[t]) : Holds(p, world[t].box[i])
InHand(t, i) ==
  /\ pc = "pending"
  /\ RQ!Waiting # {}
  /\ merged.id = t
  /\ Holds(merged, world[t].box[i])
Awaited(t, i) == OnStack(t, i) \/ <<t, i>> \in todo \/ Postponed(t, i) \/ InHand(t, i)

-----------------------------------------------------------------------------
(* The invariant of a range query, part by part. *)
Early == {"choose", "root", "crashed"}

RangeKinds ==
  /\ world \in [Traj -> RangeShapes]
  /\ pc \in Early \cup {"descend", "leaf", "pending", "done"}
  /\ stack \in Seq(Inner \cup Leaf)
  /\ \A e \in todo : e[1] \in Traj /\ e[2] \in DOMAIN world[e[1]].box /\ e = <<e[1], e[2]>>
  /\ pending \in [Traj -> Seq(Pieces)]
  /\ \A t \in Traj : \A p \in ToSet(pending[t]) : p.id = t
  /\ pc = "pending" => merged \in Pieces
  /\ reported \in Seq(Traj)

Phases ==
  /\ pc \in Early => stack = <<>> /\ results = {} /\ RQ!Waiting = {}
  /\ pc # "leaf" => todo = {}
  /\ pc \in {"pending", "done"} => stack = <<>>
  /\ pc = "done" => RQ!Waiting = {}
  /\ pc # "choose" /\ ~tree.sbbd => RQ!Waiting = {}

Distinct(s) == \A i, j \in DOMAIN s : s[i] = s[j] => i = j
Once == results = ToSet(reported) /\ Distinct(reported)

Sound == results \subseteq RQ!Answers

(* An answer has no pieces left, and none is merged. *)
Apart ==
  /\ results \cap RQ!Waiting = {}
  /\ pc = "pending" /\ RQ!Waiting # {} =>
       /\ merged.id \notin results
       /\ \A u \in RQ!Waiting : merged.id <= u

Followed ==
  pc \notin Early =>
    \A t \in Traj \ results : \A i \in DOMAIN world[t].box : Needs(t, i) => Awaited(t, i)

RangeInv == RangeKinds /\ Phases /\ Once /\ Sound /\ Apart /\ Followed
IInv == query.kind = "range" => RangeInv

-----------------------------------------------------------------------------
(* Lists of answers. *)
LEMMA SameToSet == \A s : RQ!ToSet(s) = ToSet(s)
BY DEF RQ!ToSet, ToSet

LEMMA Joined ==
  ASSUME NEW S, NEW s \in Seq(S), NEW r \in Seq(S)
  PROVE  /\ s \o r \in Seq(S)
         /\ ToSet(s \o r) = ToSet(s) \cup ToSet(r)
         /\ Len(s) \in Nat /\ DOMAIN s \subseteq Int /\ DOMAIN (s \o r) \subseteq Int
         /\ \A i \in DOMAIN (s \o r) :
              \/ i \in DOMAIN s /\ (s \o r)[i] = s[i]
              \/ i - Len(s) \in DOMAIN r /\ (s \o r)[i] = r[i - Len(s)]
<1>1. /\ s \o r \in Seq(S)
      /\ Len(s \o r) = Len(s) + Len(r)
      /\ \A i \in 1 .. Len(s) + Len(r) :
           (s \o r)[i] = IF i <= Len(s) THEN s[i] ELSE r[i - Len(s)]
  BY ConcatProperties
<1>2. Len(s) \in Nat /\ Len(r) \in Nat /\ DOMAIN s = 1 .. Len(s) /\ DOMAIN r = 1 .. Len(r)
  BY LenProperties
<1>3. DOMAIN (s \o r) = 1 .. Len(s) + Len(r)
  BY <1>1, LenProperties
<1>4. \A i \in DOMAIN s : i \in DOMAIN (s \o r) /\ (s \o r)[i] = s[i]
  BY <1>1, <1>2, <1>3
<1>5. \A j \in DOMAIN r : Len(s) + j \in DOMAIN (s \o r) /\ (s \o r)[Len(s) + j] = r[j]
  BY <1>1, <1>2, <1>3
<1>6. \A i \in DOMAIN (s \o r) :
        \/ i \in DOMAIN s /\ (s \o r)[i] = s[i]
        \/ i - Len(s) \in DOMAIN r /\ (s \o r)[i] = r[i - Len(s)]
  BY <1>1, <1>2, <1>3
<1>7. ToSet(s) \cup ToSet(r) \subseteq ToSet(s \o r)
  BY Zenon, <1>4, <1>5 DEF ToSet
<1>8. ToSet(s \o r) \subseteq ToSet(s) \cup ToSet(r)
  BY <1>6 DEF ToSet
<1> QED BY <1>1, <1>2, <1>3, <1>6, <1>7, <1>8

LEMMA SameCardinality == \A S : RQ!Cardinality(S) = Cardinality(S)
BY Zenon DEF RQ!Cardinality, Cardinality

(* Answers not given yet, each once, may follow those given. *)
LEMMA Longer ==
  ASSUME NEW S, NEW s \in Seq(S), NEW r \in Seq(S), Distinct(s), Distinct(r),
         ToSet(s) \cap ToSet(r) = {}
  PROVE  Distinct(s \o r)
<1> SUFFICES ASSUME NEW i \in DOMAIN (s \o r), NEW j \in DOMAIN (s \o r),
                    (s \o r)[i] = (s \o r)[j]
             PROVE  i = j
  BY DEF Distinct
<1>0. i \in Int /\ j \in Int /\ Len(s) \in Nat
  BY Joined
<1>1. CASE i \in DOMAIN s /\ j \in DOMAIN s /\ (s \o r)[i] = s[i] /\ (s \o r)[j] = s[j]
  BY Zenon, <1>1 DEF Distinct
<1>2. CASE /\ i - Len(s) \in DOMAIN r /\ (s \o r)[i] = r[i - Len(s)]
           /\ j - Len(s) \in DOMAIN r /\ (s \o r)[j] = r[j - Len(s)]
  <2>1. i - Len(s) = j - Len(s)
    BY Zenon, <1>2 DEF Distinct
  <2> QED BY <1>0, <2>1
<1>3. CASE \E a, b \in DOMAIN (s \o r) :
             /\ (s \o r)[a] = (s \o r)[b]
             /\ a \in DOMAIN s /\ (s \o r)[a] = s[a]
             /\ b - Len(s) \in DOMAIN r /\ (s \o r)[b] = r[b - Len(s)]
  BY Zenon, <1>3 DEF ToSet
<1>4. /\ \/ i \in DOMAIN s /\ (s \o r)[i] = s[i]
         \/ i - Len(s) \in DOMAIN r /\ (s \o r)[i] = r[i - Len(s)]
      /\ \/ j \in DOMAIN s /\ (s \o r)[j] = s[j]
         \/ j - Len(s) \in DOMAIN r /\ (s \o r)[j] = r[j - Len(s)]
  BY Joined
<1> QED BY Zenon, <1>1, <1>2, <1>3, <1>4

(* What is put at the end of a list, and taken from either end of it. *)
LEMMA Appended ==
  ASSUME NEW S, NEW s \in Seq(S), NEW x \in S
  PROVE  Append(s, x) \in Seq(S) /\ ToSet(Append(s, x)) = ToSet(s) \cup {x}
<1>1. <<x>> \in Seq(S) /\ Append(s, x) = s \o <<x>>
  BY AppendIsConcat
<1>2. ToSet(<<x>>) = {x}
  BY DEF ToSet
<1>3. s \o <<x>> \in Seq(S) /\ ToSet(s \o <<x>>) = ToSet(s) \cup ToSet(<<x>>)
  BY Zenon, <1>1, Joined
<1> QED BY <1>1, <1>2, <1>3

LEMMA HeadTaken ==
  ASSUME NEW S, NEW s \in Seq(S), s # << >>
  PROVE  /\ Head(s) \in S
         /\ Tail(s) \in Seq(S)
         /\ ToSet(s) = {Head(s)} \cup ToSet(Tail(s))
<1>1. Head(s) \in S /\ Tail(s) \in Seq(S)
  BY HeadTailProperties
<1>2. <<Head(s)>> \in Seq(S) /\ ToSet(<<Head(s)>>) = {Head(s)}
  BY <1>1 DEF ToSet
<1>3. \A a, b \in Seq(S) : ToSet(a \o b) = ToSet(a) \cup ToSet(b)
  BY Joined
<1>4. s = <<Head(s)>> \o Tail(s)
  OBVIOUS
<1> QED BY Zenon, <1>1, <1>2, <1>3, <1>4

LEMMA LastTaken ==
  ASSUME NEW S, NEW s \in Seq(S), s # << >>
  PROVE  /\ RQ!Last(s) \in S
         /\ RQ!Front(s) \in Seq(S)
         /\ ToSet(s) = ToSet(RQ!Front(s)) \cup {RQ!Last(s)}
<1>1. Len(s) \in Nat \ {0} /\ DOMAIN s = 1 .. Len(s) /\ \A k \in DOMAIN s : s[k] \in S
  BY EmptySeq, LenProperties
<1>2. RQ!Last(s) = s[Len(s)]
  BY DEF RQ!Last
<1>3. RQ!Front(s) = [k \in 1 .. Len(s) - 1 |-> s[k]]
  BY <1>1, SubSeqProperties DEF RQ!Front
<1>4. RQ!Front(s) \in Seq(S)
  BY <1>1, <1>3
<1>5. \A k \in DOMAIN s : k = Len(s) \/ (k \in DOMAIN RQ!Front(s) /\ RQ!Front(s)[k] = s[k])
  BY <1>1, <1>3
<1>6. ToSet(s) \subseteq ToSet(RQ!Front(s)) \cup {RQ!Last(s)}
  BY <1>2, <1>5 DEF ToSet
<1>7. \A k \in DOMAIN RQ!Front(s) : k \in DOMAIN s /\ RQ!Front(s)[k] = s[k]
  BY <1>1, <1>3
<1>8. ToSet(RQ!Front(s)) \cup {RQ!Last(s)} \subseteq ToSet(s)
  BY <1>1, <1>2, <1>7 DEF ToSet
<1> QED BY <1>1, <1>2, <1>4, <1>6, <1>8

LEMMA OneAnswer ==
  ASSUME NEW S, NEW x \in S
  PROVE  /\ <<x>> \in Seq(S)
         /\ Distinct(<<x>>)
         /\ ToSet(<<x>>) = {x}
<1>1. <<x>> \in Seq(S) /\ Len(<<x>>) = 1 /\ <<x>>[1] = x /\ DOMAIN <<x>> = {1}
  OBVIOUS
<1> QED BY <1>1 DEF Distinct, ToSet

LEMMA NoAnswer ==
  ASSUME NEW S
  PROVE  << >> \in Seq(S) /\ Distinct(<< >>) /\ ToSet(<< >>) = {}
BY DEF Distinct, ToSet

(* visitData is called with ids that are no answers yet. *)
LEMMA FoundOnce ==
  ASSUME RangeInv, NEW ids \in Seq(Traj), Distinct(ids), ToSet(ids) \cap results = {},
         results' = results \cup ToSet(ids), reported' = reported \o ids
  PROVE  Once' /\ reported' \in Seq(Traj)
<1>1. reported \in Seq(Traj) /\ Distinct(reported) /\ ToSet(reported) = results
  BY DEF RangeInv, RangeKinds, Once
<1>2. /\ reported' \in Seq(Traj)
      /\ ToSet(reported') = ToSet(reported) \cup ToSet(ids)
      /\ Distinct(reported')
  BY <1>1, Joined, Longer
<1> QED BY Zenon, <1>1, <1>2 DEF Once, Distinct, ToSet

LEMMA ReportsOnce ==
  ASSUME RangeInv, NEW id \in Traj \ results, RQ!Reports(id)
  PROVE  Once' /\ reported' \in Seq(Traj)
<1>1. reported' = reported \o <<id>>
  <2>1. reported \in Seq(Traj)
    BY DEF RangeInv, RangeKinds
  <2> QED BY <2>1, AppendIsConcat DEF RQ!Reports
<1>2. <<id>> \in Seq(Traj) /\ Distinct(<<id>>) /\ ToSet(<<id>>) = {id}
  BY OneAnswer
<1> QED BY Zenon, <1>1, <1>2, FoundOnce DEF RQ!Reports

-----------------------------------------------------------------------------
(* What the assumptions say of one trajectory. *)
LEMMA BoxFacts ==
  ASSUME RangeKinds, NEW t \in Traj, NEW i \in DOMAIN world[t].box
  PROVE  /\ world[t].box[i].leaf \in Leaf
         /\ world[t].box[i].rel \in 0 .. 2
         /\ world[t].box[i].s \in Nat
         /\ world[t].box[i].e \in Nat
         /\ world[t].box[i].rel = 2 => Needs(t, i)
<1>1. world[t] \in RangeShapes
  BY DEF RangeKinds
<1> QED BY <1>1, RangeAssumption DEF Needs

(* A trajectory that enters the circle has a box that shows it. *)
LEMMA AnswerNeedsBox ==
  ASSUME RangeKinds, NEW t \in RQ!Answers
  PROVE  t \in Traj /\ \E i \in DOMAIN world[t].box : Needs(t, i)
<1>1. t \in Traj /\ world[t].hits # {}
  BY DEF RQ!Answers
<1>2. world[t] \in RangeShapes
  BY <1>1 DEF RangeKinds
<1>3. PICK h \in world[t].hits : TRUE
  BY <1>1
<1>4. PICK i \in DOMAIN world[t].box :
        world[t].box[i].rel > 0 /\ h \in world[t].box[i].s .. world[t].box[i].e - 1
  BY <1>2, <1>3, RangeAssumption
<1>5. Needs(t, i)
  BY <1>4 DEF Needs
<1> QED BY <1>1, <1>5

(* An interval that holds a box that shows it is entered. *)
LEMMA HeldIsEntered ==
  ASSUME RangeKinds, NEW t \in Traj, NEW i \in DOMAIN world[t].box, Needs(t, i),
         NEW p \in Pieces, p.id = t, Holds(p, world[t].box[i])
  PROVE  RQ!Enters(p)
<1>1. PICK h \in world[t].hits : h \in world[t].box[i].s .. world[t].box[i].e - 1
  BY DEF Needs
<1>2. world[t].box[i].s \in Nat /\ world[t].box[i].e \in Nat
  BY BoxFacts
<1>3. p.s \in Nat /\ p.e \in Nat /\ p.s <= world[t].box[i].s /\ world[t].box[i].e <= p.e
  BY DEF Pieces, Holds
<1>4. h \in p.s .. p.e - 1
  BY <1>1, <1>2, <1>3
<1> QED BY <1>1, <1>4 DEF RQ!Enters

LEMMA EnteredIsAnswer ==
  ASSUME NEW p \in Pieces, RQ!Enters(p)
  PROVE  p.id \in RQ!Answers
BY DEF RQ!Enters, RQ!Answers, Pieces

-----------------------------------------------------------------------------
(* The descent. *)
LEMMA InitRange == Init => IInv
<1> SUFFICES ASSUME Init, query.kind = "range"
             PROVE  RangeInv
  BY DEF IInv
<1> USE DEF Init, RQ!Idle
<1>1. RQ!Waiting = {}
  BY DEF RQ!Waiting
<1>2. RangeKinds
  <2>1. \A t \in Traj : ToSet(pending[t]) = {} /\ pending[t] \in Seq(Pieces)
    BY DEF ToSet
  <2>2. pending \in [Traj -> Seq(Pieces)]
    BY <2>1
  <2> QED BY <2>1, <2>2 DEF RangeKinds, Early
<1>3. Phases
  BY <1>1 DEF Phases
<1>4. Once
  BY DEF Once, Distinct, ToSet
<1>5. Sound /\ Apart /\ Followed
  BY <1>1 DEF Sound, Apart, Followed, Early
<1> QED BY <1>2, <1>3, <1>4, <1>5 DEF RangeInv

(* What a step leaves alone. *)
Same(v) == v' = v

LEMMA ChooseKeeps ==
  ASSUME RangeInv, query.kind = "range", ChooseTree \/ NoTreeTakes
  PROVE  RangeInv'
<1>1. /\ pc = "choose" /\ pc' \in {"root", "crashed"}
      /\ UNCHANGED <<world, stack, todo, results, pending, merged, reported>>
  BY DEF ChooseTree, NoTreeTakes, range
<1>2. RQ!Waiting' = RQ!Waiting /\ RQ!Answers' = RQ!Answers
  BY <1>1 DEF RQ!Waiting, RQ!Answers
<1>3. RangeKinds'
  BY <1>1 DEF RangeInv, RangeKinds, Early
<1>4. Phases'
  BY <1>1, <1>2 DEF RangeInv, Phases, Early
<1>5. Once'
  BY <1>1 DEF RangeInv, Once, Distinct, ToSet
<1>6. Sound' /\ Apart' /\ Followed'
  BY <1>1, <1>2 DEF RangeInv, Sound, Apart, Followed, Early
<1> QED BY <1>3, <1>4, <1>5, <1>6 DEF RangeInv

LEMMA BeginKeeps ==
  ASSUME RangeInv, Same(tree), RQ!Begin
  PROVE  RangeInv'
<1>1. /\ pc = "root" /\ pc' = "descend"
      /\ stack' = IF RQ!Meets(Root) THEN <<Root>> ELSE << >>
      /\ UNCHANGED <<world, todo, results, pending, merged, reported>>
  BY DEF RQ!Begin
<1>2. RQ!Waiting' = RQ!Waiting /\ RQ!Answers' = RQ!Answers
  BY <1>1 DEF RQ!Waiting, RQ!Answers
<1>3. RangeKinds'
  <2>0. <<Root>> \in Seq(Inner \cup Leaf) /\ << >> \in Seq(Inner \cup Leaf)
    BY NodeAssumption
  <2>1. stack' \in Seq(Inner \cup Leaf)
    BY Zenon, <1>1, <2>0
  <2> QED BY <1>1, <2>1 DEF RangeInv, RangeKinds, Early
<1>4. Phases'
  BY <1>1, <1>2 DEF RangeInv, Phases, Early, Same
<1>5. Once'
  BY <1>1 DEF RangeInv, Once, Distinct, ToSet
<1>6. Sound' /\ Apart'
  BY <1>1, <1>2 DEF RangeInv, Sound, Apart
<1>7. Followed'
  <2> SUFFICES ASSUME NEW t \in Traj, NEW i \in DOMAIN world[t].box, Needs(t, i)
               PROVE  OnStack(t, i)'
    BY <1>1 DEF Followed, Needs, Awaited
  <2>1. world[t].box[i].leaf \in Under[Root]
    BY BoxFacts, NodeAssumption DEF RangeInv
  <2>2. RQ!Meets(Root)
    BY <2>1 DEF RQ!Meets, Needs
  <2>3. stack' = <<Root>> /\ world' = world
    BY <1>1, <2>2
  <2>4. Root \in ToSet(stack')
    BY <2>3 DEF ToSet
  <2> QED BY <2>1, <2>3, <2>4 DEF OnStack
<1> QED BY <1>3, <1>4, <1>5, <1>6, <1>7 DEF RangeInv

LEMMA OpenInnerKeeps ==
  ASSUME RangeInv, Same(tree), RQ!OpenInner
  PROVE  RangeInv'
<1> DEFINE n == RQ!Last(stack)
           C == {c \in Children[n] : RQ!Meets(c)}
<1>1. /\ pc = "descend" /\ stack # << >> /\ n \in Inner
      /\ UNCHANGED <<world, pc, todo, results, pending, merged, reported>>
  BY DEF RQ!OpenInner
<1>2. PICK order \in RQ!Orders(C) : stack' = RQ!Front(stack) \o order
  BY Zenon DEF RQ!OpenInner
<1>3. /\ stack \in Seq(Inner \cup Leaf)
      /\ RQ!Front(stack) \in Seq(Inner \cup Leaf)
      /\ ToSet(stack) = ToSet(RQ!Front(stack)) \cup {n}
  BY Zenon, <1>1, LastTaken DEF RangeInv, RangeKinds
<1>4. order \in Seq(Inner \cup Leaf) /\ ToSet(order) = C
  <2>1. IsFiniteSet(Children[n]) /\ Children[n] \subseteq Inner \cup Leaf
    BY <1>1, NodeAssumption
  <2>2. IsFiniteSet(C)
    BY <2>1, FS_Subset
  <2>3. RQ!Cardinality(C) \in Nat
    BY <2>2, FS_CardinalityType, SameCardinality
  <2>4. order \in [1 .. RQ!Cardinality(C) -> C] /\ ToSet(order) = C
    BY SameToSet DEF RQ!Orders
  <2>5. order \in Seq(C)
    BY Zenon, <2>3, <2>4, SeqDef
  <2> QED BY <2>1, <2>4, <2>5
<1>5. stack' \in Seq(Inner \cup Leaf) /\ ToSet(stack') = ToSet(RQ!Front(stack)) \cup C
  BY <1>2, <1>3, <1>4, Joined
<1>6. RQ!Waiting' = RQ!Waiting /\ RQ!Answers' = RQ!Answers
  BY <1>1 DEF RQ!Waiting, RQ!Answers
<1>7. RangeKinds'
  BY <1>1, <1>5 DEF RangeInv, RangeKinds, ToSet
<1>8. Phases'
  BY <1>1, <1>6 DEF RangeInv, Phases, Early, Same
<1>9. Once'
  BY <1>1 DEF RangeInv, Once, Distinct, ToSet
<1>10. Sound' /\ Apart'
  BY <1>1, <1>6 DEF RangeInv, Sound, Apart
<1>11. Followed'
  <2> SUFFICES ASSUME NEW t \in Traj \ results, NEW i \in DOMAIN world[t].box, Needs(t, i)
               PROVE  Awaited(t, i)'
    BY <1>1 DEF Followed, Needs
  <2>1. Awaited(t, i)
    BY <1>1 DEF RangeInv, Followed, Early
  <2>2. CASE world[t].box[i].leaf \in Under[n]
    <3>1. PICK c \in Children[n] : world[t].box[i].leaf \in Under[c]
      BY <1>1, <2>2, NodeAssumption
    <3>2. RQ!Meets(c)
      BY <3>1 DEF RQ!Meets, Needs
    <3> QED BY <1>1, <1>5, <3>1, <3>2 DEF Awaited, OnStack
  <2>3. CASE \E a \in ToSet(RQ!Front(stack)) : world[t].box[i].leaf \in Under[a]
    BY <1>1, <1>5, <2>3 DEF Awaited, OnStack
  <2>4. CASE <<t, i>> \in todo \/ Postponed(t, i)
    BY <1>1, <2>4 DEF Awaited, Postponed, ToSet
  <2>5. ~InHand(t, i)
    BY <1>1 DEF InHand
  <2> QED BY <1>3, <2>1, <2>2, <2>3, <2>4, <2>5 DEF Awaited, OnStack
<1> QED BY <1>7, <1>8, <1>9, <1>10, <1>11 DEF RangeInv

LEMMA OpenLeafKeeps ==
  ASSUME RangeInv, Same(tree), RQ!OpenLeaf
  PROVE  RangeInv'
<1> DEFINE n == RQ!Last(stack)
<1>1. /\ pc = "descend" /\ stack # << >> /\ n \in Leaf
      /\ stack' = RQ!Front(stack) /\ todo' = RQ!EntriesOf(n) /\ pc' = "leaf"
      /\ UNCHANGED <<world, results, pending, merged, reported>>
  BY DEF RQ!OpenLeaf
<1>2. /\ stack' \in Seq(Inner \cup Leaf)
      /\ ToSet(stack) = ToSet(stack') \cup {n}
  BY Zenon, <1>1, LastTaken DEF RangeInv, RangeKinds
<1>3. \A t \in Traj : \A i \in DOMAIN world[t].box :
        world[t].box[i].leaf = n => <<t, i>> \in todo'
  BY <1>1 DEF RQ!EntriesOf
<1>4. \A e \in todo' : e[1] \in Traj /\ e[2] \in DOMAIN world[e[1]].box /\ e = <<e[1], e[2]>>
  BY <1>1 DEF RQ!EntriesOf
<1>5. RQ!Waiting' = RQ!Waiting /\ RQ!Answers' = RQ!Answers
  BY <1>1 DEF RQ!Waiting, RQ!Answers
<1>6. RangeKinds'
  BY <1>1, <1>2, <1>4 DEF RangeInv, RangeKinds, ToSet
<1>7. Phases'
  BY <1>1, <1>5 DEF RangeInv, Phases, Early, Same
<1>8. Once'
  BY <1>1 DEF RangeInv, Once, Distinct, ToSet
<1>9. Sound' /\ Apart'
  BY <1>1, <1>5 DEF RangeInv, Sound, Apart
<1>10. Followed'
  <2> SUFFICES ASSUME NEW t \in Traj \ results, NEW i \in DOMAIN world[t].box, Needs(t, i)
               PROVE  Awaited(t, i)'
    BY <1>1 DEF Followed, Needs
  <2>1. Awaited(t, i)
    BY <1>1 DEF RangeInv, Followed, Early
  <2>2. CASE world[t].box[i].leaf \in Under[n]
    BY <1>1, <1>3, <2>2, NodeAssumption DEF Awaited
  <2>3. CASE \E a \in ToSet(stack') : world[t].box[i].leaf \in Under[a]
    BY <1>1, <2>3 DEF Awaited, OnStack
  <2>4. CASE Postponed(t, i)
    BY <1>1, <2>4 DEF Awaited, Postponed, ToSet
  <2>5. ~InHand(t, i) /\ <<t, i>> \notin todo
    BY <1>1 DEF InHand, RangeInv, Phases
  <2> QED BY <1>2, <2>1, <2>2, <2>3, <2>4, <2>5 DEF Awaited, OnStack
<1> QED BY <1>6, <1>7, <1>8, <1>9, <1>10 DEF RangeInv

LEMMA LeafDoneKeeps ==
  ASSUME RangeInv, Same(tree), RQ!LeafDone
  PROVE  RangeInv'
<1>1. /\ pc = "leaf" /\ todo = {} /\ pc' = "descend"
      /\ UNCHANGED <<world, stack, todo, results, pending, merged, reported>>
  BY DEF RQ!LeafDone
<1>2. RQ!Waiting' = RQ!Waiting /\ RQ!Answers' = RQ!Answers
  BY <1>1 DEF RQ!Waiting, RQ!Answers
<1>3. RangeKinds'
  BY <1>1 DEF RangeInv, RangeKinds, ToSet
<1>4. Phases'
  BY <1>1, <1>2 DEF RangeInv, Phases, Early, Same
<1>5. Once'
  BY <1>1 DEF RangeInv, Once, Distinct, ToSet
<1>6. Sound' /\ Apart'
  BY <1>1, <1>2 DEF RangeInv, Sound, Apart
<1>7. Followed'
  <2> SUFFICES ASSUME NEW t \in Traj \ results, NEW i \in DOMAIN world[t].box, Needs(t, i)
               PROVE  Awaited(t, i)'
    BY <1>1 DEF Followed, Needs
  <2>1. OnStack(t, i) \/ Postponed(t, i)
    BY <1>1 DEF RangeInv, Followed, Early, Awaited, InHand
  <2> QED BY <1>1, <2>1 DEF Awaited, OnStack, Postponed, ToSet
<1> QED BY <1>3, <1>4, <1>5, <1>6, <1>7 DEF RangeInv

-----------------------------------------------------------------------------
(* The entries of a leaf. A box looked at shows its trajectory no longer,  *)
(* or the trajectory is an answer now, or its interval is pending.         *)
LEMMA SkipKeeps ==
  ASSUME RangeInv, Same(tree), NEW e \in todo, RQ!Skip(e)
  PROVE  RangeInv'
<1>1. /\ pc = "leaf" /\ todo' = todo \ {e}
      /\ RQ!Box(e).rel = 0 \/ e[1] \in results
      /\ UNCHANGED <<world, pc, stack, results, pending, merged, reported>>
  BY DEF RQ!Skip, RQ!Look, RQ!NoReport
<1>2. RQ!Waiting' = RQ!Waiting /\ RQ!Answers' = RQ!Answers
  BY <1>1 DEF RQ!Waiting, RQ!Answers
<1>3. RangeKinds'
  BY <1>1 DEF RangeInv, RangeKinds, ToSet
<1>4. Phases'
  BY <1>1, <1>2 DEF RangeInv, Phases, Early, Same
<1>5. Once'
  BY <1>1 DEF RangeInv, Once, Distinct, ToSet
<1>6. Sound' /\ Apart'
  BY <1>1, <1>2 DEF RangeInv, Sound, Apart
<1>7. Followed'
  <2> SUFFICES ASSUME NEW t \in Traj \ results, NEW i \in DOMAIN world[t].box, Needs(t, i)
               PROVE  Awaited(t, i)'
    BY <1>1 DEF Followed, Needs
  <2>1. OnStack(t, i) \/ Postponed(t, i) \/ <<t, i>> \in todo
    BY <1>1 DEF RangeInv, Followed, Early, Awaited, InHand
  <2>2. e # <<t, i>>
    <3> SUFFICES ASSUME e = <<t, i>>
                 PROVE  FALSE
      OBVIOUS
    <3>1. world[t].box[i].rel = 0
      BY <1>1 DEF RQ!Box
    <3> QED BY <3>1 DEF Needs
  <2> QED BY <1>1, <2>1, <2>2 DEF Awaited, OnStack, Postponed, ToSet
<1> QED BY <1>3, <1>4, <1>5, <1>6, <1>7 DEF RangeInv

LEMMA ContainedKeeps ==
  ASSUME RangeInv, Same(tree), NEW e \in todo, RQ!Contained(e)
  PROVE  RangeInv'
<1>1. /\ pc = "leaf" /\ todo' = todo \ {e}
      /\ RQ!Box(e).rel = 2 /\ e[1] \notin results
      /\ pending' = [pending EXCEPT ![e[1]] = << >>]
      /\ results' = results \cup {e[1]}
      /\ UNCHANGED <<world, pc, stack, merged>>
  BY DEF RQ!Contained, RQ!Look, RQ!Reports
<1>2. /\ e[1] \in Traj /\ e[2] \in DOMAIN world[e[1]].box /\ e = <<e[1], e[2]>>
      /\ pending \in [Traj -> Seq(Pieces)]
  BY DEF RangeInv, RangeKinds
<1>3. Once' /\ reported' \in Seq(Traj)
  BY <1>1, <1>2, ReportsOnce DEF RQ!Contained
<1>4. RQ!Answers' = RQ!Answers /\ RQ!Waiting' = RQ!Waiting \ {e[1]}
  BY <1>1, <1>2 DEF RQ!Waiting, RQ!Answers
<1>5. pending' \in [Traj -> Seq(Pieces)]
  BY <1>1, <1>2
<1>6. \A t \in Traj : \A p \in ToSet(pending'[t]) : p.id = t
  BY <1>1, <1>2 DEF RangeInv, RangeKinds, ToSet
<1>7. RangeKinds'
  BY <1>1, <1>3, <1>5, <1>6 DEF RangeInv, RangeKinds, ToSet
<1>8. Phases'
  BY <1>1, <1>4 DEF RangeInv, Phases, Early, Same
<1>9. e[1] \in RQ!Answers
  BY Zenon, <1>1, <1>2, BoxFacts DEF RangeInv, Needs, RQ!Answers, RQ!Box
<1>10. Sound'
  BY <1>1, <1>4, <1>9 DEF RangeInv, Sound
<1>11. Apart'
  BY <1>1, <1>4 DEF RangeInv, Apart
<1>12. Followed'
  <2> SUFFICES ASSUME NEW t \in Traj \ results', NEW i \in DOMAIN world[t].box, Needs(t, i)
               PROVE  Awaited(t, i)'
    BY <1>1 DEF Followed, Needs
  <2>1. t # e[1] /\ t \in Traj \ results
    BY <1>1
  <2>2. OnStack(t, i) \/ Postponed(t, i) \/ <<t, i>> \in todo
    BY <1>1, <2>1 DEF RangeInv, Followed, Early, Awaited, InHand
  <2>3. pending'[t] = pending[t] /\ <<t, i>> # e
    BY <1>1, <1>2, <2>1
  <2> QED BY <1>1, <2>2, <2>3 DEF Awaited, OnStack, Postponed, ToSet
<1> QED BY <1>3, <1>7, <1>8, <1>10, <1>11, <1>12 DEF RangeInv

LEMMA PostponeKeeps ==
  ASSUME RangeInv, Same(tree), NEW e \in todo, RQ!Postpone(e)
  PROVE  RangeInv'
<1>1. /\ pc = "leaf" /\ todo' = todo \ {e} /\ tree.sbbd
      /\ e[1] \notin results
      /\ pending' = [pending EXCEPT ![e[1]] = Append(@, RQ!Piece(e))]
      /\ UNCHANGED <<world, pc, stack, results, reported, merged>>
  BY DEF RQ!Postpone, RQ!Touches, RQ!Look, RQ!NoReport
<1>2. /\ e[1] \in Traj /\ e[2] \in DOMAIN world[e[1]].box /\ e = <<e[1], e[2]>>
      /\ pending \in [Traj -> Seq(Pieces)]
      /\ \A t \in Traj : \A p \in ToSet(pending[t]) : p.id = t
  BY DEF RangeInv, RangeKinds
<1>3. /\ RQ!Piece(e) \in Pieces /\ RQ!Piece(e).id = e[1]
      /\ Holds(RQ!Piece(e), world[e[1]].box[e[2]])
  <2>1. world[e[1]].box[e[2]].s \in Nat /\ world[e[1]].box[e[2]].e \in Nat
    BY <1>2, BoxFacts DEF RangeInv
  <2> QED BY <1>2, <2>1 DEF RQ!Piece, RQ!Box, Pieces, Holds
<1>4. /\ pending'[e[1]] \in Seq(Pieces)
      /\ ToSet(pending'[e[1]]) = ToSet(pending[e[1]]) \cup {RQ!Piece(e)}
  BY <1>1, <1>2, <1>3, Appended
<1>5. \A t \in Traj : t # e[1] => pending'[t] = pending[t]
  BY <1>1, <1>2
<1>6. pending' \in [Traj -> Seq(Pieces)]
  BY <1>1, <1>2, <1>4
<1>7. \A t \in Traj : \A p \in ToSet(pending'[t]) : p.id = t
  BY <1>2, <1>3, <1>4, <1>5
<1>8. RQ!Answers' = RQ!Answers /\ RQ!Waiting' \subseteq RQ!Waiting \cup {e[1]}
  BY <1>1, <1>5 DEF RQ!Waiting, RQ!Answers
<1>9. RangeKinds'
  BY <1>1, <1>6, <1>7 DEF RangeInv, RangeKinds, ToSet
<1>10. Phases'
  BY <1>1 DEF RangeInv, Phases, Early, Same
<1>11. Once'
  BY <1>1 DEF RangeInv, Once, Distinct, ToSet
<1>12. Sound' /\ Apart'
  BY <1>1, <1>8 DEF RangeInv, Sound, Apart
<1>13. Followed'
  <2> SUFFICES ASSUME NEW t \in Traj \ results, NEW i \in DOMAIN world[t].box, Needs(t, i)
               PROVE  Awaited(t, i)'
    BY <1>1 DEF Followed, Needs
  <2>1. OnStack(t, i) \/ Postponed(t, i) \/ <<t, i>> \in todo
    BY <1>1 DEF RangeInv, Followed, Early, Awaited, InHand
  <2>2. CASE Postponed(t, i)
    <3>1. ToSet(pending[t]) \subseteq ToSet(pending'[t])
      BY <1>4, <1>5
    <3> QED BY <1>1, <2>2, <3>1 DEF Awaited, Postponed
  <2>3. CASE OnStack(t, i)
    BY <1>1, <2>3 DEF Awaited, OnStack, ToSet
  <2>4. CASE e = <<t, i>>
    BY Zenon, <1>1, <1>3, <1>4, <2>4 DEF Awaited, Postponed
  <2> QED BY <1>1, <2>1, <2>2, <2>3, <2>4 DEF Awaited
<1> QED BY <1>9, <1>10, <1>11, <1>12, <1>13 DEF RangeInv

LEMMA TestPartKeeps ==
  ASSUME RangeInv, Same(tree), NEW e \in todo, RQ!TestPart(e)
  PROVE  RangeInv'
<1>1. /\ pc = "leaf" /\ todo' = todo \ {e} /\ ~tree.sbbd
      /\ e[1] \notin results
      /\ UNCHANGED <<world, pc, stack, pending, merged>>
  BY DEF RQ!TestPart, RQ!Touches, RQ!Look
<1>2. e[1] \in Traj /\ e[2] \in DOMAIN world[e[1]].box /\ e = <<e[1], e[2]>>
  BY DEF RangeInv, RangeKinds
<1>3. /\ RQ!Piece(e) \in Pieces /\ RQ!Piece(e).id = e[1]
      /\ Holds(RQ!Piece(e), world[e[1]].box[e[2]])
  <2>1. world[e[1]].box[e[2]].s \in Nat /\ world[e[1]].box[e[2]].e \in Nat
    BY <1>2, BoxFacts DEF RangeInv
  <2> QED BY <1>2, <2>1 DEF RQ!Piece, RQ!Box, Pieces, Holds
<1>4. RQ!Answers' = RQ!Answers /\ RQ!Waiting' = RQ!Waiting
  BY <1>1 DEF RQ!Waiting, RQ!Answers
<1>5. RQ!Waiting = {}
  BY <1>1 DEF RangeInv, Phases
<1>6. /\ Once' /\ reported' \in Seq(Traj)
      /\ results \subseteq results'
      /\ results' \subseteq results \cup {e[1]}
      /\ RQ!Enters(RQ!Piece(e)) => e[1] \in results'
      /\ ~RQ!Enters(RQ!Piece(e)) => results' = results
  <2>1. CASE RQ!Enters(RQ!Piece(e))
    <3>1. RQ!Reports(e[1])
      BY <2>1 DEF RQ!TestPart
    <3>2. Once' /\ reported' \in Seq(Traj)
      BY <1>1, <1>2, <3>1, ReportsOnce
    <3> QED BY <2>1, <3>1, <3>2 DEF RQ!Reports
  <2>2. CASE ~RQ!Enters(RQ!Piece(e))
    <3>1. results' = results /\ reported' = reported
      BY <2>2 DEF RQ!TestPart, RQ!NoReport
    <3>2. Once' /\ reported' \in Seq(Traj)
      BY <3>1 DEF RangeInv, RangeKinds, Once, Distinct, ToSet
    <3> QED BY <2>2, <3>1, <3>2
  <2> QED BY <2>1, <2>2
<1>7. RangeKinds'
  BY <1>1, <1>6 DEF RangeInv, RangeKinds, ToSet
<1>8. Phases'
  BY <1>1, <1>4 DEF RangeInv, Phases, Early, Same
<1>9. Sound'
  BY <1>3, <1>4, <1>6, EnteredIsAnswer DEF RangeInv, Sound
<1>10. Apart'
  BY <1>1, <1>4, <1>5 DEF Apart
<1>11. Followed'
  <2> SUFFICES ASSUME NEW t \in Traj \ results', NEW i \in DOMAIN world[t].box, Needs(t, i)
               PROVE  Awaited(t, i)'
    BY <1>1 DEF Followed, Needs
  <2>1. OnStack(t, i) \/ Postponed(t, i) \/ <<t, i>> \in todo
    BY <1>1, <1>6 DEF RangeInv, Followed, Early, Awaited, InHand
  <2>2. e # <<t, i>>
    <3> SUFFICES ASSUME e = <<t, i>>
                 PROVE  FALSE
      OBVIOUS
    <3>1. RQ!Enters(RQ!Piece(e))
      BY <1>2, <1>3, HeldIsEntered DEF RangeInv
    <3> QED BY <1>6, <3>1
  <2> QED BY <1>1, <2>1, <2>2 DEF Awaited, OnStack, Postponed, ToSet
<1> QED BY <1>6, <1>7, <1>8, <1>9, <1>10, <1>11 DEF RangeInv

LEMMA DescendedKeeps ==
  ASSUME RangeInv, Same(tree), RQ!Descended
  PROVE  RangeInv'
<1>1. /\ pc = "descend" /\ stack = << >>
      /\ UNCHANGED <<world, stack, todo, pending, results, reported>>
  BY DEF RQ!Descended, RQ!NoReport
<1>2. RQ!Answers' = RQ!Answers /\ RQ!Waiting' = RQ!Waiting
  BY <1>1 DEF RQ!Waiting, RQ!Answers
<1>3. \/ RQ!Waiting = {} /\ pc' = "done"
      \/ /\ RQ!Waiting # {} /\ pc' = "pending"
         /\ merged' \in Pieces
         /\ merged'.id \in RQ!Waiting
         /\ \A u \in RQ!Waiting : merged'.id <= u
  <2>1. CASE RQ!Waiting = {}
    BY <2>1 DEF RQ!Descended
  <2>2. CASE RQ!Waiting # {}
    <3>1. PICK t \in RQ!Waiting : RQ!First(t) /\ merged' = Head(pending[t]) /\ pc' = "pending"
      BY <2>2 DEF RQ!Descended
    <3>2. /\ t \in Traj /\ pending[t] \in Seq(Pieces) /\ pending[t] # << >>
          /\ \A p \in ToSet(pending[t]) : p.id = t
      BY <3>1 DEF RQ!Waiting, RangeInv, RangeKinds
    <3>3. merged' \in Pieces /\ merged'.id = t
      BY <3>1, <3>2, HeadTaken
    <3> QED BY <2>2, <3>1, <3>3 DEF RQ!First
  <2> QED BY <2>1, <2>2
<1>4. RangeKinds'
  BY <1>1, <1>3 DEF RangeInv, RangeKinds, ToSet
<1>5. Phases'
  BY <1>1, <1>2, <1>3 DEF RangeInv, Phases, Early, Same
<1>6. Once'
  BY <1>1 DEF RangeInv, Once, Distinct, ToSet
<1>7. Sound' /\ Apart'
  BY <1>1, <1>2, <1>3 DEF RangeInv, Sound, Apart
<1>8. Followed'
  <2> SUFFICES ASSUME NEW t \in Traj \ results, NEW i \in DOMAIN world[t].box, Needs(t, i)
               PROVE  Awaited(t, i)'
    BY <1>1 DEF Followed, Needs
  <2>1. OnStack(t, i) \/ Postponed(t, i) \/ <<t, i>> \in todo
    BY <1>1 DEF RangeInv, Followed, Early, Awaited, InHand
  <2> QED BY <1>1, <2>1 DEF Awaited, OnStack, Postponed, ToSet
<1> QED BY <1>4, <1>5, <1>6, <1>7, <1>8 DEF RangeInv

-----------------------------------------------------------------------------
(* The pending pieces. *)
LEMMA RoundFacts ==
  ASSUME RangeInv, NEW t, RQ!Round(t)
  PROVE  /\ pc = "pending" /\ pc' = "pending" /\ stack = << >> /\ todo = {}
         /\ UNCHANGED <<world, stack, todo>>
         /\ t \in Traj \ results
         /\ Head(pending[t]) \in Pieces /\ Head(pending[t]).id = t
         /\ merged \in Pieces /\ merged.id \in Traj \ results /\ merged.id <= t
         /\ pending' \in [Traj -> Seq(Pieces)]
         /\ ToSet(pending[t]) = {Head(pending[t])} \cup ToSet(pending'[t])
         /\ \A u \in Traj : u # t => pending'[u] = pending[u]
         /\ \A u \in Traj : \A p \in ToSet(pending'[u]) : p.id = u
         /\ RQ!Waiting' \subseteq RQ!Waiting
         /\ \A u \in RQ!Waiting : t <= u
         /\ RQ!Answers' = RQ!Answers
<1>1. /\ pc = "pending" /\ pc' = pc
      /\ t \in RQ!Waiting /\ \A u \in RQ!Waiting : t <= u
      /\ pending' = [pending EXCEPT ![t] = Tail(@)]
      /\ UNCHANGED <<world, stack, todo>>
  BY DEF RQ!Round, RQ!First
<1>2. t \in Traj /\ pending[t] # << >>
  BY <1>1 DEF RQ!Waiting
<1>3. /\ pending \in [Traj -> Seq(Pieces)]
      /\ \A u \in Traj : \A p \in ToSet(pending[u]) : p.id = u
      /\ merged \in Pieces
      /\ stack = << >> /\ todo = {}
  BY <1>1 DEF RangeInv, RangeKinds, Phases
<1>4. t \notin results /\ merged.id \notin results /\ merged.id <= t
  BY <1>1 DEF RangeInv, Apart
<1>5. merged.id \in Traj
  BY <1>3 DEF Pieces
<1>6. /\ Head(pending[t]) \in Pieces
      /\ Tail(pending[t]) \in Seq(Pieces)
      /\ ToSet(pending[t]) = {Head(pending[t])} \cup ToSet(Tail(pending[t]))
  BY <1>2, <1>3, HeadTaken
<1>7. /\ pending'[t] = Tail(pending[t])
      /\ \A u \in Traj : u # t => pending'[u] = pending[u]
      /\ pending' \in [Traj -> Seq(Pieces)]
  BY <1>1, <1>2, <1>3, <1>6
<1>8. \A u \in Traj : ToSet(pending'[u]) \subseteq ToSet(pending[u])
  BY <1>6, <1>7
<1>9. RQ!Waiting' \subseteq RQ!Waiting /\ RQ!Answers' = RQ!Answers
  BY <1>1, <1>2, <1>7 DEF RQ!Waiting, RQ!Answers
<1> QED BY <1>1, <1>2, <1>3, <1>4, <1>5, <1>6, <1>7, <1>8, <1>9

(* Every round: the answers found are new and no pieces of theirs are left;*)
(* what was merged or pending is merged now, or its trajectory an answer.  *)
LEMMA RoundKeeps ==
  ASSUME RangeInv, Same(tree), NEW t, RQ!Round(t),
         NEW ids \in Seq(Traj), Distinct(ids),
         ToSet(ids) \cap results = {}, ToSet(ids) \subseteq RQ!Answers,
         results' = results \cup ToSet(ids), reported' = reported \o ids,
         RQ!Waiting' # {} => ToSet(ids) \subseteq {merged.id} \ {t},
         merged' \in Pieces, merged'.id = t,
         \A u \in Traj \ results' : \A i \in DOMAIN world[u].box :
           /\ Needs(u, i)
           /\ \/ merged.id = u /\ Holds(merged, world[u].box[i])
              \/ t = u /\ Holds(Head(pending[t]), world[u].box[i])
           => RQ!Waiting' # {} /\ t = u /\ Holds(merged', world[u].box[i])
  PROVE  RangeInv'
<1>1. Once' /\ reported' \in Seq(Traj)
  BY FoundOnce
<1>2. RangeKinds'
  BY <1>1, RoundFacts DEF RangeInv, RangeKinds, ToSet
<1>3. Phases'
  BY RoundFacts DEF RangeInv, Phases, Early, Same
<1>4. Sound'
  BY RoundFacts DEF RangeInv, Sound
<1>5. Apart'
  <2>1. results' \cap RQ!Waiting' = {}
    <3> SUFFICES ASSUME NEW u \in results', u \in RQ!Waiting'
                 PROVE  FALSE
      OBVIOUS
    <3>1. u \in RQ!Waiting /\ t <= u /\ merged.id <= t
      BY RoundFacts
    <3>2. u = merged.id /\ u # t
      BY <3>1 DEF RangeInv, Apart
    <3>3. t \in Int /\ u \in Int
      BY Zenon, <3>2, RoundFacts, NodeAssumption
    <3> QED BY <3>1, <3>2, <3>3
  <2>2. RQ!Waiting' # {} => t \notin results' /\ \A u \in RQ!Waiting' : t <= u
    BY RoundFacts
  <2> QED BY <2>1, <2>2 DEF Apart
<1>6. Followed'
  <2> SUFFICES ASSUME NEW u \in Traj \ results', NEW i \in DOMAIN world[u].box, Needs(u, i)
               PROVE  Awaited(u, i)'
    BY RoundFacts DEF Followed, Needs
  <2>1. u \in Traj \ results /\ ~OnStack(u, i) /\ <<u, i>> \notin todo
    BY RoundFacts DEF OnStack, ToSet
  <2>2. Postponed(u, i) \/ InHand(u, i)
    BY <2>1, RoundFacts DEF RangeInv, Followed, Early, Awaited
  <2>3. CASE /\ Needs(u, i)
             /\ \/ merged.id = u /\ Holds(merged, world[u].box[i])
                \/ t = u /\ Holds(Head(pending[t]), world[u].box[i])
    BY <2>3, RoundFacts DEF Awaited, InHand, Holds
  <2>4. CASE \E p \in ToSet(pending'[u]) : Holds(p, world[u].box[i])
    BY Zenon, <2>4, RoundFacts DEF Awaited, Postponed, Holds
  <2>5. /\ ToSet(pending[t]) = {Head(pending[t])} \cup ToSet(pending'[t])
        /\ u # t => pending'[u] = pending[u]
    BY Zenon, <2>1, RoundFacts
  <2>6. CASE InHand(u, i)
    BY <2>3, <2>6 DEF InHand
  <2>7. CASE Postponed(u, i)
    <3>1. PICK p \in ToSet(pending[u]) : Holds(p, world[u].box[i])
      BY <2>7 DEF Postponed
    <3>2. p \in ToSet(pending'[u]) \/ (t = u /\ p = Head(pending[t]))
      BY Zenon, <2>5, <3>1
    <3> QED BY <2>3, <2>4, <3>1, <3>2
  <2> QED BY <2>2, <2>6, <2>7
<1> QED BY <1>1, <1>2, <1>3, <1>4, <1>5, <1>6 DEF RangeInv

(* The merged interval holds both. *)
LEMMA Merged ==
  ASSUME NEW a \in Pieces, NEW b \in Pieces
  PROVE  /\ RQ!Merge(a, b) \in Pieces /\ RQ!Merge(a, b).id = b.id
         /\ \A x : x.s \in Nat /\ x.e \in Nat /\ (Holds(a, x) \/ Holds(b, x))
                   => Holds(RQ!Merge(a, b), x)
<1>1. a.s \in Nat /\ a.e \in Nat /\ b.s \in Nat /\ b.e \in Nat /\ b.id \in Traj
  BY DEF Pieces
<1> DEFINE s == IF a.s <= b.s THEN a.s ELSE b.s
           e == IF a.e >= b.e THEN a.e ELSE b.e
<1>2. RQ!Merge(a, b) = [id |-> b.id, s |-> s, e |-> e]
  BY DEF RQ!Merge
<1>3. /\ s \in Nat /\ s <= a.s /\ s <= b.s
      /\ e \in Nat /\ a.e <= e /\ b.e <= e
  BY <1>1
<1> HIDE DEF s, e
<1>4. RQ!Merge(a, b) \in Pieces /\ RQ!Merge(a, b).id = b.id
  BY <1>1, <1>2, <1>3 DEF Pieces
<1>5. RQ!Merge(a, b).s = s /\ RQ!Merge(a, b).e = e
  BY <1>2
<1> QED BY <1>1, <1>3, <1>4, <1>5 DEF Holds

LEMMA Tested ==
  ASSUME NEW p \in Pieces
  PROVE  /\ RQ!Test(p) \in Seq(Traj)
         /\ Distinct(RQ!Test(p))
         /\ ToSet(RQ!Test(p)) = IF RQ!Enters(p) THEN {p.id} ELSE {}
         /\ ToSet(RQ!Test(p)) \subseteq RQ!Answers
<1>1. p.id \in Traj
  BY DEF Pieces
<1>2. CASE RQ!Enters(p)
  BY <1>1, <1>2, OneAnswer, EnteredIsAnswer DEF RQ!Test
<1>3. CASE ~RQ!Enters(p)
  BY <1>3, NoAnswer DEF RQ!Test
<1> QED BY <1>2, <1>3

LEMMA MergePieceKeeps ==
  ASSUME RangeInv, Same(tree), NEW t, RQ!MergePiece(t)
  PROVE  RangeInv'
<1> DEFINE p == Head(pending[t])
           none == << >>
<1>1. /\ RQ!Round(t) /\ t = merged.id /\ RQ!Waiting' # {}
      /\ merged' = RQ!Merge(merged, p)
      /\ results' = results /\ reported' = reported
  BY DEF RQ!MergePiece, RQ!More, RQ!NoReport
<1>2. merged \in Pieces /\ p \in Pieces /\ p.id = t
  BY <1>1, RoundFacts
<1>3. none \in Seq(Traj) /\ Distinct(none) /\ ToSet(none) = {}
  BY NoAnswer
<1>4. results' = results \cup ToSet(none) /\ reported' = reported \o none
  <2>1. reported \in Seq(Traj)
    BY DEF RangeInv, RangeKinds
  <2> QED BY <1>1, <1>3, <2>1, ConcatEmptySeq
<1> HIDE DEF none
<1>5. \A u \in Traj : \A i \in DOMAIN world[u].box :
        /\ \/ merged.id = u /\ Holds(merged, world[u].box[i])
           \/ t = u /\ Holds(p, world[u].box[i])
        => t = u /\ Holds(merged', world[u].box[i])
  BY <1>1, <1>2, Merged, BoxFacts DEF RangeInv
<1>6. merged' \in Pieces /\ merged'.id = t
  BY <1>1, <1>2, Merged
<1>7. /\ ToSet(none) \cap results = {} /\ ToSet(none) \subseteq RQ!Answers
      /\ RQ!Waiting' # {} => ToSet(none) \subseteq {merged.id} \ {t}
  BY <1>3
<1>8. \A u \in Traj \ results' : \A i \in DOMAIN world[u].box :
        /\ Needs(u, i)
        /\ \/ merged.id = u /\ Holds(merged, world[u].box[i])
           \/ t = u /\ Holds(p, world[u].box[i])
        => RQ!Waiting' # {} /\ t = u /\ Holds(merged', world[u].box[i])
  BY <1>1, <1>5
<1> HIDE DEF p
<1> QED BY Zenon, <1>1, <1>3, <1>4, <1>6, <1>7, <1>8, RoundKeeps DEF p

LEMMA TestLastPieceKeeps ==
  ASSUME RangeInv, Same(tree), NEW t, RQ!TestLastPiece(t)
  PROVE  RangeInv'
<1> DEFINE p == Head(pending[t])
           m == RQ!Merge(merged, p)
           ids == RQ!Test(m)
<1>1. /\ RQ!Round(t) /\ t = merged.id /\ RQ!Waiting' = {}
      /\ merged' = p
      /\ results' = results \cup ToSet(ids) /\ reported' = reported \o ids
  BY SameToSet DEF RQ!TestLastPiece, RQ!More, RQ!Found
<1>2. merged \in Pieces /\ p \in Pieces /\ p.id = t /\ t \in Traj \ results
  BY <1>1, RoundFacts
<1>3. m \in Pieces /\ m.id = t
  BY <1>2, Merged
<1> HIDE DEF m
<1>4. /\ ids \in Seq(Traj) /\ Distinct(ids) /\ ToSet(ids) \subseteq RQ!Answers
      /\ ToSet(ids) = IF RQ!Enters(m) THEN {m.id} ELSE {}
  BY <1>3, Tested
<1> HIDE DEF ids
<1>5. ASSUME NEW u \in Traj, NEW i \in DOMAIN world[u].box, Needs(u, i),
             \/ merged.id = u /\ Holds(merged, world[u].box[i])
             \/ t = u /\ Holds(p, world[u].box[i])
      PROVE  u \in results'
  <2>1. u = t /\ Holds(m, world[u].box[i])
    BY <1>1, <1>2, <1>5, Merged, BoxFacts DEF RangeInv, m
  <2>2. RQ!Enters(m)
    BY <1>3, <1>5, <2>1, HeldIsEntered DEF RangeInv
  <2> QED BY <1>1, <1>3, <1>4, <2>1, <2>2
<1>6. ToSet(ids) \cap results = {}
  BY <1>2, <1>3, <1>4
<1> QED BY Zenon, <1>1, <1>2, <1>4, <1>5, <1>6, RoundKeeps

LEMMA TestMergedKeeps ==
  ASSUME RangeInv, Same(tree), NEW t, RQ!TestMerged(t)
  PROVE  RangeInv'
<1> DEFINE p == Head(pending[t])
           one == RQ!Test(merged)
           two == IF RQ!Waiting' # {} THEN << >> ELSE RQ!Test(p)
           ids == one \o two
<1>1. /\ RQ!Round(t) /\ t # merged.id
      /\ merged' = p
      /\ results' = results \cup ToSet(ids) /\ reported' = reported \o ids
  BY SameToSet DEF RQ!TestMerged, RQ!More, RQ!Found
<1>2. /\ merged \in Pieces /\ p \in Pieces /\ p.id = t /\ t \in Traj \ results
      /\ merged.id \in Traj \ results
  BY <1>1, RoundFacts
<1>3. /\ one \in Seq(Traj) /\ Distinct(one) /\ ToSet(one) \subseteq RQ!Answers
      /\ ToSet(one) = IF RQ!Enters(merged) THEN {merged.id} ELSE {}
  BY <1>2, Tested
<1>4. /\ two \in Seq(Traj) /\ Distinct(two) /\ ToSet(two) \subseteq RQ!Answers
      /\ ToSet(two) = IF RQ!Waiting' = {} /\ RQ!Enters(p) THEN {t} ELSE {}
  <2>1. CASE RQ!Waiting' = {}
    BY Zenon, <1>2, <2>1, Tested
  <2>2. CASE RQ!Waiting' # {}
    BY <2>2, NoAnswer
  <2> QED BY <2>1, <2>2
<1> HIDE DEF one, two
<1>5. /\ ids \in Seq(Traj) /\ Distinct(ids)
      /\ ToSet(ids) = ToSet(one) \cup ToSet(two)
  <2>1. ToSet(one) \cap ToSet(two) = {}
    BY <1>1, <1>3, <1>4
  <2> QED BY <1>3, <1>4, <2>1, Joined, Longer
<1> HIDE DEF ids
<1>6. ASSUME NEW u \in Traj \ results', NEW i \in DOMAIN world[u].box, Needs(u, i),
             \/ merged.id = u /\ Holds(merged, world[u].box[i])
             \/ t = u /\ Holds(p, world[u].box[i])
      PROVE  RQ!Waiting' # {} /\ t = u /\ Holds(merged', world[u].box[i])
  <2>1. CASE merged.id = u /\ Holds(merged, world[u].box[i])
    <3>1. RQ!Enters(merged)
      BY <1>2, <1>6, <2>1, HeldIsEntered DEF RangeInv
    <3> QED BY <1>1, <1>3, <1>5, <1>6, <2>1, <3>1
  <2>2. CASE t = u /\ Holds(p, world[u].box[i])
    <3>1. RQ!Enters(p)
      BY <1>2, <1>6, <2>2, HeldIsEntered DEF RangeInv
    <3> QED BY <1>1, <1>4, <1>5, <1>6, <2>2, <3>1
  <2> QED BY <1>6, <2>1, <2>2
<1>7. /\ ToSet(ids) \cap results = {} /\ ToSet(ids) \subseteq RQ!Answers
      /\ RQ!Waiting' # {} => ToSet(ids) \subseteq {merged.id} \ {t}
  BY <1>1, <1>2, <1>3, <1>4, <1>5
<1> QED BY Zenon, <1>1, <1>2, <1>5, <1>6, <1>7, RoundKeeps

LEMMA PendingDoneKeeps ==
  ASSUME RangeInv, Same(tree), RQ!PendingDone
  PROVE  RangeInv'
<1>1. /\ pc = "pending" /\ RQ!Waiting = {} /\ pc' = "done"
      /\ UNCHANGED <<world, stack, todo, pending, merged, results, reported>>
  BY DEF RQ!PendingDone, RQ!NoReport
<1>2. RQ!Answers' = RQ!Answers /\ RQ!Waiting' = RQ!Waiting
  BY <1>1 DEF RQ!Waiting, RQ!Answers
<1>3. RangeKinds'
  BY <1>1 DEF RangeInv, RangeKinds, ToSet
<1>4. Phases'
  BY <1>1, <1>2 DEF RangeInv, Phases, Early, Same
<1>5. Once'
  BY <1>1 DEF RangeInv, Once, Distinct, ToSet
<1>6. Sound' /\ Apart'
  BY <1>1, <1>2 DEF RangeInv, Sound, Apart
<1>7. Followed'
  <2> SUFFICES ASSUME NEW t \in Traj \ results, NEW i \in DOMAIN world[t].box, Needs(t, i)
               PROVE  Awaited(t, i)'
    BY <1>1 DEF Followed, Needs
  <2>1. OnStack(t, i) \/ Postponed(t, i) \/ <<t, i>> \in todo
    BY <1>1 DEF RangeInv, Followed, Early, Awaited, InHand
  <2> QED BY <1>1, <2>1 DEF Awaited, OnStack, Postponed, ToSet
<1> QED BY <1>3, <1>4, <1>5, <1>6, <1>7 DEF RangeInv

-----------------------------------------------------------------------------
(* A step of the range query keeps the invariant of range queries. *)
LEMMA QueryKeeps ==
  ASSUME RangeInv, IntersectsWithQuery
  PROVE  RangeInv'
<1>1. RQ!Next /\ Same(tree)
  BY DEF IntersectsWithQuery, Same
<1>2. CASE RQ!Begin
  BY <1>1, <1>2, BeginKeeps
<1>3. CASE RQ!OpenInner
  BY <1>1, <1>3, OpenInnerKeeps
<1>4. CASE RQ!OpenLeaf
  BY <1>1, <1>4, OpenLeafKeeps
<1>5. CASE RQ!LeafDone
  BY <1>1, <1>5, LeafDoneKeeps
<1>6. CASE RQ!Descended
  BY <1>1, <1>6, DescendedKeeps
<1>7. CASE RQ!PendingDone
  BY <1>1, <1>7, PendingDoneKeeps
<1>8. CASE \E e \in todo : RQ!Skip(e) \/ RQ!Contained(e) \/ RQ!Postpone(e) \/ RQ!TestPart(e)
  BY <1>1, <1>8, SkipKeeps, ContainedKeeps, PostponeKeeps, TestPartKeeps
<1>9. CASE \E t \in Traj : RQ!MergePiece(t) \/ RQ!TestLastPiece(t) \/ RQ!TestMerged(t)
  BY <1>1, <1>9, MergePieceKeeps, TestLastPieceKeeps, TestMergedKeeps
<1> QED BY <1>1, <1>2, <1>3, <1>4, <1>5, <1>6, <1>7, <1>8, <1>9 DEF RQ!Next

(* No step changes the query. *)
LEMMA QueryStays == ASSUME [Next]_vars PROVE query' = query
<1>1. CASE ChooseTree \/ NoTreeTakes
  BY <1>1 DEF ChooseTree, NoTreeTakes
<1>2. CASE NearestNeighborQuery
  BY <1>2 DEF NearestNeighborQuery, NN!Next, NN!Exhausted, NN!TopNode, NN!TopCandidate,
              NN!TopUpdates, NN!TopReturns, NN!Stop, NN!VisitNode, NN!PushChild,
              NN!ChildrenPushed, NN!VisitBox, NN!Report, NN!Fail, NN!rigid
<1>3. CASE IntersectsWithQuery
  BY <1>3 DEF IntersectsWithQuery
<1>4. CASE UNCHANGED vars
  BY <1>4 DEF vars
<1> QED BY <1>1, <1>2, <1>3, <1>4 DEF Next

LEMMA NextRange == IInv /\ [Next]_vars => IInv'
<1> SUFFICES ASSUME IInv, [Next]_vars, query.kind = "range"
             PROVE  RangeInv'
  BY QueryStays DEF IInv
<1>0. RangeInv
  BY DEF IInv
<1>1. CASE ChooseTree \/ NoTreeTakes
  BY <1>0, <1>1, ChooseKeeps
<1>2. ~NearestNeighborQuery
  BY DEF NearestNeighborQuery
<1>3. CASE IntersectsWithQuery
  BY <1>0, <1>3, QueryKeeps
<1>4. CASE UNCHANGED vars
  <2>1. UNCHANGED <<tree, world, pc, stack, todo, results, pending, merged, reported>>
    BY <1>4 DEF vars, range
  <2>2. RQ!Answers' = RQ!Answers /\ RQ!Waiting' = RQ!Waiting
    BY <2>1 DEF RQ!Waiting, RQ!Answers
  <2>3. RangeKinds' /\ Once'
    BY <1>0, <2>1 DEF RangeInv, RangeKinds, Once, Distinct, ToSet
  <2>4. Phases' /\ Sound' /\ Apart'
    BY <1>0, <2>1, <2>2 DEF RangeInv, Phases, Sound, Apart
  <2>5. Followed'
    BY <1>0, <2>1, <2>2
       DEF RangeInv, Followed, Needs, Awaited, OnStack, Postponed, InHand, Holds, ToSet
  <2> QED BY <2>3, <2>4, <2>5 DEF RangeInv
<1> QED BY <1>1, <1>2, <1>3, <1>4 DEF Next

(* Nothing is awaited any more when the query is done. *)
LEMMA RangeAnswersFollow == IInv => RangeAnswers
<1> SUFFICES ASSUME RangeInv, query.kind = "range"
             PROVE  /\ \A i, j \in DOMAIN reported : reported[i] = reported[j] => i = j
                    /\ ToSet(reported) \subseteq RQ!Answers
                    /\ pc = "done" => ToSet(reported) = RQ!Answers
  BY DEF IInv, RangeAnswers
<1>1. Distinct(reported) /\ ToSet(reported) \subseteq RQ!Answers /\ ToSet(reported) = results
  BY DEF RangeInv, Once, Sound
<1>2. ASSUME pc = "done", NEW t \in RQ!Answers
      PROVE  t \in results
  <2>1. PICK i \in DOMAIN world[t].box : Needs(t, i)
    BY AnswerNeedsBox DEF RangeInv
  <2>2. t \in Traj
    BY AnswerNeedsBox DEF RangeInv
  <2>3. stack = << >> /\ todo = {} /\ RQ!Waiting = {}
    BY <1>2 DEF RangeInv, Phases
  <2>4. ~Awaited(t, i)
    BY <1>2, <2>2, <2>3 DEF Awaited, OnStack, Postponed, InHand, ToSet, RQ!Waiting
  <2> QED BY <1>2, <2>1, <2>2, <2>4 DEF RangeInv, Followed, Early
<1> QED BY <1>1, <1>2 DEF Distinct

(* The invariant above, of every range query of every forest. *)
THEOREM RangeInvariant == Spec => []IInv
BY InitRange, NextRange, PTL DEF Spec

(* A range query reports a trajectory once, if and only if a step of it    *)
(* enters the circle, whether its boxes show it at once, one part by one,  *)
(* or merged.                                                              *)
THEOREM RangeIsAnswered == Spec => []RangeAnswers
BY RangeInvariant, RangeAnswersFollow, PTL

-----------------------------------------------------------------------------
(* The queues: NN!Q's operators are H's, of which the heap's theorems      *)
(* speak. An operator an instance brings along is the one it is here.      *)
LEMMA SameSum == \A f, S : NN!SumFunctionOnSet(f, S) = SumFunctionOnSet(f, S)
BY DEF NN!SumFunctionOnSet, SumFunctionOnSet, NN!FoldFunctionOnSet, FoldFunctionOnSet,
       NN!MapThenFoldSet, MapThenFoldSet

LEMMA SameMin == \A S : NN!Min(S) = Min(S)
BY DEF NN!Min, Min

LEMMA SameMax == \A S : NN!Max(S) = Max(S)
BY DEF NN!Max, Max

LEMMA SameRead ==
  /\ \A s : H!ToSet(s) = ToSet(s) /\ NN!Q!ToSet(s) = ToSet(s)
  /\ \A q : /\ H!IsEmpty(q) <=> NN!Q!IsEmpty(q)
            /\ H!Top(q) = NN!Q!Top(q)
            /\ H!Entries(q) = NN!Q!Entries(q)
            /\ H!FreeHandle(q) = NN!Q!FreeHandle(q)
<1>1. \A s : H!ToSet(s) = ToSet(s) /\ NN!Q!ToSet(s) = ToSet(s)
  BY DEF H!ToSet, ToSet, NN!Q!ToSet
<1>2. \A q, i : H!At(q, i) = NN!Q!At(q, i)
  BY DEF H!At, NN!Q!At
<1>3. \A q : (H!IsEmpty(q) <=> NN!Q!IsEmpty(q)) /\ H!Top(q) = NN!Q!Top(q)
  BY <1>2 DEF H!IsEmpty, NN!Q!IsEmpty, H!Top, NN!Q!Top
<1>4. \A q : H!Entries(q) = NN!Q!Entries(q)
  BY <1>2 DEF H!Entries, NN!Q!Entries
<1>5. \A q : H!FreeHandle(q) = NN!Q!FreeHandle(q)
  BY DEF H!FreeHandle, NN!Q!FreeHandle, H!Last, NN!Q!Last
<1> QED
  BY <1>1, <1>3, <1>4, <1>5

LEMMA SameFormed == \A q : H!WellFormed(q) <=> NN!Q!WellFormed(q)
BY SameRead DEF H!WellFormed, NN!Q!WellFormed, H!At, NN!Q!At

LEMMA SameLower == \A q, i : H!Lower(q, i) = NN!Q!Lower(q, i)
BY DEF H!Lower, NN!Q!Lower, H!With, NN!Q!With, H!RaiseIndex, NN!Q!RaiseIndex, H!At, NN!Q!At,
       H!Rearrange, NN!Q!Rearrange

LEMMA SameMove == \A q, i : H!Move(q, i) = NN!Q!Move(q, i)
<1>1. \A q, i : H!Raise(q, i) = NN!Q!Raise(q, i)
  BY DEF H!Raise, NN!Q!Raise, H!With, NN!Q!With, H!At, NN!Q!At, H!Rearrange, NN!Q!Rearrange
<1>2. \A q, i : H!RaiseIndex(q, i, H!At(q, i)) = NN!Q!RaiseIndex(q, i, NN!Q!At(q, i))
  BY DEF H!RaiseIndex, NN!Q!RaiseIndex, H!At, NN!Q!At
<1> QED
  BY <1>1, <1>2, SameLower DEF H!Move, NN!Q!Move

LEMMA SamePush == \A q, e : H!Push(q, e) = NN!Q!Push(q, e)
<1> SUFFICES ASSUME NEW q, NEW e PROVE H!Push(q, e) = NN!Q!Push(q, e)
  OBVIOUS
<1>1. H!FreeHandle(q) = NN!Q!FreeHandle(q) /\ H!Front(q.invalid) = NN!Q!Front(q.invalid)
  BY SameRead DEF H!Front, NN!Q!Front
<1> DEFINE a == [q EXCEPT
              !.elements = IF q.invalid = <<>> THEN Append(@, e)
                           ELSE [@ EXCEPT ![NN!Q!FreeHandle(q)] = e],
              !.invalid = IF @ = <<>> THEN @ ELSE NN!Q!Front(@),
              !.index = IF q.invalid = <<>> THEN Append(@, Len(q.heap) + 1)
                        ELSE [@ EXCEPT ![NN!Q!FreeHandle(q)] = Len(q.heap) + 1],
              !.heap = Append(@, NN!Q!FreeHandle(q))]
<1>2. NN!Q!Push(q, e) = CHOOSE r \in {NN!Q!Move(y, Len(q.heap) + 1) : y \in {a}} : TRUE
  BY Zenon DEF NN!Q!Push, NN!Q!With
<1>3. H!Push(q, e) = CHOOSE r \in {H!Move(y, Len(q.heap) + 1) : y \in {a}} : TRUE
  BY <1>1 DEF H!Push, H!With
<1> QED
  BY <1>2, <1>3, SameMove

LEMMA SameUpdate == \A q, h, e : H!Update(q, h, e) = NN!Q!Update(q, h, e)
BY SameMove DEF H!Update, NN!Q!Update, H!With, NN!Q!With

LEMMA SamePop == \A q : H!Pop(q) = NN!Q!Pop(q)
<1>1. \A q : H!Exchanged(q) = NN!Q!Exchanged(q)
  BY DEF H!Exchanged, NN!Q!Exchanged, H!Rearrange, NN!Q!Rearrange, H!Front, NN!Q!Front
<1> QED
  BY <1>1, SameLower DEF H!Pop, NN!Q!Pop, H!With, NN!Q!With

-----------------------------------------------------------------------------
(* A queue of the search: its handles, and the entries these stand for.    *)
Items == [type : Nat, id : Int, opt : Nat, box : Int \X Nat]
Fine(q) == H!Queue(q, Items)
Handles(q) == ToSet(q.heap)

(* EntryMPQ's order is a strict weak order. *)
LEMMA ItemsOrdered == H!Ordered(Items)
BY DEF H!Ordered, NN!Less, Items

LEMMA NoneIsFine == Fine(NN!Q!EmptyQueue) /\ Handles(NN!Q!EmptyQueue) = {}
BY H!EmptyIsQueue, SameRead DEF Fine, Handles, H!EmptyQueue, NN!Q!EmptyQueue

LEMMA FineQueue ==
  ASSUME NEW q, Fine(q)
  PROVE  /\ NN!Q!WellFormed(q)
         /\ \A h \in Handles(q) : h \in Nat /\ q.elements[h] \in Items
         /\ NN!Q!Entries(q) = {q.elements[h] : h \in Handles(q)}
         /\ NN!Q!IsEmpty(q) <=> Handles(q) = {}
<1>1. H!WellFormed(q)
  BY H!QueueFacts DEF Fine
<1>2. \A h \in H!ToSet(q.heap) : h \in Nat /\ q.elements[h] \in Items
  BY H!QueueFacts DEF Fine
<1>3. H!Entries(q) = {q.elements[h] : h \in H!ToSet(q.heap)}
  BY H!QueueFacts DEF Fine
<1>4. H!IsEmpty(q) <=> H!ToSet(q.heap) = {}
  BY Zenon, H!QueueFacts DEF Fine
<1> QED
  BY <1>1, <1>2, <1>3, <1>4, SameRead, SameFormed DEF Handles

(* The top: an entry that no other comes before. *)
LEMMA TopEntry ==
  ASSUME NEW q, Fine(q), ~NN!Q!IsEmpty(q)
  PROVE  /\ q.heap[1] \in Handles(q)
         /\ NN!Q!Top(q) = q.elements[q.heap[1]]
         /\ NN!Q!Top(q) \in Items
         /\ \A h \in Handles(q) : NN!Q!Top(q).opt <= q.elements[h].opt
<1>1. H!Ordered(Items) /\ H!Queue(q, Items)
  BY ItemsOrdered DEF Fine
<1>2. /\ q.heap[1] \in Handles(q) /\ NN!Q!Top(q) = q.elements[q.heap[1]]
  BY <1>1, H!QueueFacts, SameRead DEF Handles
<1>3. \A h \in Handles(q) : q.elements[h] \in Items
  BY FineQueue
<1>4. ASSUME NEW h \in Handles(q)
      PROVE  NN!Q!Top(q).opt <= q.elements[h].opt
  <2>1. PICK j \in 1 .. Len(q.heap) : q.heap[j] = h
    <3>1. q.heap \in Seq(Nat)
      BY <1>1 DEF H!Queue, H!Linked
    <3>2. DOMAIN q.heap = 1 .. Len(q.heap)
      BY <3>1
    <3> QED
      BY <3>2 DEF Handles, ToSet
  <2>2. ~NN!Less(q.elements[h], NN!Q!Top(q))
    <3>1. ~NN!Less(H!At(q, j), H!Top(q))
      BY <1>1, H!TopLeast
    <3> QED
      BY <2>1, <3>1, SameRead DEF H!At
  <2>3. q.elements[h].opt \in Nat /\ NN!Q!Top(q).opt \in Nat
    BY Zenon, <1>2, <1>3 DEF Items
  <2> QED
    BY <2>2, <2>3 DEF NN!Less
<1> QED
  BY <1>2, <1>3, <1>4

LEMMA PushedEntry ==
  ASSUME NEW q, Fine(q), NEW e \in Items, NEW r, r = NN!Q!Push(q, e),
         NEW h, h = NN!Q!FreeHandle(q)
  PROVE  /\ Fine(r)
         /\ h \notin Handles(q)
         /\ Handles(r) = Handles(q) \cup {h}
         /\ r.elements[h] = e
         /\ \A g \in Handles(q) : r.elements[g] = q.elements[g]
<1>1. H!Ordered(Items) /\ H!Queue(q, Items)
  BY ItemsOrdered DEF Fine
<1>2. /\ H!Queue(H!Push(q, e), Items)
      /\ H!FreeHandle(q) \notin H!ToSet(q.heap)
      /\ H!ToSet(H!Push(q, e).heap) = H!ToSet(q.heap) \cup {H!FreeHandle(q)}
      /\ H!Push(q, e).elements[H!FreeHandle(q)] = e
      /\ \A g \in H!ToSet(q.heap) : H!Push(q, e).elements[g] = q.elements[g]
  BY <1>1, H!PushKeeps
<1>3. H!Push(q, e) = r /\ H!FreeHandle(q) = h
  BY SamePush, SameRead
<1> QED
  BY <1>2, <1>3, SameRead DEF Fine, Handles

LEMMA UpdatedEntry ==
  ASSUME NEW q, Fine(q), NEW h \in Handles(q), NEW e \in Items, NEW r, r = NN!Q!Update(q, h, e)
  PROVE  /\ Fine(r)
         /\ Handles(r) = Handles(q)
         /\ r.elements[h] = e
         /\ \A g \in Handles(q) : g # h => r.elements[g] = q.elements[g]
<1>1. H!Ordered(Items) /\ H!Queue(q, Items) /\ h \in H!ToSet(q.heap)
  BY ItemsOrdered, SameRead DEF Fine, Handles
<1>2. /\ H!Queue(H!Update(q, h, e), Items)
      /\ H!ToSet(H!Update(q, h, e).heap) = H!ToSet(q.heap)
      /\ H!Update(q, h, e).elements = [q.elements EXCEPT ![h] = e]
  BY <1>1, H!UpdateKeeps
<1>3. H!Update(q, h, e) = r
  BY SameUpdate
<1>4. \A g \in Handles(q) : g \in DOMAIN q.elements
  BY <1>1, H!QueueFacts, SameRead DEF Handles
<1> QED
  BY <1>2, <1>3, <1>4, SameRead DEF Fine, Handles

LEMMA PoppedEntry ==
  ASSUME NEW q, Fine(q), ~NN!Q!IsEmpty(q), NEW r, r = NN!Q!Pop(q)
  PROVE  /\ Fine(r)
         /\ Handles(r) = Handles(q) \ {q.heap[1]}
         /\ r.elements = q.elements
<1>1. H!Ordered(Items) /\ H!Queue(q, Items) /\ q.heap # <<>>
  BY ItemsOrdered DEF Fine, NN!Q!IsEmpty
<1>2. /\ H!Queue(H!Pop(q), Items)
      /\ H!ToSet(H!Pop(q).heap) = H!ToSet(q.heap) \ {q.heap[1]}
      /\ H!Pop(q).elements = q.elements
  BY <1>1, H!PopKeeps
<1> QED
  BY <1>2, SameRead, SamePop DEF Fine, Handles

-----------------------------------------------------------------------------
(* Finite sets and sums over them.                                         *)

(* Induction over a finite set, for a set P of its subsets. *)
LEMMA SubsetInduction ==
  ASSUME NEW S, IsFiniteSet(S), NEW P,
         \A T \in SUBSET S : (\A R \in SUBSET T : R # T => R \in P) => T \in P
  PROVE  S \in P
<1> DEFINE Bad == {T \in SUBSET S : T \notin P}
<1>1. SUFFICES ASSUME S \notin P
               PROVE  FALSE
  OBVIOUS
<1>2. S \in Bad /\ Bad \subseteq SUBSET S
  BY <1>1
<1>3. FiniteSubsetsOf(S) = SUBSET S
  BY FS_FiniteSubsetsOfFinite
<1>4. PICK T \in Bad : \A R \in Bad : ~ (<<R, T>> \in StrictSubsetOrdering(S))
  <2> HIDE DEF Bad
  <2>1. Bad \subseteq FiniteSubsetsOf(S) /\ Bad # {}
    BY <1>2, <1>3
  <2> QED
    BY <2>1, FS_StrictSubsetOrderingWellFounded, WFMin
<1>5. PICK R \in SUBSET T : R # T /\ R \notin P
  BY <1>4
<1>6. R \in Bad
  BY <1>4, <1>5
<1>7. <<R, T>> \in StrictSubsetOrdering(S)
  BY <1>4, <1>5 DEF StrictSubsetOrdering
<1> QED
  BY <1>4, <1>6, <1>7

(* What a function takes on a finite set is finite, and no more. *)
LEMMA ImageFinite ==
  ASSUME NEW D, IsFiniteSet(D), NEW f, DOMAIN f = D
  PROVE  /\ IsFiniteSet({f[x] : x \in D})
         /\ Cardinality({f[x] : x \in D}) <= Cardinality(D)
<1> DEFINE T == {f[x] : x \in D}
           g == [x \in D |-> f[x]]
<1>1. g \in [D -> T] /\ \A y \in T : \E x \in D : g[x] = y
  OBVIOUS
<1>2. g \in Surjection(D, T)
  BY <1>1 DEF Surjection
<1> HIDE DEF T, g
<1>3. IsFiniteSet(T) /\ Cardinality(T) <= Cardinality(D)
  BY <1>2, FS_Surjection
<1> QED
  BY <1>3 DEF T

LEMMA SetInduction ==
  ASSUME NEW S, IsFiniteSet(S), NEW P, {} \in P,
         \A T \in SUBSET S : \A x \in S \ T : T \in P => T \cup {x} \in P
  PROVE  S \in P
<1>1. ASSUME NEW T \in SUBSET S, \A R \in SUBSET T : R # T => R \in P
      PROVE  T \in P
  <2>1. CASE T = {}
    BY <2>1
  <2>2. ASSUME NEW x \in T
        PROVE  T \in P
    <3>1. T \ {x} \in P
      BY <1>1, <2>2
    <3>2. T \ {x} \in SUBSET S /\ x \in S \ (T \ {x}) /\ (T \ {x}) \cup {x} = T
      BY <1>1, <2>2
    <3> QED
      BY <3>1, <3>2, Zenon
  <2> QED
    BY <2>1, <2>2
<1> QED
  BY <1>1, SubsetInduction

(* g adds up f over the subsets of S, in the order in which CHOOSE takes the elements. *)
One(s) == CHOOSE x \in s : TRUE
Round(g, f, s) == IF s = {} THEN 0 ELSE f[One(s)] + g[s \ {One(s)}]
AddsUp(g, f, S) ==
  /\ g \in [SUBSET S -> Int]
  /\ \A s \in SUBSET S : g[s] = Round(g, f, s)

LEMMA OneOf ==
  ASSUME NEW s, s # {}
  PROVE  One(s) \in s
BY DEF One

LEMMA SameSums ==
  ASSUME NEW f, NEW S, NEW T, IsFiniteSet(T), T \subseteq S,
         NEW g, NEW h, AddsUp(g, f, S), AddsUp(h, f, T)
  PROVE  g[T] = h[T]
<1> DEFINE P == {s \in SUBSET T : g[s] = h[s]}
<1>1. ASSUME NEW s \in SUBSET T, \A r \in SUBSET s : r # s => r \in P
      PROVE  s \in P
  <2>1. CASE s = {}
    BY Zenon, <2>1 DEF AddsUp, Round
  <2>2. CASE s # {}
    <3>1. One(s) \in s
      BY <2>2, OneOf
    <3>2. s \ {One(s)} \in P
      BY <1>1, <3>1
    <3>3. Round(g, f, s) = Round(h, f, s)
      BY <2>2, <3>2 DEF Round
    <3> QED
      BY <3>3 DEF AddsUp
  <2> QED
    BY <2>1, <2>2
<1>2. T \in P
  <2> HIDE DEF P
  <2> QED
    BY <1>1, SubsetInduction
<1> QED
  BY <1>2

LEMMA SomeSums ==
  ASSUME NEW D, NEW f \in [D -> Int], NEW S \in SUBSET D, IsFiniteSet(S)
  PROVE  \E g : AddsUp(g, f, S)
<1> DEFINE P == {s \in SUBSET S : \E g : AddsUp(g, f, s)}
<1>1. ASSUME NEW s \in SUBSET S, \A r \in SUBSET s : r # s => r \in P
      PROVE  s \in P
  <2> DEFINE of(r) == CHOOSE g : AddsUp(g, f, r)
             x == One(s)
             total == IF s = {} THEN 0 ELSE f[x] + of(s \ {x})[s \ {x}]
             g == [r \in SUBSET s |-> IF r = s THEN total ELSE of(r)[r]]
  <2>1. \A r \in SUBSET s : r # s => AddsUp(of(r), f, r)
    BY <1>1
  <2>2. \A r \in SUBSET s : r # s => of(r)[r] \in Int
    BY Zenon, <2>1 DEF AddsUp
  <2>3. s # {} => x \in s /\ s \ {x} \in SUBSET s /\ s \ {x} # s /\ f[x] \in Int
    <3>1. s # {} => x \in s
      BY OneOf
    <3> HIDE DEF x
    <3>2. s # {} => f[x] \in Int
      BY <3>1
    <3>3. s # {} => s \ {x} \in SUBSET s /\ s \ {x} # s
      BY <3>1, Zenon
    <3> QED
      BY <3>1, <3>2, <3>3
  <2>4. total \in Int
    <3> HIDE DEF of, x
    <3>1. s # {} => of(s \ {x})[s \ {x}] \in Int
      BY <2>2, <2>3, Zenon
    <3> QED
      BY <2>3, <3>1
  <2>5. g \in [SUBSET s -> Int]
    BY Zenon, <2>2, <2>4
  <2>6. ASSUME NEW r \in SUBSET s
        PROVE  g[r] = Round(g, f, r)
    <3>1. CASE r = s
      BY <2>3, <3>1 DEF Round
    <3>2. CASE r # s
      <4>1. AddsUp(of(r), f, r) /\ g[r] = of(r)[r]
        BY <2>1, <3>2
      <4>2. CASE r = {}
        BY Zenon, <4>1, <4>2 DEF AddsUp, Round
      <4>3. CASE r # {}
        <5> DEFINE y == One(r)
        <5>1. y \in r /\ r \ {y} \in SUBSET s /\ r \ {y} # s
          BY <3>2, <4>3, OneOf
        <5>2. AddsUp(of(r \ {y}), f, r \ {y}) /\ g[r \ {y}] = of(r \ {y})[r \ {y}]
          BY <2>1, <5>1
        <5>3. IsFiniteSet(r \ {y})
          BY <1>1, FS_Subset
        <5>4. of(r)[r \ {y}] = of(r \ {y})[r \ {y}]
          <6> HIDE DEF of, y
          <6> QED
            BY <4>1, <5>2, <5>3, SameSums
        <5> QED
          BY Zenon, <4>1, <4>3, <5>2, <5>4 DEF AddsUp, Round
      <4> QED
        BY <4>2, <4>3
    <3> QED
      BY <3>1, <3>2
  <2>7. AddsUp(g, f, s)
    <3> HIDE DEF g
    <3> QED
      BY <2>5, <2>6 DEF AddsUp
  <2> QED
    BY <2>7
<1>2. S \in P
  <2> HIDE DEF P
  <2> QED
    BY <1>1, SubsetInduction
<1> QED
  BY <1>2

LEMMA SumRound ==
  ASSUME NEW D, NEW f \in [D -> Int], NEW S \in SUBSET D, IsFiniteSet(S)
  PROVE  \E g : AddsUp(g, f, S) /\ SumFunctionOnSet(f, S) = g[S]
<1> DEFINE E(g) == [s \in SUBSET S |-> IF s = {} THEN 0 ELSE f[CHOOSE x \in s : TRUE] + g[s \ {CHOOSE x \in s : TRUE}]]
           R == CHOOSE g : g = E(g)
<1>1. SumFunctionOnSet(f, S) = R[S]
  BY DEF SumFunctionOnSet, FoldFunctionOnSet, MapThenFoldSet
<1>2. PICK g : AddsUp(g, f, S)
  BY SomeSums
<1>3. g = E(g)
  BY Zenon, <1>2 DEF AddsUp, Round, One
<1>4. R = E(R)
  BY Zenon, <1>3
<1> DEFINE P == {s \in SUBSET S : R[s] = g[s]}
<1> HIDE DEF R
<1>5. ASSUME NEW s \in SUBSET S, \A r \in SUBSET s : r # s => r \in P
      PROVE  s \in P
  <2>1. R[s] = Round(R, f, s) /\ g[s] = Round(g, f, s)
    BY Zenon, <1>2, <1>4 DEF AddsUp, Round, One
  <2>2. Round(R, f, s) = Round(g, f, s)
    <3>1. CASE s = {}
      BY <3>1 DEF Round
    <3>2. CASE s # {}
      <4>1. One(s) \in s
        BY <3>2, OneOf
      <4>2. s \ {One(s)} \in P
        BY <1>5, <4>1
      <4> QED
        BY <3>2, <4>2 DEF Round
    <3> QED
      BY <3>1, <3>2
  <2> QED
    BY <2>1, <2>2
<1>6. S \in P
  <2> HIDE DEF P
  <2> QED
    BY <1>5, SubsetInduction
<1> QED
  BY <1>1, <1>2, <1>6

(* A sum is one of the elements and the sum of the rest, whichever is taken first. *)
LEMMA SumStep ==
  ASSUME NEW D, NEW f \in [D -> Int], NEW S \in SUBSET D, IsFiniteSet(S)
  PROVE  /\ SumFunctionOnSet(f, S) \in Int
         /\ S = {} => SumFunctionOnSet(f, S) = 0
         /\ S # {} => SumFunctionOnSet(f, S) = f[One(S)] + SumFunctionOnSet(f, S \ {One(S)})
<1>1. PICK g : AddsUp(g, f, S) /\ SumFunctionOnSet(f, S) = g[S]
  BY SumRound
<1>2. SumFunctionOnSet(f, S) \in Int /\ (S = {} => SumFunctionOnSet(f, S) = 0)
  BY Zenon, <1>1 DEF AddsUp, Round
<1>3. ASSUME S # {}
      PROVE  SumFunctionOnSet(f, S) = f[One(S)] + SumFunctionOnSet(f, S \ {One(S)})
  <2> DEFINE T == S \ {One(S)}
  <2>1. One(S) \in S /\ T \in SUBSET S /\ T \in SUBSET D
    BY <1>3, OneOf
  <2>2. IsFiniteSet(T)
    BY <2>1, FS_Subset
  <2> HIDE DEF T
  <2>3. PICK h : AddsUp(h, f, T) /\ SumFunctionOnSet(f, T) = h[T]
    BY <2>1, <2>2, SumRound
  <2>4. g[T] = h[T]
    BY <1>1, <2>1, <2>2, <2>3, SameSums
  <2>5. g[S] = f[One(S)] + g[T]
    BY <1>1, <1>3 DEF AddsUp, Round, T
  <2> QED
    BY <1>1, <2>3, <2>4, <2>5 DEF T
<1> QED
  BY <1>2, <1>3

LEMMA SumAny ==
  ASSUME NEW D, NEW f \in [D -> Int], NEW S \in SUBSET D, IsFiniteSet(S)
  PROVE  \A x \in S : SumFunctionOnSet(f, S) = f[x] + SumFunctionOnSet(f, S \ {x})
<1> DEFINE P == {T \in SUBSET S : \A x \in T : SumFunctionOnSet(f, T) = f[x] + SumFunctionOnSet(f, T \ {x})}
<1>0. \A T \in SUBSET S : IsFiniteSet(T) /\ T \in SUBSET D
  BY FS_Subset
<1>1. ASSUME NEW T \in SUBSET S, \A R \in SUBSET T : R # T => R \in P, NEW x \in T
      PROVE  SumFunctionOnSet(f, T) = f[x] + SumFunctionOnSet(f, T \ {x})
  <2>1. One(T) \in T /\ SumFunctionOnSet(f, T) = f[One(T)] + SumFunctionOnSet(f, T \ {One(T)})
    BY <1>0, OneOf, SumStep
  <2>2. CASE x = One(T)
    BY <2>1, <2>2
  <2>3. ASSUME NEW y \in T, y = One(T), x # y
        PROVE  SumFunctionOnSet(f, T) = f[x] + SumFunctionOnSet(f, T \ {x})
    <3>1. T \ {x} \in P /\ y \in T \ {x} /\ T \ {y} \in P /\ x \in T \ {y}
      BY <1>1, <2>3
    <3>2. SumFunctionOnSet(f, T \ {x}) = f[y] + SumFunctionOnSet(f, (T \ {x}) \ {y})
      BY <3>1
    <3>3. SumFunctionOnSet(f, T \ {y}) = f[x] + SumFunctionOnSet(f, (T \ {y}) \ {x})
      BY <3>1
    <3>4. (T \ {x}) \ {y} = (T \ {y}) \ {x}
      OBVIOUS
    <3>5. (T \ {x}) \ {y} \in SUBSET S
      OBVIOUS
    <3>6. SumFunctionOnSet(f, (T \ {x}) \ {y}) \in Int
      BY Zenon, <1>0, <3>5, SumStep
    <3>7. f[x] \in Int /\ f[y] \in Int
      BY <1>1, <2>3
    <3>8. SumFunctionOnSet(f, T) = f[y] + SumFunctionOnSet(f, T \ {y})
      BY <2>1, <2>3
    <3>9. PICK c : c = SumFunctionOnSet(f, (T \ {x}) \ {y})
      OBVIOUS
    <3>10. /\ SumFunctionOnSet(f, T \ {x}) = f[y] + c
           /\ SumFunctionOnSet(f, T \ {y}) = f[x] + c
      BY <3>2, <3>3, <3>4, <3>9, Zenon
    <3>11. c \in Int
      BY <3>6, <3>9
    <3> HIDE DEF P
    <3> QED
      BY <3>7, <3>8, <3>10, <3>11
  <2> QED
    BY Zenon, <2>1, <2>2, <2>3
<1>2. S \in P
  <2>1. \A T \in SUBSET S : (\A R \in SUBSET T : R # T => R \in P) => T \in P
    BY <1>1
  <2> HIDE DEF P
  <2> QED
    BY <2>1, SubsetInduction
<1> QED
  BY <1>2

LEMMA SumAdd ==
  ASSUME NEW D, NEW f \in [D -> Int], NEW S \in SUBSET D, IsFiniteSet(S),
         NEW x \in D \ S
  PROVE  /\ SumFunctionOnSet(f, S) \in Int
         /\ SumFunctionOnSet(f, S \cup {x}) = SumFunctionOnSet(f, S) + f[x]
<1>1. IsFiniteSet(S \cup {x}) /\ S \cup {x} \in SUBSET D /\ x \in S \cup {x}
  BY FS_AddElement
<1>2. PICK T : T = S \cup {x}
  BY Zenon
<1>3. IsFiniteSet(T) /\ T \in SUBSET D /\ x \in T /\ T \ {x} = S
  BY <1>1, <1>2
<1>4. SumFunctionOnSet(f, T) = f[x] + SumFunctionOnSet(f, T \ {x})
  BY <1>3, SumAny
<1>5. SumFunctionOnSet(f, S) \in Int /\ f[x] \in Int
  BY Zenon, SumStep
<1>6. SumFunctionOnSet(f, T) = f[x] + SumFunctionOnSet(f, S)
  BY <1>3, <1>4, Zenon
<1>7. SumFunctionOnSet(f, T) = SumFunctionOnSet(f, S) + f[x]
  BY <1>5, <1>6
<1> QED
  BY <1>2, <1>5, <1>7, Zenon
(* Scaled sums compare as their elements do. *)
LEMMA SumScaled ==
  ASSUME NEW D, NEW f \in [D -> Int], NEW h \in [D -> Int], NEW S \in SUBSET D, IsFiniteSet(S),
         NEW c \in Int, NEW d \in Int, \A x \in S : c * f[x] <= d * h[x]
  PROVE  /\ SumFunctionOnSet(f, S) \in Int /\ SumFunctionOnSet(h, S) \in Int
         /\ c * SumFunctionOnSet(f, S) <= d * SumFunctionOnSet(h, S)
<1> DEFINE P == {T \in SUBSET S : c * SumFunctionOnSet(f, T) <= d * SumFunctionOnSet(h, T)}
<1>1. \A T \in SUBSET S : IsFiniteSet(T) /\ SumFunctionOnSet(f, T) \in Int /\ SumFunctionOnSet(h, T) \in Int
  BY Zenon, FS_Subset, SumStep
<1>2. {} \in P
  <2>1. SumFunctionOnSet(f, {}) = 0 /\ SumFunctionOnSet(h, {}) = 0
    BY Zenon, FS_EmptySet, SumStep
  <2> QED
    BY <2>1
<1>3. ASSUME NEW T \in SUBSET S, NEW x \in S \ T, T \in P
      PROVE  T \cup {x} \in P
  <2>1. PICK a \in Int : a = SumFunctionOnSet(f, T)
    BY <1>1
  <2>2. PICK b \in Int : b = SumFunctionOnSet(h, T)
    BY <1>1
  <2>3. PICK y \in Int : y = f[x]
    OBVIOUS
  <2>4. PICK z \in Int : z = h[x]
    OBVIOUS
  <2>5. SumFunctionOnSet(f, T \cup {x}) = a + y /\ SumFunctionOnSet(h, T \cup {x}) = b + z
    BY <1>1, <2>1, <2>2, <2>3, <2>4, SumAdd
  <2>6. c * a <= d * b /\ c * y <= d * z
    BY <1>3, <2>1, <2>2, <2>3, <2>4
  <2>7. c * (a + y) <= d * (b + z)
    <3>1. c * (a + y) = c * a + c * y /\ d * (b + z) = d * b + d * z
      OBVIOUS
    <3>2. c * a \in Int /\ c * y \in Int /\ d * b \in Int /\ d * z \in Int
      OBVIOUS
    <3> QED
      BY <2>6, <3>1, <3>2
  <2> QED
    BY <2>5, <2>7
<1>4. S \in P
  <2> HIDE DEF P
  <2> QED
    BY Zenon, <1>2, <1>3, SetInduction
<1> QED
  BY <1>1, <1>4

LEMMA SumLeq ==
  ASSUME NEW D, NEW f \in [D -> Int], NEW h \in [D -> Int], NEW S \in SUBSET D, IsFiniteSet(S),
         \A x \in S : f[x] <= h[x]
  PROVE  SumFunctionOnSet(f, S) <= SumFunctionOnSet(h, S)
<1>1. PICK c \in Int : c = 1
  OBVIOUS
<1>2. \A x \in S : f[x] \in Int /\ h[x] \in Int
  OBVIOUS
<1>3. \A x \in S : c * f[x] <= c * h[x]
  BY <1>1, <1>2
<1>4. /\ SumFunctionOnSet(f, S) \in Int /\ SumFunctionOnSet(h, S) \in Int
      /\ c * SumFunctionOnSet(f, S) <= c * SumFunctionOnSet(h, S)
  BY Zenon, <1>3, SumScaled
<1> QED
  BY <1>1, <1>4

LEMMA SumSplit ==
  ASSUME NEW D, NEW f \in [D -> Int], NEW S \in SUBSET D, IsFiniteSet(S),
         NEW T \in SUBSET D, IsFiniteSet(T), S \cap T = {}
  PROVE  /\ SumFunctionOnSet(f, S) \in Int /\ SumFunctionOnSet(f, T) \in Int
         /\ SumFunctionOnSet(f, S \cup T) = SumFunctionOnSet(f, S) + SumFunctionOnSet(f, T)
<1> DEFINE P == {R \in SUBSET T : SumFunctionOnSet(f, S \cup R) = SumFunctionOnSet(f, S) + SumFunctionOnSet(f, R)}
<1>1. \A R \in SUBSET T : /\ IsFiniteSet(R) /\ IsFiniteSet(S \cup R)
                          /\ SumFunctionOnSet(f, R) \in Int /\ SumFunctionOnSet(f, S \cup R) \in Int
  BY Zenon, FS_Subset, FS_Union, SumStep
<1>2. SumFunctionOnSet(f, S) \in Int
  BY Zenon, SumStep
<1>3. {} \in P
  <2>1. SumFunctionOnSet(f, {}) = 0
    BY Zenon, FS_EmptySet, SumStep
  <2>2. S \cup {} = S
    OBVIOUS
  <2> QED
    BY <1>2, <2>1, <2>2
<1>4. ASSUME NEW R \in SUBSET T, NEW x \in T \ R, R \in P
      PROVE  R \cup {x} \in P
  <2>0. R \in SUBSET D /\ x \in D \ R /\ IsFiniteSet(R)
    BY Zenon, <1>1, <1>4
  <2>1. SumFunctionOnSet(f, R \cup {x}) = SumFunctionOnSet(f, R) + f[x]
    BY <2>0, SumAdd
  <2>2. PICK Q : Q = S \cup R
    BY Zenon
  <2>3. IsFiniteSet(Q) /\ Q \in SUBSET D /\ x \in D \ Q
    BY Zenon, <1>1, <1>4, <2>2
  <2>4. SumFunctionOnSet(f, Q \cup {x}) = SumFunctionOnSet(f, Q) + f[x]
    BY <2>3, SumAdd
  <2>5. S \cup (R \cup {x}) = Q \cup {x}
    BY <2>2
  <2>6. SumFunctionOnSet(f, Q) = SumFunctionOnSet(f, S) + SumFunctionOnSet(f, R)
    BY <1>4, <2>2
  <2>7. f[x] \in Int /\ SumFunctionOnSet(f, R) \in Int
    BY <1>1, <1>4
  <2>8. SumFunctionOnSet(f, S \cup (R \cup {x})) = SumFunctionOnSet(f, Q) + f[x]
    BY <2>4, <2>5, Zenon
  <2>9. SumFunctionOnSet(f, S \cup (R \cup {x})) = SumFunctionOnSet(f, S) + SumFunctionOnSet(f, R \cup {x})
    BY <1>2, <2>1, <2>6, <2>7, <2>8
  <2> QED
    BY <2>9
<1>5. T \in P
  <2> HIDE DEF P
  <2> QED
    BY Zenon, <1>3, <1>4, SetInduction
<1> QED
  BY <1>1, <1>2, <1>5

(* Parts that share nothing, each bounded by its own sum, are together bounded by the sum over them. *)
Disjoint(G) == \A a, b \in G : a # b => a \cap b = {}
EachWithin(h, f, G) == \A a \in G : h[a] <= SumFunctionOnSet(f, a)

LEMMA SumOfParts ==
  ASSUME NEW D, IsFiniteSet(D), NEW f \in [D -> Int], NEW G, IsFiniteSet(G), G \in SUBSET SUBSET D,
         Disjoint(G), NEW h \in [G -> Int], EachWithin(h, f, G)
  PROVE  /\ SumFunctionOnSet(h, G) \in Int /\ SumFunctionOnSet(f, UNION G) \in Int
         /\ SumFunctionOnSet(h, G) <= SumFunctionOnSet(f, UNION G)
<1> DEFINE P == {R \in SUBSET G : SumFunctionOnSet(h, R) <= SumFunctionOnSet(f, UNION R)}
<1>1. \A S \in SUBSET D : IsFiniteSet(S) /\ SumFunctionOnSet(f, S) \in Int
  BY Zenon, FS_Subset, SumStep
<1>2. \A R \in SUBSET G : /\ IsFiniteSet(R) /\ SumFunctionOnSet(h, R) \in Int
                          /\ UNION R \in SUBSET D
  <2>1. \A R \in SUBSET G : UNION R \in SUBSET D
    OBVIOUS
  <2> QED
    BY Zenon, <2>1, FS_Subset, SumStep
<1>3. {} \in P
  <2>1. SumFunctionOnSet(h, {}) = 0 /\ SumFunctionOnSet(f, {}) = 0
    BY Zenon, FS_EmptySet, SumStep
  <2>2. UNION {} = {}
    OBVIOUS
  <2>3. SumFunctionOnSet(f, UNION {}) = 0
    BY <2>1, <2>2, Zenon
  <2> QED
    BY <2>1, <2>3
<1>4. ASSUME NEW R \in SUBSET G, NEW a \in G \ R, R \in P
      PROVE  R \cup {a} \in P
  <2>1. SumFunctionOnSet(h, R \cup {a}) = SumFunctionOnSet(h, R) + h[a]
    BY <1>2, <1>4, SumAdd
  <2>2. PICK U : U = UNION R
    BY Zenon
  <2>3. U \in SUBSET D /\ a \in SUBSET D /\ U \cap a = {}
    BY <1>2, <1>4, <2>2 DEF Disjoint
  <2>4. SumFunctionOnSet(f, U \cup a) = SumFunctionOnSet(f, U) + SumFunctionOnSet(f, a)
    <3>1. IsFiniteSet(U) /\ IsFiniteSet(a)
      BY <1>1, <2>3
    <3> QED
      BY <2>3, <3>1, SumSplit
  <2>5. UNION (R \cup {a}) = U \cup a
    BY <2>2
  <2>6. SumFunctionOnSet(f, UNION (R \cup {a})) = SumFunctionOnSet(f, U) + SumFunctionOnSet(f, a)
    BY <2>4, <2>5, Zenon
  <2>7. SumFunctionOnSet(h, R) <= SumFunctionOnSet(f, U) /\ h[a] <= SumFunctionOnSet(f, a)
    BY <1>4, <2>2 DEF EachWithin
  <2>8. SumFunctionOnSet(h, R) \in Int /\ SumFunctionOnSet(f, U) \in Int /\ h[a] \in Int /\ SumFunctionOnSet(f, a) \in Int
    BY <1>1, <1>2, <1>4, <2>3
  <2>9. SumFunctionOnSet(h, R \cup {a}) <= SumFunctionOnSet(f, UNION (R \cup {a}))
    BY <2>1, <2>6, <2>7, <2>8
  <2> QED
    BY <2>9
<1>5. G \in P
  <2> HIDE DEF P
  <2> QED
    BY Zenon, <1>3, <1>4, SetInduction
<1> QED
  BY <1>1, <1>2, <1>5

LEMMA SumMonotone ==
  ASSUME NEW S, IsFiniteSet(S), NEW f \in [S -> Nat], NEW T \in SUBSET S
  PROVE  /\ SumFunctionOnSet(f, T) \in Nat /\ SumFunctionOnSet(f, S) \in Nat
         /\ SumFunctionOnSet(f, T) <= SumFunctionOnSet(f, S)
<1> DEFINE P == {R \in SUBSET S : SumFunctionOnSet(f, R) \in Nat}
<1>0. f \in [S -> Int]
  OBVIOUS
<1>1. \A R \in SUBSET S : IsFiniteSet(R) /\ SumFunctionOnSet(f, R) \in Int
  BY Zenon, <1>0, FS_Subset, SumStep
<1>2. ASSUME NEW U \in SUBSET S
      PROVE  SumFunctionOnSet(f, U) \in Nat
  <2> DEFINE Q == {R \in SUBSET U : SumFunctionOnSet(f, R) \in Nat}
  <2>1. {} \in Q
    <3>1. SumFunctionOnSet(f, {}) = 0
      BY Zenon, <1>0, FS_EmptySet, SumStep
    <3> QED
      BY <3>1
  <2>2. ASSUME NEW R \in SUBSET U, NEW x \in U \ R, R \in Q
        PROVE  R \cup {x} \in Q
    <3>1. SumFunctionOnSet(f, R \cup {x}) = SumFunctionOnSet(f, R) + f[x]
      BY <1>0, <1>1, <2>2, SumAdd
    <3> QED
      BY <2>2, <3>1
  <2>3. U \in Q
    <3> HIDE DEF Q
    <3> QED
      BY Zenon, <1>1, <2>1, <2>2, SetInduction
  <2> QED
    BY <2>3
<1>3. PICK R : R = S \ T
  BY Zenon
<1>4. R \in SUBSET S /\ T \cap R = {} /\ T \cup R = S
  BY <1>3
<1>5. SumFunctionOnSet(f, T \cup R) = SumFunctionOnSet(f, T) + SumFunctionOnSet(f, R)
  BY <1>0, <1>1, <1>4, SumSplit
<1>6. SumFunctionOnSet(f, S) = SumFunctionOnSet(f, T) + SumFunctionOnSet(f, R)
  BY <1>4, <1>5, Zenon
<1> QED
  BY <1>2, <1>4, <1>6

LEMMA MinOfNats ==
  ASSUME NEW S, S \subseteq Nat, S # {}
  PROVE  Min(S) \in S /\ \A y \in S : Min(S) <= y
<1>1. PICK x \in S : \A y \in S : ~ (<<y, x>> \in OpToRel(<, Nat))
  BY Zenon, NatLessThanWellFounded, WFMin
<1>2. ASSUME NEW y \in S
      PROVE  x <= y
  <2>1. x \in Nat /\ y \in Nat
    BY Zenon, <1>1
  <2>2. ~ (y < x)
    BY Zenon, <1>1, <2>1 DEF OpToRel
  <2> QED
    BY <2>1, <2>2
<1> QED
  BY Zenon, <1>2 DEF Min

LEMMA MinOfTwo ==
  ASSUME NEW a \in Int, NEW b \in Int
  PROVE  Min({a, b}) \in {a, b} /\ Min({a, b}) <= a /\ Min({a, b}) <= b
BY DEF Min

LEMMA MaxOfTwo ==
  ASSUME NEW a \in Int, NEW b \in Int
  PROVE  Max({a, b}) \in {a, b} /\ a <= Max({a, b}) /\ b <= Max({a, b})
BY DEF Max

LEMMA TimesMonotone ==
  ASSUME NEW a \in Int, NEW b \in Int, NEW c \in Nat, a <= b
  PROVE  a * c <= b * c
<1>1. PICK d \in Nat : b = a + d
  BY SMT
<1>2. (a + d) * c = a * c + d * c /\ d * c \in Nat /\ a * c \in Int
  OBVIOUS
<1> QED
  BY <1>1, <1>2

LEMMA DivideOut ==
  ASSUME NEW a \in Int, NEW b \in Int, NEW c \in Nat \ {0}, a <= c * b
  PROVE  a \div c \in Int /\ a \div c <= b
<1>1. PICK q \in Int : q = a \div c
  OBVIOUS
<1>2. c * q <= a /\ c * q \in Int /\ c * b \in Int
  BY <1>1
<1>3. ASSUME b < q
      PROVE  FALSE
  <2>1. PICK d \in Nat \ {0} : q = b + d
    BY <1>3
  <2>2. c * (b + d) = c * b + c * d /\ c * d \in Nat \ {0}
    OBVIOUS
  <2> QED
    BY <1>2, <2>1, <2>2
<1> QED
  BY <1>1, <1>3

LEMMA CancelFactor ==
  ASSUME NEW a \in Int, NEW b \in Int, NEW c \in Nat \ {0}, a * c <= c * b
  PROVE  a <= b
<1>1. ASSUME b < a
      PROVE  FALSE
  <2>1. PICK d \in Nat \ {0} : a = b + d
    BY <1>1
  <2>2. (b + d) * c = c * b + c * d /\ c * d \in Nat \ {0} /\ c * b \in Int
    OBVIOUS
  <2> QED
    BY <2>1, <2>2
<1> QED
  BY <1>1

-----------------------------------------------------------------------------
(* A trajectory's boxes, what is added up over them, and its gaps.         *)
BoxesOf(s) == DOMAIN s.box
LoOf(s) == [i \in DOMAIN s.box |-> s.box[i].rate * s.box[i].width]
GapsOf(s, read) ==
  {g[1] .. g[2] : g \in {r \in BoxesOf(s) \X BoxesOf(s) :
      /\ r[1] <= r[2]
      /\ r[1] - 1 \in read
      /\ r[2] + 1 \in read
      /\ r[1] .. r[2] \cap read = {}}}

LEMMA ShapeFacts ==
  ASSUME NEW s \in Shapes
  PROVE  /\ Len(s.box) \in Nat /\ BoxesOf(s) = 1 .. Len(s.box) /\ 1 \in BoxesOf(s) /\ Len(s.box) \in BoxesOf(s)
         /\ IsFiniteSet(BoxesOf(s))
         /\ \A i \in BoxesOf(s) : /\ s.box[i].leaf \in Leaf /\ s.box[i].width \in Nat \ {0}
                                  /\ s.box[i].rate \in Nat /\ s.box[i].slack \in Nat
                                  /\ Slots * s.box[i].rate \in Nat /\ Slots * s.box[i].rate < Huge
         /\ s.front.width \in Nat /\ s.front.dist \in Nat
         /\ s.back.width \in Nat /\ s.back.dist \in Nat
         /\ s.reach \in Nat /\ s.extra \in Nat
         /\ s.box[1].rate * s.front.width <= s.front.dist
         /\ s.box[Len(s.box)].rate * s.back.width <= s.back.dist
<1>0. Slots \in Nat \ {0} /\ MaxBoxes \in Nat
  BY NumberAssumption
<1>1. /\ s.box \in Seq([leaf : Leaf, width : Nat \ {0}, rate : Nat, slack : Nat])
      /\ Len(s.box) \in 1 .. MaxBoxes - 1
      /\ s.front \in Pads /\ s.back \in Pads
      /\ s.reach \in Nat /\ s.extra \in Nat
      /\ \A i \in DOMAIN s.box : Slots * s.box[i].rate < Huge
      /\ s.front.dist >= s.box[1].rate * s.front.width
      /\ s.back.dist >= s.box[Len(s.box)].rate * s.back.width
  BY Zenon, ShapeAssumption
<1>2. /\ Len(s.box) \in Nat /\ BoxesOf(s) = 1 .. Len(s.box) /\ 1 \in BoxesOf(s) /\ Len(s.box) \in BoxesOf(s)
  BY <1>0, <1>1 DEF BoxesOf
<1>3. IsFiniteSet(BoxesOf(s))
  BY <1>2, FS_Interval
<1>4. ASSUME NEW i \in BoxesOf(s)
      PROVE  /\ s.box[i].leaf \in Leaf /\ s.box[i].width \in Nat \ {0}
             /\ s.box[i].rate \in Nat /\ s.box[i].slack \in Nat
             /\ Slots * s.box[i].rate \in Nat /\ Slots * s.box[i].rate < Huge
  <2>1. s.box[i] \in [leaf : Leaf, width : Nat \ {0}, rate : Nat, slack : Nat]
    BY Zenon, <1>1, <1>2, ElementOfSeq
  <2>2. PICK r \in Nat : r = s.box[i].rate
    BY <2>1
  <2>3. Slots * r \in Nat
    BY <1>0
  <2>4. Slots * r < Huge
    BY <1>1, <2>2 DEF BoxesOf
  <2> QED
    BY <2>1, <2>2, <2>3, <2>4
<1>5. /\ s.front.width \in Nat /\ s.front.dist \in Nat
      /\ s.back.width \in Nat /\ s.back.dist \in Nat
  BY <1>1 DEF Pads
<1>6. PICK a \in Nat : a = s.box[1].rate * s.front.width
  BY <1>2, <1>4, <1>5
<1>7. PICK b \in Nat : b = s.box[Len(s.box)].rate * s.back.width
  BY <1>2, <1>4, <1>5
<1>8. a <= s.front.dist /\ b <= s.back.dist
  BY <1>1, <1>5, <1>6, <1>7
<1> QED
  BY <1>1, <1>2, <1>3, <1>4, <1>5, <1>6, <1>7, <1>8

LEMMA SumFacts ==
  ASSUME NEW s \in Shapes
  PROVE  /\ LoOf(s) \in [BoxesOf(s) -> Nat]
         /\ NN!PartOf(s) \in [BoxesOf(s) -> Nat]
         /\ NN!WidthOf(s) \in [BoxesOf(s) -> Nat]
         /\ \A i \in BoxesOf(s) : LoOf(s)[i] <= NN!PartOf(s)[i] /\ NN!WidthOf(s)[i] > 0
         /\ \A S \in SUBSET BoxesOf(s) :
              /\ IsFiniteSet(S)
              /\ SumFunctionOnSet(LoOf(s), S) \in Nat
              /\ SumFunctionOnSet(NN!PartOf(s), S) \in Nat
              /\ SumFunctionOnSet(NN!WidthOf(s), S) \in Nat
              /\ SumFunctionOnSet(LoOf(s), S) <= SumFunctionOnSet(NN!PartOf(s), S)
              /\ SumFunctionOnSet(NN!PartOf(s), S) <= SumFunctionOnSet(NN!PartOf(s), BoxesOf(s))
         /\ SumFunctionOnSet(NN!WidthOf(s), BoxesOf(s)) + s.front.width + s.back.width = Slots
         /\ SumFunctionOnSet(NN!PartOf(s), BoxesOf(s)) + s.front.dist + s.back.dist + s.extra < Huge
<1>0. ASSUME NEW i \in BoxesOf(s)
      PROVE  /\ LoOf(s)[i] \in Nat /\ NN!PartOf(s)[i] \in Nat /\ NN!WidthOf(s)[i] \in Nat
             /\ LoOf(s)[i] <= NN!PartOf(s)[i] /\ NN!WidthOf(s)[i] > 0
  <2>1. PICK w \in Nat \ {0} : w = s.box[i].width
    BY Zenon, ShapeFacts
  <2>2. PICK r \in Nat : r = s.box[i].rate
    BY Zenon, ShapeFacts
  <2>3. PICK k \in Nat : k = s.box[i].slack
    BY Zenon, ShapeFacts
  <2>4. LoOf(s)[i] = r * w /\ NN!PartOf(s)[i] = r * w + k /\ NN!WidthOf(s)[i] = w
    BY <2>1, <2>2, <2>3 DEF LoOf, NN!PartOf, NN!WidthOf, BoxesOf
  <2>5. r * w \in Nat
    OBVIOUS
  <2> QED
    BY <2>4, <2>5
<1>1. IsFiniteSet(BoxesOf(s))
  BY ShapeFacts
<1>2. /\ LoOf(s) \in [BoxesOf(s) -> Nat]
      /\ NN!PartOf(s) \in [BoxesOf(s) -> Nat]
      /\ NN!WidthOf(s) \in [BoxesOf(s) -> Nat]
  <2>1. /\ LoOf(s) = [i \in BoxesOf(s) |-> LoOf(s)[i]]
        /\ NN!PartOf(s) = [i \in BoxesOf(s) |-> NN!PartOf(s)[i]]
        /\ NN!WidthOf(s) = [i \in BoxesOf(s) |-> NN!WidthOf(s)[i]]
    BY DEF LoOf, NN!PartOf, NN!WidthOf, BoxesOf
  <2> QED
    BY <1>0, <2>1
<1>3. ASSUME NEW S \in SUBSET BoxesOf(s)
      PROVE  /\ IsFiniteSet(S)
             /\ SumFunctionOnSet(LoOf(s), S) \in Nat
             /\ SumFunctionOnSet(NN!PartOf(s), S) \in Nat
             /\ SumFunctionOnSet(NN!WidthOf(s), S) \in Nat
             /\ SumFunctionOnSet(LoOf(s), S) <= SumFunctionOnSet(NN!PartOf(s), S)
             /\ SumFunctionOnSet(NN!PartOf(s), S) <= SumFunctionOnSet(NN!PartOf(s), BoxesOf(s))
  <2> DEFINE D == BoxesOf(s)
             f == LoOf(s)
             h == NN!PartOf(s)
             w == NN!WidthOf(s)
  <2>1. f \in [D -> Nat] /\ h \in [D -> Nat] /\ w \in [D -> Nat] /\ S \in SUBSET D /\ IsFiniteSet(D)
        /\ \A i \in S : f[i] <= h[i]
    BY <1>0, <1>1, <1>2
  <2> HIDE DEF D, f, h, w
  <2>2. IsFiniteSet(S)
    BY <2>1, FS_Subset
  <2>3. /\ SumFunctionOnSet(f, S) \in Nat /\ SumFunctionOnSet(w, S) \in Nat
        /\ SumFunctionOnSet(h, S) \in Nat /\ SumFunctionOnSet(h, S) <= SumFunctionOnSet(h, D)
    BY <2>1, SumMonotone
  <2>4. f \in [D -> Int] /\ h \in [D -> Int]
    BY <2>1
  <2>5. SumFunctionOnSet(f, S) <= SumFunctionOnSet(h, S)
    BY <2>1, <2>2, <2>4, SumLeq
  <2> QED
    BY <2>2, <2>3, <2>5 DEF D, f, h, w
<1>4. DOMAIN NN!WidthOf(s) = BoxesOf(s) /\ DOMAIN NN!PartOf(s) = BoxesOf(s)
  BY <1>2
<1>5. /\ SumFunctionOnSet(NN!WidthOf(s), BoxesOf(s)) + s.front.width + s.back.width = Slots
      /\ SumFunctionOnSet(NN!PartOf(s), BoxesOf(s)) + s.front.dist + s.back.dist + s.extra < Huge
  BY <1>4, ShapeAssumption, Zenon DEF Total
<1> QED
  BY <1>0, <1>2, <1>3, <1>5

(* The gaps are apart, inside, and hold no box that was read. *)
LEMMA GapIs ==
  ASSUME NEW s \in Shapes, NEW read \in SUBSET BoxesOf(s), NEW g \in GapsOf(s, read)
  PROVE  \E a, b \in 1 .. Len(s.box) :
           /\ g = a .. b /\ a <= b /\ g \cap read = {}
           /\ a - 1 \in read /\ b + 1 \in read
           /\ 2 <= a /\ b <= Len(s.box) - 1
<1>1. Len(s.box) \in Nat /\ BoxesOf(s) = 1 .. Len(s.box)
  BY ShapeFacts
<1>2. PICK r \in BoxesOf(s) \X BoxesOf(s) :
           /\ g = r[1] .. r[2]
           /\ r[1] <= r[2] /\ r[1] - 1 \in read /\ r[2] + 1 \in read
           /\ r[1] .. r[2] \cap read = {}
  BY DEF GapsOf
<1>3. r[1] \in 1 .. Len(s.box) /\ r[2] \in 1 .. Len(s.box)
  BY <1>1, <1>2
<1>4. r[1] - 1 \in 1 .. Len(s.box) /\ r[2] + 1 \in 1 .. Len(s.box)
  BY <1>1, <1>2
<1>5. 2 <= r[1] /\ r[2] <= Len(s.box) - 1
  BY <1>1, <1>3, <1>4
<1> QED
  BY <1>2, <1>3, <1>5

LEMMA GapsApart ==
  ASSUME NEW s \in Shapes, NEW read \in SUBSET BoxesOf(s),
         NEW g \in GapsOf(s, read), NEW h \in GapsOf(s, read), NEW x, x \in g, x \in h
  PROVE  g = h
<1>1. PICK a \in 1 .. Len(s.box), b \in 1 .. Len(s.box) :
           g = a .. b /\ g \cap read = {} /\ a - 1 \in read /\ b + 1 \in read
  BY GapIs
<1>2. PICK c \in 1 .. Len(s.box), d \in 1 .. Len(s.box) :
           h = c .. d /\ h \cap read = {} /\ c - 1 \in read /\ d + 1 \in read
  BY GapIs
<1>3. x \in Int /\ a <= x /\ x <= b /\ c <= x /\ x <= d
  BY <1>1, <1>2
<1>4. a - 1 \notin c .. d /\ b + 1 \notin c .. d /\ c - 1 \notin a .. b /\ d + 1 \notin a .. b
  BY <1>1, <1>2
<1>5. ~(a < c) /\ ~(c < a) /\ ~(d < b) /\ ~(b < d)
  BY <1>3, <1>4
<1> QED
  BY <1>1, <1>2, <1>5

LEMMA GapFacts ==
  ASSUME NEW s \in Shapes, NEW read \in SUBSET BoxesOf(s)
  PROVE  /\ IsFiniteSet(GapsOf(s, read))
         /\ GapsOf(s, read) \in SUBSET SUBSET (BoxesOf(s) \ read)
         /\ Disjoint(GapsOf(s, read))
         /\ \A g \in GapsOf(s, read) : \E i \in g : i \in 2 .. Len(s.box) - 1
         /\ read = BoxesOf(s) => GapsOf(s, read) = {}
<1>1. Len(s.box) \in Nat /\ BoxesOf(s) = 1 .. Len(s.box) /\ IsFiniteSet(BoxesOf(s))
  BY ShapeFacts
<1>2. ASSUME NEW g \in GapsOf(s, read)
      PROVE  g \subseteq BoxesOf(s) \ read /\ \E i \in g : i \in 2 .. Len(s.box) - 1
  <2>1. PICK a \in 1 .. Len(s.box), b \in 1 .. Len(s.box) :
           /\ g = a .. b /\ a <= b /\ g \cap read = {} /\ 2 <= a /\ b <= Len(s.box) - 1
    BY GapIs
  <2>2. a \in g /\ a \in 2 .. Len(s.box) - 1
    BY <1>1, <2>1
  <2>3. g \subseteq BoxesOf(s)
    BY <1>1, <2>1
  <2> QED
    BY <2>1, <2>2, <2>3
<1>3. GapsOf(s, read) \in SUBSET SUBSET (BoxesOf(s) \ read)
  BY <1>2
<1>4. IsFiniteSet(GapsOf(s, read))
  <2>1. IsFiniteSet(SUBSET BoxesOf(s)) /\ GapsOf(s, read) \in SUBSET SUBSET BoxesOf(s)
    BY Zenon, <1>1, <1>3, FS_SUBSET
  <2> QED
    BY <2>1, FS_Subset
<1>5. Disjoint(GapsOf(s, read))
  BY GapsApart DEF Disjoint
<1>6. read = BoxesOf(s) => GapsOf(s, read) = {}
  BY <1>2
<1> QED
  BY <1>2, <1>3, <1>4, <1>5, <1>6

(* What the boxes read, and the gaps among them, say of the distance. *)
Base(s, read) ==
  SumFunctionOnSet(NN!PartOf(s), read)
  + (IF 1 \in read THEN s.front.dist ELSE 0)
  + (IF Len(s.box) \in read THEN s.back.dist ELSE 0)
Time(s, read) ==
  SumFunctionOnSet(NN!WidthOf(s), read)
  + (IF 1 \in read THEN s.front.width ELSE 0)
  + (IF Len(s.box) \in read THEN s.back.width ELSE 0)
DistanceOf(s, measure) ==
  SumFunctionOnSet(NN!PartOf(s), BoxesOf(s)) + s.front.dist + s.back.dist
  + (IF measure = "RMDTW" THEN s.extra ELSE 0)
GapMost(s, g, last) == Max({s.reach, (last * SumFunctionOnSet(NN!WidthOf(s), g)) \div Slots})
GapsMost(s, read, last) == [g \in GapsOf(s, read) |-> GapMost(s, g, last)]
BoundOf(s, measure, read, last) ==
  Base(s, read)
  + (IF measure = "RMDTW" THEN 0 ELSE SumFunctionOnSet(GapsMost(s, read, last), GapsOf(s, read)))

LEMMA DistanceFacts ==
  ASSUME NEW s \in Shapes, NEW m
  PROVE  /\ DistanceOf(s, m) \in Nat /\ DistanceOf(s, m) < Huge
         /\ Base(s, BoxesOf(s)) + (IF m = "RMDTW" THEN s.extra ELSE 0) = DistanceOf(s, m)
         /\ \A read \in SUBSET BoxesOf(s) :
              /\ Base(s, read) \in Nat /\ Base(s, read) <= DistanceOf(s, m)
              /\ Time(s, read) \in Nat
<1>1. PICK f \in Nat : f = s.front.dist
  BY Zenon, ShapeFacts
<1>2. PICK b \in Nat : b = s.back.dist
  BY Zenon, ShapeFacts
<1>3. PICK x \in Nat : x = s.extra
  BY ShapeFacts
<1>4. BoxesOf(s) \in SUBSET BoxesOf(s)
  OBVIOUS
<1>5. PICK p \in Nat : p = SumFunctionOnSet(NN!PartOf(s), BoxesOf(s))
  BY <1>4, SumFacts
<1>6. p + f + b + x < Huge
  BY <1>1, <1>2, <1>3, <1>5, SumFacts
<1>7. Huge \in Nat
  BY NumberAssumption
<1>8. DistanceOf(s, m) = p + f + b + (IF m = "RMDTW" THEN x ELSE 0)
  BY <1>1, <1>2, <1>3, <1>5 DEF DistanceOf
<1>9. 1 \in BoxesOf(s) /\ Len(s.box) \in BoxesOf(s)
  BY ShapeFacts
<1>10. Base(s, BoxesOf(s)) = p + f + b
  BY <1>1, <1>2, <1>5, <1>9 DEF Base
<1>11. ASSUME NEW read \in SUBSET BoxesOf(s)
       PROVE  /\ Base(s, read) \in Nat /\ Base(s, read) <= DistanceOf(s, m)
              /\ Time(s, read) \in Nat
  <2>1. PICK q \in Nat : q = SumFunctionOnSet(NN!PartOf(s), read)
    BY SumFacts
  <2>2. PICK w \in Nat : w = SumFunctionOnSet(NN!WidthOf(s), read)
    BY SumFacts
  <2>3. q <= p
    BY <1>5, <2>1, SumFacts
  <2>4. Base(s, read) = q + (IF 1 \in read THEN f ELSE 0) + (IF Len(s.box) \in read THEN b ELSE 0)
    BY <1>1, <1>2, <2>1 DEF Base
  <2>5. PICK u \in Nat : u = s.front.width
    BY ShapeFacts
  <2>6. PICK v \in Nat : v = s.back.width
    BY Zenon, ShapeFacts
  <2>7. Time(s, read) = w + (IF 1 \in read THEN u ELSE 0) + (IF Len(s.box) \in read THEN v ELSE 0)
    BY <2>2, <2>5, <2>6 DEF Time
  <2> QED
    BY <1>8, <2>3, <2>4, <2>7
<1> QED
  BY <1>3, <1>6, <1>7, <1>8, <1>10, <1>11

(* The time loaded is that of the query once all boxes are, and not before. *)
LEMMA TimeIsAll ==
  ASSUME NEW s \in Shapes, NEW read \in SUBSET BoxesOf(s)
  PROVE  Time(s, read) = Slots <=> read = BoxesOf(s)
<1>1. PICK f \in Nat : f = s.front.width
  BY ShapeFacts
<1>2. PICK b \in Nat : b = s.back.width
  BY Zenon, ShapeFacts
<1>3. BoxesOf(s) \in SUBSET BoxesOf(s)
  OBVIOUS
<1>4. PICK p \in Nat : p = SumFunctionOnSet(NN!WidthOf(s), BoxesOf(s))
  BY <1>3, SumFacts
<1>5. p + f + b = Slots
  BY <1>1, <1>2, <1>4, SumFacts
<1>6. PICK q \in Nat : q = SumFunctionOnSet(NN!WidthOf(s), read)
  BY SumFacts
<1>7. Time(s, read) = q + (IF 1 \in read THEN f ELSE 0) + (IF Len(s.box) \in read THEN b ELSE 0)
  BY <1>1, <1>2, <1>6 DEF Time
<1>8. CASE read = BoxesOf(s)
  <2>1. 1 \in read /\ Len(s.box) \in read /\ q = p
    BY <1>4, <1>6, <1>8, ShapeFacts
  <2> QED
    BY <1>5, <1>7, <1>8, <2>1
<1>9. CASE read # BoxesOf(s)
  <2>1. PICK i \in BoxesOf(s) : i \notin read
    BY <1>9
  <2> DEFINE D == BoxesOf(s)
             w == NN!WidthOf(s)
  <2>2. w \in [D -> Nat] /\ w[i] > 0 /\ IsFiniteSet(D) /\ read \in SUBSET D /\ i \in D \ read
        /\ IsFiniteSet(read)
    BY <2>1, SumFacts, ShapeFacts
  <2>3. p = SumFunctionOnSet(w, D) /\ q = SumFunctionOnSet(w, read)
    BY <1>4, <1>6
  <2> HIDE DEF D, w
  <2>4. w \in [D -> Int] /\ w[i] \in Nat
    BY <2>2
  <2>5. SumFunctionOnSet(w, read \cup {i}) = q + w[i]
    BY <2>2, <2>3, <2>4, SumAdd
  <2>6. PICK U : U = read \cup {i}
    BY Zenon
  <2>7. U \in SUBSET D
    BY <2>2, <2>6
  <2>8. SumFunctionOnSet(w, U) <= p
    BY <2>2, <2>3, <2>7, SumMonotone
  <2>9. q < p
    BY <2>2, <2>4, <2>5, <2>6, <2>8
  <2> QED
    BY <1>5, <1>7, <1>9, <2>9
<1> QED
  BY <1>8, <1>9

(* A rate that every box of S keeps to bounds the sum over S. *)
LEMMA RateFits ==
  ASSUME NEW s \in Shapes, NEW S \in SUBSET BoxesOf(s), NEW e \in Nat,
         \A i \in S : e <= Slots * s.box[i].rate
  PROVE  e * SumFunctionOnSet(NN!WidthOf(s), S) <= Slots * SumFunctionOnSet(LoOf(s), S)
<1> DEFINE D == BoxesOf(s)
           f == NN!WidthOf(s)
           h == LoOf(s)
<1>1. f \in [D -> Int] /\ h \in [D -> Int] /\ IsFiniteSet(S)
  BY SumFacts
<1>2. Slots \in Int /\ Slots \in Nat
  BY NumberAssumption
<1>3. ASSUME NEW i \in S
      PROVE  e * f[i] <= Slots * h[i]
  <2>1. PICK r \in Nat : r = s.box[i].rate
    BY Zenon, ShapeFacts
  <2>2. PICK w \in Nat : w = s.box[i].width
    BY ShapeFacts
  <2>3. f[i] = w /\ h[i] = r * w
    BY <2>1, <2>2 DEF NN!WidthOf, LoOf, BoxesOf
  <2>4. e <= Slots * r /\ Slots * r \in Int
    BY <1>2, <2>1
  <2>5. e * w <= (Slots * r) * w
    BY <2>4, TimesMonotone
  <2>6. (Slots * r) * w = Slots * (r * w)
    BY <1>2
  <2> QED
    BY <2>3, <2>5, <2>6
<1>4. D = BoxesOf(s)
  OBVIOUS
<1> HIDE DEF f, h, D
<1>5. e * SumFunctionOnSet(f, S) <= Slots * SumFunctionOnSet(h, S)
  <2>1. S \in SUBSET D /\ e \in Int
    BY <1>4
  <2>2. \A i \in S : e * f[i] <= Slots * h[i]
    BY <1>3
  <2> QED
    BY Zenon, <1>1, <1>2, <2>1, <2>2, SumScaled
<1> QED
  BY <1>5 DEF f, h

LEMMA RateOfPad ==
  ASSUME NEW e \in Nat, NEW c \in Nat, NEW r \in Nat, NEW u \in Nat, NEW f \in Nat,
         e <= c * r, r * u <= f
  PROVE  e * u <= c * f
<1>1. c * r \in Int /\ r * u \in Int
  OBVIOUS
<1>2. e * u <= (c * r) * u
  BY <1>1, TimesMonotone
<1>3. (r * u) * c <= f * c
  BY <1>1, TimesMonotone
<1>4. (c * r) * u = (r * u) * c /\ f * c = c * f /\ e * u \in Int /\ c * f \in Int /\ (c * r) * u \in Int
  OBVIOUS
<1> QED
  BY <1>2, <1>3, <1>4

(* Nothing has been read of a trajectory of which all boxes are as far. *)
LEMMA UnreadFar ==
  ASSUME NEW s \in Shapes, NEW e \in Nat, NEW m, \A i \in BoxesOf(s) : e <= Slots * s.box[i].rate
  PROVE  e <= DistanceOf(s, m)
<1>0. Slots \in Nat \ {0} /\ 1 \in BoxesOf(s) /\ Len(s.box) \in BoxesOf(s)
      /\ BoxesOf(s) \in SUBSET BoxesOf(s)
  BY NumberAssumption, ShapeFacts
<1>1. PICK w \in Nat : w = SumFunctionOnSet(NN!WidthOf(s), BoxesOf(s))
  BY <1>0, SumFacts
<1>2. PICK l \in Nat : l = SumFunctionOnSet(LoOf(s), BoxesOf(s))
  BY <1>0, SumFacts
<1>3. PICK p \in Nat : p = SumFunctionOnSet(NN!PartOf(s), BoxesOf(s))
  BY <1>0, SumFacts
<1>4. l <= p
  BY <1>0, <1>2, <1>3, SumFacts
<1>5. e * w <= Slots * l
  BY <1>0, <1>1, <1>2, RateFits
<1>6. PICK u \in Nat : u = s.front.width
  BY Zenon, ShapeFacts
<1>7. PICK v \in Nat : v = s.back.width
  BY Zenon, ShapeFacts
<1>8. PICK f \in Nat : f = s.front.dist
  BY Zenon, ShapeFacts
<1>9. PICK b \in Nat : b = s.back.dist
  BY Zenon, ShapeFacts
<1>10. w + u + v = Slots
  BY <1>1, <1>6, <1>7, SumFacts
<1>11. e * u <= Slots * f
  <2>1. PICK r \in Nat : r = s.box[1].rate
    BY <1>0, ShapeFacts
  <2>2. e <= Slots * r /\ Slots * r \in Int
    BY <1>0, <2>1
  <2>3. r * u <= f
    BY <1>6, <1>8, <2>1, ShapeFacts
  <2> QED
    BY Zenon, <1>0, <2>2, <2>3, RateOfPad
<1>12. e * v <= Slots * b
  <2>1. PICK r \in Nat : r = s.box[Len(s.box)].rate
    BY <1>0, ShapeFacts
  <2>2. e <= Slots * r /\ Slots * r \in Int
    BY <1>0, <2>1
  <2>3. r * v <= b
    BY <1>7, <1>9, <2>1, ShapeFacts
  <2> QED
    BY Zenon, <1>0, <2>2, <2>3, RateOfPad
<1>13. e * Slots <= Slots * (p + f + b)
  <2>1. e * (w + u + v) = e * w + e * u + e * v
    OBVIOUS
  <2>2. Slots * (p + f + b) = Slots * p + Slots * f + Slots * b
    BY <1>0
  <2>3. Slots * l <= Slots * p
    <3>1. PICK d \in Nat : p = l + d
      BY <1>4
    <3>2. Slots * (l + d) = Slots * l + Slots * d /\ Slots * d \in Nat /\ Slots * l \in Int
      BY <1>0
    <3> QED
      BY <3>1, <3>2
  <2>4. /\ e * w \in Int /\ e * u \in Int /\ e * v \in Int /\ Slots * l \in Int /\ Slots * p \in Int
        /\ Slots * f \in Int /\ Slots * b \in Int
    BY <1>0
  <2> QED
    BY <1>5, <1>10, <1>11, <1>12, <2>1, <2>2, <2>3, <2>4
<1>14. e <= p + f + b
  <2>1. PICK c \in Int : c = p + f + b
    OBVIOUS
  <2>2. e * Slots <= Slots * c
    BY <1>13, <2>1
  <2> QED
    BY <1>0, <2>1, <2>2, CancelFactor
<1>15. PICK x \in Nat : x = s.extra
  BY ShapeFacts
<1>16. DistanceOf(s, m) = p + f + b + (IF m = "RMDTW" THEN x ELSE 0)
  BY <1>3, <1>8, <1>9, <1>15 DEF DistanceOf
<1> QED
  BY <1>14, <1>16

LEMMA GapMostIs ==
  ASSUME NEW s \in Shapes, NEW g \in SUBSET BoxesOf(s), NEW last \in Nat
  PROVE  /\ GapMost(s, g, last) \in Nat
         /\ s.reach <= GapMost(s, g, last)
         /\ \/ GapMost(s, g, last) = s.reach
            \/ GapMost(s, g, last) = (last * SumFunctionOnSet(NN!WidthOf(s), g)) \div Slots
         /\ (last * SumFunctionOnSet(NN!WidthOf(s), g)) \div Slots <= GapMost(s, g, last)
<1>1. PICK w \in Nat : w = SumFunctionOnSet(NN!WidthOf(s), g)
  BY SumFacts
<1>2. Slots \in Nat \ {0}
  BY NumberAssumption
<1>3. PICK a \in Nat : a = last * w
  OBVIOUS
<1>4. PICK v \in Nat : v = a \div Slots
  BY <1>2
<1>5. PICK x \in Nat : x = s.reach
  BY ShapeFacts
<1>6. GapMost(s, g, last) = Max({x, v})
  BY <1>1, <1>3, <1>4, <1>5 DEF GapMost
<1>7. Max({x, v}) \in {x, v} /\ x <= Max({x, v}) /\ v <= Max({x, v})
  BY MaxOfTwo
<1> QED
  BY <1>1, <1>3, <1>4, <1>5, <1>6, <1>7

LEMMA GapMostGrows ==
  ASSUME NEW s \in Shapes, NEW g \in SUBSET BoxesOf(s), NEW last \in Nat, NEW later \in Nat,
         last <= later
  PROVE  GapMost(s, g, last) <= GapMost(s, g, later)
<1>1. PICK w \in Nat : w = SumFunctionOnSet(NN!WidthOf(s), g)
  BY SumFacts
<1>2. Slots \in Nat \ {0}
  BY NumberAssumption
<1>3. last * w <= later * w
  BY TimesMonotone
<1>4. PICK a \in Nat : a = last * w
  OBVIOUS
<1>5. PICK b \in Nat : b = later * w
  OBVIOUS
<1>6. PICK v \in Nat : v = b \div Slots
  BY <1>2
<1>7. PICK u \in Nat : u = a \div Slots
  BY <1>2
<1>8. u <= v
  <2>1. PICK q \in Int : q = Slots * u
    BY <1>2
  <2>2. q <= b
    BY <1>2, <1>3, <1>4, <1>5, <1>7, <2>1
  <2>3. b < Slots * (v + 1)
    BY <1>2, <1>6
  <2>4. u * Slots < (v + 1) * Slots
    BY <1>2, <2>1, <2>2, <2>3
  <2>5. ~(v + 1 <= u)
    <3>1. SUFFICES ASSUME v + 1 <= u PROVE FALSE
      OBVIOUS
    <3>2. (v + 1) * Slots <= u * Slots
      BY <1>2, <3>1, TimesMonotone
    <3>3. (v + 1) * Slots \in Int /\ u * Slots \in Int
      BY <1>2
    <3> QED
      BY <2>4, <3>2, <3>3
  <2> QED
    BY <2>5
<1>9. s.reach \in Nat
  BY ShapeFacts
<1>10. /\ GapMost(s, g, later) \in Nat /\ GapMost(s, g, last) \in Nat
       /\ s.reach <= GapMost(s, g, later) /\ v <= GapMost(s, g, later)
       /\ GapMost(s, g, last) = s.reach \/ GapMost(s, g, last) = u
  BY <1>1, <1>4, <1>5, <1>6, <1>7, GapMostIs
<1> QED
  BY <1>8, <1>9, <1>10

LEMMA GapFits ==
  ASSUME NEW s \in Shapes, NEW read \in SUBSET BoxesOf(s), NEW g \in GapsOf(s, read),
         NEW last \in Nat, \A i \in g : last <= Slots * s.box[i].rate
  PROVE  GapMost(s, g, last) <= SumFunctionOnSet(NN!PartOf(s), g)
<1>1. g \in SUBSET BoxesOf(s)
  BY GapFacts
<1>2. PICK w \in Nat : w = SumFunctionOnSet(NN!WidthOf(s), g)
  BY <1>1, SumFacts
<1>3. PICK l \in Nat : l = SumFunctionOnSet(LoOf(s), g)
  BY <1>1, SumFacts
<1>4. PICK p \in Nat : p = SumFunctionOnSet(NN!PartOf(s), g)
  BY <1>1, SumFacts
<1>5. l <= p
  BY <1>1, <1>3, <1>4, SumFacts
<1>6. PICK a \in Nat : a = last * w
  OBVIOUS
<1>7. a <= Slots * l
  BY <1>1, <1>2, <1>3, <1>6, RateFits
<1>8. Slots \in Nat \ {0}
  BY NumberAssumption
<1>9. a \div Slots <= l /\ a \div Slots \in Int
  BY <1>7, <1>8, DivideOut
<1>10. s.reach <= p /\ s.reach \in Nat
  <2>1. PICK i \in g : i \in 2 .. Len(s.box) - 1
    BY GapFacts
  <2>2. s.reach <= NN!PartOf(s)[i]
    BY <2>1, ShapeAssumption
  <2> DEFINE D == BoxesOf(s)
             f == NN!PartOf(s)
  <2>3. f \in [D -> Nat] /\ IsFiniteSet(g) /\ g \in SUBSET D /\ i \in g /\ f[i] \in Nat
    BY <1>1, <2>1, SumFacts
  <2>4. p = SumFunctionOnSet(f, g)
    BY <1>4
  <2> HIDE DEF D, f
  <2>5. f \in [D -> Int]
    BY <2>3
  <2>6. p = f[i] + SumFunctionOnSet(f, g \ {i})
    BY <2>3, <2>4, <2>5, SumAny
  <2>7. SumFunctionOnSet(f, g \ {i}) \in Nat
    <3>1. g \ {i} \in SUBSET D
      BY <2>3
    <3> QED
      BY <2>3, <3>1, SumFacts DEF f, D
  <2>8. s.reach \in Nat
    BY ShapeFacts
  <2> QED
    BY <2>2, <2>3, <2>6, <2>7, <2>8 DEF f
<1>11. PICK v \in Int : v = a \div Slots
  BY <1>9
<1>12. PICK x \in Int : x = s.reach
  BY <1>10
<1>13. PICK m \in Nat : m = GapMost(s, g, last)
  BY <1>1, GapMostIs
<1>14. m = x \/ m = v
  BY <1>1, <1>2, <1>6, <1>11, <1>12, <1>13, GapMostIs
<1>15. v <= l /\ x <= p
  BY <1>9, <1>10, <1>11, <1>12
<1>16. m <= p
  BY <1>5, <1>14, <1>15
<1> QED
  BY <1>4, <1>13, <1>16

(* What the gaps may cost at most: numbers, and no more than their boxes   *)
(* when each of these keeps to the bound.                                  *)
LEMMA GapsMostIs ==
  ASSUME NEW s \in Shapes, NEW read \in SUBSET BoxesOf(s), NEW last \in Nat
  PROVE  /\ GapsMost(s, read, last) \in [GapsOf(s, read) -> Nat]
         /\ IsFiniteSet(GapsOf(s, read))
         /\ SumFunctionOnSet(GapsMost(s, read, last), GapsOf(s, read)) \in Nat
<1>1. \A g \in GapsOf(s, read) : GapMost(s, g, last) \in Nat
  <2> SUFFICES ASSUME NEW g \in GapsOf(s, read)
               PROVE  GapMost(s, g, last) \in Nat
    OBVIOUS
  <2>1. g \in SUBSET BoxesOf(s)
    BY GapFacts
  <2> QED
    BY <2>1, GapMostIs
<1>2. GapsMost(s, read, last) \in [GapsOf(s, read) -> Nat] /\ IsFiniteSet(GapsOf(s, read))
  BY <1>1, GapFacts DEF GapsMost
<1> QED
  BY <1>2, SumMonotone

LEMMA BoundIs ==
  ASSUME NEW s \in Shapes, NEW read \in SUBSET BoxesOf(s), NEW last \in Nat, NEW m
  PROVE  BoundOf(s, m, read, last) \in Nat
<1>1. PICK g \in Nat : g = SumFunctionOnSet(GapsMost(s, read, last), GapsOf(s, read))
  BY GapsMostIs
<1>2. PICK b \in Nat : b = Base(s, read)
  BY DistanceFacts
<1>3. BoundOf(s, m, read, last) = b + (IF m = "RMDTW" THEN 0 ELSE g)
  BY <1>1, <1>2 DEF BoundOf
<1> QED
  BY <1>3

(* The bound grows with that of the last node. *)
LEMMA BoundGrows ==
  ASSUME NEW s \in Shapes, NEW read \in SUBSET BoxesOf(s), NEW last \in Nat, NEW later \in Nat, NEW m,
         last <= later
  PROVE  BoundOf(s, m, read, last) <= BoundOf(s, m, read, later)
<1>1. PICK g \in Nat : g = SumFunctionOnSet(GapsMost(s, read, last), GapsOf(s, read))
  BY GapsMostIs
<1>2. PICK h \in Nat : h = SumFunctionOnSet(GapsMost(s, read, later), GapsOf(s, read))
  BY GapsMostIs
<1>3. PICK b \in Nat : b = Base(s, read)
  BY DistanceFacts
<1>4. g <= h
  <2> DEFINE D == GapsOf(s, read)
             f == GapsMost(s, read, last)
             k == GapsMost(s, read, later)
  <2>1. IsFiniteSet(D) /\ f \in [D -> Int] /\ k \in [D -> Int] /\ D \in SUBSET D
    BY GapsMostIs
  <2>2. \A x \in D : f[x] <= k[x]
    <3> SUFFICES ASSUME NEW x \in D
                 PROVE  GapMost(s, x, last) <= GapMost(s, x, later)
      BY DEF GapsMost
    <3>1. x \in SUBSET BoxesOf(s)
      BY GapFacts
    <3> QED
      BY <3>1, GapMostGrows
  <2> HIDE DEF D, f, k
  <2>3. SumFunctionOnSet(f, D) <= SumFunctionOnSet(k, D)
    BY <2>1, <2>2, SumLeq
  <2> QED
    BY <1>1, <1>2, <2>3 DEF D, f, k
<1>5. /\ BoundOf(s, m, read, last) = b + (IF m = "RMDTW" THEN 0 ELSE g)
      /\ BoundOf(s, m, read, later) = b + (IF m = "RMDTW" THEN 0 ELSE h)
  BY <1>1, <1>2, <1>3 DEF BoundOf
<1> QED
  BY <1>4, <1>5

LEMMA SumWithin ==
  ASSUME NEW D, IsFiniteSet(D), NEW f \in [D -> Nat], NEW T \in SUBSET D, NEW S \in SUBSET T
  PROVE  /\ SumFunctionOnSet(f, S) \in Nat /\ SumFunctionOnSet(f, T) \in Nat
         /\ SumFunctionOnSet(f, S) <= SumFunctionOnSet(f, T)
<1>1. PICK R : R = T \ S
  BY Zenon
<1>2. S \cup R = T /\ S \cap R = {} /\ R \in SUBSET D /\ S \in SUBSET D
  BY <1>1
<1>3. IsFiniteSet(S) /\ IsFiniteSet(R)
  BY <1>2, FS_Subset
<1>4. /\ SumFunctionOnSet(f, S) \in Nat /\ SumFunctionOnSet(f, R) \in Nat
      /\ SumFunctionOnSet(f, T) \in Nat
  BY <1>2, SumMonotone
<1>5. f \in [D -> Int]
  OBVIOUS
<1>6. SumFunctionOnSet(f, S \cup R) = SumFunctionOnSet(f, S) + SumFunctionOnSet(f, R)
  BY <1>2, <1>3, <1>5, SumSplit
<1> QED
  BY <1>2, <1>4, <1>6

LEMMA GapsFit ==
  ASSUME NEW s \in Shapes, NEW read \in SUBSET BoxesOf(s), NEW last \in Nat,
         \A i \in BoxesOf(s) \ read : last <= Slots * s.box[i].rate
  PROVE  SumFunctionOnSet(GapsMost(s, read, last), GapsOf(s, read))
           <= SumFunctionOnSet(NN!PartOf(s), BoxesOf(s) \ read)
<1> DEFINE D == BoxesOf(s) \ read
           G == GapsOf(s, read)
           f == NN!PartOf(s)
           h == GapsMost(s, read, last)
           e == [i \in D |-> f[i]]
<1>1. f \in [BoxesOf(s) -> Nat] /\ IsFiniteSet(BoxesOf(s)) /\ D \in SUBSET BoxesOf(s)
  BY SumFacts, ShapeFacts
<1>2. IsFiniteSet(D)
  BY <1>1, FS_Subset
<1>3. IsFiniteSet(G) /\ G \in SUBSET SUBSET D /\ Disjoint(G)
  BY GapFacts
<1>4. h \in [G -> Nat]
  BY Zenon, GapsMostIs
<1>5. EachWithin(h, f, G)
  <2> SUFFICES ASSUME NEW g \in GapsOf(s, read)
               PROVE  GapMost(s, g, last) <= SumFunctionOnSet(NN!PartOf(s), g)
    BY DEF EachWithin, GapsMost
  <2>1. \A i \in g : last <= Slots * s.box[i].rate
    BY <1>3
  <2> QED
    BY <2>1, GapFits
<1>6. PICK B : B = BoxesOf(s)
  OBVIOUS
<1>7. f \in [B -> Nat] /\ f \in [B -> Int] /\ IsFiniteSet(B) /\ D \in SUBSET B /\ G \in SUBSET SUBSET B
      /\ h \in [G -> Int] /\ UNION G \in SUBSET D
  BY <1>1, <1>3, <1>4, <1>6
<1> HIDE DEF D, G, f, h
<1>8. SumFunctionOnSet(h, G) <= SumFunctionOnSet(f, UNION G) /\ SumFunctionOnSet(h, G) \in Int
  BY Zenon, <1>3, <1>5, <1>7, SumOfParts
<1>9. SumFunctionOnSet(f, UNION G) <= SumFunctionOnSet(f, D)
      /\ SumFunctionOnSet(f, UNION G) \in Nat /\ SumFunctionOnSet(f, D) \in Nat
  <2>1. PICK S : S = UNION G
    BY Zenon
  <2>2. S \in SUBSET D
    BY <1>7, <2>1
  <2> QED
    BY <1>7, <2>1, <2>2, SumWithin
<1>10. SumFunctionOnSet(h, G) <= SumFunctionOnSet(f, D)
  BY <1>8, <1>9
<1> QED
  BY <1>10 DEF D, G, f, h

(* The bound of a trajectory all of whose boxes left keep to that of the   *)
(* last node is one.                                                       *)
LEMMA BoundFits ==
  ASSUME NEW s \in Shapes, NEW read \in SUBSET BoxesOf(s), NEW last \in Nat, NEW m,
         \A i \in BoxesOf(s) \ read : last <= Slots * s.box[i].rate
  PROVE  BoundOf(s, m, read, last) <= DistanceOf(s, m)
<1>1. PICK g \in Nat : g = SumFunctionOnSet(GapsMost(s, read, last), GapsOf(s, read))
  BY GapsMostIs
<1>2. PICK U \in SUBSET BoxesOf(s) : U = BoxesOf(s) \ read
  BY Zenon
<1>3. PICK u \in Nat : u = SumFunctionOnSet(NN!PartOf(s), U)
  BY SumFacts
<1>4. g <= u
  BY <1>1, <1>2, <1>3, GapsFit
<1>5. PICK q \in Nat : q = SumFunctionOnSet(NN!PartOf(s), read)
  BY SumFacts
<1>6. PICK p \in Nat : p = SumFunctionOnSet(NN!PartOf(s), BoxesOf(s))
  <2>1. BoxesOf(s) \in SUBSET BoxesOf(s)
    OBVIOUS
  <2> QED
    BY <2>1, SumFacts
<1>7. p = q + u
  <2> DEFINE D == BoxesOf(s)
             f == NN!PartOf(s)
  <2>1. f \in [D -> Int] /\ read \in SUBSET D /\ U \in SUBSET D /\ read \cap U = {} /\ read \cup U = D
        /\ IsFiniteSet(read) /\ IsFiniteSet(U)
    BY <1>2, SumFacts
  <2> HIDE DEF D, f
  <2>2. SumFunctionOnSet(f, read \cup U) = SumFunctionOnSet(f, read) + SumFunctionOnSet(f, U)
    BY <2>1, SumSplit
  <2>3. SumFunctionOnSet(f, D) = SumFunctionOnSet(f, read) + SumFunctionOnSet(f, U)
    BY Zenon, <2>1, <2>2
  <2> QED
    BY <1>3, <1>5, <1>6, <2>3 DEF D, f
<1>8. PICK f \in Nat : f = s.front.dist
  BY ShapeFacts
<1>9. PICK b \in Nat : b = s.back.dist
  BY Zenon, ShapeFacts
<1>10. PICK x \in Nat : x = s.extra
  BY ShapeFacts
<1>11. DistanceOf(s, m) = p + f + b + (IF m = "RMDTW" THEN x ELSE 0)
  BY <1>6, <1>8, <1>9, <1>10 DEF DistanceOf
<1>12. PICK c \in Nat : c = (IF 1 \in read THEN f ELSE 0) + (IF Len(s.box) \in read THEN b ELSE 0)
  OBVIOUS
<1>13. Base(s, read) = q + c
  BY <1>5, <1>8, <1>9, <1>12 DEF Base
<1>14. c <= f + b
  BY <1>12
<1>15. BoundOf(s, m, read, last) = q + c + (IF m = "RMDTW" THEN 0 ELSE g)
  BY <1>1, <1>13 DEF BoundOf
<1> QED
  BY <1>4, <1>7, <1>11, <1>14, <1>15

-----------------------------------------------------------------------------
(* The operators of the search, in terms of these.                         *)
LEMMA WorldIs ==
  ASSUME NEW t \in Traj
  PROVE  /\ NN!Boxes(t) = BoxesOf(world[t])
         /\ NN!Final(t) = Len(world[t].box)
         /\ \A S : NN!SumParts(t, S) = SumFunctionOnSet(NN!PartOf(world[t]), S)
         /\ \A S : NN!Width(t, S) = SumFunctionOnSet(NN!WidthOf(world[t]), S)
         /\ \A read : NN!Gaps(t, read) = GapsOf(world[t], read)
         /\ \A read : NN!Loaded(t, read) = Time(world[t], read)
         /\ NN!TrueDistance(t) = DistanceOf(world[t], query.measure)
<1>1. NN!Boxes(t) = BoxesOf(world[t]) /\ NN!Final(t) = Len(world[t].box)
  BY DEF NN!Boxes, NN!Final, BoxesOf
<1>2. /\ \A S : NN!SumParts(t, S) = SumFunctionOnSet(NN!PartOf(world[t]), S)
      /\ \A S : NN!Width(t, S) = SumFunctionOnSet(NN!WidthOf(world[t]), S)
  BY SameSum DEF NN!SumParts, NN!Width
<1>3. \A read : NN!Gaps(t, read) = GapsOf(world[t], read)
  BY <1>1 DEF NN!Gaps, GapsOf
<1>4. \A read : NN!Loaded(t, read) = Time(world[t], read)
  BY <1>1, <1>2 DEF NN!Loaded, Time, NN!Begun, NN!Ended
<1>5. NN!TrueDistance(t) = DistanceOf(world[t], query.measure)
  BY <1>1, <1>2 DEF NN!TrueDistance, DistanceOf
<1> QED
  BY <1>1, <1>2, <1>3, <1>4, <1>5

LEMMA DistanceIs ==
  ASSUME NEW t \in Traj, world[t] \in Shapes
  PROVE  NN!TrueDistance(t) \in Nat /\ NN!TrueDistance(t) < Huge
BY WorldIs, DistanceFacts

(* The bound of a box, which is part of its trajectory's distance. *)
LEMMA LoIs ==
  ASSUME NEW t \in Traj, world[t] \in Shapes, NEW i \in BoxesOf(world[t])
  PROVE  /\ NN!Lo(t, i) \in Nat
         /\ NN!Lo(t, i) <= NN!TrueDistance(t)
         /\ NN!Lo(t, i) < Huge
<1>1. PICK s \in Shapes : s = world[t]
  OBVIOUS
<1> DEFINE D == BoxesOf(s)
           f == NN!PartOf(s)
<1>2. NN!Lo(t, i) = LoOf(s)[i]
  BY <1>1 DEF NN!Lo, LoOf, BoxesOf
<1>3. i \in D /\ f \in [D -> Nat] /\ IsFiniteSet(D) /\ D \in SUBSET D /\ LoOf(s)[i] \in Nat /\ LoOf(s)[i] <= f[i]
  BY <1>1, SumFacts, ShapeFacts
<1>4. PICK p \in Nat : p = SumFunctionOnSet(NN!PartOf(s), BoxesOf(s))
  BY <1>3, SumFacts
<1>5. f[i] <= p /\ f[i] \in Nat
  <2>1. p = SumFunctionOnSet(f, D)
    BY <1>4
  <2> HIDE DEF D, f
  <2>2. f \in [D -> Int] /\ f[i] \in Nat
    BY <1>3
  <2>3. p = f[i] + SumFunctionOnSet(f, D \ {i})
    BY <1>3, <2>1, <2>2, SumAny
  <2>4. PICK S \in SUBSET D : S = D \ {i}
    BY Zenon
  <2>5. SumFunctionOnSet(f, S) \in Nat
    BY <1>3, SumWithin
  <2> QED
    BY <2>2, <2>3, <2>4, <2>5
<1>6. PICK a \in Nat : a = s.front.dist
  BY Zenon, ShapeFacts
<1>7. PICK b \in Nat : b = s.back.dist
  BY Zenon, ShapeFacts
<1>8. PICK x \in Nat : x = s.extra
  BY ShapeFacts
<1>9. DistanceOf(s, query.measure) = p + a + b + (IF query.measure = "RMDTW" THEN x ELSE 0)
  BY <1>4, <1>6, <1>7, <1>8 DEF DistanceOf
<1>10. p <= DistanceOf(s, query.measure)
  BY <1>9
<1>11. NN!TrueDistance(t) = DistanceOf(s, query.measure)
  BY <1>1, WorldIs
<1>12. NN!TrueDistance(t) \in Nat /\ NN!TrueDistance(t) < Huge /\ Huge \in Nat
  BY DistanceIs, NumberAssumption
<1>13. PICK v \in Nat : v = f[i]
  BY <1>5
<1>14. PICK l \in Nat : l = LoOf(s)[i]
  BY <1>3
<1>15. l <= v /\ v <= p
  BY <1>3, <1>5, <1>13, <1>14
<1> HIDE DEF f, D
<1> QED
  BY <1>2, <1>10, <1>11, <1>12, <1>14, <1>15

-----------------------------------------------------------------------------
(* What is known of a trajectory, exact once all of it has been read.      *)
LEMMA EstimateIs ==
  ASSUME NEW t \in Traj, world[t] \in Shapes, NEW read \in SUBSET BoxesOf(world[t]), NEW nodes,
         NEW last \in Nat, NEW e, e = NN!Estimate(t, read, nodes, last)
  PROVE  /\ e \in Items /\ e.id = t
         /\ read = BoxesOf(world[t]) => e.type = 3 /\ e.opt = NN!TrueDistance(t)
         /\ read # BoxesOf(world[t]) =>
              e.type = 2 /\ e.opt <= BoundOf(world[t], query.measure, read, last)
<1> DEFINE G == NN!Gaps(t, read)
           gaps == [g \in G |-> NN!GapBound(t, g, nodes, last)]
<1>1. PICK s \in Shapes : s = world[t]
  OBVIOUS
<1>2. G = GapsOf(s, read)
  BY <1>1, WorldIs
<1>3. \A g \in G : NN!GapBound(t, g, nodes, last) \in Nat /\ NN!GapBound(t, g, nodes, last) <= GapMost(s, g, last)
  <2> SUFFICES ASSUME NEW g \in GapsOf(s, read)
               PROVE  /\ NN!GapBound(t, g, nodes, last) \in Nat
                      /\ NN!GapBound(t, g, nodes, last) <= GapMost(s, g, last)
    BY <1>2
  <2>1. g \in SUBSET BoxesOf(s)
    BY <1>1, GapFacts
  <2>2. PICK m \in Nat : m = GapMost(s, g, last) /\ s.reach <= m
    BY <2>1, GapMostIs
  <2>3. s.reach \in Nat
    BY ShapeFacts
  <2>4. NN!GapBound(t, g, nodes, last) \in {s.reach, m}
    BY Zenon, <1>1, <2>2, WorldIs, SameMax DEF NN!GapBound, GapMost
  <2> QED
    BY <2>2, <2>3, <2>4
<1>4. IsFiniteSet(G) /\ G \in SUBSET G
  BY <1>1, <1>2, GapFacts
<1>5. DOMAIN gaps = G /\ gaps \in [G -> Nat]
  BY <1>3
<1>6. PICK h \in Nat : h = SumFunctionOnSet(gaps, G)
  <2> HIDE DEF gaps, G
  <2>1. SumFunctionOnSet(gaps, G) \in Nat
    BY <1>4, <1>5, SumMonotone
  <2> QED
    BY <2>1
<1>7. PICK k \in Nat : k = SumFunctionOnSet(GapsMost(s, read, last), GapsOf(s, read))
  BY <1>1, GapsMostIs
<1>8. h <= k
  <2> DEFINE most == GapsMost(s, read, last)
  <2>1. most \in [G -> Nat]
    BY <1>1, <1>2, GapsMostIs
  <2>2. \A g \in G : gaps[g] <= most[g]
    BY <1>2, <1>3 DEF GapsMost
  <2>3. k = SumFunctionOnSet(most, G)
    BY <1>2, <1>7
  <2> HIDE DEF gaps, G, most
  <2>4. gaps \in [G -> Int] /\ most \in [G -> Int]
    BY <1>5, <2>1
  <2>5. SumFunctionOnSet(gaps, G) <= SumFunctionOnSet(most, G)
    BY <1>4, <2>2, <2>4, SumLeq
  <2> QED
    BY <1>6, <2>3, <2>5
<1>9. PICK b \in Nat : b = Base(s, read)
  BY <1>1, DistanceFacts
<1>10. PICK d \in Nat : d = NN!TrueDistance(t)
  BY DistanceIs
<1>11. NN!SumParts(t, read) + NN!Begun(t, read).dist + NN!Ended(t, read).dist = b
  BY <1>1, <1>9, WorldIs DEF NN!Begun, NN!Ended, Base
<1>12. NN!Loaded(t, read) = Slots <=> read = BoxesOf(s)
  BY <1>1, WorldIs, TimeIsAll
<1>13. e = [type |-> IF read = BoxesOf(s) THEN 3 ELSE 2, id |-> t, box |-> NN!NoBox,
            opt |-> IF read = BoxesOf(s) /\ query.measure = "RMDTW" THEN d
                    ELSE b + (IF query.measure = "RMDTW" THEN 0 ELSE h)]
  <2>1. NN!SumFunctionOnSet(gaps, DOMAIN gaps) = h
    BY <1>5, <1>6, SameSum
  <2>2. e = [type |-> IF NN!Loaded(t, read) = Slots THEN 3 ELSE 2, id |-> t, box |-> NN!NoBox,
             opt |-> IF (IF NN!Loaded(t, read) = Slots THEN 3 ELSE 2) = 3 /\ query.measure = "RMDTW"
                     THEN NN!TrueDistance(t)
                     ELSE NN!SumParts(t, read) + NN!Begun(t, read).dist + NN!Ended(t, read).dist
                          + (IF query.measure = "RMDTW" THEN 0
                             ELSE NN!SumFunctionOnSet(gaps, DOMAIN gaps))]
    BY DEF NN!Estimate
  <2> HIDE DEF gaps, G
  <2>3. (IF NN!Loaded(t, read) = Slots THEN 3 ELSE 2) = 3 <=> NN!Loaded(t, read) = Slots
    OBVIOUS
  <2> QED
    BY <1>10, <1>11, <1>12, <2>1, <2>2, <2>3
<1>14. e.id = t /\ e.box = NN!NoBox /\ e.type = (IF read = BoxesOf(s) THEN 3 ELSE 2)
       /\ e.opt = (IF read = BoxesOf(s) /\ query.measure = "RMDTW" THEN d
                   ELSE b + (IF query.measure = "RMDTW" THEN 0 ELSE h))
       /\ e = [type |-> e.type, id |-> e.id, opt |-> e.opt, box |-> e.box]
  BY <1>13
<1>15. e \in Items
  <2>1. e.type \in Nat /\ e.opt \in Nat
    BY <1>14
  <2>2. e.id \in Int
    BY <1>14, NodeAssumption
  <2>3. e.box \in Int \X Nat
    BY <1>14 DEF NN!NoBox, NN!NoId
  <2> QED
    BY <1>14, <2>1, <2>2, <2>3 DEF Items
<1>16. read = BoxesOf(s) => e.opt = d
  <2> SUFFICES ASSUME read = BoxesOf(s), query.measure # "RMDTW"
               PROVE  b + h = d
    BY <1>14
  <2>1. G = {}
    BY <1>1, <1>2, GapFacts
  <2>2. h = 0
    <3> HIDE DEF gaps, G
    <3>1. gaps \in [G -> Int] /\ {} \in SUBSET G /\ IsFiniteSet({})
      BY <1>5, FS_EmptySet
    <3>2. SumFunctionOnSet(gaps, {}) = 0
      BY Zenon, <3>1, SumStep
    <3> QED
      BY <1>6, <2>1, <3>2
  <2>3. b + 0 = d
    BY <1>1, <1>9, <1>10, WorldIs, DistanceFacts
  <2> QED
    BY <2>2, <2>3
<1>17. read # BoxesOf(s) => e.opt <= BoundOf(s, query.measure, read, last)
  <2>1. BoundOf(s, query.measure, read, last) = b + (IF query.measure = "RMDTW" THEN 0 ELSE k)
    BY <1>7, <1>9 DEF BoundOf
  <2> QED
    BY <1>8, <1>14, <2>1
<1> HIDE DEF gaps, G
<1> QED
  BY <1>1, <1>10, <1>14, <1>15, <1>16, <1>17

(* The bound of a node: a number, no more than that of any box under it,   *)
(* and no more than that of a node that has less under it.                 *)
LEMMA RatesAre ==
  ASSUME world \in [Traj -> Shapes], NEW L
  PROVE  /\ NN!RatesIn(L) \subseteq Nat
         /\ \A r \in NN!RatesIn(L) : Slots * r \in Nat /\ Slots * r < Huge
         /\ \A t \in Traj : \A i \in BoxesOf(world[t]) :
              world[t].box[i].leaf \in L => world[t].box[i].rate \in NN!RatesIn(L)
         /\ \A K : K \subseteq L => NN!RatesIn(K) \subseteq NN!RatesIn(L)
<1>1. \A t \in Traj : NN!Boxes(t) = BoxesOf(world[t])
  BY WorldIs
<1>2. ASSUME NEW r \in NN!RatesIn(L)
      PROVE  r \in Nat /\ Slots * r \in Nat /\ Slots * r < Huge
  <2>0. PICK t \in Traj : r \in {world[t].box[i].rate : i \in {j \in NN!Boxes(t) : world[t].box[j].leaf \in L}}
    BY DEF NN!RatesIn
  <2>1. PICK i \in NN!Boxes(t) : r = world[t].box[i].rate
    BY <2>0
  <2>2. PICK s \in Shapes : s = world[t]
    OBVIOUS
  <2>3. i \in BoxesOf(s) /\ r = s.box[i].rate
    BY <1>1, <2>1, <2>2
  <2> QED
    BY <2>3, ShapeFacts
<1>3. \A t \in Traj : \A i \in BoxesOf(world[t]) :
        world[t].box[i].leaf \in L => world[t].box[i].rate \in NN!RatesIn(L)
  BY <1>1 DEF NN!RatesIn
<1>4. \A K : K \subseteq L => NN!RatesIn(K) \subseteq NN!RatesIn(L)
  BY DEF NN!RatesIn
<1> QED
  BY <1>2, <1>3, <1>4

LEMMA NodeDistIs ==
  ASSUME world \in [Traj -> Shapes], NEW n
  PROVE  /\ NN!NodeDist(n) \in Nat
         /\ \A t \in Traj : \A i \in BoxesOf(world[t]) :
              world[t].box[i].leaf \in Under[n] => NN!NodeDist(n) <= Slots * world[t].box[i].rate
         /\ \A c : Under[c] \subseteq Under[n] => NN!NodeDist(n) <= NN!NodeDist(c)
<1>0. Slots \in Nat /\ Huge \in Nat
  BY NumberAssumption
<1>1. ASSUME NEW c
      PROVE  /\ NN!RatesIn(Under[c]) = {} => NN!NodeDist(c) = Huge
             /\ NN!RatesIn(Under[c]) # {} =>
                  /\ \E r \in NN!RatesIn(Under[c]) : NN!NodeDist(c) = Slots * r
                  /\ \A q \in NN!RatesIn(Under[c]) : NN!NodeDist(c) <= Slots * q
             /\ NN!NodeDist(c) \in Nat /\ NN!NodeDist(c) <= Huge
  <2> DEFINE R == NN!RatesIn(Under[c])
  <2>1. CASE R = {}
    BY <1>0, <2>1 DEF NN!NodeDist
  <2>2. CASE R # {}
    <3>1. R \subseteq Nat /\ \A r \in R : Slots * r \in Nat /\ Slots * r < Huge
      BY RatesAre
    <3>2. NN!NodeDist(c) = Slots * Min(R)
      BY <2>2, SameMin DEF NN!NodeDist
    <3> HIDE DEF R
    <3>3. Min(R) \in R /\ \A q \in R : Min(R) <= q
      BY Zenon, <2>2, <3>1, MinOfNats
    <3>4. PICK m \in R : m = Min(R)
      BY <3>3
    <3>5. \A q \in R : Slots * m <= Slots * q
      <4> SUFFICES ASSUME NEW q \in R
                   PROVE  Slots * m <= Slots * q
        OBVIOUS
      <4>1. m \in Nat /\ q \in Nat /\ m <= q
        BY <3>1, <3>3, <3>4
      <4>2. m * Slots <= q * Slots
        BY <1>0, <4>1, TimesMonotone
      <4>3. m * Slots = Slots * m /\ q * Slots = Slots * q
        BY <1>0, <4>1
      <4> QED
        BY <4>2, <4>3
    <3>6. NN!NodeDist(c) \in Nat /\ NN!NodeDist(c) <= Huge
      BY <1>0, <3>1, <3>2, <3>4
    <3> QED
      BY <2>2, <3>2, <3>4, <3>5, <3>6 DEF R
  <2> QED
    BY <2>1, <2>2
<1>2. ASSUME NEW t \in Traj, NEW i \in BoxesOf(world[t]), world[t].box[i].leaf \in Under[n]
      PROVE  NN!NodeDist(n) <= Slots * world[t].box[i].rate
  <2>1. world[t].box[i].rate \in NN!RatesIn(Under[n])
    BY <1>2, RatesAre
  <2> QED
    BY Zenon, <1>1, <2>1
<1>3. ASSUME NEW c, Under[c] \subseteq Under[n]
      PROVE  NN!NodeDist(n) <= NN!NodeDist(c)
  <2>1. NN!RatesIn(Under[c]) \subseteq NN!RatesIn(Under[n])
    BY <1>3, RatesAre
  <2>2. CASE NN!RatesIn(Under[c]) = {}
    BY <1>1, <2>2
  <2>3. CASE NN!RatesIn(Under[c]) # {}
    <3>1. PICK r \in NN!RatesIn(Under[c]) : NN!NodeDist(c) = Slots * r
      BY <1>1, <2>3
    <3>2. r \in NN!RatesIn(Under[n])
      BY <2>1
    <3>3. NN!NodeDist(n) <= Slots * r
      BY <1>1, <3>2
    <3> QED
      BY <3>1, <3>3
  <2> QED
    BY <2>2, <2>3
<1> QED
  BY <1>1, <1>2, <1>3

-----------------------------------------------------------------------------
(* The invariant of a nearest-neighbour query. *)

(* The boxes of the trajectories, those not read, and those an entry of    *)
(* the nodes' queue leads to: the boxes under a node, or the box it is.    *)
AllBoxes == UNION {{t} \X BoxesOf(world[t]) : t \in Traj}
Unread == {b \in AllBoxes : b[2] \notin parts[b[1]]}
Leads(e) ==
  {b \in AllBoxes :
     \/ e.type = 0 /\ world[b[1]].box[b[2]].leaf \in Under[e.id]
     \/ e.type = 1 /\ e.box = b}

Node(h) == nodespq.elements[h]
Candidate(h) == mpq.elements[h]
Answered == ToSet(reported)

SearchKinds ==
  /\ query \in Queries
  /\ world \in [Traj -> Shapes]
  /\ pc \in {"choose", "loop", "top", "visit", "push"} \cup Ended
  /\ Fine(nodespq) /\ Fine(mpq)
  /\ first \in Items
  /\ children \subseteq Items
  /\ DOMAIN parts = Traj
  /\ \A t \in Traj : parts[t] \subseteq BoxesOf(world[t])
  /\ DOMAIN handlers = {t \in Traj : parts[t] # {}}
  /\ lastNodeDist \in Nat
  /\ reported \in Seq(Traj)

SearchPhases ==
  /\ pc # "push" => children = {}
  /\ pc \in {"top", "visit"} => ~NN!Empty
  /\ pc = "top" => ~NN!Q!IsEmpty(mpq)
  /\ pc = "visit" => NN!Popped.entry = first

(* An entry of the nodes' queue bounds what it leads to. *)
NodeFits(e) ==
  /\ e.type = 0
  /\ e.id \in Inner \cup Leaf
  /\ lastNodeDist <= e.opt
  /\ e.opt <= NN!NodeDist(e.id)
BoxFits(e) ==
  /\ e.type = 1
  /\ \/ e.box \in AllBoxes /\ e.opt = NN!Lo(e.box[1], e.box[2])
     \/ e.box[2] = 0 /\ e.opt = Huge
WaitFits(e) == NodeFits(e) \/ BoxFits(e)
Waits ==
  /\ \A h \in Handles(nodespq) : WaitFits(Node(h))
  /\ \A e \in children : WaitFits(e)

(* Exactly one entry leads to a box that has not been read. *)
Led ==
  /\ \A h \in Handles(nodespq) : Leads(Node(h)) \subseteq Unread
  /\ \A e \in children : Leads(e) \subseteq Unread
  /\ \A b \in Unread :
       (\E h \in Handles(nodespq) : b \in Leads(Node(h))) \/ (\E e \in children : b \in Leads(e))
OneWay ==
  /\ \A g, h \in Handles(nodespq) : g # h => Leads(Node(g)) \cap Leads(Node(h)) = {}
  /\ \A h \in Handles(nodespq), e \in children : Leads(Node(h)) \cap Leads(e) = {}
  /\ \A d, e \in children : d # e => Leads(d) \cap Leads(e) = {}

(* A candidate whose boxes have all been read is exact, any other bounded  *)
(* by what has been read and what the last node allows for the gaps.       *)
Exact(e) == e.type = 3 /\ parts[e.id] = BoxesOf(world[e.id]) /\ e.opt = NN!TrueDistance(e.id)
Partial(e) ==
  /\ e.type = 2 /\ parts[e.id] # BoxesOf(world[e.id])
  /\ e.opt <= BoundOf(world[e.id], query.measure, parts[e.id], lastNodeDist)
Candidates ==
  \A h \in Handles(mpq) :
    /\ Candidate(h).id \in DOMAIN handlers
    /\ handlers[Candidate(h).id] = h
    /\ Candidate(h).id \notin Answered
    /\ Exact(Candidate(h)) \/ Partial(Candidate(h))

(* A trajectory of which a box has been read is a candidate or an answer. *)
Placed ==
  \A t \in DOMAIN handlers :
    \/ t \in Answered
    \/ handlers[t] \in Handles(mpq) /\ Candidate(handlers[t]).id = t

(* The answers are nearer than what is left. *)
Ranked ==
  /\ Distinct(reported)
  /\ \A t \in Answered : parts[t] = BoxesOf(world[t])
  /\ reported # <<>> => /\ knearest = NN!TrueDistance(reported[Len(reported)])
                        /\ \A u \in Traj \ Answered : knearest <= NN!TrueDistance(u)

SearchInv ==
  SearchKinds /\ SearchPhases /\ Waits /\ Led /\ OneWay /\ Candidates /\ Placed /\ Ranked
  /\ OnlyKnownFailures
SInv == query.kind = "knn" => SearchInv
-----------------------------------------------------------------------------
(* What the world gives stays as it is. *)
LEMMA WorldStays ==
  ASSUME world' = world, query' = query
  PROVE  /\ AllBoxes' = AllBoxes
         /\ \A e : Leads(e)' = Leads(e)
         /\ \A t : NN!TrueDistance(t)' = NN!TrueDistance(t)
         /\ \A t, i : NN!Lo(t, i)' = NN!Lo(t, i)
         /\ \A n : NN!NodeDist(n)' = NN!NodeDist(n)
<1>1. AllBoxes' = AllBoxes
  BY DEF AllBoxes
<1>2. \A e : Leads(e)' = Leads(e)
  BY <1>1 DEF Leads
<1>3. \A t, i : NN!Lo(t, i)' = NN!Lo(t, i)
  BY DEF NN!Lo
<1>4. \A t : NN!Boxes(t)' = NN!Boxes(t)
  BY DEF NN!Boxes
<1>5. \A t, S : NN!SumParts(t, S)' = NN!SumParts(t, S)
  BY DEF NN!SumParts
<1>6. \A t : NN!TrueDistance(t)' = NN!TrueDistance(t)
  BY <1>4, <1>5 DEF NN!TrueDistance
<1>7. \A S : NN!RatesIn(S)' = NN!RatesIn(S)
  BY <1>4 DEF NN!RatesIn
<1>8. \A n : NN!NodeDist(n)' = NN!NodeDist(n)
  BY <1>7 DEF NN!NodeDist
<1> QED
  BY <1>1, <1>2, <1>3, <1>6, <1>8

LEMMA WaitFitsStays ==
  ASSUME world' = world, query' = query, lastNodeDist' = lastNodeDist
  PROVE  \A e : WaitFits(e)' <=> WaitFits(e)
<1>1. \A e : NodeFits(e)' <=> NodeFits(e)
  BY WorldStays DEF NodeFits
<1>2. \A e : BoxFits(e)' <=> BoxFits(e)
  BY WorldStays DEF BoxFits
<1> QED
  BY <1>1, <1>2 DEF WaitFits

(* What is known of a candidate stays true while the last node is farther. *)
LEMMA CandidateStays ==
  ASSUME world' = world, query' = query,
         \A t \in Traj : world[t] \in Shapes /\ parts[t] \subseteq BoxesOf(world[t]),
         lastNodeDist \in Nat, lastNodeDist' \in Nat, lastNodeDist <= lastNodeDist',
         NEW e \in Items, e.id \in Traj, parts'[e.id] = parts[e.id], Exact(e) \/ Partial(e)
  PROVE  (Exact(e) \/ Partial(e))'
<1>1. CASE Exact(e)
  BY <1>1, WorldStays DEF Exact
<1>2. CASE Partial(e)
  <2>1. PICK s \in Shapes : s = world[e.id]
    OBVIOUS
  <2>2. PICK read \in SUBSET BoxesOf(s) : read = parts[e.id]
    BY <2>1
  <2>3. PICK last \in Nat : last = lastNodeDist
    OBVIOUS
  <2>4. PICK later \in Nat : later = lastNodeDist'
    OBVIOUS
  <2>5. BoundOf(s, query.measure, read, last) <= BoundOf(s, query.measure, read, later)
    BY <2>3, <2>4, BoundGrows
  <2>6. BoundOf(s, query.measure, read, last) \in Nat /\ BoundOf(s, query.measure, read, later) \in Nat
    BY BoundIs
  <2>7. e.type = 2 /\ read # BoxesOf(s) /\ e.opt <= BoundOf(s, query.measure, read, last)
    BY <1>2, <2>1, <2>2, <2>3 DEF Partial
  <2>8. e.opt \in Nat
    BY DEF Items
  <2>9. e.opt <= BoundOf(s, query.measure, read, later)
    BY <2>5, <2>6, <2>7, <2>8
  <2>10. world'[e.id] = s /\ parts'[e.id] = read /\ lastNodeDist' = later /\ query'.measure = query.measure
    BY <2>1, <2>2, <2>4
  <2>11. Partial(e)'
    BY <2>7, <2>9, <2>10 DEF Partial
  <2> QED
    BY <2>11
<1> QED
  BY <1>1, <1>2

-----------------------------------------------------------------------------
(* What waits for the boxes that have not been read. *)
LEMMA CandidateIs ==
  ASSUME SearchKinds, Candidates, NEW h \in Handles(mpq)
  PROVE  /\ Candidate(h) \in Items
         /\ Candidate(h).id \in Traj
         /\ Candidate(h).type \in {2, 3}
         /\ Candidate(h).opt \in Nat
<1>1. Candidate(h) \in Items
  BY FineQueue DEF SearchKinds, Candidate
<1>2. Candidate(h).id \in Traj
  BY DEF Candidates, SearchKinds
<1>3. Candidate(h).type \in {2, 3}
  BY DEF Candidates, Exact, Partial
<1> QED
  BY <1>1, <1>2, <1>3 DEF Items

LEMMA NodeIs ==
  ASSUME SearchKinds, Waits, NEW h \in Handles(nodespq)
  PROVE  /\ Node(h) \in Items
         /\ Node(h).opt \in Nat
         /\ WaitFits(Node(h))
         /\ Node(h).type \in {0, 1}
<1>1. Node(h) \in Items
  BY FineQueue DEF SearchKinds, Node
<1>2. WaitFits(Node(h))
  BY DEF Waits
<1>3. Node(h).type \in {0, 1}
  BY <1>2 DEF WaitFits, NodeFits, BoxFits
<1> QED
  BY <1>1, <1>2, <1>3 DEF Items

(* What is taken next: the first node or box, or the first candidate. *)
LEMMA NextNode ==
  ASSUME SearchKinds, Waits, ~NN!Q!IsEmpty(nodespq)
  PROVE  /\ nodespq.heap[1] \in Handles(nodespq)
         /\ NN!Q!Top(nodespq) = Node(nodespq.heap[1])
         /\ \A h \in Handles(nodespq) : NN!Q!Top(nodespq).opt <= Node(h).opt
         /\ NN!Q!Top(nodespq).opt \in Nat
         /\ NN!Q!Top(nodespq).type \in {0, 1}
<1>1. /\ nodespq.heap[1] \in Handles(nodespq)
      /\ NN!Q!Top(nodespq) = Node(nodespq.heap[1])
      /\ \A h \in Handles(nodespq) : NN!Q!Top(nodespq).opt <= Node(h).opt
  BY TopEntry DEF SearchKinds, Node
<1> QED
  BY <1>1, NodeIs

LEMMA NextCandidate ==
  ASSUME SearchKinds, Candidates, ~NN!Q!IsEmpty(mpq)
  PROVE  /\ mpq.heap[1] \in Handles(mpq)
         /\ NN!Q!Top(mpq) = Candidate(mpq.heap[1])
         /\ \A h \in Handles(mpq) : NN!Q!Top(mpq).opt <= Candidate(h).opt
         /\ NN!Q!Top(mpq).opt \in Nat
         /\ NN!Q!Top(mpq).type \in {2, 3}
<1>1. /\ mpq.heap[1] \in Handles(mpq)
      /\ NN!Q!Top(mpq) = Candidate(mpq.heap[1])
      /\ \A h \in Handles(mpq) : NN!Q!Top(mpq).opt <= Candidate(h).opt
  BY TopEntry DEF SearchKinds, Candidate
<1> QED
  BY <1>1, CandidateIs

LEMMA EmptyIs ==
  ASSUME SearchKinds
  PROVE  /\ NN!Q!IsEmpty(nodespq) <=> Handles(nodespq) = {}
         /\ NN!Q!IsEmpty(mpq) <=> Handles(mpq) = {}
BY FineQueue DEF SearchKinds

(* A box that has not been read waits in the nodes' queue, alone or under  *)
(* a node, which is queued with a bound of its rate.                       *)
LEMMA MissingWaits ==
  ASSUME SearchKinds, Waits, Led, children = {}, NEW t \in Traj, NEW i \in BoxesOf(world[t]) \ parts[t]
  PROVE  \E h \in Handles(nodespq) :
           /\ Node(h).opt < Huge
           /\ \/ Node(h).opt = NN!Lo(t, i)
              \/ lastNodeDist <= Node(h).opt /\ Node(h).opt <= Slots * world[t].box[i].rate
<1>0. world \in [Traj -> Shapes] /\ world[t] \in Shapes
  BY DEF SearchKinds
<1>1. <<t, i>> \in Unread
  BY DEF Unread, AllBoxes
<1>2. PICK h \in Handles(nodespq) : <<t, i>> \in Leads(Node(h))
  BY <1>1 DEF Led
<1>3. Node(h).opt \in Nat /\ WaitFits(Node(h))
  BY NodeIs
<1>4. CASE Node(h).type = 0 /\ world[t].box[i].leaf \in Under[Node(h).id]
  <2>1. NodeFits(Node(h))
    BY <1>3, <1>4 DEF WaitFits, BoxFits
  <2>2. NN!NodeDist(Node(h).id) <= Slots * world[t].box[i].rate /\ NN!NodeDist(Node(h).id) \in Nat
    BY <1>0, <1>4, NodeDistIs
  <2>3. PICK s \in Shapes : s = world[t]
    BY <1>0
  <2>4. PICK r \in Nat : r = Slots * world[t].box[i].rate
    BY Zenon, <2>3, ShapeFacts
  <2>5. r < Huge /\ Huge \in Nat
    BY <2>3, <2>4, ShapeFacts, NumberAssumption
  <2>6. lastNodeDist <= Node(h).opt /\ Node(h).opt <= NN!NodeDist(Node(h).id)
    BY <2>1 DEF NodeFits
  <2>7. Node(h).opt <= r /\ Node(h).opt < Huge
    BY <1>3, <2>2, <2>4, <2>5, <2>6
  <2> QED
    BY <2>4, <2>6, <2>7
<1>5. CASE Node(h).type = 1 /\ Node(h).box = <<t, i>>
  <2>1. BoxFits(Node(h))
    BY <1>3, <1>5 DEF WaitFits, NodeFits
  <2>2. i # 0
    <3>1. PICK s \in Shapes : s = world[t]
      BY <1>0
    <3>2. i \in 1 .. Len(s.box)
      BY <3>1, ShapeFacts
    <3> QED
      BY <3>2
  <2>3. Node(h).opt = NN!Lo(t, i)
    BY <1>5, <2>1, <2>2 DEF BoxFits
  <2> QED
    BY <1>0, <2>3, LoIs
<1> QED
  BY <1>2, <1>4, <1>5 DEF Leads

(* A trajectory not read to its end is no nearer than all that waits.      *)
LEMMA MissingIsFar ==
  ASSUME SearchKinds, Waits, Led, children = {}, Candidates, Placed, Ranked,
         NEW t \in Traj, parts[t] # BoxesOf(world[t])
  PROVE  \/ \E h \in Handles(nodespq) : Node(h).opt <= NN!TrueDistance(t)
         \/ \E h \in Handles(mpq) : Candidate(h).opt <= NN!TrueDistance(t)
<1>0. PICK s \in Shapes : s = world[t]
  BY DEF SearchKinds
<1>1. PICK read \in SUBSET BoxesOf(s) : read = parts[t]
  BY <1>0 DEF SearchKinds
<1>2. PICK d \in Nat : d = NN!TrueDistance(t) /\ d = DistanceOf(s, query.measure)
  BY <1>0, DistanceIs, WorldIs
<1>3. CASE \E i \in BoxesOf(s) \ read, h \in Handles(nodespq) : Node(h).opt = NN!Lo(t, i)
  <2>1. PICK i \in BoxesOf(s) \ read, h \in Handles(nodespq) : Node(h).opt = NN!Lo(t, i)
    BY <1>3
  <2>2. NN!Lo(t, i) <= NN!TrueDistance(t)
    BY <1>0, <2>1, LoIs
  <2> QED
    BY <2>1, <2>2
<1>4. CASE \A i \in BoxesOf(s) \ read, h \in Handles(nodespq) : Node(h).opt # NN!Lo(t, i)
  <2>1. ASSUME NEW i \in BoxesOf(s) \ read
        PROVE  \E h \in Handles(nodespq) :
                 lastNodeDist <= Node(h).opt /\ Node(h).opt <= Slots * s.box[i].rate
    <3>1. i \in BoxesOf(world[t]) \ parts[t]
      BY <1>0, <1>1
    <3>2. PICK h \in Handles(nodespq) :
           \/ Node(h).opt = NN!Lo(t, i)
           \/ lastNodeDist <= Node(h).opt /\ Node(h).opt <= Slots * world[t].box[i].rate
      BY <3>1, MissingWaits
    <3> QED
      BY <1>0, <1>4, <3>2
  <2>2. PICK i0 \in BoxesOf(s) \ read : TRUE
    BY Zenon, <1>0, <1>1
  <2>3. ~NN!Q!IsEmpty(nodespq)
    BY <2>1, <2>2, EmptyIs
  <2>4. PICK e \in Nat : e = NN!Q!Top(nodespq).opt
    BY <2>3, NextNode
  <2>5. PICK g \in Handles(nodespq) : Node(g).opt = e
    BY <2>3, <2>4, NextNode
  <2>6. CASE read = {}
    <3>1. ASSUME NEW i \in BoxesOf(s)
          PROVE  e <= Slots * s.box[i].rate
      <4>1. PICK h \in Handles(nodespq) : Node(h).opt <= Slots * s.box[i].rate
        BY <2>1, <2>6
      <4>2. e <= Node(h).opt /\ Node(h).opt \in Nat
        BY <2>3, <2>4, NextNode, NodeIs
      <4>3. Slots * s.box[i].rate \in Nat
        BY ShapeFacts
      <4> QED
        BY <4>1, <4>2, <4>3
    <3>2. e <= DistanceOf(s, query.measure)
      BY <3>1, UnreadFar
    <3> QED
      BY <1>2, <2>5, <3>2
  <2>7. CASE read # {}
    <3>1. t \in DOMAIN handlers /\ t \notin Answered
      BY <1>1, <2>7 DEF SearchKinds, Ranked
    <3>2. PICK h \in Handles(mpq) : Candidate(h).id = t
      BY <3>1 DEF Placed
    <3>3. Partial(Candidate(h))
      BY <3>2 DEF Candidates, Exact
    <3>4. PICK last \in Nat : last = lastNodeDist
      BY DEF SearchKinds
    <3>5. Candidate(h).opt <= BoundOf(s, query.measure, read, last)
      BY <1>0, <1>1, <3>2, <3>3, <3>4 DEF Partial
    <3>6. ASSUME NEW i \in BoxesOf(s) \ read
          PROVE  last <= Slots * s.box[i].rate
      <4>1. PICK k \in Handles(nodespq) : last <= Node(k).opt /\ Node(k).opt <= Slots * s.box[i].rate
        BY <2>1, <3>4
      <4>2. Node(k).opt \in Nat
        BY NodeIs
      <4>3. Slots * s.box[i].rate \in Nat
        BY ShapeFacts
      <4> QED
        BY <4>1, <4>2, <4>3
    <3>7. BoundOf(s, query.measure, read, last) <= DistanceOf(s, query.measure)
      BY <3>6, BoundFits
    <3>8. BoundOf(s, query.measure, read, last) \in Nat
      BY BoundIs
    <3>9. Candidate(h).opt \in Nat
      BY CandidateIs
    <3>10. Candidate(h).opt <= d
      BY <1>2, <3>5, <3>7, <3>8, <3>9
    <3> QED
      BY <1>2, <3>10
  <2> QED
    BY <2>6, <2>7
<1> QED
  BY <1>3, <1>4

(* A trajectory read to its end is an answer, or a candidate that is exact. *)
LEMMA ReadIsExact ==
  ASSUME SearchKinds, Candidates, Placed, NEW t \in Traj, parts[t] = BoxesOf(world[t]), t \notin Answered
  PROVE  \E h \in Handles(mpq) : Candidate(h).id = t /\ Candidate(h).type = 3
                                 /\ Candidate(h).opt = NN!TrueDistance(t)
<1>1. parts[t] # {}
  <2>1. PICK s \in Shapes : s = world[t]
    BY DEF SearchKinds
  <2>2. 1 \in BoxesOf(s)
    BY ShapeFacts
  <2> QED
    BY <2>1, <2>2
<1>2. t \in DOMAIN handlers
  BY <1>1 DEF SearchKinds
<1>3. PICK h \in Handles(mpq) : Candidate(h).id = t
  BY <1>2 DEF Placed
<1>4. Exact(Candidate(h))
  BY <1>3 DEF Candidates, Partial
<1> QED
  BY <1>3, <1>4 DEF Exact

(* What pop() takes. *)
LEMMA PoppedIs ==
  ASSUME SearchInv, pc = "visit"
  PROVE  \/ /\ first.type \in {0, 1}
            /\ ~NN!Q!IsEmpty(nodespq)
            /\ first = NN!Q!Top(nodespq)
            /\ ~NN!Ready
            /\ NN!Popped.nodes = NN!Q!Pop(nodespq)
            /\ NN!Popped.cands = mpq
            /\ NN!Popped.last = IF first.type = 0 THEN first.opt ELSE lastNodeDist
         \/ /\ first.type \in {2, 3}
            /\ ~NN!Q!IsEmpty(mpq)
            /\ first = NN!Q!Top(mpq)
            /\ NN!Ready \/ NN!Q!IsEmpty(nodespq)
            /\ NN!Popped.nodes = nodespq
            /\ NN!Popped.cands = NN!Q!Pop(mpq)
            /\ NN!Popped.last = lastNodeDist
<1>0. SearchKinds /\ Waits /\ Candidates /\ ~NN!Empty /\ NN!Popped.entry = first
  BY DEF SearchInv, SearchPhases
<1>1. CASE NN!Ready \/ NN!Q!IsEmpty(nodespq)
  <2>1. ~NN!Q!IsEmpty(mpq)
    BY <1>0, <1>1 DEF NN!Ready, NN!Empty
  <2>2. NN!Popped = [entry |-> NN!Q!Top(mpq), nodes |-> nodespq, cands |-> NN!Q!Pop(mpq), last |-> lastNodeDist]
    BY <1>1 DEF NN!Popped
  <2>3. NN!Q!Top(mpq).type \in {2, 3}
    BY <1>0, <2>1, NextCandidate
  <2> QED
    BY <1>0, <1>1, <2>1, <2>2, <2>3
<1>2. CASE ~(NN!Ready \/ NN!Q!IsEmpty(nodespq))
  <2>1. NN!Popped = [entry |-> NN!Q!Top(nodespq), nodes |-> NN!Q!Pop(nodespq), cands |-> mpq,
                     last |-> IF NN!Q!Top(nodespq).type = 0 THEN NN!Q!Top(nodespq).opt ELSE lastNodeDist]
    BY <1>2 DEF NN!Popped
  <2>2. NN!Q!Top(nodespq).type \in {0, 1}
    BY <1>0, <1>2, NextNode
  <2> QED
    BY <1>0, <1>2, <2>1, <2>2
<1> QED
  BY <1>1, <1>2

(* What is reported is exact, and as near as any that is left. *)
LEMMA NoneNearer ==
  ASSUME SearchInv, pc = "visit", first.type = 3
  PROVE  /\ first.id \in Traj \ Answered
         /\ parts[first.id] = BoxesOf(world[first.id])
         /\ first.opt = NN!TrueDistance(first.id)
         /\ \A u \in Traj \ Answered : first.opt <= NN!TrueDistance(u)
<1>0. SearchKinds /\ Waits /\ Led /\ Candidates /\ Placed /\ Ranked /\ children = {}
  BY DEF SearchInv, SearchPhases
<1>1. /\ ~NN!Q!IsEmpty(mpq)
      /\ first = NN!Q!Top(mpq)
      /\ NN!Ready \/ NN!Q!IsEmpty(nodespq)
  BY PoppedIs
<1>2. /\ mpq.heap[1] \in Handles(mpq) /\ first = Candidate(mpq.heap[1])
      /\ \A h \in Handles(mpq) : first.opt <= Candidate(h).opt
      /\ first.opt \in Nat
  BY <1>0, <1>1, NextCandidate
<1>3. first.id \in Traj \ Answered /\ Exact(first)
  BY <1>0, <1>2, CandidateIs DEF Candidates, Partial
<1>4. ASSUME NEW u \in Traj \ Answered
      PROVE  first.opt <= NN!TrueDistance(u)
  <2>0. PICK d \in Nat : d = NN!TrueDistance(u)
    BY <1>0, DistanceIs DEF SearchKinds
  <2>1. CASE parts[u] = BoxesOf(world[u])
    <3>1. PICK h \in Handles(mpq) : Candidate(h).opt = NN!TrueDistance(u)
      BY <1>0, <2>1, ReadIsExact
    <3> QED
      BY <1>2, <3>1
  <2>2. CASE \E h \in Handles(mpq) : Candidate(h).opt <= NN!TrueDistance(u)
    <3>1. PICK h \in Handles(mpq) : Candidate(h).opt <= d
      BY <2>0, <2>2
    <3>2. Candidate(h).opt \in Nat /\ first.opt <= Candidate(h).opt
      BY <1>0, <1>2, CandidateIs
    <3> QED
      BY <1>2, <2>0, <3>1, <3>2
  <2>3. CASE \E h \in Handles(nodespq) : Node(h).opt <= NN!TrueDistance(u)
    <3>1. PICK h \in Handles(nodespq) : Node(h).opt <= d
      BY <2>0, <2>3
    <3>2. ~NN!Q!IsEmpty(nodespq)
      BY <1>0, EmptyIs
    <3>3. first.opt < NN!Q!Top(nodespq).opt
      BY <1>1, <3>2 DEF NN!Ready
    <3>4. NN!Q!Top(nodespq).opt <= Node(h).opt /\ NN!Q!Top(nodespq).opt \in Nat /\ Node(h).opt \in Nat
      BY <1>0, <3>2, NextNode, NodeIs
    <3> QED
      BY <1>2, <2>0, <3>1, <3>3, <3>4
  <2> QED
    BY <1>0, <2>1, <2>2, <2>3, MissingIsFar
<1> QED
  BY <1>3, <1>4 DEF Exact

(* When no box is left, all trajectories are answers or exact candidates. *)
LEMMA AllRead ==
  ASSUME SearchInv, children = {}, \A h \in Handles(nodespq) : Node(h).opt >= Huge, NEW t \in Traj
  PROVE  parts[t] = BoxesOf(world[t])
<1>0. SearchKinds /\ Waits /\ Led
  BY DEF SearchInv
<1>1. SUFFICES ASSUME parts[t] # BoxesOf(world[t])
               PROVE  FALSE
  OBVIOUS
<1>2. PICK i \in BoxesOf(world[t]) \ parts[t] : TRUE
  BY Zenon, <1>0, <1>1 DEF SearchKinds
<1>3. PICK h \in Handles(nodespq) : Node(h).opt < Huge
  BY <1>0, <1>2, MissingWaits
<1>4. Node(h).opt \in Nat /\ Huge \in Nat
  BY <1>0, NodeIs, NumberAssumption
<1> QED
  BY <1>3, <1>4

(* The switch meets no incomplete candidate, and a box beyond the query's  *)
(* time only when all trajectories have been reported.                     *)
LEMMA FailsAtEnd ==
  ASSUME SearchInv, pc = "visit"
  PROVE  /\ first.type # 2
         /\ first.type = 1 /\ first.box[2] = 0 => Answered = Traj
<1>0. /\ SearchKinds /\ Waits /\ Led /\ Candidates /\ Placed /\ Ranked /\ children = {}
      /\ Huge \in Nat
  BY NumberAssumption DEF SearchInv, SearchPhases
<1>1. first.type # 2
  <2> SUFFICES ASSUME first.type = 2
               PROVE  FALSE
    OBVIOUS
  <2>1. /\ ~NN!Q!IsEmpty(mpq) /\ first = NN!Q!Top(mpq)
        /\ NN!Ready \/ NN!Q!IsEmpty(nodespq)
    BY PoppedIs
  <2>2. NN!Q!IsEmpty(nodespq)
    BY <2>1 DEF NN!Ready
  <2>3. Handles(nodespq) = {}
    BY <1>0, <2>2, EmptyIs
  <2>4. mpq.heap[1] \in Handles(mpq) /\ first = Candidate(mpq.heap[1])
    BY <1>0, <2>1, NextCandidate
  <2>5. Partial(first) /\ first.id \in Traj
    BY <1>0, <2>4, CandidateIs DEF Candidates, Exact
  <2> QED
    BY <1>0, <2>3, <2>5, AllRead DEF Partial
<1>2. ASSUME first.type = 1, first.box[2] = 0
      PROVE  Answered = Traj
  <2>1. ~NN!Q!IsEmpty(nodespq) /\ first = NN!Q!Top(nodespq) /\ ~NN!Ready
    BY <1>2, PoppedIs
  <2>2. /\ nodespq.heap[1] \in Handles(nodespq) /\ first = Node(nodespq.heap[1])
        /\ \A h \in Handles(nodespq) : first.opt <= Node(h).opt
        /\ first.opt \in Nat
    BY <1>0, <2>1, NextNode
  <2>3. first.opt = Huge
    <3>1. BoxFits(first)
      BY <1>0, <1>2, <2>2, NodeIs DEF WaitFits, NodeFits
    <3>2. first.box \notin AllBoxes
      <4> SUFFICES ASSUME first.box \in AllBoxes
                   PROVE  FALSE
        OBVIOUS
      <4>1. PICK t \in Traj : first.box \in {t} \X BoxesOf(world[t])
        BY DEF AllBoxes
      <4>2. PICK s \in Shapes : s = world[t]
        BY <1>0 DEF SearchKinds
      <4>3. first.box[2] \in 1 .. Len(s.box)
        BY <4>1, <4>2, ShapeFacts
      <4> QED
        BY <1>2, <4>3
    <3> QED
      BY <3>1, <3>2 DEF BoxFits
  <2>4. \A t \in Traj : parts[t] = BoxesOf(world[t])
    <3>1. \A h \in Handles(nodespq) : Node(h).opt >= Huge
      BY <2>2, <2>3
    <3> QED
      BY <1>0, <3>1, AllRead
  <2>5. NN!Q!IsEmpty(mpq)
    <3> SUFFICES ASSUME ~NN!Q!IsEmpty(mpq)
                 PROVE  FALSE
      OBVIOUS
    <3>1. mpq.heap[1] \in Handles(mpq) /\ NN!Q!Top(mpq) = Candidate(mpq.heap[1])
      BY <1>0, NextCandidate
    <3>2. PICK c : c = NN!Q!Top(mpq)
      OBVIOUS
    <3>3. c.id \in Traj /\ Exact(c)
      BY <1>0, <2>4, <3>1, <3>2, CandidateIs DEF Candidates, Partial
    <3>4. NN!TrueDistance(c.id) < Huge
      BY <1>0, <3>3, DistanceIs DEF SearchKinds
    <3>5. c.type = 3 /\ c.opt < NN!Q!Top(nodespq).opt
      BY <2>1, <2>3, <3>3, <3>4 DEF Exact
    <3> QED
      BY <2>1, <3>2, <3>5 DEF NN!Ready
  <2>6. Handles(mpq) = {}
    BY <1>0, <2>5, EmptyIs
  <2>7. Traj \subseteq Answered
    BY <1>0, <2>4, <2>6, ReadIsExact
  <2>8. Answered \subseteq Traj
    <3>1. reported \in Seq(Traj)
      BY <1>0 DEF SearchKinds
    <3> QED
      BY <3>1 DEF Answered, ToSet
  <2> QED
    BY <2>7, <2>8
<1> QED
  BY <1>1, <1>2

-----------------------------------------------------------------------------
(* Steps that take nothing from the queues and put nothing there.          *)
found == <<knearest, reported>>
queues == <<nodespq, mpq, handlers, children, parts, lastNodeDist>>

LEMMA QueuesStay ==
  ASSUME SearchInv, UNCHANGED <<world, query, queues, found>>
  PROVE  Waits' /\ Led' /\ OneWay' /\ Candidates' /\ Placed' /\ Ranked'
<1>0. /\ world' = world /\ query' = query /\ nodespq' = nodespq /\ mpq' = mpq /\ handlers' = handlers
      /\ children' = children /\ parts' = parts /\ lastNodeDist' = lastNodeDist
      /\ knearest' = knearest /\ reported' = reported
  BY DEF queues, found
<1>1. /\ \A h : Node(h)' = Node(h) /\ Candidate(h)' = Candidate(h)
      /\ Handles(nodespq)' = Handles(nodespq) /\ Handles(mpq)' = Handles(mpq)
      /\ Answered' = Answered
  BY <1>0 DEF Node, Candidate, Handles, Answered, ToSet
<1>2. Unread' = Unread /\ \A e : Leads(e)' = Leads(e)
  BY <1>0, WorldStays DEF Unread
<1>3. Waits'
  BY <1>0, <1>1, WaitFitsStays DEF SearchInv, Waits
<1>4. Led'
  BY <1>0, <1>1, <1>2 DEF SearchInv, Led
<1>5. OneWay'
  BY <1>0, <1>1, <1>2 DEF SearchInv, OneWay
<1>6. Candidates'
  <2>1. \A e : (Exact(e)' <=> Exact(e)) /\ (Partial(e)' <=> Partial(e))
    BY <1>0, WorldStays DEF Exact, Partial
  <2> QED
    BY <1>0, <1>1, <2>1 DEF SearchInv, Candidates
<1>7. Placed'
  BY <1>0, <1>1 DEF SearchInv, Placed
<1>8. Ranked'
  <2>1. Distinct(reported)'
    BY <1>0 DEF SearchInv, Ranked, Distinct
  <2> QED
    BY <1>0, <1>1, <2>1, WorldStays DEF SearchInv, Ranked
<1> QED
  BY <1>3, <1>4, <1>5, <1>6, <1>7, <1>8

LEMMA QuietKeeps ==
  ASSUME SearchInv, UNCHANGED <<world, query, queues, found>>, first' \in Items,
         pc' \in {"choose", "loop", "top", "visit", "push"} \cup Ended,
         SearchPhases', OnlyKnownFailures'
  PROVE  SearchInv'
<1>1. SearchKinds'
  <2>1. SearchKinds
    BY DEF SearchInv
  <2> QED
    BY <2>1 DEF SearchKinds, queues, found
<1> QED
  BY <1>1, QueuesStay DEF SearchInv

(* A step within the search that does not end it. *)
LEMMA GoesOn ==
  ASSUME pc' \in {"loop", "top", "visit", "push", "done"}
  PROVE  OnlyKnownFailures'
BY DEF OnlyKnownFailures

LEMMA TopNodeKeeps ==
  ASSUME SearchInv, NN!TopNode
  PROVE  SearchInv'
<1>0. SearchKinds /\ SearchPhases /\ Waits /\ Candidates
  BY DEF SearchInv
<1>1. /\ pc = "loop" /\ pc' = "visit" /\ first' = NN!Q!Top(nodespq) /\ ~NN!Empty /\ NN!NodeIsNext
      /\ UNCHANGED <<world, query, queues, found>>
  BY DEF NN!TopNode, NN!rigid, NN!queues, NN!found, queues, found
<1>2. ~NN!Q!IsEmpty(nodespq)
  BY <1>1 DEF NN!Empty, NN!NodeIsNext
<1>3. ~NN!Ready
  <2> SUFFICES ASSUME NN!Ready
               PROVE  FALSE
    OBVIOUS
  <2>1. ~NN!Q!IsEmpty(mpq) /\ NN!Q!Top(mpq).opt < NN!Q!Top(nodespq).opt
    BY <1>2 DEF NN!Ready
  <2>2. NN!Q!Top(nodespq).opt < NN!Q!Top(mpq).opt
    BY <1>1, <2>1 DEF NN!NodeIsNext
  <2>3. NN!Q!Top(nodespq).opt \in Nat /\ NN!Q!Top(mpq).opt \in Nat
    BY <1>0, <1>2, <2>1, NextNode, NextCandidate
  <2> QED
    BY <2>1, <2>2, <2>3
<1>4. NN!Popped.entry = NN!Q!Top(nodespq)
  BY <1>2, <1>3 DEF NN!Popped
<1>5. nodespq' = nodespq /\ mpq' = mpq /\ lastNodeDist' = lastNodeDist /\ children' = children
  BY <1>1 DEF queues
<1>6. NN!Popped' = NN!Popped /\ (NN!Empty' <=> NN!Empty)
  BY <1>5 DEF NN!Popped, NN!Ready, NN!Empty
<1>7. SearchPhases'
  BY <1>0, <1>1, <1>4, <1>5, <1>6 DEF SearchPhases
<1>8. first' \in Items
  BY <1>0, <1>1, <1>2, TopEntry DEF SearchKinds
<1> QED
  BY <1>1, <1>7, <1>8, QuietKeeps, GoesOn

LEMMA TopReturnsKeeps ==
  ASSUME SearchInv, NN!TopReturns
  PROVE  SearchInv'
<1>0. SearchKinds /\ SearchPhases
  BY DEF SearchInv
<1>1. /\ pc = "top" /\ pc' = "visit"
      /\ first' = IF NN!Ready \/ NN!Q!IsEmpty(nodespq) THEN NN!Q!Top(mpq) ELSE NN!Q!Top(nodespq)
      /\ UNCHANGED <<world, query, queues, found>>
  BY DEF NN!TopReturns, NN!rigid, NN!queues, NN!found, queues, found
<1>2. ~NN!Q!IsEmpty(mpq) /\ ~NN!Empty
  BY <1>0, <1>1 DEF SearchPhases
<1>3. NN!Popped.entry = first'
  BY <1>1 DEF NN!Popped
<1>4. nodespq' = nodespq /\ mpq' = mpq /\ lastNodeDist' = lastNodeDist /\ children' = children
  BY <1>1 DEF queues
<1>5. NN!Popped' = NN!Popped /\ (NN!Empty' <=> NN!Empty)
  BY <1>4 DEF NN!Popped, NN!Ready, NN!Empty
<1>6. SearchPhases'
  BY <1>0, <1>1, <1>2, <1>3, <1>4, <1>5 DEF SearchPhases
<1>7. first' \in Items
  BY <1>0, <1>1, <1>2, TopEntry DEF SearchKinds
<1> QED
  BY <1>1, <1>6, <1>7, QuietKeeps, GoesOn

LEMMA TopCandidateKeeps ==
  ASSUME SearchInv, NN!TopCandidate
  PROVE  SearchInv'
<1>0. SearchKinds /\ SearchPhases
  BY DEF SearchInv
<1>1. /\ pc = "loop" /\ pc' = "top" /\ ~NN!Empty /\ ~NN!NodeIsNext
      /\ first' = first /\ UNCHANGED <<world, query, queues, found>>
  BY DEF NN!TopCandidate, NN!rigid, NN!queues, NN!found, queues, found
<1>2. ~NN!Q!IsEmpty(mpq)
  BY <1>1 DEF NN!NodeIsNext
<1>3. nodespq' = nodespq /\ mpq' = mpq /\ children' = children
  BY <1>1 DEF queues
<1>4. SearchPhases'
  BY <1>0, <1>1, <1>2, <1>3 DEF SearchPhases, NN!Empty
<1>5. first' \in Items
  BY <1>0, <1>1 DEF SearchKinds
<1> QED
  BY <1>1, <1>4, <1>5, QuietKeeps, GoesOn

(* The end of the loop, and of a node's children. *)
LEMMA EndKeeps ==
  ASSUME SearchInv, NN!Exhausted \/ NN!Stop \/ NN!ChildrenPushed
  PROVE  SearchInv'
<1>0. SearchKinds /\ SearchPhases
  BY DEF SearchInv
<1>1. /\ pc' \in {"done", "loop"} /\ children = {}
      /\ first' = first /\ UNCHANGED <<world, query, queues, found>>
  BY <1>0 DEF NN!Exhausted, NN!Stop, NN!ChildrenPushed, NN!rigid, NN!queues, NN!found, queues, found,
              SearchPhases
<1>2. SearchPhases'
  BY <1>1 DEF SearchPhases, queues
<1>3. first' \in Items
  BY <1>0, <1>1 DEF SearchKinds
<1>4. pc' \in {"choose", "loop", "top", "visit", "push"} \cup Ended
  BY <1>1 DEF Ended
<1> QED
  BY <1>1, <1>2, <1>3, <1>4, QuietKeeps, GoesOn

LEMMA FailKeeps ==
  ASSUME SearchInv, NN!Fail
  PROVE  SearchInv'
<1>0. SearchKinds /\ SearchPhases
  BY DEF SearchInv
<1>1. /\ pc = "visit"
      /\ (first.type = 1 /\ first.box[2] = 0) \/ first.type = 2
      /\ pc' = (IF first.type = 1 THEN "broken" ELSE "thrown")
      /\ first' = first /\ UNCHANGED <<world, query, queues, found>>
  BY DEF NN!Fail, NN!Visit, NN!rigid, NN!queues, NN!found, queues, found
<1>2. first.type = 1 /\ Answered = Traj /\ pc' = "broken"
  BY <1>1, FailsAtEnd
<1>3. children' = {}
  BY <1>0, <1>1 DEF SearchPhases, queues
<1>4. SearchPhases'
  BY <1>2, <1>3 DEF SearchPhases
<1>5. OnlyKnownFailures'
  <2>1. ToSet(reported') = Traj
    BY <1>1, <1>2 DEF Answered, found
  <2> QED
    BY <1>2, <2>1 DEF OnlyKnownFailures
<1>6. first' \in Items /\ pc' \in Ended
  BY <1>0, <1>1, <1>2 DEF SearchKinds, Ended
<1> QED
  BY <1>1, <1>4, <1>5, <1>6, QuietKeeps

(* The choice of the tree. *)
LEMMA ChosenKeeps ==
  ASSUME SearchInv, query.kind = "knn", ChooseTree \/ NoTreeTakes
  PROVE  SearchInv'
<1>0. SearchKinds /\ SearchPhases
  BY DEF SearchInv
<1>1. /\ pc = "choose" /\ pc' \in {"short", "partsstore", "loop", "crashed"}
      /\ pc' = "crashed" => \A key \in DOMAIN trees : ~Takes(key)
      /\ trees' = trees /\ first' = first /\ UNCHANGED <<world, query, queues, found>>
  BY DEF ChooseTree, NoTreeTakes, knn, queues, found
<1>2. SearchPhases'
  <2>1. children' = {}
    BY <1>0, <1>1 DEF SearchPhases, queues
  <2> QED
    BY <1>1, <2>1 DEF SearchPhases
<1>3. OnlyKnownFailures'
  BY <1>1 DEF OnlyKnownFailures, Takes
<1>4. first' \in Items /\ pc' \in {"loop"} \cup Ended
  BY <1>0, <1>1 DEF SearchKinds, Ended
<1> QED
  BY <1>1, <1>2, <1>3, <1>4, QuietKeeps

-----------------------------------------------------------------------------
(* The candidates after an estimate of t, exact or a bound: it stands      *)
(* where t's handle leads, or at a new one.                                *)
LEMMA EnqueuedQueue ==
  ASSUME SearchKinds, Candidates, Placed, NEW t \in Traj \ Answered, NEW e \in Items, e.id = t,
         NN!Enqueue(mpq, e)
  PROVE  \E h :
           /\ Fine(mpq')
           /\ Handles(mpq') = Handles(mpq) \cup {h}
           /\ mpq'.elements[h] = e
           /\ \A g \in Handles(mpq) \ {h} : mpq'.elements[g] = mpq.elements[g]
           /\ DOMAIN handlers' = DOMAIN handlers \cup {t}
           /\ handlers'[t] = h
           /\ \A u \in DOMAIN handlers \ {t} : handlers'[u] = handlers[u]
           /\ t \in DOMAIN handlers => h \in Handles(mpq) /\ Candidate(h).id = t
           /\ t \notin DOMAIN handlers => h \notin Handles(mpq)
<1>0. Fine(mpq)
  BY DEF SearchKinds
<1>1. CASE t \in DOMAIN handlers
  <2>1. mpq' = NN!Q!Update(mpq, handlers[t], e) /\ handlers' = handlers
    BY <1>1 DEF NN!Enqueue
  <2>2. PICK h : h = handlers[t]
    OBVIOUS
  <2>3. h \in Handles(mpq) /\ Candidate(h).id = t
    BY <1>1, <2>2 DEF Placed
  <2>4. PICK r : r = mpq'
    OBVIOUS
  <2>5. /\ Fine(r)
        /\ Handles(r) = Handles(mpq)
        /\ r.elements[h] = e
        /\ \A g \in Handles(mpq) : g # h => r.elements[g] = mpq.elements[g]
    BY <1>0, <2>1, <2>2, <2>3, <2>4, UpdatedEntry
  <2> QED
    BY <1>1, <2>1, <2>2, <2>3, <2>4, <2>5
<1>2. CASE t \notin DOMAIN handlers
  <2>1. PICK h : h = NN!Q!FreeHandle(mpq)
    OBVIOUS
  <2>2. /\ mpq' = NN!Q!Push(mpq, e)
        /\ handlers' = [u \in DOMAIN handlers \cup {t} |-> IF u = t THEN h ELSE handlers[u]]
    BY <1>2, <2>1 DEF NN!Enqueue
  <2>3. PICK r : r = mpq'
    OBVIOUS
  <2>4. /\ Fine(r)
        /\ h \notin Handles(mpq)
        /\ Handles(r) = Handles(mpq) \cup {h}
        /\ r.elements[h] = e
        /\ \A g \in Handles(mpq) : r.elements[g] = mpq.elements[g]
    BY <1>0, <2>1, <2>2, <2>3, PushedEntry
  <2>5. /\ DOMAIN handlers' = DOMAIN handlers \cup {t}
        /\ handlers'[t] = h
        /\ \A u \in DOMAIN handlers \ {t} : handlers'[u] = handlers[u]
    BY <2>2
  <2> QED
    BY <1>2, <2>3, <2>4, <2>5
<1> QED
  BY <1>1, <1>2

LEMMA EnqueueKeeps ==
  ASSUME SearchKinds, Candidates, Placed, NEW t \in Traj \ Answered, NEW e \in Items, e.id = t,
         NN!Enqueue(mpq, e), UNCHANGED <<world, query, reported, lastNodeDist>>,
         DOMAIN parts' = Traj, \A u \in Traj \ {t} : parts'[u] = parts[u],
         parts'[t] # {}, (Exact(e) \/ Partial(e))'
  PROVE  /\ Fine(mpq') /\ Handles(mpq') # {}
         /\ DOMAIN handlers' = {u \in Traj : parts'[u] # {}}
         /\ Candidates' /\ Placed'
<1>1. PICK h :
           /\ Fine(mpq')
           /\ Handles(mpq') = Handles(mpq) \cup {h}
           /\ mpq'.elements[h] = e
           /\ \A g \in Handles(mpq) \ {h} : mpq'.elements[g] = mpq.elements[g]
           /\ DOMAIN handlers' = DOMAIN handlers \cup {t}
           /\ handlers'[t] = h
           /\ \A u \in DOMAIN handlers \ {t} : handlers'[u] = handlers[u]
           /\ t \in DOMAIN handlers => h \in Handles(mpq) /\ Candidate(h).id = t
           /\ t \notin DOMAIN handlers => h \notin Handles(mpq)
  BY EnqueuedQueue
<1>2. Answered' = Answered /\ Handles(mpq)' = Handles(mpq')
  BY DEF Answered, ToSet, Handles
<1>3. Candidate(h)' = e /\ \A g \in Handles(mpq) \ {h} : Candidate(g)' = Candidate(g)
  BY <1>1 DEF Candidate
<1>4. DOMAIN handlers' = {u \in Traj : parts'[u] # {}}
  BY <1>1 DEF SearchKinds
<1>5. Candidates'
  <2>1. /\ e.id \in DOMAIN handlers' /\ handlers'[e.id] = h /\ e.id \notin Answered'
    BY <1>1, <1>2
  <2>2. ASSUME NEW g \in Handles(mpq) \ {h}
        PROVE  /\ Candidate(g).id \in DOMAIN handlers'
               /\ handlers'[Candidate(g).id] = g
               /\ Candidate(g).id \notin Answered'
               /\ (Exact(Candidate(g)) \/ Partial(Candidate(g)))'
    <3>1. PICK c : c = Candidate(g)
      OBVIOUS
    <3>2. /\ c \in Items /\ c.id \in Traj /\ c.id \in DOMAIN handlers /\ handlers[c.id] = g
          /\ c.id \notin Answered
          /\ Exact(c) \/ Partial(c)
      BY <3>1, CandidateIs DEF Candidates
    <3>3. c.id # t
      BY <1>1, <3>2 DEF Candidates
    <3>4. parts'[c.id] = parts[c.id]
      BY <3>2, <3>3
    <3>5. Exact(c)' \/ Partial(c)'
      <4>1. /\ \A u \in Traj : world[u] \in Shapes /\ parts[u] \subseteq BoxesOf(world[u])
            /\ lastNodeDist \in Nat
        BY DEF SearchKinds
      <4>2. Exact(c) \/ Partial(c)
        BY <3>2
      <4> QED
        BY <3>2, <3>4, <4>1, <4>2, CandidateStays
    <3>6. Candidate(g)' = c
      BY <1>3, <3>1
    <3>7. (Exact(Candidate(g)) \/ Partial(Candidate(g)))'
      BY <3>5, <3>6 DEF Exact, Partial
    <3> QED
      BY <1>1, <1>2, <3>1, <3>2, <3>3, <3>7
  <2>3. ASSUME NEW g \in Handles(mpq')
        PROVE  (/\ Candidate(g).id \in DOMAIN handlers
                /\ handlers[Candidate(g).id] = g
                /\ Candidate(g).id \notin Answered
                /\ Exact(Candidate(g)) \/ Partial(Candidate(g)))'
    <3>1. CASE g = h
      <4>1. Candidate(g)' = e
        BY <1>3, <3>1
      <4>2. (Exact(Candidate(g)) \/ Partial(Candidate(g)))'
        BY <4>1 DEF Exact, Partial
      <4> QED
        BY <2>1, <3>1, <4>1, <4>2
    <3>2. CASE g # h
      <4>1. g \in Handles(mpq) \ {h}
        BY <1>1, <3>2
      <4>2. Candidate(g)' = Candidate(g)
        BY <1>3, <4>1
      <4> QED
        BY <2>2, <4>1, <4>2
    <3> QED
      BY <3>1, <3>2
  <2> QED
    BY <1>2, <2>3 DEF Candidates
<1>6. Placed'
  <2>1. ASSUME NEW u \in DOMAIN handlers', u \notin Answered
        PROVE  handlers'[u] \in Handles(mpq') /\ mpq'.elements[handlers'[u]].id = u
    <3>1. CASE u = t
      BY <1>1, <3>1
    <3>2. CASE u # t
      <4>1. u \in DOMAIN handlers \ {t}
        BY <1>1, <3>2
      <4>2. handlers[u] \in Handles(mpq) /\ Candidate(handlers[u]).id = u
        BY <2>1, <4>1 DEF Placed
      <4>3. handlers[u] # h
        BY <1>1, <3>2, <4>2
      <4>4. handlers'[u] = handlers[u]
        BY <1>1, <4>1
      <4> QED
        BY <1>1, <4>2, <4>3, <4>4 DEF Candidate
    <3> QED
      BY <3>1, <3>2
  <2> QED
    BY <1>2, <2>1 DEF Placed, Candidate
<1> QED
  BY <1>1, <1>4, <1>5, <1>6

-----------------------------------------------------------------------------
(* What the other queue leaves as it is. *)
LEMMA NodesStay ==
  ASSUME UNCHANGED <<world, query, nodespq, children, lastNodeDist>>
  PROVE  /\ Waits => Waits'
         /\ OneWay => OneWay'
         /\ parts' = parts /\ Led => Led'
<1>1. Handles(nodespq)' = Handles(nodespq) /\ \A h : Node(h)' = Node(h)
  BY DEF Handles, ToSet, Node
<1>2. Waits => Waits'
  BY <1>1, WaitFitsStays DEF Waits
<1>3. \A e : Leads(e)' = Leads(e)
  BY WorldStays
<1>4. OneWay => OneWay'
  BY <1>1, <1>3 DEF OneWay
<1>5. parts' = parts /\ Led => Led'
  <2> SUFFICES ASSUME parts' = parts, Led
               PROVE  Led'
    OBVIOUS
  <2>1. Unread' = Unread
    BY WorldStays DEF Unread
  <2> QED
    BY <1>1, <1>3, <2>1 DEF Led
<1> QED
  BY <1>2, <1>4, <1>5

LEMMA CandidatesStay ==
  ASSUME UNCHANGED <<world, query, mpq, handlers, parts, lastNodeDist, reported>>
  PROVE  (Candidates => Candidates') /\ (Placed => Placed')
<1>1. /\ Handles(mpq)' = Handles(mpq) /\ \A h : Candidate(h)' = Candidate(h)
      /\ Answered' = Answered
  BY DEF Handles, ToSet, Candidate, Answered
<1>2. \A e : (Exact(e)' <=> Exact(e)) /\ (Partial(e)' <=> Partial(e))
  BY WorldStays DEF Exact, Partial
<1>3. Candidates => Candidates'
  BY <1>1, <1>2 DEF Candidates
<1>4. Placed => Placed'
  BY <1>1 DEF Placed
<1> QED
  BY <1>3, <1>4

LEMMA RankedStays ==
  ASSUME Ranked, UNCHANGED <<world, query, knearest, reported>>,
         \A t \in Answered : parts'[t] = parts[t]
  PROVE  Ranked'
<1>1. Answered' = Answered /\ Distinct(reported)'
  BY DEF Answered, ToSet, Ranked, Distinct
<1>2. \A t : NN!TrueDistance(t)' = NN!TrueDistance(t)
  BY WorldStays
<1> QED
  BY <1>1, <1>2 DEF Ranked

-----------------------------------------------------------------------------
(* A candidate brought up to date. *)
LEMMA TopUpdatesKeeps ==
  ASSUME SearchInv, NN!TopUpdates
  PROVE  SearchInv'
<1>0. SearchKinds /\ SearchPhases /\ Waits /\ Led /\ OneWay /\ Candidates /\ Placed /\ Ranked
  BY DEF SearchInv
<1>1. /\ pc = "top" /\ pc' = "top" /\ prevtop' = NN!Q!Top(mpq).id
      /\ UNCHANGED <<world, query, first, nodespq, children, parts, lastNodeDist, knearest, reported>>
  BY DEF NN!TopUpdates, NN!rigid, NN!found
<1>2. PICK e : e = NN!Estimate(prevtop', parts[prevtop'], nodespq, lastNodeDist) /\ NN!Enqueue(mpq, e)
  BY DEF NN!TopUpdates
<1>3. ~NN!Q!IsEmpty(mpq)
  BY <1>0, <1>1 DEF SearchPhases
<1>4. PICK t \in Traj \ Answered : t = prevtop'
  BY <1>0, <1>1, <1>3, NextCandidate, CandidateIs DEF Candidates
<1>5. PICK h \in Handles(mpq) : Candidate(h).id = t
  BY <1>0, <1>1, <1>3, <1>4, NextCandidate
<1>6. parts[t] # {} /\ parts[t] \subseteq BoxesOf(world[t]) /\ world[t] \in Shapes /\ lastNodeDist \in Nat
  BY <1>0, <1>5 DEF Candidates, SearchKinds
<1>7. e = NN!Estimate(t, parts[t], nodespq, lastNodeDist)
  BY <1>2, <1>4
<1>8. /\ e \in Items /\ e.id = t
      /\ parts[t] = BoxesOf(world[t]) => e.type = 3 /\ e.opt = NN!TrueDistance(t)
      /\ parts[t] # BoxesOf(world[t]) =>
           e.type = 2 /\ e.opt <= BoundOf(world[t], query.measure, parts[t], lastNodeDist)
  <2>1. PICK read \in SUBSET BoxesOf(world[t]) : read = parts[t]
    BY <1>6
  <2>2. PICK last \in Nat : last = lastNodeDist
    BY <1>6
  <2>3. e = NN!Estimate(t, read, nodespq, last)
    BY <1>7, <2>1, <2>2
  <2> QED
    BY <1>6, <2>1, <2>2, <2>3, EstimateIs
<1>9. Exact(e) \/ Partial(e)
  BY <1>8 DEF Exact, Partial
<1>10. (Exact(e) \/ Partial(e))'
  BY <1>1, <1>9, WorldStays DEF Exact, Partial
<1>11. DOMAIN parts' = Traj
  BY <1>0, <1>1 DEF SearchKinds
<1>12. /\ Fine(mpq') /\ Handles(mpq') # {}
       /\ DOMAIN handlers' = {u \in Traj : parts'[u] # {}}
       /\ Candidates' /\ Placed'
  BY <1>0, <1>1, <1>2, <1>6, <1>8, <1>10, <1>11, EnqueueKeeps
<1>13. SearchKinds'
  BY <1>0, <1>1, <1>12 DEF SearchKinds
<1>14. SearchPhases'
  <2>1. ~NN!Q!IsEmpty(mpq')
    BY <1>12, FineQueue
  <2>2. children' = {}
    BY <1>0, <1>1 DEF SearchPhases
  <2> QED
    BY <1>1, <2>1, <2>2 DEF SearchPhases, NN!Empty, NN!Q!IsEmpty
<1>15. Waits' /\ Led' /\ OneWay'
  BY <1>0, <1>1, NodesStay
<1>16. Ranked'
  BY <1>0, <1>1, RankedStays
<1> QED
  BY <1>1, <1>12, <1>13, <1>14, <1>15, <1>16, GoesOn DEF SearchInv

-----------------------------------------------------------------------------
(* A node or a box taken from its queue. *)
LEMMA NodePopped ==
  ASSUME SearchKinds, Waits, ~NN!Q!IsEmpty(nodespq), nodespq' = NN!Q!Pop(nodespq)
  PROVE  \E h \in Handles(nodespq) :
           /\ Node(h) = NN!Q!Top(nodespq)
           /\ Fine(nodespq')
           /\ Handles(nodespq') = Handles(nodespq) \ {h}
           /\ \A g : Node(g)' = Node(g)
           /\ \A g \in Handles(nodespq) : Node(h).opt <= Node(g).opt
<1>1. PICK h : h = nodespq.heap[1]
  OBVIOUS
<1>2. /\ h \in Handles(nodespq) /\ Node(h) = NN!Q!Top(nodespq)
      /\ \A g \in Handles(nodespq) : Node(h).opt <= Node(g).opt
  BY <1>1, NextNode
<1>3. PICK r : r = nodespq'
  OBVIOUS
<1>4. Fine(r) /\ Handles(r) = Handles(nodespq) \ {h} /\ r.elements = nodespq.elements
  BY <1>1, <1>3, PoppedEntry DEF SearchKinds
<1>5. \A g : Node(g)' = Node(g)
  BY <1>3, <1>4 DEF Node
<1> QED
  BY <1>2, <1>3, <1>4, <1>5

LEMMA VisitBoxKeeps ==
  ASSUME SearchInv, NN!VisitBox
  PROVE  SearchInv'
<1>0. SearchKinds /\ SearchPhases /\ Waits /\ Led /\ OneWay /\ Candidates /\ Placed /\ Ranked
  BY DEF SearchInv
<1>1. /\ pc = "visit" /\ pc' = "loop" /\ first.type = 1 /\ first.box[2] # 0 /\ first' = NN!NoEntry
      /\ UNCHANGED <<world, query, children, knearest, reported>>
  BY DEF NN!VisitBox, NN!Visit, NN!Done, NN!rigid, NN!found
<1>2. /\ ~NN!Q!IsEmpty(nodespq) /\ first = NN!Q!Top(nodespq)
      /\ NN!Popped.nodes = NN!Q!Pop(nodespq)
      /\ NN!Popped.cands = mpq /\ NN!Popped.last = lastNodeDist
  BY <1>1, PoppedIs
<1>3. PICK t, i, e :
        /\ t = first.box[1] /\ i = first.box[2]
        /\ nodespq' = NN!Q!Pop(nodespq) /\ lastNodeDist' = lastNodeDist
        /\ parts' = [parts EXCEPT ![t] = @ \cup {i}]
        /\ e = NN!Estimate(t, parts'[t], NN!Q!Pop(nodespq), lastNodeDist)
        /\ NN!Enqueue(mpq, e)
  <2>1. PICK p : p = NN!Popped
    OBVIOUS
  <2>2. PICK t : t = first.box[1]
    OBVIOUS
  <2>3. PICK i : i = first.box[2]
    OBVIOUS
  <2>4. /\ NN!Take(p)
        /\ parts' = [parts EXCEPT ![t] = @ \cup {i}]
        /\ \E e \in {NN!Estimate(t, parts'[t], p.nodes, p.last)} : NN!Enqueue(p.cands, e)
    BY <2>1, <2>2, <2>3, Zenon DEF NN!VisitBox
  <2>5. PICK e : e = NN!Estimate(t, parts'[t], p.nodes, p.last) /\ NN!Enqueue(p.cands, e)
    BY <2>4
  <2>6. p.nodes = NN!Q!Pop(nodespq) /\ p.cands = mpq /\ p.last = lastNodeDist
    BY <1>2, <2>1
  <2>7. nodespq' = NN!Q!Pop(nodespq) /\ lastNodeDist' = lastNodeDist
    BY <2>4, <2>6 DEF NN!Take
  <2>8. e = NN!Estimate(t, parts'[t], NN!Q!Pop(nodespq), lastNodeDist) /\ NN!Enqueue(mpq, e)
    BY <2>5, <2>6
  <2> QED
    BY Zenon, <2>2, <2>3, <2>4, <2>7, <2>8
<1>4. PICK h \in Handles(nodespq) :
           /\ Node(h) = first
           /\ Fine(nodespq')
           /\ Handles(nodespq') = Handles(nodespq) \ {h}
           /\ \A g : Node(g)' = Node(g)
  BY <1>0, <1>2, <1>3, NodePopped
<1>5. first.box \in AllBoxes
  <2>1. WaitFits(first)
    BY <1>0, <1>4 DEF Waits
  <2> QED
    BY <1>1, <2>1 DEF WaitFits, NodeFits, BoxFits
<1>6. first.box = <<t, i>> /\ t \in Traj /\ i \in BoxesOf(world[t])
  BY <1>3, <1>5 DEF AllBoxes
<1>7. Leads(first) = {<<t, i>>}
  BY <1>1, <1>5, <1>6 DEF Leads
<1>8. i \notin parts[t]
  <2>1. <<t, i>> \in Unread
    BY <1>0, <1>4, <1>7 DEF Led
  <2> QED
    BY <2>1 DEF Unread
<1>9. t \notin Answered
  BY <1>0, <1>6, <1>8 DEF Ranked
<1>10. PICK s \in Shapes : s = world[t]
  BY <1>0, <1>6 DEF SearchKinds
<1>11. PICK read \in SUBSET BoxesOf(s) : read = parts[t] \cup {i}
  BY Zenon, <1>0, <1>6, <1>10 DEF SearchKinds
<1>12. DOMAIN parts' = Traj /\ parts'[t] = read /\ \A u \in Traj \ {t} : parts'[u] = parts[u]
  BY <1>0, <1>3, <1>6, <1>11 DEF SearchKinds
<1>13. PICK last \in Nat : last = lastNodeDist
  BY <1>0 DEF SearchKinds
<1>14. e \in Items /\ e.id = t
       /\ (read = BoxesOf(s) => e.type = 3 /\ e.opt = NN!TrueDistance(t))
       /\ (read # BoxesOf(s) => e.type = 2 /\ e.opt <= BoundOf(s, query.measure, read, last))
  <2>1. PICK nodes : nodes = NN!Q!Pop(nodespq)
    OBVIOUS
  <2>2. e = NN!Estimate(t, read, nodes, last)
    BY <1>3, <1>12, <1>13, <2>1
  <2> QED
    BY <1>6, <1>10, <2>2, EstimateIs
<1>15. (Exact(e) \/ Partial(e))'
  <2>1. NN!TrueDistance(t)' = NN!TrueDistance(t)
    BY <1>1, WorldStays
  <2>2. world'[t] = s /\ query' = query /\ lastNodeDist' = last
    BY <1>1, <1>3, <1>10, <1>13
  <2> QED
    BY <1>12, <1>14, <2>1, <2>2 DEF Exact, Partial
<1>16. /\ Fine(mpq') /\ Handles(mpq') # {}
       /\ DOMAIN handlers' = {u \in Traj : parts'[u] # {}}
       /\ Candidates' /\ Placed'
  <2>1. t \in Traj \ Answered /\ parts'[t] # {}
    BY <1>6, <1>9, <1>11, <1>12
  <2>2. UNCHANGED <<world, query, reported, lastNodeDist>>
    BY <1>1, <1>3
  <2> QED
    BY Zenon, <1>0, <1>3, <1>12, <1>14, <1>15, <2>1, <2>2, EnqueueKeeps
<1>17. SearchKinds'
  <2>1. first' \in Items
    BY <1>1 DEF NN!NoEntry, NN!NoBox, NN!NoId, Items
  <2>2. \A u \in Traj : parts'[u] \subseteq BoxesOf(world'[u])
    BY <1>0, <1>1, <1>10, <1>12 DEF SearchKinds
  <2>3. pc' \in {"choose", "loop", "top", "visit", "push"} \cup Ended
    BY <1>1
  <2> QED
    BY <1>0, <1>1, <1>3, <1>4, <1>12, <1>16, <2>1, <2>2, <2>3 DEF SearchKinds
<1>18. SearchPhases'
  BY <1>0, <1>1 DEF SearchPhases
<1>19. Handles(nodespq)' = Handles(nodespq) \ {h} /\ children = {} /\ children' = {}
  BY <1>0, <1>1, <1>4 DEF Handles, SearchPhases
<1>20. \A d : Leads(d)' = Leads(d)
  BY <1>1, WorldStays
<1>21. Waits'
  BY <1>0, <1>1, <1>3, <1>4, <1>19, WaitFitsStays DEF Waits
<1>22. Led'
  <2>1. Unread' = Unread \ {<<t, i>>}
    <3>1. AllBoxes' = AllBoxes
      BY <1>1, WorldStays
    <3>2. ASSUME NEW b \in AllBoxes
          PROVE  b[2] \notin parts'[b[1]] <=> b[2] \notin parts[b[1]] /\ b # <<t, i>>
      <4>1. b[1] \in Traj /\ b = <<b[1], b[2]>>
        BY DEF AllBoxes
      <4>2. CASE b[1] = t
        BY <1>11, <1>12, <4>1, <4>2
      <4>3. CASE b[1] # t
        BY <1>12, <4>1, <4>3
      <4> QED
        BY <4>2, <4>3
    <3> QED
      BY <3>1, <3>2 DEF Unread
  <2>2. ASSUME NEW g \in Handles(nodespq) \ {h}
        PROVE  Leads(Node(g)) \subseteq Unread \ {<<t, i>>}
    <3>1. Leads(Node(g)) \subseteq Unread /\ Leads(Node(g)) \cap Leads(Node(h)) = {}
      BY <1>0 DEF Led, OneWay
    <3> QED
      BY <1>4, <1>7, <3>1
  <2>3. ASSUME NEW b \in Unread \ {<<t, i>>}
        PROVE  \E g \in Handles(nodespq) \ {h} : b \in Leads(Node(g))
    <3>1. PICK g \in Handles(nodespq) : b \in Leads(Node(g))
      BY <1>0, <1>19 DEF Led
    <3>2. g # h
      BY <1>4, <1>7, <3>1
    <3> QED
      BY <3>1, <3>2
  <2> QED
    BY <1>4, <1>19, <1>20, <2>1, <2>2, <2>3 DEF Led
<1>23. OneWay'
  BY <1>0, <1>4, <1>19, <1>20 DEF OneWay
<1>24. Ranked'
  BY <1>0, <1>1, <1>9, <1>12, RankedStays DEF SearchKinds, Answered, ToSet
<1> QED
  BY <1>1, <1>16, <1>17, <1>18, <1>21, <1>22, <1>23, <1>24, GoesOn DEF SearchInv

-----------------------------------------------------------------------------
(* A trajectory reported. *)
LEMMA ReportedOnce ==
  ASSUME reported \in Seq(Traj), Distinct(reported), NEW t \in Traj \ Answered,
         reported' = Append(reported, t)
  PROVE  /\ reported' \in Seq(Traj) /\ Distinct(reported') /\ Answered' = Answered \cup {t}
         /\ reported' # <<>> /\ reported'[Len(reported')] = t
<1>1. reported' \in Seq(Traj) /\ ToSet(reported') = ToSet(reported) \cup {t}
  BY Appended
<1>2. Distinct(reported')
  <2>1. reported' = reported \o <<t>>
    BY AppendIsConcat
  <2>2. <<t>> \in Seq(Traj) /\ Distinct(<<t>>) /\ ToSet(<<t>>) = {t}
    BY OneAnswer
  <2>3. ToSet(reported) \cap ToSet(<<t>>) = {}
    BY <2>2 DEF Answered
  <2> QED
    BY Zenon, <2>1, <2>2, <2>3, Longer
<1>3. reported' # <<>> /\ reported'[Len(reported')] = t
  BY AppendProperties
<1> QED
  BY <1>1, <1>2, <1>3 DEF Answered, ToSet

LEMMA ReportKeeps ==
  ASSUME SearchInv, NN!Report
  PROVE  SearchInv'
<1>0. SearchKinds /\ SearchPhases /\ Waits /\ Led /\ OneWay /\ Candidates /\ Placed /\ Ranked
  BY DEF SearchInv
<1>1. /\ pc = "visit" /\ pc' = "loop" /\ first.type = 3 /\ first' = NN!NoEntry
      /\ reported' = Append(reported, first.id) /\ knearest' = first.opt
      /\ UNCHANGED <<world, query, handlers, children, parts>>
  BY DEF NN!Report, NN!Visit, NN!Done, NN!rigid
<1>2. /\ ~NN!Q!IsEmpty(mpq) /\ first = NN!Q!Top(mpq)
      /\ NN!Popped.nodes = nodespq
      /\ NN!Popped.cands = NN!Q!Pop(mpq) /\ NN!Popped.last = lastNodeDist
  BY <1>1, PoppedIs
<1>3. nodespq' = nodespq /\ lastNodeDist' = lastNodeDist /\ mpq' = NN!Q!Pop(mpq)
  <2>1. \E p \in {NN!Popped} : NN!Take(p) /\ mpq' = p.cands
    BY DEF NN!Report
  <2> QED
    BY <1>2, <2>1 DEF NN!Take
<1>4. PICK t \in Traj \ Answered : t = first.id
  BY <1>1, NoneNearer
<1>5. /\ parts[t] = BoxesOf(world[t]) /\ first.opt = NN!TrueDistance(t)
      /\ \A u \in Traj \ Answered : first.opt <= NN!TrueDistance(u)
  BY <1>1, <1>4, NoneNearer
<1>6. PICK h : h = mpq.heap[1]
  OBVIOUS
<1>7. h \in Handles(mpq) /\ Candidate(h) = first /\ handlers[t] = h
  BY <1>0, <1>2, <1>4, <1>6, NextCandidate DEF Candidates
<1>8. Fine(mpq') /\ Handles(mpq') = Handles(mpq) \ {h} /\ mpq'.elements = mpq.elements
  <2>1. PICK r : r = mpq'
    OBVIOUS
  <2>2. Fine(r) /\ Handles(r) = Handles(mpq) \ {h} /\ r.elements = mpq.elements
    BY <1>0, <1>2, <1>3, <1>6, <2>1, PoppedEntry DEF SearchKinds
  <2> QED
    BY <2>1, <2>2
<1>9. /\ reported' \in Seq(Traj) /\ Distinct(reported)' /\ Answered' = Answered \cup {t}
      /\ reported' # <<>> /\ reported'[Len(reported')] = t
  <2>1. reported \in Seq(Traj) /\ Distinct(reported) /\ reported' = Append(reported, t)
    BY <1>0, <1>1, <1>4 DEF SearchKinds, Ranked
  <2>2. /\ reported' \in Seq(Traj) /\ Distinct(reported') /\ Answered' = Answered \cup {t}
        /\ reported' # <<>> /\ reported'[Len(reported')] = t
    BY <2>1, ReportedOnce
  <2> QED
    BY <2>2 DEF Distinct
<1>10. Handles(mpq)' = Handles(mpq) \ {h} /\ \A g : Candidate(g)' = Candidate(g)
  BY <1>8 DEF Handles, Candidate
<1>11. Candidates'
  <2>1. \A e : (Exact(e)' <=> Exact(e)) /\ (Partial(e)' <=> Partial(e))
    BY <1>1, <1>3, WorldStays DEF Exact, Partial
  <2>2. ASSUME NEW g \in Handles(mpq) \ {h}
        PROVE  /\ Candidate(g).id \in DOMAIN handlers
               /\ handlers[Candidate(g).id] = g
               /\ Candidate(g).id \notin Answered \cup {t}
               /\ Exact(Candidate(g)) \/ Partial(Candidate(g))
    BY <1>0, <1>7 DEF Candidates
  <2> QED
    BY <1>1, <1>9, <1>10, <2>1, <2>2 DEF Candidates
<1>12. Placed'
  <2>1. ASSUME NEW u \in DOMAIN handlers, u \notin Answered \cup {t}
        PROVE  handlers[u] \in Handles(mpq) \ {h} /\ Candidate(handlers[u]).id = u
    <3>1. handlers[u] \in Handles(mpq) /\ Candidate(handlers[u]).id = u
      BY <1>0, <2>1 DEF Placed
    <3>2. handlers[u] # h
      BY <1>4, <1>7, <2>1, <3>1
    <3> QED
      BY <3>1, <3>2
  <2> QED
    BY <1>1, <1>9, <1>10, <2>1 DEF Placed
<1>13. Ranked'
  <2>1. \A u : NN!TrueDistance(u)' = NN!TrueDistance(u)
    BY <1>1, WorldStays
  <2>2. \A u \in Answered' : parts'[u] = BoxesOf(world'[u])
    BY <1>0, <1>1, <1>5, <1>9 DEF Ranked
  <2>3. knearest' = NN!TrueDistance(reported'[Len(reported')])
    BY <1>1, <1>5, <1>9
  <2>4. \A u \in Traj \ Answered' : knearest' <= NN!TrueDistance(u)
    BY <1>1, <1>5, <1>9
  <2>5. NN!TrueDistance(reported[Len(reported)])' = NN!TrueDistance(reported'[Len(reported')])
    BY <1>1 DEF NN!TrueDistance, NN!SumParts, NN!Boxes
  <2> QED
    BY <1>9, <2>1, <2>2, <2>3, <2>4, <2>5 DEF Ranked
<1>14. SearchKinds'
  <2>1. first' \in Items
    BY <1>1 DEF NN!NoEntry, NN!NoBox, NN!NoId, Items
  <2>2. pc' \in {"choose", "loop", "top", "visit", "push"} \cup Ended
    BY <1>1
  <2> QED
    BY <1>0, <1>1, <1>3, <1>8, <1>9, <2>1, <2>2 DEF SearchKinds
<1>15. SearchPhases'
  BY <1>0, <1>1 DEF SearchPhases
<1>16. Waits' /\ Led' /\ OneWay'
  BY <1>0, <1>1, <1>3, NodesStay
<1> QED
  BY <1>1, <1>11, <1>12, <1>13, <1>14, <1>15, <1>16, GoesOn DEF SearchInv

-----------------------------------------------------------------------------
(* The children of a node. *)
LEMMA PushChildKeeps ==
  ASSUME SearchInv, NN!PushChild
  PROVE  SearchInv'
<1>0. SearchKinds /\ SearchPhases /\ Waits /\ Led /\ OneWay /\ Candidates /\ Placed /\ Ranked
  BY DEF SearchInv
<1>1. /\ pc = "push" /\ pc' = "push"
      /\ UNCHANGED <<world, query, first, mpq, handlers, parts, lastNodeDist, knearest, reported>>
  BY DEF NN!PushChild, NN!rigid, NN!found
<1>2. PICK e \in children : nodespq' = NN!Q!Push(nodespq, e) /\ children' = children \ {e}
  BY DEF NN!PushChild
<1>3. PICK h : h = NN!Q!FreeHandle(nodespq)
  OBVIOUS
<1>4. /\ Fine(nodespq') /\ h \notin Handles(nodespq) /\ Handles(nodespq') = Handles(nodespq) \cup {h}
      /\ nodespq'.elements[h] = e
      /\ \A g \in Handles(nodespq) : nodespq'.elements[g] = nodespq.elements[g]
  <2>1. PICK r : r = nodespq'
    OBVIOUS
  <2>2. e \in Items
    BY <1>0 DEF SearchKinds
  <2>3. /\ Fine(r) /\ h \notin Handles(nodespq) /\ Handles(r) = Handles(nodespq) \cup {h}
        /\ r.elements[h] = e
        /\ \A g \in Handles(nodespq) : r.elements[g] = nodespq.elements[g]
    BY <1>0, <1>2, <1>3, <2>1, <2>2, PushedEntry DEF SearchKinds
  <2> QED
    BY <2>1, <2>3
<1>5. /\ Handles(nodespq)' = Handles(nodespq) \cup {h} /\ Node(h)' = e
      /\ \A g \in Handles(nodespq) : Node(g)' = Node(g)
  BY <1>4 DEF Handles, Node
<1>6. \A d : Leads(d)' = Leads(d)
  BY <1>1, WorldStays
<1>7. Unread' = Unread
  BY <1>1, WorldStays DEF Unread
<1>8. Waits'
  <2>1. \A d : WaitFits(d)' <=> WaitFits(d)
    BY <1>1, WaitFitsStays
  <2> QED
    BY <1>0, <1>2, <1>5, <2>1 DEF Waits
<1>9. Led'
  <2>1. ASSUME NEW b \in Unread
        PROVE  \/ \E g \in Handles(nodespq) \cup {h} : b \in Leads(Node(g)')
               \/ \E d \in children' : b \in Leads(d)
    <3>1. CASE \E g \in Handles(nodespq) : b \in Leads(Node(g))
      BY <1>5, <3>1
    <3>2. CASE \E d \in children : b \in Leads(d)
      BY <1>2, <1>5, <3>2
    <3> QED
      BY <1>0, <3>1, <3>2 DEF Led
  <2>2. \A g \in Handles(nodespq) \cup {h} : Leads(Node(g)') \subseteq Unread
    BY <1>0, <1>5 DEF Led
  <2>3. \A d \in children' : Leads(d) \subseteq Unread
    BY <1>0, <1>2 DEF Led
  <2>4. \A g : Leads(Node(g))' = Leads(Node(g)')
    BY <1>1 DEF Leads, AllBoxes
  <2> QED
    BY <1>5, <1>6, <1>7, <2>1, <2>2, <2>3, <2>4 DEF Led
<1>10. OneWay'
  <2>1. \A g, k \in Handles(nodespq) \cup {h} : g # k => Leads(Node(g)') \cap Leads(Node(k)') = {}
    BY <1>0, <1>5 DEF OneWay
  <2>2. \A g \in Handles(nodespq) \cup {h}, d \in children' : Leads(Node(g)') \cap Leads(d) = {}
    BY <1>0, <1>2, <1>5 DEF OneWay
  <2>3. \A c, d \in children' : c # d => Leads(c) \cap Leads(d) = {}
    BY <1>0, <1>2 DEF OneWay
  <2>4. \A g : Leads(Node(g))' = Leads(Node(g)')
    BY <1>1 DEF Leads, AllBoxes
  <2> QED
    BY <1>5, <1>6, <2>1, <2>2, <2>3, <2>4 DEF OneWay
<1>11. SearchKinds'
  BY <1>0, <1>1, <1>2, <1>4 DEF SearchKinds
<1>12. SearchPhases'
  BY <1>1 DEF SearchPhases
<1>13. Candidates' /\ Placed'
  BY <1>0, <1>1, CandidatesStay
<1>14. Ranked'
  BY <1>0, <1>1, RankedStays
<1> QED
  BY <1>1, <1>8, <1>9, <1>10, <1>11, <1>12, <1>13, <1>14, GoesOn DEF SearchInv

(* What is under a node is under one of its children; the boxes of a leaf  *)
(* stand for themselves.                                                   *)
LEMMA NodeLeads ==
  ASSUME NEW n
  PROVE  Leads(NN!NodeEntry(n)) = {b \in AllBoxes : world[b[1]].box[b[2]].leaf \in Under[n]}
BY DEF Leads, NN!NodeEntry

LEMMA BoxLeads ==
  ASSUME world \in [Traj -> Shapes], NEW t \in Traj, NEW i \in Nat, NEW opt
  PROVE  /\ i \in BoxesOf(world[t]) => Leads(NN!BoxEntry(t, i, opt)) = {<<t, i>>}
         /\ i = 0 => Leads(NN!BoxEntry(t, i, opt)) = {}
<1>1. \A b \in AllBoxes : b[2] # 0
  <2> SUFFICES ASSUME NEW u \in Traj, NEW j \in BoxesOf(world[u])
               PROVE  j # 0
    BY DEF AllBoxes
  <2>1. PICK s \in Shapes : s = world[u]
    OBVIOUS
  <2>2. j \in 1 .. Len(s.box)
    BY <2>1, ShapeFacts
  <2> QED
    BY <2>2
<1>2. PICK e : e = NN!BoxEntry(t, i, opt)
  OBVIOUS
<1>3. e.type = 1 /\ e.box = <<t, i>>
  BY <1>2 DEF NN!BoxEntry
<1>4. Leads(e) = {b \in AllBoxes : b = <<t, i>>}
  BY <1>3 DEF Leads
<1>5. i \in BoxesOf(world[t]) => <<t, i>> \in AllBoxes
  BY DEF AllBoxes
<1> QED
  BY <1>1, <1>2, <1>4, <1>5

ChildEntries(n) == {NN!NodeEntry(c) : c \in Children[n]}

LEMMA InnerOpened ==
  ASSUME world \in [Traj -> Shapes], NEW n \in Inner, NEW last \in Nat, last <= NN!NodeDist(n),
         NEW C, C = ChildEntries(n)
  PROVE  /\ C \subseteq Items
         /\ \A e \in C : e.type = 0 /\ e.id \in Inner \cup Leaf /\ last <= e.opt /\ e.opt <= NN!NodeDist(e.id)
         /\ UNION {Leads(e) : e \in C} = Leads(NN!NodeEntry(n))
         /\ \A d, e \in C : d # e => Leads(d) \cap Leads(e) = {}
<1>0. C = {NN!NodeEntry(c) : c \in Children[n]}
  BY DEF ChildEntries
<1>1. /\ Children[n] \subseteq Inner \cup Leaf /\ Children[n] \subseteq Int
      /\ Under[n] = UNION {Under[c] : c \in Children[n]}
      /\ \A c, d \in Children[n] : c # d => Under[c] \cap Under[d] = {}
  BY NodeAssumption
<1>2. ASSUME NEW e \in C
      PROVE  /\ e \in Items
             /\ e.type = 0 /\ e.id \in Inner \cup Leaf /\ last <= e.opt /\ e.opt <= NN!NodeDist(e.id)
  <2>1. PICK c \in Children[n] : e = NN!NodeEntry(c)
    BY <1>0
  <2>2. NN!NodeDist(c) \in Nat /\ NN!NodeDist(n) \in Nat
    BY NodeDistIs
  <2>3. Under[c] \subseteq Under[n]
    BY <1>1
  <2>4. NN!NodeDist(n) <= NN!NodeDist(c)
    BY <2>3, NodeDistIs
  <2>5. e = [type |-> 0, id |-> c, opt |-> NN!NodeDist(c), box |-> NN!NoBox]
    BY <2>1 DEF NN!NodeEntry
  <2>6. e \in Items
    BY <1>1, <2>2, <2>5 DEF Items, NN!NoBox, NN!NoId
  <2>7. e.type = 0 /\ e.id = c /\ e.opt = NN!NodeDist(c)
    BY <2>5
  <2> QED
    BY <1>1, <2>2, <2>4, <2>6, <2>7
<1>3. \A c \in Children[n] : \A b : b \in Leads(NN!NodeEntry(c)) <=>
        b \in AllBoxes /\ world[b[1]].box[b[2]].leaf \in Under[c]
  BY NodeLeads
<1>4. UNION {Leads(e) : e \in C} = Leads(NN!NodeEntry(n))
  <2>1. \A b : b \in Leads(NN!NodeEntry(n)) <=>
          b \in AllBoxes /\ \E c \in Children[n] : world[b[1]].box[b[2]].leaf \in Under[c]
    BY <1>1, NodeLeads
  <2>2. \A b : b \in UNION {Leads(e) : e \in C} <=> \E c \in Children[n] : b \in Leads(NN!NodeEntry(c))
    BY <1>0
  <2>3. \A b : b \in UNION {Leads(e) : e \in C} <=> b \in Leads(NN!NodeEntry(n))
    BY <1>3, <2>1, <2>2
  <2> QED
    BY <2>3
<1>5. ASSUME NEW d \in C, NEW e \in C, d # e
      PROVE  Leads(d) \cap Leads(e) = {}
  <2>1. PICK a \in Children[n] : d = NN!NodeEntry(a)
    BY <1>0
  <2>2. PICK c \in Children[n] : e = NN!NodeEntry(c)
    BY <1>0
  <2>3. Under[a] \cap Under[c] = {}
    BY <1>1, <1>5, <2>1, <2>2
  <2> QED
    BY <1>3, <2>1, <2>2, <2>3
<1> QED
  BY <1>2, <1>4, <1>5

LEMMA LeafOpened ==
  ASSUME world \in [Traj -> Shapes], NEW l \in Leaf, NEW C, C = NN!BoxEntries(l)
  PROVE  /\ C \subseteq Items
         /\ \A e \in C : BoxFits(e)
         /\ UNION {Leads(e) : e \in C} = Leads(NN!NodeEntry(l))
         /\ \A d, e \in C : d # e => Leads(d) \cap Leads(e) = {}
<1>0. MaxBoxes \in Nat /\ Huge \in Nat /\ Traj \subseteq Int /\ Under[l] = {l}
  BY NumberAssumption, NodeAssumption
<1>1. ASSUME NEW e \in C
      PROVE  \/ \E t \in Traj : \E i \in BoxesOf(world[t]) :
                  world[t].box[i].leaf = l /\ e = NN!BoxEntry(t, i, NN!Lo(t, i))
             \/ \E t \in Traj : e = NN!BoxEntry(t, 0, Huge)
  <2>0. PICK A : A = {{NN!BoxEntry(t, i, NN!Lo(t, i)) : i \in {j \in NN!Boxes(t) : world[t].box[j].leaf = l}}
                      : t \in Traj}
    BY Zenon
  <2>a. PICK B : B = {NN!BoxEntry(t, 0, Huge) : t \in {u \in Traj : l \in world[u].outside}}
    BY Zenon
  <2>b. e \in UNION A \/ e \in B
    BY <2>0, <2>a DEF NN!BoxEntries
  <2>c. e \in UNION A => \E t \in Traj : e \in {NN!BoxEntry(t, i, NN!Lo(t, i)) :
                                      i \in {j \in NN!Boxes(t) : world[t].box[j].leaf = l}}
    BY <2>0
  <2>d. e \in B => \E t \in Traj : e = NN!BoxEntry(t, 0, Huge)
    BY <2>a
  <2>1. CASE \E t \in Traj : e \in {NN!BoxEntry(t, i, NN!Lo(t, i)) :
                                      i \in {j \in NN!Boxes(t) : world[t].box[j].leaf = l}}
    <3>1. PICK t \in Traj : e \in {NN!BoxEntry(t, i, NN!Lo(t, i)) :
                                      i \in {j \in NN!Boxes(t) : world[t].box[j].leaf = l}}
      BY <2>1
    <3>2. PICK i \in NN!Boxes(t) : world[t].box[i].leaf = l /\ e = NN!BoxEntry(t, i, NN!Lo(t, i))
      BY <3>1
    <3>3. i \in BoxesOf(world[t])
      BY <3>2, WorldIs
    <3> QED
      BY <3>2, <3>3
  <2>2. CASE \E t \in Traj : e = NN!BoxEntry(t, 0, Huge)
    BY <2>2
  <2> QED
    BY <2>1, <2>2, <2>b, <2>c, <2>d
<1>2. ASSUME NEW t \in Traj, NEW i \in BoxesOf(world[t]), world[t].box[i].leaf = l
      PROVE  NN!BoxEntry(t, i, NN!Lo(t, i)) \in C
  <2>1. i \in NN!Boxes(t)
    BY WorldIs
  <2>2. NN!BoxEntry(t, i, NN!Lo(t, i)) \in
          {NN!BoxEntry(t, j, NN!Lo(t, j)) : j \in {k \in NN!Boxes(t) : world[t].box[k].leaf = l}}
    BY <1>2, <2>1
  <2> QED
    BY <2>2 DEF NN!BoxEntries
<1>3. ASSUME NEW t \in Traj, NEW i \in BoxesOf(world[t])
      PROVE  i \in Nat /\ NN!Lo(t, i) \in Nat /\ <<t, i>> \in AllBoxes
  <2>1. PICK s \in Shapes : s = world[t]
    OBVIOUS
  <2>2. i \in 1 .. Len(s.box)
    BY <2>1, ShapeFacts
  <2>3. NN!Lo(t, i) \in Nat
    BY <2>1, LoIs
  <2> QED
    BY <2>2, <2>3 DEF AllBoxes
<1>4. ASSUME NEW t \in Traj, NEW i \in Nat, NEW opt \in Nat
      PROVE  /\ NN!BoxEntry(t, i, opt) \in Items
             /\ NN!BoxEntry(t, i, opt).type = 1
             /\ NN!BoxEntry(t, i, opt).opt = opt
             /\ NN!BoxEntry(t, i, opt).box = <<t, i>>
  <2>1. PICK k \in Int : k = MaxBoxes * t + i
    BY <1>0
  <2>2. NN!BoxEntry(t, i, opt) = [type |-> 1, id |-> k, opt |-> opt, box |-> <<t, i>>]
    BY <2>1 DEF NN!BoxEntry
  <2>3. PICK b \in Int \X Nat : b = <<t, i>>
    BY Zenon, <1>0
  <2>4. NN!BoxEntry(t, i, opt) = [type |-> 1, id |-> k, opt |-> opt, box |-> b]
    BY <2>2, <2>3
  <2>5. [type |-> 1, id |-> k, opt |-> opt, box |-> b] \in Items
    BY DEF Items
  <2> QED
    BY <2>3, <2>4, <2>5
<1>5. ASSUME NEW e \in C
      PROVE  e \in Items /\ BoxFits(e)
  <2>1. CASE \E t \in Traj : \E i \in BoxesOf(world[t]) : e = NN!BoxEntry(t, i, NN!Lo(t, i))
    <3>1a. PICK t \in Traj : \E i \in BoxesOf(world[t]) : e = NN!BoxEntry(t, i, NN!Lo(t, i))
      BY <2>1
    <3>1. PICK i \in BoxesOf(world[t]) : e = NN!BoxEntry(t, i, NN!Lo(t, i))
      BY <3>1a
    <3>2. i \in Nat /\ NN!Lo(t, i) \in Nat /\ <<t, i>> \in AllBoxes
      BY <1>3
    <3>3. e \in Items /\ e.type = 1 /\ e.opt = NN!Lo(t, i) /\ e.box = <<t, i>>
      BY <1>4, <3>1, <3>2
    <3> QED
      BY <3>2, <3>3 DEF BoxFits
  <2>2. CASE \E t \in Traj : e = NN!BoxEntry(t, 0, Huge)
    <3>1. PICK t \in Traj : e = NN!BoxEntry(t, 0, Huge)
      BY <2>2
    <3>2. e \in Items /\ e.type = 1 /\ e.opt = Huge /\ e.box = <<t, 0>>
      BY <1>0, <1>4, <3>1
    <3> QED
      BY <3>2 DEF BoxFits
  <2> QED
    BY <1>1, <2>1, <2>2
<1>6. ASSUME NEW e \in C, NEW b \in Leads(e)
      PROVE  \E t \in Traj : \E i \in BoxesOf(world[t]) :
               b = <<t, i>> /\ world[t].box[i].leaf = l /\ e = NN!BoxEntry(t, i, NN!Lo(t, i))
  <2>1. ~ \E t \in Traj : e = NN!BoxEntry(t, 0, Huge)
    BY <1>6, BoxLeads
  <2>2a. PICK t \in Traj : \E i \in BoxesOf(world[t]) : world[t].box[i].leaf = l /\ e = NN!BoxEntry(t, i, NN!Lo(t, i))
    BY <1>1, <2>1
  <2>2. PICK i \in BoxesOf(world[t]) : world[t].box[i].leaf = l /\ e = NN!BoxEntry(t, i, NN!Lo(t, i))
    BY <2>2a
  <2>3. i \in Nat
    BY Zenon, <1>3
  <2>4. Leads(e) = {<<t, i>>}
    BY <2>2, <2>3, BoxLeads
  <2> QED
    BY <1>6, <2>2, <2>4
<1>7. UNION {Leads(e) : e \in C} = Leads(NN!NodeEntry(l))
  <2>1. ASSUME NEW e \in C, NEW b \in Leads(e)
        PROVE  b \in Leads(NN!NodeEntry(l))
    <3>1a. PICK t \in Traj : \E i \in BoxesOf(world[t]) : b = <<t, i>> /\ world[t].box[i].leaf = l
      BY <1>6
    <3>1. PICK i \in BoxesOf(world[t]) : b = <<t, i>> /\ world[t].box[i].leaf = l
      BY <3>1a
    <3>2. b \in AllBoxes /\ b[1] = t /\ b[2] = i
      BY <1>3, <3>1
    <3> QED
      BY <1>0, <3>1, <3>2, NodeLeads
  <2>2. ASSUME NEW b \in Leads(NN!NodeEntry(l))
        PROVE  \E e \in C : b \in Leads(e)
    <3>1. b \in AllBoxes /\ world[b[1]].box[b[2]].leaf = l
      BY <1>0, NodeLeads
    <3>2a. PICK t \in Traj : \E i \in BoxesOf(world[t]) : b = <<t, i>>
      BY <3>1 DEF AllBoxes
    <3>2. PICK i \in BoxesOf(world[t]) : b = <<t, i>>
      BY <3>2a
    <3>3. NN!BoxEntry(t, i, NN!Lo(t, i)) \in C
      BY <1>2, <3>1, <3>2
    <3>4. Leads(NN!BoxEntry(t, i, NN!Lo(t, i))) = {<<t, i>>}
      BY Zenon, <1>3, BoxLeads
    <3> QED
      BY <3>2, <3>3, <3>4
  <2> QED
    BY <2>1, <2>2
<1>8. ASSUME NEW d \in C, NEW e \in C, d # e
      PROVE  Leads(d) \cap Leads(e) = {}
  <2> SUFFICES ASSUME NEW b, b \in Leads(d), b \in Leads(e)
               PROVE  FALSE
    OBVIOUS
  <2>1a. PICK t \in Traj : \E i \in BoxesOf(world[t]) : b = <<t, i>> /\ d = NN!BoxEntry(t, i, NN!Lo(t, i))
    BY <1>6
  <2>1. PICK i \in BoxesOf(world[t]) : b = <<t, i>> /\ d = NN!BoxEntry(t, i, NN!Lo(t, i))
    BY <2>1a
  <2>2a. PICK u \in Traj : \E j \in BoxesOf(world[u]) : b = <<u, j>> /\ e = NN!BoxEntry(u, j, NN!Lo(u, j))
    BY <1>6
  <2>2. PICK j \in BoxesOf(world[u]) : b = <<u, j>> /\ e = NN!BoxEntry(u, j, NN!Lo(u, j))
    BY <2>2a
  <2>3. t = u /\ i = j
    BY <2>1, <2>2
  <2> QED
    BY <1>8, <2>1, <2>2, <2>3
<1> QED
  BY <1>5, <1>7, <1>8

LEMMA VisitNodeKeeps ==
  ASSUME SearchInv, NN!VisitNode
  PROVE  SearchInv'
<1>0. SearchKinds /\ SearchPhases /\ Waits /\ Led /\ OneWay /\ Candidates /\ Placed /\ Ranked
  BY DEF SearchInv
<1>1. /\ pc = "visit" /\ pc' = "push" /\ first.type = 0 /\ first' = NN!NoEntry
      /\ children' = IF first.id \in Leaf THEN NN!BoxEntries(first.id)
                     ELSE {NN!NodeEntry(n) : n \in Children[first.id]}
      /\ UNCHANGED <<world, query, handlers, parts, knearest, reported>>
  BY DEF NN!VisitNode, NN!Visit, NN!rigid, NN!found
<1>2. /\ ~NN!Q!IsEmpty(nodespq) /\ first = NN!Q!Top(nodespq)
      /\ NN!Popped.nodes = NN!Q!Pop(nodespq)
      /\ NN!Popped.cands = mpq /\ NN!Popped.last = first.opt
  BY <1>1, PoppedIs
<1>3. nodespq' = NN!Q!Pop(nodespq) /\ lastNodeDist' = first.opt /\ mpq' = mpq
  <2>1. \E p \in {NN!Popped} : NN!Take(p) /\ mpq' = p.cands
    BY DEF NN!VisitNode
  <2> QED
    BY <1>2, <2>1 DEF NN!Take
<1>4. PICK h \in Handles(nodespq) :
           /\ Node(h) = first
           /\ Fine(nodespq')
           /\ Handles(nodespq') = Handles(nodespq) \ {h}
           /\ \A g : Node(g)' = Node(g)
           /\ \A g \in Handles(nodespq) : Node(h).opt <= Node(g).opt
  BY <1>0, <1>2, <1>3, NodePopped
<1>5. PICK n \in Inner \cup Leaf : n = first.id
  <2>1. NodeFits(first)
    BY <1>0, <1>1, <1>4 DEF Waits, WaitFits, BoxFits
  <2> QED
    BY <2>1 DEF NodeFits
<1>6. PICK last \in Nat : last = first.opt
  BY <1>0, <1>4, NodeIs
<1>7. lastNodeDist \in Nat /\ lastNodeDist <= last /\ last <= NN!NodeDist(n) /\ lastNodeDist' = last
  <2>1. NodeFits(first)
    BY <1>0, <1>1, <1>4 DEF Waits, WaitFits, BoxFits
  <2> QED
    BY <1>0, <1>3, <1>5, <1>6, <2>1 DEF NodeFits, SearchKinds
<1>8. world \in [Traj -> Shapes]
  BY <1>0 DEF SearchKinds
<1>9. Leads(first) = Leads(NN!NodeEntry(n))
  BY <1>1, <1>5, NodeLeads DEF Leads
<1>10. PICK C : C = children'
  OBVIOUS
<1>11. /\ C \subseteq Items
       /\ \A e \in C : WaitFits(e)'
       /\ UNION {Leads(e) : e \in C} = Leads(first)
       /\ \A d, e \in C : d # e => Leads(d) \cap Leads(e) = {}
  <2>1. CASE n \in Leaf
    <3>1. C = NN!BoxEntries(n)
      BY <1>1, <1>5, <1>10, <2>1
    <3>2. /\ C \subseteq Items
          /\ \A e \in C : BoxFits(e)
          /\ UNION {Leads(e) : e \in C} = Leads(NN!NodeEntry(n))
          /\ \A d, e \in C : d # e => Leads(d) \cap Leads(e) = {}
      BY <1>8, <2>1, <3>1, LeafOpened
    <3>3. \A e \in C : BoxFits(e)'
      BY <1>1, <3>2, WorldStays DEF BoxFits
    <3> QED
      BY <1>9, <3>2, <3>3 DEF WaitFits
  <2>2. CASE n \notin Leaf
    <3>1. C = ChildEntries(n) /\ n \in Inner
      BY <1>1, <1>5, <1>10, <2>2 DEF ChildEntries
    <3>2. /\ C \subseteq Items
          /\ \A e \in C : e.type = 0 /\ e.id \in Inner \cup Leaf /\ last <= e.opt /\ e.opt <= NN!NodeDist(e.id)
          /\ UNION {Leads(e) : e \in C} = Leads(NN!NodeEntry(n))
          /\ \A d, e \in C : d # e => Leads(d) \cap Leads(e) = {}
      BY <1>7, <1>8, <3>1, InnerOpened
    <3>3. \A k : NN!NodeDist(k)' = NN!NodeDist(k)
      BY <1>1, WorldStays
    <3>4. \A e \in C : NodeFits(e)'
      BY <1>7, <3>2, <3>3 DEF NodeFits
    <3> QED
      BY <1>9, <3>2, <3>4 DEF WaitFits
  <2> QED
    BY <2>1, <2>2
<1>12. Handles(nodespq)' = Handles(nodespq) \ {h} /\ children = {}
  BY <1>0, <1>1, <1>4 DEF Handles, SearchPhases
<1>13. \A d : Leads(d)' = Leads(d)
  BY <1>1, WorldStays
<1>14. Unread' = Unread
  BY <1>1, WorldStays DEF Unread
<1>15. \A g : Leads(Node(g))' = Leads(Node(g))
  BY <1>1, <1>4 DEF Leads, AllBoxes
<1>16. Waits'
  <2>1. ASSUME NEW g \in Handles(nodespq) \ {h}
        PROVE  WaitFits(Node(g))'
    <3>1. PICK e : e = Node(g)
      OBVIOUS
    <3>2. WaitFits(e) /\ e.opt \in Nat /\ last <= e.opt
      BY <1>0, <1>4, <1>6, <3>1, NodeIs
    <3>3. /\ \A k : NN!NodeDist(k)' = NN!NodeDist(k)
          /\ \A t, i : NN!Lo(t, i)' = NN!Lo(t, i)
          /\ AllBoxes' = AllBoxes
      BY <1>1, WorldStays
    <3>4. NodeFits(e) => NodeFits(e)'
      BY <1>7, <3>2, <3>3 DEF NodeFits
    <3>5. BoxFits(e) => BoxFits(e)'
      BY <3>3 DEF BoxFits
    <3>6. WaitFits(e)'
      BY <3>2, <3>4, <3>5 DEF WaitFits
    <3>7. Node(g)' = e
      BY <1>4, <3>1
    <3> QED
      BY <3>6, <3>7 DEF WaitFits, NodeFits, BoxFits, NN!NodeDist, NN!Lo
  <2> QED
    BY <1>10, <1>11, <1>12, <2>1 DEF Waits
<1>17. Led'
  <2>1. ASSUME NEW b \in Unread
        PROVE  \/ \E g \in Handles(nodespq) \ {h} : b \in Leads(Node(g))
               \/ \E e \in C : b \in Leads(e)
    <3>1. PICK g \in Handles(nodespq) : b \in Leads(Node(g))
      BY <1>0, <1>12 DEF Led
    <3>2. CASE g = h
      BY <1>4, <1>11, <3>1, <3>2
    <3> QED
      BY <3>1, <3>2
  <2>2. \A g \in Handles(nodespq) \ {h} : Leads(Node(g)) \subseteq Unread
    BY <1>0 DEF Led
  <2>3. \A e \in C : Leads(e) \subseteq Unread
    <3>1. Leads(first) \subseteq Unread
      BY <1>0, <1>4 DEF Led
    <3> QED
      BY <1>11, <3>1
  <2> QED
    BY <1>10, <1>12, <1>13, <1>14, <1>15, <2>1, <2>2, <2>3 DEF Led
<1>18. OneWay'
  <2>1. ASSUME NEW g \in Handles(nodespq) \ {h}, NEW e \in C
        PROVE  Leads(Node(g)) \cap Leads(e) = {}
    <3>1. Leads(Node(g)) \cap Leads(first) = {}
      BY <1>0, <1>4 DEF OneWay
    <3>2. Leads(e) \subseteq Leads(first)
      BY <1>11
    <3> QED
      BY <3>1, <3>2
  <2>2. \A g, k \in Handles(nodespq) \ {h} : g # k => Leads(Node(g)) \cap Leads(Node(k)) = {}
    BY <1>0 DEF OneWay
  <2> QED
    BY <1>10, <1>11, <1>12, <1>13, <1>15, <2>1, <2>2 DEF OneWay
<1>19. SearchKinds'
  <2>1. first' \in Items
    BY <1>1 DEF NN!NoEntry, NN!NoBox, NN!NoId, Items
  <2>2. pc' \in {"choose", "loop", "top", "visit", "push"} \cup Ended
    BY <1>1
  <2> QED
    BY <1>0, <1>1, <1>3, <1>4, <1>6, <1>10, <1>11, <2>1, <2>2 DEF SearchKinds
<1>20. SearchPhases'
  BY <1>1 DEF SearchPhases
<1>21. Candidates'
  <2>1. /\ Handles(mpq)' = Handles(mpq) /\ \A g : Candidate(g)' = Candidate(g)
        /\ Answered' = Answered /\ handlers' = handlers
    BY <1>1, <1>3 DEF Handles, ToSet, Candidate, Answered
  <2>2. ASSUME NEW g \in Handles(mpq)
        PROVE  (Exact(Candidate(g)) \/ Partial(Candidate(g)))'
    <3>1. PICK e : e = Candidate(g)
      OBVIOUS
    <3>2. e \in Items /\ e.id \in Traj /\ parts'[e.id] = parts[e.id]
      BY <1>0, <1>1, <3>1, CandidateIs
    <3>3. Exact(e) \/ Partial(e)
      BY <1>0, <3>1 DEF Candidates
    <3>4. /\ \A u \in Traj : world[u] \in Shapes /\ parts[u] \subseteq BoxesOf(world[u])
          /\ lastNodeDist' \in Nat /\ lastNodeDist <= lastNodeDist'
      BY <1>0, <1>6, <1>7 DEF SearchKinds
    <3>5. (Exact(e) \/ Partial(e))'
      BY <1>1, <1>7, <3>2, <3>3, <3>4, CandidateStays
    <3>6. Candidate(g)' = e
      BY <2>1, <3>1
    <3> QED
      BY <3>5, <3>6 DEF Exact, Partial
  <2> QED
    BY <1>0, <2>1, <2>2 DEF Candidates
<1>22. Placed'
  <2>1. /\ Handles(mpq)' = Handles(mpq) /\ \A g : Candidate(g)' = Candidate(g)
        /\ Answered' = Answered /\ handlers' = handlers
    BY <1>1, <1>3 DEF Handles, ToSet, Candidate, Answered
  <2> QED
    BY <1>0, <2>1 DEF Placed
<1>23. Ranked'
  BY <1>0, <1>1, RankedStays
<1> QED
  BY <1>1, <1>16, <1>17, <1>18, <1>19, <1>20, <1>21, <1>22, <1>23, GoesOn DEF SearchInv

(* The search begins with the root, which leads to every box.              *)
LEMMA InitSearch == Init => SInv
<1> SUFFICES ASSUME Init, query.kind = "knn"
             PROVE  SearchInv
  BY DEF SInv
<1>1. /\ query \in Queries /\ world \in [Traj -> Shapes] /\ pc = "choose" /\ NN!Idle
  BY DEF Init
<1>2. PICK root : root = [NN!NoEntry EXCEPT !.type = 0, !.id = Root]
  OBVIOUS
<1>3. /\ first = NN!NoEntry /\ nodespq = NN!Q!Push(NN!Q!EmptyQueue, root) /\ mpq = NN!Q!EmptyQueue
      /\ handlers = <<>> /\ children = {} /\ parts = [t \in Traj |-> {}] /\ lastNodeDist = 0
      /\ knearest = 0 /\ reported = <<>>
  BY <1>1, <1>2 DEF NN!Idle
<1>4. Root \in Inner \cup Leaf /\ Root \in Int /\ Under[Root] = Leaf
  BY NodeAssumption
<1>5. /\ root.type = 0 /\ root.id = Root /\ root.opt = 0 /\ root \in Items
  <2>1. root = [type |-> 0, id |-> Root, opt |-> 0, box |-> NN!NoBox]
    BY Zenon, <1>2 DEF NN!NoEntry
  <2>2. NN!NoBox \in Int \X Nat
    BY DEF NN!NoBox, NN!NoId
  <2> QED
    BY <1>4, <2>1, <2>2 DEF Items
<1>6. first \in Items
  BY <1>3 DEF NN!NoEntry, NN!NoBox, NN!NoId, Items
<1>7. PICK h : /\ Fine(nodespq) /\ Handles(nodespq) = {h} /\ Node(h) = root
  <2>1. PICK h : h = NN!Q!FreeHandle(NN!Q!EmptyQueue)
    OBVIOUS
  <2>2. /\ Fine(nodespq) /\ Handles(nodespq) = Handles(NN!Q!EmptyQueue) \cup {h}
        /\ nodespq.elements[h] = root
    BY <1>3, <1>5, <2>1, NoneIsFine, PushedEntry
  <2> QED
    BY <2>2, NoneIsFine DEF Node
<1>8. Fine(mpq) /\ Handles(mpq) = {}
  BY <1>3, NoneIsFine
<1>9. Answered = {}
  BY <1>3 DEF Answered, ToSet
<1>10. SearchKinds
  <2>1. DOMAIN handlers = {t \in Traj : parts[t] # {}}
    BY <1>3
  <2> QED
    BY <1>1, <1>3, <1>6, <1>7, <1>8, <2>1 DEF SearchKinds
<1>11. SearchPhases
  BY <1>1, <1>3 DEF SearchPhases
<1>12. Unread = AllBoxes
  <2>1. \A b \in AllBoxes : parts[b[1]] = {}
    BY <1>3 DEF AllBoxes
  <2> QED
    BY <2>1 DEF Unread
<1>13. Leads(root) = AllBoxes
  <2>1. ASSUME NEW b \in AllBoxes
        PROVE  world[b[1]].box[b[2]].leaf \in Leaf
    <3>1. PICK t \in Traj : \E i \in BoxesOf(world[t]) : b = <<t, i>>
      BY DEF AllBoxes
    <3>2. PICK i \in BoxesOf(world[t]) : b = <<t, i>>
      BY <3>1
    <3>3. world[t] \in Shapes
      BY <1>1
    <3>4. world[t].box[i].leaf \in Leaf
      BY <3>3, ShapeFacts
    <3> QED
      BY <3>2, <3>4
  <2> QED
    BY <1>4, <1>5, <2>1 DEF Leads
<1>14. Waits
  <2>1. NN!NodeDist(Root) \in Nat
    BY <1>1, NodeDistIs
  <2>2. NodeFits(root)
    BY <1>3, <1>4, <1>5, <2>1 DEF NodeFits
  <2> QED
    BY <1>3, <1>7, <2>2 DEF Waits, WaitFits
<1>15. Led /\ OneWay
  BY <1>3, <1>7, <1>12, <1>13 DEF Led, OneWay
<1>16. Candidates /\ Placed
  BY <1>3, <1>8 DEF Candidates, Placed
<1>17. Ranked
  BY <1>3, <1>9 DEF Ranked, Distinct
<1>18. OnlyKnownFailures
  BY <1>1 DEF OnlyKnownFailures
<1> QED
  BY <1>10, <1>11, <1>14, <1>15, <1>16, <1>17, <1>18 DEF SearchInv

LEMMA NextSearch == SInv /\ [Next]_vars => SInv'
<1> SUFFICES ASSUME SInv, [Next]_vars, query.kind = "knn"
             PROVE  SearchInv'
  BY QueryStays DEF SInv
<1>0. SearchInv
  BY DEF SInv
<1>1. CASE ChooseTree \/ NoTreeTakes
  BY <1>0, <1>1, ChosenKeeps
<1>2. CASE NearestNeighborQuery
  <2>1. CASE NN!Exhausted \/ NN!Stop \/ NN!ChildrenPushed
    BY <1>0, <2>1, EndKeeps
  <2>2. CASE NN!TopNode
    BY <1>0, <2>2, TopNodeKeeps
  <2>3. CASE NN!TopCandidate
    BY <1>0, <2>3, TopCandidateKeeps
  <2>4. CASE NN!TopUpdates
    BY <1>0, <2>4, TopUpdatesKeeps
  <2>5. CASE NN!TopReturns
    BY <1>0, <2>5, TopReturnsKeeps
  <2>6. CASE NN!VisitNode
    BY <1>0, <2>6, VisitNodeKeeps
  <2>7. CASE NN!PushChild
    BY <1>0, <2>7, PushChildKeeps
  <2>8. CASE NN!VisitBox
    BY <1>0, <2>8, VisitBoxKeeps
  <2>9. CASE NN!Report
    BY <1>0, <2>9, ReportKeeps
  <2>10. CASE NN!Fail
    BY <1>0, <2>10, FailKeeps
  <2> QED
    BY <1>2, <2>1, <2>2, <2>3, <2>4, <2>5, <2>6, <2>7, <2>8, <2>9, <2>10
       DEF NearestNeighborQuery, NN!Next
<1>3. ~IntersectsWithQuery
  BY DEF IntersectsWithQuery
<1>4. CASE UNCHANGED vars
  <2>1. /\ UNCHANGED <<world, query, queues, found>> /\ first' = first /\ pc' = pc /\ trees' = trees
    BY <1>4 DEF vars, knn, queues, found
  <2>2. SearchPhases'
    BY <1>0, <1>4 DEF SearchInv, SearchPhases, vars, knn, NN!Empty, NN!Popped, NN!Ready,
                      NN!Q!IsEmpty, NN!Q!Top, NN!Q!At, NN!Q!Pop
  <2>3. OnlyKnownFailures'
    BY <1>0, <2>1 DEF SearchInv, OnlyKnownFailures, ToSet, Takes, found
  <2>4. first' \in Items /\ pc' \in {"choose", "loop", "top", "visit", "push"} \cup Ended
    BY <1>0, <2>1 DEF SearchInv, SearchKinds
  <2> QED
    BY <1>0, <2>1, <2>2, <2>3, <2>4, QuietKeeps
<1> QED BY <1>1, <1>2, <1>3, <1>4 DEF Next

-----------------------------------------------------------------------------
(* What the kind of query asked does not use stays as it began.            *)
Resting ==
  /\ query.kind \in {"knn", "range"}
  /\ query.kind = "range" =>
       /\ handlers = <<>> /\ parts = [t \in Traj |-> {}] /\ mpq = NN!Q!EmptyQueue
       /\ nodespq = NN!Q!Push(NN!Q!EmptyQueue, [NN!NoEntry EXCEPT !.type = 0, !.id = Root])
       /\ pc = "crashed" => \A key \in DOMAIN trees : ~Takes(key)
  /\ query.kind = "knn" => stack = <<>> /\ pending = [t \in Traj |-> <<>>]

LEMMA InitResting == Init => Resting
<1> SUFFICES ASSUME Init PROVE Resting
  OBVIOUS
<1>1. query.kind \in {"knn", "range"}
  BY Zenon DEF Init, Queries
<1>2. NN!Idle /\ RQ!Idle /\ pc = "choose"
  BY DEF Init
<1> QED
  BY <1>1, <1>2 DEF NN!Idle, RQ!Idle, Resting

LEMMA NextResting == Resting /\ [Next]_vars => Resting'
<1> SUFFICES ASSUME Resting, [Next]_vars PROVE Resting'
  OBVIOUS
<1>1. query' = query
  BY QueryStays
<1>2. CASE ChooseTree
  <2>1. pc' \in {"root", "short", "partsstore", "loop"} /\ UNCHANGED <<knn, range>>
    BY <1>2 DEF ChooseTree
  <2> QED
    BY <1>1, <2>1 DEF Resting, knn, range
<1>3. CASE NoTreeTakes
  <2>1. trees' = trees /\ UNCHANGED <<knn, range>> /\ \A key \in DOMAIN trees : ~Takes(key)
    BY <1>3 DEF NoTreeTakes
  <2> QED
    BY <1>1, <2>1 DEF Resting, knn, range, Takes
<1>4. CASE NearestNeighborQuery
  BY <1>1, <1>4 DEF NearestNeighborQuery, Resting, range
<1>5. CASE IntersectsWithQuery
  <2>1. query.kind = "range" /\ UNCHANGED <<trees, knn>> /\ RQ!Next
    BY <1>5 DEF IntersectsWithQuery
  <2>2. pc' \in {pc, "descend", "leaf", "done", "pending"}
    BY <2>1 DEF RQ!Next, RQ!Begin, RQ!OpenInner, RQ!OpenLeaf, RQ!LeafDone, RQ!Descended,
                RQ!PendingDone, RQ!Skip, RQ!Contained, RQ!Postpone, RQ!TestPart, RQ!Touches, RQ!Look,
                RQ!MergePiece, RQ!TestLastPiece, RQ!TestMerged, RQ!Round
  <2> QED
    BY <1>1, <2>1, <2>2 DEF Resting, knn, Takes
<1>6. CASE UNCHANGED vars
  BY <1>1, <1>6 DEF Resting, vars, knn, range, Takes
<1> QED
  BY <1>2, <1>3, <1>4, <1>5, <1>6 DEF Next

LEMMA RestingQueues ==
  ASSUME Resting, query.kind = "range"
  PROVE  /\ Fine(nodespq) /\ Fine(mpq) /\ Handles(mpq) = {}
         /\ \A h \in Handles(nodespq) : Node(h).type = 0
<1>1. PICK root : root = [NN!NoEntry EXCEPT !.type = 0, !.id = Root]
  OBVIOUS
<1>2. root.type = 0 /\ root \in Items
  <2>1. root = [type |-> 0, id |-> Root, opt |-> 0, box |-> NN!NoBox]
    BY Zenon, <1>1 DEF NN!NoEntry
  <2>2. NN!NoBox \in Int \X Nat /\ Root \in Int
    BY NodeAssumption DEF NN!NoBox, NN!NoId
  <2> QED
    BY <2>1, <2>2 DEF Items
<1>3. PICK h : h = NN!Q!FreeHandle(NN!Q!EmptyQueue)
  OBVIOUS
<1>4. nodespq = NN!Q!Push(NN!Q!EmptyQueue, root) /\ mpq = NN!Q!EmptyQueue
  BY <1>1 DEF Resting
<1>5. /\ Fine(nodespq) /\ Handles(nodespq) = Handles(NN!Q!EmptyQueue) \cup {h}
      /\ nodespq.elements[h] = root
  BY <1>2, <1>3, <1>4, NoneIsFine, PushedEntry
<1> QED
  BY <1>2, <1>4, <1>5, NoneIsFine DEF Node

-----------------------------------------------------------------------------
(* The invariant of SBBForest. *)
ForestInv == IInv /\ SInv /\ Resting

LEMMA ForestTyped == ForestInv => TypeOK
<1>1. ASSUME SearchInv, Resting, query.kind = "knn"
      PROVE  TypeOK
  <2>1. SearchKinds /\ Waits /\ Candidates /\ stack = <<>> /\ pending = [t \in Traj |-> <<>>]
    BY <1>1 DEF SearchInv, Resting
  <2>2. pc \in {"choose", "loop", "top", "visit", "push", "root", "descend", "leaf", "pending"} \cup Ended
    BY <2>1 DEF SearchKinds
  <2>3. reported \in Seq(Traj) /\ DOMAIN handlers \subseteq Traj
    BY <2>1 DEF SearchKinds
  <2>4. \A t \in Traj : parts[t] \subseteq DOMAIN world[t].box
    BY <2>1 DEF SearchKinds, BoxesOf
  <2>5. \A e \in NN!Q!Entries(nodespq) : e.type \in 0 .. 1
    <3>1. NN!Q!Entries(nodespq) = {nodespq.elements[h] : h \in Handles(nodespq)}
      BY <2>1, FineQueue DEF SearchKinds
    <3>2. \A h \in Handles(nodespq) : nodespq.elements[h].type \in {0, 1}
      BY <2>1, NodeIs DEF Node
    <3> QED
      BY <3>1, <3>2
  <2>6. \A e \in NN!Q!Entries(mpq) : e.type \in 2 .. 3 /\ e.id \in Traj
    <3>1. NN!Q!Entries(mpq) = {mpq.elements[h] : h \in Handles(mpq)}
      BY <2>1, FineQueue DEF SearchKinds
    <3>2. \A h \in Handles(mpq) : mpq.elements[h].type \in {2, 3} /\ mpq.elements[h].id \in Traj
      BY <2>1, CandidateIs DEF Candidate
    <3> QED
      BY <3>1, <3>2
  <2>7. \A n \in ToSet(stack) : n \in Leaf \cup Inner
    BY <2>1 DEF ToSet
  <2>8. \A t \in Traj : \A i \in DOMAIN pending[t] : pending[t][i].id = t
    BY <2>1
  <2> QED
    BY <1>1, <2>2, <2>3, <2>4, <2>5, <2>6, <2>7, <2>8 DEF TypeOK
<1>2. ASSUME RangeInv, Resting, query.kind = "range"
      PROVE  TypeOK
  <2>1. RangeKinds /\ Once /\ handlers = <<>> /\ parts = [t \in Traj |-> {}]
    BY <1>2 DEF RangeInv, Resting
  <2>2. pc \in {"choose", "loop", "top", "visit", "push", "root", "descend", "leaf", "pending"} \cup Ended
    BY <2>1 DEF RangeKinds, Early, Ended
  <2>3. reported \in Seq(Traj) /\ DOMAIN handlers \subseteq Traj /\ results = ToSet(reported)
    BY <2>1 DEF RangeKinds, Once
  <2>4. \A t \in Traj : parts[t] \subseteq DOMAIN world[t].box
    BY <2>1
  <2>5. \A e \in NN!Q!Entries(nodespq) : e.type \in 0 .. 1
    <3>1. NN!Q!Entries(nodespq) = {nodespq.elements[h] : h \in Handles(nodespq)}
      BY <1>2, RestingQueues, FineQueue
    <3>2. \A h \in Handles(nodespq) : nodespq.elements[h].type = 0
      BY <1>2, RestingQueues DEF Node
    <3> QED
      BY <3>1, <3>2
  <2>6. NN!Q!Entries(mpq) = {}
    <3>1. Fine(mpq) /\ Handles(mpq) = {}
      BY <1>2, RestingQueues
    <3> QED
      BY <3>1, FineQueue
  <2>7. \A n \in ToSet(stack) : n \in Leaf \cup Inner
    BY <2>1 DEF RangeKinds, ToSet
  <2>8. \A t \in Traj : \A i \in DOMAIN pending[t] : pending[t][i].id = t
    BY <2>1 DEF RangeKinds, ToSet
  <2> QED
    BY <2>2, <2>3, <2>4, <2>5, <2>6, <2>7, <2>8 DEF TypeOK
<1> QED
  BY <1>1, <1>2 DEF ForestInv, IInv, SInv, Resting

LEMMA QueuesFollow == ForestInv => QueuesAgree
<1>1. ASSUME SearchInv
      PROVE  QueuesAgree
  <2>1. SearchKinds /\ SearchPhases /\ Candidates
    BY <1>1 DEF SearchInv
  <2>2. NN!Q!WellFormed(nodespq) /\ NN!Q!WellFormed(mpq)
    BY <2>1, FineQueue DEF SearchKinds
  <2>3. \A h \in ToSet(mpq.heap) : handlers[mpq.elements[h].id] = h
    BY <2>1 DEF Candidates, Candidate, Handles
  <2> QED
    BY <2>1, <2>2, <2>3 DEF QueuesAgree, SearchPhases
<1>2. ASSUME RangeInv, Resting, query.kind = "range"
      PROVE  QueuesAgree
  <2>1. NN!Q!WellFormed(nodespq) /\ NN!Q!WellFormed(mpq) /\ ToSet(mpq.heap) = {}
    BY <1>2, RestingQueues, FineQueue DEF Handles
  <2>2. pc # "visit"
    BY <1>2 DEF RangeInv, RangeKinds, Early
  <2> QED
    BY <2>1, <2>2 DEF QueuesAgree
<1> QED
  BY <1>1, <1>2 DEF ForestInv, IInv, SInv, Resting

LEMMA FailuresFollow == ForestInv => OnlyKnownFailures
<1>1. ASSUME RangeInv, Resting, query.kind = "range"
      PROVE  OnlyKnownFailures
  BY <1>1 DEF RangeInv, RangeKinds, Early, Resting, OnlyKnownFailures
<1> QED
  BY <1>1 DEF ForestInv, IInv, SInv, Resting, SearchInv

(* The invariants above, of every query of every forest.                   *)
THEOREM ForestInvariant == Spec => []ForestInv
<1>1. Init => ForestInv
  BY InitRange, InitSearch, InitResting DEF ForestInv
<1>2. ForestInv /\ [Next]_vars => ForestInv'
  BY NextRange, NextSearch, NextResting DEF ForestInv
<1> QED
  BY <1>1, <1>2, PTL DEF Spec

(* Every variable keeps its kind: nodes and boxes wait in one queue,       *)
(* candidates in the other, and what has been read of a trajectory are     *)
(* boxes of it.                                                            *)
THEOREM ForestIsTyped == Spec => []TypeOK
BY ForestInvariant, ForestTyped, PTL

(* Both queues stay heaps whose handles know their places, m_handlers      *)
(* leads to every candidate, and pop() takes what top() returned, although *)
(* candidates are overwritten in place and handles taken again by others.  *)
THEOREM QueuesStayTogether == Spec => []QueuesAgree
BY ForestInvariant, QueuesFollow, PTL

(* A query fails only where no tree takes its length, or, when every       *)
(* trajectory has been reported, on a box beyond the query's time; the     *)
(* switch never meets a candidate that is not complete.                    *)
THEOREM FailuresAreKnown == Spec => []OnlyKnownFailures
BY ForestInvariant, FailuresFollow, PTL

-----------------------------------------------------------------------------
LEMMA QueryIs ==
  ASSUME query \in Queries
  PROVE  query.kind \in {"knn", "range"} /\ query.k \in Nat \ {0}
<1>1. query.kind \in {"knn", "range"} /\ (query.k \in Ks \/ query.k = 1)
  BY Zenon DEF Queries
<1>2. PICK k : k = query.k
  OBVIOUS
<1>3. k \in Ks \/ k = 1
  BY <1>1, <1>2
<1>4. Ks \subseteq Nat \ {0}
  BY NumberAssumption
<1>5. k \in Ks => k \in Nat \ {0}
  BY <1>4
<1>6. k = 1 => k \in Nat \ {0}
  OBVIOUS
<1> QED
  BY <1>1, <1>2, <1>3, <1>5, <1>6

(* What KNearest sees of a nearest-neighbour query, and of a range query.  *)
LEMMA DistanceStays == ASSUME UNCHANGED <<world, query>> PROVE NN!Distance' = NN!Distance
BY WorldStays DEF NN!Distance

LEMMA SearchStutters ==
  ASSUME query.kind = "knn", UNCHANGED <<world, query, reported>>, pc \notin Ended, pc' \notin Ended
  PROVE  UNCHANGED KN!vars
<1>1. pc # "done" /\ pc' # "done"
  BY DEF Ended
<1> QED
  BY <1>1, DistanceStays DEF KN!vars

LEMMA SearchFails ==
  ASSUME query.kind = "knn", UNCHANGED <<world, query, reported>>, pc \notin Ended,
         pc' \in Ended \ {"done"}
  PROVE  KN!Next
<1>1. pc # "done"
  BY DEF Ended
<1> QED
  BY <1>1, DistanceStays DEF KN!Next, KN!Fail

LEMMA SearchFinishes ==
  ASSUME query.kind = "knn", UNCHANGED <<world, query, reported>>, pc \notin Ended, pc' = "done",
         Len(reported) >= query.k \/ Traj \ Answered = {}
  PROVE  KN!Next
<1>1. pc # "done"
  BY DEF Ended
<1>2. KN!Left = Traj \ Answered
  BY DEF KN!Left, KN!Reported, Answered, ToSet
<1> QED
  BY <1>1, <1>2, DistanceStays DEF KN!Next, KN!Finish

(* Both queues are empty: every box has been read, and every trajectory    *)
(* reported.                                                               *)
LEMMA ExhaustedRefines ==
  ASSUME SearchInv, query.kind = "knn", NN!Exhausted
  PROVE  KN!Next
<1>1. /\ pc = "loop" /\ pc' = "done" /\ NN!Q!IsEmpty(nodespq) /\ NN!Q!IsEmpty(mpq)
      /\ UNCHANGED <<world, query, reported>>
  BY DEF NN!Exhausted, NN!Empty, NN!rigid, NN!found
<1>2. SearchKinds /\ Candidates /\ Placed /\ children = {}
  BY <1>1 DEF SearchInv, SearchPhases
<1>3. Handles(nodespq) = {} /\ Handles(mpq) = {}
  BY <1>1, <1>2, EmptyIs
<1>4. ASSUME NEW t \in Traj, t \notin Answered
      PROVE  FALSE
  <2>1. parts[t] = BoxesOf(world[t])
    BY <1>2, <1>3, AllRead
  <2> QED
    BY <1>2, <1>3, <1>4, <2>1, ReadIsExact
<1>5. pc \notin Ended
  BY <1>1 DEF Ended
<1> QED
  BY <1>1, <1>4, <1>5, SearchFinishes

LEMMA ReportRefines ==
  ASSUME SearchInv, query.kind = "knn", NN!Report
  PROVE  KN!Next
<1>1. /\ pc = "visit" /\ pc' = "loop" /\ first.type = 3 /\ ~NN!Beyond
      /\ reported' = Append(reported, first.id) /\ UNCHANGED <<world, query>>
  BY DEF NN!Report, NN!Visit, NN!Done, NN!rigid
<1>2. PICK t : t = first.id
  OBVIOUS
<1>3. /\ t \in Traj \ Answered /\ first.opt = NN!TrueDistance(t)
      /\ \A u \in Traj \ Answered : NN!TrueDistance(t) <= NN!TrueDistance(u)
  BY <1>1, <1>2, NoneNearer
<1>4. SearchKinds /\ Ranked /\ reported \in Seq(Traj)
  BY DEF SearchInv, SearchKinds
<1>5. \A u \in Traj : NN!TrueDistance(u) \in Nat /\ NN!Distance[u] = NN!TrueDistance(u)
  BY <1>4, DistanceIs DEF SearchKinds, NN!Distance
<1>6. Len(reported) < query.k \/ NN!Distance[t] = NN!Distance[reported[Len(reported)]]
  <2> SUFFICES ASSUME ~(Len(reported) < query.k)
               PROVE  NN!Distance[t] = NN!Distance[reported[Len(reported)]]
    OBVIOUS
  <2>1. query.k \in Nat \ {0} /\ Len(reported) \in Nat
    BY <1>4, QueryIs DEF SearchKinds
  <2>2. Len(reported) >= query.k /\ reported # <<>>
    BY <2>1
  <2>3. reported[Len(reported)] \in Traj
    BY <1>4, <2>1, <2>2
  <2>4. knearest = NN!TrueDistance(reported[Len(reported)]) /\ knearest <= NN!TrueDistance(t)
    BY <1>3, <1>4, <2>2 DEF Ranked
  <2>5. ~(first.opt > knearest)
    BY <1>1, <2>2 DEF NN!Beyond
  <2> QED
    BY <1>3, <1>5, <2>3, <2>4, <2>5
<1>7. pc \notin Ended /\ pc' \notin Ended /\ pc # "done" /\ pc' # "done"
  BY <1>1 DEF Ended
<1>8. KN!Left = Traj \ Answered
  BY DEF KN!Left, KN!Reported, Answered, ToSet
<1>9. \A u \in Traj \ Answered : NN!Distance[t] <= NN!Distance[u]
  BY <1>3, <1>5
<1>10. KN!Report(t)
  BY <1>1, <1>2, <1>3, <1>6, <1>7, <1>8, <1>9, DistanceStays DEF KN!Report, KN!Tie
<1> QED
  BY <1>3, <1>10 DEF KN!Next

LEMMA SearchRefines ==
  ASSUME SearchInv, query.kind = "knn", [Next]_vars
  PROVE  [KN!Next]_KN!vars
<1>1. CASE ChooseTree \/ NoTreeTakes
  <2>1. /\ pc = "choose" /\ pc' \in {"short", "partsstore", "loop", "crashed"}
        /\ UNCHANGED <<world, query, reported>>
    BY <1>1 DEF ChooseTree, NoTreeTakes
  <2>2. pc \notin Ended /\ (pc' \notin Ended \/ pc' \in Ended \ {"done"})
    BY <2>1 DEF Ended
  <2> QED
    BY <2>1, <2>2, SearchStutters, SearchFails
<1>2. CASE NearestNeighborQuery
  <2>1. CASE NN!Exhausted
    BY <2>1, ExhaustedRefines
  <2>2. CASE NN!Report
    BY <2>2, ReportRefines
  <2>3. CASE NN!Stop
    <3>1. /\ pc = "visit" /\ pc' = "done" /\ Len(reported) >= query.k
          /\ UNCHANGED <<world, query, reported>>
      BY <2>3 DEF NN!Stop, NN!Beyond, NN!rigid, NN!found
    <3>2. pc \notin Ended
      BY <3>1 DEF Ended
    <3> QED
      BY <3>1, <3>2, SearchFinishes
  <2>4. CASE NN!Fail
    <3>1. /\ pc = "visit" /\ pc' \in {"broken", "thrown"} /\ UNCHANGED <<world, query, reported>>
      BY <2>4 DEF NN!Fail, NN!Visit, NN!rigid, NN!found
    <3>2. pc \notin Ended /\ pc' \in Ended \ {"done"}
      BY <3>1 DEF Ended
    <3> QED
      BY <3>1, <3>2, SearchFails
  <2>5. CASE \/ NN!TopNode \/ NN!TopCandidate \/ NN!TopUpdates \/ NN!TopReturns
             \/ NN!VisitNode \/ NN!PushChild \/ NN!ChildrenPushed \/ NN!VisitBox
    <3>1. /\ pc \in {"loop", "top", "visit", "push"} /\ pc' \in {"loop", "top", "visit", "push"}
          /\ UNCHANGED <<world, query, reported>>
      BY <2>5 DEF NN!TopNode, NN!TopCandidate, NN!TopUpdates, NN!TopReturns, NN!VisitNode,
                  NN!PushChild, NN!ChildrenPushed, NN!VisitBox, NN!Visit, NN!Done, NN!rigid, NN!found
    <3>2. pc \notin Ended /\ pc' \notin Ended
      BY <3>1 DEF Ended
    <3> QED
      BY <3>1, <3>2, SearchStutters
  <2> QED
    BY <1>2, <2>1, <2>2, <2>3, <2>4, <2>5 DEF NearestNeighborQuery, NN!Next
<1>3. ~IntersectsWithQuery
  BY DEF IntersectsWithQuery
<1>4. CASE UNCHANGED vars
  BY <1>4, DistanceStays DEF vars, KN!vars
<1> QED
  BY <1>1, <1>2, <1>3, <1>4 DEF Next

LEMMA InitRefines == Init => KN!Init
<1> SUFFICES ASSUME Init PROVE KN!Init
  OBVIOUS
<1>1. query.kind \in {"knn", "range"} /\ query.k \in Nat \ {0}
  BY QueryIs DEF Init
<1>2. reported = <<>> /\ pc = "choose" /\ pc \notin Ended
  BY DEF Init, NN!Idle, Ended
<1>3. CASE query.kind = "knn"
  <2>1. \A t \in Traj : NN!TrueDistance(t) \in Nat
    BY <1>3, DistanceIs DEF Init
  <2>2. NN!Distance \in [Traj -> Nat]
    BY <2>1 DEF NN!Distance
  <2> QED
    BY <1>1, <1>2, <1>3, <2>2 DEF KN!Init
<1>4. CASE query.kind = "range"
  BY <1>1, <1>4 DEF KN!Init
<1> QED
  BY <1>1, <1>3, <1>4

LEMMA NextRefines == ForestInv /\ [Next]_vars => [KN!Next]_KN!vars
<1> SUFFICES ASSUME ForestInv, [Next]_vars
             PROVE  [KN!Next]_KN!vars
  OBVIOUS
<1>1. CASE query.kind = "knn"
  BY <1>1, SearchRefines DEF ForestInv, SInv
<1>2. CASE query.kind = "range"
  BY <1>2, QueryStays DEF KN!vars
<1> QED
  BY <1>1, <1>2 DEF ForestInv, Resting

(* A nearest-neighbour query reports trajectories as near as any left, k   *)
(* of them or all, and ties: estimates that may overstate a gap are only   *)
(* trusted when nothing that waits can be nearer.                          *)
THEOREM SearchIsNearest == Spec => ImplementsKNearest
<1>1. Init => KN!Init
  BY InitRefines
<1>2. ForestInv /\ [Next]_vars => [KN!Next]_KN!vars
  BY NextRefines
<1> QED
  BY <1>1, <1>2, ForestInvariant, PTL DEF Spec, ImplementsKNearest, KN!Spec
=============================================================================

-------------------- MODULE MutablePriorityQueue_proofs --------------------
(***************************************************************************)
(* What the operations of the queue keep, for every number of entries and  *)
(* every strict weak order: a queue is linked (its handles are distinct,   *)
(* each knows its place, and a handle is in the heap or free) and heaped   *)
(* (no entry comes before its parent). lower and raise let handles trade   *)
(* places along a path, so links survive and the entries are only          *)
(* rearranged; the order is whole again afterwards because before only one *)
(* place was out of order.                                                 *)
(***************************************************************************)
EXTENDS MutablePriorityQueue, SequenceTheorems, WellFoundedInduction, TLAPS

-----------------------------------------------------------------------------
(* Places of the heap: numbers and paths.                                  *)
(* A set of numbers has a least. *)
LEMMA LeastOf ==
  ASSUME NEW S \in SUBSET Nat, S # {}
  PROVE  \E x \in S : \A y \in S : x <= y
<1>1. PICK x \in S : \A y \in S : ~ (<<y, x>> \in OpToRel(<, Nat))
  BY NatLessThanWellFounded, WFMin
<1>2. ASSUME NEW y \in S PROVE x <= y
  <2>1. x \in Nat /\ y \in Nat
    OBVIOUS
  <2>2. y < x => <<y, x>> \in OpToRel(<, Nat)
    BY <2>1, Zenon DEF OpToRel
  <2>3. ~ (y < x)
    BY <1>1, <2>2, Zenon
  <2> QED
    BY <2>1, <2>3
<1> QED
  BY <1>2

(* What holds of 0 and of n + 1 with n holds up to any bound. *)
LEMMA Upwards ==
  ASSUME NEW n \in Nat, NEW P, 0 \in P, \A m \in 0 .. n : m \in P /\ m < n => m + 1 \in P
  PROVE  n \in P
<1> DEFINE Bad == (0 .. n) \ P
<1>1. SUFFICES ASSUME Bad # {} PROVE FALSE
  OBVIOUS
<1>2. Bad \in SUBSET Nat
  OBVIOUS
<1>3. PICK x \in Bad : \A y \in Bad : x <= y
  <2> HIDE DEF Bad
  <2> QED
    BY <1>1, <1>2, LeastOf
<1>4. x \in 0 .. n /\ x \notin P /\ x # 0 /\ x - 1 \in 0 .. n /\ x - 1 < n /\ (x - 1) + 1 = x
  BY <1>3
<1>5. x - 1 \in P
  BY <1>3, <1>4
<1> QED
  BY <1>4, <1>5

(* The parent of a place. *)
LEMMA Halves ==
  ASSUME NEW j \in Nat, j > 1
  PROVE  /\ j \div 2 \in 1 .. j - 1
         /\ \A p \in Nat : j \div 2 = p <=> j = 2 * p \/ j = 2 * p + 1
  OBVIOUS

(* The children of a place. *)
LEMMA Children ==
  ASSUME NEW p \in Nat
  PROVE  (2 * p) \div 2 = p /\ (2 * p + 1) \div 2 = p
  OBVIOUS

(* The way down from place i, where the next place is given. *)
IsWay(W, next, i, n) ==
  /\ W \subseteq 1 .. n
  /\ \A j \in 1 .. n : j \in W <=> j = i \/ (j > i /\ j \div 2 \in W /\ next[j \div 2] = j)

(* There is a way down from any place, wherever each place leads. *)
LEMMA SomeWay ==
  ASSUME NEW n \in Nat, NEW i \in 1 .. n, NEW next
  PROVE  \E W : IsWay(W, next, i, n)
<1> DEFINE P == {m \in 0 .. n : \E W : IsWay(W, next, i, m)}
<1>1. 0 \in P
  <2>1. IsWay({}, next, i, 0)
    BY DEF IsWay
  <2> QED
    BY <2>1
<1>2. ASSUME NEW m \in 0 .. n, m \in P, m < n
      PROVE  m + 1 \in P
  <2>1. PICK W : IsWay(W, next, i, m)
    BY <1>2
  <2> DEFINE new == m + 1 = i \/ (m + 1 > i /\ (m + 1) \div 2 \in W /\ next[(m + 1) \div 2] = m + 1)
             V == IF new THEN W \cup {m + 1} ELSE W
  <2>2. \A j \in 1 .. m : j \div 2 # m + 1 /\ (j \in V <=> j \in W)
    BY <2>1 DEF IsWay
  <2>3. (m + 1) \div 2 # m + 1 /\ (m + 1 \in V <=> new)
    BY <2>1 DEF IsWay
  <2>4. \A j \in 1 .. m + 1 : j \div 2 \in V <=> j \div 2 \in W
    BY <2>2, <2>3
  <2>5. V \subseteq 1 .. m + 1
    BY <2>1 DEF IsWay
  <2>6. \A j \in 1 .. m + 1 : j \in 1 .. m \/ j = m + 1
    OBVIOUS
  <2>7. \A j \in 1 .. m : j \in W <=> j = i \/ (j > i /\ j \div 2 \in W /\ next[j \div 2] = j)
    BY <2>1 DEF IsWay
  <2> HIDE DEF V
  <2>8. IsWay(V, next, i, m + 1)
    BY <2>2, <2>3, <2>4, <2>5, <2>6, <2>7 DEF IsWay
  <2>9. m + 1 \in 0 .. n
    BY <1>2
  <2> QED
    BY <2>8, <2>9
<1>3. n \in P
  <2> HIDE DEF P
  <2> QED
    BY <1>1, <1>2, Upwards
<1> QED
  BY <1>3

(* Next places are children, or the place itself at the end. *)
Leads(next, n) ==
  \A j \in 1 .. n : next[j] \in {j, 2 * j, 2 * j + 1} /\ next[j] \in 1 .. n

(* Every place of the way is reached from its parent, or is the first. *)
LEMMA OnTheWay ==
  ASSUME NEW n \in Nat, NEW i \in 1 .. n, NEW next, Leads(next, n), NEW W, IsWay(W, next, i, n)
  PROVE  /\ i \in W
         /\ \A j \in W : j >= i
         /\ \A j \in W : next[j] \in W
         /\ \A j \in W : j # i => j > i /\ j \div 2 \in W /\ next[j \div 2] = j /\ j \div 2 # j
<1>1. i \in W
  BY DEF IsWay
<1>2. \A j \in W : j >= i
  BY DEF IsWay
<1>3. ASSUME NEW j \in W PROVE next[j] \in W
  <2>1. CASE next[j] = j
    BY <2>1
  <2>2. CASE next[j] # j
    <3>1. j \in 1 .. n /\ next[j] \in 1 .. n /\ next[j] \in {2 * j, 2 * j + 1}
      BY <2>2 DEF IsWay, Leads
    <3>2. next[j] \div 2 = j /\ next[j] > j /\ j >= i
      BY <3>1, <1>2, Children
    <3>3. next[j] > i
      BY <3>1, <3>2
    <3> QED
      BY <3>1, <3>2, <3>3 DEF IsWay
  <2> QED
    BY <2>1, <2>2
<1>4. ASSUME NEW j \in W, j # i
      PROVE  j > i /\ j \div 2 \in W /\ next[j \div 2] = j /\ j \div 2 # j
  <2>1. j \in 1 .. n /\ j > i /\ j \div 2 \in W /\ next[j \div 2] = j
    BY <1>4 DEF IsWay
  <2> QED
    BY <2>1
<1> QED
  BY <1>1, <1>2, <1>3, <1>4

(* A way has one end. *)
LEMMA OneEnd ==
  ASSUME NEW n \in Nat, NEW i \in 1 .. n, NEW next, Leads(next, n), NEW W, IsWay(W, next, i, n)
  PROVE  /\ \A j, k \in W : next[j] = j /\ next[k] = k => j = k
         /\ \E e \in W : next[e] = e
<1> DEFINE P == {m \in 0 .. n : \A j, k \in W : j < k /\ k <= m => next[j] # j /\ next[j] <= m}
<1>1. 0 \in P
  BY DEF IsWay
<1>2. ASSUME NEW m \in 0 .. n, m \in P, m < n PROVE m + 1 \in P
  <2>1. ASSUME NEW j \in W, NEW k \in W, j < k, k <= m + 1
        PROVE  next[j] # j /\ next[j] <= m + 1
    <3>1. j \in 1 .. n /\ k \in 1 .. n /\ next[j] \in 1 .. n
      BY DEF IsWay, Leads
    <3>2. CASE k <= m
      BY <1>2, <2>1, <3>1, <3>2
    <3>3. CASE k = m + 1
      <4>1. k # i /\ k \div 2 \in W /\ next[k \div 2] = k
        BY <2>1, <3>1, OnTheWay
      <4>2. k \div 2 <= m /\ k \div 2 \in Nat /\ k \div 2 < k
        BY <3>1, <3>3, <2>1, Halves
      <4>3. CASE j = k \div 2
        BY <4>1, <4>2, <4>3, <3>3, <3>1
      <4>4. CASE j < k \div 2
        <5>1. next[j] # j /\ next[j] <= m
          BY <1>2, <4>1, <4>2, <4>4
        <5> QED
          BY <5>1, <3>1
      <4>5. CASE k \div 2 < j
        <5>1. j <= m
          BY <2>1, <3>1, <3>3
        <5>2. next[k \div 2] <= m
          BY <1>2, <4>1, <4>5, <5>1
        <5> QED
          BY <5>2, <4>1, <3>3
      <4> QED
        BY <3>1, <4>2, <4>3, <4>4, <4>5
    <3> QED
      BY <2>1, <3>1, <3>2, <3>3
  <2>2. m + 1 \in 0 .. n
    BY <1>2
  <2> QED
    BY <2>1, <2>2
<1>3. n \in P
  <2> HIDE DEF P
  <2> QED
    BY <1>1, <1>2, Upwards
<1>4. \A j, k \in W : j < k => next[j] # j
  BY <1>3 DEF IsWay
<1>5. \A j, k \in W : next[j] = j /\ next[k] = k => j = k
  <2> TAKE j, k \in W
  <2>1. j \in Nat /\ k \in Nat
    BY DEF IsWay
  <2> QED
    BY <1>4, <2>1
<1>6. \E e \in W : next[e] = e
  <2> DEFINE T == {n - j : j \in W}
  <2>1. T \in SUBSET Nat /\ T # {}
    BY OnTheWay DEF IsWay
  <2>2. PICK x \in T : \A y \in T : x <= y
    <3> HIDE DEF T
    <3> QED
      BY <2>1, LeastOf
  <2>3. PICK e \in W : x = n - e
    BY <2>2
  <2>4. next[e] \in W
    BY OnTheWay
  <2>7. next[e] \in Nat /\ e \in Nat /\ e <= next[e]
    <3>1. e \in 1 .. n
      BY DEF IsWay
    <3> QED
      BY <3>1 DEF Leads
  <2>5. n - next[e] \in T
    BY <2>4
  <2> HIDE DEF T
  <2>6. next[e] <= e
    <3>1. n - e <= n - next[e]
      BY <2>2, <2>3, <2>5
    <3> QED
      BY <3>1, <2>7
  <2> QED
    BY <2>6, <2>7
<1> QED
  BY <1>5, <1>6

(* The way up from place i, past the places that are to be passed. *)
IsRise(M, worse, i, n) ==
  /\ M \subseteq 1 .. n
  /\ \A j \in 1 .. n :
       j \in M <=> j = i \/ (j < i /\ j \in worse /\ {2 * j, 2 * j + 1} \cap (1 .. n) \cap M # {})

(* There is a set of places passed on the way up. *)
LEMMA SomeRise ==
  ASSUME NEW n \in Nat, NEW i \in 1 .. n, NEW worse
  PROVE  \E M : IsRise(M, worse, i, n)
<1> DEFINE Part(m, M) ==
             /\ M \subseteq n - m + 1 .. n
             /\ \A j \in n - m + 1 .. n :
                  j \in M <=> j = i \/ (j < i /\ j \in worse /\ {2 * j, 2 * j + 1} \cap (1 .. n) \cap M # {})
           P == {m \in 0 .. n : \E M : Part(m, M)}
<1>1. 0 \in P
  <2>1. n - 0 + 1 = n + 1 /\ n + 1 .. n = {}
    OBVIOUS
  <2>2. Part(0, {})
    BY <2>1
  <2>3. 0 \in 0 .. n
    OBVIOUS
  <2> HIDE DEF Part
  <2> QED
    BY <2>2, <2>3
<1>2. ASSUME NEW m \in 0 .. n, m \in P, m < n
      PROVE  m + 1 \in P
  <2>1. PICK M : Part(m, M)
    BY <1>2
  <2> DEFINE a == n - m
             new == a = i \/ (a < i /\ a \in worse /\ {2 * a, 2 * a + 1} \cap (1 .. n) \cap M # {})
             V == IF new THEN M \cup {a} ELSE M
  <2>2. a \in 1 .. n /\ n - (m + 1) + 1 = a /\ n - m + 1 = a + 1
    BY <1>2
  <2>3. M \subseteq a + 1 .. n
    BY <2>1, <2>2
  <2>4. \A j \in a + 1 .. n : j \in M <=> j = i \/ (j < i /\ j \in worse /\ {2 * j, 2 * j + 1} \cap (1 .. n) \cap M # {})
    BY <2>1, <2>2
  <2>5. a \notin M /\ (a \in V <=> new) /\ \A j \in a + 1 .. n : j \in V <=> j \in M
    BY <2>2, <2>3
  <2>6. \A j \in a .. n : {2 * j, 2 * j + 1} \cap (1 .. n) \cap V = {2 * j, 2 * j + 1} \cap (1 .. n) \cap M
    <3> TAKE j \in a .. n
    <3>1. j \in Int /\ j >= a /\ a >= 1 /\ a \in Int
      BY <2>2
    <3> HIDE DEF a
    <3>2. 2 * j # a /\ 2 * j + 1 # a
      BY <3>1
    <3> HIDE DEF new
    <3> QED
      BY <3>2
  <2>7. V \subseteq a .. n
    BY <2>2, <2>3
  <2>8. \A j \in a .. n : j = a \/ j \in a + 1 .. n
    BY <2>2
  <2> HIDE DEF V
  <2>9. \A j \in a .. n : j \in V <=> j = i \/ (j < i /\ j \in worse /\ {2 * j, 2 * j + 1} \cap (1 .. n) \cap V # {})
    BY <2>4, <2>5, <2>6, <2>8
  <2>10. Part(m + 1, V)
    BY <2>2, <2>7, <2>9
  <2>11. m + 1 \in 0 .. n
    BY <1>2
  <2> QED
    BY <2>10, <2>11
<1>3. n \in P
  <2> HIDE DEF P
  <2> QED
    BY <1>1, <1>2, Upwards
<1>4. PICK M : Part(n, M)
  BY <1>3
<1>5. n - n + 1 = 1
  OBVIOUS
<1>6. IsRise(M, worse, i, n)
  BY <1>4, <1>5 DEF IsRise
<1> QED
  BY <1>6

(* Every place passed but i was passed from the child that was passed, and *)
(* one place has no passed parent.                                         *)
LEMMA OnTheRise ==
  ASSUME NEW n \in Nat, NEW i \in 1 .. n, NEW worse, NEW M, IsRise(M, worse, i, n)
  PROVE  /\ i \in M
         /\ \A j \in M : j # i => j < i /\ j \in worse
         /\ \A j \in M : j # i => \E c \in M : c > j /\ c \div 2 = j
         /\ \A c \in M : c > 1 /\ c \div 2 \in worse => c \div 2 \in M
<1>1. i \in M
  BY DEF IsRise
<1>2. ASSUME NEW j \in M, j # i
      PROVE  j < i /\ j \in worse /\ \E c \in M : c > j /\ c \div 2 = j
  <2>1. j \in 1 .. n /\ j < i /\ j \in worse /\ {2 * j, 2 * j + 1} \cap (1 .. n) \cap M # {}
    BY <1>2 DEF IsRise
  <2>2. PICK c \in M : c \in {2 * j, 2 * j + 1}
    BY <2>1
  <2> QED
    BY <2>1, <2>2, Children
<1>3. ASSUME NEW c \in M, c > 1, c \div 2 \in worse
      PROVE  c \div 2 \in M
  <2>1. c \in 1 .. n /\ c <= i
    BY <1>2 DEF IsRise
  <2>2. c \div 2 \in 1 .. n /\ c \div 2 < i /\ (c = 2 * (c \div 2) \/ c = 2 * (c \div 2) + 1)
    BY <1>3, <2>1, Halves
  <2>3. {2 * (c \div 2), 2 * (c \div 2) + 1} \cap (1 .. n) \cap M # {}
    BY <2>1, <2>2
  <2> QED
    BY <1>3, <2>2, <2>3 DEF IsRise
<1> QED
  BY <1>1, <1>2, <1>3

(* The places passed follow one another: two of them have different        *)
(* parents, and one has no parent among them.                              *)
LEMMA OneRise ==
  ASSUME NEW n \in Nat, NEW i \in 1 .. n, NEW worse, NEW M, IsRise(M, worse, i, n)
  PROVE  /\ \A c, d \in M : c > 1 /\ d > 1 /\ c \div 2 = d \div 2 => c = d
         /\ \A c, d \in M : c \div 2 \notin M /\ d \div 2 \notin M => c = d
         /\ \E c \in M : c \div 2 \notin M
<1> DEFINE P == {m \in 0 .. n : \A c, d \in M : c < d /\ c >= n - m => c <= d \div 2 /\ d \div 2 \in M}
<1>0. \A c \in M : c \in 1 .. n /\ c <= i
  BY OnTheRise DEF IsRise
<1>1. 0 \in P
  BY <1>0
<1>2. ASSUME NEW m \in 0 .. n, m \in P, m < n PROVE m + 1 \in P
  <2>1. ASSUME NEW c \in M, NEW d \in M, c < d, c >= n - (m + 1)
        PROVE  c <= d \div 2 /\ d \div 2 \in M
    <3>1. c \in 1 .. n /\ d \in 1 .. n /\ d <= i /\ c # i
      BY <2>1, <1>0
    <3>2. CASE c >= n - m
      BY <1>2, <2>1, <3>2
    <3>3. CASE ~(c >= n - m)
      <4> HIDE DEF P
      <4>0. \A j \in M : j # i => \E e \in M : e > j /\ e \div 2 = j
        BY OnTheRise
      <4>1. PICK e \in M : e > c /\ e \div 2 = c
        BY <4>0, <3>1, <2>1
      <4> USE DEF P
      <4>2. e \in 1 .. n /\ e >= n - m /\ d \in Int
        BY <4>1, <3>1, <3>3, <2>1, <1>0
      <4>3. CASE e = d
        BY <4>1, <4>3, <3>1
      <4>4. CASE e < d
        <5>1. e <= d \div 2 /\ d \div 2 \in M
          BY <1>2, <4>2, <4>4
        <5> QED
          BY <5>1, <4>1, <4>2, <3>1
      <4>5. CASE d < e
        <5>1. d >= n - m
          BY <2>1, <3>1, <3>3
        <5>2. d <= e \div 2
          BY <1>2, <4>5, <5>1
        <5> QED
          BY <5>2, <4>1, <2>1, <3>1
      <4> QED
        BY <4>2, <4>3, <4>4, <4>5
    <3> QED
      BY <3>2, <3>3
  <2>2. m + 1 \in 0 .. n
    BY <1>2
  <2> QED
    BY <2>1, <2>2
<1>3. n \in P
  <2> HIDE DEF P
  <2> QED
    BY <1>1, <1>2, Upwards
<1>4. \A c, d \in M : c < d => c <= d \div 2 /\ d \div 2 \in M
  <2>1. \A c \in M : c >= n - n
    BY <1>0
  <2> QED
    BY <1>3, <2>1
<1> HIDE DEF P
<1>5. ASSUME NEW c \in M, NEW d \in M, c > 1, d > 1, c \div 2 = d \div 2, c < d
      PROVE  FALSE
  BY <1>4, <1>5, <1>0
<1>6. \A c, d \in M : c \in Int /\ d \in Int
  BY <1>0
<1>7. \A c, d \in M : c \div 2 \notin M /\ d \div 2 \notin M => c = d
  BY <1>4, <1>6
<1>8. \E c \in M : c \div 2 \notin M
  <2>1. M \in SUBSET Nat /\ M # {}
    BY <1>0, OnTheRise
  <2>2. PICK c \in M : \A d \in M : c <= d
    BY <2>1, LeastOf
  <2>3. c \in 1 .. n /\ c \div 2 < c /\ c \div 2 \in Int
    BY <1>0
  <2> QED
    BY <2>2, <2>3
<1> QED
  BY <1>5, <1>6, <1>7, <1>8

-----------------------------------------------------------------------------
(* The queue, but for the order of its entries: every handle is in the     *)
(* heap, where it knows its place, or invalid, once.                       *)
Linked(q, E) ==
  /\ q \in [elements : Seq(E), heap : Seq(Nat), index : Seq(Nat), invalid : Seq(Nat)]
  /\ Len(q.index) = Len(q.elements)
  /\ \A i \in DOMAIN q.heap : q.heap[i] \in DOMAIN q.elements /\ q.index[q.heap[i]] = i
  /\ \A i \in DOMAIN q.invalid : q.invalid[i] \in DOMAIN q.elements
  /\ \A i \in DOMAIN q.heap, j \in DOMAIN q.invalid : q.heap[i] # q.invalid[j]
  /\ \A h \in DOMAIN q.elements :
       (\E i \in DOMAIN q.heap : q.heap[i] = h) \/ (\E i \in DOMAIN q.invalid : q.invalid[i] = h)
  /\ \A i, j \in DOMAIN q.invalid : q.invalid[i] = q.invalid[j] => i = j

(* Handles of the heap trade places. *)
Permutes(q, to) ==
  /\ DOMAIN to \subseteq DOMAIN q.heap
  /\ \A j, k \in DOMAIN to : to[j] = to[k] => j = k
  /\ \A j \in DOMAIN to : \E k \in DOMAIN to : to[j] = q.heap[k]
  /\ \A k \in DOMAIN to : \E j \in DOMAIN to : to[j] = q.heap[k]

(* What is the same in r as in q when handles of the heap only moved. *)
SameEntries(q, r) ==
  /\ r.elements = q.elements
  /\ r.invalid = q.invalid
  /\ Len(r.heap) = Len(q.heap)
  /\ ToSet(r.heap) = ToSet(q.heap)

(* When handles trade places along a path every handle still knows its own. *)
LEMMA RearrangeKeeps ==
  ASSUME NEW E, NEW q, Linked(q, E), NEW to, Permutes(q, to)
  PROVE  /\ Linked(Rearrange(q, to), E)
         /\ SameEntries(q, Rearrange(q, to))
         /\ \A j \in DOMAIN q.heap :
              Rearrange(q, to).heap[j] = IF j \in DOMAIN to THEN to[j] ELSE q.heap[j]
<1> DEFINE r == Rearrange(q, to)
           hp == [j \in DOMAIN q.heap |-> IF j \in DOMAIN to THEN to[j] ELSE q.heap[j]]
           ix == [h \in DOMAIN q.index |-> IF \E j \in DOMAIN to : to[j] = h
                                   THEN CHOOSE j \in DOMAIN to : to[j] = h ELSE q.index[h]]
<1>1. q \in [elements : Seq(E), heap : Seq(Nat), index : Seq(Nat), invalid : Seq(Nat)]
  BY DEF Linked
<1>2. r = [elements |-> q.elements, heap |-> hp, index |-> ix, invalid |-> q.invalid]
  <2>1. q = [elements |-> q.elements, heap |-> q.heap, index |-> q.index, invalid |-> q.invalid]
    BY <1>1
  <2>2. Rearrange(q, to) = [q EXCEPT !.heap = hp, !.index = ix]
    BY Zenon DEF Rearrange
  <2> HIDE DEF hp, ix
  <2> QED
    BY <2>1, <2>2
<1>3. q.heap \in Seq(Nat) /\ q.index \in Seq(Nat) /\ q.elements \in Seq(E) /\ q.invalid \in Seq(Nat)
  BY <1>1
<1>4. DOMAIN q.heap = 1 .. Len(q.heap) /\ DOMAIN q.index = 1 .. Len(q.index) /\ Len(q.heap) \in Nat
      /\ Len(q.index) \in Nat /\ DOMAIN q.elements = 1 .. Len(q.elements)
      /\ Len(q.index) = Len(q.elements)
  BY <1>3 DEF Linked
<1>5. \A j \in DOMAIN to : j \in DOMAIN q.heap /\ j \in Nat /\ to[j] \in Nat
  <2>1. DOMAIN to \subseteq DOMAIN q.heap /\ \A j \in DOMAIN to : \E k \in DOMAIN to : to[j] = q.heap[k]
    BY DEF Permutes
  <2>2. \A j \in DOMAIN q.heap : j \in Nat /\ q.heap[j] \in Nat
    BY <1>3, <1>4
  <2> QED
    BY <2>1, <2>2
<1>6. hp \in [1 .. Len(q.heap) -> Nat]
  BY <1>3, <1>4, <1>5
<1>7. ix \in [1 .. Len(q.index) -> Nat]
  BY <1>3, <1>4, <1>5
<1>8. hp \in Seq(Nat) /\ ix \in Seq(Nat) /\ Len(hp) = Len(q.heap) /\ Len(ix) = Len(q.index)
      /\ DOMAIN hp = DOMAIN q.heap
  <2> HIDE DEF hp, ix
  <2> QED
    BY <1>4, <1>6, <1>7
<1>9. ASSUME NEW j \in DOMAIN q.heap
      PROVE  hp[j] \in DOMAIN q.elements /\ ix[hp[j]] = j /\ \E k \in DOMAIN q.heap : hp[j] = q.heap[k]
  <2>1. CASE j \in DOMAIN to
    <3>1. hp[j] = to[j] /\ \E k \in DOMAIN to : to[j] = q.heap[k]
      BY <2>1 DEF Permutes
    <3>2. to[j] \in DOMAIN q.elements
      BY <3>1, <1>5 DEF Linked
    <3>3. ix[to[j]] = CHOOSE k \in DOMAIN to : to[k] = to[j]
      BY <2>1, <3>2, <1>4
    <3>4. ix[to[j]] = j
      BY <3>3, <2>1 DEF Permutes
    <3> QED
      BY <3>1, <3>2, <3>4, <1>5
  <2>2. CASE j \notin DOMAIN to
    <3>1. hp[j] = q.heap[j] /\ q.heap[j] \in DOMAIN q.elements /\ q.index[q.heap[j]] = j
      BY <2>2 DEF Linked
    <3>2. ASSUME NEW k \in DOMAIN to, to[k] = q.heap[j] PROVE FALSE
      <4>1. PICK m \in DOMAIN to : to[k] = q.heap[m]
        BY DEF Permutes
      <4>2. m \in DOMAIN q.heap /\ q.index[q.heap[m]] = m
        BY <1>5 DEF Linked
      <4> QED
        BY <4>1, <4>2, <3>1, <3>2, <2>2
    <3>3. ix[q.heap[j]] = q.index[q.heap[j]]
      BY <3>1, <3>2, <1>4
    <3> QED
      BY <3>1, <3>3
  <2> QED
    BY <2>1, <2>2
<1>10. ASSUME NEW k \in DOMAIN q.heap PROVE \E j \in DOMAIN q.heap : hp[j] = q.heap[k]
  <2>1. CASE k \in DOMAIN to
    <3>1. PICK j \in DOMAIN to : to[j] = q.heap[k]
      BY <2>1 DEF Permutes
    <3> QED
      BY <3>1, <1>5
  <2>2. CASE k \notin DOMAIN to
    BY <2>2
  <2> QED
    BY <2>1, <2>2
<1>11. \A j \in DOMAIN q.heap : hp[j] = IF j \in DOMAIN to THEN to[j] ELSE q.heap[j]
  OBVIOUS
<1> HIDE DEF hp, ix
<1>12. r.elements = q.elements /\ r.heap = hp /\ r.index = ix /\ r.invalid = q.invalid
       /\ r \in [elements : Seq(E), heap : Seq(Nat), index : Seq(Nat), invalid : Seq(Nat)]
  BY <1>2, <1>3, <1>8
<1>13. /\ \A i \in DOMAIN q.invalid : q.invalid[i] \in DOMAIN q.elements
       /\ \A i \in DOMAIN q.heap, j \in DOMAIN q.invalid : q.heap[i] # q.invalid[j]
       /\ \A h \in DOMAIN q.elements :
            (\E i \in DOMAIN q.heap : q.heap[i] = h) \/ (\E i \in DOMAIN q.invalid : q.invalid[i] = h)
       /\ \A i, j \in DOMAIN q.invalid : q.invalid[i] = q.invalid[j] => i = j
  BY DEF Linked
<1>14. \A h \in DOMAIN q.elements :
            (\E i \in DOMAIN q.heap : hp[i] = h) \/ (\E i \in DOMAIN q.invalid : q.invalid[i] = h)
  BY <1>13, <1>10
<1>15. \A i \in DOMAIN q.heap, j \in DOMAIN q.invalid : hp[i] # q.invalid[j]
  BY <1>13, <1>9
<1>16. ToSet(hp) = ToSet(q.heap)
  <2>1. ToSet(hp) = {hp[i] : i \in DOMAIN q.heap} /\ ToSet(q.heap) = {q.heap[i] : i \in DOMAIN q.heap}
    BY <1>8, Zenon DEF ToSet
  <2>2. \A j \in DOMAIN q.heap : \E k \in DOMAIN q.heap : hp[j] = q.heap[k]
    BY <1>9
  <2>3. \A k \in DOMAIN q.heap : \E j \in DOMAIN q.heap : hp[j] = q.heap[k]
    BY <1>10
  <2> QED
    BY <2>1, <2>2, <2>3
<1> HIDE DEF r
<1>17. Linked(r, E)
  <2>1. Len(r.index) = Len(r.elements)
    BY <1>4, <1>8, <1>12
  <2>2. \A i \in DOMAIN r.heap : r.heap[i] \in DOMAIN r.elements /\ r.index[r.heap[i]] = i
    BY <1>8, <1>9, <1>12
  <2>3. \A i \in DOMAIN r.heap, j \in DOMAIN r.invalid : r.heap[i] # r.invalid[j]
    BY <1>8, <1>15, <1>12
  <2>4. \A h \in DOMAIN r.elements :
            (\E i \in DOMAIN r.heap : r.heap[i] = h) \/ (\E i \in DOMAIN r.invalid : r.invalid[i] = h)
    BY <1>8, <1>14, <1>12
  <2> QED
    BY <1>12, <1>13, <2>1, <2>2, <2>3, <2>4 DEF Linked
<1>18. SameEntries(q, r)
  BY <1>12, <1>16, <1>8 DEF SameEntries
<1> QED
  BY <1>11, <1>12, <1>17, <1>18 DEF r

-----------------------------------------------------------------------------
(* The order of the entries: a strict weak order.                          *)
Ordered(E) ==
  \A x, y, z \in E : (Less(x, y) => ~Less(y, x)) /\ (Less(x, z) => Less(x, y) \/ Less(y, z))

(* No entry comes before its parent, and none but the one at place i. *)
HeapOf(a, n) == \A j \in 2 .. n : ~Less(a[j], a[j \div 2])
HeapBut(a, n, i) ==
  \A j \in 2 .. n :
    /\ j # i /\ j \div 2 # i => ~Less(a[j], a[j \div 2])
    /\ j \div 2 = i /\ i > 1 => ~Less(a[j], a[i \div 2])

(* The way down leads to the better child. *)
Sinks(a, n, v, next) ==
  \A j \in 1 .. n :
    /\ next[j] # j => Less(a[next[j]], v)
    /\ \A c \in {2 * j, 2 * j + 1} \cap 1 .. n : ~Less(a[c], IF next[j] = j THEN v ELSE a[next[j]])

(* A place leads to one of its children. *)
LEMMA LeadsDown ==
  ASSUME NEW n \in Nat, NEW next, Leads(next, n)
  PROVE  \A j \in 1 .. n : next[j] # j => next[j] \in 2 .. n /\ next[j] \div 2 = j /\ next[j] > j
<1> SUFFICES ASSUME NEW j \in 1 .. n, next[j] # j
             PROVE  next[j] \in 2 .. n /\ next[j] \div 2 = j /\ next[j] > j
  OBVIOUS
<1>1. next[j] \in {2 * j, 2 * j + 1} /\ next[j] \in 1 .. n
  BY DEF Leads
<1>2. (2 * j) \div 2 = j /\ (2 * j + 1) \div 2 = j
  BY Children
<1> QED
  BY <1>1, <1>2

(* The entry that sinks past its better children leaves a heap behind. *)
LEMMA LowerOrder ==
  ASSUME NEW E, Ordered(E), NEW n \in Nat, NEW i \in 1 .. n, NEW a \in [1 .. n -> E],
         HeapBut(a, n, i), i > 1 => ~Less(a[i], a[i \div 2]),
         NEW next, Leads(next, n), Sinks(a, n, a[i], next),
         NEW W, IsWay(W, next, i, n),
         NEW b, \A j \in 1 .. n : b[j] = IF j \notin W THEN a[j]
                                        ELSE IF next[j] = j THEN a[i] ELSE a[next[j]]
  PROVE  HeapOf(b, n)
<1>0. /\ i \in W
      /\ \A j \in W : j >= i /\ j \in 1 .. n
      /\ \A j \in W : next[j] \in W
      /\ \A j \in W : j # i => j > i /\ j \div 2 \in W /\ next[j \div 2] = j /\ j \div 2 # j
  <2>1. \A j \in W : j \in 1 .. n
    BY DEF IsWay
  <2> QED
    BY <2>1, OnTheWay
<1>1. \A x, y, z \in E : /\ Less(x, y) => ~Less(y, x)
                         /\ ~Less(x, y) /\ ~Less(y, z) => ~Less(x, z)
  BY DEF Ordered
<1>2. \A j \in 1 .. n : a[j] \in E
  OBVIOUS
<1> SUFFICES ASSUME NEW j \in 2 .. n PROVE ~Less(b[j], b[j \div 2])
  BY DEF HeapOf
<1> DEFINE p == j \div 2
<1>3. j \in 1 .. n /\ p \in 1 .. n /\ p < j /\ j > 1 /\ (j = 2 * p \/ j = 2 * p + 1)
  BY Halves
<1>4. /\ j # i /\ p # i => ~Less(a[j], a[p])
      /\ p = i /\ i > 1 => ~Less(a[j], a[i \div 2])
  BY DEF HeapBut
<1> HIDE DEF p
<1>5. CASE j \notin W /\ p \notin W
  <2>1. j # i /\ p # i
    BY <1>0, <1>5
  <2> QED
    BY <1>3, <1>4, <1>5, <2>1 DEF p
<1>6. CASE j \in W /\ p \notin W
  <2>1. j = i /\ i > 1 /\ p = i \div 2
    BY <1>0, <1>3, <1>6 DEF p
  <2>2. b[j] = (IF next[i] = i THEN a[i] ELSE a[next[i]]) /\ b[p] = a[p]
    BY <1>3, <1>6, <2>1
  <2>3. CASE next[i] = i
    BY <2>1, <2>2, <2>3 DEF p
  <2>4. CASE next[i] # i
    <3>1. next[i] \in 2 .. n /\ next[i] \div 2 = i
      BY <2>4, LeadsDown
    <3>2. ~Less(a[next[i]], a[i \div 2])
      BY <3>1, <2>1 DEF HeapBut
    <3> QED
      BY <3>2, <2>1, <2>2, <2>4 DEF p
  <2> QED
    BY <2>3, <2>4
<1>7. CASE j \in W /\ p \in W
  <2>1. j # i /\ next[p] = j /\ p # j
    BY <1>0, <1>3, <1>7 DEF p
  <2>2. b[p] = a[j]
    BY <1>3, <1>7, <2>1
  <2>3. Less(a[j], a[i])
    BY <2>1, <1>3 DEF Sinks
  <2>4. CASE next[j] = j
    <3>1. b[j] = a[i]
      BY <1>3, <1>7, <2>4
    <3> QED
      BY <3>1, <2>2, <2>3, <1>1, <1>2, <1>3 DEF p
  <2>5. CASE next[j] # j
    <3>1. b[j] = a[next[j]]
      BY <1>3, <1>7, <2>5
    <3>2. next[j] \in 2 .. n /\ next[j] \div 2 = j /\ next[j] # i
      <4>1. next[j] \in 2 .. n /\ next[j] \div 2 = j /\ next[j] > j /\ j >= i
        BY <2>5, <1>0, <1>3, <1>7, LeadsDown
      <4> QED
        BY <4>1, <1>3
    <3>3. ~Less(a[next[j]], a[j])
      BY <3>2, <2>1 DEF HeapBut
    <3> QED
      BY <3>1, <3>3, <2>2 DEF p
  <2> QED
    BY <2>4, <2>5
<1>8. CASE j \notin W /\ p \in W
  <2>1. b[j] = a[j] /\ b[p] = IF next[p] = p THEN a[i] ELSE a[next[p]]
    BY <1>3, <1>8
  <2>2. j \in {2 * p, 2 * p + 1} \cap 1 .. n
    BY <1>3
  <2>3. ~Less(a[j], IF next[p] = p THEN a[i] ELSE a[next[p]])
    BY <2>2, <1>3 DEF Sinks
  <2> QED
    BY <2>1, <2>3 DEF p
<1> QED
  BY <1>5, <1>6, <1>7, <1>8

(* The entry that rises past its worse ancestors leaves a heap behind. *)
LEMMA RaiseOrder ==
  ASSUME NEW E, Ordered(E), NEW n \in Nat, NEW i \in 1 .. n, NEW a \in [1 .. n -> E],
         HeapBut(a, n, i), \A j \in 2 .. n : j \div 2 = i => ~Less(a[j], a[i]),
         NEW M, IsRise(M, {j \in 1 .. n : Less(a[i], a[j])}, i, n),
         NEW b, \A j \in 1 .. n : b[j] = IF j \notin M THEN a[j]
                                        ELSE IF j \div 2 \in M THEN a[j \div 2] ELSE a[i]
  PROVE  HeapOf(b, n)
<1>0. /\ i \in M
      /\ \A j \in M : j \in 1 .. n /\ j <= i
      /\ \A j \in M : j # i => j < i /\ Less(a[i], a[j])
      /\ \A c \in M : c > 1 /\ c \div 2 \in 1 .. n /\ Less(a[i], a[c \div 2]) => c \div 2 \in M
  <2> DEFINE worse == {j \in 1 .. n : Less(a[i], a[j])}
  <2>1. \A j \in 1 .. n : j \in worse <=> Less(a[i], a[j])
    OBVIOUS
  <2>2. \A j \in worse : j \in 1 .. n
    OBVIOUS
  <2> HIDE DEF worse
  <2>3. IsRise(M, worse, i, n)
    BY DEF worse
  <2>4. /\ i \in M
        /\ \A j \in M : j # i => j < i /\ j \in worse
        /\ \A c \in M : c > 1 /\ c \div 2 \in worse => c \div 2 \in M
    BY <2>3, OnTheRise
  <2>5. \A j \in M : j \in 1 .. n
    BY <2>3 DEF IsRise
  <2>6. \A j \in M : j <= i
    BY <2>4, <2>5
  <2> QED
    BY <2>1, <2>4, <2>5, <2>6
<1>1. \A x, y, z \in E : /\ Less(x, y) => ~Less(y, x)
                         /\ ~Less(x, y) /\ ~Less(y, z) => ~Less(x, z)
                         /\ Less(x, y) /\ Less(y, z) => Less(x, z)
  BY DEF Ordered
<1>2. \A j \in 1 .. n : a[j] \in E
  OBVIOUS
<1> SUFFICES ASSUME NEW j \in 2 .. n PROVE ~Less(b[j], b[j \div 2])
  BY DEF HeapOf
<1> DEFINE p == j \div 2
           g == p \div 2
<1>3. j \in 1 .. n /\ p \in 1 .. n /\ p < j /\ j > 1
  BY Halves
<1>4. /\ j # i /\ p # i => ~Less(a[j], a[p])
      /\ p = i /\ i > 1 => ~Less(a[j], a[g])
  BY DEF HeapBut
<1>5. g \in M => g \in 1 .. n /\ g < p /\ p > 1 /\ p \in 2 .. n
  BY <1>0, <1>3
<1>6. g \in M /\ p # i /\ g # i => ~Less(a[p], a[g])
  BY <1>5 DEF HeapBut
<1>7. p = i => ~Less(a[j], a[i])
  BY <1>3
<1>8. b[j] = (IF j \notin M THEN a[j] ELSE IF p \in M THEN a[p] ELSE a[i])
      /\ b[p] = (IF p \notin M THEN a[p] ELSE IF g \in M THEN a[g] ELSE a[i])
  BY <1>3
<1>9. j \in M /\ Less(a[i], a[p]) => p \in M
  BY <1>0, <1>3
<1>10. j \in Int /\ p \in Int /\ i \in Int /\ (g \in M => g \in Int)
  BY <1>3, <1>5
<1> HIDE DEF p, g
<1>11. CASE j \notin M /\ p \notin M
  <2>1. j # i /\ p # i
    BY <1>0, <1>11
  <2> QED
    BY <1>4, <1>8, <1>11, <2>1 DEF p
<1>12. CASE j \in M /\ p \notin M
  BY <1>8, <1>9, <1>12 DEF p
<1>13. CASE j \in M /\ p \in M
  <2>1. p < i
    BY <1>0, <1>3, <1>10, <1>13
  <2>2. Less(a[i], a[p])
    BY <2>1, <1>0, <1>13, <1>10
  <2>3. CASE g \notin M
    <3>1. b[j] = a[p] /\ b[p] = a[i]
      BY <1>8, <1>13, <2>3
    <3> QED
      BY <3>1, <2>2, <1>1, <1>2, <1>3 DEF p
  <2>4. CASE g \in M
    <3>1. b[j] = a[p] /\ b[p] = a[g]
      BY <1>8, <1>13, <2>4
    <3>2. p # i /\ g # i
      BY <2>1, <2>4, <1>5, <1>10
    <3> QED
      BY <3>1, <3>2, <1>6, <2>4 DEF p
  <2> QED
    BY <2>3, <2>4
<1>14. CASE j \notin M /\ p \in M
  <2>1. b[j] = a[j] /\ j # i
    BY <1>8, <1>14, <1>0
  <2>2. CASE p = i
    <3>1. CASE g \in M
      <4>1. b[p] = a[g] /\ i > 1
        BY <1>8, <1>14, <3>1, <1>5, <2>2
      <4> QED
        BY <4>1, <2>1, <2>2, <1>4 DEF p
    <3>2. CASE g \notin M
      <4>1. b[p] = a[i]
        BY <1>8, <1>14, <3>2
      <4> QED
        BY <4>1, <2>1, <2>2, <1>7 DEF p
    <3> QED
      BY <3>1, <3>2
  <2>3. CASE p # i
    <3>1. ~Less(a[j], a[p]) /\ Less(a[i], a[p])
      BY <2>1, <2>3, <1>4, <1>0, <1>14
    <3>2. CASE g \in M
      <4>1. b[p] = a[g] /\ g # i /\ g \in 1 .. n
        BY <1>8, <1>14, <3>2, <1>0, <1>5, <1>10
      <4>2. ~Less(a[p], a[g])
        BY <4>1, <3>2, <2>3, <1>6
      <4> QED
        BY <4>1, <4>2, <3>1, <2>1, <1>1, <1>2, <1>3 DEF p
    <3>3. CASE g \notin M
      <4>1. b[p] = a[i]
        BY <1>8, <1>14, <3>3
      <4> QED
        BY <4>1, <3>1, <2>1, <1>1, <1>2, <1>3 DEF p
    <3> QED
      BY <3>2, <3>3
  <2> QED
    BY <2>2, <2>3
<1> QED
  BY <1>11, <1>12, <1>13, <1>14

-----------------------------------------------------------------------------
(* lower                                                                   *)
(* What a linked queue holds at its places. *)
LEMMA LinkedFacts ==
  ASSUME NEW E, NEW q, Linked(q, E)
  PROVE  /\ Len(q.heap) \in Nat
         /\ DOMAIN q.heap = 1 .. Len(q.heap)
         /\ \A j \in 1 .. Len(q.heap) : At(q, j) \in E /\ q.heap[j] \in DOMAIN q.elements
         /\ \A j, k \in 1 .. Len(q.heap) : q.heap[j] = q.heap[k] => j = k
<1>1. q.heap \in Seq(Nat) /\ q.elements \in Seq(E)
  BY DEF Linked
<1>2. Len(q.heap) \in Nat /\ DOMAIN q.heap = 1 .. Len(q.heap)
  BY <1>1
<1>3. \A j \in 1 .. Len(q.heap) : q.heap[j] \in DOMAIN q.elements /\ q.index[q.heap[j]] = j
  BY <1>2 DEF Linked
<1>4. \A h \in DOMAIN q.elements : q.elements[h] \in E
  BY <1>1
<1> QED
  BY <1>2, <1>3, <1>4 DEF At

(* RaiseIndex is the first of an entry and its children. *)
LEMMA Best ==
  ASSUME NEW E, Ordered(E), NEW q, Linked(q, E), NEW v \in E, NEW j \in 1 .. Len(q.heap)
  PROVE  LET r == RaiseIndex(q, j, v)
         IN /\ r \in {j, 2 * j, 2 * j + 1} /\ r \in 1 .. Len(q.heap)
            /\ r # j => Less(At(q, r), v)
            /\ \A c \in {2 * j, 2 * j + 1} \cap 1 .. Len(q.heap) :
                 ~Less(At(q, c), IF r = j THEN v ELSE At(q, r))
<1> DEFINE n == Len(q.heap)
           left == IF 2 * j <= Len(q.heap) /\ Less(At(q, 2 * j), v) THEN 2 * j ELSE j
           w == IF left = j THEN v ELSE At(q, left)
           r == IF 2 * j + 1 <= Len(q.heap) /\ Less(At(q, 2 * j + 1), w) THEN 2 * j + 1 ELSE left
<1>1. RaiseIndex(q, j, v) = r
  BY DEF RaiseIndex
<1>2. \A x, y, z \in E : /\ Less(x, y) => ~Less(y, x)
                         /\ ~Less(x, y) /\ ~Less(y, z) => ~Less(x, z)
                         /\ Less(x, y) /\ Less(y, z) => Less(x, z)
  BY DEF Ordered
<1>3. n \in Nat /\ \A k \in 1 .. n : At(q, k) \in E
  BY LinkedFacts
<1>4. j \in Nat /\ j >= 1 /\ j <= n
  BY <1>3
<1> HIDE DEF n
<1>5. left \in {j, 2 * j} /\ left \in 1 .. n /\ (left # j => Less(At(q, left), v)) /\ w \in E
  BY <1>3, <1>4 DEF n
<1>6. 2 * j <= n => ~Less(At(q, 2 * j), w)
  BY <1>2, <1>3, <1>4, <1>5 DEF n
<1> HIDE DEF left
<1>7. (left # j => Less(w, v)) /\ (left = j => w = v)
  BY <1>5
<1> HIDE DEF w
<1>8. CASE 2 * j + 1 <= n /\ Less(At(q, 2 * j + 1), w)
  <2>1. r = 2 * j + 1 /\ 2 * j + 1 \in 1 .. n /\ 2 * j \in 1 .. n /\ r # j
    BY <1>8, <1>3, <1>4 DEF n
  <2>2. At(q, 2 * j + 1) \in E /\ At(q, 2 * j) \in E
    BY <2>1, <1>3
  <2>3. Less(At(q, r), v)
    <3>1. CASE left = j
      BY <1>7, <1>8, <2>1, <3>1
    <3>2. CASE left # j
      BY <1>7, <1>8, <2>1, <2>2, <3>2, <1>2, <1>5
    <3> QED
      BY <3>1, <3>2
  <2>4. ~Less(At(q, 2 * j), At(q, r))
    <3>1. ~Less(At(q, 2 * j), w)
      BY <1>6, <2>1, <1>3
    <3> QED
      BY <1>2, <1>5, <1>8, <2>1, <2>2, <3>1
  <2>5. ~Less(At(q, r), At(q, r))
    BY <1>2, <2>1, <2>2
  <2> HIDE DEF r
  <2> QED
    BY <1>1, <2>1, <2>3, <2>4, <2>5 DEF n
<1>9. CASE ~(2 * j + 1 <= n /\ Less(At(q, 2 * j + 1), w))
  <2>1. r = left
    BY <1>9 DEF n
  <2>2. w = IF r = j THEN v ELSE At(q, r)
    BY <2>1 DEF w
  <2>3. \A c \in {2 * j, 2 * j + 1} \cap 1 .. n : ~Less(At(q, c), w)
    BY <1>6, <1>9, <1>3
  <2> HIDE DEF r
  <2> QED
    BY <1>1, <1>5, <2>1, <2>2, <2>3 DEF n
<1> QED
  BY <1>8, <1>9

WayDown(q, i) == [j \in DOMAIN q.heap |-> RaiseIndex(q, j, At(q, i))]
Sunk(q, i, next, W) == [j \in W |-> IF next[j] = j THEN q.heap[i] ELSE q.heap[next[j]]]

(* lower moves handles along a way down. *)
LEMMA LowerIs ==
  ASSUME NEW q, NEW n \in Nat, DOMAIN q.heap = 1 .. n, NEW i \in 1 .. n
  PROVE  \E W : /\ IsWay(W, WayDown(q, i), i, n)
                /\ Lower(q, i) = Rearrange(q, Sunk(q, i, WayDown(q, i), W))
<1> DEFINE next == WayDown(q, i)
           step(f) == [j \in DOMAIN q.heap |-> j = i \/ (j > i /\ f[j \div 2] /\ next[j \div 2] = j)]
           onWay == CHOOSE f : f = step(f)
           W == {c \in DOMAIN q.heap : onWay[c]}
<1>1. Lower(q, i) = Rearrange(q, Sunk(q, i, next, W))
  <2> DEFINE on(nx) == CHOOSE f : f = [j \in DOMAIN q.heap |->
                         j = i \/ (j > i /\ f[j \div 2] /\ nx[j \div 2] = j)]
             val(nx) == Rearrange(q, [j \in {c \in DOMAIN q.heap : on(nx)[c]} |->
                          IF nx[j] = j THEN q.heap[i] ELSE q.heap[nx[j]]])
  <2>1. Lower(q, i) = CHOOSE r \in {val(y) : y \in {next}} : TRUE
    BY DEF Lower, With, WayDown
  <2>2. val(next) = Rearrange(q, Sunk(q, i, next, W))
    BY DEF Sunk
  <2> HIDE DEF val
  <2>3. \A x : (CHOOSE r \in {val(y) : y \in {x}} : TRUE) = val(x)
    OBVIOUS
  <2> QED
    BY <2>1, <2>2, <2>3
<1>2. onWay = step(onWay)
  <2>1. PICK V : IsWay(V, next, i, n)
    BY SomeWay
  <2> DEFINE f == [j \in DOMAIN q.heap |-> j \in V]
  <2>2. f = step(f)
    <3>1. ASSUME NEW j \in DOMAIN q.heap
          PROVE  (j \in V) = (j = i \/ (j > i /\ f[j \div 2] /\ next[j \div 2] = j))
      <4>1. j > i => j \div 2 \in DOMAIN q.heap
        BY Halves
      <4>2. j > i => (f[j \div 2] <=> j \div 2 \in V)
        BY <4>1
      <4> HIDE DEF f
      <4> QED
        BY <4>2, <2>1 DEF IsWay
    <3>2. f = [j \in DOMAIN q.heap |-> j \in V]
      OBVIOUS
    <3> HIDE DEF f, next
    <3> QED
      BY <3>1, <3>2, Zenon
  <2> QED
    BY <2>2
<1>3. IsWay(W, next, i, n)
  <2>1. ASSUME NEW j \in 1 .. n
        PROVE  j \in W <=> j = i \/ (j > i /\ j \div 2 \in W /\ next[j \div 2] = j)
    <3>1. onWay[j] <=> (j = i \/ (j > i /\ onWay[j \div 2] /\ next[j \div 2] = j))
      <4> HIDE DEF onWay
      <4> QED
        BY <1>2
    <3>2. j > i => j \div 2 \in DOMAIN q.heap
      BY Halves
    <3> HIDE DEF onWay
    <3> QED
      BY <3>1, <3>2
  <2> HIDE DEF onWay
  <2> QED
    BY <2>1 DEF IsWay
<1> QED
  BY <1>1, <1>3

Places(q) == [j \in 1 .. Len(q.heap) |-> At(q, j)]
Heaped(q) == HeapOf(Places(q), Len(q.heap))
HeapedBut(q, i) == HeapBut(Places(q), Len(q.heap), i)

(* A queue's places hold entries. *)
LEMMA PlacesIn ==
  ASSUME NEW E, NEW q, Linked(q, E)
  PROVE  Places(q) \in [1 .. Len(q.heap) -> E]
BY LinkedFacts DEF Places

(* Where the entries stand after handles of the heap have traded places. *)
LEMMA PlacesMoved ==
  ASSUME NEW E, NEW q, Linked(q, E), NEW r, SameEntries(q, r)
  PROVE  /\ Len(r.heap) = Len(q.heap)
         /\ \A j, k \in 1 .. Len(q.heap) : r.heap[j] = q.heap[k] => Places(r)[j] = Places(q)[k]
<1>1. Len(r.heap) = Len(q.heap) /\ r.elements = q.elements
  BY DEF SameEntries
<1> QED
  BY <1>1 DEF Places, At

(* lower repairs a heap in which one entry may be worse than its children. *)
LEMMA LowerKeeps ==
  ASSUME NEW E, Ordered(E), NEW q, Linked(q, E), NEW i \in 1 .. Len(q.heap), HeapedBut(q, i),
         i > 1 => ~Less(At(q, i), At(q, i \div 2))
  PROVE  Linked(Lower(q, i), E) /\ SameEntries(q, Lower(q, i)) /\ Heaped(Lower(q, i))
<1> DEFINE n == Len(q.heap)
           a == Places(q)
           next == WayDown(q, i)
<1>1. n \in Nat /\ DOMAIN q.heap = 1 .. n /\ \A j, k \in 1 .. n : q.heap[j] = q.heap[k] => j = k
  BY LinkedFacts
<1>2. a \in [1 .. n -> E] /\ \A j \in 1 .. n : a[j] = At(q, j)
  BY PlacesIn DEF Places
<1>3. \A j \in 1 .. n : next[j] = RaiseIndex(q, j, At(q, i))
  BY <1>1 DEF WayDown
<1>4. a[i] = At(q, i) /\ a[i] \in E
  BY <1>2
<1>5. ASSUME NEW j \in 1 .. n
      PROVE  /\ next[j] \in {j, 2 * j, 2 * j + 1} /\ next[j] \in 1 .. n
             /\ next[j] # j => Less(a[next[j]], a[i])
             /\ \A c \in {2 * j, 2 * j + 1} \cap 1 .. n :
                  ~Less(a[c], IF next[j] = j THEN a[i] ELSE a[next[j]])
  <2> DEFINE w == RaiseIndex(q, j, a[i])
  <2>1. /\ w \in {j, 2 * j, 2 * j + 1} /\ w \in 1 .. n
        /\ w # j => Less(At(q, w), a[i])
        /\ \A c \in {2 * j, 2 * j + 1} \cap 1 .. n : ~Less(At(q, c), IF w = j THEN a[i] ELSE At(q, w))
    BY <1>4, Best
  <2>2. next[j] = w
    BY <1>3, <1>4
  <2> HIDE DEF w, next, n, a
  <2>3. At(q, w) = a[w] /\ \A c \in 1 .. n : At(q, c) = a[c]
    BY <1>2, <2>1
  <2> QED
    BY <2>1, <2>2, <2>3
<1> HIDE DEF next
<1>6. Leads(next, n) /\ Sinks(a, n, a[i], next)
  BY <1>5 DEF Leads, Sinks
<1>7. PICK W : IsWay(W, next, i, n) /\ Lower(q, i) = Rearrange(q, Sunk(q, i, next, W))
  BY <1>1, LowerIs DEF next
<1> DEFINE to == Sunk(q, i, next, W)
           r == Rearrange(q, to)
<1>8. /\ i \in W
      /\ \A j \in W : j \in 1 .. n /\ j >= i
      /\ \A j \in W : next[j] \in W
      /\ \A j \in W : j # i => j \div 2 \in W /\ next[j \div 2] = j /\ j \div 2 # j
  <2>1. \A j \in W : j \in 1 .. n
    BY <1>7 DEF IsWay
  <2> QED
    BY <1>1, <1>6, <1>7, <2>1, OnTheWay
<1>9. /\ \A j, k \in W : next[j] = j /\ next[k] = k => j = k
      /\ \E e \in W : next[e] = e
  BY <1>1, <1>6, <1>7, OneEnd
<1>10. DOMAIN to = W /\ \A j \in W : to[j] = IF next[j] = j THEN q.heap[i] ELSE q.heap[next[j]]
  BY DEF Sunk
<1>11. \A j \in W : next[j] # j => next[j] \div 2 = j /\ next[j] > j
  <2>1. \A j \in 1 .. n : next[j] # j => next[j] \div 2 = j /\ next[j] > j
    BY <1>1, <1>6, LeadsDown
  <2> QED
    BY <1>8, <2>1
<1>12. \A j \in W : next[j] # j => next[j] # i
  BY <1>8, <1>11
<1> HIDE DEF to
<1>13. \A j, k \in W : to[j] = to[k] => j = k
  <2> SUFFICES ASSUME NEW j \in W, NEW k \in W, to[j] = to[k] PROVE j = k
    OBVIOUS
  <2>1. next[j] \in 1 .. n /\ next[k] \in 1 .. n /\ i \in 1 .. n
    BY <1>8
  <2>2. CASE next[j] = j /\ next[k] = k
    BY <2>2, <1>9
  <2>3. CASE next[j] = j /\ next[k] # k
    BY <1>1, <1>10, <1>12, <2>1, <2>3
  <2>4. CASE next[j] # j /\ next[k] = k
    BY <1>1, <1>10, <1>12, <2>1, <2>4
  <2>5. CASE next[j] # j /\ next[k] # k
    <3>1. next[j] = next[k]
      BY <1>1, <1>10, <2>1, <2>5
    <3> QED
      BY <3>1, <1>11, <2>5
  <2> QED
    BY <2>2, <2>3, <2>4, <2>5
<1>14. \A j \in W : \E k \in W : to[j] = q.heap[k]
  BY <1>8, <1>10
<1>15. ASSUME NEW k \in W PROVE \E j \in W : to[j] = q.heap[k]
  <2>1. CASE k = i
    <3>1. PICK e \in W : next[e] = e
      BY <1>9
    <3> QED
      BY <3>1, <2>1, <1>10
  <2>2. CASE k # i
    <3>1. k \div 2 \in W /\ next[k \div 2] = k /\ k \div 2 # k
      BY <2>2, <1>8
    <3>2. to[k \div 2] = q.heap[k]
      BY <3>1, <1>10
    <3> QED
      BY <3>1, <3>2
  <2> QED
    BY <2>1, <2>2
<1>16. Permutes(q, to)
  BY <1>1, <1>8, <1>10, <1>13, <1>14, <1>15 DEF Permutes
<1>17. Linked(r, E) /\ SameEntries(q, r)
       /\ \A j \in 1 .. n : r.heap[j] = IF j \in W THEN to[j] ELSE q.heap[j]
  BY <1>16, <1>10, <1>1, RearrangeKeeps
<1> DEFINE b == Places(r)
<1> HIDE DEF r
<1>18. Len(r.heap) = n /\ \A j, k \in 1 .. n : r.heap[j] = q.heap[k] => b[j] = a[k]
  BY <1>17, PlacesMoved
<1>19. \A j \in 1 .. n : b[j] = IF j \notin W THEN a[j] ELSE IF next[j] = j THEN a[i] ELSE a[next[j]]
  <2> SUFFICES ASSUME NEW j \in 1 .. n
               PROVE  b[j] = IF j \notin W THEN a[j] ELSE IF next[j] = j THEN a[i] ELSE a[next[j]]
    OBVIOUS
  <2>1. CASE j \notin W
    BY <2>1, <1>17, <1>18
  <2>2. CASE j \in W /\ next[j] = j
    <3>1. r.heap[j] = q.heap[i]
      BY <2>2, <1>10, <1>17
    <3> QED
      BY <3>1, <2>2, <1>18
  <2>3. CASE j \in W /\ next[j] # j
    <3>1. r.heap[j] = q.heap[next[j]] /\ next[j] \in 1 .. n
      BY <2>3, <1>10, <1>17, <1>8
    <3> QED
      BY <3>1, <2>3, <1>18
  <2> QED
    BY <2>1, <2>2, <2>3
<1>20. HeapBut(a, n, i)
  BY DEF HeapedBut
<1>21. i > 1 => ~Less(a[i], a[i \div 2])
  <2>1. i > 1 => i \div 2 \in 1 .. n
    BY <1>1
  <2> QED
    BY <2>1, <1>2
<1> HIDE DEF a, b, n
<1>22. HeapOf(b, n)
  <2>1. i \in 1 .. n
    BY DEF n
  <2> QED
    BY <2>1, <1>1, <1>2, <1>6, <1>7, <1>19, <1>20, <1>21, LowerOrder
<1> QED
  <2>1. Lower(q, i) = r
    BY <1>7 DEF r, to
  <2>2. Heaped(r)
    BY <1>18, <1>22 DEF b, Heaped
  <2> QED
    BY <1>17, <2>1, <2>2

-----------------------------------------------------------------------------
(* raise                                                                   *)
Worse(q, i) == {j \in 1 .. Len(q.heap) : Less(At(q, i), At(q, j))}
Risen(q, i, M) == [j \in M |-> IF j \div 2 \in M THEN q.heap[j \div 2] ELSE q.heap[i]]

(* raise moves handles along a rise. *)
LEMMA RaiseIs ==
  ASSUME NEW q, NEW n \in Nat, DOMAIN q.heap = 1 .. n, Len(q.heap) = n, NEW i \in 1 .. n
  PROVE  \E M : IsRise(M, Worse(q, i), i, n) /\ Raise(q, i) = Rearrange(q, Risen(q, i, M))
<1> DEFINE worse == Worse(q, i)
           step(f) == [j \in DOMAIN q.heap |->
                         \/ j = i
                         \/ /\ j < i
                            /\ Less(At(q, i), At(q, j))
                            /\ \E c \in {2 * j, 2 * j + 1} \cap DOMAIN q.heap : f[c]]
           passed == CHOOSE f : f = step(f)
           M == {j \in DOMAIN q.heap : passed[j]}
<1>1. Raise(q, i) = Rearrange(q, Risen(q, i, M))
  <2> DEFINE val(m) == Rearrange(q, [j \in m |-> IF j \div 2 \in m THEN q.heap[j \div 2] ELSE q.heap[i]])
  <2>1. Raise(q, i) = CHOOSE r \in {val(y) : y \in {M}} : TRUE
    BY DEF Raise, With
  <2>2. val(M) = Rearrange(q, Risen(q, i, M))
    BY DEF Risen
  <2> HIDE DEF val, M
  <2>3. \A x : (CHOOSE r \in {val(y) : y \in {x}} : TRUE) = val(x)
    OBVIOUS
  <2> QED
    BY <2>1, <2>2, <2>3
<1>2. \A j \in 1 .. n : j \in worse <=> Less(At(q, i), At(q, j))
  BY DEF Worse
<1> HIDE DEF worse
<1>3. passed = step(passed)
  <2>1. PICK V : IsRise(V, worse, i, n)
    BY SomeRise
  <2> DEFINE f == [j \in DOMAIN q.heap |-> j \in V]
  <2>2. f = step(f)
    <3>1. ASSUME NEW j \in DOMAIN q.heap
          PROVE  (j \in V) = ( \/ j = i
                               \/ /\ j < i
                                  /\ Less(At(q, i), At(q, j))
                                  /\ \E c \in {2 * j, 2 * j + 1} \cap DOMAIN q.heap : f[c])
      <4>1. \A c \in {2 * j, 2 * j + 1} \cap DOMAIN q.heap : f[c] <=> c \in V
        OBVIOUS
      <4> HIDE DEF f
      <4>2. (\E c \in {2 * j, 2 * j + 1} \cap DOMAIN q.heap : f[c])
            <=> {2 * j, 2 * j + 1} \cap (1 .. n) \cap V # {}
        BY <4>1
      <4>3. j \in V <=> j = i \/ (j < i /\ j \in worse /\ {2 * j, 2 * j + 1} \cap (1 .. n) \cap V # {})
        BY <2>1 DEF IsRise
      <4>4. j \in worse <=> Less(At(q, i), At(q, j))
        BY <1>2
      <4> DEFINE isBelow == \E c \in {2 * j, 2 * j + 1} \cap DOMAIN q.heap : f[c]
                 isMet == {2 * j, 2 * j + 1} \cap (1 .. n) \cap V # {}
      <4>5. (isBelow <=> isMet) /\ (j \in V <=> j = i \/ (j < i /\ j \in worse /\ isMet))
        BY <4>2, <4>3
      <4> HIDE DEF isBelow, isMet
      <4>6. (j \in V) = (j = i \/ (j < i /\ Less(At(q, i), At(q, j)) /\ isBelow))
        <5> DEFINE isWorse == Less(At(q, i), At(q, j))
        <5>1. isWorse <=> j \in worse
          BY <4>4
        <5> HIDE DEF isWorse
        <5>2. (j \in V) = (j = i \/ (j < i /\ isWorse /\ isBelow))
          BY <5>1, <4>5
        <5> QED
          BY <5>2 DEF isWorse
      <4> QED
        BY <4>6 DEF isBelow
    <3>2. f = [j \in DOMAIN q.heap |-> j \in V]
      OBVIOUS
    <3> HIDE DEF f
    <3> QED
      BY <3>1, <3>2, Zenon
  <2> QED
    BY <2>2
<1>4. IsRise(M, worse, i, n)
  <2>1. ASSUME NEW j \in 1 .. n
        PROVE  j \in M <=> j = i \/ (j < i /\ j \in worse /\ {2 * j, 2 * j + 1} \cap (1 .. n) \cap M # {})
    <3>1. passed[j] <=> \/ j = i
                        \/ /\ j < i
                           /\ Less(At(q, i), At(q, j))
                           /\ \E c \in {2 * j, 2 * j + 1} \cap DOMAIN q.heap : passed[c]
      <4> HIDE DEF passed
      <4> QED
        BY <1>3
    <3> HIDE DEF passed
    <3>2. (\E c \in {2 * j, 2 * j + 1} \cap DOMAIN q.heap : passed[c])
          <=> {2 * j, 2 * j + 1} \cap (1 .. n) \cap M # {}
      OBVIOUS
    <3> QED
      BY <3>1, <3>2, <1>2
  <2>2. M \subseteq 1 .. n
    OBVIOUS
  <2> HIDE DEF M
  <2> QED
    BY <2>1, <2>2 DEF IsRise
<1> QED
  BY <1>1, <1>4 DEF worse

(* raise repairs a heap in which one entry may be better than its parent. *)
LEMMA RaiseKeeps ==
  ASSUME NEW E, Ordered(E), NEW q, Linked(q, E), NEW i \in 1 .. Len(q.heap), HeapedBut(q, i),
         \A j \in 2 .. Len(q.heap) : j \div 2 = i => ~Less(At(q, j), At(q, i))
  PROVE  Linked(Raise(q, i), E) /\ SameEntries(q, Raise(q, i)) /\ Heaped(Raise(q, i))
<1> DEFINE n == Len(q.heap)
           a == Places(q)
<1>1. n \in Nat /\ DOMAIN q.heap = 1 .. n /\ \A j, k \in 1 .. n : q.heap[j] = q.heap[k] => j = k
  BY LinkedFacts
<1>2. a \in [1 .. n -> E] /\ \A j \in 1 .. n : a[j] = At(q, j)
  BY PlacesIn DEF Places
<1>3. PICK M : IsRise(M, Worse(q, i), i, n) /\ Raise(q, i) = Rearrange(q, Risen(q, i, M))
  BY <1>1, RaiseIs
<1> DEFINE to == Risen(q, i, M)
           r == Rearrange(q, to)
<1>4. i \in M /\ \A j \in M : j \in 1 .. n /\ j <= i /\ (j # i => \E c \in M : c > j /\ c \div 2 = j)
  <2>1. \A j \in M : j \in 1 .. n
    BY <1>3 DEF IsRise
  <2>2. /\ i \in M
        /\ \A j \in M : j # i => j < i
        /\ \A j \in M : j # i => \E c \in M : c > j /\ c \div 2 = j
    BY <1>1, <1>3, OnTheRise
  <2>3. \A j \in M : j <= i
    BY <2>1, <2>2
  <2> QED
    BY <2>1, <2>2, <2>3
<1>5. /\ \A c, d \in M : c > 1 /\ d > 1 /\ c \div 2 = d \div 2 => c = d
      /\ \A c, d \in M : c \div 2 \notin M /\ d \div 2 \notin M => c = d
      /\ \E c \in M : c \div 2 \notin M
  BY <1>1, <1>3, OneRise
<1>6. DOMAIN to = M /\ \A j \in M : to[j] = IF j \div 2 \in M THEN q.heap[j \div 2] ELSE q.heap[i]
  BY DEF Risen
<1>7. \A j \in M : j \div 2 \in M => j > 1 /\ j \div 2 # i /\ j \div 2 \in 1 .. n
  <2> SUFFICES ASSUME NEW j \in M, j \div 2 \in M PROVE j > 1 /\ j \div 2 # i /\ j \div 2 \in 1 .. n
    OBVIOUS
  <2>1. j \in 1 .. n /\ j <= i /\ j \div 2 \in 1 .. n
    BY <1>4
  <2> QED
    BY <2>1
<1> HIDE DEF to, n
<1>8. \A j, k \in M : to[j] = to[k] => j = k
  <2> SUFFICES ASSUME NEW j \in M, NEW k \in M, to[j] = to[k] PROVE j = k
    OBVIOUS
  <2>1. i \in 1 .. n
    BY <1>4
  <2>2. CASE j \div 2 \notin M /\ k \div 2 \notin M
    BY <2>2, <1>5
  <2>3. CASE j \div 2 \notin M /\ k \div 2 \in M
    <3>1. q.heap[i] = q.heap[k \div 2]
      BY <2>3, <1>6
    <3> QED
      BY <3>1, <1>1, <1>7, <2>1, <2>3
  <2>4. CASE j \div 2 \in M /\ k \div 2 \notin M
    <3>1. q.heap[i] = q.heap[j \div 2]
      BY <2>4, <1>6
    <3> QED
      BY <3>1, <1>1, <1>7, <2>1, <2>4
  <2>5. CASE j \div 2 \in M /\ k \div 2 \in M
    <3>1. q.heap[j \div 2] = q.heap[k \div 2]
      BY <2>5, <1>6
    <3>2. j \div 2 = k \div 2 /\ j > 1 /\ k > 1
      BY <3>1, <1>1, <1>7, <2>5
    <3> QED
      BY <3>2, <1>5
  <2> QED
    BY <2>2, <2>3, <2>4, <2>5
<1>9. \A j \in M : \E k \in M : to[j] = q.heap[k]
  BY <1>4, <1>6
<1>10. ASSUME NEW k \in M PROVE \E j \in M : to[j] = q.heap[k]
  <2>1. CASE k = i
    <3>1. PICK c \in M : c \div 2 \notin M
      BY <1>5
    <3> QED
      BY <3>1, <2>1, <1>6
  <2>2. CASE k # i
    <3>1. PICK c \in M : c > k /\ c \div 2 = k
      BY <2>2, <1>4
    <3> QED
      BY <3>1, <1>6
  <2> QED
    BY <2>1, <2>2
<1>11. Permutes(q, to)
  BY <1>1, <1>4, <1>6, <1>8, <1>9, <1>10 DEF Permutes
<1>12. Linked(r, E) /\ SameEntries(q, r)
       /\ \A j \in 1 .. n : r.heap[j] = IF j \in M THEN to[j] ELSE q.heap[j]
  BY <1>11, <1>6, <1>1, RearrangeKeeps
<1> DEFINE b == Places(r)
<1> HIDE DEF r
<1>13. Len(r.heap) = n /\ \A j, k \in 1 .. n : r.heap[j] = q.heap[k] => b[j] = a[k]
  BY <1>12, PlacesMoved DEF n
<1> HIDE DEF a, b
<1>14. \A j \in 1 .. n : b[j] = IF j \notin M THEN a[j] ELSE IF j \div 2 \in M THEN a[j \div 2] ELSE a[i]
  <2> SUFFICES ASSUME NEW j \in 1 .. n
               PROVE  b[j] = IF j \notin M THEN a[j] ELSE IF j \div 2 \in M THEN a[j \div 2] ELSE a[i]
    OBVIOUS
  <2>1. CASE j \notin M
    BY <2>1, <1>12, <1>13
  <2>2. CASE j \in M /\ j \div 2 \notin M
    <3>1. r.heap[j] = q.heap[i] /\ i \in 1 .. n
      BY <2>2, <1>6, <1>12, <1>4
    <3> QED
      BY <3>1, <2>2, <1>13
  <2>3. CASE j \in M /\ j \div 2 \in M
    <3>1. r.heap[j] = q.heap[j \div 2] /\ j \div 2 \in 1 .. n
      BY <2>3, <1>6, <1>12, <1>7
    <3> QED
      BY <3>1, <2>3, <1>13
  <2> QED
    BY <2>1, <2>2, <2>3
<1>15. HeapBut(a, n, i)
  BY DEF HeapedBut, a, n
<1>16. i \in 1 .. n
  BY DEF n
<1>17. \A j \in 2 .. n : j \div 2 = i => ~Less(a[j], a[i])
  <2>1. \A j \in 2 .. n : j \in 1 .. n
    BY <1>1
  <2>2. \A j \in 2 .. n : j \div 2 = i => ~Less(At(q, j), At(q, i))
    BY DEF n
  <2> QED
    BY <2>1, <2>2, <1>2, <1>16
<1>18. Worse(q, i) = {j \in 1 .. n : Less(a[i], a[j])}
  BY <1>2, <1>16 DEF Worse, n
<1>19. HeapOf(b, n)
  <2>1. IsRise(M, {j \in 1 .. n : Less(a[i], a[j])}, i, n)
    BY <1>3, <1>18
  <2> QED
    BY <2>1, <1>1, <1>2, <1>14, <1>15, <1>16, <1>17, RaiseOrder
<1>20. Raise(q, i) = r
  BY <1>3 DEF r, to
<1>21. Heaped(r)
  BY <1>13, <1>19 DEF b, Heaped
<1> QED
  BY <1>12, <1>20, <1>21

-----------------------------------------------------------------------------
(* The operations: what they keep of a queue, a heap that is linked.       *)
Queue(q, E) == Linked(q, E) /\ Heaped(q)

(* update(index) repairs a heap in which one entry changed, either way. *)
LEMMA MoveKeeps ==
  ASSUME NEW E, Ordered(E), NEW q, Linked(q, E), NEW i \in 1 .. Len(q.heap), HeapedBut(q, i)
  PROVE  Queue(Move(q, i), E) /\ SameEntries(q, Move(q, i))
<1> DEFINE n == Len(q.heap)
           v == At(q, i)
           r == RaiseIndex(q, i, v)
<1>1. n \in Nat /\ \A j \in 1 .. n : At(q, j) \in E
  BY LinkedFacts
<1>2. v \in E
  BY <1>1
<1>3. /\ r \in {i, 2 * i, 2 * i + 1} /\ r \in 1 .. n
      /\ r # i => Less(At(q, r), v)
      /\ \A c \in {2 * i, 2 * i + 1} \cap 1 .. n : ~Less(At(q, c), IF r = i THEN v ELSE At(q, r))
  BY <1>2, Best
<1> HIDE DEF r
<1>4. CASE r # i
  <2>1. r \in 2 .. n /\ r \div 2 = i
    BY <1>3, <1>4, <1>1, Children
  <2>2. ASSUME i > 1 PROVE ~Less(v, At(q, i \div 2))
    <3>1. Places(q)[r] = At(q, r) /\ i \div 2 \in 1 .. n /\ Places(q)[i \div 2] = At(q, i \div 2)
      BY <1>1, <1>3, <2>2 DEF Places
    <3>2. ~Less(Places(q)[r], Places(q)[i \div 2])
      BY <2>1, <2>2 DEF HeapedBut, HeapBut
    <3>3. ~Less(At(q, r), At(q, i \div 2)) /\ Less(At(q, r), v)
      BY <3>1, <3>2, <1>3, <1>4
    <3>4. At(q, r) \in E /\ At(q, i \div 2) \in E
      BY <1>1, <1>3, <3>1
    <3> HIDE DEF v
    <3> QED
      BY <3>3, <3>4, <1>2 DEF Ordered
  <2>3. Move(q, i) = Lower(q, i)
    BY <1>4 DEF Move, r
  <2> QED
    BY <2>2, <2>3, LowerKeeps DEF Queue
<1>5. CASE r = i
  <2>1. Move(q, i) = Raise(q, i)
    BY <1>5 DEF Move, r
  <2>2. \A j \in 2 .. n : j \div 2 = i => j \in {2 * i, 2 * i + 1} \cap 1 .. n
    BY Halves
  <2>3. \A j \in 2 .. n : j \div 2 = i => ~Less(At(q, j), At(q, i))
    BY <2>2, <1>3, <1>5
  <2> QED
    BY <2>1, <2>3, RaiseKeeps DEF Queue
<1> QED
  BY <1>4, <1>5

(* A sequence without its last element. *)
LEMMA FrontIs ==
  ASSUME NEW S, NEW s \in Seq(S), s # <<>>
  PROVE  /\ Front(s) \in Seq(S)
         /\ DOMAIN Front(s) = 1 .. Len(s) - 1 /\ Len(Front(s)) = Len(s) - 1
         /\ \A i \in 1 .. Len(s) - 1 : Front(s)[i] = s[i]
<1> DEFINE m == Len(s)
           f == SubSeq(s, 1, m - 1)
<1>1. m \in Nat /\ m >= 1 /\ \A i \in 1 .. m : s[i] \in S
  OBVIOUS
<1> HIDE DEF m
<1>2. m - 1 \in Int /\ 1 \in Int /\ (m - 1) - 1 + 1 = m - 1 /\ m - 1 \in Nat
  BY <1>1
<1>3. \A i \in 1 .. m - 1 : s[i] \in S
  BY <1>1
<1>4. /\ f \in Seq(S)
      /\ Len(f) = IF 1 <= m - 1 THEN (m - 1) - 1 + 1 ELSE 0
      /\ \A i \in 1 .. (m - 1) - 1 + 1 : f[i] = s[1 + i - 1]
  BY <1>2, <1>3, SubSeqProperties
<1>5. Front(s) = f
  BY DEF Front, m
<1> HIDE DEF f
<1>6. Len(f) = m - 1
  BY <1>2, <1>4
<1>7. \A i \in 1 .. m - 1 : f[i] = s[i]
  <2>1. \A i \in 1 .. m - 1 : 1 + i - 1 = i
    BY <1>2
  <2> QED
    BY <1>2, <1>4, <2>1
<1> QED
  BY <1>4, <1>5, <1>6, <1>7 DEF m

Fields(q, a, b, c, d) == q = [elements |-> a, heap |-> b, index |-> c, invalid |-> d]

WithFields(q, el, hp, ix, iv) ==
  [q EXCEPT !.elements = el, !.invalid = iv, !.index = ix, !.heap = hp]

(* The fields of a queue after all are set. *)
LEMMA FieldsSet ==
  ASSUME NEW q, NEW a, NEW b, NEW c, NEW d, NEW el, NEW hp, NEW ix, NEW iv,
         Fields(q, a, b, c, d)
  PROVE  WithFields(q, el, hp, ix, iv)
         = [elements |-> el, heap |-> hp, index |-> ix, invalid |-> iv]
<1> DEFINE r == [q EXCEPT !.elements = el, !.invalid = iv, !.index = ix, !.heap = hp]
<1>0. q = [elements |-> a, heap |-> b, index |-> c, invalid |-> d]
      /\ DOMAIN q = {"elements", "heap", "index", "invalid"}
  BY DEF Fields
<1>1. r = [x \in {"elements", "heap", "index", "invalid"} |->
             IF x = "elements" THEN el ELSE IF x = "heap" THEN hp ELSE IF x = "index" THEN ix ELSE iv]
  BY <1>0
<1>2. [elements |-> el, heap |-> hp, index |-> ix, invalid |-> iv]
      = [x \in {"elements", "heap", "index", "invalid"} |->
             IF x = "elements" THEN el ELSE IF x = "heap" THEN hp ELSE IF x = "index" THEN ix ELSE iv]
  OBVIOUS
<1>3. r = WithFields(q, el, hp, ix, iv)
  BY Zenon DEF WithFields
<1> HIDE DEF r
<1> QED
  BY <1>1, <1>2, <1>3, Zenon

(* push adds an entry, under a handle of its own. *)
THEOREM PushKeeps ==
  ASSUME NEW E, Ordered(E), NEW q, Queue(q, E), NEW e \in E
  PROVE  LET r == Push(q, e)
             h == FreeHandle(q)
         IN /\ Queue(r, E)
            /\ h \notin ToSet(q.heap)
            /\ ToSet(r.heap) = ToSet(q.heap) \cup {h}
            /\ r.elements[h] = e
            /\ \A g \in ToSet(q.heap) : r.elements[g] = q.elements[g]
<1> DEFINE n == Len(q.heap)
           h == FreeHandle(q)
           el == IF q.invalid = <<>> THEN Append(q.elements, e) ELSE [q.elements EXCEPT ![h] = e]
           iv == IF q.invalid = <<>> THEN q.invalid ELSE Front(q.invalid)
           ix == IF q.invalid = <<>> THEN Append(q.index, n + 1) ELSE [q.index EXCEPT ![h] = n + 1]
           hp == Append(q.heap, h)
           longer == [elements |-> el, heap |-> hp, index |-> ix, invalid |-> iv]
<1>1. q.heap \in Seq(Nat) /\ q.index \in Seq(Nat) /\ q.elements \in Seq(E) /\ q.invalid \in Seq(Nat)
      /\ q = [elements |-> q.elements, heap |-> q.heap, index |-> q.index, invalid |-> q.invalid]
  BY DEF Queue, Linked
<1>2. n \in Nat /\ DOMAIN q.heap = 1 .. n /\ Len(q.elements) \in Nat
      /\ DOMAIN q.elements = 1 .. Len(q.elements) /\ Len(q.index) = Len(q.elements)
      /\ DOMAIN q.index = 1 .. Len(q.elements)
      /\ \A j, k \in 1 .. n : q.heap[j] = q.heap[k] => j = k
  BY <1>1, LinkedFacts DEF Queue, Linked
<1>3. Push(q, e) = Move(longer, n + 1)
  <2> DEFINE val(r) == Move(r, n + 1)
             long == [q EXCEPT !.elements = el, !.invalid = iv, !.index = ix, !.heap = hp]
  <2>1. Push(q, e) = CHOOSE r \in {val(y) : y \in {long}} : TRUE
    BY DEF Push, With
  <2>2. long = longer
    <3> HIDE DEF el, iv, ix, hp
    <3>1. Fields(q, q.elements, q.heap, q.index, q.invalid)
      BY <1>1 DEF Fields
    <3>2. WithFields(q, el, hp, ix, iv) = longer
      BY <3>1, FieldsSet
    <3>3. WithFields(q, el, hp, ix, iv) = long
      BY Zenon DEF WithFields
    <3> HIDE DEF long, longer
    <3> QED
      BY <3>2, <3>3
  <2> HIDE DEF val, long
  <2>3. \A x : (CHOOSE r \in {val(y) : y \in {x}} : TRUE) = val(x)
    OBVIOUS
  <2> QED
    BY <2>1, <2>2, <2>3 DEF val
<1>4. /\ \A i \in 1 .. n : q.heap[i] \in DOMAIN q.elements /\ q.index[q.heap[i]] = i
      /\ \A i \in DOMAIN q.invalid : q.invalid[i] \in DOMAIN q.elements
      /\ \A i \in 1 .. n, j \in DOMAIN q.invalid : q.heap[i] # q.invalid[j]
      /\ \A g \in DOMAIN q.elements :
           (\E i \in 1 .. n : q.heap[i] = g) \/ (\E i \in DOMAIN q.invalid : q.invalid[i] = g)
      /\ \A i, j \in DOMAIN q.invalid : q.invalid[i] = q.invalid[j] => i = j
  BY <1>2 DEF Queue, Linked
<1>5. /\ h \in Nat
      /\ el \in Seq(E) /\ ix \in Seq(Nat) /\ iv \in Seq(Nat)
      /\ Len(ix) = Len(el)
      /\ DOMAIN el = DOMAIN q.elements \cup {h}
      /\ el[h] = e /\ ix[h] = n + 1
      /\ \A g \in DOMAIN q.elements : g # h => el[g] = q.elements[g] /\ ix[g] = q.index[g]
      /\ \A i \in 1 .. n : q.heap[i] # h
      /\ \A i \in DOMAIN iv : i \in DOMAIN q.invalid /\ iv[i] = q.invalid[i] /\ iv[i] # h
      /\ \A i \in DOMAIN q.invalid : q.invalid[i] # h => i \in DOMAIN iv
  <2>1. CASE q.invalid = <<>>
    <3>1. h = Len(q.elements) + 1 /\ el = Append(q.elements, e) /\ iv = <<>> /\ ix = Append(q.index, n + 1)
      BY <2>1 DEF FreeHandle
    <3> HIDE DEF h, el, iv, ix
    <3>2. h \in Nat /\ el \in Seq(E) /\ ix \in Seq(Nat) /\ iv \in Seq(Nat)
          /\ Len(el) = Len(q.elements) + 1 /\ Len(ix) = Len(q.elements) + 1
      BY <3>1, <1>1, <1>2
    <3>3. DOMAIN el = 1 .. Len(q.elements) + 1
      BY <3>1, <1>1, <1>2
    <3>4. DOMAIN iv = {} /\ DOMAIN q.invalid = {}
      BY <2>1, <3>1
    <3>5. DOMAIN el = DOMAIN q.elements \cup {h}
      BY <3>1, <3>3, <1>2
    <3>6. el[h] = e /\ ix[h] = n + 1
      BY <3>1, <1>1, <1>2
    <3>7. \A g \in DOMAIN q.elements : g # h => el[g] = q.elements[g] /\ ix[g] = q.index[g]
      BY <3>1, <1>1, <1>2
    <3>8. \A i \in 1 .. n : q.heap[i] # h
      BY <3>1, <1>2, <1>4
    <3> QED
      BY <3>2, <3>4, <3>5, <3>6, <3>7, <3>8
  <2>2. CASE q.invalid # <<>>
    <3> DEFINE m == Len(q.invalid)
    <3>1. h = q.invalid[m] /\ el = [q.elements EXCEPT ![h] = e] /\ iv = Front(q.invalid)
          /\ ix = [q.index EXCEPT ![h] = n + 1]
      BY <2>2 DEF FreeHandle, Last
    <3> HIDE DEF h, el, iv, ix
    <3>2. m \in Nat /\ m >= 1 /\ DOMAIN q.invalid = 1 .. m
      BY <1>1, <2>2
    <3>3. h \in DOMAIN q.elements /\ h \in Nat
      BY <3>1, <3>2, <1>2, <1>4
    <3>4. el \in [1 .. Len(q.elements) -> E] /\ ix \in [1 .. Len(q.elements) -> Nat]
      BY <3>1, <3>3, <1>1, <1>2
    <3>5. el \in Seq(E) /\ ix \in Seq(Nat) /\ Len(el) = Len(q.elements) /\ Len(ix) = Len(q.elements)
      BY <3>4, <1>2
    <3>6. DOMAIN el = DOMAIN q.elements \cup {h} /\ el[h] = e /\ ix[h] = n + 1
          /\ \A g \in DOMAIN q.elements : g # h => el[g] = q.elements[g] /\ ix[g] = q.index[g]
      BY <3>1, <3>3, <1>2
    <3>7. \A i \in 1 .. n : q.heap[i] # h
      BY <3>1, <3>2, <1>4
    <3>8. iv \in Seq(Nat) /\ DOMAIN iv = 1 .. m - 1 /\ \A i \in 1 .. m - 1 : iv[i] = q.invalid[i]
      <4>1. q.invalid \in Seq(Nat) /\ q.invalid # <<>>
        BY <1>1, <2>2
      <4>2. /\ Front(q.invalid) \in Seq(Nat)
            /\ DOMAIN Front(q.invalid) = 1 .. m - 1
            /\ \A i \in 1 .. m - 1 : Front(q.invalid)[i] = q.invalid[i]
        BY <4>1, FrontIs
      <4> QED
        BY <4>2, <3>1, Zenon
    <3>9. \A i \in DOMAIN iv : i \in DOMAIN q.invalid /\ iv[i] = q.invalid[i] /\ iv[i] # h
      <4> TAKE i \in DOMAIN iv
      <4>1. i \in 1 .. m /\ m \in 1 .. m /\ i # m /\ iv[i] = q.invalid[i]
        BY <3>2, <3>8
      <4>2. q.invalid[i] # q.invalid[m]
        BY <4>1, <3>2, <1>4
      <4> QED
        BY <4>1, <4>2, <3>1, <3>2
    <3>10. \A i \in DOMAIN q.invalid : q.invalid[i] # h => i \in DOMAIN iv
      BY <3>1, <3>2, <3>8
    <3> QED
      BY <3>3, <3>5, <3>6, <3>7, <3>8, <3>9, <3>10
  <2> QED
    BY <2>1, <2>2
<1> HIDE DEF el, ix, iv, h
<1>6. hp \in Seq(Nat) /\ Len(hp) = n + 1 /\ DOMAIN hp = 1 .. n + 1 /\ hp[n + 1] = h
      /\ \A i \in 1 .. n : hp[i] = q.heap[i]
  BY <1>1, <1>2, <1>5
<1>7. \A i \in 1 .. n + 1 : i \in 1 .. n \/ i = n + 1
  BY <1>2
<1> HIDE DEF hp
<1>8. /\ longer.elements = el /\ longer.heap = hp /\ longer.index = ix /\ longer.invalid = iv
      /\ longer \in [elements : Seq(E), heap : Seq(Nat), index : Seq(Nat), invalid : Seq(Nat)]
  BY <1>5, <1>6
<1> HIDE DEF longer
<1>9. Linked(longer, E)
  <2>1. \A i \in 1 .. n + 1 : hp[i] \in DOMAIN el /\ ix[hp[i]] = i
    <3> TAKE i \in 1 .. n + 1
    <3>1. CASE i \in 1 .. n
      <4>1. hp[i] = q.heap[i] /\ q.heap[i] \in DOMAIN q.elements /\ q.heap[i] # h /\ q.index[q.heap[i]] = i
        BY <3>1, <1>4, <1>5, <1>6
      <4> QED
        BY <4>1, <1>5
    <3>2. CASE i = n + 1
      BY <3>2, <1>5, <1>6
    <3> QED
      BY <3>1, <3>2, <1>7
  <2>2. \A i \in DOMAIN iv : iv[i] \in DOMAIN el
    BY <1>4, <1>5
  <2>3. \A i \in 1 .. n + 1, j \in DOMAIN iv : hp[i] # iv[j]
    <3> TAKE i \in 1 .. n + 1, j \in DOMAIN iv
    <3>0. j \in DOMAIN q.invalid /\ iv[j] = q.invalid[j] /\ iv[j] # h
      BY <1>5
    <3>1. CASE i \in 1 .. n
      <4>1. hp[i] = q.heap[i] /\ q.heap[i] # q.invalid[j]
        BY <3>0, <3>1, <1>4, <1>6
      <4> QED
        BY <4>1, <3>0
    <3>2. CASE i = n + 1
      BY <3>0, <3>2, <1>6
    <3> QED
      BY <3>1, <3>2, <1>7
  <2>4. ASSUME NEW g \in DOMAIN el
        PROVE  (\E i \in 1 .. n + 1 : hp[i] = g) \/ (\E i \in DOMAIN iv : iv[i] = g)
    <3>1. CASE g = h
      <4>1. n + 1 \in 1 .. n + 1
        BY <1>2
      <4> QED
        BY <3>1, <4>1, <1>6
    <3>2. CASE g # h
      <4>1. g \in DOMAIN q.elements
        BY <3>2, <1>5
      <4>2. CASE \E i \in 1 .. n : q.heap[i] = g
        <5>1. PICK i \in 1 .. n : q.heap[i] = g
          BY <4>2
        <5>2. i \in 1 .. n + 1 /\ hp[i] = g
          BY <5>1, <1>2, <1>6
        <5> QED
          BY <5>2
      <4>3. CASE \E i \in DOMAIN q.invalid : q.invalid[i] = g
        BY <4>3, <3>2, <1>5
      <4> QED
        BY <4>1, <4>2, <4>3, <1>4
    <3> QED
      BY <3>1, <3>2
  <2>5. \A i, j \in DOMAIN iv : iv[i] = iv[j] => i = j
    BY <1>4, <1>5
  <2> DEFINE d == longer
  <2>6. d.elements = el /\ d.heap = hp /\ d.index = ix /\ d.invalid = iv /\ DOMAIN hp = 1 .. n + 1
        /\ d \in [elements : Seq(E), heap : Seq(Nat), index : Seq(Nat), invalid : Seq(Nat)]
    BY <1>6, <1>8
  <2> HIDE DEF d
  <2>7. Len(d.index) = Len(d.elements)
    BY <1>5, <2>6
  <2>8. \A i \in DOMAIN d.heap : d.heap[i] \in DOMAIN d.elements /\ d.index[d.heap[i]] = i
    BY <2>1, <2>6
  <2>9. \A i \in DOMAIN d.heap, j \in DOMAIN d.invalid : d.heap[i] # d.invalid[j]
    BY <2>3, <2>6
  <2>10. \A g \in DOMAIN d.elements :
           (\E i \in DOMAIN d.heap : d.heap[i] = g) \/ (\E i \in DOMAIN d.invalid : d.invalid[i] = g)
    BY <2>4, <2>6
  <2>11. \A i \in DOMAIN d.invalid : d.invalid[i] \in DOMAIN d.elements
    BY <2>2, <2>6
  <2>12. \A i, j \in DOMAIN d.invalid : d.invalid[i] = d.invalid[j] => i = j
    BY <2>5, <2>6
  <2>13. Linked(d, E)
    BY <2>6, <2>7, <2>8, <2>9, <2>10, <2>11, <2>12 DEF Linked
  <2> QED
    BY <2>13 DEF d
<1>10. \A j \in 1 .. n : Places(longer)[j] = Places(q)[j]
  <2> TAKE j \in 1 .. n
  <2>1. Places(q)[j] = q.elements[q.heap[j]]
    BY DEF Places, At
  <2>2. j \in 1 .. Len(longer.heap)
    BY <1>2, <1>6, <1>8
  <2>3. Places(longer)[j] = el[hp[j]]
    BY <2>2, <1>8 DEF Places, At
  <2>4. hp[j] = q.heap[j] /\ q.heap[j] \in DOMAIN q.elements /\ q.heap[j] # h
    BY <1>4, <1>5, <1>6
  <2> QED
    BY <2>1, <2>3, <2>4, <1>5
<1>11. HeapedBut(longer, n + 1)
  <2> DEFINE b == Places(longer)
  <2>1. ASSUME NEW j \in 2 .. n + 1
        PROVE  (j # n + 1 /\ j \div 2 # n + 1 => ~Less(b[j], b[j \div 2])) /\ j \div 2 # n + 1
    <3>1. j \div 2 \in 1 .. n /\ (j # n + 1 => j \in 2 .. n /\ j \in 1 .. n)
      BY <1>2
    <3>2. j # n + 1 => ~Less(Places(q)[j], Places(q)[j \div 2])
      BY <3>1 DEF Queue, Heaped, HeapOf
    <3> HIDE DEF b
    <3>3. \A k \in 1 .. n : b[k] = Places(q)[k]
      BY <1>10 DEF b
    <3> QED
      BY <3>1, <3>2, <3>3, <1>2
  <2> QED
    BY <2>1, <1>6, <1>8 DEF HeapedBut, HeapBut
<1>12. Queue(Move(longer, n + 1), E) /\ SameEntries(longer, Move(longer, n + 1))
  <2>1. n + 1 \in 1 .. Len(longer.heap)
    BY <1>2, <1>6, <1>8
  <2> QED
    BY <2>1, <1>9, <1>11, MoveKeeps
<1>13. ToSet(hp) = ToSet(q.heap) \cup {h} /\ h \notin ToSet(q.heap)
  <2>1. ToSet(hp) = {hp[i] : i \in 1 .. n + 1} /\ ToSet(q.heap) = {q.heap[i] : i \in 1 .. n}
    BY <1>2, <1>6 DEF ToSet
  <2>2. \A i \in 1 .. n : i \in 1 .. n + 1
    BY <1>2
  <2>3. n + 1 \in 1 .. n + 1
    BY <1>2
  <2>4. h \notin ToSet(q.heap)
    BY <2>1, <1>5
  <2>5. ToSet(hp) \subseteq ToSet(q.heap) \cup {h}
    BY <2>1, <1>6, <1>7
  <2>6. ToSet(q.heap) \cup {h} \subseteq ToSet(hp)
    BY <2>1, <2>2, <2>3, <1>6
  <2> QED
    BY <2>4, <2>5, <2>6
<1>14. \A g \in ToSet(q.heap) : g \in DOMAIN q.elements /\ g # h
  BY <1>2, <1>4, <1>13 DEF ToSet
<1>15. Move(longer, n + 1).elements = el /\ ToSet(Move(longer, n + 1).heap) = ToSet(hp)
  BY <1>8, <1>12 DEF SameEntries
<1> QED
  BY <1>3, <1>5, <1>12, <1>13, <1>14, <1>15 DEF h

(* update overwrites what a handle of the heap stands for. *)
THEOREM UpdateKeeps ==
  ASSUME NEW E, Ordered(E), NEW q, Queue(q, E), NEW h \in ToSet(q.heap), NEW e \in E
  PROVE  LET r == Update(q, h, e)
         IN /\ Queue(r, E)
            /\ ToSet(r.heap) = ToSet(q.heap)
            /\ r.elements = [q.elements EXCEPT ![h] = e]
<1> DEFINE n == Len(q.heap)
           i == q.index[h]
           el == [q.elements EXCEPT ![h] = e]
           new == [q EXCEPT !.elements[h] = e]
<1>1. q.heap \in Seq(Nat) /\ q.index \in Seq(Nat) /\ q.elements \in Seq(E) /\ q.invalid \in Seq(Nat)
      /\ q \in [elements : Seq(E), heap : Seq(Nat), index : Seq(Nat), invalid : Seq(Nat)]
  BY DEF Queue, Linked
<1>2. n \in Nat /\ DOMAIN q.heap = 1 .. n /\ DOMAIN q.elements = 1 .. Len(q.elements)
      /\ Len(q.elements) \in Nat /\ \A j, k \in 1 .. n : q.heap[j] = q.heap[k] => j = k
  BY <1>1, LinkedFacts DEF Queue
<1>3. PICK p \in 1 .. n : q.heap[p] = h
  BY <1>2 DEF ToSet
<1>4. i \in 1 .. n /\ q.heap[i] = h /\ h \in DOMAIN q.elements
  BY <1>2, <1>3 DEF Queue, Linked
<1>5. el \in Seq(E) /\ Len(el) = Len(q.elements) /\ DOMAIN el = DOMAIN q.elements
      /\ el[h] = e /\ \A g \in DOMAIN q.elements : g # h => el[g] = q.elements[g]
  <2>1. el \in [1 .. Len(q.elements) -> E]
    BY <1>1, <1>2, <1>4
  <2>2. el[h] = e /\ \A g \in DOMAIN q.elements : g # h => el[g] = q.elements[g]
    BY <1>4
  <2> HIDE DEF el
  <2> QED
    BY <1>2, <2>1, <2>2
<1>6. new = [q EXCEPT !.elements = el]
  <2> HIDE DEF i
  <2> QED
    BY <1>1
<1>7. new.elements = el /\ new.heap = q.heap /\ new.index = q.index /\ new.invalid = q.invalid
      /\ new \in [elements : Seq(E), heap : Seq(Nat), index : Seq(Nat), invalid : Seq(Nat)]
  <2> HIDE DEF el, new, i
  <2> QED
    BY <1>1, <1>5, <1>6
<1>8. Update(q, h, e) = Move(new, i)
  <2> DEFINE val(r) == Move(r, r.index[h])
  <2>1. Update(q, h, e) = CHOOSE r \in {val(y) : y \in {new}} : TRUE
    BY DEF Update, With
  <2> HIDE DEF val, new
  <2>2. \A x : (CHOOSE r \in {val(y) : y \in {x}} : TRUE) = val(x)
    OBVIOUS
  <2> QED
    BY <2>1, <2>2, <1>7 DEF val
<1> HIDE DEF new, el
<1>9. Linked(new, E)
  <2>1. Linked(q, E)
    BY DEF Queue
  <2> QED
    BY <2>1, <1>5, <1>7 DEF Linked
<1>10. \A j \in 1 .. n : Places(new)[j] = IF j = i THEN e ELSE Places(q)[j]
  <2> TAKE j \in 1 .. n
  <2>1. Places(q)[j] = q.elements[q.heap[j]] /\ Places(new)[j] = el[q.heap[j]]
    BY <1>7 DEF Places, At
  <2>2. q.heap[j] \in DOMAIN q.elements
    BY LinkedFacts DEF Queue
  <2> HIDE DEF i
  <2> QED
    BY <2>1, <2>2, <1>2, <1>4, <1>5
<1>11. HeapedBut(new, i)
  <2> DEFINE a == Places(q)
             b == Places(new)
  <2>1. ASSUME NEW j \in 2 .. n
        PROVE  /\ j # i /\ j \div 2 # i => ~Less(b[j], b[j \div 2])
               /\ j \div 2 = i /\ i > 1 => ~Less(b[j], b[i \div 2])
    <3>1. j \in 1 .. n /\ j \div 2 \in 1 .. n /\ j \div 2 < j
      BY <1>2
    <3>2. ~Less(a[j], a[j \div 2])
      BY DEF Queue, Heaped, HeapOf
    <3>3. \A k \in 1 .. n : a[k] \in E
      BY PlacesIn DEF Queue
    <3>4. ASSUME j \div 2 = i, i > 1 PROVE ~Less(b[j], b[i \div 2])
      <4>1. i \in 2 .. n /\ i \div 2 \in 1 .. n /\ i \div 2 # i /\ j # i
        BY <1>2, <1>4, <3>1, <3>4
      <4>2. ~Less(a[i], a[i \div 2])
        BY <4>1 DEF Queue, Heaped, HeapOf
      <4>3. b[j] = a[j] /\ b[i \div 2] = a[i \div 2]
        BY <4>1, <3>1, <1>10
      <4> HIDE DEF a, b, i
      <4> QED
        BY <4>1, <4>2, <4>3, <3>1, <3>2, <3>3, <3>4 DEF Ordered
    <3> HIDE DEF a, b, i
    <3>5. j # i /\ j \div 2 # i => ~Less(b[j], b[j \div 2])
      BY <1>10, <3>1, <3>2 DEF a, b
    <3> QED
      BY <3>4, <3>5
  <2> HIDE DEF a, b, i
  <2> QED
    BY <2>1, <1>7 DEF HeapedBut, HeapBut, a, b
<1>12. Queue(Move(new, i), E) /\ SameEntries(new, Move(new, i))
  BY <1>4, <1>7, <1>9, <1>11, MoveKeeps
<1> QED
  BY <1>7, <1>8, <1>12 DEF SameEntries, el

(* No entry comes before the top. *)
THEOREM TopLeast ==
  ASSUME NEW E, Ordered(E), NEW q, Queue(q, E)
  PROVE  \A j \in 1 .. Len(q.heap) : ~Less(At(q, j), Top(q))
<1> DEFINE n == Len(q.heap)
           a == Places(q)
           Bad == {j \in 1 .. n : Less(a[j], a[1])}
<1>1. n \in Nat /\ a \in [1 .. n -> E] /\ \A j \in 1 .. n : a[j] = At(q, j)
  BY LinkedFacts, PlacesIn DEF Places, Queue
<1>2. HeapOf(a, n)
  BY DEF Queue, Heaped
<1> HIDE DEF n, a
<1>3. ASSUME Bad # {} PROVE FALSE
  <2>1. Bad \in SUBSET Nat
    BY <1>1
  <2>2. PICK j \in Bad : \A k \in Bad : j <= k
    <3> HIDE DEF Bad
    <3> QED
      BY <1>3, <2>1, LeastOf
  <2>3. j \in 1 .. n /\ 1 \in 1 .. n /\ a[j] \in E /\ a[1] \in E /\ Less(a[j], a[1])
    BY <1>1
  <2>4. j # 1
    BY <2>3 DEF Ordered
  <2>5. j \in 2 .. n /\ j \div 2 \in 1 .. n /\ j \div 2 < j
    BY <2>3, <2>4, <1>1
  <2>6. ~Less(a[j], a[j \div 2]) /\ a[j \div 2] \in E
    BY <2>5, <1>1, <1>2 DEF HeapOf
  <2>7. Less(a[j \div 2], a[1])
    BY <2>3, <2>6 DEF Ordered
  <2>8. j \div 2 \in Bad
    BY <2>5, <2>7
  <2> HIDE DEF Bad
  <2>9. j <= j \div 2
    BY <2>2, <2>8
  <2> QED
    BY <2>5, <2>9
<1> SUFFICES ASSUME NEW j \in 1 .. n PROVE ~Less(At(q, j), Top(q))
  BY DEF n
<1>4. ~Less(a[j], a[1]) /\ 1 \in 1 .. n
  BY <1>1, <1>3
<1> QED
  BY <1>1, <1>4 DEF Top

(* The top is exchanged with the last entry, and its handle becomes free. *)
LEMMA ExchangeKeeps ==
  ASSUME NEW E, Ordered(E), NEW q, Queue(q, E), q.heap # <<>>
  PROVE  LET r == Exchanged(q)
         IN /\ Linked(r, E)
            /\ Len(r.heap) = Len(q.heap) - 1
            /\ HeapedBut(r, 1)
            /\ ToSet(r.heap) = ToSet(q.heap) \ {q.heap[1]}
            /\ r.elements = q.elements
<1> DEFINE n == Len(q.heap)
           to == [j \in {1, n} |-> q.heap[n + 1 - j]]
           s == Rearrange(q, to)
           hp == Front(s.heap)
           iv == Append(q.invalid, q.heap[1])
           r == Exchanged(q)
<1>1. n \in Nat /\ DOMAIN q.heap = 1 .. n /\ \A j, k \in 1 .. n : q.heap[j] = q.heap[k] => j = k
  BY LinkedFacts DEF Queue
<1>2. q.heap \in Seq(Nat) /\ q.index \in Seq(Nat) /\ q.elements \in Seq(E) /\ q.invalid \in Seq(Nat)
  BY DEF Queue, Linked
<1>3. n >= 1 /\ 1 \in 1 .. n /\ n \in 1 .. n /\ n + 1 - 1 = n /\ n + 1 - n = 1
  BY <1>1, <1>2
<1> HIDE DEF n
<1>4. DOMAIN to = {1, n} /\ to[1] = q.heap[n] /\ to[n] = q.heap[1]
  BY <1>3
<1>5. Permutes(q, to)
  <2> HIDE DEF to
  <2>1. \A j, k \in DOMAIN to : to[j] = to[k] => j = k
    BY <1>1, <1>3, <1>4
  <2>2. \A j \in DOMAIN to : \E k \in DOMAIN to : to[j] = q.heap[k]
    BY <1>4
  <2>3. \A k \in DOMAIN to : \E j \in DOMAIN to : to[j] = q.heap[k]
    BY <1>4
  <2> QED
    BY <1>1, <1>3, <1>4, <2>1, <2>2, <2>3 DEF Permutes
<1>6. /\ Linked(s, E) /\ SameEntries(q, s)
      /\ \A j \in 1 .. n : s.heap[j] = IF j \in DOMAIN to THEN to[j] ELSE q.heap[j]
  <2> HIDE DEF to
  <2>1. Linked(q, E)
    BY DEF Queue
  <2>2. /\ Linked(s, E) /\ SameEntries(q, s)
        /\ \A j \in DOMAIN q.heap : s.heap[j] = IF j \in DOMAIN to THEN to[j] ELSE q.heap[j]
    BY <2>1, <1>5, RearrangeKeeps
  <2> QED
    BY <2>2, <1>1
<1> HIDE DEF to, s
<1>7. s.heap[n] = q.heap[1] /\ s.elements = q.elements /\ s.invalid = q.invalid /\ Len(s.heap) = n
      /\ ToSet(s.heap) = ToSet(q.heap)
      /\ \A j \in 2 .. n - 1 : s.heap[j] = q.heap[j]
  <2>1. s.heap[n] = q.heap[1]
    BY <1>3, <1>4, <1>6
  <2>2. \A j \in 2 .. n - 1 : j \in 1 .. n /\ j \notin {1, n}
    BY <1>1
  <2>3. \A j \in 2 .. n - 1 : s.heap[j] = q.heap[j]
    BY <2>2, <1>4, <1>6
  <2> QED
    BY <2>1, <2>3, <1>6 DEF SameEntries, n
<1>8. /\ s.heap \in Seq(Nat) /\ s.index \in Seq(Nat) /\ s.elements \in Seq(E) /\ s.invalid \in Seq(Nat)
      /\ s \in [elements : Seq(E), heap : Seq(Nat), index : Seq(Nat), invalid : Seq(Nat)]
      /\ DOMAIN s.heap = 1 .. n
      /\ \A j, k \in 1 .. n : s.heap[j] = s.heap[k] => j = k
      /\ Len(s.index) = Len(s.elements)
      /\ \A i \in 1 .. n : s.heap[i] \in DOMAIN s.elements /\ s.index[s.heap[i]] = i
      /\ \A i \in DOMAIN s.invalid : s.invalid[i] \in DOMAIN s.elements
      /\ \A i \in 1 .. n, j \in DOMAIN s.invalid : s.heap[i] # s.invalid[j]
      /\ \A h \in DOMAIN s.elements :
           (\E i \in 1 .. n : s.heap[i] = h) \/ (\E i \in DOMAIN s.invalid : s.invalid[i] = h)
      /\ \A i, j \in DOMAIN s.invalid : s.invalid[i] = s.invalid[j] => i = j
  <2>1. DOMAIN s.heap = 1 .. n
    BY <1>6, <1>7, LinkedFacts
  <2>2. \A j, k \in 1 .. n : s.heap[j] = s.heap[k] => j = k
    BY <1>6, <1>7, LinkedFacts
  <2> QED
    BY <2>1, <2>2, <1>6 DEF Linked
<1>9. r.elements = s.elements /\ r.heap = hp /\ r.index = s.index /\ r.invalid = iv
      /\ r = [elements |-> s.elements, heap |-> hp, index |-> s.index, invalid |-> iv]
  <2>1. r = [s EXCEPT !.heap = hp, !.invalid = iv]
    <3>1. r = [s EXCEPT !.heap = Front(@), !.invalid = Append(@, q.heap[1])]
      BY Zenon DEF Exchanged, s, to, n
    <3>2. s.invalid = q.invalid
      BY <1>7
    <3> HIDE DEF r
    <3> QED
      BY <3>1, <3>2
  <2>2. s = [elements |-> s.elements, heap |-> s.heap, index |-> s.index, invalid |-> s.invalid]
    BY <1>8
  <2> HIDE DEF r, hp, iv
  <2>3. r = [elements |-> s.elements, heap |-> hp, index |-> s.index, invalid |-> iv]
    BY <2>1, <2>2
  <2> QED
    BY <2>3
<1>10. hp \in Seq(Nat) /\ DOMAIN hp = 1 .. n - 1 /\ Len(hp) = n - 1
       /\ \A i \in 1 .. n - 1 : hp[i] = s.heap[i]
  <2>1. s.heap # <<>> /\ s.heap \in Seq(Nat)
    BY <1>3, <1>7, <1>8
  <2>2. /\ hp \in Seq(Nat)
        /\ DOMAIN hp = 1 .. Len(s.heap) - 1 /\ Len(hp) = Len(s.heap) - 1
        /\ \A i \in 1 .. Len(s.heap) - 1 : hp[i] = s.heap[i]
    BY <2>1, FrontIs
  <2> HIDE DEF hp
  <2>3. Len(hp) = n - 1
    BY <2>2, <1>7
  <2> QED
    BY <2>2, <2>3, <1>7
<1> DEFINE m == Len(q.invalid)
<1>11. /\ m \in Nat /\ iv \in Seq(Nat) /\ DOMAIN iv = 1 .. m + 1 /\ iv[m + 1] = s.heap[n]
       /\ \A i \in 1 .. m : iv[i] = s.invalid[i] /\ i \in DOMAIN s.invalid
       /\ \A i \in 1 .. m + 1 : i \in 1 .. m \/ i = m + 1
       /\ \A i \in DOMAIN s.invalid : i \in 1 .. m
       /\ m + 1 \in 1 .. m + 1 /\ \A i \in 1 .. m : i \in 1 .. m + 1
  <2>1. q.heap[1] \in Nat
    BY <1>1, <1>2, <1>3
  <2>2. m \in Nat /\ iv \in Seq(Nat) /\ DOMAIN iv = 1 .. m + 1 /\ iv[m + 1] = q.heap[1]
        /\ DOMAIN q.invalid = 1 .. m /\ \A i \in 1 .. m : iv[i] = q.invalid[i]
    BY <2>1, <1>2
  <2> HIDE DEF m, iv
  <2> QED
    BY <2>2, <1>7
<1> HIDE DEF r, hp, iv, m
<1>12. \A i \in 1 .. n - 1 : i \in 1 .. n /\ i # n /\ s.heap[i] # s.heap[n]
  <2>1. \A i \in 1 .. n - 1 : i \in 1 .. n /\ i # n
    BY <1>1
  <2> QED
    BY <2>1, <1>3, <1>8
<1>13. \A i \in 1 .. n : i \in 1 .. n - 1 \/ i = n
  BY <1>1
<1>14. Linked(r, E)
  <2>1. r \in [elements : Seq(E), heap : Seq(Nat), index : Seq(Nat), invalid : Seq(Nat)]
    BY <1>8, <1>9, <1>10, <1>11
  <2>2. \A i \in DOMAIN r.heap : r.heap[i] \in DOMAIN r.elements /\ r.index[r.heap[i]] = i
    BY <1>8, <1>9, <1>10, <1>12
  <2>3. \A i \in DOMAIN r.invalid : r.invalid[i] \in DOMAIN r.elements
    <3> SUFFICES ASSUME NEW i \in 1 .. m + 1 PROVE iv[i] \in DOMAIN s.elements
      BY <1>9, <1>11
    <3>1. CASE i \in 1 .. m
      BY <3>1, <1>8, <1>11
    <3>2. CASE i = m + 1
      BY <3>2, <1>3, <1>8, <1>11
    <3> QED
      BY <3>1, <3>2, <1>11
  <2>4. \A i \in DOMAIN r.heap, j \in DOMAIN r.invalid : r.heap[i] # r.invalid[j]
    <3> SUFFICES ASSUME NEW i \in 1 .. n - 1, NEW j \in 1 .. m + 1 PROVE hp[i] # iv[j]
      BY <1>9, <1>10, <1>11
    <3>1. hp[i] = s.heap[i] /\ i \in 1 .. n /\ s.heap[i] # s.heap[n]
      BY <1>10, <1>12
    <3>2. \A k \in DOMAIN s.invalid : s.heap[i] # s.invalid[k]
      BY <3>1, <1>8
    <3>3. CASE j \in 1 .. m
      BY <3>1, <3>2, <3>3, <1>11
    <3>4. CASE j = m + 1
      BY <3>1, <3>4, <1>11
    <3> QED
      BY <3>3, <3>4, <1>11
  <2>5. ASSUME NEW h \in DOMAIN r.elements
        PROVE  (\E i \in DOMAIN r.heap : r.heap[i] = h) \/ (\E i \in DOMAIN r.invalid : r.invalid[i] = h)
    <3>1. CASE \E i \in 1 .. n : s.heap[i] = h
      <4>1. PICK i \in 1 .. n : s.heap[i] = h
        BY <3>1
      <4>2. CASE i = n
        BY <4>1, <4>2, <1>9, <1>11
      <4>3. CASE i \in 1 .. n - 1
        BY <4>1, <4>3, <1>9, <1>10
      <4> QED
        BY <4>2, <4>3, <1>13
    <3>2. CASE \E i \in DOMAIN s.invalid : s.invalid[i] = h
      <4>1. PICK i \in DOMAIN s.invalid : s.invalid[i] = h
        BY <3>2
      <4>2. i \in 1 .. m + 1 /\ iv[i] = h
        BY <4>1, <1>11
      <4> QED
        BY <4>2, <1>9, <1>11
    <3> QED
      BY <3>1, <3>2, <1>8, <1>9
  <2>6. \A i, j \in DOMAIN r.invalid : r.invalid[i] = r.invalid[j] => i = j
    <3> SUFFICES ASSUME NEW i \in 1 .. m + 1, NEW j \in 1 .. m + 1, iv[i] = iv[j] PROVE i = j
      BY <1>9, <1>11
    <3>0. iv[m + 1] = s.heap[n] /\ \A k \in 1 .. m : iv[k] = s.invalid[k] /\ k \in DOMAIN s.invalid
      BY <1>11
    <3>4. \A k \in 1 .. m : iv[k] # iv[m + 1]
      <4>1. \A k \in DOMAIN s.invalid : s.heap[n] # s.invalid[k]
        BY <1>3, <1>8
      <4> QED
        BY <3>0, <4>1
    <3>1. CASE i \in 1 .. m /\ j \in 1 .. m
      <4>1. s.invalid[i] = s.invalid[j] /\ i \in DOMAIN s.invalid /\ j \in DOMAIN s.invalid
        BY <3>0, <3>1
      <4> QED
        BY <4>1, <1>8
    <3>2. CASE i \in 1 .. m /\ j = m + 1
      BY <3>2, <3>4
    <3>3. CASE i = m + 1 /\ j \in 1 .. m
      BY <3>3, <3>4
    <3> QED
      BY <3>1, <3>2, <3>3, <1>11
  <2>7. Len(r.index) = Len(r.elements)
    BY <1>8, <1>9
  <2> QED
    BY <2>1, <2>2, <2>3, <2>4, <2>5, <2>6, <2>7 DEF Linked
<1>15. HeapedBut(r, 1)
  <2> DEFINE a == Places(q)
             b == Places(r)
  <2>1. \A j \in 2 .. n - 1 : b[j] = a[j]
    <3> TAKE j \in 2 .. n - 1
    <3>1. j \in 1 .. n /\ j \in 1 .. n - 1
      BY <1>1
    <3>2. b[j] = q.elements[hp[j]] /\ a[j] = q.elements[q.heap[j]]
      BY <3>1, <1>7, <1>9, <1>10 DEF Places, At, n
    <3> QED
      BY <3>1, <3>2, <1>7, <1>10
  <2>2. ASSUME NEW j \in 2 .. n - 1
        PROVE  /\ j # 1 /\ j \div 2 # 1 => ~Less(b[j], b[j \div 2])
               /\ j \div 2 = 1 /\ 1 > 1 => ~Less(b[j], b[1 \div 2])
    <3>1. ~Less(a[j], a[j \div 2])
      <4>1. j \in 2 .. n
        BY <1>1
      <4> QED
        BY <4>1 DEF Queue, Heaped, HeapOf, n
    <3>2. j \div 2 # 1 => j \div 2 \in 2 .. n - 1
      BY <1>1
    <3> HIDE DEF a, b
    <3> QED
      BY <2>1, <3>1, <3>2
  <2> HIDE DEF a, b
  <2> QED
    BY <2>2, <1>9, <1>10 DEF HeapedBut, HeapBut, b
<1>16. ToSet(r.heap) = ToSet(q.heap) \ {q.heap[1]}
  <2>1. ToSet(r.heap) = {hp[i] : i \in 1 .. n - 1} /\ ToSet(s.heap) = {s.heap[i] : i \in 1 .. n}
    BY <1>8, <1>9, <1>10 DEF ToSet
  <2>2. \A i \in 1 .. n - 1 : hp[i] = s.heap[i]
    BY <1>10
  <2>3. ToSet(r.heap) \subseteq ToSet(s.heap) \ {s.heap[n]}
    BY <2>1, <2>2, <1>12
  <2>4. ToSet(s.heap) \ {s.heap[n]} \subseteq ToSet(r.heap)
    BY <2>1, <2>2, <1>13
  <2> QED
    BY <2>3, <2>4, <1>7
<1> QED
  BY <1>7, <1>9, <1>10, <1>14, <1>15, <1>16 DEF r, n

(* pop removes the top and nothing else. *)
THEOREM PopKeeps ==
  ASSUME NEW E, Ordered(E), NEW q, Queue(q, E), q.heap # <<>>
  PROVE  LET r == Pop(q)
         IN /\ Queue(r, E)
            /\ ToSet(r.heap) = ToSet(q.heap) \ {q.heap[1]}
            /\ r.elements = q.elements
<1> DEFINE r == Exchanged(q)
<1>1. /\ Linked(r, E) /\ Len(r.heap) = Len(q.heap) - 1 /\ HeapedBut(r, 1)
      /\ ToSet(r.heap) = ToSet(q.heap) \ {q.heap[1]} /\ r.elements = q.elements
  BY ExchangeKeeps
<1>2. Len(q.heap) \in Nat /\ Len(q.heap) >= 1
  <2>1. q.heap \in Seq(Nat)
    BY DEF Queue, Linked
  <2> QED
    BY <2>1
<1> HIDE DEF r
<1>3. CASE Len(q.heap) = 1
  <2>1. Pop(q) = r
    BY <1>3 DEF Pop, r
  <2>2. Len(r.heap) = 0
    BY <1>1, <1>3
  <2>3. 2 .. 0 = {}
    OBVIOUS
  <2>4. Heaped(r)
    BY <2>2, <2>3 DEF Heaped, HeapOf
  <2> QED
    BY <1>1, <2>1, <2>4 DEF Queue
<1>4. CASE Len(q.heap) # 1
  <2>1. Pop(q) = Lower(r, 1)
    <3> DEFINE val(x) == Lower(x, 1)
    <3>1. Pop(q) = CHOOSE w \in {val(y) : y \in {r}} : TRUE
      BY <1>4 DEF Pop, With, r
    <3> HIDE DEF val
    <3>2. \A x : (CHOOSE w \in {val(y) : y \in {x}} : TRUE) = val(x)
      OBVIOUS
    <3> QED
      BY <3>1, <3>2 DEF val
  <2>2. 1 \in 1 .. Len(r.heap) /\ ~(1 > 1)
    <3>1. Len(r.heap) = Len(q.heap) - 1
      BY <1>1
    <3>2. \A k \in Nat : k >= 1 /\ k # 1 => 1 \in 1 .. (k - 1)
      OBVIOUS
    <3>3. 1 \in 1 .. (Len(q.heap) - 1)
      BY <3>2, <1>2, <1>4
    <3>4. ~(1 > 1)
      OBVIOUS
    <3> QED
      BY <3>1, <3>3, <3>4
  <2>3. Linked(Lower(r, 1), E) /\ SameEntries(r, Lower(r, 1)) /\ Heaped(Lower(r, 1))
    BY <1>1, <2>2, LowerKeeps
  <2> QED
    BY <1>1, <2>1, <2>3 DEF Queue, SameEntries
<1> QED
  BY <1>3, <1>4

(* The queue a query begins with. *)
LEMMA EmptyIsQueue ==
  ASSUME NEW E
  PROVE  Queue(EmptyQueue, E) /\ ToSet(EmptyQueue.heap) = {}
<1>1. 2 .. 0 = {} /\ <<>> \in Seq(Nat) /\ <<>> \in Seq(E) /\ DOMAIN <<>> = {} /\ Len(<<>>) = 0
  OBVIOUS
<1>2. Linked(EmptyQueue, E)
  BY <1>1 DEF Linked, EmptyQueue
<1>3. Heaped(EmptyQueue)
  BY <1>1 DEF Heaped, HeapOf, EmptyQueue
<1> QED
  BY <1>1, <1>2, <1>3 DEF Queue, ToSet, EmptyQueue

(* What a reader of a queue sees. *)
LEMMA QueueFacts ==
  ASSUME NEW E, NEW q, Queue(q, E)
  PROVE  /\ WellFormed(q)
         /\ \A h \in ToSet(q.heap) : h \in DOMAIN q.elements /\ h \in Nat /\ q.elements[h] \in E
         /\ q.elements \in Seq(E)
         /\ Entries(q) = {q.elements[h] : h \in ToSet(q.heap)}
         /\ IsEmpty(q) <=> ToSet(q.heap) = {}
         /\ ~IsEmpty(q) => q.heap[1] \in ToSet(q.heap) /\ Top(q) = q.elements[q.heap[1]]
<1>1. Linked(q, E) /\ Heaped(q)
  BY DEF Queue
<1>2. q.heap \in Seq(Nat) /\ q.elements \in Seq(E) /\ q.invalid \in Seq(Nat)
  BY <1>1 DEF Linked
<1>3. Len(q.heap) \in Nat /\ DOMAIN q.heap = 1 .. Len(q.heap)
      /\ \A j \in 1 .. Len(q.heap) : q.heap[j] \in Nat
  BY <1>2
<1>4. /\ \A i \in DOMAIN q.heap : q.heap[i] \in DOMAIN q.elements /\ q.index[q.heap[i]] = i
      /\ \A i \in DOMAIN q.invalid : q.invalid[i] \in DOMAIN q.elements
      /\ \A i \in DOMAIN q.heap, j \in DOMAIN q.invalid : q.heap[i] # q.invalid[j]
      /\ \A h \in DOMAIN q.elements :
           (\E i \in DOMAIN q.heap : q.heap[i] = h) \/ (\E i \in DOMAIN q.invalid : q.invalid[i] = h)
  BY <1>1 DEF Linked
<1>5. WellFormed(q)
  <2>1. ASSUME NEW i \in DOMAIN q.heap, i > 1 PROVE ~Less(At(q, i), At(q, i \div 2))
    <3>1. i \in 2 .. Len(q.heap) /\ i \in 1 .. Len(q.heap) /\ i \div 2 \in 1 .. Len(q.heap)
      BY <1>3, <2>1
    <3>2. ~Less(Places(q)[i], Places(q)[i \div 2])
      BY <3>1, <1>1 DEF Heaped, HeapOf
    <3> QED
      BY <3>1, <3>2 DEF Places
  <2>2. ToSet(q.heap) \cap ToSet(q.invalid) = {}
    BY <1>4 DEF ToSet
  <2>3. ToSet(q.heap) \cup ToSet(q.invalid) = DOMAIN q.elements
    BY <1>4 DEF ToSet
  <2> QED
    BY <1>4, <2>1, <2>2, <2>3 DEF WellFormed
<1>6. \A h \in ToSet(q.heap) : h \in DOMAIN q.elements /\ h \in Nat /\ q.elements[h] \in E
  <2> SUFFICES ASSUME NEW h \in ToSet(q.heap)
               PROVE  h \in DOMAIN q.elements /\ h \in Nat /\ q.elements[h] \in E
    OBVIOUS
  <2>1. PICK j \in DOMAIN q.heap : h = q.heap[j]
    BY DEF ToSet
  <2> QED
    BY <2>1, <1>2, <1>3, <1>4
<1>7. Entries(q) = {q.elements[h] : h \in ToSet(q.heap)}
  BY DEF Entries, At, ToSet
<1>8. IsEmpty(q) <=> ToSet(q.heap) = {}
  <2>1. ToSet(q.heap) = {} <=> DOMAIN q.heap = {}
    BY DEF ToSet
  <2>2. ASSUME NEW s \in Seq(Nat) PROVE s = <<>> <=> DOMAIN s = {}
    <3>1. DOMAIN s = {} => Len(s) = 0
      <4>1. DOMAIN s = 1 .. Len(s) /\ Len(s) \in Nat
        OBVIOUS
      <4>2. Len(s) # 0 => 1 \in 1 .. Len(s)
        BY <4>1
      <4> QED
        BY <4>1, <4>2
    <3> QED
      BY <3>1
  <2> QED
    BY <2>1, <2>2, <1>2 DEF IsEmpty
<1>9. ~IsEmpty(q) => q.heap[1] \in ToSet(q.heap) /\ Top(q) = q.elements[q.heap[1]]
  <2>1. ~IsEmpty(q) => 1 \in DOMAIN q.heap
    BY <1>2 DEF IsEmpty
  <2> QED
    BY <2>1 DEF Top, At, ToSet
<1> QED
  BY <1>2, <1>5, <1>6, <1>7, <1>8, <1>9

=============================================================================

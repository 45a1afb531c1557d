------------------------ MODULE MutablePriorityQueue ------------------------
(***************************************************************************)
(* MutablePriorityQueue<T>: a binary heap whose entries keep a handle      *)
(* while they move, so that one can be changed in place. `heap` lists the  *)
(* handles in heap order, `index` gives the place of each, `elements` what *)
(* it stands for; the handles of popped entries are taken again, the last  *)
(* one first. Handles count from 1 here; the code leaves place 0 of the    *)
(* heap empty.                                                             *)
(***************************************************************************)
EXTENDS Naturals, Sequences, SequencesExt

CONSTANT Less(_, _)  \* m_funcComp

EmptyQueue == [elements |-> <<>>, heap |-> <<>>, index |-> <<>>, invalid |-> <<>>]

IsEmpty(q) == q.heap = <<>>
At(q, i) == q.elements[q.heap[i]]
Top(q) == At(q, 1)
Entries(q) == {At(q, i) : i \in DOMAIN q.heap}

(* The first of an entry and its children, the entry itself on a tie. *)
RaiseIndex(q, i, v) ==
  LET less(j, e) == j <= Len(q.heap) /\ Less(At(q, j), e)
      left == IF less(2 * i, v) THEN 2 * i ELSE i
  IN IF less(2 * i + 1, IF left = i THEN v ELSE At(q, left)) THEN 2 * i + 1 ELSE left

(* f(x), with x computed once. *)
With(x, f(_)) == CHOOSE r \in {f(y) : y \in {x}} : TRUE

(* The handles at some places of the heap become those that `to` gives. *)
(* A bug: the places of the handles stay. *)
RearrangeHeap(q, to) ==
  [q EXCEPT !.heap = [j \in DOMAIN @ |-> IF j \in DOMAIN to THEN to[j] ELSE @[j]]]

Rearrange(q, to) ==
  [q EXCEPT
     !.heap = [j \in DOMAIN @ |-> IF j \in DOMAIN to THEN to[j] ELSE @[j]],
     !.index = [h \in DOMAIN @ |-> IF \E j \in DOMAIN to : to[j] = h
                                   THEN CHOOSE j \in DOMAIN to : to[j] = h ELSE @[h]]]

(* lower: the swaps on the way down. The entry v that starts at place i    *)
(* trades places with the better child until neither child is better.      *)
Lower(q, i) ==
  LET v == At(q, i)
      moves(next) ==
        LET onWay[j \in DOMAIN q.heap] ==
              j = i \/ (j > i /\ onWay[j \div 2] /\ next[j \div 2] = j)
        IN [j \in {c \in DOMAIN q.heap : onWay[c]} |->
              IF next[j] = j THEN q.heap[i] ELSE q.heap[next[j]]]
      sink(next) == Rearrange(q, moves(next))
  IN With([j \in DOMAIN q.heap |-> RaiseIndex(q, j, v)], sink)

(* raise: the swaps on the way up, past every ancestor that is worse.      *)
Raise(q, i) ==
  LET v == At(q, i)
      passed[j \in DOMAIN q.heap] ==
        \/ j = i
        \/ /\ j < i
           /\ Less(v, At(q, j))
           /\ \E c \in {2 * j, 2 * j + 1} \cap DOMAIN q.heap : passed[c]
      rise(moved) ==
        Rearrange(q, [j \in moved |-> IF j \div 2 \in moved THEN q.heap[j \div 2] ELSE q.heap[i]])
  IN With({j \in DOMAIN q.heap : passed[j]}, rise)

(* update(index) *)
Move(q, i) == IF RaiseIndex(q, i, At(q, i)) # i THEN Lower(q, i) ELSE Raise(q, i)

(* The handle push takes. *)
FreeHandle(q) == IF q.invalid = <<>> THEN Len(q.elements) + 1 ELSE Last(q.invalid)

Push(q, e) ==
  LET h == FreeHandle(q)
      i == Len(q.heap) + 1
      longer == [q EXCEPT
        !.elements = IF q.invalid = <<>> THEN Append(@, e) ELSE [@ EXCEPT ![h] = e],
        !.invalid = IF @ = <<>> THEN @ ELSE Front(@),
        !.index = IF q.invalid = <<>> THEN Append(@, i) ELSE [@ EXCEPT ![h] = i],
        !.heap = Append(@, h)]
  IN With(longer, LAMBDA r : Move(r, i))

(* pop: the top is exchanged with the last entry, which then sinks. *)
Exchanged(q) ==
  LET n == Len(q.heap)
      swapped == Rearrange(q, [j \in {1, n} |-> q.heap[n + 1 - j]])
  IN [swapped EXCEPT !.heap = Front(@), !.invalid = Append(@, q.heap[1])]

Pop(q) == IF Len(q.heap) = 1 THEN Exchanged(q) ELSE With(Exchanged(q), LAMBDA r : Lower(r, 1))

(* update(handle, value): whatever the handle stands for is overwritten. *)
Update(q, h, e) ==
  With([q EXCEPT !.elements[h] = e], LAMBDA r : Move(r, r.index[h]))

(* No entry comes before its parent, and every handle of the heap knows    *)
(* its place.                                                              *)
WellFormed(q) ==
  /\ \A i \in DOMAIN q.heap :
       /\ q.index[q.heap[i]] = i
       /\ i > 1 => ~Less(At(q, i), At(q, i \div 2))
  /\ ToSet(q.heap) \cap ToSet(q.invalid) = {}
  /\ ToSet(q.heap) \cup ToSet(q.invalid) = DOMAIN q.elements
=============================================================================

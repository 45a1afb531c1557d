----------------------- MODULE ExternalSorter_proofs -----------------------
(***************************************************************************)
(* Proofs about the external sorter, for all keys, page sizes, numbers of  *)
(* pages and inputs: no record is lost or doubled by any number of merge   *)
(* passes (NothingLost), the end is reported after all of them             *)
(* (EndMeansAll), and what fits in one buffer comes out sorted             *)
(* (OneBufferSorted).                                                      *)
(*                                                                         *)
(* A step carries records from holder to holder: for every place after it  *)
(* there is one before it with the same record, another for another, and   *)
(* none is left behind (Carries).                                          *)
(* That no place is left at the end of a pass needs that a run leaves the  *)
(* queue only when its page and its file are empty (PassRuns).             *)
(***************************************************************************)
EXTENDS ExternalSorter, SequenceTheorems, TLAPS

-----------------------------------------------------------------------------
(* Places and moves. *)
At(held, p) == held[p[1]][p[2]]

LEMMA PlacesAre ==
  ASSUME NEW held, NEW p
  PROVE  p \in Places(held) <=>
           \E h \in DOMAIN held : \E j \in DOMAIN held[h] : p = <<h, j>>
  BY DEF Places

LEMMA OnceMeans ==
  ASSUME NEW held, NEW records
  PROVE  Once(held, records) <=>
           /\ \A p \in Places(held) : At(held, p) \in records
           /\ \A p, q \in Places(held) : At(held, p) = At(held, q) => p = q
           /\ \A r \in records : \E p \in Places(held) : At(held, p) = r
  BY DEF Once, At, Bijection, Injection, Surjection, IsInjective

(* Records change places only among the holders T: what stands at j in h   *)
(* came from from[h][j], and what stood at k in g went to to[g][k].        *)
Comes(before, after, T, from, to, h) ==
  \A j \in DOMAIN after[h] :
    \E g \in T \cap DOMAIN before : \E k \in DOMAIN before[g] :
      from[h][j] = <<g, k>> /\ to[g][k] = <<h, j>> /\ before[g][k] = after[h][j]
Goes(before, after, T, from, to, g) ==
  \A k \in DOMAIN before[g] :
    \E h \in T \cap DOMAIN after : \E j \in DOMAIN after[h] :
      to[g][k] = <<h, j>> /\ from[h][j] = <<g, k>>
Carries(before, after, T, from, to) ==
  /\ \A h : h \notin T => (h \in DOMAIN after <=> h \in DOMAIN before)
  /\ \A h \in DOMAIN after : h \notin T => after[h] = before[h]
  /\ \A h \in T \cap DOMAIN after : Comes(before, after, T, from, to, h)
  /\ \A g \in T \cap DOMAIN before : Goes(before, after, T, from, to, g)

LEMMA Carried ==
  ASSUME NEW before, NEW after, NEW records, Once(before, records),
         NEW T, NEW from, NEW to, Carries(before, after, T, from, to)
  PROVE  Once(after, records)
<1> DEFINE F == [q \in Places(after) |-> IF q[1] \in T THEN from[q[1]][q[2]] ELSE q]
           G == [p \in Places(before) |-> IF p[1] \in T THEN to[p[1]][p[2]] ELSE p]
<1> USE DEF Carries
<1>1. \A q \in Places(after) :
        F[q] \in Places(before) /\ At(after, q) = At(before, F[q]) /\ G[F[q]] = q
  <2> TAKE q \in Places(after)
  <2>1. PICK h \in DOMAIN after : \E j \in DOMAIN after[h] : q = <<h, j>>
    BY PlacesAre
  <2>2. PICK j \in DOMAIN after[h] : q = <<h, j>>
    BY <2>1
  <2>3. CASE h \in T
    <3>0. PICK g \in T \cap DOMAIN before : \E k \in DOMAIN before[g] :
            /\ from[h][j] = <<g, k>> /\ to[g][k] = <<h, j>> /\ before[g][k] = after[h][j]
      BY <2>3 DEF Comes
    <3>1. PICK k \in DOMAIN before[g] :
            /\ from[h][j] = <<g, k>> /\ to[g][k] = <<h, j>> /\ before[g][k] = after[h][j]
      BY <3>0
    <3>2. <<g, k>> \in Places(before)
      BY PlacesAre
    <3>3. F[q] = <<g, k>> /\ At(after, q) = after[h][j] /\ At(before, <<g, k>>) = before[g][k]
      BY <2>2, <2>3, <3>1 DEF At
    <3>4. G[<<g, k>>] = <<h, j>>
      BY <3>1, <3>2
    <3> QED
      BY <2>2, <3>1, <3>2, <3>3, <3>4
  <2>4. CASE h \notin T
    BY <2>2, <2>4, PlacesAre DEF At
  <2> QED
    BY <2>3, <2>4
<1>2. \A p \in Places(before) : G[p] \in Places(after) /\ F[G[p]] = p
  <2> TAKE p \in Places(before)
  <2>1. PICK g \in DOMAIN before : \E k \in DOMAIN before[g] : p = <<g, k>>
    BY PlacesAre
  <2>2. PICK k \in DOMAIN before[g] : p = <<g, k>>
    BY <2>1
  <2>3. CASE g \in T
    <3>0. PICK h \in T \cap DOMAIN after : \E j \in DOMAIN after[h] :
            to[g][k] = <<h, j>> /\ from[h][j] = <<g, k>>
      BY <2>3 DEF Goes
    <3>1. PICK j \in DOMAIN after[h] : to[g][k] = <<h, j>> /\ from[h][j] = <<g, k>>
      BY <3>0
    <3>2. <<h, j>> \in Places(after)
      BY PlacesAre
    <3>3. G[p] = <<h, j>>
      BY <2>2, <2>3, <3>1
    <3>4. F[<<h, j>>] = <<g, k>>
      BY <3>1, <3>2
    <3> QED
      BY <2>2, <3>2, <3>3, <3>4
  <2>4. CASE g \notin T
    BY <2>2, <2>4, PlacesAre
  <2> QED
    BY <2>3, <2>4
<1> HIDE DEF F, G
<1>3. \A q \in Places(after) : At(after, q) \in records
  BY <1>1, OnceMeans
<1>4. \A p, q \in Places(after) : At(after, p) = At(after, q) => p = q
  <2> TAKE p, q \in Places(after)
  <2>1. At(before, F[p]) = At(before, F[q]) => F[p] = F[q]
    BY <1>1, OnceMeans
  <2> QED
    BY <1>1, <2>1
<1>5. \A r \in records : \E q \in Places(after) : At(after, q) = r
  <2> TAKE r \in records
  <2>1. PICK p \in Places(before) : At(before, p) = r
    BY OnceMeans
  <2> QED
    BY <1>1, <1>2, <2>1
<1> QED
  BY <1>3, <1>4, <1>5, OnceMeans

(* The first k records of one holder go to the end of another. *)
Among(before, after, a, b) ==
  /\ a \in DOMAIN before /\ b \in DOMAIN before /\ a # b
  /\ \A h : h \in DOMAIN after <=> h \in DOMAIN before
  /\ \A h \in DOMAIN before : h # a /\ h # b => after[h] = before[h]
Shifted(x, y, x2, y2, k, m, n) ==
  /\ k \in Nat /\ m \in Nat /\ n \in Nat /\ k <= m
  /\ DOMAIN x = 1 .. m /\ DOMAIN y = 1 .. n
  /\ DOMAIN x2 = 1 .. m - k /\ DOMAIN y2 = 1 .. n + k
  /\ \A j \in 1 .. m - k : x2[j] = x[j + k]
  /\ \A j \in 1 .. n : y2[j] = y[j]
  /\ \A j \in 1 .. k : y2[n + j] = x[j]

LEMMA Shift ==
  ASSUME NEW before, NEW after, NEW records, Once(before, records),
         NEW a, NEW b, Among(before, after, a, b), NEW k, NEW m, NEW n,
         Shifted(before[a], before[b], after[a], after[b], k, m, n)
  PROVE  Once(after, records)
<1> USE DEF Among, Shifted
<1> DEFINE T == {a, b}
           from == [h \in T |-> IF h = a THEN [j \in Int |-> <<a, j + k>>]
                                ELSE [j \in Int |-> IF j > n THEN <<a, j - n>> ELSE <<b, j>>]]
           to == [h \in T |-> IF h = b THEN [j \in Int |-> <<b, j>>]
                              ELSE [j \in Int |-> IF j > k THEN <<a, j - k>> ELSE <<b, j + n>>]]
<1>1. \A j \in Int : /\ from[a][j] = <<a, j + k>>
                     /\ from[b][j] = IF j > n THEN <<a, j - n>> ELSE <<b, j>>
                     /\ to[b][j] = <<b, j>>
                     /\ to[a][j] = IF j > k THEN <<a, j - k>> ELSE <<b, j + n>>
  OBVIOUS
<1> HIDE DEF from, to
<1>2. Comes(before, after, T, from, to, a) /\ Comes(before, after, T, from, to, b)
  <2>1. \A j \in 1 .. m - k :
          /\ j + k \in DOMAIN before[a] /\ from[a][j] = <<a, j + k>>
          /\ to[a][j + k] = <<a, j>> /\ before[a][j + k] = after[a][j]
    <3> TAKE j \in 1 .. m - k
    <3>1. j + k \in 1 .. m /\ j + k > k /\ (j + k) - k = j /\ j \in Int /\ j + k \in Int
      OBVIOUS
    <3>2. to[a][j + k] = <<a, (j + k) - k>>
      BY <1>1, <3>1
    <3> QED
      BY <1>1, <3>1, <3>2
  <2>2. \A j \in 1 .. n :
          /\ j \in DOMAIN before[b] /\ from[b][j] = <<b, j>>
          /\ to[b][j] = <<b, j>> /\ before[b][j] = after[b][j]
    <3> TAKE j \in 1 .. n
    <3>1. j \in Int /\ ~(j > n)
      OBVIOUS
    <3> QED
      BY <1>1, <3>1
  <2>3. \A j \in n + 1 .. n + k :
          /\ j - n \in DOMAIN before[a] /\ from[b][j] = <<a, j - n>>
          /\ to[a][j - n] = <<b, j>> /\ before[a][j - n] = after[b][j]
    <3> TAKE j \in n + 1 .. n + k
    <3>1. j - n \in 1 .. k /\ j - n \in 1 .. m /\ n + (j - n) = j /\ j > n /\ j \in Int
          /\ j - n \in Int /\ ~(j - n > k) /\ (j - n) + n = j
      OBVIOUS
    <3>2. after[b][n + (j - n)] = before[a][j - n]
      BY <3>1
    <3>3. to[a][j - n] = <<b, (j - n) + n>>
      BY <1>1, <3>1
    <3>4. from[b][j] = <<a, j - n>>
      BY <1>1, <3>1
    <3> QED
      BY <3>1, <3>2, <3>3, <3>4
  <2>4. \A j \in 1 .. n + k : j \in 1 .. n \/ j \in n + 1 .. n + k
    OBVIOUS
  <2>5. ASSUME NEW j \in DOMAIN after[a]
        PROVE  \E g \in T \cap DOMAIN before : \E l \in DOMAIN before[g] :
                 /\ from[a][j] = <<g, l>> /\ to[g][l] = <<a, j>>
                 /\ before[g][l] = after[a][j]
    BY <2>1
  <2>6. ASSUME NEW j \in DOMAIN after[b]
        PROVE  \E g \in T \cap DOMAIN before : \E l \in DOMAIN before[g] :
                 /\ from[b][j] = <<g, l>> /\ to[g][l] = <<b, j>>
                 /\ before[g][l] = after[b][j]
    <3>1. CASE j \in 1 .. n
      BY <2>2, <3>1
    <3>2. CASE j \in n + 1 .. n + k
      BY <2>3, <3>2
    <3> QED
      BY <2>4, <3>1, <3>2
  <2> QED
    BY <2>5, <2>6 DEF Comes
<1>3. Goes(before, after, T, from, to, a) /\ Goes(before, after, T, from, to, b)
  <2>1. \A l \in k + 1 .. m :
          l - k \in DOMAIN after[a] /\ to[a][l] = <<a, l - k>> /\ from[a][l - k] = <<a, l>>
    <3> TAKE l \in k + 1 .. m
    <3>1. l - k \in 1 .. m - k /\ (l - k) + k = l /\ l > k /\ l \in Int /\ l - k \in Int
      OBVIOUS
    <3>2. from[a][l - k] = <<a, (l - k) + k>> /\ to[a][l] = <<a, l - k>>
      BY <1>1, <3>1
    <3> QED
      BY <3>1, <3>2
  <2>2. \A l \in 1 .. k :
          l + n \in DOMAIN after[b] /\ to[a][l] = <<b, l + n>> /\ from[b][l + n] = <<a, l>>
    <3> TAKE l \in 1 .. k
    <3>1. l + n \in 1 .. n + k /\ (l + n) - n = l /\ l + n > n /\ ~(l > k) /\ l \in Int /\ l + n \in Int
      OBVIOUS
    <3>2. from[b][l + n] = <<a, (l + n) - n>> /\ to[a][l] = <<b, l + n>>
      BY <1>1, <3>1
    <3> QED
      BY <3>1, <3>2
  <2>3. \A l \in 1 .. n :
          l \in DOMAIN after[b] /\ to[b][l] = <<b, l>> /\ from[b][l] = <<b, l>>
    <3> TAKE l \in 1 .. n
    <3>1. l \in 1 .. n + k /\ ~(l > n) /\ l \in Int
      OBVIOUS
    <3> QED
      BY <1>1, <3>1
  <2>4. \A l \in 1 .. m : l \in 1 .. k \/ l \in k + 1 .. m
    OBVIOUS
  <2>5. ASSUME NEW l \in DOMAIN before[a]
        PROVE  \E h \in T \cap DOMAIN after : \E j \in DOMAIN after[h] :
                 to[a][l] = <<h, j>> /\ from[h][j] = <<a, l>>
    <3>1. CASE l \in 1 .. k
      BY <2>2, <3>1
    <3>2. CASE l \in k + 1 .. m
      BY <2>1, <3>2
    <3> QED
      BY <2>4, <3>1, <3>2
  <2>6. ASSUME NEW l \in DOMAIN before[b]
        PROVE  \E h \in T \cap DOMAIN after : \E j \in DOMAIN after[h] :
                 to[b][l] = <<h, j>> /\ from[h][j] = <<b, l>>
    BY <2>3
  <2> QED
    BY <2>5, <2>6 DEF Goes
<1>4. /\ \A h : h \notin T => (h \in DOMAIN after <=> h \in DOMAIN before)
      /\ \A h \in DOMAIN after : h \notin T => after[h] = before[h]
  OBVIOUS
<1>5. Carries(before, after, T, from, to)
  BY <1>2, <1>3, <1>4 DEF Carries
<1> HIDE DEF T
<1> QED
  BY <1>5, Carried

(* Holders come and go while they hold nothing. *)
LEMMA SamePlaces ==
  ASSUME NEW before, NEW after, NEW records, Once(before, records),
         \A h \in DOMAIN before :
           DOMAIN before[h] = {} \/ (h \in DOMAIN after /\ after[h] = before[h]),
         \A h \in DOMAIN after :
           DOMAIN after[h] = {} \/ (h \in DOMAIN before /\ after[h] = before[h])
  PROVE  Once(after, records)
<1>1. \A q : q \in Places(before) <=> q \in Places(after)
  <2> TAKE q
  <2>1. ASSUME q \in Places(before) PROVE q \in Places(after)
    <3>1. PICK h \in DOMAIN before : \E j \in DOMAIN before[h] : q = <<h, j>>
      BY <2>1, PlacesAre
    <3> QED
      BY <3>1, PlacesAre
  <2>2. ASSUME q \in Places(after) PROVE q \in Places(before)
    <3>1. PICK h \in DOMAIN after : \E j \in DOMAIN after[h] : q = <<h, j>>
      BY <2>2, PlacesAre
    <3> QED
      BY <3>1, PlacesAre
  <2> QED
    BY <2>1, <2>2
<1>2. \A q \in Places(after) : At(after, q) = At(before, q)
  <2> TAKE q \in Places(after)
  <2>1. PICK h \in DOMAIN after : \E j \in DOMAIN after[h] : q = <<h, j>>
    BY PlacesAre
  <2> QED
    BY <2>1 DEF At
<1> QED
  BY <1>1, <1>2, OnceMeans

(* A holder is sorted. *)
LEMMA Permuted ==
  ASSUME NEW before, NEW after, NEW records, Once(before, records),
         NEW a \in DOMAIN before, DOMAIN after = DOMAIN before,
         \A h \in DOMAIN before : h # a => after[h] = before[h],
         NEW n \in Nat, NEW p \in Bijection(1 .. n, 1 .. n),
         DOMAIN before[a] = 1 .. n, after[a] = [i \in 1 .. n |-> before[a][p[i]]]
  PROVE  Once(after, records)
<1> DEFINE T == {a}
           back == [k \in 1 .. n |-> CHOOSE i \in 1 .. n : p[i] = k]
           from == [h \in T |-> [j \in 1 .. n |-> <<a, p[j]>>]]
           to == [h \in T |-> [j \in 1 .. n |-> <<a, back[j]>>]]
<1>1. /\ \A i \in 1 .. n : p[i] \in 1 .. n
      /\ \A i, j \in 1 .. n : p[i] = p[j] => i = j
      /\ \A k \in 1 .. n : \E i \in 1 .. n : p[i] = k
  BY DEF Bijection, Injection, Surjection, IsInjective
<1>2. \A k \in 1 .. n : back[k] \in 1 .. n /\ p[back[k]] = k
  BY <1>1
<1> HIDE DEF back
<1>3. \A i \in 1 .. n : back[p[i]] = i
  BY <1>1, <1>2
<1>4. \A j \in 1 .. n : from[a][j] = <<a, p[j]>> /\ to[a][j] = <<a, back[j]>>
  OBVIOUS
<1> HIDE DEF from, to
<1>5. /\ \A h : h \notin T => (h \in DOMAIN after <=> h \in DOMAIN before)
      /\ \A h \in DOMAIN after : h \notin T => after[h] = before[h]
      /\ DOMAIN after[a] = 1 .. n
  OBVIOUS
<1>6. Comes(before, after, T, from, to, a)
  <2> SUFFICES ASSUME NEW j \in 1 .. n
               PROVE  \E g \in T \cap DOMAIN before : \E k \in DOMAIN before[g] :
                        from[a][j] = <<g, k>> /\ to[g][k] = <<a, j>> /\ before[g][k] = after[a][j]
    BY <1>5 DEF Comes
  <2>1. from[a][j] = <<a, p[j]>> /\ p[j] \in 1 .. n /\ to[a][p[j]] = <<a, j>> /\ before[a][p[j]] = after[a][j]
    <3>1. p[j] \in 1 .. n /\ back[p[j]] = j
      BY <1>1, <1>3
    <3>2. to[a][p[j]] = <<a, back[p[j]]>> /\ from[a][j] = <<a, p[j]>>
      BY <1>4, <3>1
    <3>3. after[a][j] = before[a][p[j]]
      OBVIOUS
    <3> QED
      BY <3>1, <3>2, <3>3
  <2> QED
    BY <2>1
<1>7. Goes(before, after, T, from, to, a)
  <2> SUFFICES ASSUME NEW k \in 1 .. n
               PROVE  \E h \in T \cap DOMAIN after : \E j \in DOMAIN after[h] :
                        to[a][k] = <<h, j>> /\ from[h][j] = <<a, k>>
    BY <1>5 DEF Goes
  <2>1. to[a][k] = <<a, back[k]>> /\ back[k] \in 1 .. n /\ from[a][back[k]] = <<a, k>>
    <3>1. back[k] \in 1 .. n /\ p[back[k]] = k
      BY <1>2
    <3>2. to[a][k] = <<a, back[k]>> /\ from[a][back[k]] = <<a, p[back[k]]>>
      BY <1>4, <3>1
    <3> QED
      BY <3>1, <3>2
  <2> QED
    BY <1>5, <2>1
<1>8. Carries(before, after, T, from, to)
  BY <1>5, <1>6, <1>7 DEF Carries
<1> HIDE DEF T
<1> QED
  BY <1>8, Carried

LEMMA Added ==
  ASSUME NEW before, NEW after, NEW records, Once(before, records),
         NEW p, NEW r, p \notin Places(before), r \notin records,
         Places(after) = Places(before) \cup {p}, At(after, p) = r,
         \A q \in Places(before) : At(after, q) = At(before, q)
  PROVE  Once(after, records \cup {r})
<1>1. /\ \A q \in Places(before) : At(before, q) \in records
      /\ \A o, q \in Places(before) : At(before, o) = At(before, q) => o = q
      /\ \A s \in records : \E q \in Places(before) : At(before, q) = s
  BY OnceMeans
<1>2. \A q \in Places(after) : At(after, q) \in records \cup {r}
  BY <1>1
<1>3. \A o, q \in Places(after) : At(after, o) = At(after, q) => o = q
  BY <1>1
<1>4. \A s \in records \cup {r} : \E q \in Places(after) : At(after, q) = s
  BY <1>1
<1> QED
  BY <1>2, <1>3, <1>4, OnceMeans

(* The holders, as a function of what they hold. *)
Parts(b, f, o, r, rs, hs, ps) ==
  [h \in {"buffer", "file", "out", "returned"} \X {0}
         \cup {"run"} \X DOMAIN rs \cup {"head", "page"} \X DOMAIN hs |->
     CASE h[1] = "buffer" -> b
       [] h[1] = "file" -> f
       [] h[1] = "out" -> o
       [] h[1] = "returned" -> r
       [] h[1] = "run" -> rs[h[2]].unread
       [] h[1] = "head" -> hs[h[2]]
       [] h[1] = "page" -> ps[h[2]]]

HeldNow == Parts(buffer, sortedFile.unread, pass.out, returned, runs, pass.heads, pass.buffers)

LEMMA HeldParts == Held = HeldNow
  BY DEF Held, Holders, Parts, HeldNow

LEMMA PartsAre ==
  ASSUME NEW b, NEW f, NEW o, NEW r, NEW rs, NEW hs, NEW ps
  PROVE  LET H == Parts(b, f, o, r, rs, hs, ps)
         IN /\ \A h : h \in DOMAIN H <=>
                 \/ h \in {<<"buffer", 0>>, <<"file", 0>>, <<"out", 0>>, <<"returned", 0>>}
                 \/ \E i \in DOMAIN rs : h = <<"run", i>>
                 \/ \E i \in DOMAIN hs : h = <<"head", i>> \/ h = <<"page", i>>
            /\ H[<<"buffer", 0>>] = b /\ H[<<"file", 0>>] = f
            /\ H[<<"out", 0>>] = o /\ H[<<"returned", 0>>] = r
            /\ \A i \in DOMAIN rs : H[<<"run", i>>] = rs[i].unread
            /\ \A i \in DOMAIN hs : H[<<"head", i>>] = hs[i] /\ H[<<"page", i>>] = ps[i]
  BY DEF Parts

(* Holders that hold the same before and after. *)
Same(T, kind, i, x, y) == <<kind, i>> \in T \/ y = x

LEMMA SameBut ==
  ASSUME NEW b, NEW f, NEW o, NEW r, NEW rs, NEW hs, NEW ps,
         NEW b2, NEW f2, NEW o2, NEW r2, NEW rs2, NEW hs2, NEW ps2, NEW T,
         Same(T, "buffer", 0, b, b2), Same(T, "file", 0, f, f2),
         Same(T, "out", 0, o, o2), Same(T, "returned", 0, r, r2),
         \A i \in DOMAIN rs \cup DOMAIN rs2 :
           \/ <<"run", i>> \in T
           \/ i \in DOMAIN rs /\ i \in DOMAIN rs2 /\ rs2[i].unread = rs[i].unread,
         \A i \in DOMAIN hs \cup DOMAIN hs2 :
           \/ <<"head", i>> \in T /\ <<"page", i>> \in T
           \/ /\ i \in DOMAIN hs /\ i \in DOMAIN hs2
              /\ Same(T, "head", i, hs[i], hs2[i]) /\ Same(T, "page", i, ps[i], ps2[i])
  PROVE  LET H == Parts(b, f, o, r, rs, hs, ps)
             J == Parts(b2, f2, o2, r2, rs2, hs2, ps2)
         IN /\ \A h : h \notin T => (h \in DOMAIN J <=> h \in DOMAIN H)
            /\ \A h \in DOMAIN J : h \notin T => J[h] = H[h]
<1> DEFINE H == Parts(b, f, o, r, rs, hs, ps)
           J == Parts(b2, f2, o2, r2, rs2, hs2, ps2)
           singles == {<<"buffer", 0>>, <<"file", 0>>, <<"out", 0>>, <<"returned", 0>>}
<1>1. /\ \A h : h \in DOMAIN H <=>
            \/ h \in singles
            \/ \E i \in DOMAIN rs : h = <<"run", i>>
            \/ \E i \in DOMAIN hs : h = <<"head", i>> \/ h = <<"page", i>>
      /\ H[<<"buffer", 0>>] = b /\ H[<<"file", 0>>] = f
      /\ H[<<"out", 0>>] = o /\ H[<<"returned", 0>>] = r
      /\ \A i \in DOMAIN rs : H[<<"run", i>>] = rs[i].unread
      /\ \A i \in DOMAIN hs : H[<<"head", i>>] = hs[i] /\ H[<<"page", i>>] = ps[i]
  BY PartsAre
<1>2. /\ \A h : h \in DOMAIN J <=>
            \/ h \in singles
            \/ \E i \in DOMAIN rs2 : h = <<"run", i>>
            \/ \E i \in DOMAIN hs2 : h = <<"head", i>> \/ h = <<"page", i>>
      /\ J[<<"buffer", 0>>] = b2 /\ J[<<"file", 0>>] = f2
      /\ J[<<"out", 0>>] = o2 /\ J[<<"returned", 0>>] = r2
      /\ \A i \in DOMAIN rs2 : J[<<"run", i>>] = rs2[i].unread
      /\ \A i \in DOMAIN hs2 : J[<<"head", i>>] = hs2[i] /\ J[<<"page", i>>] = ps2[i]
  BY PartsAre
<1> HIDE DEF H, J
<1>3. \A h \in singles \ T : h \in DOMAIN J /\ h \in DOMAIN H /\ J[h] = H[h]
  BY <1>1, <1>2 DEF Same
<1> HIDE DEF singles
<1>4. \A i \in DOMAIN rs \cup DOMAIN rs2 : <<"run", i>> \notin T =>
        /\ <<"run", i>> \in DOMAIN J /\ <<"run", i>> \in DOMAIN H
        /\ J[<<"run", i>>] = H[<<"run", i>>]
  BY <1>1, <1>2
<1>5. \A i \in DOMAIN hs \cup DOMAIN hs2 : <<"head", i>> \notin T =>
        /\ <<"head", i>> \in DOMAIN J /\ <<"head", i>> \in DOMAIN H
        /\ J[<<"head", i>>] = H[<<"head", i>>]
  BY <1>1, <1>2 DEF Same
<1>6. \A i \in DOMAIN hs \cup DOMAIN hs2 : <<"page", i>> \notin T =>
        /\ <<"page", i>> \in DOMAIN J /\ <<"page", i>> \in DOMAIN H
        /\ J[<<"page", i>>] = H[<<"page", i>>]
  BY <1>1, <1>2 DEF Same
<1>7. ASSUME NEW h, h \notin T, h \in DOMAIN J \/ h \in DOMAIN H
      PROVE  h \in DOMAIN J /\ h \in DOMAIN H /\ J[h] = H[h]
  <2>1. CASE h \in singles
    BY <1>3, <1>7, <2>1
  <2>2. CASE \E i \in DOMAIN rs \cup DOMAIN rs2 : h = <<"run", i>>
    BY <1>4, <1>7, <2>2
  <2>3. CASE \E i \in DOMAIN hs \cup DOMAIN hs2 : h = <<"head", i>>
    BY <1>5, <1>7, <2>3
  <2>4. CASE \E i \in DOMAIN hs \cup DOMAIN hs2 : h = <<"page", i>>
    BY <1>6, <1>7, <2>4
  <2> QED
    BY <1>1, <1>2, <1>7, <2>1, <2>2, <2>3, <2>4
<1> QED
  BY <1>7 DEF H, J

-----------------------------------------------------------------------------
(* The invariant: which holders are in use in which phase,                 *)
Phases ==
  /\ phase # "sorted" => sortedFile = NoFile /\ returned = <<>> /\ ended = FALSE
  /\ phase # "merging" => pass = NoPass
  /\ phase = "insertion" => Len(buffer) < Capacity
  /\ phase = "merging" => buffer = <<>> /\ runs # <<>>
  /\ phase = "sorted" => runs = <<>> /\ (sortedFile = NoFile \/ buffer = <<>>)
  /\ ended => buffer = <<>> /\ sortedFile.unread = <<>>

(* that a run that is not being merged holds records, and one that has     *)
(* left the queue holds none, in its page or in its file,                  *)
PassRuns ==
  /\ \A i \in DOMAIN runs :
       /\ runs[i].eof => runs[i].unread = <<>>
       /\ i > Len(pass.heads) => runs[i].unread # <<>>
  /\ pass # NoPass =>
       /\ Len(pass.heads) = Merged
       /\ Queued # {} \/ pass.out # <<>>
       /\ \A i \in DOMAIN pass.heads :
            pass.heads[i] = <<>> => pass.buffers[i] = <<>> /\ runs[i].unread = <<>>

(* and where the records are that fill one buffer or less.                 *)
OneRun ==
  Len(inserted) <= Capacity =>
    /\ phase # "merging"
    /\ phase = "insertion" /\ runs = <<>> => Len(buffer) = Len(inserted)
    /\ phase = "insertion" /\ runs # <<>> =>
         /\ Len(runs) = 1 /\ buffer = <<>> /\ Len(inserted) = Capacity
         /\ IsAscending(runs[1].unread, inserted)
    /\ phase = "sorted" =>
         \A s \in {buffer, sortedFile.unread} :
           /\ IsAscending(s, inserted)
           /\ \A i \in DOMAIN returned, j \in DOMAIN s : inserted[returned[i]] <= inserted[s[j]]
    /\ IsAscending(returned, inserted)

IInv == TypeOK /\ Phases /\ PassRuns /\ NothingLost /\ OneRun

-----------------------------------------------------------------------------
(* What sorting and reading do. *)
LEMMA Arranging ==
  ASSUME NEW S, NEW s \in Seq(S), NEW keys, NEW t \in Ascending(s, keys)
  PROVE  /\ t \in Seq(S) /\ Len(t) = Len(s)
         /\ IsAscending(t, keys)
         /\ \E p \in Bijection(1 .. Len(s), 1 .. Len(s)) : t = [i \in 1 .. Len(s) |-> s[p[i]]]
<1>1. PICK p \in Bijection(1 .. Len(s), 1 .. Len(s)) : t = [i \in 1 .. Len(s) |-> s[p[i]]]
  BY DEF Ascending, Arranged
<1>2. p \in [1 .. Len(s) -> 1 .. Len(s)]
  BY DEF Bijection, Injection
<1>3. t \in Seq(S) /\ Len(t) = Len(s)
  BY <1>1, <1>2
<1> QED
  BY <1>1, <1>3 DEF Ascending

LEMMA Reading ==
  ASSUME NEW file \in File, NEW k \in Nat
  PROVE  /\ Got(file, k) \in Seq(Record)
         /\ After(file, k) \in File
         /\ Len(Got(file, k)) = IF k <= Len(file.unread) THEN k ELSE Len(file.unread)
         /\ \A j \in 1 .. Len(Got(file, k)) : Got(file, k)[j] = file.unread[j]
         /\ Len(After(file, k).unread) = Len(file.unread) - Len(Got(file, k))
         /\ \A j \in 1 .. Len(After(file, k).unread) :
              After(file, k).unread[j] = file.unread[j + Len(Got(file, k))]
         /\ (file.eof => file.unread = <<>>) => (After(file, k).eof => After(file, k).unread = <<>>)
<1> DEFINE n == IF k <= Len(file.unread) THEN k ELSE Len(file.unread)
           u == file.unread
<1>1. u \in Seq(Record) /\ Len(u) \in Nat /\ n \in Nat /\ n <= Len(u)
  BY DEF File
<1>2. /\ Got(file, k) \in Seq(Record) /\ Len(Got(file, k)) = n
      /\ \A j \in 1 .. n : Got(file, k)[j] = u[j]
  BY <1>1 DEF Got
<1>3. /\ After(file, k).unread = SubSeq(u, n + 1, Len(u))
      /\ After(file, k).eof = (file.eof \/ Len(u) < k)
      /\ After(file, k) = [unread |-> SubSeq(u, n + 1, Len(u)), eof |-> file.eof \/ Len(u) < k]
  BY <1>2 DEF After
<1>8. n = Len(u) \/ (n = k /\ k <= Len(u))
  <2>1. CASE k <= Len(u)
    BY <2>1
  <2>2. CASE ~(k <= Len(u))
    BY <2>2
  <2> QED
    BY <2>1, <2>2
<1> HIDE DEF n, u
<1> DEFINE v == SubSeq(u, n + 1, Len(u))
<1>4. v \in Seq(Record) /\ Len(v) = Len(u) - n /\ \A j \in 1 .. Len(v) : v[j] = u[j + n]
  <2>1. n + 1 \in Int /\ Len(u) \in Int /\ \A j \in n + 1 .. Len(u) : u[j] \in Record
    BY <1>1
  <2>2. /\ v \in Seq(Record)
        /\ Len(v) = IF n + 1 <= Len(u) THEN Len(u) - (n + 1) + 1 ELSE 0
        /\ \A j \in 1 .. Len(u) - (n + 1) + 1 : v[j] = u[n + 1 + j - 1]
    BY <2>1, SubSeqProperties
  <2> QED
    BY <1>1, <2>2
<1>5. After(file, k).eof => n = Len(u) \/ file.eof
  BY <1>1, <1>3, <1>8 DEF File
<1>6. ASSUME file.eof => u = <<>>, After(file, k).eof
      PROVE  v = <<>>
  <2>1. n = Len(u)
    BY <1>1, <1>5, <1>6
  <2> QED
    BY <1>1, <2>1, SubSeqEmpty
<1>7. Len(Got(file, k)) = IF k <= Len(file.unread) THEN k ELSE Len(file.unread)
  BY <1>2 DEF n, u
<1> QED
  BY <1>1, <1>2, <1>3, <1>4, <1>6, <1>7 DEF u, File

LEMMA Sizes == Capacity \in Nat \ {0} /\ PageSize \in Nat \ {0} /\ BufferPages \in Nat \ {0}
  BY SizeAssumption DEF Capacity

(* The first state. *)
LEMMA InitHolds == Init => TypeOK /\ Phases /\ PassRuns /\ OneRun
<1> SUFFICES ASSUME Init PROVE TypeOK /\ Phases /\ PassRuns /\ OneRun
  OBVIOUS
<1>1. TypeOK
  <2>1. \A S : <<>> \in Seq(S)
    BY EmptySeq
  <2>2. pass = NoPass /\ Len(pass.heads) = 0 /\ pass.buffers = pass.heads /\ DOMAIN pass.heads = {}
    BY DEF Init, NoPass
  <2>3. pass \in [heads : Seq(Seq(Record)), buffers : Seq(Seq(Record)), out : Seq(Record)]
    BY <2>1, <2>2 DEF NoPass
  <2>4. sortedFile \in File
    BY <2>1 DEF Init, NoFile, File
  <2>5. phase = "insertion" /\ inserted = <<>> /\ buffer = <<>> /\ runs = <<>> /\ returned = <<>> /\ ended = FALSE
    BY DEF Init
  <2>6. Len(pass.heads) <= BufferPages /\ Len(pass.buffers) = Len(pass.heads)
    BY <2>2, Sizes
  <2> QED
    BY <2>1, <2>2, <2>3, <2>4, <2>5, <2>6 DEF TypeOK
<1>2. Phases /\ PassRuns
  BY Sizes DEF Init, Phases, PassRuns, NoFile, NoPass
<1>3. OneRun
  BY Sizes DEF Init, OneRun, IsAscending
<1> QED
  BY <1>1, <1>2, <1>3

(* A record inserted stays the same record. *)
LEMMA MoreRecords ==
  ASSUME TypeOK, NEW key \in Key, inserted' = Append(inserted, key)
  PROVE  /\ inserted' \in Seq(Key)
         /\ Len(inserted) \in Nat /\ Len(inserted') = Len(inserted) + 1
         /\ \A i \in Record : inserted'[i] = inserted[i]
         /\ Record' = Record \cup {Len(inserted')} /\ Len(inserted') \notin Record
         /\ Seq(Record) \subseteq Seq(Record')
         /\ File \subseteq File' /\ Seq(File) \subseteq Seq(File')
<1>1. /\ inserted' \in Seq(Key)
      /\ Len(inserted) \in Nat /\ Len(inserted') = Len(inserted) + 1
      /\ \A i \in Record : inserted'[i] = inserted[i]
  BY DEF TypeOK, Record
<1>2. Record' = Record \cup {Len(inserted')} /\ Len(inserted') \notin Record
  BY <1>1 DEF Record
<1>3. Seq(Record) \subseteq Seq(Record')
  BY <1>2
<1>4. File \subseteq File'
  BY <1>3 DEF File
<1>5. Seq(File) \subseteq Seq(File')
  BY <1>4
<1> QED
  BY <1>1, <1>2, <1>3, <1>4, <1>5

LEMMA InsertTyped ==
  ASSUME TypeOK, Phases, PassRuns, OneRun, NEW key \in Key, Insert(key)
  PROVE  TypeOK' /\ Phases' /\ PassRuns' /\ OneRun'
<1> USE Sizes
<1> DEFINE filled == Append(buffer, Len(inserted'))
<1>1. /\ phase = "insertion" /\ inserted' = Append(inserted, key)
      /\ UNCHANGED <<phase, sortedFile, pass, returned, ended>>
      /\ pass = NoPass /\ sortedFile = NoFile /\ returned = <<>> /\ ended = FALSE
      /\ Len(buffer) < Capacity
  BY DEF Insert, Phases
<1>2. /\ inserted' \in Seq(Key)
      /\ Len(inserted) \in Nat /\ Len(inserted') = Len(inserted) + 1
      /\ Record' = Record \cup {Len(inserted')} /\ Len(inserted') \notin Record
      /\ Seq(Record) \subseteq Seq(Record')
      /\ Seq(File) \subseteq Seq(File')
  BY <1>1, MoreRecords
<1>3. /\ filled \in Seq(Record') /\ Len(filled) = Len(buffer) + 1
      /\ buffer \in Seq(Record) /\ runs \in Seq(File) /\ Len(buffer) \in Nat
  BY <1>2 DEF TypeOK
<1>4. CASE Len(filled) >= Capacity
  <2>1. buffer' = <<>> /\ \E sorted \in Ascending(filled, inserted') : runs' = Append(runs, Run(sorted))
    BY <1>4 DEF Insert
  <2>2. PICK sorted \in Ascending(filled, inserted') : runs' = Append(runs, Run(sorted))
    BY <2>1
  <2>3. sorted \in Seq(Record') /\ Len(sorted) = Len(filled) /\ IsAscending(sorted, inserted')
    BY <1>3, Arranging
  <2>4. Run(sorted) \in File'
    BY <2>3 DEF Run, File
  <2>5. /\ runs' \in Seq(File') /\ Len(runs') = Len(runs) + 1 /\ Len(runs) \in Nat
        /\ \A i \in 1 .. Len(runs) : runs'[i] = runs[i]
        /\ runs'[Len(runs) + 1] = Run(sorted)
    BY <1>2, <1>3, <2>2, <2>4
  <2>6. TypeOK'
    BY <1>1, <1>2, <2>1, <2>5, EmptySeq DEF TypeOK, NoFile, NoPass, File
  <2>7. Phases'
    BY <1>1, <2>1, <2>5 DEF Phases
  <2>8. PassRuns'
    <3>1. pass' = NoPass /\ Len(pass'.heads) = 0 /\ Len(pass.heads) = 0
      BY <1>1 DEF NoPass
    <3>2. Run(sorted).eof = FALSE /\ Run(sorted).unread # <<>>
      BY <1>3, <1>4, <2>3, EmptySeq DEF Run
    <3>3. \A i \in DOMAIN runs' :
            (runs'[i].eof => runs'[i].unread = <<>>) /\ (i > 0 => runs'[i].unread # <<>>)
      BY <1>3, <2>5, <3>1, <3>2 DEF PassRuns
    <3> QED
      BY <3>1, <3>3 DEF PassRuns
  <2>9. OneRun'
    <3>1. CASE runs = <<>>
      <4>1. Len(runs') = 1 /\ runs'[1].unread = sorted /\ runs' # <<>>
        <5>1. Len(runs) = 0
          BY <3>1
        <5>2. Len(runs') = 1 /\ runs'[1] = Run(sorted)
          BY <2>5, <5>1
        <5> QED
          BY <5>2 DEF Run
      <4>2. Len(inserted') <= Capacity => Len(inserted') = Capacity
        BY <1>1, <1>2, <1>3, <1>4, <3>1 DEF OneRun
      <4>3. IsAscending(returned', inserted')
        BY <1>1 DEF IsAscending
      <4> QED
        BY <1>1, <2>1, <2>3, <4>1, <4>2, <4>3 DEF OneRun
    <3>2. CASE runs # <<>>
      BY <1>1, <1>2, <3>2 DEF OneRun
    <3> QED
      BY <3>1, <3>2
  <2> QED
    BY <2>6, <2>7, <2>8, <2>9
<1>5. CASE ~(Len(filled) >= Capacity)
  <2>1. buffer' = filled /\ UNCHANGED runs
    BY <1>5 DEF Insert
  <2>2. TypeOK'
    BY <1>1, <1>2, <1>3, <2>1, EmptySeq DEF TypeOK, NoFile, NoPass, File
  <2>3. Phases' /\ PassRuns'
    BY <1>1, <1>3, <1>5, <2>1 DEF Phases, PassRuns, NoPass
  <2>4. OneRun'
    BY <1>1, <1>2, <1>3, <1>5, <2>1 DEF OneRun, IsAscending
  <2> QED
    BY <2>2, <2>3, <2>4
<1> QED
  BY <1>4, <1>5

LEMMA SortInMemoryTyped ==
  ASSUME TypeOK, Phases, PassRuns, OneRun, SortInMemory
  PROVE  TypeOK' /\ Phases' /\ PassRuns' /\ OneRun'
<1>1. /\ phase = "insertion" /\ runs = <<>> /\ phase' = "sorted"
      /\ buffer' \in Ascending(buffer, inserted)
      /\ UNCHANGED <<runs, sortedFile, pass, inserted, returned, ended>>
      /\ pass = NoPass /\ sortedFile = NoFile /\ returned = <<>> /\ ended = FALSE
  BY DEF SortInMemory, Phases
<1>2. buffer' \in Seq(Record) /\ Len(buffer') = Len(buffer) /\ IsAscending(buffer', inserted)
  BY <1>1, Arranging DEF TypeOK
<1>3. TypeOK'
  BY <1>1, <1>2 DEF TypeOK, Record, File
<1>4. Phases' /\ PassRuns'
  BY <1>1 DEF Phases, PassRuns, NoPass, NoFile
<1>5. OneRun'
  <2>1. /\ sortedFile'.unread = <<>> /\ returned' = <<>>
        /\ IsAscending(sortedFile'.unread, inserted') /\ IsAscending(returned', inserted')
        /\ IsAscending(buffer', inserted')
    BY <1>1, <1>2 DEF NoFile, IsAscending
  <2> QED
    BY <1>1, <2>1 DEF OneRun
<1> QED
  BY <1>3, <1>4, <1>5

(* A run that is written holds what it is written from. *)
LEMMA LastRun ==
  ASSUME TypeOK, Phases, PassRuns, phase = "insertion", runs # <<>>,
         NEW rest \in Ascending(buffer, inserted)
  PROVE  /\ LastRuns(rest) \in Seq(File)
         /\ rest \in Seq(Record) /\ Len(rest) = Len(buffer)
         /\ Len(LastRuns(rest)) = IF buffer = <<>> THEN Len(runs) ELSE Len(runs) + 1
         /\ \A i \in 1 .. Len(runs) : LastRuns(rest)[i] = runs[i]
         /\ buffer # <<>> => LastRuns(rest)[Len(runs) + 1] = Run(rest)
         /\ \A i \in 1 .. Len(LastRuns(rest)) :
              /\ LastRuns(rest)[i].eof => LastRuns(rest)[i].unread = <<>>
              /\ LastRuns(rest)[i].unread # <<>>
<1>1. rest \in Seq(Record) /\ Len(rest) = Len(buffer) /\ buffer \in Seq(Record) /\ runs \in Seq(File)
  BY Arranging DEF TypeOK
<1>2. Run(rest) \in File /\ Run(rest).eof = FALSE /\ Run(rest).unread = rest
  BY <1>1 DEF Run, File
<1>3. \A i \in 1 .. Len(runs) :
        (runs[i].eof => runs[i].unread = <<>>) /\ runs[i].unread # <<>>
  BY <1>1 DEF PassRuns, Phases, NoPass
<1>4. CASE buffer = <<>>
  <2>1. rest = <<>>
    BY <1>1, <1>4
  <2> QED
    BY <1>1, <1>3, <1>4, <2>1 DEF LastRuns
<1>5. CASE buffer # <<>>
  <2>1. rest # <<>>
    BY <1>1, <1>5
  <2>2. LastRuns(rest) = Append(runs, Run(rest))
    BY <2>1 DEF LastRuns
  <2>3. /\ LastRuns(rest) \in Seq(File) /\ Len(LastRuns(rest)) = Len(runs) + 1
        /\ \A i \in 1 .. Len(runs) : LastRuns(rest)[i] = runs[i]
        /\ LastRuns(rest)[Len(runs) + 1] = Run(rest) /\ Len(runs) \in Nat
    BY <1>1, <1>2, <2>2
  <2>4. \A i \in 1 .. Len(LastRuns(rest)) :
          /\ LastRuns(rest)[i].eof => LastRuns(rest)[i].unread = <<>>
          /\ LastRuns(rest)[i].unread # <<>>
    BY <1>2, <1>3, <2>1, <2>3
  <2> QED
    BY <1>1, <1>5, <2>3, <2>4
<1> QED
  BY <1>4, <1>5

LEMMA SortRunsTyped ==
  ASSUME TypeOK, Phases, PassRuns, OneRun, SortRuns
  PROVE  TypeOK' /\ Phases' /\ PassRuns' /\ OneRun'
<1>1. /\ phase = "insertion" /\ runs # <<>> /\ buffer' = <<>>
      /\ UNCHANGED <<pass, inserted, returned, ended>>
      /\ pass = NoPass /\ sortedFile = NoFile /\ returned = <<>> /\ ended = FALSE
  BY DEF SortRuns, Phases
<1>2. PICK rest \in Ascending(buffer, inserted) :
        IF Len(LastRuns(rest)) = 1
        THEN phase' = "sorted" /\ sortedFile' = LastRuns(rest)[1] /\ runs' = <<>>
        ELSE phase' = "merging" /\ runs' = LastRuns(rest) /\ UNCHANGED sortedFile
  BY DEF SortRuns
<1>3. /\ LastRuns(rest) \in Seq(File)
      /\ Len(LastRuns(rest)) = IF buffer = <<>> THEN Len(runs) ELSE Len(runs) + 1
      /\ \A i \in 1 .. Len(runs) : LastRuns(rest)[i] = runs[i]
      /\ \A i \in 1 .. Len(LastRuns(rest)) :
           /\ LastRuns(rest)[i].eof => LastRuns(rest)[i].unread = <<>>
           /\ LastRuns(rest)[i].unread # <<>>
  BY <1>1, LastRun
<1>4. runs \in Seq(File) /\ Len(runs) \in Nat \ {0}
  BY <1>1, EmptySeq DEF TypeOK
<1>5. Record' = Record /\ File' = File /\ Seq(Record)' = Seq(Record)
  BY <1>1 DEF Record, File
<1>6. Len(pass.heads) = 0 /\ pass.heads = <<>>
  BY <1>1 DEF NoPass
<1>7. CASE Len(LastRuns(rest)) = 1
  <2>1. /\ phase' = "sorted" /\ sortedFile' = LastRuns(rest)[1] /\ runs' = <<>>
        /\ sortedFile' \in File
    BY <1>2, <1>3, <1>7
  <2>2. TypeOK'
    BY <1>1, <1>5, <2>1, EmptySeq DEF TypeOK
  <2>3. Phases' /\ PassRuns'
    BY <1>1, <2>1 DEF Phases, PassRuns, NoPass
  <2>4. OneRun'
    <3>1. Len(runs) = 1 /\ buffer = <<>> /\ sortedFile' = runs[1]
      BY <1>3, <1>4, <1>7, <2>1
    <3>2. Len(inserted) <= Capacity => IsAscending(sortedFile'.unread, inserted)
      BY <1>1, <3>1 DEF OneRun
    <3>3. IsAscending(buffer', inserted') /\ IsAscending(returned', inserted')
      BY <1>1 DEF IsAscending
    <3> QED
      BY <1>1, <2>1, <3>2, <3>3 DEF OneRun
  <2> QED
    BY <2>2, <2>3, <2>4
<1>8. CASE Len(LastRuns(rest)) # 1
  <2>1. phase' = "merging" /\ runs' = LastRuns(rest) /\ UNCHANGED sortedFile
    BY <1>2, <1>8
  <2>2. TypeOK'
    BY <1>1, <1>3, <1>5, <2>1, EmptySeq DEF TypeOK
  <2>3. Phases'
    BY <1>1, <1>3, <1>4, <2>1 DEF Phases
  <2>4. PassRuns'
    BY <1>1, <1>3, <1>6, <2>1 DEF PassRuns
  <2>5. OneRun'
    <3>1. SUFFICES ~(Len(inserted) <= Capacity)
      BY <1>1 DEF OneRun
    <3>2. Len(runs) # 1 \/ buffer # <<>>
      BY <1>3, <1>4, <1>8
    <3> QED
      BY <1>1, <3>2 DEF OneRun
  <2> QED
    BY <2>2, <2>3, <2>4, <2>5
<1> QED
  BY <1>7, <1>8

(* What is returned and what is left stay in order when the next record is *)
(* handed out.                                                             *)
Ordered(r, u) ==
  /\ IsAscending(r, inserted) /\ IsAscending(u, inserted)
  /\ \A i \in DOMAIN r, j \in DOMAIN u : inserted[r[i]] <= inserted[u[j]]

LEMMA HandedOut ==
  ASSUME NEW r \in Seq(Record), NEW u \in Seq(Record),
         NEW v \in Seq(Record), NEW q \in Seq(Record),
         Len(u) > 0, Len(v) = Len(u) - 1, \A j \in 1 .. Len(v) : v[j] = u[j + 1],
         q = Append(r, u[1]), Ordered(r, u)
  PROVE  Ordered(q, v)
<1>1. /\ Len(r) \in Nat /\ Len(u) \in Nat /\ Len(v) \in Nat
      /\ DOMAIN r = 1 .. Len(r) /\ DOMAIN u = 1 .. Len(u) /\ DOMAIN v = 1 .. Len(u) - 1
      /\ DOMAIN q = 1 .. Len(r) + 1
      /\ \A i \in 1 .. Len(r) : q[i] = r[i]
      /\ q[Len(r) + 1] = u[1]
  OBVIOUS
<1>2. IsAscending(v, inserted)
  <2>1. SUFFICES ASSUME NEW i \in 1 .. Len(u) - 1, NEW j \in 1 .. Len(u) - 1, i < j
                 PROVE  inserted[v[i]] <= inserted[v[j]]
    BY <1>1 DEF IsAscending
  <2>2. v[i] = u[i + 1] /\ v[j] = u[j + 1] /\ i + 1 \in DOMAIN u /\ j + 1 \in DOMAIN u /\ i + 1 < j + 1
    BY <1>1, <2>1
  <2> QED
    BY <2>2 DEF Ordered, IsAscending
<1>3. IsAscending(q, inserted)
  <2>1. SUFFICES ASSUME NEW i \in 1 .. Len(r) + 1, NEW j \in 1 .. Len(r) + 1, i < j
                 PROVE  inserted[q[i]] <= inserted[q[j]]
    BY <1>1 DEF IsAscending
  <2>2. i \in DOMAIN r /\ q[i] = r[i]
    BY <1>1, <2>1
  <2>3. CASE j = Len(r) + 1
    BY <1>1, <2>2, <2>3 DEF Ordered
  <2>4. CASE j # Len(r) + 1
    <3>1. j \in DOMAIN r /\ q[j] = r[j]
      BY <1>1, <2>4
    <3> QED
      BY <2>1, <2>2, <3>1 DEF Ordered, IsAscending
  <2> QED
    BY <2>3, <2>4
<1>4. \A i \in DOMAIN q, j \in DOMAIN v : inserted[q[i]] <= inserted[v[j]]
  <2>1. SUFFICES ASSUME NEW i \in 1 .. Len(r) + 1, NEW j \in 1 .. Len(u) - 1
                 PROVE  inserted[q[i]] <= inserted[v[j]]
    BY <1>1
  <2>2. v[j] = u[j + 1] /\ j + 1 \in DOMAIN u /\ 1 \in DOMAIN u /\ 1 < j + 1
    BY <1>1
  <2>3. CASE i = Len(r) + 1
    BY <1>1, <2>2, <2>3 DEF Ordered, IsAscending
  <2>4. CASE i # Len(r) + 1
    <3>1. i \in DOMAIN r /\ q[i] = r[i]
      BY <1>1, <2>4
    <3> QED
      BY <2>2, <3>1 DEF Ordered
  <2> QED
    BY <2>3, <2>4
<1> QED
  BY <1>2, <1>3, <1>4 DEF Ordered

LEMMA GetNextRecordTyped ==
  ASSUME TypeOK, Phases, PassRuns, OneRun, GetNextRecord
  PROVE  TypeOK' /\ Phases' /\ PassRuns' /\ OneRun'
<1>1. /\ phase = "sorted" /\ UNCHANGED <<phase, runs, pass, inserted, ended>>
      /\ pass = NoPass /\ runs = <<>>
      /\ Record' = Record /\ File' = File
  BY DEF GetNextRecord, Phases, Record, File
<1>2. /\ buffer \in Seq(Record) /\ sortedFile \in [unread : Seq(Record), eof : BOOLEAN]
      /\ returned \in Seq(Record)
  BY DEF TypeOK, File
<1>3. PassRuns'
  BY <1>1 DEF PassRuns, NoPass
<1>4. CASE FromFile
  <2> DEFINE u == sortedFile.unread
  <2>1. /\ u # <<>> /\ returned' = Append(returned, Head(u)) /\ sortedFile' = After(sortedFile, 1)
        /\ UNCHANGED buffer /\ buffer = <<>>
    BY <1>4 DEF GetNextRecord, FromFile, Phases
  <2>2. u \in Seq(Record) /\ Len(u) \in Nat /\ Len(u) > 0 /\ Head(u) = u[1] /\ Head(u) \in Record
    BY <1>2, <2>1, EmptySeq
  <2>3. /\ sortedFile' \in File /\ Len(Got(sortedFile, 1)) = 1
        /\ Len(sortedFile'.unread) = Len(u) - 1
        /\ \A j \in 1 .. Len(u) - 1 : sortedFile'.unread[j] = u[j + 1]
        /\ sortedFile'.unread \in Seq(Record)
    <3>1. /\ After(sortedFile, 1) \in File
          /\ Len(Got(sortedFile, 1)) = IF 1 <= Len(sortedFile.unread) THEN 1 ELSE Len(sortedFile.unread)
          /\ Len(After(sortedFile, 1).unread) = Len(sortedFile.unread) - Len(Got(sortedFile, 1))
          /\ \A j \in 1 .. Len(After(sortedFile, 1).unread) :
               After(sortedFile, 1).unread[j] = sortedFile.unread[j + Len(Got(sortedFile, 1))]
      BY Reading DEF TypeOK
    <3>2. Len(Got(sortedFile, 1)) = 1
      BY <2>2, <3>1
    <3> QED
      BY <2>1, <3>1, <3>2 DEF File
  <2>4. /\ returned' \in Seq(Record) /\ Len(returned') = Len(returned) + 1
        /\ \A i \in 1 .. Len(returned) : returned'[i] = returned[i]
        /\ returned'[Len(returned) + 1] = u[1]
    BY <1>2, <2>1, <2>2
  <2>5. TypeOK'
    BY <1>1, <2>1, <2>3, <2>4 DEF TypeOK
  <2>6. Phases'
    BY <1>1, <2>1, <2>2 DEF Phases
  <2>7. OneRun'
    <3>1. SUFFICES ASSUME Len(inserted) <= Capacity PROVE OneRun'
      BY <1>1 DEF OneRun
    <3>2. Ordered(returned, u)
      BY <1>1, <3>1 DEF OneRun, Ordered
    <3>3. Ordered(returned', sortedFile'.unread)
      <4>1. /\ returned \in Seq(Record) /\ u \in Seq(Record) /\ Len(u) > 0
            /\ sortedFile'.unread \in Seq(Record) /\ returned' \in Seq(Record)
            /\ Len(sortedFile'.unread) = Len(u) - 1
            /\ \A j \in 1 .. Len(sortedFile'.unread) : sortedFile'.unread[j] = u[j + 1]
            /\ returned' = Append(returned, u[1])
        BY <1>2, <2>1, <2>2, <2>3, <2>4
      <4> QED
        BY <3>2, <4>1, HandedOut
    <3>4. IsAscending(buffer, inserted) /\ DOMAIN buffer = {}
      BY <2>1 DEF IsAscending
    <3> QED
      BY <1>1, <2>1, <3>3, <3>4 DEF OneRun, Ordered
  <2> QED
    BY <1>3, <2>5, <2>6, <2>7
<1>5. CASE ~FromFile
  <2>1. /\ buffer # <<>> /\ returned' = Append(returned, Head(buffer)) /\ buffer' = Tail(buffer)
        /\ UNCHANGED sortedFile /\ sortedFile = NoFile
    BY <1>5 DEF GetNextRecord, FromFile
  <2>2. /\ Len(buffer) \in Nat /\ Len(buffer) > 0 /\ Head(buffer) = buffer[1] /\ Head(buffer) \in Record
        /\ buffer' \in Seq(Record) /\ Len(buffer') = Len(buffer) - 1
        /\ \A j \in 1 .. Len(buffer) - 1 : buffer'[j] = buffer[j + 1]
    BY <1>2, <2>1, EmptySeq
  <2>4. /\ returned' \in Seq(Record) /\ Len(returned') = Len(returned) + 1
        /\ \A i \in 1 .. Len(returned) : returned'[i] = returned[i]
        /\ returned'[Len(returned) + 1] = buffer[1]
    BY <1>2, <2>1, <2>2
  <2>5. TypeOK'
    BY <1>1, <2>1, <2>2, <2>4 DEF TypeOK
  <2>6. Phases'
    BY <1>1, <2>1, <2>2 DEF Phases
  <2>7. OneRun'
    <3>1. SUFFICES ASSUME Len(inserted) <= Capacity PROVE OneRun'
      BY <1>1 DEF OneRun
    <3>2. Ordered(returned, buffer)
      BY <1>1, <3>1 DEF OneRun, Ordered
    <3>3. Ordered(returned', buffer')
      BY <1>2, <2>1, <2>2, <2>4, <3>2, HandedOut
    <3>4. IsAscending(sortedFile.unread, inserted) /\ DOMAIN sortedFile.unread = {}
      BY <2>1 DEF IsAscending, NoFile
    <3> QED
      BY <1>1, <2>1, <3>3, <3>4 DEF OneRun, Ordered
  <2> QED
    BY <1>3, <2>5, <2>6, <2>7
<1> QED
  BY <1>4, <1>5

LEMMA EndOfStreamTyped ==
  ASSUME TypeOK, Phases, PassRuns, OneRun, EndOfStream
  PROVE  TypeOK' /\ Phases' /\ PassRuns' /\ OneRun'
<1>1. /\ phase = "sorted" /\ ended' = TRUE
      /\ UNCHANGED <<phase, buffer, runs, sortedFile, pass, inserted, returned>>
      /\ buffer = <<>> /\ sortedFile.unread = <<>>
  BY DEF EndOfStream, Phases, FromFile, NoFile
<1>2. TypeOK'
  BY <1>1 DEF TypeOK, Record, File
<1>3. Phases' /\ PassRuns' /\ OneRun'
  BY <1>1 DEF Phases, PassRuns, OneRun, Merged, Queued
<1> QED
  BY <1>2, <1>3

-----------------------------------------------------------------------------
(* The merge passes. *)
LEMMA PassSize ==
  ASSUME TypeOK, runs # <<>>
  PROVE  Merged \in 1 .. Len(runs) /\ Merged <= BufferPages /\ Len(runs) \in Nat \ {0}
<1>1. Len(runs) \in Nat \ {0}
  BY EmptySeq DEF TypeOK
<1> QED
  BY <1>1, Sizes DEF Merged

(* What holds of the runs at the start and at the end of a pass. *)
LEMMA FirstPage ==
  ASSUME TypeOK, Phases, PassRuns, BeginPass, NEW i \in 1 .. Merged
  PROVE  /\ runs[i] \in File /\ runs[i].unread # <<>> /\ Len(runs[i].unread) \in Nat \ {0}
         /\ Head(runs[i].unread) = runs[i].unread[1] /\ runs[i].unread[1] \in Record
         /\ LET got == Got(runs[i], PageSize)
            IN /\ got \in Seq(Record) /\ Len(got) \in 1 .. PageSize /\ Len(got) <= Len(runs[i].unread)
               /\ Tail(got) \in Seq(Record) /\ Len(Tail(got)) = Len(got) - 1
               /\ \A j \in 1 .. Len(got) - 1 : Tail(got)[j] = runs[i].unread[j + 1]
               /\ After(runs[i], PageSize) \in File
               /\ Len(After(runs[i], PageSize).unread) = Len(runs[i].unread) - Len(got)
               /\ \A j \in 1 .. Len(After(runs[i], PageSize).unread) :
                    After(runs[i], PageSize).unread[j] = runs[i].unread[j + Len(got)]
               /\ After(runs[i], PageSize).eof => After(runs[i], PageSize).unread = <<>>
<1>1. runs # <<>> /\ pass = NoPass /\ Merged \in 1 .. Len(runs) /\ Len(runs) \in Nat
  BY PassSize DEF BeginPass, Phases
<1>2. runs[i] \in File /\ i \in DOMAIN runs
  BY <1>1 DEF TypeOK
<1>3. runs[i].unread # <<>> /\ (runs[i].eof => runs[i].unread = <<>>)
  BY <1>1, <1>2 DEF PassRuns, NoPass
<1>4. /\ runs[i].unread \in Seq(Record) /\ Len(runs[i].unread) \in Nat \ {0}
      /\ Head(runs[i].unread) = runs[i].unread[1] /\ runs[i].unread[1] \in Record
  BY <1>2, <1>3, EmptySeq DEF File
<1> DEFINE got == Got(runs[i], PageSize)
<1>5. /\ got \in Seq(Record)
      /\ Len(got) = IF PageSize <= Len(runs[i].unread) THEN PageSize ELSE Len(runs[i].unread)
      /\ \A j \in 1 .. Len(got) : got[j] = runs[i].unread[j]
      /\ After(runs[i], PageSize) \in File
      /\ Len(After(runs[i], PageSize).unread) = Len(runs[i].unread) - Len(got)
      /\ \A j \in 1 .. Len(After(runs[i], PageSize).unread) :
           After(runs[i], PageSize).unread[j] = runs[i].unread[j + Len(got)]
      /\ After(runs[i], PageSize).eof => After(runs[i], PageSize).unread = <<>>
  BY <1>2, <1>3, Sizes, Reading
<1>6. Len(got) \in 1 .. PageSize /\ Len(got) <= Len(runs[i].unread)
  BY <1>4, <1>5, Sizes
<1> HIDE DEF got
<1>7. /\ Tail(got) \in Seq(Record) /\ Len(Tail(got)) = Len(got) - 1
      /\ \A j \in 1 .. Len(got) - 1 : Tail(got)[j] = got[j + 1]
  BY <1>5, <1>6
<1>8. \A j \in 1 .. Len(got) - 1 : Tail(got)[j] = runs[i].unread[j + 1]
  BY <1>5, <1>6, <1>7
<1> QED
  BY <1>2, <1>3, <1>4, <1>5, <1>6, <1>7, <1>8 DEF got

LEMMA BeginPassTyped ==
  ASSUME TypeOK, Phases, PassRuns, OneRun, BeginPass
  PROVE  TypeOK' /\ Phases' /\ PassRuns' /\ OneRun'
<1>1. /\ phase = "merging" /\ pass = NoPass /\ runs # <<>> /\ buffer = <<>>
      /\ UNCHANGED <<phase, buffer, sortedFile, inserted, returned, ended>>
      /\ pass' = [heads |-> [i \in 1 .. Merged |-> <<Head(runs[i].unread)>>],
                  buffers |-> [i \in 1 .. Merged |-> Tail(Got(runs[i], PageSize))],
                  out |-> <<>>]
      /\ runs' = [i \in 1 .. Len(runs) |-> IF i <= Merged THEN After(runs[i], PageSize) ELSE runs[i]]
      /\ Record' = Record /\ File' = File
  BY DEF BeginPass, Phases, Record, File
<1>2. Merged \in 1 .. Len(runs) /\ Merged <= BufferPages /\ Len(runs) \in Nat \ {0}
  BY <1>1, PassSize
<1>3. /\ pass'.heads = [i \in 1 .. Merged |-> <<Head(runs[i].unread)>>]
      /\ pass'.buffers = [i \in 1 .. Merged |-> Tail(Got(runs[i], PageSize))]
      /\ pass'.out = <<>>
  BY <1>1
<1>4. \A i \in 1 .. Merged : pass'.heads[i] \in Seq(Record) /\ Len(pass'.heads[i]) = 1 /\ pass'.heads[i] # <<>>
  <2> TAKE i \in 1 .. Merged
  <2>1. Head(runs[i].unread) = runs[i].unread[1] /\ runs[i].unread[1] \in Record
    BY FirstPage
  <2> QED
    BY <1>3, <2>1
<1>5. \A i \in 1 .. Merged :
        /\ pass'.buffers[i] \in Seq(Record) /\ Len(pass'.buffers[i]) < PageSize
        /\ After(runs[i], PageSize) \in File
        /\ After(runs[i], PageSize).eof => After(runs[i], PageSize).unread = <<>>
  <2> TAKE i \in 1 .. Merged
  <2> DEFINE got == Got(runs[i], PageSize)
  <2>1. /\ Len(got) \in 1 .. PageSize
        /\ Tail(got) \in Seq(Record) /\ Len(Tail(got)) = Len(got) - 1
        /\ After(runs[i], PageSize) \in File
        /\ After(runs[i], PageSize).eof => After(runs[i], PageSize).unread = <<>>
    BY FirstPage
  <2>2. pass'.buffers[i] = Tail(got)
    BY <1>3
  <2> HIDE DEF got
  <2> QED
    BY <2>1, <2>2, Sizes
<1>6. /\ pass'.heads \in Seq(Seq(Record)) /\ Len(pass'.heads) = Merged
      /\ pass'.buffers \in Seq(Seq(Record)) /\ Len(pass'.buffers) = Merged
      /\ DOMAIN pass'.heads = 1 .. Merged
  BY <1>2, <1>3, <1>4, <1>5
<1>7. \A i \in 1 .. Len(runs) : runs'[i] = IF i <= Merged THEN After(runs[i], PageSize) ELSE runs[i]
  BY <1>1
<1>8. \A i \in 1 .. Len(runs) : runs'[i] \in File /\ (runs'[i].eof => runs'[i].unread = <<>>)
                               /\ (i > Merged => runs'[i].unread # <<>>)
  <2>1. SUFFICES ASSUME NEW i \in 1 .. Len(runs)
                 PROVE  /\ runs'[i] \in File /\ (runs'[i].eof => runs'[i].unread = <<>>)
                        /\ (i > Merged => runs'[i].unread # <<>>)
    OBVIOUS
  <2>2. CASE i <= Merged
    BY <1>2, <1>5, <1>7, <2>2
  <2>3. CASE ~(i <= Merged)
    <3>1. runs[i] \in File /\ i \in DOMAIN runs /\ Len(pass.heads) = 0
      BY <1>1, <1>2 DEF TypeOK, NoPass
    <3> QED
      BY <1>2, <1>7, <2>3, <3>1 DEF PassRuns
  <2> QED
    BY <2>2, <2>3
<1>9. runs' \in Seq(File) /\ Len(runs') = Len(runs) /\ DOMAIN runs' = 1 .. Len(runs)
  <2>1. runs' \in [1 .. Len(runs) -> File]
    BY <1>1, <1>8
  <2>2. Len(runs) \in Nat
    BY <1>2
  <2> QED
    BY <2>1, <2>2
<1>10. TypeOK'
  <2>1. pass' \in [heads : Seq(Seq(Record)), buffers : Seq(Seq(Record)), out : Seq(Record)]
    BY <1>1, <1>3, <1>6, EmptySeq
  <2>2. /\ Len(pass'.heads) <= BufferPages /\ Len(pass'.buffers) = Len(pass'.heads)
        /\ \A i \in DOMAIN pass'.heads : Len(pass'.heads[i]) <= 1 /\ Len(pass'.buffers[i]) < PageSize
    <3>1. \A i \in 1 .. Merged : Len(pass'.heads[i]) <= 1 /\ Len(pass'.buffers[i]) < PageSize
      <4> TAKE i \in 1 .. Merged
      <4>1. Len(pass'.heads[i]) = 1 /\ Len(pass'.buffers[i]) < PageSize
        BY <1>4, <1>5
      <4> QED
        BY <4>1
    <3> QED
      BY <1>2, <1>6, <3>1
  <2>3. runs' \in Seq(File)' /\ Seq(Record)' = Seq(Record) /\ Seq(Seq(Record))' = Seq(Seq(Record))
    BY <1>1, <1>9
  <2> HIDE DEF File
  <2> QED
    BY <1>1, <2>1, <2>2, <2>3 DEF TypeOK
<1>11. Phases'
  BY <1>1, <1>2, <1>9 DEF Phases
<1>12. PassRuns'
  <2>1. Merged' = Merged
    BY <1>9 DEF Merged
  <2>2. 1 \in Queued'
    BY <1>2, <1>4, <1>6 DEF Queued
  <2> QED
    BY <1>4, <1>6, <1>8, <1>9, <2>1, <2>2 DEF PassRuns
<1>13. OneRun'
  BY <1>1 DEF OneRun
<1> QED
  BY <1>10, <1>11, <1>12, <1>13

(* The page a record of run i is taken from when the top is written. *)
Page(i) == IF Refills(i) THEN Got(runs[i], PageSize) ELSE pass.buffers[i]

LEMMA NextPage ==
  ASSUME TypeOK, Phases, PassRuns, NEW i \in 1 .. Len(runs), MergeStep(i)
  PROVE  /\ pass # NoPass /\ Len(pass.heads) = Merged /\ Merged \in 1 .. Len(runs)
         /\ i \in DOMAIN pass.heads /\ i \in DOMAIN pass.buffers
         /\ pass.heads[i] \in Seq(Record) /\ Len(pass.heads[i]) = 1
         /\ pass.heads[i][1] \in Record
         /\ Page(i) \in Seq(Record) /\ Len(Page(i)) <= PageSize
         /\ pass'.heads = [pass.heads EXCEPT ![i] = IF Page(i) # <<>> THEN <<Page(i)[1]>> ELSE <<>>]
         /\ pass'.buffers = [pass.buffers EXCEPT ![i] = IF Page(i) # <<>> THEN Tail(Page(i)) ELSE <<>>]
         /\ pass'.out = Append(pass.out, pass.heads[i][1])
         /\ pass' = [heads |-> pass'.heads, buffers |-> pass'.buffers, out |-> pass'.out]
         /\ runs' = [runs EXCEPT ![i] = IF Refills(i) THEN After(@, PageSize) ELSE @]
         /\ runs'[i] \in File /\ (runs'[i].eof => runs'[i].unread = <<>>)
         /\ Page(i) = <<>> => runs'[i].unread = <<>>
<1>1. phase = "merging" /\ runs # <<>> /\ Len(runs) \in Nat
  BY DEF MergeStep, Phases, TypeOK
<1>2. Merged \in 1 .. Len(runs)
  BY <1>1, PassSize
<1>3. i \in DOMAIN pass.heads /\ pass.heads[i] # <<>>
  BY DEF MergeStep, Top, Queued
<1>4. pass # NoPass
  BY <1>3 DEF NoPass
<1>5. /\ pass.heads \in Seq(Seq(Record)) /\ pass.buffers \in Seq(Seq(Record))
      /\ Len(pass.buffers) = Len(pass.heads) /\ Len(pass.heads[i]) <= 1 /\ Len(pass.buffers[i]) < PageSize
  BY <1>3 DEF TypeOK
<1>6. /\ i \in DOMAIN pass.buffers /\ pass.heads[i] \in Seq(Record) /\ pass.buffers[i] \in Seq(Record)
  BY <1>3, <1>5
<1>7. Len(pass.heads[i]) = 1 /\ pass.heads[i][1] \in Record
  <2> DEFINE n == Len(pass.heads[i])
  <2>1. n \in Nat \ {0}
    BY <1>3, <1>6, EmptySeq
  <2>2. n <= 1
    BY <1>5
  <2> HIDE DEF n
  <2>3. n = 1
    BY <2>1, <2>2
  <2> QED
    BY <1>6, <2>3 DEF n
<1>8. runs[i] \in File /\ i \in DOMAIN runs /\ (runs[i].eof => runs[i].unread = <<>>)
  BY <1>1 DEF TypeOK, PassRuns
<1>9. /\ Got(runs[i], PageSize) \in Seq(Record)
      /\ After(runs[i], PageSize) \in File
      /\ Len(Got(runs[i], PageSize)) = IF PageSize <= Len(runs[i].unread) THEN PageSize ELSE Len(runs[i].unread)
      /\ Len(After(runs[i], PageSize).unread) = Len(runs[i].unread) - Len(Got(runs[i], PageSize))
      /\ After(runs[i], PageSize).eof => After(runs[i], PageSize).unread = <<>>
  BY <1>8, Sizes, Reading
<1>10. Len(runs[i].unread) \in Nat /\ runs[i].unread \in Seq(Record)
  BY <1>8 DEF File
<1>11. Page(i) \in Seq(Record) /\ Len(Page(i)) <= PageSize
  BY <1>5, <1>6, <1>9, <1>10, Sizes DEF Page
<1>12. /\ pass' = [heads |-> [pass.heads EXCEPT ![i] = IF Page(i) # <<>> THEN <<Head(Page(i))>> ELSE <<>>],
                   buffers |-> [pass.buffers EXCEPT ![i] = IF Page(i) # <<>> THEN Tail(Page(i)) ELSE <<>>],
                   out |-> Append(pass.out, pass.heads[i][1])]
       /\ runs' = IF Refills(i) THEN [runs EXCEPT ![i] = After(@, PageSize)] ELSE runs
  BY DEF MergeStep, Page
<1>13. Page(i) # <<>> => Head(Page(i)) = Page(i)[1]
  BY <1>11
<1>14. runs' = [runs EXCEPT ![i] = IF Refills(i) THEN After(@, PageSize) ELSE @]
  <2>1. runs = [j \in 1 .. Len(runs) |-> runs[j]]
    BY <1>1 DEF TypeOK
  <2> QED
    BY <1>12, <2>1
<1>15. runs'[i] = IF Refills(i) THEN After(runs[i], PageSize) ELSE runs[i]
  BY <1>8, <1>14
<1>16. runs'[i] \in File /\ (runs'[i].eof => runs'[i].unread = <<>>)
  BY <1>8, <1>9, <1>15
<1>17. Page(i) = <<>> => runs'[i].unread = <<>>
  <2>1. CASE Refills(i)
    <3>1. SUFFICES ASSUME Len(Got(runs[i], PageSize)) = 0 PROVE After(runs[i], PageSize).unread = <<>>
      BY <1>15, <2>1 DEF Page
    <3>2. Len(After(runs[i], PageSize).unread) = 0
      BY <1>9, <1>10, <3>1, Sizes
    <3> QED
      BY <1>9, <3>2, EmptySeq DEF File
  <2>2. CASE ~Refills(i)
    BY <1>8, <1>15, <2>2 DEF Page, Refills
  <2> QED
    BY <2>1, <2>2
<1>18. Len(pass.heads) = Merged
  BY <1>4 DEF PassRuns
<1>19. /\ pass'.heads = [pass.heads EXCEPT ![i] = IF Page(i) # <<>> THEN <<Page(i)[1]>> ELSE <<>>]
       /\ pass'.buffers = [pass.buffers EXCEPT ![i] = IF Page(i) # <<>> THEN Tail(Page(i)) ELSE <<>>]
       /\ pass'.out = Append(pass.out, pass.heads[i][1])
       /\ pass' = [heads |-> pass'.heads, buffers |-> pass'.buffers, out |-> pass'.out]
  BY <1>12, <1>13
<1> QED
  BY <1>2, <1>3, <1>4, <1>6, <1>7, <1>11, <1>14, <1>16, <1>17, <1>18, <1>19

LEMMA MergeStepTyped ==
  ASSUME TypeOK, Phases, PassRuns, OneRun, NEW i \in 1 .. Len(runs), MergeStep(i)
  PROVE  TypeOK' /\ Phases' /\ PassRuns' /\ OneRun'
<1>1. /\ phase = "merging"
      /\ UNCHANGED <<phase, buffer, sortedFile, inserted, returned, ended>>
      /\ Record' = Record /\ File' = File
  BY DEF MergeStep, Record, File
<1>2. /\ pass # NoPass /\ Len(pass.heads) = Merged /\ Merged \in 1 .. Len(runs)
      /\ i \in DOMAIN pass.heads /\ i \in DOMAIN pass.buffers
      /\ pass.heads[i][1] \in Record
      /\ Page(i) \in Seq(Record) /\ Len(Page(i)) <= PageSize
  BY NextPage
<1>3. /\ pass'.heads = [pass.heads EXCEPT ![i] = IF Page(i) # <<>> THEN <<Page(i)[1]>> ELSE <<>>]
      /\ pass'.buffers = [pass.buffers EXCEPT ![i] = IF Page(i) # <<>> THEN Tail(Page(i)) ELSE <<>>]
      /\ pass'.out = Append(pass.out, pass.heads[i][1])
      /\ pass' = [heads |-> pass'.heads, buffers |-> pass'.buffers, out |-> pass'.out]
  BY NextPage
<1>4. /\ runs' = [runs EXCEPT ![i] = IF Refills(i) THEN After(@, PageSize) ELSE @]
      /\ runs'[i] \in File /\ (runs'[i].eof => runs'[i].unread = <<>>)
      /\ Page(i) = <<>> => runs'[i].unread = <<>>
  BY NextPage
<1>5. /\ pass.heads \in Seq(Seq(Record)) /\ pass.buffers \in Seq(Seq(Record)) /\ pass.out \in Seq(Record)
      /\ Len(pass.buffers) = Len(pass.heads) /\ Len(pass.heads) <= BufferPages
      /\ \A j \in DOMAIN pass.heads : Len(pass.heads[j]) <= 1 /\ Len(pass.buffers[j]) < PageSize
      /\ runs \in Seq(File)
  BY DEF TypeOK
<1> DEFINE h == IF Page(i) # <<>> THEN <<Page(i)[1]>> ELSE <<>>
           b == IF Page(i) # <<>> THEN Tail(Page(i)) ELSE <<>>
<1>6. /\ h \in Seq(Record) /\ Len(h) <= 1 /\ b \in Seq(Record) /\ Len(b) < PageSize
      /\ (h = <<>> => Page(i) = <<>> /\ b = <<>>)
  <2>1. CASE Page(i) = <<>>
    BY <2>1, EmptySeq, Sizes
  <2>2. CASE Page(i) # <<>>
    <3>1. Page(i)[1] \in Record /\ Len(Page(i)) \in Nat \ {0}
      BY <1>2, <2>2, EmptySeq
    <3>2. Tail(Page(i)) \in Seq(Record) /\ Len(Tail(Page(i))) = Len(Page(i)) - 1
      BY <1>2, <3>1
    <3> QED
      BY <1>2, <2>2, <3>1, <3>2, Sizes
  <2> QED
    BY <2>1, <2>2
<1> HIDE DEF h, b
<1>7. /\ pass'.heads = [pass.heads EXCEPT ![i] = h] /\ pass'.buffers = [pass.buffers EXCEPT ![i] = b]
  BY <1>3 DEF h, b
<1>8. /\ pass'.heads \in Seq(Seq(Record)) /\ Len(pass'.heads) = Len(pass.heads)
      /\ pass'.buffers \in Seq(Seq(Record)) /\ Len(pass'.buffers) = Len(pass.buffers)
      /\ DOMAIN pass'.heads = DOMAIN pass.heads /\ DOMAIN pass.heads = 1 .. Len(pass.heads)
  BY <1>2, <1>5, <1>6, <1>7
<1>9. \A j \in DOMAIN pass.heads : /\ pass'.heads[j] = IF j = i THEN h ELSE pass.heads[j]
                                   /\ pass'.buffers[j] = IF j = i THEN b ELSE pass.buffers[j]
  BY <1>2, <1>5, <1>7
<1>10. /\ runs' \in Seq(File) /\ Len(runs') = Len(runs) /\ DOMAIN runs' = DOMAIN runs
       /\ \A j \in DOMAIN runs : j # i => runs'[j] = runs[j]
  BY <1>4, <1>5
<1>11. pass'.out \in Seq(Record) /\ pass'.out # <<>>
  <2>1. /\ pass.out \in Seq(Record) /\ pass.heads[i][1] \in Record
        /\ pass'.out = Append(pass.out, pass.heads[i][1])
    BY <1>2, <1>3, <1>5
  <2> QED
    BY <2>1
<1>12. TypeOK'
  <2>1. pass' \in [heads : Seq(Seq(Record)), buffers : Seq(Seq(Record)), out : Seq(Record)]
    BY <1>3, <1>8, <1>11
  <2>2. /\ Len(pass'.heads) <= BufferPages /\ Len(pass'.buffers) = Len(pass'.heads)
        /\ \A j \in DOMAIN pass'.heads : Len(pass'.heads[j]) <= 1 /\ Len(pass'.buffers[j]) < PageSize
    BY <1>5, <1>6, <1>8, <1>9
  <2>3. runs' \in Seq(File)' /\ Seq(Record)' = Seq(Record) /\ Seq(Seq(Record))' = Seq(Seq(Record))
    BY <1>1, <1>10
  <2> QED
    BY <1>1, <2>1, <2>2, <2>3 DEF TypeOK
<1>13. Phases'
  BY <1>1, <1>10, EmptySeq DEF Phases
<1>14. PassRuns'
  <2>1. Merged' = Merged
    BY <1>10 DEF Merged
  <2>2. \A j \in DOMAIN runs' : (runs'[j].eof => runs'[j].unread = <<>>)
                              /\ (j > Len(pass'.heads) => runs'[j].unread # <<>>)
    <3>1. SUFFICES ASSUME NEW j \in DOMAIN runs
                   PROVE  (runs'[j].eof => runs'[j].unread = <<>>)
                          /\ (j > Len(pass'.heads) => runs'[j].unread # <<>>)
      BY <1>10
    <3>2. CASE j = i
      BY <1>4, <1>8, <3>2, <1>2
    <3>3. CASE j # i
      BY <1>8, <1>10, <3>3 DEF PassRuns
    <3> QED
      BY <3>2, <3>3
  <2>3. \A j \in DOMAIN pass'.heads :
           pass'.heads[j] = <<>> => pass'.buffers[j] = <<>> /\ runs'[j].unread = <<>>
    <3>1. SUFFICES ASSUME NEW j \in DOMAIN pass.heads, pass'.heads[j] = <<>>
                   PROVE  pass'.buffers[j] = <<>> /\ runs'[j].unread = <<>>
      BY <1>8
    <3>2. CASE j = i
      BY <1>4, <1>6, <1>9, <3>1, <3>2
    <3>3. CASE j # i
      <4>1. j \in DOMAIN runs
        BY <1>2, <1>5, <1>8
      <4> QED
        BY <1>2, <1>9, <1>10, <3>1, <3>3, <4>1 DEF PassRuns
    <3> QED
      BY <3>2, <3>3
  <2> QED
    BY <1>2, <1>8, <1>11, <2>1, <2>2, <2>3 DEF PassRuns
<1>15. OneRun'
  BY <1>1 DEF OneRun
<1> QED
  BY <1>12, <1>13, <1>14, <1>15

(* What is left when the pass ends. *)
LEMMA PassLeaves ==
  ASSUME TypeOK, Phases, PassRuns, EndPass
  PROVE  /\ Merged \in 1 .. Len(runs) /\ Len(runs) \in Nat /\ Len(pass.heads) = Merged
         /\ \A i \in 1 .. Merged : pass.heads[i] = <<>> /\ pass.buffers[i] = <<>> /\ runs[i].unread = <<>>
         /\ pass.out \in Seq(Record) /\ pass.out # <<>>
         /\ LET rest == SubSeq(runs, Merged + 1, Len(runs))
            IN /\ rest \in Seq(File) /\ Len(rest) = Len(runs) - Merged
               /\ \A i \in 1 .. Len(rest) : rest[i] = runs[i + Merged]
<1>1. /\ phase = "merging" /\ runs # <<>> /\ pass # NoPass /\ Queued = {}
  BY DEF EndPass, Phases
<1>2. Merged \in 1 .. Len(runs) /\ Len(runs) \in Nat
  BY <1>1, PassSize
<1>3. Len(pass.heads) = Merged /\ pass.out # <<>>
  BY <1>1 DEF PassRuns
<1>4. pass.heads \in Seq(Seq(Record)) /\ pass.out \in Seq(Record) /\ runs \in Seq(File)
  BY DEF TypeOK
<1>5. DOMAIN pass.heads = 1 .. Merged
  BY <1>3, <1>4
<1>6. \A i \in 1 .. Merged : pass.heads[i] = <<>> /\ pass.buffers[i] = <<>> /\ runs[i].unread = <<>>
  BY <1>1, <1>5 DEF Queued, PassRuns
<1> DEFINE rest == SubSeq(runs, Merged + 1, Len(runs))
<1>7. rest \in Seq(File) /\ Len(rest) = Len(runs) - Merged /\ \A i \in 1 .. Len(rest) : rest[i] = runs[i + Merged]
  <2>1. Merged + 1 \in Int /\ Len(runs) \in Int /\ \A i \in Merged + 1 .. Len(runs) : runs[i] \in File
    BY <1>2, <1>4
  <2>2. /\ rest \in Seq(File)
        /\ Len(rest) = IF Merged + 1 <= Len(runs) THEN Len(runs) - (Merged + 1) + 1 ELSE 0
        /\ \A i \in 1 .. Len(runs) - (Merged + 1) + 1 : rest[i] = runs[Merged + 1 + i - 1]
    BY <2>1, SubSeqProperties
  <2> QED
    BY <1>2, <2>2
<1> QED
  BY <1>2, <1>3, <1>4, <1>6, <1>7

LEMMA EndPassTyped ==
  ASSUME TypeOK, Phases, PassRuns, OneRun, EndPass
  PROVE  TypeOK' /\ Phases' /\ PassRuns' /\ OneRun'
<1> DEFINE rest == SubSeq(runs, Merged + 1, Len(runs))
<1>1. /\ phase = "merging" /\ pass' = NoPass /\ UNCHANGED <<buffer, inserted, returned, ended>>
      /\ Record' = Record /\ File' = File
      /\ buffer = <<>> /\ returned = <<>> /\ ended = FALSE /\ sortedFile = NoFile
  BY DEF EndPass, Phases, Record, File
<1>2. /\ IF rest = <<>>
         THEN phase' = "sorted" /\ sortedFile' = Run(pass.out) /\ runs' = <<>>
         ELSE phase' = phase /\ runs' = Append(rest, Run(pass.out)) /\ UNCHANGED sortedFile
  BY DEF EndPass
<1>3. /\ Merged \in 1 .. Len(runs) /\ Len(runs) \in Nat /\ Len(pass.heads) = Merged
      /\ pass.out \in Seq(Record) /\ pass.out # <<>>
      /\ rest \in Seq(File) /\ Len(rest) = Len(runs) - Merged
      /\ \A i \in 1 .. Len(rest) : rest[i] = runs[i + Merged]
  BY PassLeaves
<1> HIDE DEF rest
<1>4. Run(pass.out) \in File /\ Run(pass.out).unread # <<>> /\ Run(pass.out).eof = FALSE
  BY <1>3 DEF Run, File
<1>5. ~(Len(inserted) <= Capacity)
  BY <1>1 DEF OneRun
<1>6. /\ pass'.heads = <<>> /\ pass'.buffers = <<>> /\ pass'.out = <<>>
      /\ Len(pass'.heads) = 0 /\ pass' = NoPass /\ pass'.heads = pass'.buffers /\ DOMAIN pass'.heads = {}
      /\ pass' \in [heads : Seq(Seq(Record)), buffers : Seq(Seq(Record)), out : Seq(Record)]
  <2>1. pass'.heads = <<>> /\ pass'.buffers = <<>> /\ pass'.out = <<>> /\ pass' = NoPass
    BY <1>1 DEF NoPass
  <2>2. <<>> \in Seq(Seq(Record)) /\ <<>> \in Seq(Record)
    BY EmptySeq
  <2> QED
    BY <2>1, <2>2 DEF NoPass
<1>7. \A i \in 1 .. Len(rest) : (rest[i].eof => rest[i].unread = <<>>) /\ rest[i].unread # <<>>
  <2> TAKE i \in 1 .. Len(rest)
  <2>1. i + Merged \in DOMAIN runs /\ i + Merged > Len(pass.heads) /\ rest[i] = runs[i + Merged]
    BY <1>3
  <2> QED
    BY <2>1 DEF PassRuns
<1>8. CASE rest = <<>>
  <2>1. phase' = "sorted" /\ sortedFile' = Run(pass.out) /\ runs' = <<>>
    BY <1>2, <1>8
  <2>2. TypeOK'
    <3>1. runs' \in Seq(File)' /\ sortedFile' \in File'
      BY <1>1, <1>4, <2>1, EmptySeq
    <3> QED
      BY <1>1, <1>6, <2>1, <3>1, Sizes DEF TypeOK
  <2>3. Phases' /\ PassRuns'
    BY <1>1, <1>6, <2>1, EmptySeq DEF Phases, PassRuns
  <2> QED
    BY <1>1, <1>5, <2>2, <2>3 DEF OneRun
<1>9. CASE rest # <<>>
  <2>1. phase' = phase /\ runs' = Append(rest, Run(pass.out)) /\ UNCHANGED sortedFile
    BY <1>2, <1>9
  <2>2. /\ runs' \in Seq(File) /\ Len(runs') = Len(rest) + 1 /\ Len(rest) \in Nat
        /\ \A i \in 1 .. Len(rest) : runs'[i] = rest[i]
        /\ runs'[Len(rest) + 1] = Run(pass.out)
    <3>1. rest \in Seq(File) /\ Run(pass.out) \in File
      BY <1>3, <1>4
    <3> QED
      BY <2>1, <3>1
  <2>3. TypeOK'
    <3>1. runs' \in Seq(File)' /\ sortedFile' \in File'
      BY <1>1, <2>1, <2>2 DEF TypeOK
    <3> QED
      BY <1>1, <1>6, <2>1, <3>1, Sizes DEF TypeOK
  <2>4. Phases'
    BY <1>1, <2>1, <2>2, EmptySeq DEF Phases
  <2>5. PassRuns'
    <3>1. \A i \in DOMAIN runs' : (runs'[i].eof => runs'[i].unread = <<>>) /\ runs'[i].unread # <<>>
      <4>1. \A i \in 1 .. Len(rest) + 1 : i \in 1 .. Len(rest) \/ i = Len(rest) + 1
        BY <2>2
      <4>2. DOMAIN runs' = 1 .. Len(rest) + 1
        BY <2>2
      <4> QED
        BY <1>4, <1>7, <2>2, <4>1, <4>2
    <3> QED
      BY <1>6, <3>1 DEF PassRuns
  <2> QED
    BY <1>1, <1>5, <2>3, <2>4, <2>5 DEF OneRun
<1> QED
  BY <1>8, <1>9

-----------------------------------------------------------------------------
(* No step loses a record. *)
LEMMA AddedTo ==
  ASSUME NEW before, NEW after, NEW records, Once(before, records),
         NEW a \in DOMAIN before, DOMAIN after = DOMAIN before,
         \A h \in DOMAIN before : h # a => after[h] = before[h],
         NEW n \in Nat, DOMAIN before[a] = 1 .. n, DOMAIN after[a] = 1 .. n + 1,
         \A j \in 1 .. n : after[a][j] = before[a][j],
         NEW r, r \notin records, after[a][n + 1] = r
  PROVE  Once(after, records \cup {r})
<1> DEFINE p == <<a, n + 1>>
<1>1. p \notin Places(before)
  <2>1. ~(n + 1 \in 1 .. n)
    OBVIOUS
  <2> QED
    BY <2>1, PlacesAre
<1>2. \A q : q \in Places(after) <=> q \in Places(before) \/ q = p
  <2> TAKE q
  <2>1. ASSUME q \in Places(after) PROVE q \in Places(before) \/ q = p
    <3>1. PICK h \in DOMAIN after : \E j \in DOMAIN after[h] : q = <<h, j>>
      BY <2>1, PlacesAre
    <3>2. PICK j \in DOMAIN after[h] : q = <<h, j>>
      BY <3>1
    <3>3. CASE h = a
      <4>1. j \in 1 .. n \/ j = n + 1
        BY <3>3
      <4> QED
        BY <3>2, <3>3, <4>1, PlacesAre
    <3>4. CASE h # a
      BY <3>2, <3>4, PlacesAre
    <3> QED
      BY <3>3, <3>4
  <2>2. ASSUME q \in Places(before) PROVE q \in Places(after)
    <3>1. PICK h \in DOMAIN before : \E j \in DOMAIN before[h] : q = <<h, j>>
      BY <2>2, PlacesAre
    <3>2. PICK j \in DOMAIN before[h] : q = <<h, j>>
      BY <3>1
    <3>3. CASE h = a
      <4>1. j \in 1 .. n + 1
        BY <3>3
      <4> QED
        BY <3>2, <3>3, <4>1, PlacesAre
    <3>4. CASE h # a
      BY <3>2, <3>4, PlacesAre
    <3> QED
      BY <3>3, <3>4
  <2>3. p \in Places(after)
    <3>1. n + 1 \in 1 .. n + 1
      OBVIOUS
    <3> QED
      BY <3>1, PlacesAre
  <2> QED
    BY <2>1, <2>2, <2>3
<1>3. Places(after) = Places(before) \cup {p}
  BY <1>2
<1>4. \A q \in Places(before) : At(after, q) = At(before, q)
  <2> TAKE q \in Places(before)
  <2>1. PICK h \in DOMAIN before : \E j \in DOMAIN before[h] : q = <<h, j>>
    BY PlacesAre
  <2>2. PICK j \in DOMAIN before[h] : q = <<h, j>>
    BY <2>1
  <2>3. after[h][j] = before[h][j]
    BY <2>2
  <2> QED
    BY <2>2, <2>3 DEF At
<1>5. At(after, p) = r
  BY DEF At
<1> HIDE DEF p
<1> QED
  BY <1>1, <1>3, <1>4, <1>5, Added

(* A run is written from the whole buffer. *)
LEMMA RunWritten ==
  ASSUME NEW b, NEW n \in Nat, DOMAIN b = 1 .. n,
         NEW rs, NEW m \in Nat, DOMAIN rs = 1 .. m,
         NEW rs2, DOMAIN rs2 = 1 .. m + 1, \A i \in 1 .. m : rs2[i] = rs[i],
         rs2[m + 1].unread = b,
         NEW f, NEW o, NEW r, NEW hs, NEW ps, NEW records,
         Once(Parts(b, f, o, r, rs, hs, ps), records)
  PROVE  Once(Parts(<<>>, f, o, r, rs2, hs, ps), records)
<1> DEFINE empty == [unread |-> <<>>]
           rs1 == [i \in 1 .. m + 1 |-> IF i <= m THEN rs[i] ELSE empty]
           A == <<"buffer", 0>>
           Z == <<"run", m + 1>>
           H0 == Parts(b, f, o, r, rs, hs, ps)
           H1 == Parts(b, f, o, r, rs1, hs, ps)
           H2 == Parts(<<>>, f, o, r, rs2, hs, ps)
<1>1. /\ DOMAIN rs1 = 1 .. m + 1 /\ rs1[m + 1].unread = <<>>
      /\ \A i \in 1 .. m : rs1[i] = rs[i] /\ rs2[i] = rs1[i]
      /\ \A i \in 1 .. m + 1 : i \in 1 .. m \/ i = m + 1
      /\ 1 .. m \subseteq 1 .. m + 1 /\ m + 1 \in 1 .. m + 1
      /\ DOMAIN <<>> = 1 .. 0
  OBVIOUS
<1> HIDE DEF rs1, empty
<1>2. /\ \A h : h \notin {Z} => (h \in DOMAIN H1 <=> h \in DOMAIN H0)
      /\ \A h \in DOMAIN H1 : h \notin {Z} => H1[h] = H0[h]
  <2>1. \A i \in DOMAIN rs \cup DOMAIN rs1 :
          \/ <<"run", i>> \in {Z}
          \/ i \in DOMAIN rs /\ i \in DOMAIN rs1 /\ rs1[i].unread = rs[i].unread
    BY <1>1
  <2>2. \A kind, i, x : Same({Z}, kind, i, x, x)
    BY DEF Same
  <2>3. \A i \in DOMAIN hs \cup DOMAIN hs :
          \/ <<"head", i>> \in {Z} /\ <<"page", i>> \in {Z}
          \/ /\ i \in DOMAIN hs /\ i \in DOMAIN hs
             /\ Same({Z}, "head", i, hs[i], hs[i]) /\ Same({Z}, "page", i, ps[i], ps[i])
    BY <2>2
  <2>4. /\ Same({Z}, "buffer", 0, b, b) /\ Same({Z}, "file", 0, f, f)
        /\ Same({Z}, "out", 0, o, o) /\ Same({Z}, "returned", 0, r, r)
    BY <2>2
  <2> HIDE DEF Z
  <2> QED
    BY <2>1, <2>3, <2>4, SameBut
<1>3. /\ \A h : h \notin {A, Z} => (h \in DOMAIN H2 <=> h \in DOMAIN H1)
      /\ \A h \in DOMAIN H2 : h \notin {A, Z} => H2[h] = H1[h]
  <2>1. \A i \in DOMAIN rs1 \cup DOMAIN rs2 :
          \/ <<"run", i>> \in {A, Z}
          \/ i \in DOMAIN rs1 /\ i \in DOMAIN rs2 /\ rs2[i].unread = rs1[i].unread
    BY <1>1
  <2>2. \A kind, i, x : Same({A, Z}, kind, i, x, x)
    BY DEF Same
  <2>3. Same({A, Z}, "buffer", 0, b, <<>>)
    BY DEF Same
  <2> HIDE DEF A, Z
  <2> QED
    BY <2>1, <2>2, <2>3, SameBut
<1>4. /\ A \in DOMAIN H0 /\ A \in DOMAIN H1 /\ A \in DOMAIN H2
      /\ Z \notin DOMAIN H0 /\ Z \in DOMAIN H1 /\ Z \in DOMAIN H2 /\ A # Z
      /\ H1[A] = b /\ H2[A] = <<>>
  <2>1. ~(m + 1 \in 1 .. m) /\ m + 1 \in DOMAIN rs1 /\ m + 1 \in DOMAIN rs2
    BY <1>1
  <2> QED
    BY <1>1, <2>1, PartsAre
<1>5. H1[Z] = <<>> /\ H2[Z] = b
  BY <1>1, PartsAre
<1> HIDE DEF H0, H1, H2, A, Z
<1>6. Once(H1, records)
  <2>1. \A h \in DOMAIN H0 : h \in DOMAIN H1 /\ H1[h] = H0[h]
    BY <1>2, <1>4
  <2>2. \A h \in DOMAIN H1 : DOMAIN H1[h] = {} \/ (h \in DOMAIN H0 /\ H1[h] = H0[h])
    BY <1>1, <1>2, <1>5
  <2>3. Once(H0, records)
    BY DEF H0
  <2> QED
    BY <2>1, <2>2, <2>3, SamePlaces
<1>7. Among(H1, H2, A, Z)
  BY <1>3, <1>4 DEF Among
<1>8. Shifted(b, <<>>, <<>>, b, n, n, 0)
  <2>1. n - n = 0 /\ 0 + n = n /\ \A j \in 1 .. n : 0 + j = j
    OBVIOUS
  <2> QED
    BY <1>1, <2>1 DEF Shifted
<1>9. Once(H2, records)
  BY <1>4, <1>5, <1>6, <1>7, <1>8, Shift
<1> QED
  BY <1>9 DEF H2

LEMMA HeldAfter == Held' = HeldNow'
  BY DEF Held, Holders, Parts, HeldNow

LEMMA Together == NothingLost <=> Once(HeldNow, Record)
  BY HeldParts DEF NothingLost

LEMMA TogetherAfter == NothingLost' <=> Once(HeldNow', Record')
  BY HeldAfter DEF NothingLost

(* Only the buffer changes. *)
LEMMA BufferOnly ==
  ASSUME NEW b, NEW b2, NEW f, NEW o, NEW r, NEW rs, NEW hs, NEW ps
  PROVE  LET H == Parts(b, f, o, r, rs, hs, ps)
             J == Parts(b2, f, o, r, rs, hs, ps)
             A == <<"buffer", 0>>
         IN /\ A \in DOMAIN H /\ DOMAIN J = DOMAIN H
            /\ \A h \in DOMAIN H : h # A => J[h] = H[h]
            /\ H[A] = b /\ J[A] = b2
<1> DEFINE H == Parts(b, f, o, r, rs, hs, ps)
           J == Parts(b2, f, o, r, rs, hs, ps)
           A == <<"buffer", 0>>
<1>1. A \in DOMAIN H /\ H[A] = b /\ A \in DOMAIN J /\ J[A] = b2
  BY PartsAre
<1>2. DOMAIN J = DOMAIN H
  BY DEF Parts
<1>3. \A h \in DOMAIN J : h \notin {A} => J[h] = H[h]
  <2>1. \A kind, i, x : Same({A}, kind, i, x, x)
    BY DEF Same
  <2>2. Same({A}, "buffer", 0, b, b2)
    BY DEF Same
  <2>3. \A i \in DOMAIN hs \cup DOMAIN hs :
          \/ <<"head", i>> \in {A} /\ <<"page", i>> \in {A}
          \/ /\ i \in DOMAIN hs /\ i \in DOMAIN hs
             /\ Same({A}, "head", i, hs[i], hs[i]) /\ Same({A}, "page", i, ps[i], ps[i])
    BY <2>1
  <2>4. \A i \in DOMAIN rs \cup DOMAIN rs :
          \/ <<"run", i>> \in {A}
          \/ i \in DOMAIN rs /\ i \in DOMAIN rs /\ rs[i].unread = rs[i].unread
    OBVIOUS
  <2>5. Same({A}, "file", 0, f, f) /\ Same({A}, "out", 0, o, o) /\ Same({A}, "returned", 0, r, r)
    BY <2>1
  <2> HIDE DEF A
  <2> QED
    BY <2>2, <2>3, <2>4, <2>5, SameBut
<1> QED
  BY <1>1, <1>2, <1>3

LEMMA BufferSorted ==
  ASSUME NEW b, NEW n \in Nat, DOMAIN b = 1 .. n, NEW p \in Bijection(1 .. n, 1 .. n),
         NEW b2, b2 = [i \in 1 .. n |-> b[p[i]]],
         NEW f, NEW o, NEW r, NEW rs, NEW hs, NEW ps, NEW records,
         Once(Parts(b, f, o, r, rs, hs, ps), records)
  PROVE  Once(Parts(b2, f, o, r, rs, hs, ps), records)
<1> DEFINE H == Parts(b, f, o, r, rs, hs, ps)
           J == Parts(b2, f, o, r, rs, hs, ps)
           A == <<"buffer", 0>>
<1>1. /\ A \in DOMAIN H /\ DOMAIN J = DOMAIN H
      /\ \A h \in DOMAIN H : h # A => J[h] = H[h]
      /\ H[A] = b /\ J[A] = b2
  BY BufferOnly
<1>2. Once(H, records)
  OBVIOUS
<1> HIDE DEF H, J, A
<1>3. DOMAIN H[A] = 1 .. n /\ J[A] = [i \in 1 .. n |-> H[A][p[i]]]
  BY <1>1
<1>4. Once(J, records)
  BY <1>1, <1>2, <1>3, Permuted
<1> QED
  BY <1>4 DEF J

LEMMA BufferFilled ==
  ASSUME NEW b, NEW n \in Nat, DOMAIN b = 1 .. n,
         NEW b2, DOMAIN b2 = 1 .. n + 1, \A j \in 1 .. n : b2[j] = b[j],
         NEW f, NEW o, NEW r, NEW rs, NEW hs, NEW ps, NEW records,
         b2[n + 1] \notin records,
         Once(Parts(b, f, o, r, rs, hs, ps), records)
  PROVE  Once(Parts(b2, f, o, r, rs, hs, ps), records \cup {b2[n + 1]})
<1> DEFINE H == Parts(b, f, o, r, rs, hs, ps)
           J == Parts(b2, f, o, r, rs, hs, ps)
           A == <<"buffer", 0>>
<1>1. /\ A \in DOMAIN H /\ DOMAIN J = DOMAIN H
      /\ \A h \in DOMAIN H : h # A => J[h] = H[h]
      /\ H[A] = b /\ J[A] = b2
  BY BufferOnly
<1>2. Once(H, records)
  OBVIOUS
<1> HIDE DEF H, J, A
<1>3. /\ DOMAIN H[A] = 1 .. n /\ DOMAIN J[A] = 1 .. n + 1
      /\ \A j \in 1 .. n : J[A][j] = H[A][j]
      /\ J[A][n + 1] = b2[n + 1]
  BY <1>1
<1>4. Once(J, records \cup {b2[n + 1]})
  BY <1>1, <1>2, <1>3, AddedTo
<1> QED
  BY <1>4 DEF J

LEMMA SortInMemoryKeeps ==
  ASSUME TypeOK, Phases, NothingLost, SortInMemory
  PROVE  NothingLost'
<1>1. /\ buffer' \in Ascending(buffer, inserted)
      /\ UNCHANGED <<runs, sortedFile, pass, inserted, returned>>
      /\ Record' = Record
  BY DEF SortInMemory, Record
<1>2. buffer \in Seq(Record)
  BY DEF TypeOK
<1>3. PICK p \in Bijection(1 .. Len(buffer), 1 .. Len(buffer)) :
        buffer' = [i \in 1 .. Len(buffer) |-> buffer[p[i]]]
  BY <1>1, <1>2, Arranging
<1>4. Len(buffer) \in Nat /\ DOMAIN buffer = 1 .. Len(buffer)
  BY <1>2
<1>5. Once(HeldNow, Record)
  BY Together
<1>6. Once(HeldNow', Record)
  BY <1>1, <1>3, <1>4, <1>5, BufferSorted DEF HeldNow
<1> QED
  BY <1>1, <1>6, TogetherAfter

LEMMA EndOfStreamKeeps ==
  ASSUME NothingLost, EndOfStream
  PROVE  NothingLost'
<1>1. /\ UNCHANGED <<buffer, runs, sortedFile, pass, inserted, returned>>
      /\ Record' = Record
  BY DEF EndOfStream, Record
<1> QED
  BY <1>1, Together, TogetherAfter DEF HeldNow

LEMMA InsertKeeps ==
  ASSUME TypeOK, Phases, NothingLost, NEW key \in Key, Insert(key)
  PROVE  NothingLost'
<1> DEFINE filled == Append(buffer, Len(inserted'))
<1>1. /\ inserted' = Append(inserted, key)
      /\ UNCHANGED <<sortedFile, pass, returned>>
  BY DEF Insert
<1>2. /\ Record' = Record \cup {Len(inserted')} /\ Len(inserted') \notin Record
      /\ Seq(Record) \subseteq Seq(Record')
  BY <1>1, MoreRecords
<1>3. /\ buffer \in Seq(Record) /\ Len(buffer) \in Nat /\ DOMAIN buffer = 1 .. Len(buffer)
      /\ runs \in Seq(File) /\ Len(runs) \in Nat /\ DOMAIN runs = 1 .. Len(runs)
  BY DEF TypeOK
<1>4. /\ filled \in Seq(Record') /\ Len(filled) = Len(buffer) + 1
      /\ DOMAIN filled = 1 .. Len(buffer) + 1
      /\ \A j \in 1 .. Len(buffer) : filled[j] = buffer[j]
      /\ filled[Len(buffer) + 1] = Len(inserted')
  BY <1>2, <1>3
<1>5. Once(HeldNow, Record)
  BY Together
<1> DEFINE f == sortedFile.unread
<1>6. Once(Parts(filled, f, pass.out, returned, runs, pass.heads, pass.buffers), Record')
  <2> HIDE DEF filled
  <2>1. Once(Parts(buffer, f, pass.out, returned, runs, pass.heads, pass.buffers), Record)
    BY <1>5 DEF HeldNow
  <2>2. filled[Len(buffer) + 1] \notin Record
    BY <1>2, <1>4
  <2>3. Once(Parts(filled, f, pass.out, returned, runs, pass.heads, pass.buffers),
             Record \cup {filled[Len(buffer) + 1]})
    BY <1>3, <1>4, <2>1, <2>2, BufferFilled
  <2> QED
    BY <1>2, <1>4, <2>3
<1>7. CASE Len(filled) >= Capacity
  <2>1. PICK sorted \in Ascending(filled, inserted') : runs' = Append(runs, Run(sorted))
    BY <1>7 DEF Insert
  <2>2. buffer' = <<>>
    BY <1>7 DEF Insert
  <2>3. sorted \in Seq(Record') /\ Len(sorted) = Len(filled)
        /\ \E p \in Bijection(1 .. Len(filled), 1 .. Len(filled)) :
             sorted = [i \in 1 .. Len(filled) |-> filled[p[i]]]
    <3> DEFINE S == Record'
    <3>1. filled \in Seq(S)
      BY <1>4
    <3> HIDE DEF filled, S
    <3>2. sorted \in Seq(S) /\ Len(sorted) = Len(filled)
          /\ \E p \in Bijection(1 .. Len(filled), 1 .. Len(filled)) :
               sorted = [i \in 1 .. Len(filled) |-> filled[p[i]]]
      BY <3>1, Arranging
    <3> QED
      BY <3>2 DEF S
  <2>4. PICK p \in Bijection(1 .. Len(filled), 1 .. Len(filled)) :
          sorted = [i \in 1 .. Len(filled) |-> filled[p[i]]]
    BY <2>3
  <2>5. Len(filled) \in Nat /\ DOMAIN filled = 1 .. Len(filled) /\ DOMAIN sorted = 1 .. Len(filled)
    BY <1>3, <1>4, <2>3
  <2>6. /\ DOMAIN runs' = 1 .. Len(runs) + 1 /\ \A i \in 1 .. Len(runs) : runs'[i] = runs[i]
        /\ runs'[Len(runs) + 1] = Run(sorted)
    BY <1>3, <2>1
  <2> HIDE DEF filled
  <2>7. Once(Parts(sorted, f, pass.out, returned, runs, pass.heads, pass.buffers), Record')
    <3> DEFINE S == Record'
               n == Len(filled)
    <3>1. Once(Parts(filled, f, pass.out, returned, runs, pass.heads, pass.buffers), S)
      BY <1>6
    <3>2. n \in Nat /\ DOMAIN filled = 1 .. n /\ p \in Bijection(1 .. n, 1 .. n)
          /\ sorted = [i \in 1 .. n |-> filled[p[i]]]
      BY <2>4, <2>5
    <3> HIDE DEF S, f, n
    <3>3. Once(Parts(sorted, f, pass.out, returned, runs, pass.heads, pass.buffers), S)
      BY <3>1, <3>2, BufferSorted
    <3> QED
      BY <3>3 DEF S
  <2>8. runs'[Len(runs) + 1].unread = sorted
    BY <2>6 DEF Run
  <2>9. Once(Parts(<<>>, f, pass.out, returned, runs', pass.heads, pass.buffers), Record')
    BY <1>3, <2>5, <2>6, <2>7, <2>8, RunWritten
  <2>10. HeldNow' = Parts(<<>>, f, pass.out, returned, runs', pass.heads, pass.buffers)
    BY <1>1, <2>2 DEF HeldNow
  <2> QED
    BY <2>9, <2>10, TogetherAfter
<1>8. CASE ~(Len(filled) >= Capacity)
  <2>1. buffer' = filled /\ UNCHANGED runs
    BY <1>8 DEF Insert
  <2>2. HeldNow' = Parts(filled, f, pass.out, returned, runs, pass.heads, pass.buffers)
    BY <1>1, <2>1 DEF HeldNow
  <2> QED
    BY <1>6, <2>2, TogetherAfter
<1> QED
  BY <1>7, <1>8

(* A move between two holders of the same lists of runs. *)
LEMMA BetweenTwo ==
  ASSUME NEW b, NEW f, NEW o, NEW r, NEW rs, NEW hs, NEW ps,
         NEW b2, NEW f2, NEW o2, NEW r2, NEW rs2, NEW hs2, NEW ps2,
         NEW A, NEW B, A # B,
         A \in DOMAIN Parts(b, f, o, r, rs, hs, ps), B \in DOMAIN Parts(b, f, o, r, rs, hs, ps),
         DOMAIN rs2 = DOMAIN rs, DOMAIN hs2 = DOMAIN hs,
         Same({A, B}, "buffer", 0, b, b2), Same({A, B}, "file", 0, f, f2),
         Same({A, B}, "out", 0, o, o2), Same({A, B}, "returned", 0, r, r2),
         \A i \in DOMAIN rs : Same({A, B}, "run", i, rs[i].unread, rs2[i].unread),
         \A i \in DOMAIN hs : /\ Same({A, B}, "head", i, hs[i], hs2[i])
                              /\ Same({A, B}, "page", i, ps[i], ps2[i])
  PROVE  Among(Parts(b, f, o, r, rs, hs, ps), Parts(b2, f2, o2, r2, rs2, hs2, ps2), A, B)
<1> DEFINE H == Parts(b, f, o, r, rs, hs, ps)
           J == Parts(b2, f2, o2, r2, rs2, hs2, ps2)
           T == {A, B}
<1>1. \A i \in DOMAIN rs \cup DOMAIN rs2 :
        \/ <<"run", i>> \in T
        \/ i \in DOMAIN rs /\ i \in DOMAIN rs2 /\ rs2[i].unread = rs[i].unread
  BY DEF Same
<1>2. \A i \in DOMAIN hs \cup DOMAIN hs2 :
        \/ <<"head", i>> \in T /\ <<"page", i>> \in T
        \/ /\ i \in DOMAIN hs /\ i \in DOMAIN hs2
           /\ Same(T, "head", i, hs[i], hs2[i]) /\ Same(T, "page", i, ps[i], ps2[i])
  OBVIOUS
<1>3. /\ Same(T, "buffer", 0, b, b2) /\ Same(T, "file", 0, f, f2)
      /\ Same(T, "out", 0, o, o2) /\ Same(T, "returned", 0, r, r2)
  OBVIOUS
<1>4. \A h \in DOMAIN J : h \notin T => J[h] = H[h]
  <2> HIDE DEF T
  <2> QED
    BY <1>1, <1>2, <1>3, SameBut
<1>5. DOMAIN J = DOMAIN H
  BY DEF Parts
<1> QED
  BY <1>4, <1>5 DEF Among

(* The only run becomes the sorted file. *)
LEMMA FileTaken ==
  ASSUME NEW b, NEW o, NEW r, NEW hs, NEW ps, NEW rs, DOMAIN rs = 1 .. 1,
         NEW n \in Nat, DOMAIN rs[1].unread = 1 .. n, NEW records,
         Once(Parts(b, <<>>, o, r, rs, hs, ps), records)
  PROVE  Once(Parts(b, rs[1].unread, o, r, <<>>, hs, ps), records)
<1> DEFINE u == rs[1].unread
           rs1 == [i \in 1 .. 1 |-> [unread |-> <<>>]]
           A == <<"run", 1>>
           Z == <<"file", 0>>
           H0 == Parts(b, <<>>, o, r, rs, hs, ps)
           H1 == Parts(b, u, o, r, rs1, hs, ps)
           H2 == Parts(b, u, o, r, <<>>, hs, ps)
<1>1. /\ DOMAIN rs1 = 1 .. 1 /\ rs1[1].unread = <<>> /\ 1 \in 1 .. 1 /\ DOMAIN <<>> = 1 .. 0
      /\ \A i \in 1 .. 1 : i = 1
  OBVIOUS
<1> HIDE DEF rs1
<1>2. /\ A \in DOMAIN H0 /\ Z \in DOMAIN H0 /\ A # Z
      /\ H0[A] = u /\ H0[Z] = <<>> /\ H1[A] = <<>> /\ H1[Z] = u
  BY <1>1, PartsAre
<1> HIDE DEF u
<1>3. Among(H0, H1, A, Z)
  <2>1. \A i \in DOMAIN rs : Same({A, Z}, "run", i, rs[i].unread, rs1[i].unread)
    BY <1>1 DEF Same
  <2>2. \A kind, i, x : Same({A, Z}, kind, i, x, x)
    BY DEF Same
  <2>3. Same({A, Z}, "file", 0, <<>>, u)
    BY DEF Same
  <2>4. DOMAIN rs1 = DOMAIN rs
    BY <1>1
  <2> HIDE DEF A, Z
  <2> QED
    BY <1>2, <2>1, <2>2, <2>3, <2>4, BetweenTwo
<1>4. Shifted(u, <<>>, <<>>, u, n, n, 0)
  <2>1. n - n = 0 /\ 0 + n = n /\ \A j \in 1 .. n : 0 + j = j
    OBVIOUS
  <2> QED
    BY <1>1, <2>1 DEF Shifted, u
<1>5. /\ \A h : h \notin {A} => (h \in DOMAIN H2 <=> h \in DOMAIN H1)
      /\ \A h \in DOMAIN H2 : h \notin {A} => H2[h] = H1[h]
  <2>1. \A kind, i, x : Same({A}, kind, i, x, x)
    BY DEF Same
  <2>2. \A i \in DOMAIN rs1 \cup DOMAIN <<>> :
          \/ <<"run", i>> \in {A}
          \/ i \in DOMAIN rs1 /\ i \in DOMAIN <<>> /\ <<>>[i].unread = rs1[i].unread
    BY <1>1
  <2>3. \A i \in DOMAIN hs \cup DOMAIN hs :
          \/ <<"head", i>> \in {A} /\ <<"page", i>> \in {A}
          \/ /\ i \in DOMAIN hs /\ i \in DOMAIN hs
             /\ Same({A}, "head", i, hs[i], hs[i]) /\ Same({A}, "page", i, ps[i], ps[i])
    BY <2>1
  <2>4. /\ Same({A}, "buffer", 0, b, b) /\ Same({A}, "file", 0, u, u)
        /\ Same({A}, "out", 0, o, o) /\ Same({A}, "returned", 0, r, r)
    BY <2>1
  <2> DEFINE none == <<>>
  <2>5. \A i \in DOMAIN rs1 \cup DOMAIN none :
          \/ <<"run", i>> \in {A}
          \/ i \in DOMAIN rs1 /\ i \in DOMAIN none /\ none[i].unread = rs1[i].unread
    BY <2>2
  <2>6. H2 = Parts(b, u, o, r, none, hs, ps)
    OBVIOUS
  <2> HIDE DEF A, none, H2
  <2> QED
    BY <2>3, <2>4, <2>5, <2>6, SameBut
<1>6. A \notin DOMAIN H2
  BY <1>1, PartsAre
<1>7. Once(H0, records)
  OBVIOUS
<1> HIDE DEF H0, H1, H2, A, Z
<1>8. Once(H1, records)
  BY <1>2, <1>3, <1>4, <1>7, Shift
<1>9. Once(H2, records)
  <2>1. \A h \in DOMAIN H1 : DOMAIN H1[h] = {} \/ (h \in DOMAIN H2 /\ H2[h] = H1[h])
    BY <1>1, <1>2, <1>5
  <2>2. \A h \in DOMAIN H2 : DOMAIN H2[h] = {} \/ (h \in DOMAIN H1 /\ H2[h] = H1[h])
    BY <1>5, <1>6
  <2> QED
    BY <1>8, <2>1, <2>2, SamePlaces
<1> QED
  BY <1>9 DEF H2, u

LEMMA SortRunsKeeps ==
  ASSUME TypeOK, Phases, PassRuns, NothingLost, SortRuns
  PROVE  NothingLost'
<1>1. /\ phase = "insertion" /\ runs # <<>> /\ buffer' = <<>>
      /\ UNCHANGED <<pass, inserted, returned>> /\ Record' = Record
      /\ sortedFile.unread = <<>>
  BY DEF SortRuns, Phases, Record, NoFile
<1>2. PICK rest \in Ascending(buffer, inserted) :
        IF Len(LastRuns(rest)) = 1
        THEN phase' = "sorted" /\ sortedFile' = LastRuns(rest)[1] /\ runs' = <<>>
        ELSE phase' = "merging" /\ runs' = LastRuns(rest) /\ UNCHANGED sortedFile
  BY DEF SortRuns
<1>3. /\ LastRuns(rest) \in Seq(File)
      /\ rest \in Seq(Record) /\ Len(rest) = Len(buffer)
      /\ Len(LastRuns(rest)) = IF buffer = <<>> THEN Len(runs) ELSE Len(runs) + 1
      /\ \A i \in 1 .. Len(runs) : LastRuns(rest)[i] = runs[i]
      /\ buffer # <<>> => LastRuns(rest)[Len(runs) + 1] = Run(rest)
  BY <1>1, LastRun
<1>4. /\ buffer \in Seq(Record) /\ Len(buffer) \in Nat /\ DOMAIN buffer = 1 .. Len(buffer)
      /\ runs \in Seq(File) /\ Len(runs) \in Nat /\ DOMAIN runs = 1 .. Len(runs)
  BY DEF TypeOK
<1> DEFINE L == LastRuns(rest)
<1>5. Once(Parts(<<>>, <<>>, pass.out, returned, L, pass.heads, pass.buffers), Record)
  <2>1. Once(Parts(buffer, <<>>, pass.out, returned, runs, pass.heads, pass.buffers), Record)
    BY <1>1, Together DEF HeldNow
  <2>2. CASE buffer = <<>>
    <3>1. rest = <<>>
      BY <1>3, <2>2, EmptySeq
    <3> QED
      BY <2>1, <2>2, <3>1 DEF LastRuns
  <2>3. CASE buffer # <<>>
    <3>1. PICK p \in Bijection(1 .. Len(buffer), 1 .. Len(buffer)) :
            rest = [i \in 1 .. Len(buffer) |-> buffer[p[i]]]
      BY <1>4, Arranging
    <3>2. Once(Parts(rest, <<>>, pass.out, returned, runs, pass.heads, pass.buffers), Record)
      <4> DEFINE n == Len(buffer)
                 f == <<>>
      <4>1. n \in Nat /\ DOMAIN buffer = 1 .. n /\ p \in Bijection(1 .. n, 1 .. n)
            /\ rest = [i \in 1 .. n |-> buffer[p[i]]]
        BY <1>4, <3>1
      <4>2. Once(Parts(buffer, f, pass.out, returned, runs, pass.heads, pass.buffers), Record)
        BY <2>1
      <4> HIDE DEF n, f
      <4>3. Once(Parts(rest, f, pass.out, returned, runs, pass.heads, pass.buffers), Record)
        BY <4>1, <4>2, BufferSorted
      <4> QED
        BY <4>3 DEF f
    <3>3. /\ DOMAIN rest = 1 .. Len(buffer) /\ DOMAIN L = 1 .. Len(runs) + 1
          /\ L[Len(runs) + 1].unread = rest
          /\ \A i \in 1 .. Len(runs) : L[i] = runs[i]
      BY <1>3, <1>4, <2>3 DEF Run
    <3> HIDE DEF L
    <3> QED
      BY <1>4, <3>2, <3>3, RunWritten
  <2> QED
    BY <2>2, <2>3
<1>6. CASE Len(L) = 1
  <2>1. sortedFile' = L[1] /\ runs' = <<>>
    BY <1>2, <1>6
  <2>2. DOMAIN L = 1 .. 1 /\ L[1].unread \in Seq(Record)
    <3>1. L \in Seq(File) /\ Len(L) = 1
      BY <1>3, <1>6
    <3> HIDE DEF L
    <3>2. DOMAIN L = 1 .. 1
      BY <3>1
    <3>3. L[1] \in File
      BY <3>1
    <3> QED
      BY <3>2, <3>3 DEF File
  <2> DEFINE n == Len(L[1].unread)
  <2>3. n \in Nat /\ DOMAIN L[1].unread = 1 .. n
    BY <2>2
  <2> HIDE DEF L, n
  <2>4. Once(Parts(<<>>, L[1].unread, pass.out, returned, <<>>, pass.heads, pass.buffers), Record)
    BY <1>5, <2>2, <2>3, FileTaken
  <2>5. HeldNow' = Parts(<<>>, L[1].unread, pass.out, returned, <<>>, pass.heads, pass.buffers)
    BY <1>1, <2>1 DEF HeldNow
  <2> QED
    BY <1>1, <2>4, <2>5, TogetherAfter
<1>7. CASE Len(L) # 1
  <2>1. runs' = L /\ UNCHANGED sortedFile
    BY <1>2, <1>7
  <2>2. HeldNow' = Parts(<<>>, <<>>, pass.out, returned, L, pass.heads, pass.buffers)
    BY <1>1, <2>1 DEF HeldNow
  <2> QED
    BY <1>1, <1>5, <2>2, TogetherAfter
<1> QED
  BY <1>6, <1>7

LEMMA GetNextRecordKeeps ==
  ASSUME TypeOK, Phases, NothingLost, GetNextRecord
  PROVE  NothingLost'
<1>1. UNCHANGED <<runs, pass, inserted>> /\ Record' = Record
  BY DEF GetNextRecord, Record
<1>2. /\ buffer \in Seq(Record) /\ sortedFile.unread \in Seq(Record)
      /\ sortedFile \in File /\ returned \in Seq(Record)
  BY DEF TypeOK, File
<1>3. /\ DOMAIN returned = 1 .. Len(returned) /\ Len(returned) \in Nat
  BY <1>2
<1> DEFINE u == IF FromFile THEN sortedFile.unread ELSE buffer
           u2 == IF FromFile THEN sortedFile'.unread ELSE buffer'
<1>4. /\ u \in Seq(Record) /\ u # <<>> /\ returned' = Append(returned, Head(u))
  BY <1>2 DEF GetNextRecord
<1>5. /\ Len(u) \in Nat \ {0} /\ DOMAIN u = 1 .. Len(u) /\ Head(u) = u[1] /\ u[1] \in Record
  BY <1>4, EmptySeq
<1>6. DOMAIN u2 = 1 .. Len(u) - 1 /\ \A j \in 1 .. Len(u) - 1 : u2[j] = u[j + 1]
  <2>1. CASE FromFile
    <3>1. sortedFile' = After(sortedFile, 1) /\ u = sortedFile.unread /\ u2 = After(sortedFile, 1).unread
      BY <2>1 DEF GetNextRecord
    <3>2. /\ After(sortedFile, 1) \in File
          /\ Len(Got(sortedFile, 1)) = IF 1 <= Len(sortedFile.unread) THEN 1 ELSE Len(sortedFile.unread)
          /\ Len(After(sortedFile, 1).unread) = Len(sortedFile.unread) - Len(Got(sortedFile, 1))
          /\ \A j \in 1 .. Len(After(sortedFile, 1).unread) :
               After(sortedFile, 1).unread[j] = sortedFile.unread[j + Len(Got(sortedFile, 1))]
      BY <1>2, Reading
    <3> HIDE DEF u, u2
    <3>3. Len(Got(sortedFile, 1)) = 1
      BY <1>5, <3>1, <3>2
    <3>4. u2 \in Seq(Record)
      BY <3>1, <3>2 DEF File
    <3>5. Len(u2) = Len(u) - 1
      BY <3>1, <3>2, <3>3
    <3>6. DOMAIN u2 = 1 .. Len(u) - 1
      BY <3>4, <3>5
    <3>7. \A j \in 1 .. Len(u) - 1 : u2[j] = u[j + 1]
      BY <3>1, <3>2, <3>3, <3>5
    <3> QED
      BY <3>6, <3>7
  <2>2. CASE ~FromFile
    <3>1. u = buffer /\ u2 = Tail(buffer)
      BY <2>2 DEF GetNextRecord
    <3> HIDE DEF u, u2
    <3> QED
      BY <1>4, <1>5, <3>1
  <2> QED
    BY <2>1, <2>2
<1>7. Shifted(u, returned, u2, returned', 1, Len(u), Len(returned))
  <2> HIDE DEF u, u2
  <2>1. /\ DOMAIN returned' = 1 .. Len(returned) + 1
        /\ \A j \in 1 .. Len(returned) : returned'[j] = returned[j]
        /\ returned'[Len(returned) + 1] = u[1]
    BY <1>2, <1>4, <1>5
  <2>2. \A j \in 1 .. 1 : j = 1
    OBVIOUS
  <2> QED
    BY <1>3, <1>5, <1>6, <2>1, <2>2 DEF Shifted
<1> DEFINE A == IF FromFile THEN <<"file", 0>> ELSE <<"buffer", 0>>
           B == <<"returned", 0>>
<1>8. Among(HeldNow, HeldNow', A, B)
  <2>1. /\ A \in DOMAIN HeldNow /\ B \in DOMAIN HeldNow /\ A # B
    BY PartsAre DEF HeldNow
  <2>2. \A kind, i, x : Same({A, B}, kind, i, x, x)
    BY DEF Same
  <2>3. Same({A, B}, "file", 0, sortedFile.unread, sortedFile'.unread)
    BY DEF GetNextRecord, Same
  <2>4. Same({A, B}, "buffer", 0, buffer, buffer')
    BY DEF GetNextRecord, Same
  <2>5. Same({A, B}, "returned", 0, returned, returned')
    BY DEF Same
  <2> HIDE DEF A, B
  <2> QED
    BY <1>1, <2>1, <2>2, <2>3, <2>4, <2>5, BetweenTwo DEF HeldNow
<1>9. HeldNow[A] = u /\ HeldNow'[A] = u2 /\ HeldNow[B] = returned /\ HeldNow'[B] = returned'
  BY PartsAre DEF HeldNow
<1> HIDE DEF A, B, u, u2
<1>10. Once(HeldNow', Record)
  BY <1>7, <1>8, <1>9, Together, Shift
<1> QED
  BY <1>1, <1>10, TogetherAfter

(* The holders of a run that is being merged. *)
LEMMA RunPart ==
  ASSUME NEW b, NEW f, NEW o, NEW r, NEW rs, NEW hs, NEW ps, NEW i \in DOMAIN rs
  PROVE  /\ <<"run", i>> \in DOMAIN Parts(b, f, o, r, rs, hs, ps)
         /\ Parts(b, f, o, r, rs, hs, ps)[<<"run", i>>] = rs[i].unread
  BY PartsAre

LEMMA HeadPart ==
  ASSUME NEW b, NEW f, NEW o, NEW r, NEW rs, NEW hs, NEW ps, NEW i \in DOMAIN hs
  PROVE  /\ <<"head", i>> \in DOMAIN Parts(b, f, o, r, rs, hs, ps)
         /\ Parts(b, f, o, r, rs, hs, ps)[<<"head", i>>] = hs[i]
  BY DEF Parts

LEMMA PagePart ==
  ASSUME NEW b, NEW f, NEW o, NEW r, NEW rs, NEW hs, NEW ps, NEW i \in DOMAIN hs
  PROVE  /\ <<"page", i>> \in DOMAIN Parts(b, f, o, r, rs, hs, ps)
         /\ Parts(b, f, o, r, rs, hs, ps)[<<"page", i>>] = ps[i]
  BY DEF Parts

LEMMA OutPart ==
  ASSUME NEW b, NEW f, NEW o, NEW r, NEW rs, NEW hs, NEW ps
  PROVE  /\ <<"out", 0>> \in DOMAIN Parts(b, f, o, r, rs, hs, ps)
         /\ Parts(b, f, o, r, rs, hs, ps)[<<"out", 0>>] = o
  BY DEF Parts

LEMMA MergeStepKeeps ==
  ASSUME TypeOK, Phases, PassRuns, NothingLost, NEW i \in 1 .. Len(runs), MergeStep(i)
  PROVE  NothingLost'
<1> DEFINE f == sortedFile.unread
           hs == pass.heads
           ps == pass.buffers
           ps1 == [ps EXCEPT ![i] = Page(i)]
           hs2 == [hs EXCEPT ![i] = <<>>]
           H1 == Parts(buffer, f, pass.out, returned, runs', hs, ps1)
           H2 == Parts(buffer, f, pass'.out, returned, runs', hs2, ps1)
           R == <<"run", i>>
           P == <<"page", i>>
           Q == <<"head", i>>
           O == <<"out", 0>>
<1>1. /\ UNCHANGED <<buffer, sortedFile, inserted, returned>> /\ Record' = Record
  BY DEF MergeStep, Record
<1>2. /\ i \in DOMAIN hs /\ i \in DOMAIN ps
      /\ hs[i] \in Seq(Record) /\ Len(hs[i]) = 1
      /\ Page(i) \in Seq(Record)
      /\ pass'.heads = [hs EXCEPT ![i] = IF Page(i) # <<>> THEN <<Page(i)[1]>> ELSE <<>>]
      /\ pass'.buffers = [ps EXCEPT ![i] = IF Page(i) # <<>> THEN Tail(Page(i)) ELSE <<>>]
      /\ pass'.out = Append(pass.out, hs[i][1])
      /\ runs' = [runs EXCEPT ![i] = IF Refills(i) THEN After(@, PageSize) ELSE @]
  BY NextPage
<1>3. /\ hs \in Seq(Seq(Record)) /\ ps \in Seq(Seq(Record)) /\ pass.out \in Seq(Record)
      /\ runs \in Seq(File) /\ i \in DOMAIN runs /\ runs[i] \in File
      /\ Len(ps) = Len(hs) /\ DOMAIN ps = DOMAIN hs
  BY DEF TypeOK
<1>4. /\ DOMAIN runs' = DOMAIN runs /\ DOMAIN ps1 = DOMAIN ps /\ DOMAIN hs2 = DOMAIN hs
      /\ DOMAIN pass'.heads = DOMAIN hs /\ DOMAIN pass'.buffers = DOMAIN ps
      /\ \A j \in DOMAIN runs : j # i => runs'[j] = runs[j]
      /\ \A j \in DOMAIN hs : j # i => /\ ps1[j] = ps[j] /\ hs2[j] = hs[j]
                                       /\ pass'.heads[j] = hs2[j] /\ pass'.buffers[j] = ps1[j]
      /\ ps1[i] = Page(i) /\ hs2[i] = <<>>
      /\ runs'[i] = IF Refills(i) THEN After(runs[i], PageSize) ELSE runs[i]
      /\ pass'.heads[i] = IF Page(i) # <<>> THEN <<Page(i)[1]>> ELSE <<>>
      /\ pass'.buffers[i] = IF Page(i) # <<>> THEN Tail(Page(i)) ELSE <<>>
  BY <1>2, <1>3
<1>5. Once(HeldNow, Record)
  BY Together
<1>6. \A T, kind, j, x : Same(T, kind, j, x, x)
  BY DEF Same
<1>7. /\ R \in DOMAIN HeldNow /\ P \in DOMAIN HeldNow /\ R # P
      /\ HeldNow[R] = runs[i].unread /\ HeldNow[P] = ps[i]
  <2>1. i \in DOMAIN runs /\ i \in DOMAIN pass.heads
    BY <1>2, <1>3
  <2>2. R \in DOMAIN HeldNow /\ HeldNow[R] = runs[i].unread
    BY <2>1, RunPart DEF HeldNow
  <2>3. P \in DOMAIN HeldNow /\ HeldNow[P] = ps[i]
    BY <2>1, PagePart DEF HeldNow
  <2> QED
    BY <2>2, <2>3
<1>8. /\ Q \in DOMAIN H1 /\ O \in DOMAIN H1 /\ Q # O
      /\ H1[R] = runs'[i].unread /\ H1[P] = Page(i) /\ H1[Q] = hs[i] /\ H1[O] = pass.out
  <2>1. i \in DOMAIN runs' /\ i \in DOMAIN hs /\ ps1[i] = Page(i)
    BY <1>2, <1>3, <1>4
  <2> HIDE DEF f, hs, ps, ps1
  <2>2. H1[R] = runs'[i].unread
    BY <2>1, RunPart
  <2>3. Q \in DOMAIN H1 /\ H1[Q] = hs[i]
    BY <2>1, HeadPart
  <2>4. H1[P] = Page(i)
    BY <2>1, PagePart
  <2>5. O \in DOMAIN H1 /\ H1[O] = pass.out
    BY OutPart
  <2> QED
    BY <2>2, <2>3, <2>4, <2>5
<1>9. /\ P \in DOMAIN H2 /\ Q \in DOMAIN H2 /\ P # Q
      /\ H2[P] = Page(i) /\ H2[Q] = <<>> /\ H2[O] = pass'.out
  <2>1. i \in DOMAIN hs2 /\ ps1[i] = Page(i) /\ hs2[i] = <<>>
    BY <1>2, <1>3, <1>4
  <2> HIDE DEF f, hs, ps, ps1, hs2
  <2>2. Q \in DOMAIN H2 /\ H2[Q] = <<>>
    BY <2>1, HeadPart
  <2>3. P \in DOMAIN H2 /\ H2[P] = Page(i)
    BY <2>1, PagePart
  <2>4. H2[O] = pass'.out
    BY OutPart
  <2> QED
    BY <2>2, <2>3, <2>4
<1>10. /\ HeldNow'[P] = pass'.buffers[i] /\ HeldNow'[Q] = pass'.heads[i]
  <2>1. HeldNow' = Parts(buffer', sortedFile'.unread, pass'.out, returned', runs', pass'.heads, pass'.buffers)
    BY DEF HeldNow
  <2>2. i \in DOMAIN pass'.heads
    BY <1>2, <1>3, <1>4
  <2> HIDE DEF HeldNow
  <2>3. HeldNow'[P] = pass'.buffers[i]
    BY <2>1, <2>2, PagePart
  <2>4. HeldNow'[Q] = pass'.heads[i]
    BY <2>1, <2>2, HeadPart
  <2> QED
    BY <2>3, <2>4
<1>11. HeldNow' = Parts(buffer, f, pass'.out, returned, runs', pass'.heads, pass'.buffers)
  BY <1>1 DEF HeldNow
<1>12. \A j \in DOMAIN hs : /\ Same({R, P}, "head", j, hs[j], hs[j])
                            /\ Same({R, P}, "page", j, ps[j], ps1[j])
                            /\ Same({Q, O}, "head", j, hs[j], hs2[j])
                            /\ Same({P, Q}, "head", j, hs2[j], pass'.heads[j])
                            /\ Same({P, Q}, "page", j, ps1[j], pass'.buffers[j])
  <2> TAKE j \in DOMAIN hs
  <2>1. CASE j = i
    BY <2>1 DEF Same
  <2>2. CASE j # i
    BY <1>4, <2>2 DEF Same
  <2> QED
    BY <2>1, <2>2
<1>13. \A j \in DOMAIN runs : Same({R, P}, "run", j, runs[j].unread, runs'[j].unread)
  <2> TAKE j \in DOMAIN runs
  <2>1. CASE j = i
    BY <2>1 DEF Same
  <2>2. CASE j # i
    BY <1>4, <2>2 DEF Same
  <2> QED
    BY <2>1, <2>2
<1>14. Same({Q, O}, "out", 0, pass.out, pass'.out)
  BY DEF Same
<1>15. HeldNow = Parts(buffer, f, pass.out, returned, runs, hs, ps)
  BY DEF HeldNow
<1> HIDE DEF f, hs, ps, ps1, hs2, R, P, Q, O
(* The empty buffer of the run is read again, *)
<1>16. Once(H1, Record)
  <2>1. CASE Refills(i)
    <3>1. Among(HeldNow, H1, R, P)
      BY <1>4, <1>6, <1>7, <1>12, <1>13, <1>15, BetweenTwo
    <3> DEFINE u == runs[i].unread
               k == Len(Page(i))
               v == runs'[i].unread
    <3>2. u \in Seq(Record) /\ Len(u) \in Nat /\ DOMAIN u = 1 .. Len(u)
      BY <1>3 DEF File
    <3>3. Page(i) = Got(runs[i], PageSize) /\ v = After(runs[i], PageSize).unread /\ ps[i] = <<>>
      BY <1>4, <2>1 DEF Page, Refills, ps
    <3>4. /\ Len(Page(i)) = IF PageSize <= Len(u) THEN PageSize ELSE Len(u)
          /\ \A j \in 1 .. k : Page(i)[j] = u[j]
          /\ v \in Seq(Record) /\ Len(v) = Len(u) - k
          /\ \A j \in 1 .. Len(v) : v[j] = u[j + k]
      <4>1. /\ After(runs[i], PageSize) \in File
            /\ Len(Got(runs[i], PageSize)) = IF PageSize <= Len(runs[i].unread) THEN PageSize ELSE Len(runs[i].unread)
            /\ \A j \in 1 .. Len(Got(runs[i], PageSize)) : Got(runs[i], PageSize)[j] = runs[i].unread[j]
            /\ Len(After(runs[i], PageSize).unread) = Len(runs[i].unread) - Len(Got(runs[i], PageSize))
            /\ \A j \in 1 .. Len(After(runs[i], PageSize).unread) :
                 After(runs[i], PageSize).unread[j] = runs[i].unread[j + Len(Got(runs[i], PageSize))]
        BY <1>3, Sizes, Reading
      <4> QED
        BY <3>3, <4>1 DEF File
    <3>5. k \in Nat /\ k <= Len(u) /\ DOMAIN Page(i) = 1 .. k
      <4>1. k \in Nat /\ DOMAIN Page(i) = 1 .. k
        BY <1>2
      <4> QED
        BY <3>2, <3>4, <4>1, Sizes
    <3>6. DOMAIN v = 1 .. Len(u) - k
      BY <3>4
    <3> HIDE DEF u, k, v
    <3>7. Shifted(u, ps[i], v, Page(i), k, Len(u), 0)
      <4>1. 0 + k = k /\ \A j \in 1 .. k : 0 + j = j
        BY <3>5
      <4>2. DOMAIN ps[i] = 1 .. 0
        BY <3>3
      <4>3. \A j \in 1 .. Len(u) - k : v[j] = u[j + k]
        BY <3>4, <3>6
      <4> QED
        BY <3>2, <3>4, <3>5, <3>6, <4>1, <4>2, <4>3 DEF Shifted
    <3>8. HeldNow[R] = u /\ H1[R] = v /\ HeldNow[P] = ps[i] /\ H1[P] = Page(i)
      BY <1>7, <1>8 DEF u, v
    <3> HIDE DEF H1
    <3> QED
      BY <1>5, <3>1, <3>7, <3>8, Shift
  <2>2. CASE ~Refills(i)
    <3>1. Page(i) = ps[i]
      BY <2>2 DEF Page, ps
    <3>2. ps1 = ps
      BY <1>2, <1>3, <3>1 DEF ps1
    <3>3. runs' = runs
      BY <1>2, <1>3, <2>2
    <3> QED
      BY <1>5, <1>15, <3>2, <3>3
  <2> QED
    BY <2>1, <2>2
(* the top is written, *)
<1>17. Once(H2, Record)
  <2>1. Among(H1, H2, Q, O)
    <3>1. \A j \in DOMAIN hs : /\ Same({Q, O}, "head", j, hs[j], hs2[j])
                               /\ Same({Q, O}, "page", j, ps1[j], ps1[j])
      BY <1>6, <1>12
    <3> QED
      BY <1>4, <1>6, <1>8, <1>14, <3>1, BetweenTwo
  <2> DEFINE n == Len(pass.out)
  <2>2. Shifted(hs[i], pass.out, <<>>, pass'.out, 1, 1, n)
    <3>1. DOMAIN hs[i] = 1 .. 1 /\ hs[i][1] \in Record
      <4>1. \A s \in Seq(Record) : Len(s) = 1 => DOMAIN s = 1 .. 1 /\ s[1] \in Record
        OBVIOUS
      <4>2. hs[i] \in Seq(Record) /\ Len(hs[i]) = 1
        BY <1>2
      <4> QED
        BY <4>1, <4>2
    <3>2. /\ n \in Nat /\ DOMAIN pass.out = 1 .. n
          /\ DOMAIN pass'.out = 1 .. n + 1
          /\ \A j \in 1 .. n : pass'.out[j] = pass.out[j]
          /\ pass'.out[n + 1] = hs[i][1]
      <4>1. /\ pass.out \in Seq(Record) /\ hs[i][1] \in Record
            /\ pass'.out = Append(pass.out, hs[i][1])
        BY <1>2, <1>3, <3>1
      <4> QED
        BY <4>1
    <3>3. DOMAIN <<>> = 1 .. 1 - 1 /\ \A j \in 1 .. 1 : j = 1
      OBVIOUS
    <3> HIDE DEF n
    <3> QED
      BY <3>1, <3>2, <3>3 DEF Shifted
  <2>3. H1[Q] = hs[i] /\ H1[O] = pass.out /\ H2[Q] = <<>> /\ H2[O] = pass'.out
    BY <1>8, <1>9
  <2> HIDE DEF H1, H2, n
  <2> QED
    BY <1>16, <2>1, <2>2, <2>3, Shift
(* and the next record of the run is queued. *)
<1>18. Once(HeldNow', Record)
  <2>1. CASE Page(i) # <<>>
    <3>1. Among(H2, HeldNow', P, Q)
      BY <1>3, <1>4, <1>6, <1>9, <1>11, <1>12, BetweenTwo
    <3> DEFINE m == Len(Page(i))
    <3>2. Shifted(Page(i), <<>>, pass'.buffers[i], pass'.heads[i], 1, m, 0)
      <4>1. m \in Nat \ {0} /\ DOMAIN Page(i) = 1 .. m
        BY <1>2, <2>1, EmptySeq
      <4>2. /\ DOMAIN pass'.buffers[i] = 1 .. m - 1
            /\ \A j \in 1 .. m - 1 : pass'.buffers[i][j] = Page(i)[j + 1]
        BY <1>2, <1>4, <2>1, <4>1
      <4>3. DOMAIN pass'.heads[i] = 1 .. 1 /\ pass'.heads[i][1] = Page(i)[1]
        BY <1>4, <2>1
      <4>4. DOMAIN <<>> = 1 .. 0 /\ \A j \in 1 .. 1 : j = 1
        OBVIOUS
      <4> HIDE DEF m
      <4> QED
        BY <4>1, <4>2, <4>3, <4>4 DEF Shifted
    <3>3. H2[P] = Page(i) /\ H2[Q] = <<>> /\ HeldNow'[P] = pass'.buffers[i] /\ HeldNow'[Q] = pass'.heads[i]
      BY <1>9, <1>10
    <3> HIDE DEF H2, m
    <3> QED
      BY <1>17, <3>1, <3>2, <3>3, Shift
  <2>2. CASE Page(i) = <<>>
    <3>1. pass'.heads = hs2 /\ pass'.buffers = ps1
      BY <1>2, <2>2 DEF hs2, ps1
    <3> QED
      BY <1>11, <1>17, <3>1
  <2> QED
    BY <2>1, <2>2
<1> QED
  BY <1>1, <1>18, TogetherAfter

(* When all the runs, pages and queued records change. *)
LEMMA ListsChange ==
  ASSUME NEW b, NEW f, NEW o, NEW r, NEW rs, NEW hs, NEW ps, NEW o2, NEW rs2, NEW none, NEW T,
         DOMAIN none = {}, <<"out", 0>> \in T,
         \A i \in DOMAIN rs \cup DOMAIN rs2 : <<"run", i>> \in T,
         \A i \in DOMAIN hs : <<"head", i>> \in T /\ <<"page", i>> \in T
  PROVE  LET H == Parts(b, f, o, r, rs, hs, ps)
             J == Parts(b, f, o2, r, rs2, none, none)
         IN /\ \A h : h \notin T => (h \in DOMAIN J <=> h \in DOMAIN H)
            /\ \A h \in DOMAIN J : h \notin T => J[h] = H[h]
<1>1. \A i \in DOMAIN hs \cup DOMAIN none : <<"head", i>> \in T /\ <<"page", i>> \in T
  OBVIOUS
<1>2. /\ Same(T, "buffer", 0, b, b) /\ Same(T, "file", 0, f, f)
      /\ Same(T, "out", 0, o, o2) /\ Same(T, "returned", 0, r, r)
  BY DEF Same
<1> QED
  BY <1>1, <1>2, SameBut

InT(T, rs, rs2, none, hs) ==
  /\ \A i \in DOMAIN rs \cup DOMAIN rs2 :
       \/ <<"run", i>> \in T
       \/ i \in DOMAIN rs /\ i \in DOMAIN rs2 /\ rs2[i].unread = rs[i].unread
  /\ \A i \in DOMAIN none \cup DOMAIN hs : <<"head", i>> \in T /\ <<"page", i>> \in T

LEMMA PagesChange ==
  ASSUME NEW b, NEW f, NEW o, NEW r, NEW rs, NEW hs, NEW ps, NEW rs2, NEW none, NEW T,
         InT(T, rs, rs2, none, hs)
  PROVE  LET H == Parts(b, f, o, r, rs, none, none)
             J == Parts(b, f, o, r, rs2, hs, ps)
         IN /\ \A h : h \notin T => (h \in DOMAIN J <=> h \in DOMAIN H)
            /\ \A h \in DOMAIN J : h \notin T => J[h] = H[h]
<1>1. /\ Same(T, "buffer", 0, b, b) /\ Same(T, "file", 0, f, f)
      /\ Same(T, "out", 0, o, o) /\ Same(T, "returned", 0, r, r)
  BY DEF Same
<1>2. /\ \A i \in DOMAIN rs \cup DOMAIN rs2 :
           \/ <<"run", i>> \in T
           \/ i \in DOMAIN rs /\ i \in DOMAIN rs2 /\ rs2[i].unread = rs[i].unread
      /\ \A i \in DOMAIN none \cup DOMAIN hs : <<"head", i>> \in T /\ <<"page", i>> \in T
  BY DEF InT
<1> QED
  BY <1>1, <1>2, SameBut

LEMMA HoldersWithout ==
  ASSUME NEW b, NEW f, NEW o, NEW r, NEW rs, NEW none, DOMAIN none = {}
  PROVE  \A h \in DOMAIN Parts(b, f, o, r, rs, none, none) :
           \/ h \in {<<"buffer", 0>>, <<"file", 0>>, <<"out", 0>>, <<"returned", 0>>}
           \/ \E i \in DOMAIN rs : h = <<"run", i>>
  BY PartsAre

(* At the end of a pass the merged runs go, the others move up, and the    *)
(* output becomes the last of them.                                        *)
LEMMA RunsRenumbered ==
  ASSUME NEW b, NEW f, NEW o, NEW r, NEW rs, NEW hs, NEW ps,
         NEW n \in Nat, NEW M \in 1 .. n, DOMAIN rs = 1 .. n, DOMAIN hs = 1 .. M,
         \A i \in 1 .. M : rs[i].unread = <<>> /\ hs[i] = <<>> /\ ps[i] = <<>>,
         NEW rs2, DOMAIN rs2 = 1 .. n - M + 1,
         \A i \in 1 .. n - M : rs2[i] = rs[i + M], rs2[n - M + 1].unread = o,
         NEW records, Once(Parts(b, f, o, r, rs, hs, ps), records)
  PROVE  Once(Parts(b, f, <<>>, r, rs2, <<>>, <<>>), records)
<1> DEFINE L == n - M + 1
           none == <<>>
           H == Parts(b, f, o, r, rs, hs, ps)
           J == Parts(b, f, none, r, rs2, none, none)
           O == <<"out", 0>>
           T == {"run", "head", "page"} \X Int \cup {O}
           from == [h \in T |-> IF h = <<"run", L>> THEN [j \in DOMAIN o |-> <<O, j>>]
                                ELSE [j \in DOMAIN rs[h[2] + M].unread |-> <<<<"run", h[2] + M>>, j>>]]
           to == [g \in T |-> IF g = O THEN [j \in DOMAIN o |-> <<<<"run", L>>, j>>]
                              ELSE [j \in DOMAIN rs[g[2]].unread |-> <<<<"run", g[2] - M>>, j>>]]
<1>1. /\ L \in 1 .. n /\ L \in Int /\ M \in Int
      /\ \A i \in 1 .. n - M : i \in 1 .. L /\ i # L /\ i + M \in 1 .. n /\ (i + M) - M = i /\ i \in Int
      /\ \A i \in 1 .. L : i \in 1 .. n - M \/ i = L
      /\ \A i \in 1 .. n : i \in 1 .. M \/ (i - M \in 1 .. n - M /\ (i - M) + M = i)
      /\ L \in 1 .. L
  OBVIOUS
<1>2. DOMAIN none = {}
  OBVIOUS
<1>3. /\ \A h : h \notin T => (h \in DOMAIN J <=> h \in DOMAIN H)
      /\ \A h \in DOMAIN J : h \notin T => J[h] = H[h]
  <2>1. \A i \in DOMAIN rs \cup DOMAIN rs2 : <<"run", i>> \in T
    <3>1. \A i \in DOMAIN rs \cup DOMAIN rs2 : i \in Int
      BY <1>1
    <3> QED
      BY <3>1
  <2>2. \A i \in DOMAIN hs \cup DOMAIN none : <<"head", i>> \in T /\ <<"page", i>> \in T
    <3>1. \A i \in DOMAIN hs \cup DOMAIN none : i \in Int
      BY <1>1
    <3> QED
      BY <3>1
  <2>3. <<"out", 0>> \in T
    OBVIOUS
  <2> HIDE DEF T, none, L
  <2> QED
    BY <1>2, <2>1, <2>2, <2>3, ListsChange
<1>4. \A h \in T \cap DOMAIN J : h = O \/ \E i \in 1 .. L : h = <<"run", i>>
  <2>1. DOMAIN rs2 = 1 .. L
    OBVIOUS
  <2>2. \A h \in {<<"buffer", 0>>, <<"file", 0>>, <<"returned", 0>>} : h \notin T
    OBVIOUS
  <2>3. \A h \in DOMAIN J :
          \/ h \in {<<"buffer", 0>>, <<"file", 0>>, <<"out", 0>>, <<"returned", 0>>}
          \/ \E i \in DOMAIN rs2 : h = <<"run", i>>
    <3> HIDE DEF none
    <3> QED
      BY <1>2, HoldersWithout
  <2> HIDE DEF J, L, T
  <2> QED
    BY <2>1, <2>2, <2>3
<1>5. \A g \in T \cap DOMAIN H : \/ g = O \/ \E i \in 1 .. n : g = <<"run", i>>
                                 \/ \E i \in 1 .. M : g = <<"head", i>> \/ g = <<"page", i>>
  BY PartsAre
<1>6. /\ \A i \in Int : i # L => from[<<"run", i>>] =
            [j \in DOMAIN rs[i + M].unread |-> <<<<"run", i + M>>, j>>]
      /\ from[<<"run", L>>] = [j \in DOMAIN o |-> <<O, j>>]
      /\ \A i \in Int : to[<<"run", i>>] =
            [j \in DOMAIN rs[i].unread |-> <<<<"run", i - M>>, j>>]
      /\ to[O] = [j \in DOMAIN o |-> <<<<"run", L>>, j>>]
  <2> HIDE DEF L
  <2> QED
    BY <1>1
<1>7. \A i : <<"run", i>> \in T <=> i \in Int
  OBVIOUS
<1>8. O \in T /\ O \in DOMAIN H /\ H[O] = o /\ J[O] = none
  BY OutPart
<1>9. \A i \in 1 .. L : <<"run", i>> \in DOMAIN J /\ J[<<"run", i>>] = rs2[i].unread
  <2> TAKE i \in 1 .. L
  <2>1. i \in DOMAIN rs2
    BY <1>1
  <2> QED
    BY <2>1, RunPart
<1>10. \A i \in 1 .. n : <<"run", i>> \in DOMAIN H /\ H[<<"run", i>>] = rs[i].unread
  <2> TAKE i \in 1 .. n
  <2> QED
    BY RunPart
<1>11. \A i \in 1 .. M : H[<<"head", i>>] = <<>> /\ H[<<"page", i>>] = <<>>
  <2> TAKE i \in 1 .. M
  <2>1. H[<<"head", i>>] = hs[i]
    BY HeadPart
  <2>2. H[<<"page", i>>] = ps[i]
    BY PagePart
  <2> QED
    BY <2>1, <2>2
<1> HIDE DEF H, J, T, from, to, O, none
<1>12. ASSUME NEW h \in T \cap DOMAIN J PROVE Comes(H, J, T, from, to, h)
  <2>1. CASE h = O
    BY <1>2, <1>8, <2>1 DEF Comes
  <2>2. ASSUME NEW i \in 1 .. n - M, h = <<"run", i>> PROVE Comes(H, J, T, from, to, h)
    <3> DEFINE g == <<"run", i + M>>
    <3>1. i \in 1 .. L /\ i # L /\ i + M \in 1 .. n /\ (i + M) - M = i /\ i \in Int /\ i + M \in Int
      BY <1>1
    <3>2. /\ g \in T /\ g \in DOMAIN H /\ H[g] = rs[i + M].unread /\ J[h] = H[g]
          /\ from[h] = [j \in DOMAIN H[g] |-> <<g, j>>]
      BY <1>6, <1>7, <1>9, <1>10, <2>2, <3>1
    <3>3. to[g] = [j \in DOMAIN H[g] |-> <<h, j>>]
      <4>1. to[g] = [j \in DOMAIN rs[i + M].unread |-> <<<<"run", (i + M) - M>>, j>>]
        BY <1>6, <3>1
      <4> QED
        BY <2>2, <3>1, <3>2, <4>1
    <3> HIDE DEF g
    <3> QED
      BY <3>2, <3>3 DEF Comes
  <2>3. CASE h = <<"run", L>>
    <3>1. J[h] = o /\ from[h] = [j \in DOMAIN o |-> <<O, j>>] /\ to[O] = [j \in DOMAIN o |-> <<h, j>>]
      BY <1>1, <1>6, <1>9, <2>3
    <3> QED
      BY <1>8, <3>1 DEF Comes
  <2> QED
    BY <1>1, <1>4, <2>1, <2>2, <2>3
<1>13. ASSUME NEW g \in T \cap DOMAIN H PROVE Goes(H, J, T, from, to, g)
  <2>1. CASE g = O
    <3> DEFINE h == <<"run", L>>
    <3>1. J[h] = o /\ from[h] = [j \in DOMAIN o |-> <<O, j>>] /\ to[O] = [j \in DOMAIN o |-> <<h, j>>]
          /\ h \in T /\ h \in DOMAIN J
      BY <1>1, <1>6, <1>7, <1>9
    <3> HIDE DEF h
    <3> QED
      BY <1>8, <2>1, <3>1 DEF Goes
  <2>2. ASSUME NEW i \in 1 .. n, g = <<"run", i>> PROVE Goes(H, J, T, from, to, g)
    <3>1. CASE i \in 1 .. M
      <4>1. DOMAIN H[g] = {}
        BY <1>10, <2>2, <3>1
      <4> QED
        BY <4>1 DEF Goes
    <3>2. CASE i - M \in 1 .. n - M
      <4> DEFINE h == <<"run", i - M>>
      <4>1. (i - M) + M = i /\ i - M \in Int /\ i \in Int /\ i - M \in 1 .. L /\ i - M # L
        BY <1>1, <3>2
      <4>2. /\ h \in T /\ h \in DOMAIN J /\ J[h] = H[g] /\ H[g] = rs[i].unread
        <5>1. rs2[i - M] = rs[(i - M) + M]
          BY <3>2
        <5> QED
          BY <1>7, <1>9, <1>10, <2>2, <4>1, <5>1
      <4>3. to[g] = [j \in DOMAIN H[g] |-> <<h, j>>]
        BY <1>6, <2>2, <4>1, <4>2
      <4>4. from[h] = [j \in DOMAIN H[g] |-> <<g, j>>]
        <5>1. from[h] = [j \in DOMAIN rs[(i - M) + M].unread |-> <<<<"run", (i - M) + M>>, j>>]
          BY <1>6, <4>1
        <5> QED
          BY <2>2, <4>1, <4>2, <5>1
      <4> HIDE DEF h
      <4>5. ASSUME NEW k \in DOMAIN H[g]
            PROVE  /\ k \in DOMAIN J[h] /\ to[g][k] = <<h, k>> /\ from[h][k] = <<g, k>>
        BY <4>2, <4>3, <4>4
      <4> QED
        BY <4>2, <4>5 DEF Goes
    <3> QED
      BY <1>1, <3>1, <3>2
  <2>3. ASSUME NEW i \in 1 .. M, g = <<"head", i>> \/ g = <<"page", i>>
        PROVE  Goes(H, J, T, from, to, g)
    <3>1. H[g] = <<>>
      BY <1>11, <2>3
    <3>2. \A k \in DOMAIN H[g] : FALSE
      BY <3>1
    <3> QED
      BY <3>2 DEF Goes
  <2> QED
    BY <1>5, <2>1, <2>2, <2>3
<1>14. Carries(H, J, T, from, to)
  BY <1>3, <1>12, <1>13 DEF Carries
<1>15. Once(H, records)
  BY DEF H
<1>16. Once(J, records)
  BY <1>14, <1>15, Carried
<1> QED
  BY <1>16 DEF J, none

LEMMA EndPassKeeps ==
  ASSUME TypeOK, Phases, PassRuns, NothingLost, EndPass
  PROVE  NothingLost'
<1> DEFINE rest == SubSeq(runs, Merged + 1, Len(runs))
           n == Len(runs)
           M == Merged
           last == Run(pass.out)
           runs2 == Append(rest, last)
<1>1. /\ pass' = NoPass /\ UNCHANGED <<buffer, inserted, returned>> /\ Record' = Record
      /\ sortedFile.unread = <<>>
  BY DEF EndPass, Phases, Record, NoFile
<1>2. IF rest = <<>>
      THEN sortedFile' = Run(pass.out) /\ runs' = <<>>
      ELSE runs' = Append(rest, Run(pass.out)) /\ UNCHANGED sortedFile
  BY DEF EndPass
<1>3. /\ M \in 1 .. n /\ n \in Nat /\ Len(pass.heads) = M
      /\ \A i \in 1 .. M : pass.heads[i] = <<>> /\ pass.buffers[i] = <<>> /\ runs[i].unread = <<>>
      /\ pass.out \in Seq(Record)
      /\ rest \in Seq(File) /\ Len(rest) = n - M
      /\ \A i \in 1 .. Len(rest) : rest[i] = runs[i + M]
  BY PassLeaves
<1>4. DOMAIN runs = 1 .. n /\ DOMAIN pass.heads = 1 .. M
  BY <1>3 DEF TypeOK
<1>5. last \in File /\ last.unread = pass.out
  BY <1>3 DEF Run, File
<1> HIDE DEF rest, last, n, M
<1>6. /\ DOMAIN runs2 = 1 .. n - M + 1
      /\ \A i \in 1 .. n - M : runs2[i] = runs[i + M]
      /\ runs2[n - M + 1].unread = pass.out
      /\ Len(runs2) = n - M + 1
  <2>1. /\ DOMAIN runs2 = 1 .. Len(rest) + 1 /\ Len(runs2) = Len(rest) + 1
        /\ \A i \in 1 .. Len(rest) : runs2[i] = rest[i]
        /\ runs2[Len(rest) + 1] = last
    BY <1>3, <1>5
  <2> QED
    BY <1>3, <1>5, <2>1
<1> HIDE DEF runs2
<1>7. Once(Parts(buffer, <<>>, <<>>, returned, runs2, <<>>, <<>>), Record)
  <2>1. Once(Parts(buffer, <<>>, pass.out, returned, runs, pass.heads, pass.buffers), Record)
    BY <1>1, Together DEF HeldNow
  <2> DEFINE f == <<>>
  <2>2. Once(Parts(buffer, f, pass.out, returned, runs, pass.heads, pass.buffers), Record)
    BY <2>1
  <2> HIDE DEF f
  <2>3. Once(Parts(buffer, f, <<>>, returned, runs2, <<>>, <<>>), Record)
    <3>1. /\ n \in Nat /\ M \in 1 .. n /\ DOMAIN runs = 1 .. n /\ DOMAIN pass.heads = 1 .. M
          /\ \A i \in 1 .. M : runs[i].unread = <<>> /\ pass.heads[i] = <<>> /\ pass.buffers[i] = <<>>
      BY <1>3, <1>4
    <3>2. /\ DOMAIN runs2 = 1 .. n - M + 1 /\ \A i \in 1 .. n - M : runs2[i] = runs[i + M]
          /\ runs2[n - M + 1].unread = pass.out
      BY <1>6
    <3> DEFINE o == pass.out
               hs == pass.heads
               ps == pass.buffers
    <3> HIDE DEF o, hs, ps
    <3> QED
      BY <2>2, <3>1, <3>2, RunsRenumbered DEF o, hs, ps
  <2> QED
    BY <2>3 DEF f
<1>8. CASE rest = <<>>
  <2>1. sortedFile' = last /\ runs' = <<>>
    BY <1>2, <1>8 DEF last
  <2>2. n - M = 0
    BY <1>3, <1>8
  <2>3. DOMAIN runs2 = 1 .. 1 /\ runs2[1].unread = pass.out
    BY <1>6, <2>2
  <2>4. Len(pass.out) \in Nat /\ DOMAIN runs2[1].unread = 1 .. Len(pass.out)
    BY <1>3, <2>3
  <2>5. Once(Parts(buffer, runs2[1].unread, <<>>, returned, <<>>, <<>>, <<>>), Record)
    BY <1>7, <2>3, <2>4, FileTaken
  <2>6. HeldNow' = Parts(buffer, pass.out, <<>>, returned, <<>>, <<>>, <<>>)
    BY <1>1, <1>5, <2>1 DEF HeldNow, NoPass
  <2> QED
    BY <1>1, <2>3, <2>5, <2>6, TogetherAfter
<1>9. CASE rest # <<>>
  <2>1. runs' = runs2 /\ UNCHANGED sortedFile
    BY <1>2, <1>9 DEF last, runs2
  <2>2. HeldNow' = Parts(buffer, <<>>, <<>>, returned, runs2, <<>>, <<>>)
    BY <1>1, <2>1 DEF HeldNow, NoPass
  <2> QED
    BY <1>1, <1>7, <2>2, TogetherAfter
<1> QED
  BY <1>8, <1>9

(* At the start of a pass the first record of a run is queued, and the     *)
(* others of its first page, of k records, are buffered.                   *)
Paged(x, y, q, p, k, m) ==
  /\ k \in Nat \ {0} /\ m \in Nat /\ k <= m
  /\ DOMAIN x = 1 .. m /\ DOMAIN y = 1 .. m - k
  /\ DOMAIN q = {1} /\ DOMAIN p = 1 .. k - 1
  /\ q[1] = x[1]
  /\ \A j \in 1 .. k - 1 : p[j] = x[j + 1]
  /\ \A j \in 1 .. m - k : y[j] = x[j + k]
Moves(from, to, R, Q, P, k) ==
  /\ \A j \in Int : from[R][j] = <<R, j + k>> /\ from[Q][j] = <<R, 1>> /\ from[P][j] = <<R, j + 1>>
  /\ to[R][1] = <<Q, 1>>
  /\ \A j \in Int : j # 1 /\ j <= k => to[R][j] = <<P, j - 1>>
  /\ \A j \in Int : j # 1 /\ ~(j <= k) => to[R][j] = <<R, j - k>>

LEMMA PageMoves ==
  ASSUME NEW H, NEW J, NEW T, NEW from, NEW to, NEW R, NEW Q, NEW P, NEW k, NEW m,
         R \in T /\ Q \in T /\ P \in T, R \in DOMAIN H,
         R \in DOMAIN J /\ Q \in DOMAIN J /\ P \in DOMAIN J,
         Paged(H[R], J[R], J[Q], J[P], k, m), Moves(from, to, R, Q, P, k)
  PROVE  /\ Comes(H, J, T, from, to, R) /\ Goes(H, J, T, from, to, R)
         /\ Comes(H, J, T, from, to, Q) /\ Comes(H, J, T, from, to, P)
<1>1. /\ k \in Nat \ {0} /\ m \in Nat /\ k <= m
      /\ DOMAIN H[R] = 1 .. m /\ DOMAIN J[R] = 1 .. m - k
      /\ DOMAIN J[Q] = {1} /\ DOMAIN J[P] = 1 .. k - 1
      /\ J[Q][1] = H[R][1]
      /\ \A j \in 1 .. k - 1 : J[P][j] = H[R][j + 1]
      /\ \A j \in 1 .. m - k : J[R][j] = H[R][j + k]
  BY DEF Paged
<1>2. Comes(H, J, T, from, to, R)
  <2>1. ASSUME NEW j \in DOMAIN J[R]
        PROVE  /\ j + k \in DOMAIN H[R] /\ from[R][j] = <<R, j + k>>
               /\ to[R][j + k] = <<R, j>> /\ H[R][j + k] = J[R][j]
    <3>1. /\ j \in Int /\ j + k \in Int /\ j + k # 1 /\ ~(j + k <= k)
          /\ (j + k) - k = j /\ j + k \in 1 .. m
      BY <1>1
    <3>2. to[R][j + k] = <<R, (j + k) - k>>
      BY <3>1 DEF Moves
    <3> QED
      BY <1>1, <3>1, <3>2 DEF Moves
  <2> QED
    BY <2>1 DEF Comes
<1>3. Comes(H, J, T, from, to, Q)
  <2>1. 1 \in DOMAIN H[R] /\ 1 \in Int
    BY <1>1
  <2>2. from[Q][1] = <<R, 1>> /\ to[R][1] = <<Q, 1>>
    BY <2>1 DEF Moves
  <2>3. \A j \in DOMAIN J[Q] : j = 1
    BY <1>1
  <2> QED
    BY <1>1, <2>1, <2>2, <2>3 DEF Comes
<1>4. Comes(H, J, T, from, to, P)
  <2>1. ASSUME NEW j \in DOMAIN J[P]
        PROVE  /\ j + 1 \in DOMAIN H[R] /\ from[P][j] = <<R, j + 1>>
               /\ to[R][j + 1] = <<P, j>> /\ H[R][j + 1] = J[P][j]
    <3>1. /\ j \in Int /\ j + 1 \in Int /\ j + 1 # 1 /\ j + 1 <= k
          /\ (j + 1) - 1 = j /\ j + 1 \in 1 .. m
      BY <1>1
    <3>2. to[R][j + 1] = <<P, (j + 1) - 1>>
      BY <3>1 DEF Moves
    <3> QED
      BY <1>1, <3>1, <3>2 DEF Moves
  <2> QED
    BY <2>1 DEF Comes
<1>5. Goes(H, J, T, from, to, R)
  <2> SUFFICES ASSUME NEW l \in DOMAIN H[R]
               PROVE  \E h \in T \cap DOMAIN J : \E j \in DOMAIN J[h] :
                        to[R][l] = <<h, j>> /\ from[h][j] = <<R, l>>
    BY DEF Goes
  <2>1. CASE l = 1
    <3>1. 1 \in DOMAIN J[Q] /\ 1 \in Int
      BY <1>1
    <3>2. to[R][1] = <<Q, 1>> /\ from[Q][1] = <<R, 1>>
      BY <3>1 DEF Moves
    <3> QED
      BY <2>1, <3>1, <3>2
  <2>2. CASE l # 1 /\ l <= k
    <3>1. l \in Int /\ l - 1 \in Int /\ l - 1 \in DOMAIN J[P] /\ (l - 1) + 1 = l
      BY <1>1, <2>2
    <3>2. to[R][l] = <<P, l - 1>> /\ from[P][l - 1] = <<R, (l - 1) + 1>>
      BY <2>2, <3>1 DEF Moves
    <3> QED
      BY <3>1, <3>2
  <2>3. CASE l # 1 /\ ~(l <= k)
    <3>1. l \in Int /\ l - k \in Int /\ l - k \in DOMAIN J[R] /\ (l - k) + k = l
      BY <1>1, <2>3
    <3>2. to[R][l] = <<R, l - k>> /\ from[R][l - k] = <<R, (l - k) + k>>
      BY <2>3, <3>1 DEF Moves
    <3> QED
      BY <3>1, <3>2
  <2> QED
    BY <2>1, <2>2, <2>3
<1> QED
  BY <1>2, <1>3, <1>4, <1>5

AllPaged(rs, rs2, hs, ps, M, n, k, m) ==
  /\ n \in Nat /\ M \in 1 .. n /\ DOMAIN rs = 1 .. n /\ DOMAIN rs2 = 1 .. n /\ DOMAIN hs = 1 .. M
  /\ \A i \in 1 .. n : i > M => rs2[i] = rs[i]
  /\ \A i \in 1 .. M : k[i] \in Nat /\ Paged(rs[i].unread, rs2[i].unread, hs[i], ps[i], k[i], m[i])

LEMMA PagesRead ==
  ASSUME NEW b, NEW f, NEW o, NEW r, NEW rs, NEW rs2, NEW hs, NEW ps, NEW none, DOMAIN none = {},
         NEW M, NEW n, NEW k, NEW m, AllPaged(rs, rs2, hs, ps, M, n, k, m),
         NEW records, Once(Parts(b, f, o, r, rs, none, none), records)
  PROVE  Once(Parts(b, f, o, r, rs2, hs, ps), records)
<1> DEFINE H == Parts(b, f, o, r, rs, none, none)
           J == Parts(b, f, o, r, rs2, hs, ps)
           T == {"run", "head", "page"} \X (1 .. M)
           from == [h \in T |-> [j \in Int |-> <<<<"run", h[2]>>,
                                                 IF h[1] = "run" THEN j + k[h[2]]
                                                 ELSE IF h[1] = "head" THEN 1 ELSE j + 1>>]]
           to == [g \in T |-> [j \in Int |-> IF j = 1 THEN <<<<"head", g[2]>>, 1>>
                                             ELSE IF j <= k[g[2]] THEN <<<<"page", g[2]>>, j - 1>>
                                             ELSE <<<<"run", g[2]>>, j - k[g[2]]>>]]
<1>1. /\ \A i \in 1 .. M : i \in DOMAIN rs /\ i \in DOMAIN rs2 /\ i \in DOMAIN hs
      /\ \A i \in 1 .. M : k[i] \in Nat /\ Paged(rs[i].unread, rs2[i].unread, hs[i], ps[i], k[i], m[i])
      /\ \A i \in DOMAIN rs \cup DOMAIN rs2 : i \in 1 .. M \/ (i \in DOMAIN rs /\ i \in DOMAIN rs2 /\ rs2[i] = rs[i])
      /\ DOMAIN hs = 1 .. M
  BY DEF AllPaged
<1>2. /\ \A h : h \notin T => (h \in DOMAIN J <=> h \in DOMAIN H)
      /\ \A h \in DOMAIN J : h \notin T => J[h] = H[h]
  <2>1. \A i \in DOMAIN rs \cup DOMAIN rs2 :
          \/ <<"run", i>> \in T
          \/ i \in DOMAIN rs /\ i \in DOMAIN rs2 /\ rs2[i].unread = rs[i].unread
    BY <1>1
  <2>2. \A i \in DOMAIN none \cup DOMAIN hs : <<"head", i>> \in T /\ <<"page", i>> \in T
    BY <1>1
  <2> HIDE DEF T
  <2>3. InT(T, rs, rs2, none, hs)
    BY <2>1, <2>2 DEF InT
  <2> QED
    BY <2>3, PagesChange
<1>3. \A i \in 1 .. M : /\ <<"run", i>> \in T
                        /\ <<"run", i>> \in DOMAIN H /\ H[<<"run", i>>] = rs[i].unread
                        /\ <<"run", i>> \in DOMAIN J /\ J[<<"run", i>>] = rs2[i].unread
  <2> TAKE i \in 1 .. M
  <2>0. i \in DOMAIN rs /\ i \in DOMAIN rs2
    BY <1>1
  <2>1. <<"run", i>> \in DOMAIN H /\ H[<<"run", i>>] = rs[i].unread
    BY <2>0, RunPart
  <2>2. <<"run", i>> \in DOMAIN J /\ J[<<"run", i>>] = rs2[i].unread
    BY <2>0, RunPart
  <2> QED
    BY <2>1, <2>2
<1>4. \A i \in 1 .. M : /\ <<"head", i>> \in T /\ <<"head", i>> \in DOMAIN J /\ J[<<"head", i>>] = hs[i]
                        /\ <<"page", i>> \in T /\ <<"page", i>> \in DOMAIN J /\ J[<<"page", i>>] = ps[i]
  <2> TAKE i \in 1 .. M
  <2>0. i \in DOMAIN hs
    BY <1>1
  <2>1. <<"head", i>> \in DOMAIN J /\ J[<<"head", i>>] = hs[i]
    BY <2>0, HeadPart
  <2>2. <<"page", i>> \in DOMAIN J /\ J[<<"page", i>>] = ps[i]
    BY <2>0, PagePart
  <2> QED
    BY <2>1, <2>2
<1>5. \A h \in T : \E i \in 1 .. M : h = <<"run", i>> \/ h = <<"head", i>> \/ h = <<"page", i>>
  OBVIOUS
<1>6. \A h \in T \cap DOMAIN H : \E i \in 1 .. M : h = <<"run", i>>
  <2>1. \A h \in DOMAIN H :
           \/ h \in {<<"buffer", 0>>, <<"file", 0>>, <<"out", 0>>, <<"returned", 0>>}
           \/ \E i \in DOMAIN rs : h = <<"run", i>>
    BY HoldersWithout
  <2>2. \A h \in {<<"buffer", 0>>, <<"file", 0>>, <<"out", 0>>, <<"returned", 0>>} : h \notin T
    OBVIOUS
  <2> HIDE DEF H
  <2>3. ASSUME NEW i, <<"run", i>> \in T PROVE i \in 1 .. M
    BY <2>3
  <2> HIDE DEF T
  <2> QED
    BY <2>1, <2>2, <2>3
<1>7. \A i \in 1 .. M : Moves(from, to, <<"run", i>>, <<"head", i>>, <<"page", i>>, k[i])
  <2> TAKE i \in 1 .. M
  <2> DEFINE R == <<"run", i>>
             Q == <<"head", i>>
             P == <<"page", i>>
  <2>1. /\ from[R] = [j \in Int |-> <<R, j + k[i]>>]
        /\ from[Q] = [j \in Int |-> <<R, 1>>]
        /\ from[P] = [j \in Int |-> <<R, j + 1>>]
        /\ to[R] = [j \in Int |-> IF j = 1 THEN <<Q, 1>>
                                  ELSE IF j <= k[i] THEN <<P, j - 1>> ELSE <<R, j - k[i]>>]
    OBVIOUS
  <2>2. 1 \in Int
    OBVIOUS
  <2> HIDE DEF from, to, R, Q, P
  <2>3. Moves(from, to, R, Q, P, k[i])
    BY <2>1, <2>2 DEF Moves
  <2> QED
    BY <2>3 DEF R, Q, P
<1> HIDE DEF H, J, T, from, to
<1>8. ASSUME NEW i \in 1 .. M
      PROVE  /\ Comes(H, J, T, from, to, <<"run", i>>) /\ Goes(H, J, T, from, to, <<"run", i>>)
             /\ Comes(H, J, T, from, to, <<"head", i>>) /\ Comes(H, J, T, from, to, <<"page", i>>)
  <2> DEFINE R == <<"run", i>>
             Q == <<"head", i>>
             P == <<"page", i>>
  <2>1. /\ R \in T /\ Q \in T /\ P \in T /\ R \in DOMAIN H
        /\ R \in DOMAIN J /\ Q \in DOMAIN J /\ P \in DOMAIN J
        /\ H[R] = rs[i].unread /\ J[R] = rs2[i].unread /\ J[Q] = hs[i] /\ J[P] = ps[i]
    BY <1>3, <1>4
  <2>2. Moves(from, to, R, Q, P, k[i])
    BY <1>7
  <2>3. Paged(rs[i].unread, rs2[i].unread, hs[i], ps[i], k[i], m[i])
    BY <1>1
  <2> HIDE DEF R, Q, P
  <2>4. Paged(H[R], J[R], J[Q], J[P], k[i], m[i])
    BY <2>1, <2>3
  <2>5. /\ Comes(H, J, T, from, to, R) /\ Goes(H, J, T, from, to, R)
        /\ Comes(H, J, T, from, to, Q) /\ Comes(H, J, T, from, to, P)
    BY <2>1, <2>2, <2>4, PageMoves
  <2> QED
    BY <2>5 DEF R, Q, P
<1>9. Carries(H, J, T, from, to)
  <2>1. \A h \in T \cap DOMAIN J : Comes(H, J, T, from, to, h)
    BY <1>5, <1>8
  <2>2. \A g \in T \cap DOMAIN H : Goes(H, J, T, from, to, g)
    BY <1>6, <1>8
  <2> QED
    BY <1>2, <2>1, <2>2 DEF Carries
<1>10. Once(H, records)
  BY DEF H
<1>11. Once(J, records)
  BY <1>9, <1>10, Carried
<1> QED
  BY <1>11 DEF J

LEMMA BeginPassKeeps ==
  ASSUME TypeOK, Phases, PassRuns, NothingLost, BeginPass
  PROVE  NothingLost'
<1> DEFINE n == Len(runs)
           M == Merged
           hs == [i \in 1 .. M |-> <<Head(runs[i].unread)>>]
           ps == [i \in 1 .. M |-> Tail(Got(runs[i], PageSize))]
           rs2 == [i \in 1 .. n |-> IF i <= M THEN After(runs[i], PageSize) ELSE runs[i]]
           k == [i \in 1 .. M |-> Len(Got(runs[i], PageSize))]
           m == [i \in 1 .. M |-> Len(runs[i].unread)]
<1>1. /\ pass = NoPass /\ pass' = [heads |-> hs, buffers |-> ps, out |-> <<>>] /\ runs' = rs2
      /\ UNCHANGED <<buffer, sortedFile, inserted, returned>> /\ Record' = Record /\ runs # <<>>
  BY DEF BeginPass, Record, Phases
<1>2. M \in 1 .. n /\ n \in Nat /\ DOMAIN runs = 1 .. n
  BY <1>1, PassSize DEF TypeOK
<1>3. ASSUME NEW i \in 1 .. M
      PROVE  k[i] \in Nat /\ Paged(runs[i].unread, rs2[i].unread, hs[i], ps[i], k[i], m[i])
  <2> DEFINE got == Got(runs[i], PageSize)
             left == After(runs[i], PageSize)
  <2>1. /\ runs[i] \in File /\ Len(runs[i].unread) \in Nat \ {0}
        /\ Head(runs[i].unread) = runs[i].unread[1]
        /\ got \in Seq(Record) /\ Len(got) \in 1 .. PageSize /\ Len(got) <= Len(runs[i].unread)
        /\ Tail(got) \in Seq(Record) /\ Len(Tail(got)) = Len(got) - 1
        /\ \A j \in 1 .. Len(got) - 1 : Tail(got)[j] = runs[i].unread[j + 1]
        /\ left \in File /\ Len(left.unread) = Len(runs[i].unread) - Len(got)
        /\ \A j \in 1 .. Len(left.unread) : left.unread[j] = runs[i].unread[j + Len(got)]
    BY FirstPage
  <2>2. i \in 1 .. n /\ i <= M
    BY <1>2
  <2>3. /\ k[i] = Len(got) /\ m[i] = Len(runs[i].unread)
        /\ hs[i] = <<Head(runs[i].unread)>> /\ ps[i] = Tail(got) /\ rs2[i] = left
    BY <2>2
  <2> HIDE DEF got, left, hs, ps, rs2, k, m
  <2>4. /\ DOMAIN runs[i].unread = 1 .. m[i] /\ DOMAIN rs2[i].unread = 1 .. m[i] - k[i]
        /\ DOMAIN ps[i] = 1 .. k[i] - 1
    BY <2>1, <2>3 DEF File
  <2>5. DOMAIN hs[i] = {1} /\ hs[i][1] = runs[i].unread[1]
    BY <2>1, <2>3
  <2>6. k[i] \in Nat \ {0} /\ m[i] \in Nat /\ k[i] <= m[i]
    BY <2>1, <2>3, SizeAssumption
  <2>7. /\ \A j \in 1 .. k[i] - 1 : ps[i][j] = runs[i].unread[j + 1]
        /\ \A j \in 1 .. m[i] - k[i] : rs2[i].unread[j] = runs[i].unread[j + k[i]]
    BY <2>1, <2>3
  <2> QED
    BY <2>4, <2>5, <2>6, <2>7 DEF Paged
<1>4. /\ DOMAIN rs2 = 1 .. n /\ DOMAIN hs = 1 .. M
      /\ \A i \in 1 .. n : i > M => rs2[i] = runs[i]
  BY <1>2
<1> HIDE DEF n, M, hs, ps, rs2, k, m
<1>5. AllPaged(runs, rs2, hs, ps, M, n, k, m)
  BY <1>2, <1>3, <1>4 DEF AllPaged
<1>6. Once(Parts(buffer, sortedFile.unread, <<>>, returned, runs, <<>>, <<>>), Record)
  BY <1>1, Together DEF HeldNow, NoPass
<1> DEFINE none == <<>>
<1>7. DOMAIN none = {} /\ Once(Parts(buffer, sortedFile.unread, none, returned, runs, none, none), Record)
  BY <1>6
<1> DEFINE f == sortedFile.unread
<1>8. HeldNow' = Parts(buffer, f, none, returned, rs2, hs, ps)
  BY <1>1 DEF HeldNow
<1> HIDE DEF none, f
<1>9. Once(Parts(buffer, f, none, returned, runs, none, none), Record)
  BY <1>7 DEF f
<1>10. Once(Parts(buffer, f, none, returned, rs2, hs, ps), Record)
  BY <1>5, <1>7, <1>9, PagesRead
<1> QED
  BY <1>1, <1>8, <1>10, TogetherAfter

LEMMA InitLosesNothing == Init => NothingLost
<1> SUFFICES ASSUME Init PROVE NothingLost
  OBVIOUS
<1>1. HeldNow = Parts(<<>>, <<>>, <<>>, <<>>, <<>>, <<>>, <<>>)
  BY DEF Init, HeldNow, NoFile, NoPass
<1> DEFINE none == <<>>
<1>2. DOMAIN none = {} /\ HeldNow = Parts(none, none, none, none, none, none, none)
  BY <1>1
<1>3. Record = {}
  BY DEF Init, Record
<1> HIDE DEF none
<1>4. \A h \in DOMAIN HeldNow : HeldNow[h] = none
  <2>1. /\ \A h \in DOMAIN HeldNow : h \in {<<"buffer", 0>>, <<"file", 0>>, <<"out", 0>>, <<"returned", 0>>}
        /\ HeldNow[<<"buffer", 0>>] = none /\ HeldNow[<<"file", 0>>] = none
        /\ HeldNow[<<"out", 0>>] = none /\ HeldNow[<<"returned", 0>>] = none
    BY <1>2, PartsAre
  <2> QED
    BY <2>1
<1>5. \A p : p \notin Places(HeldNow)
  BY <1>2, <1>4, PlacesAre
<1>6. Once(HeldNow, Record)
  BY <1>3, <1>5, OnceMeans
<1> QED
  BY <1>6, Together

-----------------------------------------------------------------------------
(* The inductive invariant. *)
LEMMA Invariance == IInv /\ [Next]_vars => IInv'
<1> SUFFICES ASSUME IInv, [Next]_vars PROVE IInv'
  OBVIOUS
<1> USE DEF IInv
<1>1. ASSUME NEW key \in Key, Insert(key) PROVE IInv'
  BY <1>1, InsertTyped, InsertKeeps
<1>2. CASE SortInMemory
  BY <1>2, SortInMemoryTyped, SortInMemoryKeeps
<1>3. CASE SortRuns
  BY <1>3, SortRunsTyped, SortRunsKeeps
<1>4. CASE BeginPass
  BY <1>4, BeginPassTyped, BeginPassKeeps
<1>5. ASSUME NEW i \in 1 .. Len(runs), MergeStep(i) PROVE IInv'
  BY <1>5, MergeStepTyped, MergeStepKeeps
<1>6. CASE EndPass
  BY <1>6, EndPassTyped, EndPassKeeps
<1>7. CASE GetNextRecord
  BY <1>7, GetNextRecordTyped, GetNextRecordKeeps
<1>8. CASE EndOfStream
  BY <1>8, EndOfStreamTyped, EndOfStreamKeeps
<1>9. CASE UNCHANGED vars
  <2>1. UNCHANGED <<phase, buffer, runs, sortedFile, pass, inserted, returned, ended>> /\ Record' = Record
    BY <1>9 DEF vars, Record
  <2>2. NothingLost'
    BY <2>1, Together, TogetherAfter DEF HeldNow
  <2>3. TypeOK' /\ Phases' /\ PassRuns' /\ OneRun'
    BY <2>1 DEF TypeOK, File, Phases, PassRuns, OneRun, Queued, Merged
  <2> QED
    BY <2>2, <2>3
<1> QED
  BY <1>1, <1>2, <1>3, <1>4, <1>5, <1>6, <1>7, <1>8, <1>9 DEF Next, SortStep

(* The inductive invariant holds of every state that is reached.           *)
THEOREM Invariant == Spec => []IInv
<1>1. Init => IInv
  BY InitHolds, InitLosesNothing DEF IInv
<1> QED
  BY <1>1, Invariance, PTL DEF Spec

(* Every variable has its type; no more runs are merged at a time than     *)
(* there are buffer pages, and no page holds more records than fit in it.  *)
THEOREM SorterTyped == Spec => []TypeOK
<1>1. IInv => TypeOK
  BY DEF IInv
<1> QED
  BY <1>1, Invariant, PTL

(* Whatever the keys, the page size, the number of pages and the number of *)
(* merge passes, every record stands in one place at a time.               *)
THEOREM NothingIsLost == Spec => []NothingLost
<1>1. IInv => NothingLost
  BY DEF IInv
<1> QED
  BY <1>1, Invariant, PTL

(* Once the end is reported, all the holders but one are empty.            *)
LEMMA OnlyReturned ==
  ASSUME TypeOK, Phases, ended
  PROVE  \A h \in DOMAIN HeldNow : h # <<"returned", 0>> => DOMAIN HeldNow[h] = {}
<1>1. phase = "sorted" /\ pass = NoPass /\ runs = <<>> /\ buffer = <<>> /\ sortedFile.unread = <<>>
  BY DEF Phases, TypeOK
<1> DEFINE none == <<>>
<1>2. HeldNow = Parts(none, none, none, returned, none, none, none) /\ DOMAIN none = {}
  BY <1>1 DEF HeldNow, NoPass
<1> HIDE DEF none
<1>3. /\ \A h \in DOMAIN HeldNow : h \in {<<"buffer", 0>>, <<"file", 0>>, <<"out", 0>>, <<"returned", 0>>}
      /\ HeldNow[<<"buffer", 0>>] = none /\ HeldNow[<<"file", 0>>] = none /\ HeldNow[<<"out", 0>>] = none
  BY <1>2, PartsAre
<1> QED
  BY <1>2, <1>3

LEMMA EndMeans ==
  ASSUME TypeOK, Phases, NothingLost
  PROVE  EndMeansAll
<1> SUFFICES ASSUME ended PROVE returned \in Bijection(DOMAIN returned, Record)
  BY DEF EndMeansAll
<1> DEFINE R == <<"returned", 0>>
<1>1. R \in DOMAIN HeldNow /\ HeldNow[R] = returned
  BY PartsAre DEF HeldNow
<1>2. \A h \in DOMAIN HeldNow : h # R => DOMAIN HeldNow[h] = {}
  BY OnlyReturned
<1> HIDE DEF R
<1>3. \A p \in Places(HeldNow) : \E j \in DOMAIN returned : p = <<R, j>>
  BY <1>1, <1>2, PlacesAre
<1>4. \A j \in DOMAIN returned : <<R, j>> \in Places(HeldNow) /\ At(HeldNow, <<R, j>>) = returned[j]
  BY <1>1, PlacesAre DEF At
<1>5. /\ \A p \in Places(HeldNow) : At(HeldNow, p) \in Record
      /\ \A p, q \in Places(HeldNow) : At(HeldNow, p) = At(HeldNow, q) => p = q
      /\ \A x \in Record : \E p \in Places(HeldNow) : At(HeldNow, p) = x
  BY Together, OnceMeans
<1>6. returned \in [DOMAIN returned -> Record]
  <2>1. returned \in Seq(Record)
    BY DEF TypeOK
  <2>2. DOMAIN returned = 1 .. Len(returned) /\ returned \in [1 .. Len(returned) -> Record]
    BY <2>1
  <2> QED
    BY <2>2
<1>7. \A i, j \in DOMAIN returned : returned[i] = returned[j] => i = j
  <2> TAKE i, j \in DOMAIN returned
  <2> HAVE returned[i] = returned[j]
  <2>1. <<R, i>> = <<R, j>>
    BY <1>4, <1>5
  <2> QED
    BY <2>1
<1>8. \A x \in Record : \E j \in DOMAIN returned : returned[j] = x
  <2> TAKE x \in Record
  <2>1. PICK p \in Places(HeldNow) : At(HeldNow, p) = x
    BY <1>5
  <2>2. PICK j \in DOMAIN returned : p = <<R, j>>
    BY <1>3
  <2> QED
    BY <1>4, <2>1, <2>2
<1> QED
  BY <1>6, <1>7, <1>8 DEF Bijection, Injection, Surjection, IsInjective

(* When getNextRecord reports the end, every record has been returned, and *)
(* none twice, however many runs and passes there were.                    *)
THEOREM EndIsAll == Spec => []EndMeansAll
<1>1. IInv => EndMeansAll
  BY EndMeans DEF IInv
<1> QED
  BY <1>1, Invariant, PTL

(* Input that fits in one buffer comes out in the order of the keys: it is *)
(* sorted in memory, or is the one run that becomes the sorted file.       *)
THEOREM OneBufferIsSorted == Spec => []OneBufferSorted
<1>1. IInv => OneBufferSorted
  BY DEF IInv, OneRun, OneBufferSorted
<1> QED
  BY <1>1, Invariant, PTL

=============================================================================

------------------------- MODULE PartsStore_proofs -------------------------
(***************************************************************************)
(* Proofs about the nearest-neighbour query, for every tree, set of        *)
(* trajectories, boxes and number of neighbours: the search implements     *)
(* KNearest, excepted candidates are no answers, a candidate lacks a leaf  *)
(* exactly when it lacks a box, and gaps never go without a bound.         *)
(***************************************************************************)
EXTENDS PartsStore, FiniteSetTheorems, SequenceTheorems, TLAPS

-----------------------------------------------------------------------------
(* Finite sets and sums over them.                                         *)

(* Induction over a finite set, for a set P of its subsets. *)
LEMMA SubsetInduction ==
  ASSUME NEW S, IsFiniteSet(S), NEW P,
         \A T \in SUBSET S : (\A R \in SUBSET T : R # T => R \in P) => T \in P
  PROVE  S \in P
<1> DEFINE Bad == {T \in SUBSET S : T \notin P}
<1>1. SUFFICES ASSUME S \notin P
               PROVE  FALSE
  OBVIOUS
<1>2. S \in Bad /\ Bad \subseteq SUBSET S
  BY <1>1
<1>3. FiniteSubsetsOf(S) = SUBSET S
  BY FS_FiniteSubsetsOfFinite
<1>4. PICK T \in Bad : \A R \in Bad : ~ (<<R, T>> \in StrictSubsetOrdering(S))
  <2> HIDE DEF Bad
  <2>1. Bad \subseteq FiniteSubsetsOf(S) /\ Bad # {}
    BY <1>2, <1>3
  <2> QED
    BY <2>1, FS_StrictSubsetOrderingWellFounded, WFMin
<1>5. PICK R \in SUBSET T : R # T /\ R \notin P
  BY <1>4
<1>6. R \in Bad
  BY <1>4, <1>5
<1>7. <<R, T>> \in StrictSubsetOrdering(S)
  BY <1>4, <1>5 DEF StrictSubsetOrdering
<1> QED
  BY <1>4, <1>6, <1>7

(* What a function takes on a finite set is finite, and no more. *)
LEMMA ImageFinite ==
  ASSUME NEW D, IsFiniteSet(D), NEW f, DOMAIN f = D
  PROVE  /\ IsFiniteSet({f[x] : x \in D})
         /\ Cardinality({f[x] : x \in D}) <= Cardinality(D)
<1> DEFINE T == {f[x] : x \in D}
           g == [x \in D |-> f[x]]
<1>1. g \in [D -> T] /\ \A y \in T : \E x \in D : g[x] = y
  OBVIOUS
<1>2. g \in Surjection(D, T)
  BY <1>1 DEF Surjection
<1> HIDE DEF T, g
<1>3. IsFiniteSet(T) /\ Cardinality(T) <= Cardinality(D)
  BY <1>2, FS_Surjection
<1> QED
  BY <1>3 DEF T

LEMMA SetInduction ==
  ASSUME NEW S, IsFiniteSet(S), NEW P, {} \in P,
         \A T \in SUBSET S : \A x \in S \ T : T \in P => T \cup {x} \in P
  PROVE  S \in P
<1>1. ASSUME NEW T \in SUBSET S, \A R \in SUBSET T : R # T => R \in P
      PROVE  T \in P
  <2>1. CASE T = {}
    BY <2>1
  <2>2. ASSUME NEW x \in T
        PROVE  T \in P
    <3>1. T \ {x} \in P
      BY <1>1, <2>2
    <3>2. T \ {x} \in SUBSET S /\ x \in S \ (T \ {x}) /\ (T \ {x}) \cup {x} = T
      BY <1>1, <2>2
    <3> QED
      BY <3>1, <3>2, Zenon
  <2> QED
    BY <2>1, <2>2
<1> QED
  BY <1>1, SubsetInduction

(* g adds up f over the subsets of S, in the order in which CHOOSE takes the elements. *)
One(s) == CHOOSE x \in s : TRUE
Round(g, f, s) == IF s = {} THEN 0 ELSE f[One(s)] + g[s \ {One(s)}]
AddsUp(g, f, S) ==
  /\ g \in [SUBSET S -> Int]
  /\ \A s \in SUBSET S : g[s] = Round(g, f, s)

LEMMA OneOf ==
  ASSUME NEW s, s # {}
  PROVE  One(s) \in s
BY DEF One

LEMMA SameSums ==
  ASSUME NEW f, NEW S, NEW T, IsFiniteSet(T), T \subseteq S,
         NEW g, NEW h, AddsUp(g, f, S), AddsUp(h, f, T)
  PROVE  g[T] = h[T]
<1> DEFINE P == {s \in SUBSET T : g[s] = h[s]}
<1>1. ASSUME NEW s \in SUBSET T, \A r \in SUBSET s : r # s => r \in P
      PROVE  s \in P
  <2>1. CASE s = {}
    BY <2>1 DEF AddsUp, Round
  <2>2. CASE s # {}
    <3>1. One(s) \in s
      BY <2>2, OneOf
    <3>2. s \ {One(s)} \in P
      BY <1>1, <3>1
    <3>3. Round(g, f, s) = Round(h, f, s)
      BY <2>2, <3>2 DEF Round
    <3> QED
      BY <3>3 DEF AddsUp
  <2> QED
    BY <2>1, <2>2
<1>2. T \in P
  <2> HIDE DEF P
  <2> QED
    BY <1>1, SubsetInduction
<1> QED
  BY <1>2

LEMMA SomeSums ==
  ASSUME NEW D, NEW f \in [D -> Int], NEW S \in SUBSET D, IsFiniteSet(S)
  PROVE  \E g : AddsUp(g, f, S)
<1> DEFINE P == {s \in SUBSET S : \E g : AddsUp(g, f, s)}
<1>1. ASSUME NEW s \in SUBSET S, \A r \in SUBSET s : r # s => r \in P
      PROVE  s \in P
  <2> DEFINE of(r) == CHOOSE g : AddsUp(g, f, r)
             x == One(s)
             total == IF s = {} THEN 0 ELSE f[x] + of(s \ {x})[s \ {x}]
             g == [r \in SUBSET s |-> IF r = s THEN total ELSE of(r)[r]]
  <2>1. \A r \in SUBSET s : r # s => AddsUp(of(r), f, r)
    BY <1>1
  <2>2. \A r \in SUBSET s : r # s => of(r)[r] \in Int
    BY <2>1 DEF AddsUp
  <2>3. s # {} => x \in s /\ s \ {x} \in SUBSET s /\ s \ {x} # s /\ f[x] \in Int
    <3>1. s # {} => x \in s
      BY OneOf
    <3> HIDE DEF x
    <3>2. s # {} => f[x] \in Int
      BY <3>1
    <3>3. s # {} => s \ {x} \in SUBSET s /\ s \ {x} # s
      BY <3>1, Zenon
    <3> QED
      BY <3>1, <3>2, <3>3
  <2>4. total \in Int
    <3> HIDE DEF of, x
    <3>1. s # {} => of(s \ {x})[s \ {x}] \in Int
      BY <2>2, <2>3, Zenon
    <3> QED
      BY <2>3, <3>1
  <2>5. g \in [SUBSET s -> Int]
    BY <2>2, <2>4
  <2>6. ASSUME NEW r \in SUBSET s
        PROVE  g[r] = Round(g, f, r)
    <3>1. CASE r = s
      BY <2>3, <3>1 DEF Round
    <3>2. CASE r # s
      <4>1. AddsUp(of(r), f, r) /\ g[r] = of(r)[r]
        BY <2>1, <3>2
      <4>2. CASE r = {}
        BY <4>1, <4>2 DEF AddsUp, Round
      <4>3. CASE r # {}
        <5> DEFINE y == One(r)
        <5>1. y \in r /\ r \ {y} \in SUBSET s /\ r \ {y} # s
          BY <3>2, <4>3, OneOf
        <5>2. AddsUp(of(r \ {y}), f, r \ {y}) /\ g[r \ {y}] = of(r \ {y})[r \ {y}]
          BY <2>1, <5>1
        <5>3. IsFiniteSet(r \ {y})
          BY <1>1, FS_Subset
        <5>4. of(r)[r \ {y}] = of(r \ {y})[r \ {y}]
          <6> HIDE DEF of, y
          <6> QED
            BY <4>1, <5>2, <5>3, SameSums
        <5> QED
          BY <4>1, <4>3, <5>2, <5>4 DEF AddsUp, Round
      <4> QED
        BY <4>2, <4>3
    <3> QED
      BY <3>1, <3>2
  <2>7. AddsUp(g, f, s)
    <3> HIDE DEF g
    <3> QED
      BY <2>5, <2>6 DEF AddsUp
  <2> QED
    BY <2>7
<1>2. S \in P
  <2> HIDE DEF P
  <2> QED
    BY <1>1, SubsetInduction
<1> QED
  BY <1>2

LEMMA SumRound ==
  ASSUME NEW D, NEW f \in [D -> Int], NEW S \in SUBSET D, IsFiniteSet(S)
  PROVE  \E g : AddsUp(g, f, S) /\ SumFunctionOnSet(f, S) = g[S]
<1> DEFINE E(g) == [s \in SUBSET S |-> IF s = {} THEN 0 ELSE f[CHOOSE x \in s : TRUE] + g[s \ {CHOOSE x \in s : TRUE}]]
           R == CHOOSE g : g = E(g)
<1>1. SumFunctionOnSet(f, S) = R[S]
  BY DEF SumFunctionOnSet, FoldFunctionOnSet, MapThenFoldSet
<1>2. PICK g : AddsUp(g, f, S)
  BY SomeSums
<1>3. g = E(g)
  BY <1>2 DEF AddsUp, Round, One
<1>4. R = E(R)
  BY <1>3
<1> DEFINE P == {s \in SUBSET S : R[s] = g[s]}
<1> HIDE DEF R
<1>5. ASSUME NEW s \in SUBSET S, \A r \in SUBSET s : r # s => r \in P
      PROVE  s \in P
  <2>1. R[s] = Round(R, f, s) /\ g[s] = Round(g, f, s)
    BY <1>2, <1>4 DEF AddsUp, Round, One
  <2>2. Round(R, f, s) = Round(g, f, s)
    <3>1. CASE s = {}
      BY <3>1 DEF Round
    <3>2. CASE s # {}
      <4>1. One(s) \in s
        BY <3>2, OneOf
      <4>2. s \ {One(s)} \in P
        BY <1>5, <4>1
      <4> QED
        BY <3>2, <4>2 DEF Round
    <3> QED
      BY <3>1, <3>2
  <2> QED
    BY <2>1, <2>2
<1>6. S \in P
  <2> HIDE DEF P
  <2> QED
    BY <1>5, SubsetInduction
<1> QED
  BY <1>1, <1>2, <1>6

(* A sum is one of the elements and the sum of the rest, whichever is taken first. *)
LEMMA SumStep ==
  ASSUME NEW D, NEW f \in [D -> Int], NEW S \in SUBSET D, IsFiniteSet(S)
  PROVE  /\ SumFunctionOnSet(f, S) \in Int
         /\ S = {} => SumFunctionOnSet(f, S) = 0
         /\ S # {} => SumFunctionOnSet(f, S) = f[One(S)] + SumFunctionOnSet(f, S \ {One(S)})
<1>1. PICK g : AddsUp(g, f, S) /\ SumFunctionOnSet(f, S) = g[S]
  BY SumRound
<1>2. SumFunctionOnSet(f, S) \in Int /\ (S = {} => SumFunctionOnSet(f, S) = 0)
  BY <1>1 DEF AddsUp, Round
<1>3. ASSUME S # {}
      PROVE  SumFunctionOnSet(f, S) = f[One(S)] + SumFunctionOnSet(f, S \ {One(S)})
  <2> DEFINE T == S \ {One(S)}
  <2>1. One(S) \in S /\ T \in SUBSET S /\ T \in SUBSET D
    BY <1>3, OneOf
  <2>2. IsFiniteSet(T)
    BY <2>1, FS_Subset
  <2> HIDE DEF T
  <2>3. PICK h : AddsUp(h, f, T) /\ SumFunctionOnSet(f, T) = h[T]
    BY <2>1, <2>2, SumRound
  <2>4. g[T] = h[T]
    BY <1>1, <2>1, <2>2, <2>3, SameSums
  <2>5. g[S] = f[One(S)] + g[T]
    BY <1>1, <1>3 DEF AddsUp, Round, T
  <2> QED
    BY <1>1, <2>3, <2>4, <2>5 DEF T
<1> QED
  BY <1>2, <1>3

LEMMA SumAny ==
  ASSUME NEW D, NEW f \in [D -> Int], NEW S \in SUBSET D, IsFiniteSet(S)
  PROVE  \A x \in S : SumFunctionOnSet(f, S) = f[x] + SumFunctionOnSet(f, S \ {x})
<1> DEFINE P == {T \in SUBSET S : \A x \in T : SumFunctionOnSet(f, T) = f[x] + SumFunctionOnSet(f, T \ {x})}
<1>0. \A T \in SUBSET S : IsFiniteSet(T) /\ T \in SUBSET D
  BY FS_Subset
<1>1. ASSUME NEW T \in SUBSET S, \A R \in SUBSET T : R # T => R \in P, NEW x \in T
      PROVE  SumFunctionOnSet(f, T) = f[x] + SumFunctionOnSet(f, T \ {x})
  <2>1. One(T) \in T /\ SumFunctionOnSet(f, T) = f[One(T)] + SumFunctionOnSet(f, T \ {One(T)})
    BY <1>0, OneOf, SumStep
  <2>2. CASE x = One(T)
    BY <2>1, <2>2
  <2>3. ASSUME NEW y \in T, y = One(T), x # y
        PROVE  SumFunctionOnSet(f, T) = f[x] + SumFunctionOnSet(f, T \ {x})
    <3>1. T \ {x} \in P /\ y \in T \ {x} /\ T \ {y} \in P /\ x \in T \ {y}
      BY <1>1, <2>3
    <3>2. SumFunctionOnSet(f, T \ {x}) = f[y] + SumFunctionOnSet(f, (T \ {x}) \ {y})
      BY <3>1
    <3>3. SumFunctionOnSet(f, T \ {y}) = f[x] + SumFunctionOnSet(f, (T \ {y}) \ {x})
      BY <3>1
    <3>4. (T \ {x}) \ {y} = (T \ {y}) \ {x}
      OBVIOUS
    <3>5. (T \ {x}) \ {y} \in SUBSET S
      OBVIOUS
    <3>6. SumFunctionOnSet(f, (T \ {x}) \ {y}) \in Int
      BY <1>0, <3>5, SumStep
    <3>7. f[x] \in Int /\ f[y] \in Int
      BY <1>1, <2>3
    <3>8. SumFunctionOnSet(f, T) = f[y] + SumFunctionOnSet(f, T \ {y})
      BY <2>1, <2>3
    <3>9. PICK c : c = SumFunctionOnSet(f, (T \ {x}) \ {y})
      OBVIOUS
    <3>10. /\ SumFunctionOnSet(f, T \ {x}) = f[y] + c
           /\ SumFunctionOnSet(f, T \ {y}) = f[x] + c
      BY <3>2, <3>3, <3>4, <3>9, Zenon
    <3>11. c \in Int
      BY <3>6, <3>9
    <3> HIDE DEF P
    <3> QED
      BY <3>7, <3>8, <3>10, <3>11
  <2> QED
    BY <2>1, <2>2, <2>3
<1>2. S \in P
  <2>1. \A T \in SUBSET S : (\A R \in SUBSET T : R # T => R \in P) => T \in P
    BY <1>1
  <2> HIDE DEF P
  <2> QED
    BY <2>1, SubsetInduction
<1> QED
  BY <1>2

LEMMA SumAdd ==
  ASSUME NEW D, NEW f \in [D -> Int], NEW S \in SUBSET D, IsFiniteSet(S),
         NEW x \in D \ S
  PROVE  /\ SumFunctionOnSet(f, S) \in Int
         /\ SumFunctionOnSet(f, S \cup {x}) = SumFunctionOnSet(f, S) + f[x]
<1>1. IsFiniteSet(S \cup {x}) /\ S \cup {x} \in SUBSET D /\ x \in S \cup {x}
  BY FS_AddElement
<1>2. PICK T : T = S \cup {x}
  OBVIOUS
<1>3. IsFiniteSet(T) /\ T \in SUBSET D /\ x \in T /\ T \ {x} = S
  BY <1>1, <1>2
<1>4. SumFunctionOnSet(f, T) = f[x] + SumFunctionOnSet(f, T \ {x})
  BY <1>3, SumAny
<1>5. SumFunctionOnSet(f, S) \in Int /\ f[x] \in Int
  BY SumStep
<1>6. SumFunctionOnSet(f, T) = f[x] + SumFunctionOnSet(f, S)
  BY <1>3, <1>4, Zenon
<1>7. SumFunctionOnSet(f, T) = SumFunctionOnSet(f, S) + f[x]
  BY <1>5, <1>6
<1> QED
  BY <1>2, <1>5, <1>7, Zenon
(* Scaled sums compare as their elements do. *)
LEMMA SumScaled ==
  ASSUME NEW D, NEW f \in [D -> Int], NEW h \in [D -> Int], NEW S \in SUBSET D, IsFiniteSet(S),
         NEW c \in Int, NEW d \in Int, \A x \in S : c * f[x] <= d * h[x]
  PROVE  /\ SumFunctionOnSet(f, S) \in Int /\ SumFunctionOnSet(h, S) \in Int
         /\ c * SumFunctionOnSet(f, S) <= d * SumFunctionOnSet(h, S)
<1> DEFINE P == {T \in SUBSET S : c * SumFunctionOnSet(f, T) <= d * SumFunctionOnSet(h, T)}
<1>1. \A T \in SUBSET S : IsFiniteSet(T) /\ SumFunctionOnSet(f, T) \in Int /\ SumFunctionOnSet(h, T) \in Int
  BY FS_Subset, SumStep
<1>2. {} \in P
  <2>1. SumFunctionOnSet(f, {}) = 0 /\ SumFunctionOnSet(h, {}) = 0
    BY FS_EmptySet, SumStep
  <2> QED
    BY <2>1
<1>3. ASSUME NEW T \in SUBSET S, NEW x \in S \ T, T \in P
      PROVE  T \cup {x} \in P
  <2>1. PICK a \in Int : a = SumFunctionOnSet(f, T)
    BY <1>1
  <2>2. PICK b \in Int : b = SumFunctionOnSet(h, T)
    BY <1>1
  <2>3. PICK y \in Int : y = f[x]
    OBVIOUS
  <2>4. PICK z \in Int : z = h[x]
    OBVIOUS
  <2>5. SumFunctionOnSet(f, T \cup {x}) = a + y /\ SumFunctionOnSet(h, T \cup {x}) = b + z
    BY <1>1, <2>1, <2>2, <2>3, <2>4, SumAdd
  <2>6. c * a <= d * b /\ c * y <= d * z
    BY <1>3, <2>1, <2>2, <2>3, <2>4
  <2>7. c * (a + y) <= d * (b + z)
    <3>1. c * (a + y) = c * a + c * y /\ d * (b + z) = d * b + d * z
      OBVIOUS
    <3>2. c * a \in Int /\ c * y \in Int /\ d * b \in Int /\ d * z \in Int
      OBVIOUS
    <3> QED
      BY <2>6, <3>1, <3>2
  <2> QED
    BY <2>5, <2>7
<1>4. S \in P
  <2> HIDE DEF P
  <2> QED
    BY <1>2, <1>3, SetInduction
<1> QED
  BY <1>1, <1>4

LEMMA SumSplit ==
  ASSUME NEW D, NEW f \in [D -> Int], NEW S \in SUBSET D, IsFiniteSet(S),
         NEW T \in SUBSET D, IsFiniteSet(T), S \cap T = {}
  PROVE  /\ SumFunctionOnSet(f, S) \in Int /\ SumFunctionOnSet(f, T) \in Int
         /\ SumFunctionOnSet(f, S \cup T) = SumFunctionOnSet(f, S) + SumFunctionOnSet(f, T)
<1> DEFINE P == {R \in SUBSET T : SumFunctionOnSet(f, S \cup R) = SumFunctionOnSet(f, S) + SumFunctionOnSet(f, R)}
<1>1. \A R \in SUBSET T : /\ IsFiniteSet(R) /\ IsFiniteSet(S \cup R)
                          /\ SumFunctionOnSet(f, R) \in Int /\ SumFunctionOnSet(f, S \cup R) \in Int
  BY FS_Subset, FS_Union, SumStep
<1>2. SumFunctionOnSet(f, S) \in Int
  BY SumStep
<1>3. {} \in P
  <2>1. SumFunctionOnSet(f, {}) = 0
    BY FS_EmptySet, SumStep
  <2>2. S \cup {} = S
    OBVIOUS
  <2> QED
    BY <1>2, <2>1, <2>2
<1>4. ASSUME NEW R \in SUBSET T, NEW x \in T \ R, R \in P
      PROVE  R \cup {x} \in P
  <2>0. R \in SUBSET D /\ x \in D \ R /\ IsFiniteSet(R)
    BY <1>1, <1>4
  <2>1. SumFunctionOnSet(f, R \cup {x}) = SumFunctionOnSet(f, R) + f[x]
    BY <2>0, SumAdd
  <2>2. PICK Q : Q = S \cup R
    OBVIOUS
  <2>3. IsFiniteSet(Q) /\ Q \in SUBSET D /\ x \in D \ Q
    BY <1>1, <1>4, <2>2
  <2>4. SumFunctionOnSet(f, Q \cup {x}) = SumFunctionOnSet(f, Q) + f[x]
    BY <2>3, SumAdd
  <2>5. S \cup (R \cup {x}) = Q \cup {x}
    BY <2>2
  <2>6. SumFunctionOnSet(f, Q) = SumFunctionOnSet(f, S) + SumFunctionOnSet(f, R)
    BY <1>4, <2>2
  <2>7. f[x] \in Int /\ SumFunctionOnSet(f, R) \in Int
    BY <1>1, <1>4
  <2>8. SumFunctionOnSet(f, S \cup (R \cup {x})) = SumFunctionOnSet(f, Q) + f[x]
    BY <2>4, <2>5, Zenon
  <2>9. SumFunctionOnSet(f, S \cup (R \cup {x})) = SumFunctionOnSet(f, S) + SumFunctionOnSet(f, R \cup {x})
    BY <1>2, <2>1, <2>6, <2>7, <2>8
  <2> QED
    BY <2>9
<1>5. T \in P
  <2> HIDE DEF P
  <2> QED
    BY <1>3, <1>4, SetInduction
<1> QED
  BY <1>1, <1>2, <1>5

(* Parts that share nothing, each bounded by its own sum, are together bounded by the sum over them. *)
Apart(G) == \A a, b \in G : a # b => a \cap b = {}
EachWithin(h, f, G) == \A a \in G : h[a] <= SumFunctionOnSet(f, a)

LEMMA SumOfParts ==
  ASSUME NEW D, IsFiniteSet(D), NEW f \in [D -> Int], NEW G, IsFiniteSet(G), G \in SUBSET SUBSET D,
         Apart(G), NEW h \in [G -> Int], EachWithin(h, f, G)
  PROVE  /\ SumFunctionOnSet(h, G) \in Int /\ SumFunctionOnSet(f, UNION G) \in Int
         /\ SumFunctionOnSet(h, G) <= SumFunctionOnSet(f, UNION G)
<1> DEFINE P == {R \in SUBSET G : SumFunctionOnSet(h, R) <= SumFunctionOnSet(f, UNION R)}
<1>1. \A S \in SUBSET D : IsFiniteSet(S) /\ SumFunctionOnSet(f, S) \in Int
  BY FS_Subset, SumStep
<1>2. \A R \in SUBSET G : /\ IsFiniteSet(R) /\ SumFunctionOnSet(h, R) \in Int
                          /\ UNION R \in SUBSET D
  <2>1. \A R \in SUBSET G : UNION R \in SUBSET D
    OBVIOUS
  <2> QED
    BY <2>1, FS_Subset, SumStep
<1>3. {} \in P
  <2>1. SumFunctionOnSet(h, {}) = 0 /\ SumFunctionOnSet(f, {}) = 0
    BY FS_EmptySet, SumStep
  <2>2. UNION {} = {}
    OBVIOUS
  <2>3. SumFunctionOnSet(f, UNION {}) = 0
    BY <2>1, <2>2, Zenon
  <2> QED
    BY <2>1, <2>3
<1>4. ASSUME NEW R \in SUBSET G, NEW a \in G \ R, R \in P
      PROVE  R \cup {a} \in P
  <2>1. SumFunctionOnSet(h, R \cup {a}) = SumFunctionOnSet(h, R) + h[a]
    BY <1>2, <1>4, SumAdd
  <2>2. PICK U : U = UNION R
    OBVIOUS
  <2>3. U \in SUBSET D /\ a \in SUBSET D /\ U \cap a = {}
    BY <1>2, <1>4, <2>2 DEF Apart
  <2>4. SumFunctionOnSet(f, U \cup a) = SumFunctionOnSet(f, U) + SumFunctionOnSet(f, a)
    <3>1. IsFiniteSet(U) /\ IsFiniteSet(a)
      BY <1>1, <2>3
    <3> QED
      BY <2>3, <3>1, SumSplit
  <2>5. UNION (R \cup {a}) = U \cup a
    BY <2>2
  <2>6. SumFunctionOnSet(f, UNION (R \cup {a})) = SumFunctionOnSet(f, U) + SumFunctionOnSet(f, a)
    BY <2>4, <2>5, Zenon
  <2>7. SumFunctionOnSet(h, R) <= SumFunctionOnSet(f, U) /\ h[a] <= SumFunctionOnSet(f, a)
    BY <1>4, <2>2 DEF EachWithin
  <2>8. SumFunctionOnSet(h, R) \in Int /\ SumFunctionOnSet(f, U) \in Int /\ h[a] \in Int /\ SumFunctionOnSet(f, a) \in Int
    BY <1>1, <1>2, <1>4, <2>3
  <2>9. SumFunctionOnSet(h, R \cup {a}) <= SumFunctionOnSet(f, UNION (R \cup {a}))
    BY <2>1, <2>6, <2>7, <2>8
  <2> QED
    BY <2>9
<1>5. G \in P
  <2> HIDE DEF P
  <2> QED
    BY <1>3, <1>4, SetInduction
<1> QED
  BY <1>1, <1>2, <1>5

LEMMA SumMonotone ==
  ASSUME NEW S, IsFiniteSet(S), NEW f \in [S -> Nat], NEW T \in SUBSET S
  PROVE  /\ SumFunctionOnSet(f, T) \in Nat /\ SumFunctionOnSet(f, S) \in Nat
         /\ SumFunctionOnSet(f, T) <= SumFunctionOnSet(f, S)
<1> DEFINE P == {R \in SUBSET S : SumFunctionOnSet(f, R) \in Nat}
<1>0. f \in [S -> Int]
  OBVIOUS
<1>1. \A R \in SUBSET S : IsFiniteSet(R) /\ SumFunctionOnSet(f, R) \in Int
  BY <1>0, FS_Subset, SumStep
<1>2. ASSUME NEW U \in SUBSET S
      PROVE  SumFunctionOnSet(f, U) \in Nat
  <2> DEFINE Q == {R \in SUBSET U : SumFunctionOnSet(f, R) \in Nat}
  <2>1. {} \in Q
    <3>1. SumFunctionOnSet(f, {}) = 0
      BY <1>0, FS_EmptySet, SumStep
    <3> QED
      BY <3>1
  <2>2. ASSUME NEW R \in SUBSET U, NEW x \in U \ R, R \in Q
        PROVE  R \cup {x} \in Q
    <3>1. SumFunctionOnSet(f, R \cup {x}) = SumFunctionOnSet(f, R) + f[x]
      BY <1>0, <1>1, <2>2, SumAdd
    <3> QED
      BY <2>2, <3>1
  <2>3. U \in Q
    <3> HIDE DEF Q
    <3> QED
      BY <1>1, <2>1, <2>2, SetInduction
  <2> QED
    BY <2>3
<1>3. PICK R : R = S \ T
  OBVIOUS
<1>4. R \in SUBSET S /\ T \cap R = {} /\ T \cup R = S
  BY <1>3
<1>5. SumFunctionOnSet(f, T \cup R) = SumFunctionOnSet(f, T) + SumFunctionOnSet(f, R)
  BY <1>0, <1>1, <1>4, SumSplit
<1>6. SumFunctionOnSet(f, S) = SumFunctionOnSet(f, T) + SumFunctionOnSet(f, R)
  BY <1>4, <1>5, Zenon
<1> QED
  BY <1>2, <1>4, <1>6
-----------------------------------------------------------------------------
(* The shape of the state.                                                 *)
Entry == [type : 0 .. 4, id : Nat, opt : Int, pes : Int]
Bounds == [type : 2 .. 4, opt : Int, pes : Int]
Judged == [id : Traj, pes : Int]

(* Case 3 has popped a candidate and holds it, outside the queue. *)
InHand == pc = "top" /\ caller # "query"
(* The loop has taken a node, or a candidate, to look at. *)
AtNode == pc = "visit" /\ first.type \in {0, 1}
AtCandidate == pc = "visit" /\ first.type \in 2 .. 4

Kinds ==
  /\ world \in [Traj -> Shapes]
  /\ query \in [k : Ks, measure : {"RMDTW", "IED"}, loadleaf : BOOLEAN]
  /\ pc \in {"loop", "top", "visit", "leaf"} \cup Ended
  /\ caller \in {"query", "check", "judge"}
  /\ first \in Entry \cup {NoEntry}
  /\ lastid \in Traj \cup {NoId}
  /\ btopnode \in BOOLEAN
  /\ DOMAIN nodespq \subseteq Node /\ nodespq \in [DOMAIN nodespq -> Nat]
  /\ DOMAIN mpq \subseteq Traj /\ mpq \in [DOMAIN mpq -> Bounds]
  /\ parts \in [Traj -> SUBSET Nat] /\ \A t \in Traj : parts[t] \subseteq Boxes(t)
  /\ missing \in [Traj -> SUBSET Leaf]
  /\ loaded \subseteq Leaf
  /\ fresh \subseteq Traj
  /\ pes \in Seq(Judged)
  /\ except \subseteq Traj
  /\ reported \in Seq(Traj)

(* What is in hand: nothing, the node or candidate the loop took, or the   *)
(* candidate case 3 popped.                                                *)
HandFits ==
  /\ pc \in {"loop", "leaf"} => first = NoEntry
  /\ pc = "leaf" <=> fresh # {}
  /\ AtNode => /\ first.id \in DOMAIN nodespq
               /\ first.type = IF first.id \in Leaf THEN 1 ELSE 0
  /\ AtCandidate => first.id \in DOMAIN mpq /\ first = Candidate(first.id)
  /\ InHand => first.type = 3 /\ first.id \in Traj /\ first.id \notin DOMAIN mpq

-----------------------------------------------------------------------------
(* The leaves that hold boxes and have not been read lie under the nodes   *)
(* that wait, none of which is queued with more than its distance.         *)
Covered ==
  /\ \A l \in Leaf \ loaded : \A t \in Traj :
       BoxesIn(t, l) # {} => \E n \in DOMAIN nodespq : l \in Under[n]
  /\ \A n \in DOMAIN nodespq : nodespq[n] <= NodeDist(n)

(* The boxes of t in the leaves read, and the leaves these link to.        *)
BoxesRead(t) == {i \in Boxes(t) : world[t].box[i].leaf \in loaded}
Linked(t) == {world[t].box[j].leaf : j \in UNION {Neighbours(t, i) : i \in parts[t]}}
UpToDate(t) == parts[t] = BoxesRead(t) /\ missing[t] = Linked(t) \ loaded

(* Boxes of excepted trajectories are ignored, but the candidate top() has *)
(* just brought up to date is, even if that excepted it.                   *)
Looked(t) == (pc = "top" /\ lastid = t) \/ (AtCandidate /\ first.id = t)
Complete(t) == parts[t] = Boxes(t) /\ missing[t] = {}
Followed ==
  /\ \A t \in Traj \ except : UpToDate(t)
  /\ \A t \in DOMAIN mpq : mpq[t].type >= 3 => Complete(t)
  /\ \A t \in DOMAIN mpq : Looked(t) => UpToDate(t) \/ Complete(t)
  /\ InHand => Complete(first.id)

-----------------------------------------------------------------------------
(* Where a trajectory is.                                                  *)
Reported == {reported[i] : i \in DOMAIN reported}
Placed ==
  /\ pc \notin Ended => \A t \in Traj :
       \/ parts[t] = {} \/ t \in fresh \/ t \in DOMAIN mpq \/ t \in Reported \/ t \in except
       \/ InHand /\ t = first.id
  /\ \A t \in fresh \cup DOMAIN mpq \cup Reported \cup except : parts[t] # {}
  /\ Reported \cap (fresh \cup DOMAIN mpq) = {}
  /\ fresh \cap except = {}
  /\ InHand => first.id \notin Reported /\ parts[first.id] # {} /\ Len(reported) < query.k

-----------------------------------------------------------------------------
(* The bounds.                                                             *)
Bracket(e, t) == e.opt <= Distance[t] /\ Distance[t] <= e.pes
Bracketed ==
  /\ \A t \in DOMAIN mpq :
       Bracket(mpq[t], t) /\ (mpq[t].type = 4 => mpq[t].opt = Distance[t])
  /\ InHand => Bracket(first, first.id)

(* m_pes: one entry for an id, in order, each an upper bound.              *)
Least ==
  /\ Len(pes) <= query.k
  /\ \A i, j \in DOMAIN pes : i < j => pes[i].pes <= pes[j].pes /\ pes[i].id # pes[j].id
  /\ \A i \in DOMAIN pes : Distance[pes[i].id] <= pes[i].pes

(* The candidate that is looked at is the first.                           *)
FirstIsLeast ==
  AtCandidate =>
    /\ \A t \in DOMAIN mpq : first.opt <= mpq[t].opt
    /\ \A n \in DOMAIN nodespq : first.opt <= nodespq[n]

Invariant ==
  /\ Kinds /\ HandFits
  /\ Covered /\ Followed
  /\ Placed
  /\ Bracketed /\ Least /\ FirstIsLeast /\ ExceptedAreFar

-----------------------------------------------------------------------------
(* Least elements: of numbers, and of entries in EntryMPQ's order.         *)
LEMMA MinOfNats ==
  ASSUME NEW S, S \subseteq Nat, S # {}
  PROVE  Min(S) \in S /\ \A y \in S : Min(S) <= y
<1>1. PICK x \in S : \A y \in S : ~ (<<y, x>> \in OpToRel(<, Nat))
  BY NatLessThanWellFounded, WFMin
<1>2. ASSUME NEW y \in S
      PROVE  x <= y
  <2>1. x \in Nat /\ y \in Nat
    BY <1>1
  <2>2. ~ (y < x)
    BY <1>1, <2>1 DEF OpToRel
  <2> QED
    BY <2>1, <2>2
<1> QED
  BY <1>2 DEF Min

LEMMA MinOfTwo ==
  ASSUME NEW a \in Int, NEW b \in Int
  PROVE  Min({a, b}) \in {a, b} /\ Min({a, b}) <= a /\ Min({a, b}) <= b
BY DEF Min

LEMMA MaxOfTwo ==
  ASSUME NEW a \in Int, NEW b \in Int
  PROVE  Max({a, b}) \in {a, b} /\ a <= Max({a, b}) /\ b <= Max({a, b})
BY DEF Max

Entries == [type : Int, id : Int, opt : Int, pes : Int]

LEMMA ForemostIs ==
  ASSUME NEW S, S \subseteq Entries, IsFiniteSet(S), S # {}
  PROVE  Foremost(S) \in S /\ \A b \in S : Before(Foremost(S), b)
<1> DEFINE P == {T \in SUBSET S : T = {} \/ \E a \in T : \A b \in T : Before(a, b)}
<1>1. \A a, b \in Entries : Before(a, b) \/ Before(b, a)
  BY DEF Before, Entries
<1>2. \A a, b, c \in Entries : Before(a, b) /\ Before(b, c) => Before(a, c)
  BY DEF Before, Entries
<1>3. {} \in P
  OBVIOUS
<1>4. ASSUME NEW T \in SUBSET S, NEW x \in S \ T, T \in P
      PROVE  T \cup {x} \in P
  <2>0. \A a \in T \cup {x} : a \in Entries /\ Before(a, a)
    BY <1>1
  <2>1. CASE T = {}
    BY <2>0, <2>1
  <2>2. CASE T # {}
    <3>1. PICK a \in T : \A b \in T : Before(a, b)
      BY <1>4, <2>2
    <3>2. CASE Before(a, x)
      BY <3>1, <3>2
    <3>3. CASE Before(x, a)
      <4>1. \A b \in T \cup {x} : Before(x, b)
        BY <1>2, <2>0, <3>1, <3>3
      <4> QED
        BY <4>1
    <3> QED
      BY <1>1, <2>0, <3>1, <3>2, <3>3
  <2> QED
    BY <2>1, <2>2
<1>5. S \in P
  <2> HIDE DEF P
  <2> QED
    BY <1>3, <1>4, SetInduction
<1>6. \E a \in S : \A b \in S : Before(a, b)
  BY <1>5
<1> QED
  BY <1>6 DEF Foremost

LEMMA EmptyQueue ==
  ASSUME NEW S, NEW q, q \in [DOMAIN q -> S]
  PROVE  q = <<>> <=> DOMAIN q = {}
<1>1. <<>> \in Seq(S) /\ Len(<<>>) = 0
  BY EmptySeq
<1>2. <<>> \in [{} -> S] /\ DOMAIN <<>> = {}
  BY <1>1, LenProperties
<1> QED
  BY <1>2

LEMMA NodesFinite == \A D \in SUBSET Node : IsFiniteSet(D) /\ D \subseteq Nat
BY NodeAssumption, FS_Subset DEF Node

LEMMA NodeTopIs ==
  ASSUME NEW D \in SUBSET Node, D # {}, NEW nodes \in [D -> Nat]
  PROVE  \E n \in D : /\ NodeTop(nodes) = NodeEntry(n, nodes[n])
                      /\ \A m \in D : nodes[n] <= nodes[m]
<1> DEFINE e(n) == NodeEntry(n, nodes[n])
           f == [n \in D |-> e(n)]
           S == {f[n] : n \in D}
<1>1. D \subseteq Nat /\ IsFiniteSet(D)
  BY NodesFinite
<1>2. \A n \in D : e(n) \in Entries /\ e(n).opt = nodes[n]
  BY <1>1 DEF NodeEntry, Entries, Node
<1>3. IsFiniteSet(S)
  <2>1. DOMAIN f = D
    OBVIOUS
  <2> HIDE DEF f
  <2> QED
    BY <1>1, <2>1, ImageFinite
<1>4. S \subseteq Entries /\ S # {}
  BY <1>2
<1>5. Foremost(S) \in S /\ \A b \in S : Before(Foremost(S), b)
  <2> HIDE DEF S
  <2> QED
    BY <1>3, <1>4, ForemostIs
<1>6. PICK n \in D : Foremost(S) = e(n)
  BY <1>5
<1>7. ASSUME NEW m \in D
      PROVE  nodes[n] <= nodes[m]
  <2>1. Before(e(n), e(m))
    BY <1>5, <1>6
  <2>2. e(n).opt <= e(m).opt
    <3> HIDE DEF e
    <3> QED
      BY <1>2, <2>1 DEF Before
  <2> QED
    BY <1>2, <2>2
<1>8. NodeTop(nodes) = Foremost(S)
  <2>1. S = {NodeEntry(m, nodes[m]) : m \in D}
    OBVIOUS
  <2>2. DOMAIN nodes = D
    OBVIOUS
  <2> QED
    BY <2>1, <2>2, Zenon DEF NodeTop
<1> QED
  BY <1>6, <1>7, <1>8

LEMMA CandidateTopIs ==
  ASSUME Kinds, mpq # <<>>
  PROVE  \E t \in DOMAIN mpq : /\ CandidateTop = Candidate(t)
                               /\ \A u \in DOMAIN mpq : mpq[t].opt <= mpq[u].opt
<1> DEFINE f == [t \in DOMAIN mpq |-> Candidate(t)]
           S == {f[t] : t \in DOMAIN mpq}
<1>1. DOMAIN mpq \subseteq Nat /\ IsFiniteSet(DOMAIN mpq)
  BY TrajAssumption, FS_Subset DEF Kinds
<1>2. DOMAIN mpq # {}
  BY EmptyQueue DEF Kinds
<1>3. \A t \in DOMAIN mpq : Candidate(t) \in Entries /\ Candidate(t).opt = mpq[t].opt
  <2>1. \A t \in DOMAIN mpq : mpq[t] \in Bounds /\ t \in Int
    BY <1>1 DEF Kinds
  <2> QED
    BY <2>1 DEF Candidate, Entries, Bounds
<1>4. IsFiniteSet(S)
  <2>1. DOMAIN f = DOMAIN mpq
    OBVIOUS
  <2> HIDE DEF f
  <2> QED
    BY <1>1, <2>1, ImageFinite
<1>5. S \subseteq Entries /\ S # {}
  BY <1>2, <1>3
<1>6. Foremost(S) \in S /\ \A b \in S : Before(Foremost(S), b)
  <2> HIDE DEF S
  <2> QED
    BY <1>4, <1>5, ForemostIs
<1>7. PICK t \in DOMAIN mpq : Foremost(S) = Candidate(t)
  BY <1>6
<1>8. ASSUME NEW u \in DOMAIN mpq
      PROVE  mpq[t].opt <= mpq[u].opt
  <2>1. Before(Candidate(t), Candidate(u))
    BY <1>6, <1>7
  <2>2. Candidate(t).opt <= Candidate(u).opt
    BY <1>3, <2>1 DEF Before, Entries
  <2> QED
    BY <1>3, <2>2
<1>9. S = {Candidate(u) : u \in DOMAIN mpq}
  OBVIOUS
<1>10. CandidateTop = Foremost(S)
  BY <1>9, Zenon DEF CandidateTop
<1> QED
  BY <1>7, <1>8, <1>10

-----------------------------------------------------------------------------
(* A trajectory's boxes and what is added up over them.                    *)
BoxesOf(s) == DOMAIN s.box

LEMMA ShapeFacts ==
  \A s \in Shapes :
    /\ Len(s.box) \in Nat /\ BoxesOf(s) = 1 .. Len(s.box) /\ IsFiniteSet(BoxesOf(s))
    /\ \A i \in BoxesOf(s) : /\ s.box[i].leaf \in Leaf /\ s.box[i].width \in Nat
                             /\ s.box[i].rate \in Nat /\ s.box[i].slack \in Nat
                             /\ Slots * s.box[i].rate < Huge
    /\ s.distance \in Nat /\ s.excess \in Nat /\ s.reach \in Nat
    /\ s.distance < Huge /\ s.excess <= s.distance /\ s.excess <= Delta /\ s.excess <= SsDelta
<1> SUFFICES ASSUME NEW s \in Shapes
             PROVE  /\ Len(s.box) \in Nat /\ BoxesOf(s) = 1 .. Len(s.box) /\ IsFiniteSet(BoxesOf(s))
                    /\ \A i \in BoxesOf(s) : /\ s.box[i].leaf \in Leaf /\ s.box[i].width \in Nat
                                             /\ s.box[i].rate \in Nat /\ s.box[i].slack \in Nat
                                             /\ Slots * s.box[i].rate < Huge
                    /\ s.distance \in Nat /\ s.excess \in Nat /\ s.reach \in Nat
                    /\ s.distance < Huge /\ s.excess <= s.distance
                    /\ s.excess <= Delta /\ s.excess <= SsDelta
  OBVIOUS
<1>1. s.box \in Seq(BoxRecord)
  BY ShapeAssumption
<1>2. Len(s.box) \in Nat /\ BoxesOf(s) = 1 .. Len(s.box)
  BY <1>1, LenProperties DEF BoxesOf
<1>3. IsFiniteSet(BoxesOf(s))
  BY <1>2, FS_Interval
<1>4. ASSUME NEW i \in BoxesOf(s)
      PROVE  /\ s.box[i].leaf \in Leaf /\ s.box[i].width \in Nat
             /\ s.box[i].rate \in Nat /\ s.box[i].slack \in Nat
             /\ Slots * s.box[i].rate < Huge
  <2>1. s.box[i] \in BoxRecord
    BY <1>1, <1>2, ElementOfSeq
  <2>2. Slots * s.box[i].rate < Huge
    BY ShapeAssumption DEF BoxesOf
  <2> QED
    BY <2>1, <2>2 DEF BoxRecord
<1>5. LoOf(s) \in [BoxesOf(s) -> Nat]
  BY <1>4 DEF LoOf, BoxesOf
<1>6. SumFunction(LoOf(s)) \in Nat /\ SumFunction(LoOf(s)) = SumFunctionOnSet(LoOf(s), BoxesOf(s))
  <2>1. SumFunction(LoOf(s)) = SumFunctionOnSet(LoOf(s), BoxesOf(s))
    BY <1>5 DEF SumFunction
  <2> QED
    BY <1>3, <1>5, <2>1, SumMonotone
<1>7. s.distance \in SumFunction(LoOf(s)) .. SumFunction(HiOf(s))
  BY ShapeAssumption
<1>8. s.distance \in Nat
  BY <1>6, <1>7
<1>9. /\ s.excess \in 0 .. s.distance /\ s.excess <= Delta /\ s.excess <= SsDelta
      /\ s.reach \in Nat /\ s.distance < Huge
  BY ShapeAssumption
<1> QED
  BY <1>2, <1>3, <1>4, <1>8, <1>9

LEMMA SumFacts ==
  \A s \in Shapes :
    /\ LoOf(s) \in [BoxesOf(s) -> Nat]
    /\ HiOf(s) \in [BoxesOf(s) -> Nat]
    /\ WidthOf(s) \in [BoxesOf(s) -> Nat]
    /\ \A S \in SUBSET BoxesOf(s) :
         /\ IsFiniteSet(S)
         /\ SumFunctionOnSet(LoOf(s), S) \in Nat
         /\ SumFunctionOnSet(HiOf(s), S) \in Nat
         /\ SumFunctionOnSet(WidthOf(s), S) \in Nat
         /\ SumFunctionOnSet(LoOf(s), S) <= s.distance
    /\ SumFunctionOnSet(WidthOf(s), BoxesOf(s)) = Slots
    /\ s.distance <= SumFunctionOnSet(HiOf(s), BoxesOf(s))
<1> SUFFICES ASSUME NEW s \in Shapes
             PROVE  /\ LoOf(s) \in [BoxesOf(s) -> Nat]
                    /\ HiOf(s) \in [BoxesOf(s) -> Nat]
                    /\ WidthOf(s) \in [BoxesOf(s) -> Nat]
                    /\ \A S \in SUBSET BoxesOf(s) :
                         /\ IsFiniteSet(S)
                         /\ SumFunctionOnSet(LoOf(s), S) \in Nat
                         /\ SumFunctionOnSet(HiOf(s), S) \in Nat
                         /\ SumFunctionOnSet(WidthOf(s), S) \in Nat
                         /\ SumFunctionOnSet(LoOf(s), S) <= s.distance
                    /\ SumFunctionOnSet(WidthOf(s), BoxesOf(s)) = Slots
                    /\ s.distance <= SumFunctionOnSet(HiOf(s), BoxesOf(s))
  OBVIOUS
<1>1. \A i \in BoxesOf(s) : s.box[i].width \in Nat /\ s.box[i].rate \in Nat /\ s.box[i].slack \in Nat
  BY ShapeFacts
<1>2. IsFiniteSet(BoxesOf(s)) /\ s.distance \in Nat
  BY ShapeFacts
<1>3. /\ LoOf(s) \in [BoxesOf(s) -> Nat]
      /\ HiOf(s) \in [BoxesOf(s) -> Nat]
      /\ WidthOf(s) \in [BoxesOf(s) -> Nat]
  BY <1>1 DEF LoOf, HiOf, WidthOf, BoxesOf
<1>4. /\ SumFunction(LoOf(s)) = SumFunctionOnSet(LoOf(s), BoxesOf(s))
      /\ SumFunction(HiOf(s)) = SumFunctionOnSet(HiOf(s), BoxesOf(s))
      /\ SumFunction(WidthOf(s)) = SumFunctionOnSet(WidthOf(s), BoxesOf(s))
  BY <1>3 DEF SumFunction
<1>5. ASSUME NEW S \in SUBSET BoxesOf(s)
      PROVE  /\ IsFiniteSet(S)
             /\ SumFunctionOnSet(LoOf(s), S) \in Nat
             /\ SumFunctionOnSet(HiOf(s), S) \in Nat
             /\ SumFunctionOnSet(WidthOf(s), S) \in Nat
             /\ SumFunctionOnSet(LoOf(s), S) <= SumFunctionOnSet(LoOf(s), BoxesOf(s))
             /\ SumFunctionOnSet(LoOf(s), BoxesOf(s)) \in Nat
             /\ SumFunctionOnSet(HiOf(s), BoxesOf(s)) \in Nat
  BY <1>2, <1>3, FS_Subset, SumMonotone
<1>6. s.distance \in SumFunction(LoOf(s)) .. SumFunction(HiOf(s)) /\ SumFunction(WidthOf(s)) = Slots
  BY ShapeAssumption
<1>7. PICK a : a = SumFunctionOnSet(LoOf(s), BoxesOf(s))
  OBVIOUS
<1>8. PICK b : b = SumFunctionOnSet(HiOf(s), BoxesOf(s))
  OBVIOUS
<1>9. a \in Nat /\ b \in Nat /\ s.distance \in a .. b
  BY <1>4, <1>5, <1>6, <1>7, <1>8
<1>10. a <= s.distance /\ s.distance <= b
  BY <1>2, <1>9
<1>11. ASSUME NEW S \in SUBSET BoxesOf(s)
       PROVE  SumFunctionOnSet(LoOf(s), S) <= s.distance
  <2>1. SumFunctionOnSet(LoOf(s), S) <= a /\ SumFunctionOnSet(LoOf(s), S) \in Nat
    BY <1>5, <1>7
  <2> QED
    BY <1>2, <1>9, <1>10, <2>1
<1> QED
  BY <1>3, <1>4, <1>5, <1>6, <1>8, <1>10, <1>11

-----------------------------------------------------------------------------
(* The gaps: the longest runs of unread boxes share none, and every unread *)
(* box is in one.                                                          *)
Runs(n, read) ==
  {g[1] .. g[2] : g \in {r \in (1 .. n) \X (1 .. n) :
      /\ r[1] <= r[2]
      /\ r[1] .. r[2] \cap read = {}
      /\ r[1] = 1 \/ r[1] - 1 \in read
      /\ r[2] = n \/ r[2] + 1 \in read}}

LEMMA RunIs ==
  ASSUME NEW n \in Nat, NEW read, NEW g \in Runs(n, read)
  PROVE  \E a, b \in 1 .. n :
           /\ g = a .. b /\ a <= b /\ g \cap read = {}
           /\ a = 1 \/ a - 1 \in read
           /\ b = n \/ b + 1 \in read
BY DEF Runs

LEMMA RunsApart ==
  ASSUME NEW n \in Nat, NEW read \in SUBSET (1 .. n), NEW g \in Runs(n, read),
         NEW h \in Runs(n, read), NEW x, x \in g, x \in h
  PROVE  g = h
<1>1. PICK a \in 1 .. n, b \in 1 .. n :
           /\ g = a .. b /\ a <= b /\ g \cap read = {}
           /\ a = 1 \/ a - 1 \in read
           /\ b = n \/ b + 1 \in read
  BY RunIs
<1>2. PICK c \in 1 .. n, d \in 1 .. n :
           /\ h = c .. d /\ c <= d /\ h \cap read = {}
           /\ c = 1 \/ c - 1 \in read
           /\ d = n \/ d + 1 \in read
  BY RunIs
<1>3. x \in Int /\ a <= x /\ x <= b /\ c <= x /\ x <= d
  BY <1>1, <1>2
<1>4. a = c
  <2>1. ~ (a < c)
    <3>1. SUFFICES ASSUME a < c
                   PROVE  FALSE
      OBVIOUS
    <3>2. c - 1 \in a .. b /\ c # 1
      BY <1>3, <3>1
    <3> QED
      BY <1>1, <1>2, <3>2
  <2>2. ~ (c < a)
    <3>1. SUFFICES ASSUME c < a
                   PROVE  FALSE
      OBVIOUS
    <3>2. a - 1 \in c .. d /\ a # 1
      BY <1>3, <3>1
    <3> QED
      BY <1>1, <1>2, <3>2
  <2> QED
    BY <2>1, <2>2
<1>5. b = d
  <2>1. ~ (d < b)
    <3>1. SUFFICES ASSUME d < b
                   PROVE  FALSE
      OBVIOUS
    <3>2. d + 1 \in a .. b /\ d # n
      BY <1>3, <3>1
    <3> QED
      BY <1>1, <1>2, <3>2
  <2>2. ~ (b < d)
    <3>1. SUFFICES ASSUME b < d
                   PROVE  FALSE
      OBVIOUS
    <3>2. b + 1 \in c .. d /\ b # n
      BY <1>3, <3>1
    <3> QED
      BY <1>1, <1>2, <3>2
  <2> QED
    BY <2>1, <2>2
<1> QED
  BY <1>1, <1>2, <1>4, <1>5

LEMMA InSomeRun ==
  ASSUME NEW n \in Nat, NEW read \in SUBSET (1 .. n), NEW x \in (1 .. n) \ read
  PROVE  \E g \in Runs(n, read) : x \in g
<1> DEFINE D == {d \in 1 .. n : d <= x /\ (x - d = 0 \/ x - d \in read)}
           E == {e \in x + 1 .. n + 1 : e = n + 1 \/ e \in read}
<1>1. x \in D /\ D \subseteq Nat
  OBVIOUS
<1>2. n + 1 \in E /\ E \subseteq Nat
  OBVIOUS
<1>3. PICK d \in D : \A y \in D : d <= y
  <2> HIDE DEF D
  <2> QED
    BY <1>1, MinOfNats
<1>4. PICK e \in E : \A y \in E : e <= y
  <2> HIDE DEF E
  <2> QED
    BY <1>2, MinOfNats
<1> DEFINE a == x - d + 1
           b == e - 1
<1>5. a \in 1 .. n /\ b \in 1 .. n /\ a <= x /\ x <= b
  BY <1>3, <1>4
<1>6. (a = 1 \/ a - 1 \in read) /\ (b = n \/ b + 1 \in read)
  BY <1>3, <1>4
<1>7. ASSUME NEW y \in a .. b, y \in read
      PROVE  FALSE
  <2>1. CASE y <= x
    <3>1. x - y \in D
      BY <1>5, <1>7, <2>1
    <3>2. d <= x - y
      BY <1>3, <3>1
    <3> QED
      BY <1>3, <1>5, <3>2
  <2>2. CASE x < y
    <3>1. y \in E
      BY <1>4, <1>5, <1>7, <2>2
    <3>2. e <= y
      BY <1>4, <3>1
    <3> QED
      BY <1>4, <1>5, <3>2
  <2> QED
    BY <1>5, <2>1, <2>2
<1> HIDE DEF a, b
<1>8. a .. b \in Runs(n, read)
  <2>1. <<a, b>> \in (1 .. n) \X (1 .. n) /\ a <= b /\ a .. b \cap read = {}
    BY <1>5, <1>7
  <2> QED
    BY <1>6, <2>1 DEF Runs
<1> QED
  BY <1>5, <1>8

-----------------------------------------------------------------------------
(* The distances of nodes.                                                 *)
Excess(t) == IF query.measure = "IED" THEN world[t].excess ELSE 0

LEMMA WorldFacts ==
  ASSUME Kinds, NEW t \in Traj
  PROVE  /\ world[t] \in Shapes /\ Boxes(t) = BoxesOf(world[t])
         /\ Excess(t) \in Nat /\ Excess(t) <= world[t].distance
         /\ Distance[t] = world[t].distance - Excess(t) /\ Distance[t] \in Nat /\ Distance[t] < Huge
         /\ Error \in Nat /\ Excess(t) <= Error
<1>1. world[t] \in Shapes /\ Boxes(t) = BoxesOf(world[t])
  BY DEF Kinds, Boxes, BoxesOf
<1>2. /\ world[t].distance \in Nat /\ world[t].excess \in Nat
      /\ world[t].distance < Huge /\ world[t].excess <= world[t].distance
      /\ world[t].excess <= Delta
  BY <1>1, ShapeFacts
<1>3. Excess(t) \in Nat /\ Excess(t) <= world[t].distance /\ Error \in Nat /\ Excess(t) <= Error
  BY <1>2, NumberAssumption DEF Excess, Error
<1>4. Distance[t] = world[t].distance - Excess(t)
  BY DEF Distance, TrueDistance, Excess
<1> QED
  BY <1>1, <1>2, <1>3, <1>4, NumberAssumption

LEMMA NodeErrorIs ==
  ASSUME Kinds, NEW t \in Traj, NEW n \in Node
  PROVE  NodeError(n) \in Nat /\ Excess(t) <= NodeError(n)
<1>1. world[t] \in Shapes
  BY WorldFacts
<1>2. world[t].excess \in Nat /\ world[t].excess <= Delta /\ world[t].excess <= SsDelta
  BY <1>1, ShapeFacts
<1> QED
  BY <1>2, NumberAssumption DEF Excess, NodeError

LEMMA NodeDistIs ==
  ASSUME Kinds, NEW n \in Node
  PROVE  /\ NodeDist(n) \in Nat
         /\ \A t \in Traj : \A i \in Boxes(t) :
              world[t].box[i].leaf \in Under[n] =>
                /\ NodeDist(n) < Huge
                /\ \/ NodeDist(n) = 0
                   \/ NodeDist(n) + Excess(t) <= Slots * world[t].box[i].rate
<1> DEFINE rates == RatesIn(Under[n])
<1>1. ASSUME NEW r \in rates
      PROVE  r \in Nat /\ Slots * r < Huge
  <2>0. PICK t \in Traj : \E i \in Boxes(t) : r = world[t].box[i].rate
    BY <1>1 DEF RatesIn, BoxesIn
  <2>1. PICK i \in Boxes(t) : r = world[t].box[i].rate
    BY <2>0
  <2>2. world[t] \in Shapes /\ i \in BoxesOf(world[t])
    BY WorldFacts
  <2> QED
    BY <2>1, <2>2, ShapeFacts
<1>2. PICK e : e = NodeError(n)
  OBVIOUS
<1>3. e \in Nat
  BY <1>2, NumberAssumption DEF NodeError
<1>4. Slots \in Nat \ {0} /\ Huge \in Nat
  BY NumberAssumption
<1>5. CASE rates = {}
  <2>1. NodeDist(n) = Huge
    BY <1>5 DEF NodeDist
  <2>2. \A t \in Traj : \A i \in Boxes(t) : world[t].box[i].leaf \in Under[n] => FALSE
    <3>1. SUFFICES ASSUME NEW t \in Traj, NEW i \in Boxes(t), world[t].box[i].leaf \in Under[n]
                   PROVE  FALSE
      OBVIOUS
    <3>2. PICK r : r = world[t].box[i].rate
      OBVIOUS
    <3> HIDE DEF rates
    <3>3. r \in rates
      BY <3>1, <3>2 DEF rates, RatesIn, BoxesIn
    <3> QED
      BY <1>5, <3>3
  <2> QED
    BY <1>4, <2>1, <2>2
<1>6. CASE rates # {}
  <2>0. rates \subseteq Nat
    BY <1>1
  <2> HIDE DEF rates
  <2>1. Min(rates) \in rates /\ \A r \in rates : Min(rates) <= r
    BY <1>6, <2>0, MinOfNats
  <2>2. PICK m \in Nat : m = Min(rates)
    BY <2>0, <2>1
  <2>3. PICK a \in Int : a = Slots * m - e
    BY <1>3, <1>4
  <2>4. NodeDist(n) = Max({0, a})
    BY <1>2, <1>6, <2>2, <2>3 DEF NodeDist, rates
  <2>5. NodeDist(n) \in {0, a} /\ 0 <= NodeDist(n) /\ a <= NodeDist(n)
    BY <2>4, MaxOfTwo
  <2>6. NodeDist(n) \in Nat
    BY <2>5
  <2>7. ASSUME NEW t \in Traj, NEW i \in Boxes(t), world[t].box[i].leaf \in Under[n]
        PROVE  /\ NodeDist(n) < Huge
               /\ \/ NodeDist(n) = 0
                  \/ NodeDist(n) + Excess(t) <= Slots * world[t].box[i].rate
    <3>1. PICK r : r = world[t].box[i].rate
      OBVIOUS
    <3>2. r \in rates
      BY <2>7, <3>1 DEF rates, RatesIn, BoxesIn
    <3>3. r \in Nat /\ Slots * r < Huge /\ m <= r
      BY <1>1, <2>1, <2>2, <3>2
    <3>4. Slots * m <= Slots * r
      <4>1. PICK d \in Nat : r = m + d
        BY <3>3
      <4>2. Slots * r = Slots * m + Slots * d /\ Slots * d \in Nat /\ Slots * m \in Nat
        BY <1>4, <4>1
      <4> QED
        BY <4>2
    <3>5. Slots * m \in Nat /\ Slots * r \in Nat
      BY <1>4, <3>3
    <3>6. Excess(t) \in Nat /\ Excess(t) <= e
      BY <1>2, NodeErrorIs, WorldFacts
    <3>7. 0 < Huge
      BY <1>4, <3>3, <3>5
    <3>8. NodeDist(n) < Huge
      BY <1>3, <1>4, <2>3, <2>5, <3>3, <3>4, <3>5, <3>7
    <3>9. NodeDist(n) = 0 \/ NodeDist(n) + Excess(t) <= Slots * r
      BY <1>3, <2>3, <2>5, <3>4, <3>5, <3>6
    <3> QED
      BY <3>1, <3>8, <3>9
  <2> QED
    BY <2>6, <2>7
<1> QED
  BY <1>5, <1>6

(* What waits in the node queue is no farther than an unread box.          *)
LEMMA TopIsLow ==
  ASSUME Kinds, Covered, DOMAIN nodespq # {}
  PROVE  /\ NodeTop(nodespq).opt \in Nat
         /\ \A t \in Traj : \A i \in Boxes(t) \ BoxesRead(t) :
              \/ NodeTop(nodespq).opt = 0
              \/ NodeTop(nodespq).opt + Excess(t) <= Slots * world[t].box[i].rate
<1>0. DOMAIN nodespq \in SUBSET Node /\ nodespq \in [DOMAIN nodespq -> Nat]
  BY DEF Kinds
<1>1. PICK n \in DOMAIN nodespq : /\ NodeTop(nodespq) = NodeEntry(n, nodespq[n])
                                  /\ \A m \in DOMAIN nodespq : nodespq[n] <= nodespq[m]
  BY <1>0, NodeTopIs
<1>2. PICK e \in Nat : e = NodeTop(nodespq).opt /\ e = nodespq[n]
  BY <1>0, <1>1 DEF NodeEntry
<1>3. ASSUME NEW t \in Traj, NEW i \in Boxes(t) \ BoxesRead(t)
      PROVE  e = 0 \/ e + Excess(t) <= Slots * world[t].box[i].rate
  <2>1. world[t] \in Shapes /\ i \in BoxesOf(world[t]) /\ Excess(t) \in Nat
    BY WorldFacts
  <2>2. world[t].box[i].leaf \in Leaf \ loaded
    BY <2>1, ShapeFacts DEF BoxesRead
  <2>3. BoxesIn(t, world[t].box[i].leaf) # {}
    BY DEF BoxesIn
  <2>4. PICK m \in DOMAIN nodespq : world[t].box[i].leaf \in Under[m]
    BY <2>2, <2>3 DEF Covered
  <2>5. nodespq[m] <= NodeDist(m) /\ m \in Node /\ nodespq[m] \in Nat /\ e <= nodespq[m]
    BY <1>0, <1>1, <1>2, <2>4 DEF Covered
  <2>6. NodeDist(m) \in Nat /\ (NodeDist(m) = 0 \/ NodeDist(m) + Excess(t) <= Slots * world[t].box[i].rate)
    BY <2>4, <2>5, NodeDistIs
  <2>7. Slots * world[t].box[i].rate \in Nat
    BY <2>1, ShapeFacts, NumberAssumption
  <2> QED
    BY <2>1, <2>5, <2>6, <2>7
<1> QED
  BY <1>2, <1>3

-----------------------------------------------------------------------------
(* Arithmetic.                                                             *)
LEMMA TimesMonotone ==
  ASSUME NEW a \in Int, NEW b \in Int, NEW c \in Nat, a <= b
  PROVE  a * c <= b * c
<1>1. PICK d \in Nat : b = a + d
  BY SMT
<1>2. (a + d) * c = a * c + d * c /\ d * c \in Nat /\ a * c \in Int
  OBVIOUS
<1> QED
  BY <1>1, <1>2

LEMMA DivideOut ==
  ASSUME NEW a \in Int, NEW b \in Int, NEW c \in Nat \ {0}, a <= c * b
  PROVE  a \div c \in Int /\ a \div c <= b
<1>1. PICK q \in Int : q = a \div c
  OBVIOUS
<1>2. c * q <= a /\ c * q \in Int /\ c * b \in Int
  BY <1>1
<1>3. ASSUME b < q
      PROVE  FALSE
  <2>1. PICK d \in Nat \ {0} : q = b + d
    BY <1>3
  <2>2. c * (b + d) = c * b + c * d /\ c * d \in Nat \ {0}
    OBVIOUS
  <2> QED
    BY <1>2, <2>1, <2>2
<1> QED
  BY <1>1, <1>3

LEMMA CancelFactor ==
  ASSUME NEW a \in Int, NEW b \in Int, NEW c \in Nat \ {0}, a * c <= c * b
  PROVE  a <= b
<1>1. ASSUME b < a
      PROVE  FALSE
  <2>1. PICK d \in Nat \ {0} : a = b + d
    BY <1>1
  <2>2. (b + d) * c = c * b + c * d /\ c * d \in Nat \ {0} /\ c * b \in Int
    OBVIOUS
  <2> QED
    BY <2>1, <2>2
<1> QED
  BY <1>1

(* A rate that every box of S keeps to bounds the sum over S. *)
LEMMA RateFits ==
  \A s \in Shapes : \A S \in SUBSET BoxesOf(s) : \A e \in Nat :
    (\A i \in S : e <= Slots * s.box[i].rate)
      => e * SumFunctionOnSet(WidthOf(s), S) <= Slots * SumFunctionOnSet(LoOf(s), S)
<1> SUFFICES ASSUME NEW s \in Shapes, NEW S \in SUBSET BoxesOf(s), NEW e \in Nat,
                    \A i \in S : e <= Slots * s.box[i].rate
             PROVE  e * SumFunctionOnSet(WidthOf(s), S) <= Slots * SumFunctionOnSet(LoOf(s), S)
  OBVIOUS
<1> DEFINE D == BoxesOf(s)
           f == WidthOf(s)
           h == LoOf(s)
<1>1. f \in [D -> Int] /\ h \in [D -> Int] /\ IsFiniteSet(S)
  BY SumFacts
<1>2. Slots \in Int /\ Slots \in Nat
  BY NumberAssumption
<1>3. ASSUME NEW i \in S
      PROVE  e * f[i] <= Slots * h[i]
  <2>1. PICK r \in Nat : r = s.box[i].rate
    BY ShapeFacts
  <2>2. PICK w \in Nat : w = s.box[i].width
    BY ShapeFacts
  <2>3. f[i] = w /\ h[i] = r * w
    BY <2>1, <2>2 DEF WidthOf, LoOf, BoxesOf
  <2>4. e <= Slots * r /\ Slots * r \in Int
    BY <1>2, <2>1
  <2>5. e * w <= (Slots * r) * w
    BY <2>4, TimesMonotone
  <2>6. (Slots * r) * w = Slots * (r * w)
    BY <1>2
  <2> QED
    BY <2>3, <2>5, <2>6
<1>4. D = BoxesOf(s)
  OBVIOUS
<1> HIDE DEF f, h, D
<1>5. e * SumFunctionOnSet(f, S) <= Slots * SumFunctionOnSet(h, S)
  <2>1. S \in SUBSET D /\ e \in Int
    BY <1>4
  <2>2. \A i \in S : e * f[i] <= Slots * h[i]
    BY <1>3
  <2> QED
    BY <1>1, <1>2, <2>1, <2>2, SumScaled
<1> QED
  BY <1>5 DEF f, h

LEMMA SharesFit ==
  \A s \in Shapes : \A read \in SUBSET BoxesOf(s) : \A e \in Nat :
    (\A i \in BoxesOf(s) \ read : e <= Slots * s.box[i].rate)
      => \A h \in [Runs(Len(s.box), read) -> Int] :
           (\A g \in DOMAIN h : h[g] <= (e * SumFunctionOnSet(WidthOf(s), g)) \div Slots)
             => /\ SumFunction(h) \in Int
                /\ SumFunctionOnSet(LoOf(s), read) + SumFunction(h) <= s.distance
<1> SUFFICES ASSUME NEW s \in Shapes, NEW read \in SUBSET BoxesOf(s), NEW e \in Nat,
                    \A i \in BoxesOf(s) \ read : e <= Slots * s.box[i].rate,
                    NEW h \in [Runs(Len(s.box), read) -> Int],
                    \A g \in DOMAIN h : h[g] <= (e * SumFunctionOnSet(WidthOf(s), g)) \div Slots
             PROVE  /\ SumFunction(h) \in Int
                    /\ SumFunctionOnSet(LoOf(s), read) + SumFunction(h) <= s.distance
  OBVIOUS
<1> DEFINE D == BoxesOf(s)
           f == LoOf(s)
           G == Runs(Len(s.box), read)
<1>0. PICK n \in Nat : n = Len(s.box)
  BY ShapeFacts
<1>1. Len(s.box) \in Nat /\ D = 1 .. Len(s.box) /\ IsFiniteSet(D)
  BY ShapeFacts
<1>2. f \in [D -> Int]
  BY SumFacts
<1>3. \A g \in G : g \in SUBSET D /\ g \cap read = {}
  <2>1. ASSUME NEW g \in G
        PROVE  g \in SUBSET D /\ g \cap read = {}
    <3>0. g \in Runs(n, read)
      BY <1>0, <2>1
    <3>1. PICK a \in 1 .. n, b \in 1 .. n : g = a .. b /\ a <= b /\ g \cap read = {}
      BY <3>0, RunIs
    <3>2. a .. b \subseteq 1 .. n
      OBVIOUS
    <3> QED
      BY <1>0, <1>1, <3>1, <3>2
  <2> QED
    BY <2>1
<1>4. G \subseteq SUBSET D
  BY <1>3
<1>5. IsFiniteSet(G)
  <2>1. IsFiniteSet(SUBSET D)
    <3> HIDE DEF D
    <3> QED
      BY <1>1, FS_SUBSET
  <2> HIDE DEF D, G
  <2> QED
    BY <1>4, <2>1, FS_Subset
<1>6. \A a, b \in G : a # b => a \cap b = {}
  <2>1. ASSUME NEW a \in G, NEW b \in G, NEW x, x \in a, x \in b
        PROVE  a = b
    <3>1. read \in SUBSET (1 .. n) /\ a \in Runs(n, read) /\ b \in Runs(n, read)
      BY <1>0, <1>1, <2>1
    <3> QED
      BY <2>1, <3>1, RunsApart
  <2> QED
    BY <2>1
<1>7. ASSUME NEW g \in G
      PROVE  h[g] <= SumFunctionOnSet(f, g)
  <2>1. g \in SUBSET D /\ \A i \in g : e <= Slots * s.box[i].rate
    BY <1>3
  <2>2. e * SumFunctionOnSet(WidthOf(s), g) <= Slots * SumFunctionOnSet(LoOf(s), g)
    BY <2>1, RateFits
  <2>3. PICK w \in Nat : w = SumFunctionOnSet(WidthOf(s), g)
    BY <2>1, SumFacts
  <2>4. PICK l \in Nat : l = SumFunctionOnSet(LoOf(s), g)
    BY <2>1, SumFacts
  <2>5. e * w <= Slots * l /\ e * w \in Int
    BY <2>2, <2>3, <2>4
  <2>6. (e * w) \div Slots <= l /\ (e * w) \div Slots \in Int
    <3>1. PICK a \in Int : a = e * w
      BY <2>5
    <3>2. a <= Slots * l /\ Slots \in Nat \ {0} /\ l \in Int
      BY <2>5, <3>1, NumberAssumption
    <3>3. a \div Slots <= l /\ a \div Slots \in Int
      BY <3>2, DivideOut
    <3> QED
      BY <3>1, <3>3, Zenon
  <2>7. h[g] <= (e * w) \div Slots /\ h[g] \in Int
    BY <2>3
  <2> QED
    BY <2>4, <2>6, <2>7
<1>8. D \in SUBSET BoxesOf(s) /\ read \in SUBSET D
  OBVIOUS
<1>9. h \in [G -> Int] /\ DOMAIN h = G
  OBVIOUS
<1>10. SumFunction(h) = SumFunctionOnSet(h, G)
  BY <1>9 DEF SumFunction
<1>11. \A S \in SUBSET D : /\ IsFiniteSet(S) /\ SumFunctionOnSet(f, S) \in Nat
                           /\ SumFunctionOnSet(f, S) <= s.distance
  BY SumFacts
<1>12. s.distance \in Nat
  BY ShapeFacts
<1> HIDE DEF D, f, G
<1>13. /\ SumFunctionOnSet(h, G) \in Int /\ SumFunctionOnSet(f, UNION G) \in Int
       /\ SumFunctionOnSet(h, G) <= SumFunctionOnSet(f, UNION G)
  <2>1. Apart(G) /\ EachWithin(h, f, G) /\ G \in SUBSET SUBSET D
    BY <1>4, <1>6, <1>7 DEF Apart, EachWithin
  <2>2. IsFiniteSet(D)
    BY <1>1
  <2>3. h \in [G -> Int]
    BY <1>9
  <2> QED
    BY <1>2, <1>5, <2>1, <2>2, <2>3, SumOfParts, Zenon
<1>14. PICK U : U = UNION G
  OBVIOUS
<1>15. U \in SUBSET D /\ read \cap U = {} /\ read \cup U \in SUBSET D
  BY <1>3, <1>8, <1>14
<1>16. SumFunctionOnSet(f, read \cup U) = SumFunctionOnSet(f, read) + SumFunctionOnSet(f, U)
  BY <1>2, <1>8, <1>11, <1>15, SumSplit
<1>17. SumFunctionOnSet(f, read \cup U) <= s.distance
  BY <1>11, <1>15
<1>18. SumFunctionOnSet(f, read) \in Nat /\ SumFunctionOnSet(f, U) \in Nat
  BY <1>8, <1>11, <1>15
<1>19. SumFunctionOnSet(f, read) + SumFunctionOnSet(h, G) <= s.distance
  BY <1>12, <1>13, <1>14, <1>16, <1>17, <1>18
<1> QED
  BY <1>10, <1>13, <1>19 DEF f

(* A trajectory none of whose boxes has been read is no nearer than the    *)
(* nearest node left.                                                      *)
LEMMA UnreadFar ==
  \A s \in Shapes : \A e \in Nat : \A x \in Nat :
    (x <= s.distance /\ \A i \in BoxesOf(s) : e = 0 \/ e + x <= Slots * s.box[i].rate)
      => e + x <= s.distance
<1> SUFFICES ASSUME NEW s \in Shapes, NEW e \in Nat, NEW x \in Nat, x <= s.distance,
                    \A i \in BoxesOf(s) : e = 0 \/ e + x <= Slots * s.box[i].rate
             PROVE  e + x <= s.distance
  OBVIOUS
<1>0. SUFFICES ASSUME e # 0
               PROVE  e + x <= s.distance
  BY ShapeFacts
<1>1. PICK y \in Nat : y = e + x
  OBVIOUS
<1>2. BoxesOf(s) \in SUBSET BoxesOf(s) /\ \A i \in BoxesOf(s) : y <= Slots * s.box[i].rate
  BY <1>0, <1>1
<1>3. y * SumFunctionOnSet(WidthOf(s), BoxesOf(s)) <= Slots * SumFunctionOnSet(LoOf(s), BoxesOf(s))
  BY <1>2, RateFits
<1>4. SumFunctionOnSet(WidthOf(s), BoxesOf(s)) = Slots
  BY SumFacts
<1>5. PICK l \in Nat : l = SumFunctionOnSet(LoOf(s), BoxesOf(s)) /\ l <= s.distance
  BY <1>2, SumFacts
<1>6. y * Slots <= Slots * l
  BY <1>3, <1>4, <1>5
<1>7. y <= l
  BY <1>6, NumberAssumption, CancelFactor
<1>8. s.distance \in Nat
  BY ShapeFacts
<1> QED
  BY <1>1, <1>5, <1>7, <1>8

-----------------------------------------------------------------------------
(* The links lead from any box that was read to all others.                *)
LEMMA LinksReachAll ==
  ASSUME Kinds, NEW t \in Traj, UpToDate(t), parts[t] # {}
  PROVE  missing[t] = {} <=> parts[t] = Boxes(t)
<1>1. world[t] \in Shapes /\ Boxes(t) = BoxesOf(world[t])
  BY WorldFacts
<1>2. PICK n \in Nat : n = Len(world[t].box) /\ Boxes(t) = 1 .. n
  BY <1>1, ShapeFacts
<1>3. parts[t] = BoxesRead(t) /\ missing[t] = Linked(t) \ loaded
  BY DEF UpToDate
<1>4. parts[t] \in SUBSET (1 .. n)
  BY <1>2 DEF Kinds
<1>5. ASSUME parts[t] = Boxes(t)
      PROVE  missing[t] = {}
  <2>1. \A i \in Boxes(t) : world[t].box[i].leaf \in loaded
    BY <1>3, <1>5 DEF BoxesRead
  <2>2. Linked(t) \subseteq loaded
    BY <2>1 DEF Linked, Neighbours
  <2> QED
    BY <1>3, <2>2
<1>6. ASSUME parts[t] # Boxes(t)
      PROVE  missing[t] # {}
  <2>1. PICK x \in (1 .. n) \ parts[t] : TRUE
    BY <1>2, <1>4, <1>6
  <2>2. PICK g \in Runs(n, parts[t]) : x \in g
    BY <1>4, <2>1, InSomeRun
  <2>3. PICK a \in 1 .. n, b \in 1 .. n :
           /\ g = a .. b /\ a <= b /\ g \cap parts[t] = {}
           /\ a = 1 \/ a - 1 \in parts[t]
           /\ b = n \/ b + 1 \in parts[t]
    BY RunIs
  <2>4. PICK i \in parts[t] : TRUE
    OBVIOUS
  <2>5. ASSUME NEW p \in parts[t], NEW q \in 1 .. n, q \in {p - 1, p + 1}, q \notin parts[t]
        PROVE  missing[t] # {}
    <3>1. world[t].box[q].leaf \in Linked(t)
      BY <1>2, <2>5 DEF Linked, Neighbours
    <3>2. world[t].box[q].leaf \notin loaded
      BY <1>2, <1>3, <2>5 DEF BoxesRead
    <3> QED
      BY <1>3, <3>1, <3>2
  <2>6. CASE a - 1 \in parts[t]
    <3>1. a \in {(a - 1) - 1, (a - 1) + 1} /\ a \notin parts[t]
      BY <2>3
    <3> QED
      BY <2>5, <2>6, <3>1
  <2>7. CASE b + 1 \in parts[t]
    <3>1. b \in {(b + 1) - 1, (b + 1) + 1} /\ b \notin parts[t]
      BY <2>3
    <3> QED
      BY <2>5, <2>7, <3>1
  <2>8. ~ (a = 1 /\ b = n)
    BY <1>4, <2>3, <2>4
  <2> QED
    BY <2>3, <2>6, <2>7, <2>8
<1> QED
  BY <1>5, <1>6

(* Whatever is unread lies under a node that waits. *)
LEMMA NoNodeAllRead ==
  ASSUME Kinds, Covered, NEW t \in Traj, parts[t] = BoxesRead(t), DOMAIN nodespq = {}
  PROVE  parts[t] = Boxes(t)
<1>1. world[t] \in Shapes /\ Boxes(t) = BoxesOf(world[t])
  BY WorldFacts
<1>2. ASSUME NEW i \in Boxes(t)
      PROVE  i \in BoxesRead(t)
  <2>1. world[t].box[i].leaf \in Leaf
    BY <1>1, ShapeFacts
  <2>2. i \in BoxesIn(t, world[t].box[i].leaf)
    BY DEF BoxesIn
  <2> QED
    BY <2>1, <2>2 DEF Covered, BoxesRead
<1> QED
  BY <1>2 DEF BoxesRead

LEMMA GapsAreRuns ==
  ASSUME Kinds, NEW t \in Traj, NEW read
  PROVE  Gaps(t, read) = Runs(Len(world[t].box), read)
<1>1. Boxes(t) = 1 .. Len(world[t].box)
  BY WorldFacts, ShapeFacts
<1> QED
  BY <1>1 DEF Gaps, Runs

(* updateValue's bounds bracket the distance, if the boxes read are all    *)
(* those of the leaves read.                                               *)
LEMMA GapSum ==
  ASSUME Kinds, Covered, NEW t \in Traj, parts[t] = BoxesRead(t), DOMAIN nodespq # {}
  PROVE  LET h == [g \in Gaps(t, parts[t]) |-> GapBound(t, g, nodespq)]
         IN  /\ SumFunction(h) \in Int
             /\ SumLo(t, parts[t]) + SumFunction(h) <= world[t].distance
<1> DEFINE h == [g \in Gaps(t, parts[t]) |-> GapBound(t, g, nodespq)]
<1>1. world[t] \in Shapes /\ Boxes(t) = BoxesOf(world[t]) /\ Excess(t) \in Nat
  BY WorldFacts
<1>2. PICK s \in Shapes : s = world[t]
  BY <1>1
<1>3. PICK e \in Nat : e = NodeTop(nodespq).opt
  BY TopIsLow
<1>4. PICK read \in SUBSET BoxesOf(s) : read = parts[t]
  BY <1>1, <1>2 DEF Kinds
<1>5. \A i \in BoxesOf(s) \ read : e <= Slots * s.box[i].rate
  <2>1. ASSUME NEW i \in BoxesOf(s) \ read
        PROVE  e <= Slots * s.box[i].rate
    <3>1. i \in Boxes(t) \ BoxesRead(t)
      BY <1>1, <1>2, <1>4
    <3>2. e = 0 \/ e + Excess(t) <= Slots * s.box[i].rate
      BY <1>2, <1>3, <3>1, TopIsLow
    <3>3. Slots * s.box[i].rate \in Nat
      BY ShapeFacts, NumberAssumption
    <3> QED
      BY <1>1, <3>2, <3>3
  <2> QED
    BY <2>1
<1>6. Gaps(t, parts[t]) = Runs(Len(s.box), read)
  BY <1>2, <1>4, GapsAreRuns
<1>7. ASSUME NEW g \in Runs(Len(s.box), read)
      PROVE  /\ GapBound(t, g, nodespq) \in Int
             /\ GapBound(t, g, nodespq) <= (e * SumFunctionOnSet(WidthOf(s), g)) \div Slots
  <2>1. g \in SUBSET BoxesOf(s)
    <3>1. PICK n \in Nat : n = Len(s.box) /\ BoxesOf(s) = 1 .. n
      BY ShapeFacts
    <3>2. PICK a \in 1 .. n, b \in 1 .. n : g = a .. b
      BY <3>1, RunIs
    <3> QED
      BY <3>1, <3>2
  <2>2. PICK w \in Nat : w = SumFunctionOnSet(WidthOf(s), g)
    BY <2>1, SumFacts
  <2>3. PICK v \in Int : v = (e * w) \div Slots
    BY NumberAssumption
  <2>4. Share(t, g, nodespq) = v
    BY <1>2, <1>3, <2>2, <2>3 DEF Share, Width
  <2>5. world[t].reach \in Int
    BY <1>1, ShapeFacts
  <2>6. GapBound(t, g, nodespq) = v \/ GapBound(t, g, nodespq) = Min({world[t].reach, v})
    BY <2>4 DEF GapBound
  <2>7. Min({world[t].reach, v}) \in Int /\ Min({world[t].reach, v}) <= v
    BY <2>3, <2>5, MinOfTwo
  <2>8. GapBound(t, g, nodespq) \in Int /\ GapBound(t, g, nodespq) <= v
    BY <2>3, <2>6, <2>7
  <2> QED
    BY <2>2, <2>3, <2>8
<1>8. h \in [Runs(Len(s.box), read) -> Int]
  BY <1>6, <1>7
<1>9. \A g \in DOMAIN h : h[g] <= (e * SumFunctionOnSet(WidthOf(s), g)) \div Slots
  BY <1>6, <1>7
<1>10. SumLo(t, parts[t]) = SumFunctionOnSet(LoOf(s), read)
  BY <1>2, <1>4 DEF SumLo
<1> HIDE DEF h
<1>11. PICK f \in [Runs(Len(s.box), read) -> Int] : f = h
  BY <1>8
<1>12. /\ SumFunction(f) \in Int
       /\ SumFunctionOnSet(LoOf(s), read) + SumFunction(f) <= s.distance
  BY <1>5, <1>9, <1>11, SharesFit
<1> QED
  BY <1>2, <1>10, <1>11, <1>12 DEF h

LEMMA BoundIsRight ==
  ASSUME Kinds, Covered, NEW t \in Traj, UpToDate(t), parts[t] # {}
  PROVE  LET b == Bound(t, parts[t], missing[t], nodespq)
         IN  /\ b.opt \in Int /\ b.pes \in Int /\ b.infer \in BOOLEAN
             /\ b.opt <= Distance[t] /\ Distance[t] <= b.pes
             /\ ~b.infer => parts[t] = Boxes(t)
<1> DEFINE b == Bound(t, parts[t], missing[t], nodespq)
           gaps == IF nodespq = <<>> THEN {} ELSE Gaps(t, parts[t])
           h == [g \in gaps |-> GapBound(t, g, nodespq)]
<1>1. /\ world[t] \in Shapes /\ Boxes(t) = BoxesOf(world[t])
      /\ Excess(t) \in Nat /\ Excess(t) <= world[t].distance
      /\ Distance[t] = world[t].distance - Excess(t) /\ Distance[t] \in Nat /\ Distance[t] < Huge
      /\ Error \in Nat /\ Excess(t) <= Error
  BY WorldFacts
<1>2. world[t].distance \in Nat
  BY <1>1, ShapeFacts
<1>3. parts[t] \in SUBSET BoxesOf(world[t]) /\ parts[t] = BoxesRead(t)
  BY <1>1 DEF Kinds, UpToDate
<1>4. nodespq = <<>> <=> DOMAIN nodespq = {}
  BY EmptyQueue DEF Kinds
<1>5. PICK lo \in Nat : lo = SumLo(t, parts[t]) /\ lo <= world[t].distance
  BY <1>1, <1>3, SumFacts DEF SumLo
<1>6. gaps = {} => parts[t] = Boxes(t)
  <2>1. CASE DOMAIN nodespq = {}
    BY <1>3, <2>1, NoNodeAllRead
  <2>2. CASE DOMAIN nodespq # {} /\ Gaps(t, parts[t]) = {}
    <3>1. PICK n \in Nat : n = Len(world[t].box) /\ Boxes(t) = 1 .. n
      BY <1>1, ShapeFacts
    <3>2. Runs(n, parts[t]) = {}
      BY <2>2, <3>1, GapsAreRuns
    <3>3. parts[t] \in SUBSET (1 .. n)
      BY <1>1, <1>3, <3>1
    <3>4. \A x \in 1 .. n : x \in parts[t]
      BY <3>2, <3>3, InSomeRun
    <3> QED
      BY <3>1, <3>3, <3>4
  <2> QED
    BY <1>4, <2>1, <2>2
<1>7. PICK hi \in Nat : hi = SumHi(t, parts[t])
  BY <1>1, <1>3, SumFacts DEF SumHi
<1>8. gaps = {} => world[t].distance <= hi
  <2>1. world[t].distance <= SumFunctionOnSet(HiOf(world[t]), BoxesOf(world[t]))
    BY <1>1, SumFacts
  <2> QED
    BY <1>1, <1>6, <1>7, <2>1 DEF SumHi
<1>9. PICK add \in Int : add = SumFunction(h) /\ lo + add <= world[t].distance
  <2>1. CASE gaps = {}
    <3>1. h = [g \in {} |-> GapBound(t, g, nodespq)]
      BY <2>1
    <3>2. DOMAIN h = {} /\ h \in [{} -> Int]
      BY <3>1
    <3> HIDE DEF h
    <3>3. SumFunctionOnSet(h, {}) = 0
      <4>1. {} \in SUBSET {} /\ IsFiniteSet({})
        BY FS_EmptySet
      <4>2. PICK D : D = {}
        OBVIOUS
      <4>3. h \in [D -> Int] /\ D \in SUBSET D /\ IsFiniteSet(D)
        BY <3>2, <4>1, <4>2
      <4>4. SumFunctionOnSet(h, D) = 0
        BY <4>2, <4>3, SumStep
      <4> QED
        BY <4>2, <4>4, Zenon
    <3>4. SumFunction(h) = 0
      BY <3>2, <3>3, Zenon DEF SumFunction
    <3> QED
      BY <1>5, <3>4
  <2>2. CASE gaps # {}
    <3>1. DOMAIN nodespq # {} /\ gaps = Gaps(t, parts[t])
      BY <1>4, <2>2
    <3>2. h = [g \in Gaps(t, parts[t]) |-> GapBound(t, g, nodespq)]
      BY <3>1
    <3>3. /\ SumFunction(h) \in Int
          /\ SumLo(t, parts[t]) + SumFunction(h) <= world[t].distance
      <4> HIDE DEF h, gaps
      <4> QED
        BY <1>3, <3>1, <3>2, GapSum
    <3> QED
      BY <1>5, <3>3
  <2> QED
    BY <2>1, <2>2
<1>10. gaps # {} => Huge * Cardinality(gaps) \in Nat /\ Huge <= Huge * Cardinality(gaps)
  <2>1. SUFFICES ASSUME gaps # {}
                 PROVE  Huge * Cardinality(gaps) \in Nat /\ Huge <= Huge * Cardinality(gaps)
    OBVIOUS
  <2>2. PICK n \in Nat : n = Len(world[t].box)
    BY <1>1, ShapeFacts
  <2>3. gaps = Runs(n, parts[t])
    BY <2>1, <2>2, GapsAreRuns
  <2>4. gaps \subseteq SUBSET (1 .. n)
    <3>1. ASSUME NEW g \in Runs(n, parts[t])
          PROVE  g \in SUBSET (1 .. n)
      <4>1. PICK a \in 1 .. n, c \in 1 .. n : g = a .. c
        BY RunIs
      <4> QED
        BY <4>1
    <3> QED
      BY <2>3, <3>1
  <2>5. IsFiniteSet(SUBSET (1 .. n))
    <3>1. PICK D : D = 1 .. n
      OBVIOUS
    <3>2. IsFiniteSet(D)
      BY <3>1, FS_Interval
    <3>3. IsFiniteSet(SUBSET D)
      BY <3>2, FS_SUBSET
    <3> QED
      BY <3>1, <3>3
  <2> HIDE DEF gaps
  <2>6. IsFiniteSet(gaps)
    BY <2>4, <2>5, FS_Subset
  <2>7. PICK c \in Nat \ {0} : c = Cardinality(gaps)
    BY <2>1, <2>6, FS_CardinalityType, FS_EmptySet
  <2>8. Huge * c \in Nat /\ Huge <= Huge * c
    <3>1. PICK d \in Nat : c = d + 1
      <4>1. c - 1 \in Nat /\ c = (c - 1) + 1
        OBVIOUS
      <4> QED
        BY <4>1
    <3>2. Huge * (d + 1) = Huge * d + Huge /\ Huge * d \in Nat
      BY NumberAssumption
    <3> QED
      BY <3>1, <3>2, NumberAssumption
  <2> QED
    BY <2>7, <2>8
<1>11. Huge \in Nat
  BY NumberAssumption
<1>12. CASE missing[t] = {} /\ query.measure = "RMDTW"
  <2>1. parts[t] = Boxes(t)
    BY <1>12, LinksReachAll
  <2>2. world[t].distance <= SumFunctionOnSet(HiOf(world[t]), BoxesOf(world[t]))
    BY <1>1, SumFacts
  <2>3. PICK slack \in Nat : slack = Slack(t)
    <3>1. Slack(t) = hi - lo /\ lo <= world[t].distance /\ world[t].distance <= hi
      BY <1>1, <1>5, <1>7, <2>1, <2>2 DEF Slack, SumHi
    <3> QED
      BY <1>2, <3>1
  <2>4. b = [opt |-> world[t].distance - slack, pes |-> world[t].distance + slack, infer |-> FALSE]
    BY <1>12, <2>3 DEF Bound
  <2>5. Excess(t) = 0
    BY <1>12 DEF Excess
  <2> HIDE DEF b
  <2> QED
    BY <1>1, <1>2, <2>1, <2>4, <2>5 DEF b
<1>13. CASE ~ (missing[t] = {} /\ query.measure = "RMDTW")
  <2>1. PICK pes1 : pes1 = IF gaps = {} THEN SumHi(t, parts[t]) + Error ELSE Huge * Cardinality(gaps)
    OBVIOUS
  <2>2. b = [opt |-> SumLo(t, parts[t]) + SumFunction(h) - Error, pes |-> pes1, infer |-> gaps # {}]
    BY <1>13, <2>1 DEF Bound
  <2>3. pes1 \in Int /\ Distance[t] <= pes1
    <3> HIDE DEF gaps, h, b
    <3>1. CASE gaps = {}
      BY <1>1, <1>2, <1>7, <1>8, <2>1, <3>1
    <3>2. CASE gaps # {}
      <4>1. PICK c \in Nat : c = Huge * Cardinality(gaps) /\ Huge <= c
        BY <1>10, <3>2
      <4> QED
        BY <1>1, <1>11, <2>1, <3>2, <4>1
    <3> QED
      BY <3>1, <3>2
  <2>4. SumLo(t, parts[t]) + SumFunction(h) - Error = lo + add - Error
    BY <1>5, <1>9
  <2>5. lo + add - Error \in Int /\ lo + add - Error <= Distance[t]
    BY <1>1, <1>2, <1>5, <1>9
  <2>6. b = [opt |-> lo + add - Error, pes |-> pes1, infer |-> gaps # {}]
    BY <2>2, <2>4
  <2> HIDE DEF gaps, h, b
  <2>7. b.opt = lo + add - Error /\ b.pes = pes1 /\ b.infer = (gaps # {})
    BY <2>6
  <2>8. b.infer \in BOOLEAN /\ (~b.infer => parts[t] = Boxes(t))
    BY <1>6, <2>7
  <2> QED
    BY <2>3, <2>5, <2>7, <2>8 DEF b
<1> QED
  BY <1>12, <1>13

-----------------------------------------------------------------------------
(* m_pes keeps its order, one entry for an id, and its length.             *)
LEMMA RemoveAtIs ==
  ASSUME NEW S, NEW q \in Seq(S), NEW m \in 1 .. Len(q)
  PROVE  /\ RemoveAt(q, m) \in Seq(S) /\ Len(RemoveAt(q, m)) = Len(q) - 1
         /\ \A i \in 1 .. Len(q) - 1 : RemoveAt(q, m)[i] = q[IF i < m THEN i ELSE i + 1]
<1> DEFINE a == SubSeq(q, 1, m - 1)
           b == SubSeq(q, m + 1, Len(q))
<1>1. Len(q) \in Nat /\ DOMAIN q = 1 .. Len(q) /\ \A i \in 1 .. Len(q) : q[i] \in S
  BY LenProperties, ElementOfSeq
<1>2. a \in Seq(S) /\ Len(a) = m - 1 /\ \A i \in 1 .. m - 1 : a[i] = q[i]
  <2>1. 1 \in Int /\ m - 1 \in Int /\ \A i \in 1 .. m - 1 : q[i] \in S
    BY <1>1
  <2>2. /\ a \in Seq(S) /\ Len(a) = IF 1 <= m - 1 THEN (m - 1) - 1 + 1 ELSE 0
        /\ \A i \in 1 .. (m - 1) - 1 + 1 : a[i] = q[1 + i - 1]
    BY <2>1, SubSeqProperties
  <2> HIDE DEF a
  <2> QED
    BY <1>1, <2>2
<1>3. b \in Seq(S) /\ Len(b) = Len(q) - m /\ \A i \in 1 .. Len(q) - m : b[i] = q[m + i]
  <2>1. m + 1 \in Int /\ Len(q) \in Int /\ \A i \in m + 1 .. Len(q) : q[i] \in S
    BY <1>1
  <2>2. /\ b \in Seq(S) /\ Len(b) = IF m + 1 <= Len(q) THEN Len(q) - (m + 1) + 1 ELSE 0
        /\ \A i \in 1 .. Len(q) - (m + 1) + 1 : b[i] = q[(m + 1) + i - 1]
    BY <2>1, SubSeqProperties
  <2> HIDE DEF b
  <2>3. ASSUME NEW i \in 1 .. Len(q) - m
        PROVE  b[i] = q[m + i]
    <3>1. i \in 1 .. Len(q) - (m + 1) + 1 /\ (m + 1) + i - 1 = m + i
      BY <1>1
    <3> QED
      BY <2>2, <3>1
  <2>4. Len(b) = Len(q) - m
    <3>1. PICK z \in Nat : z = Len(q)
      BY <1>1
    <3>2. Len(b) = IF m + 1 <= z THEN z - (m + 1) + 1 ELSE 0
      BY <2>2, <3>1
    <3>3. m \in 1 .. z
      BY <3>1
    <3> QED
      BY <3>1, <3>2, <3>3
  <2> QED
    BY <2>2, <2>3, <2>4
<1>4. RemoveAt(q, m) = a \o b
  BY DEF RemoveAt
<1> HIDE DEF a, b
<1>5. /\ a \o b \in Seq(S) /\ Len(a \o b) = Len(a) + Len(b)
      /\ \A i \in 1 .. Len(a) + Len(b) : (a \o b)[i] = IF i <= Len(a) THEN a[i] ELSE b[i - Len(a)]
  BY <1>2, <1>3, ConcatProperties
<1>6. Len(a) + Len(b) = Len(q) - 1
  BY <1>1, <1>2, <1>3
<1>7. ASSUME NEW i \in 1 .. Len(q) - 1
      PROVE  (a \o b)[i] = q[IF i < m THEN i ELSE i + 1]
  <2>1. (a \o b)[i] = IF i <= Len(a) THEN a[i] ELSE b[i - Len(a)]
    BY <1>5, <1>6
  <2>2. CASE i < m
    BY <1>1, <1>2, <2>1, <2>2
  <2>3. CASE ~ (i < m)
    <3>1. ~ (i <= Len(a)) /\ i - Len(a) \in 1 .. Len(q) - m /\ m + (i - Len(a)) = i + 1
      BY <1>1, <1>2, <2>3
    <3> QED
      BY <1>3, <2>1, <2>3, <3>1
  <2> QED
    BY <2>2, <2>3
<1> QED
  BY <1>4, <1>5, <1>6, <1>7

LEMMA InsertAtIs ==
  ASSUME NEW S, NEW q \in Seq(S), NEW m \in 1 .. Len(q) + 1, NEW e \in S
  PROVE  /\ InsertAt(q, m, e) \in Seq(S) /\ Len(InsertAt(q, m, e)) = Len(q) + 1
         /\ \A i \in 1 .. Len(q) + 1 :
              InsertAt(q, m, e)[i] = IF i < m THEN q[i] ELSE IF i = m THEN e ELSE q[i - 1]
<1> DEFINE a == SubSeq(q, 1, m - 1)
           b == SubSeq(q, m, Len(q))
           c == a \o <<e>>
<1>1. Len(q) \in Nat /\ DOMAIN q = 1 .. Len(q) /\ \A i \in 1 .. Len(q) : q[i] \in S
  BY LenProperties, ElementOfSeq
<1>2. a \in Seq(S) /\ Len(a) = m - 1 /\ \A i \in 1 .. m - 1 : a[i] = q[i]
  <2>1. 1 \in Int /\ m - 1 \in Int /\ \A i \in 1 .. m - 1 : q[i] \in S
    BY <1>1
  <2>2. /\ a \in Seq(S) /\ Len(a) = IF 1 <= m - 1 THEN (m - 1) - 1 + 1 ELSE 0
        /\ \A i \in 1 .. (m - 1) - 1 + 1 : a[i] = q[1 + i - 1]
    BY <2>1, SubSeqProperties
  <2> HIDE DEF a
  <2> QED
    BY <1>1, <2>2
<1>3. b \in Seq(S) /\ Len(b) = Len(q) - m + 1 /\ \A i \in 1 .. Len(q) - m + 1 : b[i] = q[m + i - 1]
  <2>1. m \in Int /\ Len(q) \in Int /\ \A i \in m .. Len(q) : q[i] \in S
    BY <1>1
  <2>2. /\ b \in Seq(S) /\ Len(b) = IF m <= Len(q) THEN Len(q) - m + 1 ELSE 0
        /\ \A i \in 1 .. Len(q) - m + 1 : b[i] = q[m + i - 1]
    BY <2>1, SubSeqProperties
  <2> HIDE DEF b
  <2> QED
    BY <1>1, <2>2
<1>4. InsertAt(q, m, e) = c \o b
  BY DEF InsertAt
<1>5. <<e>> \in Seq(S) /\ Len(<<e>>) = 1 /\ <<e>>[1] = e
  OBVIOUS
<1> HIDE DEF a, b
<1>6. /\ c \in Seq(S) /\ Len(c) = m
      /\ \A i \in 1 .. m : c[i] = IF i <= m - 1 THEN a[i] ELSE <<e>>[i - (m - 1)]
  <2>1. /\ c \in Seq(S) /\ Len(c) = Len(a) + Len(<<e>>)
        /\ \A i \in 1 .. Len(a) + Len(<<e>>) : c[i] = IF i <= Len(a) THEN a[i] ELSE <<e>>[i - Len(a)]
    BY <1>2, <1>5, ConcatProperties
  <2>2. Len(a) + Len(<<e>>) = m
    BY <1>1, <1>2, <1>5
  <2> HIDE DEF c
  <2> QED
    BY <1>2, <2>1, <2>2
<1>7. \A i \in 1 .. m : c[i] = IF i < m THEN q[i] ELSE e
  <2> HIDE DEF c
  <2> QED
    BY <1>1, <1>2, <1>5, <1>6
<1> HIDE DEF c
<1>8. /\ c \o b \in Seq(S) /\ Len(c \o b) = Len(c) + Len(b)
      /\ \A i \in 1 .. Len(c) + Len(b) : (c \o b)[i] = IF i <= Len(c) THEN c[i] ELSE b[i - Len(c)]
  BY <1>3, <1>6, ConcatProperties
<1>9. Len(c) + Len(b) = Len(q) + 1
  BY <1>1, <1>3, <1>6
<1>10. ASSUME NEW i \in 1 .. Len(q) + 1
       PROVE  (c \o b)[i] = IF i < m THEN q[i] ELSE IF i = m THEN e ELSE q[i - 1]
  <2>1. (c \o b)[i] = IF i <= Len(c) THEN c[i] ELSE b[i - Len(c)]
    BY <1>8, <1>9
  <2>2. CASE i <= m
    BY <1>6, <1>7, <2>1, <2>2
  <2>3. CASE ~ (i <= m)
    <3>1. i - Len(c) \in 1 .. Len(q) - m + 1 /\ m + (i - Len(c)) - 1 = i - 1
      BY <1>1, <1>6, <2>3
    <3>2. b[i - Len(c)] = q[i - 1]
      BY <1>3, <3>1
    <3> QED
      BY <1>6, <2>1, <2>3, <3>2
  <2> QED
    BY <2>2, <2>3
<1> QED
  BY <1>4, <1>8, <1>9, <1>10

InOrder(q) ==
  \A i, j \in 1 .. Len(q) : i < j => q[i].pes <= q[j].pes /\ q[i].id # q[j].id

LEMMA ErasedIs ==
  ASSUME NEW q \in Seq(Judged), InOrder(q), NEW id \in Traj
  PROVE  /\ Erased(q, id) \in Seq(Judged) /\ InOrder(Erased(q, id))
         /\ Len(Erased(q, id)) \in Len(q) - 1 .. Len(q)
         /\ \A i \in 1 .. Len(Erased(q, id)) :
              Erased(q, id)[i].id # id /\ \E j \in 1 .. Len(q) : Erased(q, id)[i] = q[j]
<1> DEFINE I == {i \in 1 .. Len(q) : q[i].id = id}
           rest == Erased(q, id)
<1>1. Len(q) \in Nat
  BY LenProperties
<1>2. CASE I = {}
  <2>1. rest = q
    BY <1>2 DEF Erased, RemoveFirstMatch
  <2>2. \A i \in 1 .. Len(q) : q[i].id # id
    BY <1>2
  <2> HIDE DEF rest
  <2> QED
    BY <1>1, <2>1, <2>2 DEF rest
<1>3. CASE I # {}
  <2>1. rest = RemoveAt(q, Min(I))
    BY <1>3 DEF Erased, RemoveFirstMatch, SelectInSeq
  <2>2. I \subseteq Nat
    BY <1>1
  <2>3. Min(I) \in I
    <3> HIDE DEF I
    <3> QED
      BY <1>3, <2>2, MinOfNats
  <2>4. PICK m \in 1 .. Len(q) : m = Min(I) /\ q[m].id = id
    BY <2>3
  <2> HIDE DEF rest, I
  <2>5. /\ rest \in Seq(Judged) /\ Len(rest) = Len(q) - 1
        /\ \A i \in 1 .. Len(q) - 1 : rest[i] = q[IF i < m THEN i ELSE i + 1]
    BY <2>1, <2>4, RemoveAtIs
  <2>6. ASSUME NEW i \in 1 .. Len(rest)
        PROVE  rest[i].id # id /\ \E j \in 1 .. Len(q) : rest[i] = q[j]
    <3>1. PICK j \in 1 .. Len(q) : j = (IF i < m THEN i ELSE i + 1) /\ j # m
      BY <1>1, <2>5
    <3>2. rest[i] = q[j]
      BY <2>5, <3>1
    <3>3. q[j].id # q[m].id
      BY <1>1, <3>1 DEF InOrder
    <3> QED
      BY <2>4, <3>2, <3>3
  <2>7. ASSUME NEW i \in 1 .. Len(rest), NEW l \in 1 .. Len(rest), i < l
        PROVE  rest[i].pes <= rest[l].pes /\ rest[i].id # rest[l].id
    <3>1. PICK j \in 1 .. Len(q) : j = (IF i < m THEN i ELSE i + 1)
      BY <1>1, <2>5
    <3>2. PICK n \in 1 .. Len(q) : n = (IF l < m THEN l ELSE l + 1)
      BY <1>1, <2>5
    <3>3. rest[i] = q[j] /\ rest[l] = q[n]
      BY <2>5, <3>1, <3>2
    <3>4. j < n
      BY <1>1, <2>5, <2>7, <3>1, <3>2
    <3> QED
      BY <3>3, <3>4 DEF InOrder
  <2>8. InOrder(rest)
    BY <2>7 DEF InOrder
  <2> QED
    BY <1>1, <2>5, <2>6, <2>8 DEF rest
<1> QED
  BY <1>2, <1>3

LEMMA PoppqInsertIs ==
  ASSUME Kinds, NEW q \in Seq(Judged), InOrder(q), Len(q) <= query.k, NEW id \in Traj, NEW p \in Int
  PROVE  /\ PoppqInsert(q, id, p) \in Seq(Judged) /\ InOrder(PoppqInsert(q, id, p))
         /\ Len(PoppqInsert(q, id, p)) <= query.k
         /\ \A i \in 1 .. Len(PoppqInsert(q, id, p)) :
              \/ PoppqInsert(q, id, p)[i] = [id |-> id, pes |-> p]
              \/ \E j \in 1 .. Len(q) : PoppqInsert(q, id, p)[i] = q[j]
<1> DEFINE rest == Erased(q, id)
           I == {i \in DOMAIN rest : p < rest[i].pes} \cup {Len(rest) + 1}
           e == [id |-> id, pes |-> p]
           longer == InsertAt(rest, Min(I), e)
           n == Min({query.k, Len(longer)})
           short == SubSeq(longer, 1, n)
<1>1. query.k \in Nat \ {0}
  BY NumberAssumption DEF Kinds
<1>2. /\ rest \in Seq(Judged) /\ InOrder(rest) /\ Len(rest) \in Len(q) - 1 .. Len(q)
      /\ \A i \in 1 .. Len(rest) : rest[i].id # id /\ \E j \in 1 .. Len(q) : rest[i] = q[j]
  <2> HIDE DEF rest
  <2> QED
    BY ErasedIs DEF rest
<1>3. Len(rest) \in Nat /\ DOMAIN rest = 1 .. Len(rest) /\ \A i \in 1 .. Len(rest) : rest[i] \in Judged
  <2> HIDE DEF rest
  <2> QED
    BY <1>2, LenProperties, ElementOfSeq
<1>4. e \in Judged /\ e.id = id /\ e.pes = p
  BY DEF Judged
<1> HIDE DEF rest, e
<1>5. I \subseteq Nat /\ I # {}
  BY <1>3
<1>6. Min(I) \in I /\ \A y \in I : Min(I) <= y
  <2> HIDE DEF I
  <2> QED
    BY <1>5, MinOfNats
<1>7. PICK m \in 1 .. Len(rest) + 1 :
        /\ m = Min(I)
        /\ m <= Len(rest) => p < rest[m].pes
        /\ \A i \in 1 .. Len(rest) : i < m => rest[i].pes <= p
  <2>1. PICK m : m = Min(I)
    OBVIOUS
  <2>2. m \in I /\ \A y \in I : m <= y
    BY <1>6, <2>1
  <2>3. m \in 1 .. Len(rest) + 1 /\ (m <= Len(rest) => p < rest[m].pes)
    BY <1>3, <2>2
  <2>4. ASSUME NEW i \in 1 .. Len(rest), i < m
        PROVE  rest[i].pes <= p
    <3>1. i \notin I
      BY <2>2, <2>3, <2>4
    <3>2. rest[i].pes \in Int
      BY <1>3 DEF Judged
    <3> QED
      BY <1>3, <3>1, <3>2
  <2> QED
    BY <2>1, <2>3, <2>4
<1> HIDE DEF I
<1>8. PICK z \in Nat : z = Len(rest)
  BY <1>3
<1>9. /\ longer \in Seq(Judged) /\ Len(longer) = z + 1
      /\ \A i \in 1 .. z + 1 :
            longer[i] = IF i < m THEN rest[i] ELSE IF i = m THEN e ELSE rest[i - 1]
  <2>1. longer = InsertAt(rest, m, e)
    BY <1>7, Zenon
  <2>2. rest \in Seq(Judged) /\ m \in 1 .. Len(rest) + 1
    BY <1>2
  <2> HIDE DEF longer
  <2>3. /\ InsertAt(rest, m, e) \in Seq(Judged) /\ Len(InsertAt(rest, m, e)) = Len(rest) + 1
        /\ \A i \in 1 .. Len(rest) + 1 :
             InsertAt(rest, m, e)[i] = IF i < m THEN rest[i] ELSE IF i = m THEN e ELSE rest[i - 1]
    BY <1>4, <2>2, InsertAtIs
  <2> QED
    BY <1>8, <2>1, <2>3, Zenon
<1> HIDE DEF longer
<1>10. m \in 1 .. z + 1
  BY <1>8
<1>11. /\ \A i \in 1 .. z + 1 : i < m => longer[i] = rest[i] /\ i \in 1 .. z
       /\ longer[m] = e
       /\ \A i \in 1 .. z + 1 : m < i => longer[i] = rest[i - 1] /\ i - 1 \in 1 .. z
  BY <1>9, <1>10
<1>12. ASSUME NEW i \in 1 .. Len(longer)
       PROVE  longer[i] = e \/ \E j \in 1 .. Len(q) : longer[i] = q[j]
  <2>0. i \in 1 .. z + 1 /\ (i < m \/ i = m \/ m < i)
    BY <1>9, <1>10
  <2>1. CASE i < m
    <3>1. longer[i] = rest[i] /\ i \in 1 .. Len(rest)
      BY <1>8, <1>11, <2>0, <2>1
    <3> QED
      BY <1>2, <3>1
  <2>2. CASE i = m
    BY <1>11, <2>2
  <2>3. CASE m < i
    <3>1. longer[i] = rest[i - 1] /\ i - 1 \in 1 .. Len(rest)
      BY <1>8, <1>11, <2>0, <2>3
    <3> QED
      BY <1>2, <3>1
  <2> QED
    BY <2>0, <2>1, <2>2, <2>3
<1>13. \A i, j \in 1 .. z : i < j => rest[i].pes <= rest[j].pes /\ rest[i].id # rest[j].id
  BY <1>2, <1>8 DEF InOrder
<1>14. \A i \in 1 .. z : rest[i].id # id /\ rest[i].pes \in Int
  BY <1>2, <1>3, <1>8 DEF Judged
<1>15. (m <= z => p < rest[m].pes) /\ \A i \in 1 .. z : i < m => rest[i].pes <= p
  BY <1>7, <1>8
<1>16. ASSUME NEW i \in 1 .. Len(longer), NEW j \in 1 .. Len(longer), i < j
       PROVE  longer[i].pes <= longer[j].pes /\ longer[i].id # longer[j].id
  <2>0. i \in 1 .. z + 1 /\ j \in 1 .. z + 1
    BY <1>9
  <2>1. CASE j < m
    <3>1. longer[i] = rest[i] /\ longer[j] = rest[j] /\ i \in 1 .. z /\ j \in 1 .. z
      BY <1>10, <1>11, <1>16, <2>0, <2>1
    <3> QED
      BY <1>13, <1>16, <3>1
  <2>2. CASE j = m
    <3>1. longer[i] = rest[i] /\ longer[j] = e /\ i \in 1 .. z /\ i < m
      BY <1>11, <1>16, <2>0, <2>2
    <3> QED
      BY <1>4, <1>14, <1>15, <3>1
  <2>3. CASE m < j /\ i < m
    <3>1. longer[i] = rest[i] /\ i \in 1 .. z
      BY <1>11, <2>0, <2>3
    <3>2. longer[j] = rest[j - 1] /\ j - 1 \in 1 .. z
      BY <1>11, <2>0, <2>3
    <3>3. i < j - 1
      BY <1>10, <2>0, <2>3
    <3> QED
      BY <1>13, <3>1, <3>2, <3>3
  <2>4. CASE m < j /\ i = m
    <3>1. longer[i] = e /\ longer[j] = rest[j - 1] /\ j - 1 \in 1 .. z
      BY <1>11, <2>0, <2>4
    <3>2. m \in 1 .. z /\ m <= j - 1
      BY <1>10, <2>0, <2>4
    <3>3. p < rest[m].pes /\ rest[m].pes \in Int /\ rest[j - 1].pes \in Int
      BY <1>14, <1>15, <3>1, <3>2
    <3>4. rest[m].pes <= rest[j - 1].pes
      <4>1. CASE m = j - 1
        BY <3>3, <4>1
      <4>2. CASE m < j - 1
        BY <1>13, <3>1, <3>2, <4>2
      <4> QED
        BY <2>0, <3>2, <4>1, <4>2
    <3> QED
      BY <1>4, <1>14, <3>1, <3>3, <3>4
  <2>5. CASE m < j /\ m < i
    <3>1. longer[i] = rest[i - 1] /\ i - 1 \in 1 .. z
      BY <1>11, <2>0, <2>5
    <3>2. longer[j] = rest[j - 1] /\ j - 1 \in 1 .. z
      BY <1>11, <2>0, <2>5
    <3>3. i - 1 < j - 1
      BY <1>16, <2>0
    <3> QED
      BY <1>13, <3>1, <3>2, <3>3
  <2> QED
    BY <1>10, <1>16, <2>0, <2>1, <2>2, <2>3, <2>4, <2>5
<1>17. n \in 1 .. Len(longer) /\ n <= query.k
  <2>1. Len(longer) \in Int /\ query.k \in Int
    BY <1>1, <1>9
  <2>2. n \in {query.k, Len(longer)} /\ n <= query.k /\ n <= Len(longer)
    BY <2>1, MinOfTwo
  <2> HIDE DEF n
  <2> QED
    BY <1>1, <1>9, <2>2
<1> HIDE DEF n
<1>18. short \in Seq(Judged) /\ Len(short) = n /\ \A i \in 1 .. n : short[i] = longer[i]
  <2>1. \A i \in 1 .. n : longer[i] \in Judged
    BY <1>9, <1>17, ElementOfSeq
  <2>2. n \in Int /\ 1 \in Int
    BY <1>17
  <2>3. /\ short \in Seq(Judged) /\ Len(short) = IF 1 <= n THEN n - 1 + 1 ELSE 0
        /\ \A i \in 1 .. n - 1 + 1 : short[i] = longer[1 + i - 1]
    BY <2>1, <2>2, SubSeqProperties
  <2> HIDE DEF short
  <2>4. Len(short) = n
    BY <1>17, <2>3
  <2>5. ASSUME NEW i \in 1 .. n
        PROVE  short[i] = longer[i]
    <3>1. i \in 1 .. n - 1 + 1 /\ 1 + i - 1 = i
      BY <1>17
    <3> QED
      BY <2>3, <3>1
  <2> QED
    BY <2>3, <2>4, <2>5
<1> HIDE DEF short
<1>19. InOrder(short)
  <2>1. ASSUME NEW i \in 1 .. n, NEW j \in 1 .. n, i < j
        PROVE  short[i].pes <= short[j].pes /\ short[i].id # short[j].id
    <3>1. i \in 1 .. Len(longer) /\ j \in 1 .. Len(longer)
      BY <1>9, <1>17
    <3> QED
      BY <1>16, <1>18, <2>1, <3>1
  <2> QED
    BY <1>18, <2>1 DEF InOrder
<1>20. ASSUME NEW i \in 1 .. Len(short)
       PROVE  short[i] = e \/ \E j \in 1 .. Len(q) : short[i] = q[j]
  <2>1. i \in 1 .. n /\ i \in 1 .. Len(longer)
    BY <1>9, <1>17, <1>18
  <2> QED
    BY <1>12, <1>18, <2>1
<1>21. PoppqInsert(q, id, p) = short \/ PoppqInsert(q, id, p) = q
  BY DEF PoppqInsert, short, n, longer, I, e, rest
<1>22. CASE PoppqInsert(q, id, p) = short
  BY <1>17, <1>18, <1>19, <1>20, <1>22 DEF e
<1>23. CASE PoppqInsert(q, id, p) = q
  BY <1>23
<1> QED
  BY <1>21, <1>22, <1>23

(* Distinct ids: as many trajectories as entries.                          *)
LEMMA AsManyAsEntries ==
  ASSUME NEW q \in Seq(Judged), InOrder(q), NEW S \in SUBSET Traj,
         \A i \in 1 .. Len(q) : q[i].id \in S
  PROVE  Len(q) <= Cardinality(S)
<1> DEFINE I == {q[i].id : i \in 1 .. Len(q)}
           at == [u \in I |-> CHOOSE i \in 1 .. Len(q) : q[i].id = u]
<1>0. IsFiniteSet(S)
  BY TrajAssumption, FS_Subset
<1>1. I \subseteq S /\ IsFiniteSet(S) /\ IsFiniteSet(I)
  <2>1. I \subseteq S
    OBVIOUS
  <2> HIDE DEF I
  <2> QED
    BY <1>0, <2>1, FS_Subset
<1>2. Cardinality(I) <= Cardinality(S) /\ Cardinality(I) \in Nat /\ Cardinality(S) \in Nat
  <2> HIDE DEF I
  <2> QED
    BY <1>1, FS_Subset, FS_CardinalityType
<1>3. Len(q) \in Nat
  BY LenProperties
<1>4. \A i \in 1 .. Len(q) : at[q[i].id] = i
  <2> SUFFICES ASSUME NEW i \in 1 .. Len(q)
               PROVE  at[q[i].id] = i
    OBVIOUS
  <2>1. at[q[i].id] \in 1 .. Len(q) /\ q[at[q[i].id]].id = q[i].id
    OBVIOUS
  <2> HIDE DEF at
  <2> QED
    BY <1>3, <2>1 DEF InOrder
<1>5. {at[u] : u \in I} = 1 .. Len(q)
  <2>1. \A u \in I : at[u] \in 1 .. Len(q)
    OBVIOUS
  <2>2. \A u \in I : \E i \in 1 .. Len(q) : u = q[i].id
    OBVIOUS
  <2>3. \A i \in 1 .. Len(q) : q[i].id \in I
    OBVIOUS
  <2> HIDE DEF at, I
  <2> QED
    BY <1>4, <2>1, <2>2, <2>3
<1>6. DOMAIN at = I
  OBVIOUS
<1>7. Cardinality(1 .. Len(q)) <= Cardinality(I)
  <2> HIDE DEF at, I
  <2> QED
    BY <1>1, <1>5, <1>6, ImageFinite
<1>8. Cardinality(1 .. Len(q)) = Len(q)
  BY <1>3, FS_Interval
<1> HIDE DEF I
<1> QED
  BY <1>2, <1>3, <1>7, <1>8

(* The end of updateValue keeps m_pes a list of upper bounds, and excepts  *)
(* only what is farther than k others.                                     *)
UpperBounds(q) == \A i \in 1 .. Len(q) : Distance[q[i].id] <= q[i].pes

LEMMA InsertKeepsBounds ==
  ASSUME Kinds, NEW q \in Seq(Judged), InOrder(q), Len(q) <= query.k, UpperBounds(q),
         NEW t \in Traj, NEW p \in Int, Distance[t] <= p
  PROVE  UpperBounds(PoppqInsert(q, t, p))
<1>1. PICK r : r = PoppqInsert(q, t, p)
  OBVIOUS
<1>2. \A i \in 1 .. Len(r) :
        r[i] = [id |-> t, pes |-> p] \/ \E j \in 1 .. Len(q) : r[i] = q[j]
  BY <1>1, PoppqInsertIs
<1>3. \A i \in 1 .. Len(r) : Distance[r[i].id] <= r[i].pes
  <2> SUFFICES ASSUME NEW i \in 1 .. Len(r)
               PROVE  Distance[r[i].id] <= r[i].pes
    OBVIOUS
  <2>1. CASE r[i] = [id |-> t, pes |-> p]
    BY <2>1
  <2>2. CASE \E j \in 1 .. Len(q) : r[i] = q[j]
    BY <2>2 DEF UpperBounds
  <2> QED
    BY <1>2, <2>1, <2>2
<1> QED
  BY <1>1, <1>3 DEF UpperBounds

LEMMA BeyondIsFar ==
  ASSUME Kinds, NEW q \in Seq(Judged), InOrder(q), Len(q) <= query.k, UpperBounds(q),
         NEW t \in Traj, NEW o \in Int, o <= Distance[t], o > Threshold(q)
  PROVE  Cardinality({u \in Traj : Distance[u] < Distance[t]}) >= query.k
<1> DEFINE S == {u \in Traj : Distance[u] < Distance[t]}
<1>1. \A u \in Traj : Distance[u] \in Nat /\ Distance[u] < Huge
  BY WorldFacts
<1>2. query.k \in Nat /\ query.k > 0 /\ Huge \in Nat /\ Len(q) \in Nat
  BY NumberAssumption, LenProperties DEF Kinds
<1>3. Len(q) = query.k /\ Threshold(q) = q[Len(q)].pes
  BY <1>1, <1>2 DEF Threshold
<1>4. \A i \in 1 .. Len(q) : q[i] \in Judged
  BY ElementOfSeq
<1>5. \A i \in 1 .. Len(q) : q[i].id \in Traj /\ q[i].pes \in Int
  BY <1>4 DEF Judged
<1>6. ASSUME NEW i \in 1 .. Len(q)
      PROVE  q[i].id \in S
  <2>1. q[i].pes <= q[Len(q)].pes
    BY <1>2, <1>3, <1>5 DEF InOrder
  <2>2. Distance[q[i].id] <= q[i].pes
    BY DEF UpperBounds
  <2>3. Len(q) \in 1 .. Len(q)
    BY <1>2, <1>3
  <2>4. Distance[q[i].id] < Distance[t]
    BY <1>1, <1>3, <1>5, <2>1, <2>2, <2>3
  <2> QED
    BY <1>5, <2>4
<1>7. S \subseteq Traj
  OBVIOUS
<1>8. Len(q) <= Cardinality(S)
  <2> HIDE DEF S
  <2> QED
    BY <1>6, <1>7, AsManyAsEntries
<1>9. Cardinality(S) \in Nat
  BY <1>7, TrajAssumption, FS_Subset, FS_CardinalityType
<1> HIDE DEF S
<1> QED
  BY <1>2, <1>3, <1>8, <1>9 DEF S

LEMMA JudgeKeeps ==
  ASSUME Kinds, Least, ExceptedAreFar, rigid' = rigid, NEW t \in Traj, NEW b, Judge(t, b),
         b.opt \in Int, b.pes \in Int, b.opt <= Distance[t], Distance[t] <= b.pes
  PROVE  /\ pes' \in Seq(Judged) /\ Least'
         /\ except \subseteq except' /\ except' \subseteq except \cup {t}
         /\ ExceptedAreFar'
<1>1. query' = query /\ world' = world /\ Distance' = Distance
  BY DEF rigid, Distance, TrueDistance
<1>2. pes \in Seq(Judged) /\ InOrder(pes) /\ Len(pes) <= query.k /\ UpperBounds(pes)
  <2>1. pes \in Seq(Judged) /\ DOMAIN pes = 1 .. Len(pes)
    BY LenProperties DEF Kinds
  <2> QED
    BY <2>1 DEF Least, InOrder, UpperBounds
<1>3. PICK r : r = PoppqInsert(pes, t, b.pes)
  OBVIOUS
<1>4. r \in Seq(Judged) /\ InOrder(r) /\ Len(r) <= query.k
  BY <1>2, <1>3, PoppqInsertIs
<1>5. UpperBounds(r)
  BY <1>2, <1>3, InsertKeepsBounds
<1>6. pes' = r /\ except' = IF b.opt > Threshold(r) THEN except \cup {t} ELSE except
  BY <1>3 DEF Judge
<1>7. DOMAIN r = 1 .. Len(r)
  BY <1>4, LenProperties
<1>8. Least'
  <2>1. pes' = r
    BY <1>6
  <2>2. \A i, j \in DOMAIN r : i < j => r[i].pes <= r[j].pes /\ r[i].id # r[j].id
    BY <1>4, <1>7 DEF InOrder
  <2>3. \A i \in DOMAIN r : Distance[r[i].id] <= r[i].pes
    BY <1>5, <1>7 DEF UpperBounds
  <2> QED
    BY <1>1, <1>4, <2>1, <2>2, <2>3 DEF Least
<1>9. ExceptedAreFar'
  <2> SUFFICES ASSUME NEW u \in except'
               PROVE  Cardinality({v \in Traj : Distance[v] < Distance[u]}) >= query.k
    BY <1>1 DEF ExceptedAreFar
  <2>1. CASE u \in except
    BY <2>1 DEF ExceptedAreFar
  <2>2. CASE u \notin except
    <3>1. u = t /\ b.opt > Threshold(r)
      BY <1>6, <2>2
    <3> QED
      BY <1>4, <1>5, <3>1, BeyondIsFar
  <2> QED
    BY <2>1, <2>2
<1> QED
  BY <1>4, <1>6, <1>8, <1>9

-----------------------------------------------------------------------------
(* What stays as it is.                                                    *)
LEMMA WorldStays ==
  ASSUME rigid' = rigid
  PROVE  /\ world' = world /\ query' = query /\ Distance' = Distance
         /\ \A t : Boxes(t)' = Boxes(t)
         /\ \A t, l : BoxesIn(t, l)' = BoxesIn(t, l)
         /\ \A n : NodeDist(n)' = NodeDist(n)
<1>1. world' = world /\ query' = query
  BY DEF rigid
<1>2. Distance' = Distance /\ \A t : Boxes(t)' = Boxes(t)
  BY <1>1 DEF Distance, TrueDistance, Boxes
<1>3. \A t, l : BoxesIn(t, l)' = BoxesIn(t, l)
  BY <1>1, <1>2 DEF BoxesIn
<1>4. \A n : NodeDist(n)' = NodeDist(n)
  <2>1. \A S : RatesIn(S)' = RatesIn(S)
    BY <1>1, <1>3 DEF RatesIn
  <2>2. \A n : NodeError(n)' = NodeError(n)
    BY <1>1 DEF NodeError
  <2> QED
    BY <2>1, <2>2 DEF NodeDist
<1> QED
  BY <1>1, <1>2, <1>3, <1>4

LEMMA CoveredStays ==
  ASSUME Covered, UNCHANGED <<rigid, nodespq, loaded>>
  PROVE  Covered'
<1>1. \A t, l : BoxesIn(t, l)' = BoxesIn(t, l)
  BY WorldStays
<1>2. \A n : NodeDist(n)' = NodeDist(n)
  BY WorldStays
<1> QED
  BY <1>1, <1>2 DEF Covered

LEMMA BestStays ==
  ASSUME Least, ExceptedAreFar, UNCHANGED <<rigid, best>>
  PROVE  Least' /\ ExceptedAreFar'
<1>1. Distance' = Distance /\ query' = query /\ pes' = pes /\ except' = except
  BY WorldStays DEF best
<1> QED
  BY <1>1 DEF Least, ExceptedAreFar

LEMMA LeavesStay ==
  ASSUME UNCHANGED <<rigid, leaves>>
  PROVE  /\ parts' = parts /\ missing' = missing /\ loaded' = loaded /\ fresh' = fresh
         /\ \A t : (UpToDate(t) => UpToDate(t)') /\ (Complete(t) => Complete(t)')
<1>1. parts' = parts /\ missing' = missing /\ loaded' = loaded /\ fresh' = fresh
  BY DEF leaves
<1>2. world' = world /\ \A t : Boxes(t)' = Boxes(t)
  BY WorldStays
<1>3. \A t : BoxesRead(t)' = BoxesRead(t)
  BY <1>1, <1>2 DEF BoxesRead
<1>4. \A t : Linked(t)' = Linked(t)
  BY <1>1, <1>2 DEF Linked, Neighbours
<1> QED
  BY <1>1, <1>2, <1>3, <1>4 DEF UpToDate, Complete

(* A step that only moves on. *)
LEMMA QuietStep ==
  ASSUME Invariant, UNCHANGED <<rigid, nodespq, mpq, store, reported>>,
         Kinds', HandFits', FirstIsLeast',
         InHand' => InHand /\ first' = first,
         InHand => InHand' \/ pc' \in Ended,
         pc \in Ended => pc' \in Ended,
         \A t \in DOMAIN mpq : Looked(t)' => UpToDate(t) \/ Complete(t)
  PROVE  Invariant'
<1>1. UNCHANGED <<rigid, leaves, best>> /\ nodespq' = nodespq /\ mpq' = mpq /\ reported' = reported
  BY DEF store
<1>2. /\ parts' = parts /\ missing' = missing /\ loaded' = loaded /\ fresh' = fresh
      /\ \A t : (UpToDate(t) => UpToDate(t)') /\ (Complete(t) => Complete(t)')
  BY <1>1, LeavesStay
<1>3. Distance' = Distance /\ except' = except
  BY <1>1, WorldStays DEF best
<1>4. Covered'
  BY <1>1, <1>2, CoveredStays DEF Invariant
<1>5. Least' /\ ExceptedAreFar'
  BY <1>1, BestStays DEF Invariant
<1>6. Followed'
  BY <1>1, <1>2, <1>3 DEF Invariant, Followed
<1>7. Placed'
  <2>1. Placed
    BY DEF Invariant
  <2>2. Reported' = Reported
    BY <1>1 DEF Reported
  <2>3. ASSUME pc' \notin Ended, NEW t \in Traj
        PROVE  \/ parts[t] = {} \/ t \in fresh \/ t \in DOMAIN mpq \/ t \in Reported \/ t \in except
               \/ InHand' /\ t = first'.id
    BY <2>1, <2>3 DEF Placed
  <2>4. InHand' => first'.id \notin Reported /\ parts[first'.id] # {} /\ Len(reported) < query.k
    BY <2>1 DEF Placed
  <2>5. query' = query
    BY <1>1, WorldStays
  <2> QED
    BY <1>1, <1>2, <1>3, <2>1, <2>2, <2>3, <2>4, <2>5 DEF Placed
<1>8. Bracketed'
  <2>1. Bracketed
    BY DEF Invariant
  <2> QED
    BY <1>1, <1>3, <2>1 DEF Bracketed, Bracket
<1> QED
  BY <1>4, <1>5, <1>6, <1>7, <1>8 DEF Invariant

LEMMA EndedFacts == Ended = {"done", "asserted", "thrown", "crashed"}
BY DEF Ended

LEMMA ExhaustedKeeps == Invariant /\ Exhausted => Invariant'
<1> SUFFICES ASSUME Invariant, Exhausted
             PROVE  Invariant'
  OBVIOUS
<1> USE DEF Exhausted
<1>1. Kinds'
  BY DEF Invariant, Kinds, Ended, rigid, store, leaves, best, Boxes
<1>2. HandFits'
  BY DEF Invariant, HandFits, InHand, AtNode, AtCandidate, store, leaves
<1>3. FirstIsLeast' /\ ~InHand /\ ~InHand' /\ ~AtCandidate'
  BY DEF FirstIsLeast, AtCandidate, InHand
<1>4. pc \notin Ended /\ \A t : ~Looked(t)'
  BY <1>3 DEF Ended, Looked
<1> QED
  BY <1>1, <1>2, <1>3, <1>4, QuietStep

LEMMA TakeTopKeeps == Invariant /\ TakeTop => Invariant'
<1> SUFFICES ASSUME Invariant, TakeTop
             PROVE  Invariant'
  OBVIOUS
<1> USE DEF TakeTop
<1>1. Kinds'
  BY DEF Invariant, Kinds, rigid, store, leaves, best, Boxes
<1>2. HandFits'
  BY DEF Invariant, HandFits, InHand, AtNode, AtCandidate, store, leaves
<1>3. FirstIsLeast' /\ ~InHand /\ ~InHand' /\ ~AtCandidate'
  BY DEF FirstIsLeast, AtCandidate, InHand
<1>4. pc \notin Ended /\ \A t \in DOMAIN mpq : ~Looked(t)'
  BY <1>3, TrajAssumption DEF Ended, Looked, NoId, Invariant, Kinds
<1> QED
  BY <1>1, <1>2, <1>3, <1>4, QuietStep

(* The entries at the head of the two queues.                              *)
LEMMA NodeFirst ==
  ASSUME Kinds, nodespq # <<>>
  PROVE  /\ NodeTop(nodespq) \in Entry
         /\ NodeTop(nodespq).id \in DOMAIN nodespq
         /\ NodeTop(nodespq).opt = nodespq[NodeTop(nodespq).id]
         /\ NodeTop(nodespq).type = IF NodeTop(nodespq).id \in Leaf THEN 1 ELSE 0
         /\ \A n \in DOMAIN nodespq : NodeTop(nodespq).opt <= nodespq[n]
<1>1. DOMAIN nodespq # {} /\ DOMAIN nodespq \subseteq Node /\ nodespq \in [DOMAIN nodespq -> Nat]
  <2>1. DOMAIN nodespq \subseteq Node /\ nodespq \in [DOMAIN nodespq -> Nat]
    BY DEF Kinds
  <2> QED
    BY <2>1, EmptyQueue
<1>2. PICK D \in SUBSET Node : D = DOMAIN nodespq
  BY <1>1
<1>3. PICK q \in [D -> Nat] : q = nodespq
  BY <1>1, <1>2
<1>4. D # {}
  BY <1>1, <1>2
<1>5. PICK n \in D : NodeTop(q) = NodeEntry(n, q[n]) /\ \A m \in D : q[n] <= q[m]
  BY <1>4, NodeTopIs
<1>6. n \in Nat /\ q[n] \in Nat
  BY NodesFinite
<1>7. NodeTop(nodespq) = NodeEntry(n, nodespq[n])
  BY <1>3, <1>5
<1> QED
  BY <1>2, <1>3, <1>5, <1>6, <1>7 DEF NodeEntry, Entry

LEMMA CandidateFirst ==
  ASSUME Kinds, mpq # <<>>
  PROVE  /\ CandidateTop \in Entry
         /\ CandidateTop.id \in DOMAIN mpq
         /\ CandidateTop = Candidate(CandidateTop.id)
         /\ CandidateTop.type \in 2 .. 4
         /\ \A t \in DOMAIN mpq : CandidateTop.opt <= mpq[t].opt
<1>1. PICK t \in DOMAIN mpq : /\ CandidateTop = Candidate(t)
                              /\ \A u \in DOMAIN mpq : mpq[t].opt <= mpq[u].opt
  BY CandidateTopIs
<1>2. mpq[t] \in Bounds /\ t \in Nat
  BY TrajAssumption DEF Kinds
<1>3. CandidateTop.id = t /\ CandidateTop.opt = mpq[t].opt /\ CandidateTop.type = mpq[t].type
  BY <1>1 DEF Candidate
<1>4. CandidateTop \in Entry
  BY <1>1, <1>2 DEF Candidate, Entry, Bounds
<1> QED
  BY <1>1, <1>2, <1>3, <1>4 DEF Bounds

LEMMA NodeIsNextIs ==
  ASSUME Kinds, ~NodeIsNext
  PROVE  mpq # <<>> /\ \A n \in DOMAIN nodespq : CandidateTop.opt <= nodespq[n]
<1>1. mpq # <<>> /\ ~(nodespq # <<>> /\ NodeTop(nodespq).opt < CandidateTop.opt)
  BY DEF NodeIsNext
<1>2. CASE nodespq = <<>>
  <2>1. DOMAIN nodespq = {}
    BY <1>2, EmptyQueue DEF Kinds
  <2> QED
    BY <1>1, <2>1
<1>3. CASE nodespq # <<>>
  <2>1. NodeTop(nodespq) \in Entry /\ \A n \in DOMAIN nodespq : NodeTop(nodespq).opt <= nodespq[n]
    BY <1>3, NodeFirst
  <2>2. CandidateTop \in Entry
    BY <1>1, CandidateFirst
  <2>3. \A n \in DOMAIN nodespq : nodespq[n] \in Nat
    BY DEF Kinds
  <2> QED
    BY <1>1, <1>3, <2>1, <2>2, <2>3 DEF Entry
<1> QED
  BY <1>2, <1>3

-----------------------------------------------------------------------------
LEMMA TakeNodeKeeps == Invariant /\ TakeNode => Invariant'
<1> SUFFICES ASSUME Invariant, TakeNode
             PROVE  Invariant'
  OBVIOUS
<1> USE DEF TakeNode
<1>0. Kinds /\ (nodespq # <<>> => NodeTop(nodespq) \in Entry /\ NodeTop(nodespq).type \in {0, 1})
  BY NodeFirst DEF Invariant
<1>1. Kinds'
  BY <1>0 DEF Kinds, Ended, rigid, store, leaves, best, Boxes
<1>2. HandFits'
  BY <1>0, NodeFirst DEF Invariant, HandFits, InHand, AtNode, AtCandidate, store, leaves
<1>3. FirstIsLeast' /\ ~InHand /\ ~InHand' /\ ~AtCandidate'
  BY <1>0 DEF FirstIsLeast, AtCandidate, InHand
<1>4. pc \notin Ended /\ \A t : ~Looked(t)'
  BY <1>3 DEF Ended, Looked
<1> QED
  BY <1>1, <1>2, <1>3, <1>4, QuietStep

LEMMA TopOfNothingKeeps == Invariant /\ TopOfNothing => Invariant'
<1> SUFFICES ASSUME Invariant, TopOfNothing
             PROVE  Invariant'
  OBVIOUS
<1> USE DEF TopOfNothing
<1>1. Kinds'
  BY DEF Invariant, Kinds, Ended, rigid, store, leaves, best, Boxes
<1>2. HandFits'
  BY DEF Invariant, HandFits, InHand, AtNode, AtCandidate, store, leaves, NoEntry
<1>3. FirstIsLeast' /\ ~InHand' /\ ~AtCandidate' /\ (InHand => pc' \in Ended)
  BY DEF FirstIsLeast, AtCandidate, InHand, NoEntry, Ended
<1>4. pc \notin Ended /\ \A t : ~Looked(t)'
  BY <1>3 DEF Ended, Looked
<1> QED
  BY <1>1, <1>2, <1>3, <1>4, QuietStep

LEMMA StopKeeps == Invariant /\ Stop => Invariant'
<1> SUFFICES ASSUME Invariant, Stop
             PROVE  Invariant'
  OBVIOUS
<1> USE DEF Stop
<1>1. Kinds'
  BY DEF Invariant, Kinds, Ended, rigid, store, leaves, best, Boxes
<1>2. HandFits'
  BY DEF Invariant, HandFits, InHand, AtNode, AtCandidate, store, leaves
<1>3. FirstIsLeast' /\ ~InHand /\ ~InHand' /\ ~AtCandidate'
  BY DEF FirstIsLeast, AtCandidate, InHand
<1>4. pc \notin Ended /\ \A t : ~Looked(t)'
  BY <1>3 DEF Ended, Looked
<1> QED
  BY <1>1, <1>2, <1>3, <1>4, QuietStep

LEMMA AskForNodeKeeps == Invariant /\ AskForNode => Invariant'
<1> SUFFICES ASSUME Invariant, AskForNode
             PROVE  Invariant'
  OBVIOUS
<1> USE DEF AskForNode, Visit, Done
<1>1. Kinds'
  BY DEF Invariant, Kinds, Ended, rigid, store, leaves, best, Boxes
<1>2. HandFits'
  BY DEF Invariant, HandFits, InHand, AtNode, AtCandidate, store, leaves
<1>3. FirstIsLeast' /\ ~InHand /\ ~InHand' /\ ~AtCandidate'
  BY DEF FirstIsLeast, AtCandidate, InHand
<1>4. pc \notin Ended /\ \A t : ~Looked(t)'
  BY <1>3 DEF Ended, Looked
<1> QED
  BY <1>1, <1>2, <1>3, <1>4, QuietStep

LEMMA WithoutIs ==
  ASSUME Kinds, NEW id
  PROVE  /\ DOMAIN Without(mpq, id) = DOMAIN mpq \ {id}
         /\ Without(mpq, id) \in [DOMAIN mpq \ {id} -> Bounds]
         /\ \A u \in DOMAIN mpq \ {id} : Without(mpq, id)[u] = mpq[u]
BY DEF Without, Kinds

LEMMA TopDropsKeeps == Invariant /\ TopDrops => Invariant'
<1> SUFFICES ASSUME Invariant, TopDrops
             PROVE  Invariant'
  OBVIOUS
<1>0. /\ UNCHANGED <<rigid, pc, caller, first, btopnode, nodespq, store, reported>>
      /\ pc = "top" /\ lastid' = NoId
      /\ Kinds /\ HandFits /\ Followed /\ Placed /\ Bracketed
  BY DEF TopDrops, Invariant
<1>1. /\ UNCHANGED <<rigid, leaves, best>> /\ pc' = pc /\ caller' = caller /\ first' = first
      /\ nodespq' = nodespq /\ reported' = reported
  BY <1>0 DEF store
<1>2. PICK id \in except : mpq' = Without(mpq, id)
  BY DEF TopDrops
<1>3. /\ DOMAIN mpq' = DOMAIN mpq \ {id} /\ mpq' \in [DOMAIN mpq \ {id} -> Bounds]
      /\ \A u \in DOMAIN mpq \ {id} : mpq'[u] = mpq[u]
  BY <1>0, <1>2, WithoutIs
<1>4. /\ parts' = parts /\ missing' = missing /\ loaded' = loaded /\ fresh' = fresh
      /\ \A t : (UpToDate(t) => UpToDate(t)') /\ (Complete(t) => Complete(t)')
  BY <1>1, LeavesStay
<1>5. world' = world /\ query' = query /\ Distance' = Distance /\ except' = except
  BY <1>1, WorldStays DEF best
<1>6. Kinds'
  BY <1>0, <1>1, <1>3, <1>4, <1>5 DEF Kinds, best, Boxes
<1>7. HandFits'
  BY <1>0, <1>1, <1>3, <1>4 DEF HandFits, InHand, AtNode, AtCandidate
<1>8. Covered' /\ Least' /\ ExceptedAreFar'
  BY <1>1, <1>4, CoveredStays, BestStays DEF Invariant
<1>9. Followed'
  <2>1. \A t \in DOMAIN mpq' : ~Looked(t)'
    BY <1>0, <1>1, <1>3, TrajAssumption DEF Looked, NoId, AtCandidate, Kinds
  <2> QED
    BY <1>0, <1>1, <1>3, <1>4, <1>5, <2>1 DEF Followed, InHand
<1>10. Placed'
  <2>1. Reported' = Reported
    BY <1>1 DEF Reported
  <2> QED
    BY <1>0, <1>1, <1>2, <1>3, <1>4, <1>5, <2>1 DEF Placed, InHand
<1>11. Bracketed'
  BY <1>0, <1>1, <1>3, <1>5 DEF Bracketed, Bracket, InHand
<1>12. FirstIsLeast'
  BY <1>0, <1>1 DEF FirstIsLeast, AtCandidate
<1> QED
  BY <1>6, <1>7, <1>8, <1>9, <1>10, <1>11, <1>12 DEF Invariant

LEMMA TopUpdatesKeeps == Invariant /\ TopUpdates => Invariant'
<1> SUFFICES ASSUME Invariant, TopUpdates
             PROVE  Invariant'
  OBVIOUS
<1>0. /\ UNCHANGED <<rigid, pc, caller, first, btopnode, nodespq, leaves, reported>>
      /\ pc = "top" /\ ~NodeIsNext /\ CandidateTop.id \notin except
      /\ Kinds /\ HandFits /\ Covered /\ Followed /\ Placed /\ Bracketed /\ Least /\ ExceptedAreFar
  BY DEF TopUpdates, Invariant
<1>1. PICK t : t = CandidateTop.id
  OBVIOUS
<1>2. t \in DOMAIN mpq /\ t \in Traj /\ t \notin except
  <2>1. CandidateTop.id \in DOMAIN mpq
    BY <1>0, NodeIsNextIs, CandidateFirst
  <2> QED
    BY <1>0, <1>1, <2>1 DEF Kinds
<1>3. PICK b : /\ b = Bound(t, parts[t], missing[t], nodespq)
               /\ Judge(t, b)
               /\ mpq' = [mpq EXCEPT ![t] = [type |-> IF missing[t] = {} THEN 3 ELSE 2,
                                             opt |-> b.opt, pes |-> b.pes]]
               /\ lastid' = t
  BY <1>1 DEF TopUpdates
<1>4. UpToDate(t) /\ parts[t] # {}
  BY <1>0, <1>2 DEF Followed, Placed
<1>5. b.opt \in Int /\ b.pes \in Int /\ b.opt <= Distance[t] /\ Distance[t] <= b.pes
  BY <1>0, <1>2, <1>3, <1>4, BoundIsRight
<1>6. missing[t] = {} => Complete(t)
  BY <1>0, <1>2, <1>4, LinksReachAll DEF Complete
<1>7. /\ pes' \in Seq(Judged) /\ Least'
      /\ except \subseteq except' /\ except' \subseteq except \cup {t}
      /\ ExceptedAreFar'
  BY <1>0, <1>2, <1>3, <1>5, JudgeKeeps
<1>8. /\ parts' = parts /\ missing' = missing /\ loaded' = loaded /\ fresh' = fresh
      /\ \A u : (UpToDate(u) => UpToDate(u)') /\ (Complete(u) => Complete(u)')
  BY <1>0, LeavesStay
<1>9. world' = world /\ query' = query /\ Distance' = Distance
  BY <1>0, WorldStays
<1>10. /\ DOMAIN mpq' = DOMAIN mpq /\ mpq' \in [DOMAIN mpq -> Bounds]
       /\ mpq'[t].opt = b.opt /\ mpq'[t].pes = b.pes
       /\ mpq'[t].type = IF missing[t] = {} THEN 3 ELSE 2
       /\ \A u \in DOMAIN mpq \ {t} : mpq'[u] = mpq[u]
  BY <1>0, <1>2, <1>3, <1>5 DEF Kinds, Bounds
<1>11. Kinds'
  BY <1>0, <1>2, <1>3, <1>7, <1>8, <1>9, <1>10 DEF Kinds, Boxes
<1>12. HandFits'
  BY <1>0, <1>8, <1>10 DEF HandFits, InHand, AtNode, AtCandidate
<1>13. Covered'
  BY <1>0, <1>8, CoveredStays
<1>14. Followed'
  <2>1. \A u \in DOMAIN mpq' : Looked(u)' => UpToDate(u)
    BY <1>0, <1>3, <1>4 DEF Looked, AtCandidate
  <2>2. \A u \in DOMAIN mpq' : mpq'[u].type >= 3 => Complete(u)
    BY <1>0, <1>6, <1>10 DEF Followed
  <2>3. \A u \in Traj \ except' : UpToDate(u)
    BY <1>0, <1>7 DEF Followed
  <2>4. InHand' => Complete(first.id)
    BY <1>0 DEF InHand, Followed
  <2> QED
    BY <1>0, <1>8, <2>1, <2>2, <2>3, <2>4 DEF Followed
<1>15. Placed'
  <2>1. Reported' = Reported /\ fresh = {}
    BY <1>0 DEF Reported, HandFits
  <2> QED
    BY <1>0, <1>2, <1>4, <1>7, <1>8, <1>9, <1>10, <2>1 DEF Placed, InHand
<1>16. Bracketed'
  <2>1. \A u \in DOMAIN mpq' : Bracket(mpq'[u], u) /\ (mpq'[u].type = 4 => mpq'[u].opt = Distance[u])
    BY <1>0, <1>5, <1>10 DEF Bracketed, Bracket
  <2> QED
    BY <1>0, <1>9, <2>1 DEF Bracketed, Bracket, InHand
<1>17. FirstIsLeast'
  BY <1>0 DEF FirstIsLeast, AtCandidate
<1> QED
  BY <1>7, <1>11, <1>12, <1>13, <1>14, <1>15, <1>16, <1>17 DEF Invariant

(* case 3 has its answer: the candidate in hand is reported, or queued     *)
(* again with its exact distance.                                          *)
LEMMA JudgedKeeps ==
  ASSUME Invariant, InHand, pc' = "loop", first' = NoEntry, ReportFirst \/ PushExact,
         UNCHANGED <<rigid, caller, lastid, btopnode, nodespq, store>>
  PROVE  Invariant'
<1>0. Kinds /\ HandFits /\ Covered /\ Followed /\ Placed /\ Bracketed /\ Least /\ ExceptedAreFar
  BY DEF Invariant
<1>1. PICK t : t = first.id
  OBVIOUS
<1>2. /\ t \in Traj /\ t \notin DOMAIN mpq /\ t \notin Reported /\ parts[t] # {} /\ Complete(t)
      /\ fresh = {} /\ pc = "top" /\ pc \notin Ended
  BY <1>0, <1>1 DEF HandFits, Placed, Followed, InHand, Ended
<1>3. world' = world /\ query' = query /\ Distance' = Distance /\ pes' = pes /\ except' = except
  BY WorldStays DEF store, best
<1>4. /\ parts' = parts /\ missing' = missing /\ loaded' = loaded /\ fresh' = fresh
      /\ \A u : (UpToDate(u) => UpToDate(u)') /\ (Complete(u) => Complete(u)')
  BY LeavesStay DEF store
<1>5. Covered' /\ Least' /\ ExceptedAreFar'
  BY <1>0, <1>4, CoveredStays, BestStays DEF store
<1>6. HandFits' /\ FirstIsLeast' /\ ~InHand' /\ ~AtCandidate' /\ \A u : ~Looked(u)'
  BY <1>2, <1>4 DEF HandFits, FirstIsLeast, InHand, AtNode, AtCandidate, Looked
<1>7. /\ DOMAIN mpq' \cup Reported' = DOMAIN mpq \cup Reported \cup {t}
      /\ DOMAIN mpq' \cap Reported' = {}
      /\ DOMAIN mpq \subseteq DOMAIN mpq' /\ Reported \subseteq Reported'
      /\ mpq' \in [DOMAIN mpq' -> Bounds] /\ reported' \in Seq(Traj)
      /\ \A u \in DOMAIN mpq' \cap DOMAIN mpq : mpq'[u] = mpq[u]
      /\ \A u \in DOMAIN mpq' \ DOMAIN mpq : u = t /\ mpq'[u].opt = Distance[u] /\ mpq'[u].pes = Distance[u]
  <2>0. DOMAIN mpq \cap Reported = {} /\ mpq \in [DOMAIN mpq -> Bounds] /\ reported \in Seq(Traj)
    BY <1>0 DEF Placed, Kinds
  <2>1. CASE ReportFirst
    <3>1. mpq' = mpq /\ reported' = Append(reported, t)
      BY <1>1, <2>1 DEF ReportFirst
    <3>2. Reported' = Reported \cup {t} /\ reported' \in Seq(Traj)
      BY <1>2, <2>0, <3>1, AppendProperties, LenProperties DEF Reported
    <3> QED
      BY <1>2, <2>0, <3>1, <3>2
  <2>2. CASE PushExact
    <3>1. reported' = reported /\ Reported' = Reported
      BY <2>2 DEF PushExact, Reported
    <3>2. PICK e : e = [type |-> 4, opt |-> Distance[t], pes |-> Distance[t]]
      OBVIOUS
    <3>3. e \in Bounds /\ e.opt = Distance[t] /\ e.pes = Distance[t]
      BY <1>0, <1>2, <3>2, WorldFacts DEF Bounds
    <3>4. Distance[t] = TrueDistance(t)
      BY <1>2 DEF Distance
    <3>5. mpq' = With(mpq, t, e)
      BY <1>1, <2>2, <3>2, <3>4 DEF PushExact
    <3>6. /\ DOMAIN mpq' = DOMAIN mpq \cup {t} /\ mpq'[t] = e
          /\ \A u \in DOMAIN mpq : mpq'[u] = mpq[u]
          /\ mpq' \in [DOMAIN mpq \cup {t} -> Bounds]
      BY <1>2, <2>0, <3>3, <3>5 DEF With
    <3> QED
      BY <1>2, <2>0, <3>1, <3>3, <3>6
  <2> QED
    BY <2>1, <2>2
<1>8. Kinds'
  BY <1>0, <1>2, <1>3, <1>4, <1>7 DEF Kinds, Ended, Boxes
<1>9. Followed'
  <2>1. \A u \in DOMAIN mpq' : mpq'[u].type >= 3 => Complete(u)
    BY <1>0, <1>2, <1>7 DEF Followed
  <2>2. \A u \in Traj \ except : UpToDate(u)
    BY <1>0 DEF Followed
  <2> QED
    BY <1>3, <1>4, <1>6, <2>1, <2>2 DEF Followed
<1>10. Placed'
  BY <1>0, <1>1, <1>2, <1>3, <1>4, <1>6, <1>7 DEF Placed
<1>11. Bracketed'
  <2>1. \A u \in DOMAIN mpq' : Bracket(mpq'[u], u) /\ (mpq'[u].type = 4 => mpq'[u].opt = Distance[u])
    <3>1. \A u \in DOMAIN mpq : Bracket(mpq[u], u) /\ (mpq[u].type = 4 => mpq[u].opt = Distance[u])
      BY <1>0 DEF Bracketed
    <3>2. Distance[t] \in Nat
      BY <1>0, <1>2, WorldFacts
    <3> QED
      BY <1>7, <3>1, <3>2 DEF Bracket
  <2> QED
    BY <1>3, <1>6, <2>1 DEF Bracketed, Bracket
<1> QED
  BY <1>5, <1>6, <1>8, <1>9, <1>10, <1>11 DEF Invariant

(* A candidate leaves the queue: to be reported, or into the hand.         *)
LEMMA PoppedKeeps ==
  ASSUME Invariant, AtCandidate, mpq' = Without(mpq, first.id),
         UNCHANGED <<rigid, btopnode, nodespq, store>>,
         \/ pc' = "loop" /\ first' = NoEntry /\ reported' = Append(reported, first.id)
            /\ UNCHANGED <<caller, lastid>>
         \/ pc' = "top" /\ caller' = "check" /\ lastid' = NoId /\ first' = first
            /\ reported' = reported /\ first.type = 3 /\ Len(reported) < query.k
  PROVE  Invariant'
<1>0. Kinds /\ HandFits /\ Covered /\ Followed /\ Placed /\ Bracketed /\ Least /\ ExceptedAreFar
  BY DEF Invariant
<1>1. PICK t : t = first.id
  OBVIOUS
<1>2. /\ t \in Traj /\ t \in DOMAIN mpq /\ t \notin Reported /\ parts[t] # {}
      /\ first = Candidate(t) /\ fresh = {} /\ pc = "visit" /\ pc \notin Ended
  BY <1>0, <1>1 DEF HandFits, Placed, Followed, AtCandidate, Ended, Kinds
<1>3. world' = world /\ query' = query /\ Distance' = Distance /\ pes' = pes /\ except' = except
  BY WorldStays DEF store, best
<1>4. /\ parts' = parts /\ missing' = missing /\ loaded' = loaded /\ fresh' = fresh
      /\ \A u : (UpToDate(u) => UpToDate(u)') /\ (Complete(u) => Complete(u)')
  BY LeavesStay DEF store
<1>5. Covered' /\ Least' /\ ExceptedAreFar'
  BY <1>0, <1>4, CoveredStays, BestStays DEF store
<1>6. /\ DOMAIN mpq' = DOMAIN mpq \ {t} /\ mpq' \in [DOMAIN mpq \ {t} -> Bounds]
      /\ \A u \in DOMAIN mpq \ {t} : mpq'[u] = mpq[u]
  BY <1>0, <1>1, WithoutIs
<1>7. HandFits' /\ FirstIsLeast' /\ ~AtCandidate' /\ \A u \in Traj : ~Looked(u)'
  BY <1>1, <1>2, <1>4, <1>6, TrajAssumption
     DEF HandFits, FirstIsLeast, InHand, AtNode, AtCandidate, Looked, NoId
<1>8. /\ reported' \in Seq(Traj)
      /\ Reported' = IF pc' = "loop" THEN Reported \cup {t} ELSE Reported
  <2>0. reported \in Seq(Traj)
    BY <1>0 DEF Kinds
  <2>1. CASE reported' = Append(reported, t) /\ pc' = "loop"
    BY <1>2, <2>0, <2>1, AppendProperties, LenProperties DEF Reported
  <2>2. CASE reported' = reported /\ pc' = "top"
    BY <2>0, <2>2 DEF Reported
  <2> QED
    BY <1>1, <2>1, <2>2
<1>9. Kinds'
  BY <1>0, <1>2, <1>3, <1>4, <1>6, <1>8 DEF Kinds, Ended, Boxes
<1>10. InHand' => first'.id = t /\ first' = Candidate(t) /\ mpq[t].type = 3 /\ pc' = "top"
                  /\ Len(reported') < query.k
  BY <1>1, <1>2 DEF InHand, Candidate
<1>11. Followed'
  <2>1. \A u \in Traj \ except : UpToDate(u)
    BY <1>0 DEF Followed
  <2>2. \A u \in DOMAIN mpq : mpq[u].type >= 3 => Complete(u)
    BY <1>0 DEF Followed
  <2>3. InHand' => Complete(t)
    BY <1>2, <1>10, <2>2
  <2>4. \A u \in DOMAIN mpq' : ~Looked(u)'
    BY <1>0, <1>6, <1>7 DEF Kinds
  <2> QED
    BY <1>3, <1>4, <1>6, <1>10, <2>1, <2>2, <2>3, <2>4 DEF Followed
<1>12. Placed'
  <2>1. pc' = "loop" \/ (pc' = "top" /\ InHand' /\ first'.id = t)
    BY <1>1 DEF InHand
  <2>2. Placed /\ Reported \subseteq Reported' /\ Reported' \subseteq Reported \cup {t}
    BY <1>0, <1>8
  <2>3. ASSUME pc' \notin Ended, NEW u \in Traj
        PROVE  \/ parts[u] = {} \/ u \in fresh \/ u \in DOMAIN mpq' \/ u \in Reported' \/ u \in except
               \/ InHand' /\ u = first'.id
    <3>1. CASE u = t
      BY <1>8, <2>1, <3>1
    <3>2. CASE u # t
      <4>1. ~InHand
        BY <1>2 DEF InHand
      <4>2. parts[u] = {} \/ u \in fresh \/ u \in DOMAIN mpq \/ u \in Reported \/ u \in except
        BY <1>2, <2>2, <4>1 DEF Placed
      <4> QED
        BY <1>6, <2>2, <3>2, <4>2
    <3> QED
      BY <3>1, <3>2
  <2>4. \A u \in fresh \cup DOMAIN mpq' \cup Reported' \cup except : parts[u] # {}
    BY <1>2, <1>6, <2>2 DEF Placed
  <2>5. Reported' \cap (fresh \cup DOMAIN mpq') = {}
    BY <1>2, <1>6, <2>2 DEF Placed
  <2>6. InHand' => t \notin Reported'
    <3>1. InHand' => pc' # "loop"
      BY DEF InHand
    <3> QED
      BY <1>2, <1>8, <3>1
  <2> QED
    BY <1>2, <1>3, <1>4, <1>10, <2>2, <2>3, <2>4, <2>5, <2>6 DEF Placed
<1>13. Bracketed'
  <2>1. \A u \in DOMAIN mpq : Bracket(mpq[u], u) /\ (mpq[u].type = 4 => mpq[u].opt = Distance[u])
    BY <1>0 DEF Bracketed
  <2>2. Bracket(Candidate(t), t)
    BY <1>2, <2>1 DEF Bracket, Candidate
  <2> QED
    BY <1>3, <1>6, <1>10, <2>1, <2>2 DEF Bracketed, Bracket
<1> QED
  BY <1>5, <1>7, <1>9, <1>11, <1>12, <1>13 DEF Invariant

LEMMA ReportLastKeeps == Invariant /\ ReportLast => Invariant'
<1> SUFFICES ASSUME Invariant, ReportLast
             PROVE  Invariant'
  OBVIOUS
<1>1. AtCandidate
  BY DEF ReportLast, Visit, AtCandidate
<1> QED
  BY <1>1, PoppedKeeps DEF ReportLast, Done

LEMMA ReportExactKeeps == Invariant /\ ReportExact => Invariant'
<1> SUFFICES ASSUME Invariant, ReportExact
             PROVE  Invariant'
  OBVIOUS
<1>1. AtCandidate
  BY DEF ReportExact, Visit, AtCandidate
<1> QED
  BY <1>1, PoppedKeeps DEF ReportExact, Done

LEMMA PopAndCompareKeeps == Invariant /\ PopAndCompare => Invariant'
<1> SUFFICES ASSUME Invariant, PopAndCompare
             PROVE  Invariant'
  OBVIOUS
<1>1. AtCandidate /\ first.type = 3 /\ Len(reported) < query.k
  BY DEF PopAndCompare, Visit, AtCandidate
<1> QED
  BY <1>1, PoppedKeeps DEF PopAndCompare

(* top() returns an entry.                                                 *)
LEMMA ReturnsKeeps ==
  ASSUME Invariant, pc = "top", NEW e, Return(e), e \in Entry,
         UNCHANGED <<rigid, btopnode, nodespq, store>>,
         \/ /\ e.id \in DOMAIN nodespq
            /\ e.type = IF e.id \in Leaf THEN 1 ELSE 0
         \/ /\ e.id \in DOMAIN mpq /\ e = Candidate(e.id)
            /\ e.type \in 2 .. 4
            /\ e.type >= 3 \/ e.id = lastid
            /\ \A t \in DOMAIN mpq : e.opt <= mpq[t].opt
            /\ \A n \in DOMAIN nodespq : e.opt <= nodespq[n]
  PROVE  Invariant'
<1>0. Kinds /\ HandFits /\ Followed
  BY DEF Invariant
<1>1. CASE caller = "judge"
  <2>1. InHand
    BY <1>1 DEF InHand
  <2>2. pc' = "loop" /\ first' = NoEntry /\ (ReportFirst \/ PushExact) /\ UNCHANGED <<caller, lastid>>
    BY <1>1 DEF Return
  <2> QED
    BY <2>1, <2>2, JudgedKeeps
<1>2. CASE caller = "check"
  <2>1. caller' = "judge" /\ lastid' = NoId /\ UNCHANGED <<pc, first, mpq, reported>>
    BY <1>2 DEF Return
  <2>2. Kinds'
    BY <1>0, <2>1 DEF Kinds, rigid, store, leaves, best, Boxes
  <2>3. HandFits'
    BY <1>0, <1>2, <2>1 DEF HandFits, InHand, AtNode, AtCandidate, store, leaves
  <2>4. FirstIsLeast' /\ InHand /\ InHand' /\ pc \notin Ended
    BY <1>2, <2>1 DEF FirstIsLeast, AtCandidate, InHand, Ended
  <2>5. \A t \in DOMAIN mpq : ~Looked(t)'
    BY <1>0, <2>1, TrajAssumption DEF Looked, AtCandidate, NoId, Kinds
  <2> QED
    BY <2>1, <2>2, <2>3, <2>4, <2>5, QuietStep
<1>3. CASE caller = "query"
  <2>1. pc' = "visit" /\ first' = e /\ UNCHANGED <<caller, lastid, mpq, reported>>
    BY <1>3 DEF Return
  <2>2. Kinds'
    BY <1>0, <2>1 DEF Kinds, rigid, store, leaves, best, Boxes
  <2>3. HandFits'
    BY <1>0, <1>3, <2>1 DEF HandFits, InHand, AtNode, AtCandidate, store, leaves, Candidate
  <2>4. FirstIsLeast'
    BY <2>1 DEF FirstIsLeast, AtCandidate
  <2>5. ~InHand /\ ~InHand' /\ pc \notin Ended
    BY <1>3, <2>1 DEF InHand, Ended
  <2>6. ASSUME NEW t \in DOMAIN mpq, Looked(t)'
        PROVE  UpToDate(t) \/ Complete(t)
    <3>1. t = e.id /\ e.type \in 2 .. 4
      BY <2>1, <2>6 DEF Looked, AtCandidate
    <3>2. e = Candidate(t) /\ (e.type >= 3 \/ t = lastid)
      BY <3>1
    <3>3. mpq[t].type = e.type
      BY <3>2 DEF Candidate
    <3>4. t = lastid => Looked(t)
      BY DEF Looked
    <3> QED
      BY <1>0, <3>2, <3>3, <3>4 DEF Followed
  <2> QED
    BY <2>1, <2>2, <2>3, <2>4, <2>5, <2>6, QuietStep
<1> QED
  BY <1>0, <1>1, <1>2, <1>3 DEF Kinds

LEMMA TopNodeKeeps == Invariant /\ TopNode => Invariant'
<1> SUFFICES ASSUME Invariant, TopNode
             PROVE  Invariant'
  OBVIOUS
<1>1. pc = "top" /\ nodespq # <<>> /\ UNCHANGED <<rigid, btopnode, nodespq, store>>
  BY DEF TopNode
<1>2. PICK e : e = NodeTop(nodespq)
  OBVIOUS
<1>3. Return(e)
  BY <1>2 DEF TopNode
<1>4. e \in Entry /\ e.id \in DOMAIN nodespq /\ e.type = IF e.id \in Leaf THEN 1 ELSE 0
  BY <1>1, <1>2, NodeFirst DEF Invariant
<1> QED
  BY <1>1, <1>3, <1>4, ReturnsKeeps

LEMMA TopCandidateKeeps == Invariant /\ TopCandidate => Invariant'
<1> SUFFICES ASSUME Invariant, TopCandidate
             PROVE  Invariant'
  OBVIOUS
<1>1. pc = "top" /\ ~NodeIsNext /\ UNCHANGED <<rigid, btopnode, nodespq, store>>
  BY DEF TopCandidate
<1>2. PICK e : e = CandidateTop
  OBVIOUS
<1>3. Return(e) /\ (e.type >= 3 \/ e.id = lastid)
  BY <1>2 DEF TopCandidate
<1>4. mpq # <<>> /\ \A n \in DOMAIN nodespq : e.opt <= nodespq[n]
  BY <1>1, <1>2, NodeIsNextIs DEF Invariant
<1>5. /\ e \in Entry /\ e.id \in DOMAIN mpq /\ e = Candidate(e.id) /\ e.type \in 2 .. 4
      /\ \A t \in DOMAIN mpq : e.opt <= mpq[t].opt
  BY <1>2, <1>4, CandidateFirst DEF Invariant
<1> QED
  BY <1>1, <1>3, <1>4, <1>5, ReturnsKeeps

-----------------------------------------------------------------------------
(* The second loop of loadLeaf.                                            *)
LEMMA QueueFreshKeeps == Invariant /\ QueueFresh => Invariant'
<1> SUFFICES ASSUME Invariant, QueueFresh
             PROVE  Invariant'
  OBVIOUS
<1>0. /\ UNCHANGED <<rigid, caller, first, lastid, btopnode, nodespq, parts, missing, loaded, reported>>
      /\ pc = "leaf" /\ pc' = (IF fresh' = {} THEN "loop" ELSE "leaf") /\ first = NoEntry
      /\ Kinds /\ HandFits /\ Covered /\ Followed /\ Placed /\ Bracketed /\ Least /\ ExceptedAreFar
  BY DEF QueueFresh, Invariant, HandFits
<1>1. PICK t : t = Min(fresh)
  OBVIOUS
<1>2. t \in fresh /\ t \in Traj /\ t \notin except /\ t \notin Reported /\ parts[t] # {}
  <2>1. fresh # {} /\ fresh \subseteq Traj /\ fresh \subseteq Nat
    BY <1>0, TrajAssumption DEF HandFits, Kinds
  <2>2. PICK F : F = fresh
    OBVIOUS
  <2>3. Min(F) \in F
    BY <2>1, <2>2, MinOfNats
  <2> QED
    BY <1>0, <1>1, <2>1, <2>2, <2>3 DEF Placed
<1>3. PICK b : /\ b = Bound(t, parts[t], missing[t], nodespq)
               /\ Judge(t, b)
               /\ mpq' = With(mpq, t, [type |-> IF b.infer THEN 2 ELSE 3, opt |-> b.opt, pes |-> b.pes])
               /\ fresh' = fresh \ {t}
  BY <1>1 DEF QueueFresh
<1>4. UpToDate(t)
  BY <1>0, <1>2 DEF Followed
<1>5. /\ b.opt \in Int /\ b.pes \in Int /\ b.infer \in BOOLEAN
      /\ b.opt <= Distance[t] /\ Distance[t] <= b.pes
      /\ ~b.infer => parts[t] = Boxes(t)
  BY <1>0, <1>2, <1>3, <1>4, BoundIsRight
<1>6. ~b.infer => Complete(t)
  BY <1>0, <1>2, <1>4, <1>5, LinksReachAll DEF Complete
<1>7. /\ pes' \in Seq(Judged) /\ Least'
      /\ except \subseteq except' /\ except' \subseteq except \cup {t}
      /\ ExceptedAreFar'
  BY <1>0, <1>2, <1>3, <1>5, JudgeKeeps
<1>8. /\ world' = world /\ query' = query /\ Distance' = Distance
      /\ \A u : Boxes(u)' = Boxes(u)
      /\ parts' = parts /\ missing' = missing /\ loaded' = loaded
  BY <1>0, WorldStays
<1>9. \A u : (UpToDate(u) => UpToDate(u)') /\ (Complete(u) => Complete(u)')
  <2>1. \A u : BoxesRead(u)' = BoxesRead(u)
    BY <1>8 DEF BoxesRead
  <2>2. \A u : Linked(u)' = Linked(u)
    BY <1>8 DEF Linked, Neighbours
  <2> QED
    BY <1>8, <2>1, <2>2 DEF UpToDate, Complete
<1>10. /\ DOMAIN mpq' = DOMAIN mpq \cup {t} /\ mpq' \in [DOMAIN mpq \cup {t} -> Bounds]
       /\ mpq'[t].opt = b.opt /\ mpq'[t].pes = b.pes
       /\ mpq'[t].type = IF b.infer THEN 2 ELSE 3
       /\ \A u \in DOMAIN mpq \ {t} : mpq'[u] = mpq[u]
  BY <1>0, <1>2, <1>3, <1>5 DEF Kinds, Bounds, With
<1>11. Kinds'
  BY <1>0, <1>2, <1>3, <1>7, <1>8, <1>10 DEF Kinds
<1>12. HandFits' /\ FirstIsLeast' /\ ~InHand' /\ ~AtCandidate' /\ \A u : ~Looked(u)'
  BY <1>0 DEF HandFits, FirstIsLeast, InHand, AtNode, AtCandidate, Looked
<1>13. Covered'
  BY <1>0, CoveredStays
<1>14. Followed'
  <2>1. \A u \in DOMAIN mpq' : mpq'[u].type >= 3 => Complete(u)
    BY <1>0, <1>5, <1>6, <1>10 DEF Followed
  <2>2. \A u \in Traj \ except' : UpToDate(u)
    BY <1>0, <1>7 DEF Followed
  <2> QED
    BY <1>9, <1>12, <2>1, <2>2 DEF Followed
<1>15. Placed'
  <2>1. Reported' = Reported /\ ~InHand
    BY <1>0 DEF Reported, InHand
  <2>2. Placed /\ pc \notin Ended
    BY <1>0 DEF Ended
  <2>3. \A u \in Traj :
          parts[u] = {} \/ u \in fresh' \/ u \in DOMAIN mpq' \/ u \in Reported \/ u \in except'
    BY <1>3, <1>7, <1>10, <2>1, <2>2 DEF Placed
  <2>4. \A u \in fresh' \cup DOMAIN mpq' \cup Reported \cup except' : parts[u] # {}
    BY <1>2, <1>3, <1>7, <1>10, <2>2 DEF Placed
  <2>5. Reported \cap (fresh' \cup DOMAIN mpq') = {} /\ fresh' \cap except' = {}
    BY <1>2, <1>3, <1>7, <1>10, <2>2 DEF Placed
  <2> QED
    BY <1>8, <1>12, <2>1, <2>3, <2>4, <2>5 DEF Placed
<1>16. Bracketed'
  <2>1. \A u \in DOMAIN mpq' : Bracket(mpq'[u], u) /\ (mpq'[u].type = 4 => mpq'[u].opt = Distance[u])
    BY <1>0, <1>5, <1>10 DEF Bracketed, Bracket
  <2> QED
    BY <1>8, <1>12, <2>1 DEF Bracketed, Bracket
<1> QED
  BY <1>7, <1>11, <1>12, <1>13, <1>14, <1>15, <1>16 DEF Invariant

(* The first loop of loadLeaf, of a leaf that has not been read. *)
Met(leaf) == {t \in Traj \ except : BoxesIn(t, leaf) # {}}
LinkedIn(t, leaf) ==
  {world[t].box[j].leaf : j \in UNION {Neighbours(t, i) : i \in BoxesIn(t, leaf)}}

LEMMA LoadLeafIs ==
  ASSUME Kinds, NEW leaf \in Leaf, LoadLeaf(leaf)
  PROVE  /\ loaded' = loaded \cup {leaf}
         /\ \A t \in Met(leaf) : /\ parts'[t] = parts[t] \cup BoxesIn(t, leaf)
                                 /\ missing'[t] = (missing[t] \cup (LinkedIn(t, leaf) \ loaded)) \ {leaf}
         /\ \A t \in Traj \ Met(leaf) : parts'[t] = parts[t] /\ missing'[t] = missing[t]
         /\ fresh' = {t \in Met(leaf) : parts[t] = {}}
         /\ pc' = (IF fresh' = {} THEN "loop" ELSE "leaf") /\ first' = NoEntry
         /\ parts' \in [Traj -> SUBSET Nat] /\ missing' \in [Traj -> SUBSET Leaf]
         /\ \A t \in Traj : parts'[t] \subseteq Boxes(t)
<1>1. /\ loaded' = loaded \cup {leaf}
      /\ parts' = [t \in Traj |-> IF t \in Met(leaf) THEN parts[t] \cup BoxesIn(t, leaf) ELSE parts[t]]
      /\ missing' = [t \in Traj |-> IF t \in Met(leaf)
                       THEN (missing[t] \cup (LinkedIn(t, leaf) \ loaded)) \ {leaf} ELSE missing[t]]
      /\ fresh' = {t \in Met(leaf) : parts[t] = {}}
      /\ pc' = (IF fresh' = {} THEN "loop" ELSE "leaf") /\ first' = NoEntry
  BY Zenon DEF LoadLeaf, Met, LinkedIn
<1>2. Met(leaf) \subseteq Traj
  BY DEF Met
<1>3. \A t \in Traj : /\ Boxes(t) \subseteq Nat
                      /\ \A i \in Boxes(t) : world[t].box[i].leaf \in Leaf
  BY WorldFacts, ShapeFacts
<1>4. \A t \in Traj : BoxesIn(t, leaf) \subseteq Boxes(t) /\ LinkedIn(t, leaf) \subseteq Leaf
  BY <1>3 DEF BoxesIn, LinkedIn, Neighbours
<1>5. \A t \in Traj : parts[t] \subseteq Boxes(t) /\ missing[t] \subseteq Leaf
  BY DEF Kinds
<1>6. \A t \in Traj : parts'[t] \subseteq Boxes(t) /\ missing'[t] \subseteq Leaf
  BY <1>1, <1>4, <1>5
<1>7. parts' \in [Traj -> SUBSET Nat]
  <2>1. \A t \in Traj : parts'[t] \in SUBSET Nat
    BY <1>3, <1>6
  <2> QED
    BY <1>1, <2>1
<1>8. missing' \in [Traj -> SUBSET Leaf]
  BY <1>1, <1>6
<1> QED
  BY <1>1, <1>2, <1>6, <1>7, <1>8

(* What loadLeaf reads of a trajectory and what it then lacks.             *)
LEMMA LoadKeepsUpToDate ==
  ASSUME Invariant, UNCHANGED rigid, NEW leaf \in Leaf, leaf \notin loaded, LoadLeaf(leaf),
         NEW t \in Traj, t \notin except
  PROVE  UpToDate(t)'
<1>1. UpToDate(t) /\ Kinds
  BY DEF Invariant, Followed
<1>2. /\ world' = world /\ Boxes(t)' = Boxes(t) /\ loaded' = loaded \cup {leaf}
      /\ parts[t] = BoxesRead(t) /\ missing[t] = Linked(t) \ loaded
  BY <1>1, WorldStays, LoadLeafIs DEF UpToDate
<1>3. BoxesRead(t)' = BoxesRead(t) \cup BoxesIn(t, leaf)
  BY <1>2 DEF BoxesRead, BoxesIn
<1>5. CASE t \in Met(leaf)
  <2>1. /\ parts'[t] = parts[t] \cup BoxesIn(t, leaf)
        /\ missing'[t] = (missing[t] \cup (LinkedIn(t, leaf) \ loaded)) \ {leaf}
    BY <1>1, <1>5, LoadLeafIs
  <2>2. Linked(t)' = Linked(t) \cup LinkedIn(t, leaf)
    <3>1. \A i : Neighbours(t, i)' = Neighbours(t, i)
      BY <1>2 DEF Neighbours
    <3>2. Linked(t)' = {world[t].box[j].leaf : j \in UNION {Neighbours(t, i) : i \in parts[t] \cup BoxesIn(t, leaf)}}
      BY <1>2, <2>1, <3>1 DEF Linked
    <3>3. \A x : x \in Linked(t) <=> \E i \in parts[t] : \E j \in Neighbours(t, i) : x = world[t].box[j].leaf
      BY DEF Linked
    <3>4. \A x : x \in LinkedIn(t, leaf) <=>
            \E i \in BoxesIn(t, leaf) : \E j \in Neighbours(t, i) : x = world[t].box[j].leaf
      BY DEF LinkedIn
    <3>5. \A x : x \in Linked(t)' <=>
            \E i \in parts[t] \cup BoxesIn(t, leaf) : \E j \in Neighbours(t, i) : x = world[t].box[j].leaf
      BY <3>2
    <3>6. \A x : x \in Linked(t)' <=> x \in Linked(t) \cup LinkedIn(t, leaf)
      BY <3>3, <3>4, <3>5
    <3> QED
      BY <3>6
  <2>3. missing'[t] = (Linked(t) \cup LinkedIn(t, leaf)) \ (loaded \cup {leaf})
    BY <1>2, <2>1
  <2> QED
    BY <1>2, <1>3, <2>1, <2>2, <2>3 DEF UpToDate
<1>6. CASE t \notin Met(leaf)
  <2>1. BoxesIn(t, leaf) = {}
    BY <1>6 DEF Met
  <2>2. parts'[t] = parts[t] /\ missing'[t] = missing[t]
    BY <1>1, <1>6, LoadLeafIs
  <2>3. Linked(t)' = Linked(t)
    <3>1. \A i : Neighbours(t, i)' = Neighbours(t, i)
      BY <1>2 DEF Neighbours
    <3> QED
      BY <1>2, <2>2, <3>1 DEF Linked
  <2>4. leaf \notin Linked(t)
    BY <2>1 DEF Linked, BoxesIn, Neighbours
  <2> QED
    BY <1>2, <1>3, <2>1, <2>2, <2>3, <2>4 DEF UpToDate
<1> QED
  BY <1>5, <1>6

LEMMA LoadKeepsComplete ==
  ASSUME Invariant, UNCHANGED rigid, NEW leaf \in Leaf, leaf \notin loaded, LoadLeaf(leaf),
         NEW t \in Traj, Complete(t)
  PROVE  Complete(t)'
<1>1. Kinds /\ parts[t] = Boxes(t) /\ missing[t] = {} /\ Boxes(t)' = Boxes(t)
  BY WorldStays DEF Invariant, Complete
<1>2. CASE t \in except
  BY <1>1, <1>2, LoadLeafIs DEF Met, Complete
<1>3. CASE t \notin except
  <2>1. parts[t] = BoxesRead(t)
    BY <1>3 DEF Invariant, Followed, UpToDate
  <2>2. BoxesIn(t, leaf) = {}
    BY <1>1, <2>1 DEF BoxesRead, BoxesIn
  <2> QED
    BY <1>1, <2>2, LoadLeafIs DEF Met, Complete
<1> QED
  BY <1>2, <1>3

LEMMA LoadLeafKeeps ==
  ASSUME Invariant, pc = "visit", NEW leaf \in Leaf, leaf \notin loaded, LoadLeaf(leaf),
         UNCHANGED <<rigid, caller, lastid, btopnode, mpq, best, reported>>,
         DOMAIN nodespq' \subseteq Node, nodespq' \in [DOMAIN nodespq' -> Nat], Covered'
  PROVE  Invariant'
<1>0. Kinds /\ HandFits /\ Followed /\ Placed /\ Bracketed /\ Least /\ ExceptedAreFar
  BY DEF Invariant
<1>1. /\ loaded' = loaded \cup {leaf}
      /\ \A t \in Met(leaf) : parts'[t] = parts[t] \cup BoxesIn(t, leaf)
      /\ \A t \in Traj \ Met(leaf) : parts'[t] = parts[t]
      /\ fresh' = {t \in Met(leaf) : parts[t] = {}}
      /\ pc' = (IF fresh' = {} THEN "loop" ELSE "leaf") /\ first' = NoEntry
      /\ parts' \in [Traj -> SUBSET Nat] /\ missing' \in [Traj -> SUBSET Leaf]
      /\ \A t \in Traj : parts'[t] \subseteq Boxes(t)
  BY <1>0, LoadLeafIs
<1>2. Met(leaf) \subseteq Traj \ except /\ \A t \in Met(leaf) : BoxesIn(t, leaf) # {}
  BY DEF Met
<1>3. /\ world' = world /\ query' = query /\ Distance' = Distance
      /\ \A t : Boxes(t)' = Boxes(t)
      /\ pes' = pes /\ except' = except
  BY WorldStays DEF best
<1>4. Kinds'
  BY <1>0, <1>1, <1>2, <1>3 DEF Kinds
<1>5. HandFits' /\ FirstIsLeast' /\ ~InHand' /\ ~AtCandidate' /\ \A t : ~Looked(t)'
  BY <1>1 DEF HandFits, FirstIsLeast, InHand, AtNode, AtCandidate, Looked
<1>6. Least' /\ ExceptedAreFar'
  BY <1>0, BestStays
<1>7. Followed'
  <2>1. \A t \in Traj \ except : UpToDate(t)'
    BY LoadKeepsUpToDate
  <2>2. \A t \in DOMAIN mpq : mpq[t].type >= 3 => Complete(t)'
    BY <1>0, LoadKeepsComplete DEF Followed, Kinds
  <2> QED
    BY <1>3, <1>5, <2>1, <2>2 DEF Followed
<1>8. Placed'
  <2>1. Reported' = Reported /\ pc \notin Ended /\ ~InHand /\ fresh = {}
    BY <1>0 DEF Reported, InHand, Ended, HandFits
  <2>2. \A t \in Traj : parts[t] # {} => parts'[t] # {}
    BY <1>1
  <2>3. \A t \in Traj :
          parts'[t] = {} \/ t \in fresh' \/ t \in DOMAIN mpq \/ t \in Reported \/ t \in except
    BY <1>0, <1>1, <2>1 DEF Placed
  <2>4. \A t \in DOMAIN mpq \cup Reported \cup except : t \in Traj /\ parts[t] # {}
    <3>1. Reported \subseteq Traj
      BY <1>0, LenProperties, ElementOfSeq DEF Reported, Kinds
    <3> QED
      BY <1>0, <3>1 DEF Placed, Kinds
  <2>5. \A t \in fresh' : t \in Traj /\ parts[t] = {} /\ parts'[t] # {} /\ t \notin except
    BY <1>1, <1>2
  <2>6. Reported \cap DOMAIN mpq = {}
    BY <1>0 DEF Placed
  <2> QED
    BY <1>3, <1>5, <2>1, <2>2, <2>3, <2>4, <2>5, <2>6 DEF Placed
<1>9. Bracketed'
  BY <1>0, <1>3, <1>5 DEF Bracketed, Bracket
<1> QED
  BY <1>4, <1>5, <1>6, <1>7, <1>8, <1>9 DEF Invariant

-----------------------------------------------------------------------------
(* A node is looked at and nothing is read.                                *)
LEMMA NodesKeep ==
  ASSUME Invariant, pc = "visit", pc' = "loop", first' = NoEntry,
         UNCHANGED <<rigid, caller, lastid, btopnode, mpq, store, reported>>,
         DOMAIN nodespq' \subseteq Node, nodespq' \in [DOMAIN nodespq' -> Nat], Covered'
  PROVE  Invariant'
<1>0. Kinds /\ HandFits /\ Followed /\ Placed /\ Bracketed /\ Least /\ ExceptedAreFar
  BY DEF Invariant
<1>1. /\ world' = world /\ query' = query /\ Distance' = Distance
      /\ \A t : Boxes(t)' = Boxes(t)
      /\ pes' = pes /\ except' = except
  BY WorldStays DEF store, best
<1>2. /\ parts' = parts /\ missing' = missing /\ loaded' = loaded /\ fresh' = fresh
      /\ \A t : (UpToDate(t) => UpToDate(t)') /\ (Complete(t) => Complete(t)')
  BY LeavesStay DEF store
<1>3. Kinds'
  BY <1>0, <1>1, <1>2 DEF Kinds
<1>4. HandFits' /\ FirstIsLeast' /\ ~InHand /\ ~InHand' /\ ~AtCandidate' /\ \A t : ~Looked(t)'
  BY <1>0, <1>2 DEF HandFits, FirstIsLeast, InHand, AtNode, AtCandidate, Looked
<1>5. Least' /\ ExceptedAreFar'
  BY <1>0, BestStays DEF store
<1>6. Followed'
  BY <1>0, <1>1, <1>2, <1>4 DEF Followed
<1>7. Placed'
  <2>1. Reported' = Reported /\ pc \notin Ended
    BY DEF Reported, Ended
  <2> QED
    BY <1>0, <1>1, <1>2, <1>4, <2>1 DEF Placed
<1>8. Bracketed'
  BY <1>0, <1>1, <1>4 DEF Bracketed, Bracket
<1> QED
  BY <1>3, <1>4, <1>5, <1>6, <1>7, <1>8 DEF Invariant

LEMMA VisitInnerKeeps == Invariant /\ VisitInner => Invariant'
<1> SUFFICES ASSUME Invariant, VisitInner
             PROVE  Invariant'
  OBVIOUS
<1>0. /\ UNCHANGED <<rigid, caller, lastid, btopnode, mpq, store, reported>>
      /\ pc = "visit" /\ first.type = 0 /\ pc' = "loop" /\ first' = NoEntry
      /\ Kinds /\ HandFits /\ Covered
  BY DEF VisitInner, Visit, Done, Invariant
<1>1. PICK p : p = first.id
  OBVIOUS
<1>2. p \in DOMAIN nodespq /\ p \in Inner
  <2>1. first.id \in DOMAIN nodespq /\ first.id \notin Leaf
    BY <1>0 DEF HandFits, AtNode
  <2> QED
    BY <1>0, <1>1, <2>1 DEF Kinds, Node
<1>3. PICK near : near = {c \in Children[p] : NodeDist(c) < Huge}
  OBVIOUS
<1>4. near \subseteq Node /\ \A c \in near : NodeDist(c) \in Nat
  BY <1>0, <1>2, <1>3, NodeAssumption, NodeDistIs DEF Node
<1>5. nodespq' = [n \in near \cup (DOMAIN nodespq \ {p}) |->
                    IF n \in near THEN NodeDist(n) ELSE nodespq[n]]
  BY <1>1, <1>3 DEF VisitInner, Expanded
<1>6. /\ \A t, l : BoxesIn(t, l)' = BoxesIn(t, l)
      /\ \A n : NodeDist(n)' = NodeDist(n)
      /\ loaded' = loaded
  BY <1>0, WorldStays DEF store, leaves
<1>7. DOMAIN nodespq' \subseteq Node /\ nodespq' \in [DOMAIN nodespq' -> Nat]
  BY <1>0, <1>4, <1>5 DEF Kinds
<1>8. Covered'
  <2>1. ASSUME NEW l \in Leaf \ loaded, NEW t \in Traj, BoxesIn(t, l) # {}
        PROVE  \E n \in DOMAIN nodespq' : l \in Under[n]
    <3>1. PICK n \in DOMAIN nodespq : l \in Under[n]
      BY <1>0, <2>1 DEF Covered
    <3>2. CASE n # p
      BY <1>5, <3>1, <3>2
    <3>3. CASE n = p
      <4>0. Under[p] = UNION {Under[m] : m \in Children[p]}
        BY <1>2, NodeAssumption
      <4>1. PICK c \in Children[p] : l \in Under[c]
        BY <3>1, <3>3, <4>0
      <4>2. c \in Node
        BY <1>2, NodeAssumption DEF Node
      <4>3. PICK i \in Boxes(t) : world[t].box[i].leaf = l
        BY <2>1 DEF BoxesIn
      <4>4. NodeDist(c) < Huge
        BY <1>0, <4>1, <4>2, <4>3, NodeDistIs
      <4> QED
        BY <1>3, <1>5, <4>1, <4>4
    <3> QED
      BY <3>2, <3>3
  <2>2. \A n \in DOMAIN nodespq' : nodespq'[n] <= NodeDist(n)
    <3>1. \A n \in DOMAIN nodespq : nodespq[n] <= NodeDist(n)
      BY <1>0 DEF Covered
    <3> QED
      BY <1>4, <1>5, <3>1
  <2> QED
    BY <1>6, <2>1, <2>2 DEF Covered
<1> QED
  BY <1>0, <1>7, <1>8, NodesKeep

(* Reading a leaf, and taking it from the queue or not, keeps the leaves   *)
(* left covered.                                                           *)
LEMMA ReadLeafCovered ==
  ASSUME Kinds, Covered, UNCHANGED rigid, NEW leaf \in Leaf, loaded' = loaded \cup {leaf},
         nodespq' = nodespq \/ nodespq' = Without(nodespq, leaf)
  PROVE  DOMAIN nodespq' \subseteq Node /\ nodespq' \in [DOMAIN nodespq' -> Nat] /\ Covered'
<1>1. /\ \A t, l : BoxesIn(t, l)' = BoxesIn(t, l)
      /\ \A n : NodeDist(n)' = NodeDist(n)
  BY WorldStays
<1>2. /\ DOMAIN nodespq \ {leaf} \subseteq DOMAIN nodespq' /\ DOMAIN nodespq' \subseteq DOMAIN nodespq
      /\ nodespq' \in [DOMAIN nodespq' -> Nat]
      /\ \A n \in DOMAIN nodespq' : nodespq'[n] = nodespq[n]
  BY DEF Without, Kinds
<1>3. DOMAIN nodespq' \subseteq Node
  BY <1>2 DEF Kinds
<1>4. Under[leaf] = {leaf}
  BY NodeAssumption
<1>5. ASSUME NEW l \in Leaf \ loaded', NEW t \in Traj, BoxesIn(t, l) # {}
      PROVE  \E n \in DOMAIN nodespq' : l \in Under[n]
  <2>1. PICK n \in DOMAIN nodespq : l \in Under[n]
    BY <1>5 DEF Covered
  <2> QED
    BY <1>2, <1>4, <1>5, <2>1
<1>6. \A n \in DOMAIN nodespq' : nodespq'[n] <= NodeDist(n)
  BY <1>2 DEF Covered
<1> QED
  BY <1>1, <1>2, <1>3, <1>5, <1>6 DEF Covered

LEMMA VisitLeafKeeps == Invariant /\ VisitLeaf => Invariant'
<1> SUFFICES ASSUME Invariant, VisitLeaf
             PROVE  Invariant'
  OBVIOUS
<1>0. /\ UNCHANGED <<rigid, caller, lastid, btopnode, mpq, best, reported>>
      /\ pc = "visit" /\ first.type = 1
      /\ Kinds /\ HandFits /\ Covered
  BY DEF VisitLeaf, Visit, Invariant
<1>1. PICK leaf : leaf = first.id
  OBVIOUS
<1>2. leaf \in Leaf
  BY <1>0, <1>1 DEF HandFits, AtNode
<1>3. nodespq' = Without(nodespq, leaf)
  BY <1>1 DEF VisitLeaf
<1>4. CASE leaf \in loaded
  <2>1. pc' = "loop" /\ first' = NoEntry /\ UNCHANGED leaves
    BY <1>1, <1>4 DEF VisitLeaf, Done
  <2>2. loaded' = loaded \cup {leaf}
    BY <1>4, <2>1 DEF leaves
  <2>3. DOMAIN nodespq' \subseteq Node /\ nodespq' \in [DOMAIN nodespq' -> Nat] /\ Covered'
    BY <1>0, <1>2, <1>3, <2>2, ReadLeafCovered
  <2> QED
    BY <1>0, <2>1, <2>3, NodesKeep DEF store
<1>5. CASE leaf \notin loaded
  <2>1. LoadLeaf(leaf)
    BY <1>1, <1>5 DEF VisitLeaf
  <2>2. loaded' = loaded \cup {leaf}
    BY <1>0, <1>2, <2>1, LoadLeafIs
  <2>3. DOMAIN nodespq' \subseteq Node /\ nodespq' \in [DOMAIN nodespq' -> Nat] /\ Covered'
    BY <1>0, <1>2, <1>3, <2>2, ReadLeafCovered
  <2> QED
    BY <1>0, <1>2, <1>5, <2>1, <2>3, LoadLeafKeeps
<1> QED
  BY <1>4, <1>5

LEMMA LoadMissingKeeps == Invariant /\ LoadMissing => Invariant'
<1> SUFFICES ASSUME Invariant, LoadMissing
             PROVE  Invariant'
  OBVIOUS
<1>0. /\ UNCHANGED <<rigid, caller, lastid, btopnode, nodespq, mpq, best, reported>>
      /\ pc = "visit" /\ first.type = 2 /\ AtCandidate
      /\ Kinds /\ HandFits /\ Covered /\ Followed
  BY DEF LoadMissing, Visit, Invariant, AtCandidate
<1>1. first.id \in DOMAIN mpq /\ Looked(first.id)
  BY <1>0 DEF HandFits, Looked
<1>2. CASE missing[first.id] = {}
  <2>1. pc' = "thrown" /\ UNCHANGED <<first, leaves>>
    BY <1>2 DEF LoadMissing
  <2>2. Kinds'
    BY <1>0, <2>1 DEF Kinds, Ended, rigid, store, leaves, best, Boxes
  <2>3. HandFits'
    BY <1>0, <2>1 DEF HandFits, InHand, AtNode, AtCandidate, store, leaves
  <2>4. FirstIsLeast' /\ ~InHand /\ ~InHand' /\ ~AtCandidate' /\ pc \notin Ended
    BY <1>0, <2>1 DEF FirstIsLeast, AtCandidate, InHand, Ended
  <2>5. \A t : ~Looked(t)'
    BY <2>1, <2>4 DEF Looked
  <2> QED
    BY <1>0, <2>1, <2>2, <2>3, <2>4, <2>5, QuietStep DEF store
<1>3. CASE missing[first.id] # {}
  <2>1. PICK leaf \in missing[first.id] : LoadLeaf(leaf)
    BY <1>3 DEF LoadMissing
  <2>2. leaf \in Leaf /\ leaf \notin loaded
    <3>1. missing[first.id] \subseteq Leaf
      BY <1>0, <1>1 DEF Kinds
    <3>2. UpToDate(first.id)
      BY <1>0, <1>1, <1>3 DEF Followed, Complete
    <3> QED
      BY <2>1, <3>1, <3>2 DEF UpToDate
  <2>3. loaded' = loaded \cup {leaf}
    BY <1>0, <2>1, <2>2, LoadLeafIs
  <2>4. DOMAIN nodespq' \subseteq Node /\ nodespq' \in [DOMAIN nodespq' -> Nat] /\ Covered'
    BY <1>0, <2>2, <2>3, ReadLeafCovered
  <2> QED
    BY <1>0, <2>1, <2>2, <2>4, LoadLeafKeeps
<1> QED
  BY <1>2, <1>3

-----------------------------------------------------------------------------
(* The invariant is inductive.                                             *)
LEMMA InitInvariant == Init => Invariant
<1> SUFFICES ASSUME Init
             PROVE  Invariant
  OBVIOUS
<1>0. /\ world \in [Traj -> Shapes]
      /\ query \in [k : Ks, measure : {"RMDTW", "IED"}, loadleaf : BOOLEAN]
      /\ pc = "loop" /\ caller = "query" /\ first = NoEntry /\ lastid = NoId /\ btopnode = FALSE
      /\ nodespq = [n \in {Root} |-> 0] /\ mpq = <<>>
      /\ parts = [t \in Traj |-> {}] /\ missing = [t \in Traj |-> {}]
      /\ loaded = {} /\ fresh = {} /\ pes = <<>> /\ except = {} /\ reported = <<>>
  BY DEF Init
<1>1. DOMAIN mpq = {} /\ mpq \in [{} -> Bounds]
  <2>1. <<>> \in Seq(Bounds) /\ Len(<<>>) = 0
    BY EmptySeq
  <2>2. <<>> \in [{} -> Bounds] /\ DOMAIN <<>> = {}
    BY <2>1, LenProperties
  <2> QED
    BY <1>0, <2>2
<1>2. pes \in Seq(Judged) /\ reported \in Seq(Traj) /\ Len(pes) = 0 /\ DOMAIN pes = {} /\ Reported = {}
  <2>1. pes \in Seq(Judged) /\ Len(pes) = 0 /\ reported \in Seq(Traj) /\ Len(reported) = 0
    BY <1>0, EmptySeq
  <2>2. DOMAIN pes = {} /\ DOMAIN reported = {}
    BY <2>1, LenProperties
  <2> QED
    BY <2>1, <2>2 DEF Reported
<1>3. Root \in Node
  BY NodeAssumption DEF Node
<1>4. DOMAIN nodespq = {Root} /\ nodespq \in [{Root} -> Nat] /\ nodespq[Root] = 0
  BY <1>0
<1>5. \A t \in Traj : parts[t] = {} /\ missing[t] = {}
  BY <1>0
<1>6. parts \in [Traj -> SUBSET Nat] /\ missing \in [Traj -> SUBSET Leaf]
  BY <1>0
<1>7. Kinds
  BY <1>0, <1>1, <1>2, <1>3, <1>4, <1>5, <1>6 DEF Kinds
<1>8. /\ HandFits /\ FirstIsLeast /\ ~InHand /\ ~AtCandidate /\ \A t : ~Looked(t)
  BY <1>0 DEF HandFits, FirstIsLeast, InHand, AtNode, AtCandidate, Looked
<1>9. Covered
  <2>1. \A l \in Leaf : l \in Under[Root]
    BY NodeAssumption
  <2>2. NodeDist(Root) \in Nat
    BY <1>3, <1>7, NodeDistIs
  <2> QED
    BY <1>4, <2>1, <2>2 DEF Covered
<1>10. Followed
  <2>1. \A t \in Traj : BoxesRead(t) = {} /\ Linked(t) = {}
    BY <1>0, <1>5 DEF BoxesRead, Linked
  <2> QED
    BY <1>0, <1>1, <1>5, <1>8, <2>1 DEF Followed, UpToDate
<1>11. Placed
  BY <1>0, <1>1, <1>2, <1>5, <1>8 DEF Placed
<1>12. Bracketed
  BY <1>1, <1>8 DEF Bracketed
<1>13. Least /\ ExceptedAreFar
  <2>1. query.k \in Nat
    BY <1>0, NumberAssumption
  <2> QED
    BY <1>0, <1>2, <2>1 DEF Least, ExceptedAreFar
<1> QED
  BY <1>7, <1>8, <1>9, <1>10, <1>11, <1>12, <1>13 DEF Invariant

LEMMA StutterKeeps == Invariant /\ UNCHANGED vars => Invariant'
<1> SUFFICES ASSUME Invariant, UNCHANGED vars
             PROVE  Invariant'
  OBVIOUS
<1> USE DEF vars
<1>1. Kinds'
  BY DEF Invariant, Kinds, Ended, Boxes
<1>2. HandFits' /\ FirstIsLeast'
  BY DEF Invariant, HandFits, FirstIsLeast, InHand, AtNode, AtCandidate, Candidate
<1>3. (InHand' <=> InHand) /\ \A t : Looked(t)' => Looked(t)
  BY DEF InHand, Looked, AtCandidate
<1>4. UNCHANGED <<rigid, nodespq, mpq, store, reported>>
  BY DEF rigid, store, leaves, best
<1>5. \A t \in DOMAIN mpq : Looked(t)' => UpToDate(t) \/ Complete(t)
  BY <1>3 DEF Invariant, Followed
<1> QED
  BY <1>1, <1>2, <1>3, <1>4, <1>5, QuietStep

LEMMA NextInvariant == Invariant /\ [Next]_vars => Invariant'
BY ExhaustedKeeps, TakeNodeKeeps, TakeTopKeeps, TopNodeKeeps, TopOfNothingKeeps,
   TopCandidateKeeps, TopDropsKeeps, TopUpdatesKeeps, StopKeeps, VisitInnerKeeps,
   VisitLeafKeeps, LoadMissingKeeps, QueueFreshKeeps, AskForNodeKeeps, ReportLastKeeps,
   PopAndCompareKeeps, ReportExactKeeps, StutterKeeps DEF Next

(* Every reachable state satisfies the invariant. *)
THEOREM InvariantHolds == Spec => []Invariant
BY InitInvariant, NextInvariant, PTL DEF Spec

(* A candidate that counts has followed its links, or has all its boxes. *)
LEMMA LiveIsFollowed ==
  ASSUME Invariant, NEW t \in Live
  PROVE  t \in Traj /\ parts[t] # {} /\ (UpToDate(t) \/ Complete(t))
<1>0. Kinds /\ HandFits /\ Followed /\ Placed
  BY DEF Invariant
<1>1. t \in DOMAIN mpq /\ t \in Traj /\ t \in Nat
  BY <1>0, TrajAssumption DEF Live, Kinds
<1>2. parts[t] # {}
  BY <1>0, <1>1 DEF Placed
<1>3. CASE t \notin except
  BY <1>0, <1>1, <1>2, <1>3 DEF Followed
<1>4. CASE pc = "visit" /\ first.type >= 2 /\ first.id = t
  <2>1. first # NoEntry
    BY <1>1, <1>4 DEF NoEntry, NoId
  <2>2. first.type \in 0 .. 4
    BY <1>0, <2>1 DEF Kinds, Entry
  <2>3. Looked(t)
    BY <1>4, <2>2 DEF Looked, AtCandidate
  <2> QED
    BY <1>0, <1>1, <1>2, <2>3 DEF Followed
<1> QED
  BY <1>3, <1>4 DEF Live

(* The types, and m_pes never holds more than k bounds. *)
THEOREM TypeCorrect == Spec => []TypeOK
<1>1. Invariant => TypeOK
  <2> SUFFICES ASSUME Invariant
               PROVE  TypeOK
    OBVIOUS
  <2>1. Kinds /\ Bracketed /\ Least
    BY DEF Invariant
  <2>2. \A t \in DOMAIN mpq : mpq[t].type \in 2 .. 4 /\ mpq[t].opt <= mpq[t].pes
    <3> SUFFICES ASSUME NEW t \in DOMAIN mpq
                 PROVE  mpq[t].type \in 2 .. 4 /\ mpq[t].opt <= mpq[t].pes
      OBVIOUS
    <3>1. mpq[t] \in Bounds /\ t \in Traj
      BY <2>1 DEF Kinds
    <3>2. Distance[t] \in Nat
      BY <2>1, <3>1, WorldFacts
    <3>3. mpq[t].opt <= Distance[t] /\ Distance[t] <= mpq[t].pes
      BY <2>1 DEF Bracketed, Bracket
    <3> QED
      BY <3>1, <3>2, <3>3 DEF Bounds
  <2> QED
    BY <2>1, <2>2 DEF TypeOK, Kinds, Least
<1> QED
  BY <1>1, InvariantHolds, PTL

(* An excepted trajectory is no answer: k others are strictly nearer. *)
THEOREM ExceptedIsFar == Spec => []ExceptedAreFar
<1>1. Invariant => ExceptedAreFar
  BY DEF Invariant
<1> QED
  BY <1>1, InvariantHolds, PTL

(* A candidate lacks a leaf exactly when it lacks a box, and no leaf twice. *)
THEOREM MissingIsIncomplete == Spec => []MissingMeansIncomplete
<1>1. Invariant => MissingMeansIncomplete
  <2> SUFFICES ASSUME Invariant, NEW t \in Live
               PROVE  /\ missing[t] = {} <=> parts[t] = Boxes(t)
                      /\ missing[t] \cap loaded = {}
    BY DEF MissingMeansIncomplete
  <2>1. Kinds /\ t \in Traj /\ parts[t] # {} /\ (UpToDate(t) \/ Complete(t))
    BY LiveIsFollowed DEF Invariant
  <2>2. CASE Complete(t)
    BY <2>2 DEF Complete
  <2>3. CASE UpToDate(t)
    <3>1. missing[t] = {} <=> parts[t] = Boxes(t)
      BY <2>1, <2>3, LinksReachAll
    <3> QED
      BY <2>3, <3>1 DEF UpToDate
  <2> QED
    BY <2>1, <2>2, <2>3
<1> QED
  BY <1>1, InvariantHolds, PTL

(* While a candidate that counts lacks boxes, a node waits. *)
THEOREM GapHasNode == Spec => []NodeForEveryGap
<1>1. Invariant => NodeForEveryGap
  <2> SUFFICES ASSUME Invariant, NEW t \in Live, parts[t] # Boxes(t)
               PROVE  nodespq # <<>>
    BY DEF NodeForEveryGap
  <2>1. Kinds /\ Covered /\ t \in Traj /\ UpToDate(t)
    BY LiveIsFollowed DEF Invariant, Complete
  <2>2. parts[t] = BoxesRead(t)
    BY <2>1 DEF UpToDate
  <2>3. DOMAIN nodespq # {}
    BY <2>1, <2>2, NoNodeAllRead
  <2> QED
    BY <2>1, <2>3, EmptyQueue DEF Kinds
<1> QED
  BY <1>1, InvariantHolds, PTL

-----------------------------------------------------------------------------
(* The search implements KNearest.                                         *)
LEMMA SomeBox == \A s \in Shapes : BoxesOf(s) # {}
<1> SUFFICES ASSUME NEW s \in Shapes, BoxesOf(s) = {}
             PROVE  FALSE
  OBVIOUS
<1>1. WidthOf(s) \in [BoxesOf(s) -> Int] /\ IsFiniteSet(BoxesOf(s)) /\ BoxesOf(s) \in SUBSET BoxesOf(s)
  BY SumFacts, ShapeFacts
<1>2. SumFunctionOnSet(WidthOf(s), BoxesOf(s)) = 0
  BY <1>1, SumStep
<1>3. SumFunctionOnSet(WidthOf(s), BoxesOf(s)) = Slots
  BY SumFacts
<1> QED
  BY <1>2, <1>3, NumberAssumption

(* Nothing of t has been read: a node waits that is queued with no more    *)
(* than t's distance.                                                      *)
LEMMA UnreadWaits ==
  ASSUME Kinds, Covered, NEW t \in Traj, UpToDate(t), parts[t] = {}
  PROVE  \E n \in DOMAIN nodespq : nodespq[n] <= Distance[t]
<1>1. /\ world[t] \in Shapes /\ Boxes(t) = BoxesOf(world[t])
      /\ Excess(t) \in Nat /\ Excess(t) <= world[t].distance
      /\ Distance[t] = world[t].distance - Excess(t) /\ world[t].distance \in Nat
  BY WorldFacts, ShapeFacts
<1>2. parts[t] = BoxesRead(t) /\ Boxes(t) # {}
  BY <1>1, SomeBox DEF UpToDate
<1>3. DOMAIN nodespq # {}
  BY <1>2, NoNodeAllRead
<1>4. nodespq # <<>>
  BY <1>3, EmptyQueue DEF Kinds
<1>5. PICK n \in DOMAIN nodespq : NodeTop(nodespq).opt = nodespq[n]
  BY <1>4, NodeFirst
<1>6. PICK e : e = nodespq[n]
  OBVIOUS
<1>7. /\ e \in Nat
      /\ \A i \in Boxes(t) \ BoxesRead(t) : e = 0 \/ e + Excess(t) <= Slots * world[t].box[i].rate
  BY <1>3, <1>5, <1>6, TopIsLow
<1>8. PICK s \in Shapes : s = world[t]
  BY <1>1
<1>9. PICK x \in Nat : x = Excess(t)
  BY <1>1
<1>10. x <= s.distance /\ \A i \in BoxesOf(s) : e = 0 \/ e + x <= Slots * s.box[i].rate
  BY <1>1, <1>2, <1>7, <1>8, <1>9
<1>11. e + x <= s.distance
  BY <1>7, <1>10, UnreadFar
<1> QED
  BY <1>1, <1>6, <1>7, <1>8, <1>9, <1>11

(* The nearest of the trajectories not reported is not excepted, and       *)
(* something stands for it.                                                *)
LEMMA NearestWaits ==
  ASSUME Invariant, pc \notin Ended, Len(reported) < query.k, Traj \ Reported # {}
  PROVE  \E m \in Traj \ Reported :
           /\ \A u \in Traj \ Reported : Distance[m] <= Distance[u]
           /\ \/ m \in fresh \/ m \in DOMAIN mpq
              \/ InHand /\ m = first.id
              \/ \E n \in DOMAIN nodespq : nodespq[n] <= Distance[m]
<1>0. Kinds /\ Covered /\ Followed /\ Placed /\ ExceptedAreFar
  BY DEF Invariant
<1>1. \A u \in Traj : Distance[u] \in Nat
  BY <1>0, WorldFacts
<1>2. PICK D \in SUBSET Nat : D = {Distance[u] : u \in Traj \ Reported}
  BY <1>1
<1>3. D # {}
  BY <1>2
<1>4. Min(D) \in D /\ \A y \in D : Min(D) <= y
  BY <1>3, MinOfNats
<1>5. PICK m \in Traj \ Reported : Distance[m] = Min(D)
  BY <1>2, <1>4
<1>6. \A u \in Traj \ Reported : Distance[m] <= Distance[u]
  BY <1>2, <1>4, <1>5
<1>7. m \notin except
  <2> SUFFICES ASSUME m \in except
               PROVE  FALSE
    OBVIOUS
  <2>1. PICK N : N = {u \in Traj : Distance[u] < Distance[m]}
    OBVIOUS
  <2>2. Cardinality(N) >= query.k
    BY <1>0, <2>1 DEF ExceptedAreFar
  <2>3. N \subseteq Reported
    BY <1>1, <1>6, <2>1
  <2>4. reported \in Seq(Traj) /\ DOMAIN reported = 1 .. Len(reported) /\ Len(reported) \in Nat
    BY <1>0, LenProperties DEF Kinds
  <2>5. PICK f : f = reported
    OBVIOUS
  <2>6. PICK R : R = {f[i] : i \in DOMAIN f}
    OBVIOUS
  <2>7. IsFiniteSet(DOMAIN f) /\ Cardinality(DOMAIN f) = Len(reported)
    BY <2>4, <2>5, FS_Interval
  <2>8. IsFiniteSet(R) /\ Cardinality(R) <= Len(reported)
    BY <2>6, <2>7, ImageFinite
  <2>9. N \subseteq R
    BY <2>3, <2>5, <2>6 DEF Reported
  <2>10. IsFiniteSet(N) /\ Cardinality(N) <= Cardinality(R)
    BY <2>8, <2>9, FS_Subset
  <2>11. Cardinality(N) \in Nat /\ Cardinality(R) \in Nat /\ query.k \in Nat
    BY <1>0, <2>8, <2>10, FS_CardinalityType, NumberAssumption DEF Kinds
  <2> QED
    BY <2>2, <2>4, <2>8, <2>10, <2>11
<1>8. CASE parts[m] = {}
  <2>1. UpToDate(m)
    BY <1>0, <1>7 DEF Followed
  <2> QED
    BY <1>0, <1>6, <1>8, <2>1, UnreadWaits
<1>9. CASE parts[m] # {}
  BY <1>0, <1>6, <1>7, <1>9 DEF Placed
<1> QED
  BY <1>8, <1>9

(* What is reported is as near as any that is left. *)
LEMMA NoneNearer ==
  ASSUME Invariant, pc \notin Ended, fresh = {}, Len(reported) < query.k,
         NEW t \in Traj, t \notin Reported, InHand => t = first.id,
         \A u \in DOMAIN mpq : u = t \/ Distance[t] <= mpq[u].opt,
         \A n \in DOMAIN nodespq : Distance[t] <= nodespq[n]
  PROVE  \A u \in Traj \ Reported : Distance[t] <= Distance[u]
<1>0. Kinds /\ Bracketed
  BY DEF Invariant
<1>1. PICK m \in Traj \ Reported :
           /\ \A u \in Traj \ Reported : Distance[m] <= Distance[u]
           /\ \/ m \in fresh \/ m \in DOMAIN mpq
              \/ InHand /\ m = first.id
              \/ \E n \in DOMAIN nodespq : nodespq[n] <= Distance[m]
  BY NearestWaits
<1>2. \A u \in Traj : Distance[u] \in Nat
  BY <1>0, WorldFacts
<1>3. Distance[t] <= Distance[m]
  <2>1. CASE m \in DOMAIN mpq
    <3>1. mpq[m].opt <= Distance[m] /\ mpq[m] \in Bounds
      BY <1>0, <2>1 DEF Bracketed, Bracket, Kinds
    <3> QED
      BY <1>2, <2>1, <3>1 DEF Bounds
  <2>2. CASE InHand /\ m = first.id
    BY <1>2, <2>2
  <2>3. CASE \E n \in DOMAIN nodespq : nodespq[n] <= Distance[m]
    <3>1. PICK n \in DOMAIN nodespq : nodespq[n] <= Distance[m]
      BY <2>3
    <3>2. nodespq[n] \in Nat
      BY <1>0 DEF Kinds
    <3> QED
      BY <1>2, <3>1, <3>2
  <2> QED
    BY <1>1, <2>1, <2>2, <2>3
<1> QED
  BY <1>1, <1>2, <1>3

LEMMA OutcomeIs ==
  /\ pc \notin Ended => Outcome = "running"
  /\ pc = "done" => Outcome = "done"
  /\ pc \in Ended \ {"done"} => Outcome = "failed"
BY DEF Outcome, Ended

LEMMA KNReportedIs == KN!Left = Traj \ Reported
BY DEF KN!Left, KN!Reported, Reported

(* A step that reports nothing: it goes on, or fails. *)
LEMMA Stutters ==
  ASSUME Kinds, UNCHANGED <<rigid, reported>>, pc \notin Ended, pc' \notin Ended
  PROVE  UNCHANGED KN!vars
<1>1. Distance' = Distance /\ query' = query
  BY WorldStays
<1>2. Outcome = "running" /\ Outcome' = "running"
  BY DEF Outcome, Ended
<1> QED
  BY <1>1, <1>2 DEF KN!vars

LEMMA Fails ==
  ASSUME Kinds, UNCHANGED <<rigid, reported>>, pc \notin Ended, pc' \in Ended \ {"done"}
  PROVE  KN!Next
<1>1. Distance' = Distance /\ query' = query
  BY WorldStays
<1>2. Outcome = "running" /\ Outcome' = "failed"
  BY DEF Outcome, Ended
<1> QED
  BY <1>1, <1>2 DEF KN!Next, KN!Fail

LEMMA Finishes ==
  ASSUME Kinds, UNCHANGED <<rigid, reported>>, pc \notin Ended, pc' = "done",
         Len(reported) >= query.k \/ Traj \ Reported = {}
  PROVE  KN!Next
<1>1. Distance' = Distance /\ query' = query
  BY WorldStays
<1>2. Outcome = "running" /\ Outcome' = "done"
  BY DEF Outcome, Ended
<1> QED
  BY <1>1, <1>2, KNReportedIs DEF KN!Next, KN!Finish

LEMMA Reports ==
  ASSUME Invariant, UNCHANGED rigid, pc \notin Ended, pc' \notin Ended, fresh = {},
         Len(reported) < query.k, NEW t \in Traj, t \notin Reported, InHand => t = first.id,
         \A u \in DOMAIN mpq : u = t \/ Distance[t] <= mpq[u].opt,
         \A n \in DOMAIN nodespq : Distance[t] <= nodespq[n],
         reported' = Append(reported, t)
  PROVE  KN!Next
<1>1. Distance' = Distance /\ query' = query
  BY WorldStays
<1>2. Outcome = "running" /\ Outcome' = "running"
  BY DEF Outcome, Ended
<1>3. \A u \in Traj \ Reported : Distance[t] <= Distance[u]
  BY NoneNearer
<1>4. KN!Report(t)
  BY <1>1, <1>2, <1>3, KNReportedIs DEF KN!Report
<1> QED
  BY <1>4 DEF KN!Next

LEMMA ReturnsRefines ==
  ASSUME Invariant, pc = "top", NEW e, Return(e), e \in Entry, UNCHANGED rigid,
         \A t \in DOMAIN mpq : e.opt <= mpq[t].opt,
         \A n \in DOMAIN nodespq : e.opt <= nodespq[n]
  PROVE  [KN!Next]_KN!vars
<1>0. Kinds /\ HandFits /\ Placed /\ Bracketed /\ pc \notin Ended
  BY DEF Invariant, Ended
<1>1. CASE caller = "judge" /\ Certain(e)
  <2>1. pc' = "loop" /\ reported' = Append(reported, first.id) /\ InHand
    BY <1>1 DEF Return, ReportFirst, InHand
  <2>2. PICK t : t = first.id
    OBVIOUS
  <2>3. /\ t \in Traj /\ t \notin Reported /\ fresh = {} /\ Len(reported) < query.k
        /\ Distance[t] <= first.pes /\ first.type = 3
    BY <1>0, <2>1, <2>2 DEF HandFits, Placed, Bracketed, Bracket, InHand
  <2>4. first \in Entry /\ Distance[t] \in Nat
    BY <1>0, <2>3, WorldFacts DEF Kinds, NoEntry
  <2>5. Distance[t] <= e.opt /\ e.opt \in Int
    BY <1>1, <2>3, <2>4 DEF Certain, Entry
  <2>6. \A u \in DOMAIN mpq : Distance[t] <= mpq[u].opt
    <3>1. \A u \in DOMAIN mpq : mpq[u].opt \in Int
      BY <1>0 DEF Kinds, Bounds
    <3> QED
      BY <2>4, <2>5, <3>1
  <2>7. \A n \in DOMAIN nodespq : Distance[t] <= nodespq[n]
    <3>1. \A n \in DOMAIN nodespq : nodespq[n] \in Int
      BY <1>0 DEF Kinds
    <3> QED
      BY <2>4, <2>5, <3>1
  <2>8. pc' \notin Ended /\ reported' = Append(reported, t)
    BY <2>1, <2>2 DEF Ended
  <2> QED
    BY <1>0, <2>2, <2>3, <2>6, <2>7, <2>8, Reports
<1>2. CASE ~(caller = "judge" /\ Certain(e))
  <2>1. reported' = reported /\ pc' \in {"visit", "top", "loop"}
    BY <1>0, <1>2 DEF Return, PushExact, Kinds
  <2>2. pc' \notin Ended
    BY <2>1 DEF Ended
  <2> QED
    BY <1>0, <2>1, <2>2, Stutters
<1> QED
  BY <1>1, <1>2

LEMMA TopNodeRefines == Invariant /\ TopNode => [KN!Next]_KN!vars
<1> SUFFICES ASSUME Invariant, TopNode
             PROVE  [KN!Next]_KN!vars
  OBVIOUS
<1>0. Kinds /\ pc = "top" /\ nodespq # <<>> /\ NodeIsNext /\ UNCHANGED rigid
  BY DEF TopNode, Invariant
<1>1. PICK e : e = NodeTop(nodespq)
  OBVIOUS
<1>2. Return(e)
  BY <1>1 DEF TopNode
<1>3. e \in Entry /\ \A n \in DOMAIN nodespq : e.opt <= nodespq[n]
  BY <1>0, <1>1, NodeFirst
<1>4. \A t \in DOMAIN mpq : e.opt <= mpq[t].opt
  <2> SUFFICES ASSUME NEW t \in DOMAIN mpq
               PROVE  e.opt <= mpq[t].opt
    OBVIOUS
  <2>1. mpq # <<>>
    BY <1>0, EmptyQueue DEF Kinds
  <2>2. e.opt < CandidateTop.opt /\ CandidateTop \in Entry /\ CandidateTop.opt <= mpq[t].opt
    BY <1>0, <1>1, <2>1, CandidateFirst DEF NodeIsNext
  <2>3. mpq[t].opt \in Int /\ e.opt \in Int
    BY <1>0, <1>3 DEF Kinds, Bounds, Entry
  <2> QED
    BY <2>2, <2>3 DEF Entry
<1> QED
  BY <1>0, <1>2, <1>3, <1>4, ReturnsRefines

LEMMA TopCandidateRefines == Invariant /\ TopCandidate => [KN!Next]_KN!vars
<1> SUFFICES ASSUME Invariant, TopCandidate
             PROVE  [KN!Next]_KN!vars
  OBVIOUS
<1>0. Kinds /\ pc = "top" /\ ~NodeIsNext /\ UNCHANGED rigid
  BY DEF TopCandidate, Invariant
<1>1. PICK e : e = CandidateTop
  OBVIOUS
<1>2. Return(e)
  BY <1>1 DEF TopCandidate
<1>3. mpq # <<>> /\ \A n \in DOMAIN nodespq : e.opt <= nodespq[n]
  BY <1>0, <1>1, NodeIsNextIs
<1>4. e \in Entry /\ \A t \in DOMAIN mpq : e.opt <= mpq[t].opt
  BY <1>0, <1>1, <1>3, CandidateFirst
<1> QED
  BY <1>0, <1>2, <1>3, <1>4, ReturnsRefines

(* Both queues are empty: all have been reported, or k of them. *)
LEMMA ExhaustedRefines == Invariant /\ Exhausted => [KN!Next]_KN!vars
<1> SUFFICES ASSUME Invariant, Exhausted
             PROVE  [KN!Next]_KN!vars
  OBVIOUS
<1>0. /\ Kinds /\ HandFits /\ pc = "loop" /\ pc' = "done" /\ nodespq = <<>> /\ mpq = <<>>
      /\ UNCHANGED <<rigid, reported>>
  BY DEF Invariant, Exhausted, Empty
<1>1. DOMAIN nodespq = {} /\ DOMAIN mpq = {}
  BY <1>0, EmptyQueue DEF Kinds
<1>2. pc \notin Ended /\ fresh = {} /\ ~InHand
  BY <1>0 DEF Ended, HandFits, InHand
<1>3. ~(Len(reported) < query.k) \/ Traj \ Reported = {}
  BY <1>1, <1>2, NearestWaits
<1>4. Len(reported) \in Nat /\ query.k \in Nat
  BY <1>0, NumberAssumption, LenProperties DEF Kinds
<1>5. Len(reported) >= query.k \/ Traj \ Reported = {}
  BY <1>3, <1>4
<1> QED
  BY <1>0, <1>2, <1>5, Finishes

(* The last candidate, when no node is left. *)
LEMMA ReportLastRefines == Invariant /\ ReportLast => [KN!Next]_KN!vars
<1> SUFFICES ASSUME Invariant, ReportLast
             PROVE  [KN!Next]_KN!vars
  OBVIOUS
<1>0. /\ Kinds /\ HandFits /\ Placed /\ pc = "visit" /\ pc' = "loop" /\ first.type = 3
      /\ Len(reported) < query.k /\ nodespq = <<>> /\ DOMAIN mpq = {first.id}
      /\ UNCHANGED rigid /\ reported' = Append(reported, first.id)
  BY DEF Invariant, ReportLast, Visit, Done
<1>1. PICK t : t = first.id
  OBVIOUS
<1>2. t \in Traj /\ t \notin Reported
  BY <1>0, <1>1 DEF Kinds, Placed
<1>3. DOMAIN nodespq = {} /\ fresh = {} /\ ~InHand /\ pc \notin Ended /\ pc' \notin Ended
  BY <1>0, EmptyQueue DEF Kinds, HandFits, InHand, Ended
<1> QED
  BY <1>0, <1>1, <1>2, <1>3, Reports

(* A candidate whose distance is known and comes first. *)
LEMMA ReportExactRefines == Invariant /\ ReportExact => [KN!Next]_KN!vars
<1> SUFFICES ASSUME Invariant, ReportExact
             PROVE  [KN!Next]_KN!vars
  OBVIOUS
<1>0. /\ Kinds /\ HandFits /\ Placed /\ Bracketed /\ FirstIsLeast
      /\ pc = "visit" /\ pc' = "loop" /\ first.type = 4 /\ AtCandidate
      /\ Len(reported) < query.k
      /\ UNCHANGED rigid /\ reported' = Append(reported, first.id)
  BY DEF Invariant, ReportExact, Visit, Done, AtCandidate
<1>1. PICK t : t = first.id
  OBVIOUS
<1>2. t \in DOMAIN mpq /\ t \in Traj /\ t \notin Reported /\ first = Candidate(t)
  BY <1>0, <1>1 DEF Kinds, Placed, HandFits
<1>3. first.opt = Distance[t]
  BY <1>0, <1>2 DEF Bracketed, Candidate
<1>4. fresh = {} /\ ~InHand /\ pc \notin Ended /\ pc' \notin Ended
  BY <1>0 DEF HandFits, InHand, Ended
<1>5. /\ \A u \in DOMAIN mpq : Distance[t] <= mpq[u].opt
      /\ \A n \in DOMAIN nodespq : Distance[t] <= nodespq[n]
  BY <1>0, <1>3 DEF FirstIsLeast
<1> QED
  BY <1>0, <1>1, <1>2, <1>4, <1>5, Reports

LEMMA NextRefines == Invariant /\ [Next]_vars => [KN!Next]_KN!vars
<1> SUFFICES ASSUME Invariant, [Next]_vars
             PROVE  [KN!Next]_KN!vars
  OBVIOUS
<1>0. Kinds
  BY DEF Invariant
<1>1. CASE TakeNode \/ LoadMissing
  <2>1. UNCHANGED <<rigid, reported>> /\ pc \notin Ended
    BY <1>1 DEF TakeNode, LoadMissing, Visit, Ended
  <2>2. pc' \in {"asserted", "thrown"} \/ pc' \notin Ended
    BY <1>1 DEF TakeNode, LoadMissing, LoadLeaf, Ended
  <2>3. "asserted" \in Ended \ {"done"} /\ "thrown" \in Ended \ {"done"}
    BY DEF Ended
  <2> QED
    BY <1>0, <2>1, <2>2, <2>3, Stutters, Fails
<1>2. CASE TopOfNothing
  <2>1. UNCHANGED <<rigid, reported>> /\ pc \notin Ended
    BY <1>2 DEF TopOfNothing, Ended
  <2>2. pc' \in Ended \ {"done"} \/ pc' \notin Ended
    BY <1>2 DEF TopOfNothing, Ended
  <2> QED
    BY <1>0, <2>1, <2>2, Stutters, Fails
<1>3. CASE TakeTop \/ TopDrops \/ TopUpdates \/ VisitInner \/ QueueFresh \/ AskForNode \/ PopAndCompare
  <2>1. UNCHANGED <<rigid, reported>> /\ pc \notin Ended /\ pc' \notin Ended
    BY <1>3 DEF TakeTop, TopDrops, TopUpdates, VisitInner, QueueFresh, AskForNode, PopAndCompare,
                Visit, Done, Ended
  <2> QED
    BY <1>0, <2>1, Stutters
<1>4. CASE VisitLeaf
  <2>1. UNCHANGED <<rigid, reported>> /\ pc \notin Ended /\ pc' \notin Ended
    BY <1>4 DEF VisitLeaf, LoadLeaf, Visit, Done, Ended
  <2> QED
    BY <1>0, <2>1, Stutters
<1>5. CASE Stop
  <2>1. UNCHANGED <<rigid, reported>> /\ pc \notin Ended /\ pc' = "done" /\ Len(reported) >= query.k
    BY <1>5 DEF Stop, Ended
  <2> QED
    BY <1>0, <2>1, Finishes
<1>6. CASE UNCHANGED vars
  <2>1. UNCHANGED <<rigid, reported, pc>>
    BY <1>6 DEF vars, rigid
  <2>2. Distance' = Distance /\ query' = query /\ Outcome' = Outcome
    BY <2>1, WorldStays DEF Outcome
  <2> QED
    BY <2>1, <2>2 DEF KN!vars
<1> QED
  BY <1>1, <1>2, <1>3, <1>4, <1>5, <1>6, TopNodeRefines, TopCandidateRefines, ExhaustedRefines,
     ReportLastRefines, ReportExactRefines DEF Next

LEMMA InitRefines == Init => KN!Init
<1> SUFFICES ASSUME Init
             PROVE  KN!Init
  OBVIOUS
<1>1. Kinds
  BY InitInvariant DEF Invariant
<1>2. Distance \in [Traj -> Nat]
  <2>1. \A t \in Traj : Distance[t] \in Nat
    BY <1>1, WorldFacts
  <2> QED
    BY <2>1 DEF Distance
<1>3. query.k \in Nat \ {0}
  BY <1>1, NumberAssumption DEF Kinds
<1>4. reported = <<>> /\ Outcome = "running"
  BY DEF Init, Outcome, Ended
<1> QED
  BY <1>2, <1>3, <1>4 DEF KN!Init

(* The search implements KNearest: it reports the nearest first, and when  *)
(* it ends well it has reported k of them, or all.                         *)
THEOREM Refinement == Spec => ImplementsKNearest
<1>1. Init => KN!Init
  BY InitRefines
<1>2. Invariant /\ [Next]_vars => [KN!Next]_KN!vars
  BY NextRefines
<1> QED
  BY <1>1, <1>2, InvariantHolds, PTL DEF Spec, ImplementsKNearest, KN!Spec
=============================================================================

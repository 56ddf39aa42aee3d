--------------------------- MODULE InductionLemmas ---------------------------
(***************************************************************************)
(* Induction and recursion without operator parameters, which no backend   *)
(* can instantiate: sets stand for predicates, functions for operators.    *)
(* Everything follows from one fact of the library, that strict inclusion  *)
(* is well founded on finite sets.  The last parts prove the laws of the   *)
(* community modules' SumFunctionOnSet from them, and what a list of lists *)
(* holds when it is flattened.                                             *)
(***************************************************************************)
EXTENDS Integers, Sequences, FiniteSetTheorems, FiniteSetsExt, TLAPS

\* A family of subsets of a finite set has a minimal member.
LEMMA LeastSubset ==
  ASSUME NEW U, IsFiniteSet(U), NEW T, T \subseteq SUBSET U, T # {}
  PROVE  \E x \in T : \A y \in T : y \subseteq x => y = x
<1>1. T \subseteq FiniteSubsetsOf(U)
  BY FS_Subset DEF FiniteSubsetsOf
<1>2. PICK x \in T : \A y \in T : ~(<<y, x>> \in StrictSubsetOrdering(U))
  BY <1>1, FS_StrictSubsetOrderingWellFounded, WFMin
<1> QED
  BY <1>2 DEF StrictSubsetOrdering

\* A set of natural numbers has a least element: the initial segments of its
\* members are subsets of one of them.
LEMMA LeastNumber ==
  ASSUME NEW S \in SUBSET Nat, S # {}
  PROVE  \E n \in S : \A m \in S : n <= m
<1>1. PICK top \in S : TRUE
  OBVIOUS
<1> DEFINE U == 0..top
           below == {m \in S : m <= top}
           T == {0..m : m \in below}
<1>2. IsFiniteSet(U)
  BY FS_Interval
<1>3. T \subseteq SUBSET U /\ T # {}
  BY <1>1
<1> HIDE DEF T, U
<1>4. PICK x \in T : \A y \in T : y \subseteq x => y = x
  BY <1>2, <1>3, LeastSubset
<1>5. PICK n \in below : x = 0..n
  BY <1>4 DEF T
<1>6. ASSUME NEW m \in S, m < n
      PROVE  FALSE
  <2>1. m \in below /\ 0..m \in T
    BY <1>6, <1>5 DEF T
  <2>2. 0..m = 0..n
    BY <2>1, <1>4, <1>5, <1>6
  <2>3. n \in 0..n /\ n \notin 0..m
    BY <1>6
  <2> QED
    BY <2>2, <2>3
<1> QED
  BY <1>5, <1>6

\* Elements with a rank: a set that holds an element as soon as it holds all
\* those of smaller rank holds all of them.
LEMMA RankInduction ==
  ASSUME NEW D, NEW rank \in [D -> Nat], NEW S \in SUBSET D,
         \A d \in D : (\A e \in D : rank[e] < rank[d] => e \in S) => d \in S
  PROVE  S = D
<1> SUFFICES ASSUME S # D PROVE FALSE
  OBVIOUS
<1> DEFINE ranks == {rank[d] : d \in D \ S}
<1>1. ranks \in SUBSET Nat /\ ranks # {}
  OBVIOUS
<1> HIDE DEF ranks
<1>2. PICK n \in ranks : \A m \in ranks : n <= m
  BY <1>1, LeastNumber
<1>3. PICK d \in D \ S : n = rank[d]
  BY <1>2 DEF ranks
<1>4. ASSUME NEW e \in D, rank[e] < rank[d] PROVE e \in S
  <2>1. CASE e \notin S
    <3>1. rank[e] \in ranks
      BY <2>1 DEF ranks
    <3>2. rank[d] <= rank[e]
      BY <3>1, <1>2, <1>3
    <3> QED
      BY <3>2, <1>4
  <2> QED
    BY <2>1
<1> QED
  BY <1>3, <1>4

\* A set of natural numbers closed under successor, with 0 in it, is Nat.
LEMMA SetNatInduction ==
  ASSUME NEW S \in SUBSET Nat, 0 \in S, \A n \in S : n + 1 \in S
  PROVE  S = Nat
<1> DEFINE rest == Nat \ S
<1> SUFFICES ASSUME rest # {} PROVE FALSE
  OBVIOUS
<1>1. rest \in SUBSET Nat
  OBVIOUS
<1> HIDE DEF rest
<1>2. PICK n \in rest : \A m \in rest : n <= m
  BY <1>1, LeastNumber
<1>3. n \in Nat /\ n # 0 /\ n - 1 \in Nat /\ n - 1 < n
  BY <1>1, <1>2 DEF rest
<1>4. n - 1 \in S
  BY <1>2, <1>3 DEF rest
<1>5. (n - 1) + 1 \in S
  BY <1>4
<1> QED
  BY <1>3, <1>5, <1>2 DEF rest

---------------------------------------------------------------------------
(* Recursion.  f is defined on D by one recursive call, f[next[d]], made   *)
(* at every d but those in base; combine says what becomes of its result.  *)

Unfolds(f, D, base, out, next, combine) ==
  \A d \in D : f[d] = IF d \in base THEN out[d] ELSE combine[<<d, f[next[d]]>>]

\* Unfolds up to a rank.
UnfoldsBelow(f, n, D, rank, base, out, next, combine) ==
  \A d \in D : rank[d] < n =>
    f[d] = IF d \in base THEN out[d] ELSE combine[<<d, f[next[d]]>>]

\* When every call goes down in rank, two functions that unfold up to a rank
\* agree up to it.
LEMMA RecursionUnique ==
  ASSUME NEW D, NEW rank \in [D -> Nat], NEW base, NEW out, NEW next, NEW combine,
         \A d \in D \ base : next[d] \in D /\ rank[next[d]] < rank[d],
         NEW n \in Nat, NEW f, NEW g,
         UnfoldsBelow(f, n, D, rank, base, out, next, combine),
         UnfoldsBelow(g, n, D, rank, base, out, next, combine)
  PROVE  \A d \in D : rank[d] < n => f[d] = g[d]
<1> DEFINE S == {d \in D : rank[d] < n => f[d] = g[d]}
<1>1. ASSUME NEW d \in D, \A e \in D : rank[e] < rank[d] => e \in S
      PROVE  d \in S
  <2> SUFFICES ASSUME rank[d] < n PROVE f[d] = g[d]
    OBVIOUS
  <2>1. CASE d \in base
    BY <2>1 DEF UnfoldsBelow
  <2>2. CASE d \notin base
    <3>1. next[d] \in D /\ rank[next[d]] < rank[d]
      BY <2>2
    <3>2. rank[next[d]] < n
      BY <3>1
    <3>3. f[next[d]] = g[next[d]]
      BY <1>1, <3>1, <3>2
    <3> QED
      BY <2>2, <3>3 DEF UnfoldsBelow
  <2> QED
    BY <2>1, <2>2
<1> HIDE DEF S
<1>2. S \in SUBSET D
  BY DEF S
<1>3. S = D
  BY <1>1, <1>2, RankInduction
<1> QED
  BY <1>3 DEF S

\* Such a recursion defines a function.
LEMMA RecursionExists ==
  ASSUME NEW D, NEW Z, NEW rank \in [D -> Nat], NEW base, NEW out, NEW next, NEW combine,
         \A d \in D \ base : next[d] \in D /\ rank[next[d]] < rank[d],
         \A d \in D \cap base : out[d] \in Z,
         \A d \in D, z \in Z : combine[<<d, z>>] \in Z
  PROVE  \E f \in [D -> Z] : Unfolds(f, D, base, out, next, combine)
<1> DEFINE Below(f, n) == UnfoldsBelow(f, n, D, rank, base, out, next, combine)
           S == {n \in Nat : \E f \in [D -> Z] : Below(f, n)}
<1>1. CASE D = {}
  <2>1. [d \in D |-> d] \in [D -> Z]
    BY <1>1
  <2> QED
    BY <1>1, <2>1 DEF Unfolds
<1>2. CASE D # {}
  <2>1. 0 \in S
    <3>1. Z # {}
      <4>1. PICK d \in D : TRUE
        BY <1>2
      <4> DEFINE ranks == {rank[e] : e \in D}
      <4>2. ranks \in SUBSET Nat /\ ranks # {}
        BY <4>1
      <4> HIDE DEF ranks
      <4>3. PICK n \in ranks : \A m \in ranks : n <= m
        BY <4>2, LeastNumber
      <4>4. PICK e \in D : n = rank[e]
        BY <4>3 DEF ranks
      <4>5. ASSUME e \notin base PROVE FALSE
        <5>1. next[e] \in D /\ rank[next[e]] < rank[e]
          BY <4>5
        <5>2. rank[next[e]] \in ranks
          BY <5>1 DEF ranks
        <5>3. rank[e] <= rank[next[e]]
          BY <5>2, <4>3, <4>4
        <5> QED
          BY <5>1, <5>3
      <4> QED
        BY <4>4, <4>5
    <3>2. PICK z \in Z : TRUE
      BY <3>1
    <3>3. [d \in D |-> z] \in [D -> Z]
      OBVIOUS
    <3>4. Below([d \in D |-> z], 0)
      BY DEF UnfoldsBelow
    <3> QED
      BY <3>3, <3>4
  <2>2. ASSUME NEW n \in S PROVE n + 1 \in S
    <3>1. PICK f \in [D -> Z] : Below(f, n)
      OBVIOUS
    <3> DEFINE g == [d \in D |-> IF d \in base THEN out[d] ELSE combine[<<d, f[next[d]]>>]]
    <3>2. g \in [D -> Z]
      OBVIOUS
    <3>3. ASSUME NEW d \in D, rank[d] < n + 1
          PROVE  g[d] = IF d \in base THEN out[d] ELSE combine[<<d, g[next[d]]>>]
      <4>1. CASE d \in base
        BY <4>1
      <4>2. CASE d \notin base
        <5>1. next[d] \in D /\ rank[next[d]] < n
          BY <3>3, <4>2
        <5>2. g[next[d]] = f[next[d]]
          BY <5>1, <3>1 DEF UnfoldsBelow
        <5> QED
          BY <4>2, <5>2
      <4> QED
        BY <4>1, <4>2
    <3> HIDE DEF g
    <3>4. Below(g, n + 1)
      BY <3>3 DEF UnfoldsBelow
    <3> QED
      BY <3>2, <3>4
  <2>3. S \in SUBSET Nat
    OBVIOUS
  <2>4. \A n \in Nat : \E f \in [D -> Z] : Below(f, n)
    <3>1. \A n \in S : n + 1 \in S
      BY <2>2
    <3> HIDE DEF S
    <3>2. S = Nat
      BY <2>1, <2>3, <3>1, SetNatInduction
    <3> QED
      BY <3>2 DEF S
  <2> DEFINE approx == [n \in Nat |-> CHOOSE f \in [D -> Z] : Below(f, n)]
             limit == [d \in D |-> approx[rank[d] + 1][d]]
  <2>5. \A n \in Nat : approx[n] \in [D -> Z] /\ Below(approx[n], n)
    <3> HIDE DEF Below
    <3> QED
      BY <2>4
  <2> HIDE DEF approx
  <2>6. limit \in [D -> Z]
    BY <2>5
  <2>7. ASSUME NEW d \in D
        PROVE  limit[d] = IF d \in base THEN out[d] ELSE combine[<<d, limit[next[d]]>>]
    <3> DEFINE h == approx[rank[d] + 1]
    <3>1. h[d] = IF d \in base THEN out[d] ELSE combine[<<d, h[next[d]]>>]
      BY <2>5 DEF UnfoldsBelow
    <3>2. CASE d \in base
      BY <3>1, <3>2
    <3>3. CASE d \notin base
      <4> DEFINE e == next[d]
      <4>1. e \in D /\ rank[e] < rank[d]
        BY <3>3
      <4> HIDE DEF e
      <4>2. Below(h, rank[e] + 1)
        BY <2>5, <4>1 DEF UnfoldsBelow
      <4>3. Below(approx[rank[e] + 1], rank[e] + 1)
        BY <2>5, <4>1
      <4>4. h[e] = approx[rank[e] + 1][e]
        <5> DEFINE n == rank[e] + 1
                   g == approx[n]
        <5>1. n \in Nat /\ rank[e] < n
          BY <4>1
        <5>2. /\ UnfoldsBelow(h, n, D, rank, base, out, next, combine)
              /\ UnfoldsBelow(g, n, D, rank, base, out, next, combine)
          BY <4>2, <4>3
        <5> HIDE DEF h, g, n
        <5>3. \A x \in D : rank[x] < n => h[x] = g[x]
          BY <5>1, <5>2, RecursionUnique
        <5> QED
          BY <4>1, <5>1, <5>3 DEF g, n
      <4> QED
        BY <3>1, <3>3, <4>1, <4>4 DEF e
    <3> QED
      BY <3>2, <3>3
  <2> QED
    BY <2>6, <2>7 DEF Unfolds
<1> QED
  BY <1>1, <1>2

---------------------------------------------------------------------------
(* Sums over finite sets, of the community modules: SumFunctionOnSet(f, S)  *)
(* takes the elements of S one by one, in an order of its own choosing.     *)
Pick(S) == CHOOSE x \in S : TRUE

\* total[T] adds up f over T, for the subsets T of S.
SumsUp(total, f, S) ==
  /\ total \in [SUBSET S -> Int]
  /\ \A T \in SUBSET S :
       total[T] = IF T = {} THEN 0 ELSE f[Pick(T)] + total[T \ {Pick(T)}]

\* Removing an element lowers a finite set's rank, its cardinality, by one.
LEMMA SubsetRanks ==
  ASSUME NEW S, IsFiniteSet(S)
  PROVE  /\ [T \in SUBSET S |-> Cardinality(T)] \in [SUBSET S -> Nat]
         /\ \A T \in SUBSET S : \A x \in T :
              /\ T \ {x} \in SUBSET S
              /\ Cardinality(T \ {x}) = Cardinality(T) - 1
<1>1. \A T \in SUBSET S : IsFiniteSet(T)
  BY FS_Subset
<1>2. \A T \in SUBSET S : Cardinality(T) \in Nat
  BY <1>1, FS_CardinalityType
<1>3. ASSUME NEW T \in SUBSET S, NEW x \in T
      PROVE  Cardinality(T \ {x}) = Cardinality(T) - 1
  BY <1>1, FS_RemoveElement, Zenon
<1> QED BY <1>2, <1>3

\* The recursion along subsets that defines a sum has a solution.
LEMMA SumsExist ==
  ASSUME NEW S, IsFiniteSet(S), NEW f, \A x \in S : f[x] \in Int
  PROVE  \E total : SumsUp(total, f, S)
<1> DEFINE D == SUBSET S
           rank == [T \in D |-> Cardinality(T)]
           base == {{}}
           out == [T \in base |-> 0]
           next == [T \in D |-> T \ {Pick(T)}]
           combine == [p \in D \X Int |-> IF p[1] = {} THEN 0 ELSE f[Pick(p[1])] + p[2]]
<1>p. \A T \in D : T # {} => Pick(T) \in T
  BY DEF Pick
<1>1. rank \in [D -> Nat]
  BY SubsetRanks
<1>2. \A d \in D \ base : next[d] \in D /\ rank[next[d]] < rank[d]
  <2> TAKE d \in D \ base
  <2>1. Pick(d) \in d /\ d \ {Pick(d)} \in D
    BY <1>p
  <2>2. Cardinality(d \ {Pick(d)}) = Cardinality(d) - 1
    BY <2>1, SubsetRanks
  <2>3. Cardinality(d) \in Nat
    BY <1>1
  <2> QED BY <2>1, <2>2, <2>3
<1>3. \A d \in D \cap base : out[d] \in Int
  OBVIOUS
<1>4. \A d \in D, z \in Int : combine[<<d, z>>] \in Int
  BY <1>p
<1> HIDE DEF rank
<1>5. \E g \in [D -> Int] : Unfolds(g, D, base, out, next, combine)
  <2> HIDE DEF D, base, out, next, combine
  <2> QED BY <1>1, <1>2, <1>3, <1>4, RecursionExists
<1>6. PICK g \in [D -> Int] : Unfolds(g, D, base, out, next, combine)
  BY <1>5
<1>7. ASSUME NEW T \in D
      PROVE  g[T] = IF T = {} THEN 0 ELSE f[Pick(T)] + g[T \ {Pick(T)}]
  <2>1. CASE T = {}
    BY <1>6, <2>1 DEF Unfolds
  <2>2. CASE T # {}
    <3>1. T \notin base /\ T \ {Pick(T)} \in D
      BY <2>2
    <3>2. g[T] = combine[<<T, g[next[T]]>>]
      BY <1>6, <3>1 DEF Unfolds
    <3>3. next[T] = T \ {Pick(T)} /\ g[next[T]] \in Int
      BY <3>1
    <3> QED BY <2>2, <3>2, <3>3
  <2> QED BY <2>1, <2>2
<1> QED BY <1>6, <1>7 DEF SumsUp

\* The sum of the module is what any such total says.
LEMMA SumIsTotal ==
  ASSUME NEW S, IsFiniteSet(S), NEW f, \A x \in S : f[x] \in Int,
         NEW total, SumsUp(total, f, S)
  PROVE  \A T \in SUBSET S : SumFunctionOnSet(f, T) = total[T]
<1> TAKE T \in SUBSET S
<1> DEFINE Iter(g) == g = [U \in SUBSET T |->
                             IF U = {} THEN 0
                             ELSE LET x == CHOOSE x \in U : TRUE IN f[x] + g[U \ {x}]]
           iter == CHOOSE g : Iter(g)
<1>1. SumFunctionOnSet(f, T) = iter[T]
  BY DEF SumFunctionOnSet, FoldFunctionOnSet, MapThenFoldSet
<1>2. \E g : Iter(g)
  <2> DEFINE g == [U \in SUBSET T |-> total[U]]
  <2>1. ASSUME NEW U \in SUBSET T
        PROVE  g[U] = IF U = {} THEN 0
                      ELSE LET x == CHOOSE x \in U : TRUE IN f[x] + g[U \ {x}]
    <3>1. U \in SUBSET S /\ \A x : U \ {x} \in SUBSET T
      OBVIOUS
    <3> QED BY <3>1 DEF SumsUp, Pick
  <2> QED BY <2>1
<1>3. Iter(iter)
  <2> HIDE DEF Iter
  <2> QED BY <1>2
<1> DEFINE R == {U \in SUBSET T : iter[U] = total[U]}
           rank == [U \in SUBSET T |-> Cardinality(U)]
<1>4. IsFiniteSet(T)
  BY FS_Subset
<1>5. rank \in [SUBSET T -> Nat]
  BY <1>4, SubsetRanks
<1>6. ASSUME NEW U \in SUBSET T, \A V \in SUBSET T : rank[V] < rank[U] => V \in R
      PROVE  U \in R
  <2>1. CASE U = {}
    BY <1>3, <2>1 DEF SumsUp
  <2>2. CASE U # {}
    <3> DEFINE x == Pick(U)
               V == U \ {x}
    <3>1. x \in U /\ V \in SUBSET T /\ U \in SUBSET S
      BY <2>2 DEF Pick
    <3>2. rank[V] < rank[U]
      <4>1. Cardinality(V) = Cardinality(U) - 1
        BY <1>4, <3>1, SubsetRanks
      <4>2. Cardinality(U) \in Nat
        BY <1>5
      <4> QED BY <3>1, <4>1, <4>2
    <3>3. iter[V] = total[V]
      BY <1>6, <3>1, <3>2
    <3>4. iter[U] = f[x] + iter[V]
      BY <1>3, <2>2 DEF Pick
    <3>5. total[U] = f[x] + total[V]
      BY <2>2, <3>1 DEF SumsUp
    <3> QED BY <3>3, <3>4, <3>5
  <2> QED BY <2>1, <2>2
<1>7. R = SUBSET T
  <2>1. R \in SUBSET (SUBSET T)
    OBVIOUS
  <2> HIDE DEF R, rank
  <2> QED BY <1>5, <1>6, <2>1, RankInduction
<1> QED BY <1>1, <1>7

\* A family of subsets of S that holds the empty set, and with a set every set
\* with one element more, holds S.
LEMMA SubsetInduction ==
  ASSUME NEW S, IsFiniteSet(S), NEW F, F \subseteq SUBSET S, {} \in F,
         \A T \in F : \A x \in S \ T : T \cup {x} \in F
  PROVE  F = SUBSET S
<1> DEFINE rank == [T \in SUBSET S |-> Cardinality(T)]
<1>1. rank \in [SUBSET S -> Nat]
  BY SubsetRanks
<1>2. ASSUME NEW T \in SUBSET S, \A V \in SUBSET S : rank[V] < rank[T] => V \in F
      PROVE  T \in F
  <2>1. CASE T # {}
    <3>1. PICK x \in T : TRUE
      BY <2>1
    <3>2. T \ {x} \in SUBSET S /\ Cardinality(T \ {x}) = Cardinality(T) - 1
      BY SubsetRanks
    <3>3. Cardinality(T) \in Nat
      BY <1>1
    <3>6. rank[T \ {x}] < rank[T]
      BY <3>2, <3>3
    <3>4. T \ {x} \in F
      BY <1>2, <3>2, <3>6
    <3>5. T = (T \ {x}) \cup {x} /\ x \in S \ (T \ {x})
      OBVIOUS
    <3> QED BY <3>4, <3>5
  <2> QED BY <2>1
<1>3. F \in SUBSET (SUBSET S)
  OBVIOUS
<1> HIDE DEF rank
<1> QED BY <1>1, <1>2, <1>3, RankInduction

\* The order in which the elements are taken makes no difference.
LEMMA TotalInsert ==
  ASSUME NEW S, IsFiniteSet(S), NEW f, \A x \in S : f[x] \in Int,
         NEW total, SumsUp(total, f, S)
  PROVE  \A T \in SUBSET S, x \in S : x \notin T => total[T \cup {x}] = f[x] + total[T]
<1> DEFINE R == {T \in SUBSET S : \A x \in S \ T : total[T \cup {x}] = f[x] + total[T]}
           rank == [T \in SUBSET S |-> Cardinality(T)]
<1>1. rank \in [SUBSET S -> Nat]
  BY SubsetRanks
<1>2. ASSUME NEW T \in SUBSET S, \A V \in SUBSET S : rank[V] < rank[T] => V \in R
      PROVE  T \in R
  <2> SUFFICES ASSUME NEW x \in S \ T PROVE total[T \cup {x}] = f[x] + total[T]
    OBVIOUS
  <2> DEFINE U == T \cup {x}
             y == Pick(U)
  <2>1. U \in SUBSET S /\ U # {} /\ y \in U /\ U \ {y} \in SUBSET S
    BY DEF Pick
  <2>2. total[U] = f[y] + total[U \ {y}]
    BY <2>1 DEF SumsUp
  <2>3. CASE y = x
    BY <2>2, <2>3
  <2>4. CASE y # x
    <3> DEFINE V == T \ {y}
    <3> HIDE DEF y
    <3>1. y \in T /\ y \in S /\ V \in SUBSET S /\ x \in S \ V /\ y \in S \ V
      BY <2>1, <2>4
    <3>2. Cardinality(V) = Cardinality(T) - 1
      BY <3>1, SubsetRanks
    <3>3. rank[V] < rank[T]
      <4>1. Cardinality(T) \in Nat
        BY <1>1
      <4> QED BY <3>1, <3>2, <4>1
    <3>4. V \in R
      BY <1>2, <3>1, <3>3
    <3>5. V \cup {y} = T /\ V \cup {x} = U \ {y}
      BY <3>1, <2>4
    <3>6. total[T] = f[y] + total[V] /\ total[U \ {y}] = f[x] + total[V]
      BY <3>1, <3>4, <3>5
    <3>7. total[V] \in Int /\ f[x] \in Int /\ f[y] \in Int
      BY <3>1 DEF SumsUp
    <3> QED BY <2>2, <3>6, <3>7
  <2> QED BY <2>3, <2>4
<1>3. R \in SUBSET (SUBSET S)
  OBVIOUS
<1>4. R = SUBSET S
  <2> HIDE DEF R, rank
  <2> QED BY <1>1, <1>2, <1>3, RankInduction
<1> QED BY <1>4

\* The two laws of a sum, from which the others follow.
LEMMA SumEmpty == ASSUME NEW f PROVE SumFunctionOnSet(f, {}) = 0
<1>1. IsFiniteSet({}) /\ \A x \in {} : f[x] \in Int
  BY FS_EmptySet
<1>2. PICK total : SumsUp(total, f, {})
  BY <1>1, SumsExist
<1>3. {} \in SUBSET {}
  OBVIOUS
<1>4. SumFunctionOnSet(f, {}) = total[{}]
  BY <1>1, <1>2, <1>3, SumIsTotal, Zenon
<1>5. total[{}] = 0
  BY <1>2, <1>3 DEF SumsUp
<1> QED BY <1>4, <1>5

\* A new element adds its value to the sum.
LEMMA SumInsert ==
  ASSUME NEW S, IsFiniteSet(S), NEW f, \A x \in S : f[x] \in Int
  PROVE  /\ \A T \in SUBSET S : SumFunctionOnSet(f, T) \in Int
         /\ \A T \in SUBSET S : \A x \in S \ T :
              SumFunctionOnSet(f, T \cup {x}) = f[x] + SumFunctionOnSet(f, T)
<1>1. PICK total : SumsUp(total, f, S)
  BY SumsExist
<1>2. \A T \in SUBSET S : SumFunctionOnSet(f, T) = total[T]
  BY <1>1, SumIsTotal
<1>3. \A T \in SUBSET S : total[T] \in Int
  BY <1>1 DEF SumsUp
<1>4. \A T \in SUBSET S, x \in S : x \notin T => total[T \cup {x}] = f[x] + total[T]
  BY <1>1, TotalInsert
<1>5. \A T \in SUBSET S : \A x \in S \ T : T \cup {x} \in SUBSET S
  OBVIOUS
<1> QED BY <1>2, <1>3, <1>4, <1>5

\* An element taken out takes its value with it.
LEMMA SumRemove ==
  ASSUME NEW S, IsFiniteSet(S), NEW f, \A x \in S : f[x] \in Int, NEW x \in S
  PROVE  /\ SumFunctionOnSet(f, S) = f[x] + SumFunctionOnSet(f, S \ {x})
         /\ SumFunctionOnSet(f, S) \in Int /\ SumFunctionOnSet(f, S \ {x}) \in Int
<1> DEFINE T == S \ {x}
<1>1. T \in SUBSET S /\ x \in S \ T /\ T \cup {x} = S /\ S \in SUBSET S
  OBVIOUS
<1> HIDE DEF T
<1>2. /\ SumFunctionOnSet(f, T \cup {x}) = f[x] + SumFunctionOnSet(f, T)
      /\ SumFunctionOnSet(f, S) \in Int /\ SumFunctionOnSet(f, T) \in Int
  BY <1>1, SumInsert
<1> QED BY <1>1, <1>2 DEF T

\* Terms that are no greater add up to no more.
LEMMA SumMonotone ==
  ASSUME NEW S, IsFiniteSet(S), NEW f, NEW g,
         \A x \in S : f[x] \in Int /\ g[x] \in Int /\ f[x] <= g[x]
  PROVE  SumFunctionOnSet(f, S) <= SumFunctionOnSet(g, S)
<1> DEFINE F == {T \in SUBSET S : SumFunctionOnSet(f, T) <= SumFunctionOnSet(g, T)}
<1>1. {} \in F
  BY SumEmpty
<1>2. ASSUME NEW T \in F, NEW x \in S \ T PROVE T \cup {x} \in F
  <2>1. /\ SumFunctionOnSet(f, T \cup {x}) = f[x] + SumFunctionOnSet(f, T)
        /\ SumFunctionOnSet(g, T \cup {x}) = g[x] + SumFunctionOnSet(g, T)
        /\ SumFunctionOnSet(f, T) \in Int /\ SumFunctionOnSet(g, T) \in Int
    BY SumInsert
  <2> QED BY <2>1
<1>3. F \subseteq SUBSET S
  OBVIOUS
<1> HIDE DEF F
<1>4. F = SUBSET S
  BY <1>1, <1>2, <1>3, SubsetInduction
<1> QED BY <1>4 DEF F

\* A sum depends on no value outside its set.
LEMMA SumEqual ==
  ASSUME NEW S, IsFiniteSet(S), NEW f, NEW g,
         \A x \in S : f[x] \in Int /\ g[x] = f[x]
  PROVE  SumFunctionOnSet(f, S) = SumFunctionOnSet(g, S)
<1> DEFINE F == {T \in SUBSET S : SumFunctionOnSet(f, T) = SumFunctionOnSet(g, T)}
<1>1. {} \in F
  BY SumEmpty
<1>2. ASSUME NEW T \in F, NEW x \in S \ T PROVE T \cup {x} \in F
  BY SumInsert
<1>3. F \subseteq SUBSET S
  OBVIOUS
<1> HIDE DEF F
<1>4. F = SUBSET S
  BY <1>1, <1>2, <1>3, SubsetInduction
<1> QED BY <1>4 DEF F

\* Disjoint parts add up.
LEMMA SumParts ==
  ASSUME NEW S, IsFiniteSet(S), NEW f, \A x \in S : f[x] \in Int, NEW P \in SUBSET S
  PROVE  SumFunctionOnSet(f, S) = SumFunctionOnSet(f, P) + SumFunctionOnSet(f, S \ P)
<1> DEFINE Q == S \ P
           F == {T \in SUBSET Q :
                   SumFunctionOnSet(f, P \cup T) = SumFunctionOnSet(f, P) + SumFunctionOnSet(f, T)}
<1>0. \A T \in SUBSET S : SumFunctionOnSet(f, T) \in Int
  BY SumInsert
<1>1. {} \in F
  BY <1>0, SumEmpty
<1>2. ASSUME NEW T \in F, NEW x \in Q \ T PROVE T \cup {x} \in F
  <2>1. T \in SUBSET S /\ P \cup T \in SUBSET S /\ x \in S \ T /\ x \in S \ (P \cup T)
    OBVIOUS
  <2> DEFINE U == P \cup T
  <2>2. SumFunctionOnSet(f, T \cup {x}) = f[x] + SumFunctionOnSet(f, T)
    BY <2>1, SumInsert
  <2>3. SumFunctionOnSet(f, U \cup {x}) = f[x] + SumFunctionOnSet(f, U)
    <3> HIDE DEF U
    <3>1. U \in SUBSET S /\ x \in S \ U
      BY <2>1 DEF U
    <3> QED BY <3>1, SumInsert
  <2>4. SumFunctionOnSet(f, U) = SumFunctionOnSet(f, P) + SumFunctionOnSet(f, T)
    OBVIOUS
  <2>5. /\ f[x] \in Int /\ SumFunctionOnSet(f, P) \in Int /\ SumFunctionOnSet(f, T) \in Int
        /\ SumFunctionOnSet(f, U) \in Int
    BY <1>0, <2>1
  <2>6. SumFunctionOnSet(f, U \cup {x}) = SumFunctionOnSet(f, P) + SumFunctionOnSet(f, T \cup {x})
    BY <2>2, <2>3, <2>4, <2>5
  <2>7. P \cup (T \cup {x}) = U \cup {x}
    OBVIOUS
  <2> QED BY <2>6, <2>7
<1>3. F \subseteq SUBSET Q /\ IsFiniteSet(Q)
  BY FS_Subset
<1> HIDE DEF F, Q
<1>4. F = SUBSET Q
  BY <1>1, <1>2, <1>3, SubsetInduction
<1>5. P \cup Q = S
  BY DEF Q
<1> QED BY <1>4, <1>5 DEF F, Q

\* A sum of natural numbers is one, and a part of it no greater.
LEMMA SumNatural ==
  ASSUME NEW S, IsFiniteSet(S), NEW f, \A x \in S : f[x] \in Nat
  PROVE  /\ SumFunctionOnSet(f, S) \in Nat
         /\ \A T \in SUBSET S : SumFunctionOnSet(f, T) <= SumFunctionOnSet(f, S)
<1> DEFINE F == {T \in SUBSET S : SumFunctionOnSet(f, T) \in Nat}
<1>1. {} \in F
  BY SumEmpty
<1>2. ASSUME NEW T \in F, NEW x \in S \ T PROVE T \cup {x} \in F
  BY SumInsert
<1>3. F \subseteq SUBSET S
  OBVIOUS
<1> HIDE DEF F
<1>4. F = SUBSET S
  BY <1>1, <1>2, <1>3, SubsetInduction
<1>5. \A T \in SUBSET S : SumFunctionOnSet(f, T) \in Nat
  BY <1>4 DEF F
<1>6. ASSUME NEW T \in SUBSET S
      PROVE  SumFunctionOnSet(f, T) <= SumFunctionOnSet(f, S)
  <2>1. SumFunctionOnSet(f, S) = SumFunctionOnSet(f, T) + SumFunctionOnSet(f, S \ T)
    BY SumParts
  <2> QED BY <1>5, <2>1
<1> QED BY <1>5, <1>6

---------------------------------------------------------------------------
(* Recursion over the positions of a sequence. *)

\* Induction over 0..n, with a set for the predicate.
LEMMA BoundedInduction ==
  ASSUME NEW n \in Nat, NEW S, 0 \in S, \A i \in 1..n : i - 1 \in S => i \in S
  PROVE  \A i \in 0..n : i \in S
<1> DEFINE T == {i \in Nat : i <= n => i \in S}
<1>1. 0 \in T
  OBVIOUS
<1>2. ASSUME NEW i \in T PROVE i + 1 \in T
  <2> SUFFICES ASSUME i + 1 <= n PROVE i + 1 \in S
    OBVIOUS
  <2>1. i + 1 \in 1..n /\ (i + 1) - 1 = i /\ i \in S
    OBVIOUS
  <2> QED
    BY <2>1
<1>3. T \in SUBSET Nat
  OBVIOUS
<1> HIDE DEF T
<1>4. T = Nat
  BY <1>1, <1>2, <1>3, SetNatInduction
<1> QED
  BY <1>4 DEF T

Closed(step, n, Z) == \A i \in 1..n, z \in Z : step[<<i, z>>] \in Z

Follows(f, start, step, n) ==
  f[0] = start /\ \A i \in 1..n : f[i] = step[<<i, f[i - 1]>>]

\* A recursion over 0..n whose steps stay in a set has a solution there.
LEMMA BoundedRecursion ==
  ASSUME NEW n \in Nat, NEW Z, NEW start \in Z, NEW step, Closed(step, n, Z)
  PROVE  \E f \in [0..n -> Z] : Follows(f, start, step, n)
<1> DEFINE D == 0..n
           rank == [i \in D |-> i]
           base == {0}
           out == [i \in D |-> start]
           next == [i \in D |-> i - 1]
           combine == [p \in D \X Z |-> IF p[1] = 0 THEN p[2] ELSE step[p]]
<1>1. rank \in [D -> Nat]
  OBVIOUS
<1>2. \A d \in D \ base : next[d] \in D /\ rank[next[d]] < rank[d]
  OBVIOUS
<1>3. \A d \in D \cap base : out[d] \in Z
  OBVIOUS
<1>4. \A d \in D, z \in Z : combine[<<d, z>>] \in Z
  <2> TAKE d \in D, z \in Z
  <2>1. d # 0 => d \in 1..n
    OBVIOUS
  <2> QED
    BY <2>1 DEF Closed
<1>5. PICK f \in [D -> Z] : Unfolds(f, D, base, out, next, combine)
  <2> HIDE DEF D, rank, base, out, next, combine
  <2> QED
    BY <1>1, <1>2, <1>3, <1>4, RecursionExists
<1>6. f[0] = start
  <2>1. 0 \in D /\ 0 \in base /\ out[0] = start
    OBVIOUS
  <2> HIDE DEF D, base, out, next, combine
  <2> QED
    BY <1>5, <2>1 DEF Unfolds
<1>7. ASSUME NEW i \in 1..n PROVE f[i] = step[<<i, f[i - 1]>>]
  <2>1. i \in D /\ i \notin base /\ next[i] = i - 1 /\ i - 1 \in D
    OBVIOUS
  <2>2. f[i] = combine[<<i, f[i - 1]>>]
    BY <1>5, <2>1 DEF Unfolds
  <2> QED
    BY <2>1, <2>2
<1> QED
  BY <1>6, <1>7 DEF Follows

\* Sums add up term by term.
LEMMA SumAdd ==
  ASSUME NEW S, IsFiniteSet(S), NEW f, NEW g, NEW h,
         \A x \in S : f[x] \in Int /\ g[x] \in Int /\ h[x] = f[x] + g[x]
  PROVE  SumFunctionOnSet(h, S) = SumFunctionOnSet(f, S) + SumFunctionOnSet(g, S)
<1> DEFINE F == {T \in SUBSET S :
                   SumFunctionOnSet(h, T) = SumFunctionOnSet(f, T) + SumFunctionOnSet(g, T)}
<1>1. {} \in F
  BY SumEmpty
<1>2. ASSUME NEW T \in F, NEW x \in S \ T PROVE T \cup {x} \in F
  <2>1. /\ SumFunctionOnSet(f, T \cup {x}) = f[x] + SumFunctionOnSet(f, T)
        /\ SumFunctionOnSet(f, T) \in Int /\ f[x] \in Int
    BY SumInsert
  <2>2. /\ SumFunctionOnSet(g, T \cup {x}) = g[x] + SumFunctionOnSet(g, T)
        /\ SumFunctionOnSet(g, T) \in Int /\ g[x] \in Int
    BY SumInsert
  <2>3. SumFunctionOnSet(h, T \cup {x}) = h[x] + SumFunctionOnSet(h, T)
    <3>1. \A y \in S : h[y] \in Int
      OBVIOUS
    <3> QED BY <3>1, SumInsert
  <2>4. h[x] = f[x] + g[x]
    OBVIOUS
  <2>5. SumFunctionOnSet(h, T) = SumFunctionOnSet(f, T) + SumFunctionOnSet(g, T)
    OBVIOUS
  <2>6. SumFunctionOnSet(h, T \cup {x})
          = SumFunctionOnSet(f, T \cup {x}) + SumFunctionOnSet(g, T \cup {x})
    BY <2>1, <2>2, <2>3, <2>4, <2>5
  <2> QED BY <2>6
<1>3. F \subseteq SUBSET S
  OBVIOUS
<1> HIDE DEF F
<1>4. F = SUBSET S
  BY <1>1, <1>2, <1>3, SubsetInduction
<1> QED BY <1>4 DEF F

\* A sum changes by what one term changes by.
LEMMA SumReplace ==
  ASSUME NEW S, IsFiniteSet(S), NEW f, NEW g, NEW x \in S,
         \A y \in S : f[y] \in Int /\ g[y] \in Int /\ (y # x => g[y] = f[y])
  PROVE  SumFunctionOnSet(g, S) = SumFunctionOnSet(f, S) - f[x] + g[x]
<1> DEFINE T == S \ {x}
<1>1. /\ SumFunctionOnSet(f, S) = f[x] + SumFunctionOnSet(f, T)
      /\ SumFunctionOnSet(f, T) \in Int
  BY SumRemove
<1>2. /\ SumFunctionOnSet(g, S) = g[x] + SumFunctionOnSet(g, T)
      /\ SumFunctionOnSet(g, T) \in Int
  BY SumRemove
<1>3. SumFunctionOnSet(f, T) = SumFunctionOnSet(g, T)
  <2>1. IsFiniteSet(T)
    BY FS_Subset
  <2>2. \A y \in T : f[y] \in Int /\ g[y] = f[y]
    OBVIOUS
  <2> HIDE DEF T
  <2> QED BY <2>1, <2>2, SumEqual
<1>4. f[x] \in Int /\ g[x] \in Int
  OBVIOUS
<1> HIDE DEF T
<1> QED BY <1>1, <1>2, <1>3, <1>4

\* A sum is the sum of its sums over the fibres of a function.
Fibre(S, h, i) == {k \in S : h[k] = i}

\* A sum may be taken part by part, along the values of any function.
LEMMA SumFibres ==
  ASSUME NEW S, IsFiniteSet(S), NEW T, IsFiniteSet(T), NEW f, NEW h, NEW part,
         \A k \in S : f[k] \in Int /\ h[k] \in T,
         \A i \in T : part[i] = SumFunctionOnSet(f, Fibre(S, h, i))
  PROVE  SumFunctionOnSet(part, T) = SumFunctionOnSet(f, S)
<1> DEFINE over(U) == {k \in S : h[k] \in U}
           F == {U \in SUBSET T : SumFunctionOnSet(part, U) = SumFunctionOnSet(f, over(U))}
<1>1. {} \in F
  <2>1. over({}) = {}
    OBVIOUS
  <2> QED BY <2>1, SumEmpty
<1>2. \A i \in T : part[i] \in Int
  <2> TAKE i \in T
  <2> DEFINE K == Fibre(S, h, i)
  <2>1. K \in SUBSET S /\ part[i] = SumFunctionOnSet(f, K) /\ \A k \in S : f[k] \in Int
    BY DEF Fibre
  <2> HIDE DEF K
  <2>2. SumFunctionOnSet(f, K) \in Int
    BY <2>1, SumInsert
  <2> QED BY <2>1, <2>2
<1>3. ASSUME NEW U \in F, NEW x \in T \ U PROVE U \cup {x} \in F
  <2> DEFINE W == over(U \cup {x})
             P == over(U)
             Q == Fibre(S, h, x)
  <2>1. W \in SUBSET S /\ P \in SUBSET W /\ W \ P = Q
    BY DEF Fibre
  <2>2. SumFunctionOnSet(f, W) = SumFunctionOnSet(f, P) + SumFunctionOnSet(f, W \ P)
    <3>1. IsFiniteSet(W) /\ \A k \in W : f[k] \in Int
      BY FS_Subset
    <3> HIDE DEF W, P
    <3> QED BY <2>1, <3>1, SumParts
  <2>3. SumFunctionOnSet(f, Q) = part[x]
    OBVIOUS
  <2>4. /\ SumFunctionOnSet(part, U \cup {x}) = part[x] + SumFunctionOnSet(part, U)
        /\ SumFunctionOnSet(part, U) \in Int
    BY <1>2, SumInsert
  <2>5. SumFunctionOnSet(part, U) = SumFunctionOnSet(f, P)
    OBVIOUS
  <2> HIDE DEF W, P, Q
  <2>7. part[x] \in Int
    BY <1>2
  <2>6. SumFunctionOnSet(part, U \cup {x}) = SumFunctionOnSet(f, W)
    <3>1. SumFunctionOnSet(f, W \ P) = part[x]
      BY <2>1, <2>3
    <3> QED BY <2>2, <2>4, <2>5, <2>7, <3>1
  <2> QED BY <2>6 DEF W
<1>4. F \subseteq SUBSET T
  OBVIOUS
<1>5. over(T) = S
  OBVIOUS
<1> HIDE DEF F
<1>6. F = SUBSET T
  BY <1>1, <1>3, <1>4, SubsetInduction
<1>7. T \in F
  BY <1>6
<1>8. SumFunctionOnSet(part, T) = SumFunctionOnSet(f, over(T))
  BY <1>7 DEF F
<1> HIDE DEF over
<1> QED BY <1>5, <1>8

\* A sum over an interval is that of the terms moved up.
LEMMA SumShift ==
  ASSUME NEW n \in Nat, NEW c \in Nat, NEW f, NEW g,
         \A k \in 1..n : f[k] \in Int /\ g[c + k] = f[k]
  PROVE  SumFunctionOnSet(f, 1..n) = SumFunctionOnSet(g, (c + 1)..(c + n))
<1> DEFINE S == {k \in 0..n :
                   SumFunctionOnSet(f, 1..k) = SumFunctionOnSet(g, (c + 1)..(c + k))}
<1>1. 0 \in S
  <2>1. 1..0 = {} /\ (c + 1)..(c + 0) = {}
    OBVIOUS
  <2> QED BY <2>1, SumEmpty
<1>2. ASSUME NEW k \in 1..n, k - 1 \in S PROVE k \in S
  <2> DEFINE A == 1..(k - 1)
             B == (c + 1)..(c + (k - 1))
  <2>1. /\ A \in SUBSET (1..n) /\ k \in (1..n) \ A /\ 1..k = A \cup {k}
    OBVIOUS
  <2>2. /\ B \in SUBSET ((c + 1)..(c + n)) /\ c + k \in ((c + 1)..(c + n)) \ B
        /\ (c + 1)..(c + k) = B \cup {c + k}
    OBVIOUS
  <2>3. SumFunctionOnSet(f, A) = SumFunctionOnSet(g, B)
    BY <1>2
  <2>4. IsFiniteSet(1..n) /\ IsFiniteSet((c + 1)..(c + n))
    <3>1. 1 \in Int /\ n \in Int /\ c + 1 \in Int /\ c + n \in Int
      OBVIOUS
    <3> QED BY <3>1, FS_Interval
  <2>5. SumFunctionOnSet(f, A \cup {k}) = f[k] + SumFunctionOnSet(f, A)
    <3> DEFINE D == 1..n
    <3>1. /\ \A x \in D : f[x] \in Int
          /\ IsFiniteSet(D) /\ A \in SUBSET D /\ k \in D \ A
      BY <2>1, <2>4
    <3> HIDE DEF A, D
    <3>2. \A x \in D \ A : SumFunctionOnSet(f, A \cup {x}) = f[x] + SumFunctionOnSet(f, A)
      BY <3>1, SumInsert, ZenonT(60)
    <3> QED BY <3>1, <3>2
  <2>6. SumFunctionOnSet(g, B \cup {c + k}) = g[c + k] + SumFunctionOnSet(g, B)
    <3>1. ASSUME NEW x \in (c + 1)..(c + n) PROVE g[x] \in Int
      <4>1. x - c \in 1..n /\ c + (x - c) = x
        OBVIOUS
      <4> QED BY <4>1
    <3> DEFINE D == (c + 1)..(c + n)
               x == c + k
    <3>2. /\ \A y \in D : g[y] \in Int
          /\ IsFiniteSet(D) /\ B \in SUBSET D /\ x \in D \ B
      BY <2>2, <2>4, <3>1
    <3> HIDE DEF B, D, x
    <3>3. SumFunctionOnSet(g, B \cup {x}) = g[x] + SumFunctionOnSet(g, B)
      BY <3>2, SumInsert
    <3> QED BY <3>3 DEF x
  <2>7. g[c + k] = f[k]
    OBVIOUS
  <2> HIDE DEF A, B
  <2>8. SumFunctionOnSet(f, 1..k) = SumFunctionOnSet(g, (c + 1)..(c + k))
    BY <2>1, <2>2, <2>3, <2>5, <2>6, <2>7
  <2> QED BY <2>8
<1> HIDE DEF S
<1>3. n \in S
  BY <1>1, <1>2, BoundedInduction
<1> QED BY <1>3 DEF S

\* One term more.
LEMMA IntervalSum ==
  ASSUME NEW n \in Nat, NEW f, \A x \in 1..n : f[x] \in Int, NEW k \in 1..n
  PROVE  /\ SumFunctionOnSet(f, 1..k) = SumFunctionOnSet(f, 1..(k - 1)) + f[k]
         /\ SumFunctionOnSet(f, 1..(k - 1)) \in Int
<1> DEFINE D == 1..n
           A == 1..(k - 1)
<1>1. /\ \A x \in D : f[x] \in Int
      /\ IsFiniteSet(D) /\ A \in SUBSET D /\ k \in D \ A
  BY FS_Interval
<1>2. 1..k = A \cup {k}
  OBVIOUS
<1> HIDE DEF A, D
<1>3. \A x \in D \ A : SumFunctionOnSet(f, A \cup {x}) = f[x] + SumFunctionOnSet(f, A)
  BY <1>1, SumInsert, ZenonT(60)
<1>4. SumFunctionOnSet(f, A) \in Int
  BY <1>1, SumInsert
<1>5. SumFunctionOnSet(f, A \cup {k}) = f[k] + SumFunctionOnSet(f, A) /\ f[k] \in Int
  BY <1>1, <1>3
<1>6. SumFunctionOnSet(f, A \cup {k}) = SumFunctionOnSet(f, A) + f[k]
  BY <1>4, <1>5
<1>7. SumFunctionOnSet(f, 1..k) = SumFunctionOnSet(f, A \cup {k})
  BY <1>2
<1>8. SumFunctionOnSet(f, 1..k) = SumFunctionOnSet(f, A) + f[k]
  BY <1>6, <1>7
<1> QED BY <1>4, <1>8 DEF A

\* The sum over a subset of 1..n+1 that holds n+1.
LEMMA LastInsert ==
  ASSUME NEW n \in Nat, NEW f, \A x \in 1..(n + 1) : f[x] \in Int, NEW T \in SUBSET (1..n)
  PROVE  SumFunctionOnSet(f, T \cup {n + 1}) = SumFunctionOnSet(f, T) + f[n + 1]
<1> DEFINE D == 1..(n + 1)
           x == n + 1
<1>1. /\ \A y \in D : f[y] \in Int
      /\ IsFiniteSet(D) /\ T \in SUBSET D /\ x \in D \ T
  BY FS_Interval
<1> HIDE DEF D, x
<1>3. \A y \in D \ T : SumFunctionOnSet(f, T \cup {y}) = f[y] + SumFunctionOnSet(f, T)
  BY <1>1, SumInsert, ZenonT(60)
<1>4. SumFunctionOnSet(f, T) \in Int
  BY <1>1, SumInsert
<1> QED BY <1>1, <1>3, <1>4 DEF x

\* A sum of zeros is zero.
LEMMA SumZero ==
  ASSUME NEW S, IsFiniteSet(S), NEW f, \A x \in S : f[x] = 0
  PROVE  SumFunctionOnSet(f, S) = 0
<1> DEFINE F == {T \in SUBSET S : SumFunctionOnSet(f, T) = 0}
<1>1. {} \in F
  BY SumEmpty
<1>2. ASSUME NEW T \in F, NEW x \in S \ T PROVE T \cup {x} \in F
  <2>1. SumFunctionOnSet(f, T \cup {x}) = f[x] + SumFunctionOnSet(f, T)
    BY SumInsert
  <2> QED BY <2>1
<1>3. F \subseteq SUBSET S
  OBVIOUS
<1> HIDE DEF F
<1>4. F = SUBSET S
  BY <1>1, <1>2, <1>3, SubsetInduction
<1> QED BY <1>4 DEF F

-----------------------------------------------------------------------------
(* Lists, and lists of lists, flattened one after the other.               *)

\* The items of a list.
ItemsOf(s) == {s[j] : j \in 1 .. Len(s)}

\* Lists of lists flattened up to the i-th.
FlatTo(f, ss) ==
  f = [i \in 1 .. Len(ss) |-> IF i = 1 THEN ss[i] ELSE f[i - 1] \o ss[i]]

\* What is in two lists, one after the other.
LEMMA ItemsOfBoth ==
  ASSUME NEW S, NEW s \in Seq(S), NEW t \in Seq(S)
  PROVE  s \o t \in Seq(S) /\ ItemsOf(s \o t) = ItemsOf(s) \cup ItemsOf(t)
<1>1. /\ s \o t \in Seq(S) /\ Len(s \o t) = Len(s) + Len(t)
      /\ Len(s) \in Nat /\ Len(t) \in Nat
      /\ \A j \in 1 .. Len(s) + Len(t) :
           (s \o t)[j] = IF j <= Len(s) THEN s[j] ELSE t[j - Len(s)]
  OBVIOUS
<1> DEFINE u == s \o t
<1> HIDE DEF u
<1>2. /\ Len(u) = Len(s) + Len(t)
      /\ \A j \in 1 .. Len(s) + Len(t) :
           u[j] = IF j <= Len(s) THEN s[j] ELSE t[j - Len(s)]
  BY <1>1 DEF u
<1>3. ASSUME NEW j \in 1 .. Len(s) PROVE s[j] \in ItemsOf(u)
  <2>1. j \in 1 .. Len(u) /\ u[j] = s[j]
    BY <1>1, <1>2
  <2> QED
    BY <2>1 DEF ItemsOf
<1>4. ASSUME NEW j \in 1 .. Len(t) PROVE t[j] \in ItemsOf(u)
  <2>1. j + Len(s) \in 1 .. Len(u) /\ u[j + Len(s)] = t[j]
    BY <1>1, <1>2
  <2> QED
    BY <2>1 DEF ItemsOf
<1>5. ASSUME NEW j \in 1 .. Len(u) PROVE u[j] \in ItemsOf(s) \cup ItemsOf(t)
  <2>1. CASE j <= Len(s)
    <3>1. j \in 1 .. Len(s) /\ u[j] = s[j]
      BY <1>1, <1>2, <2>1
    <3> QED
      BY <3>1 DEF ItemsOf
  <2>2. CASE ~(j <= Len(s))
    <3>1. j - Len(s) \in 1 .. Len(t) /\ u[j] = t[j - Len(s)]
      BY <1>1, <1>2, <2>2
    <3> QED
      BY <3>1 DEF ItemsOf
  <2> QED
    BY <2>1, <2>2
<1>6. ItemsOf(u) = ItemsOf(s) \cup ItemsOf(t)
  BY <1>3, <1>4, <1>5 DEF ItemsOf
<1> QED
  BY <1>1, <1>6 DEF u

\* Any list of lists can be flattened.
LEMMA FlatExists ==
  ASSUME NEW S, NEW n \in Nat \ {0}, NEW ss, DOMAIN ss = 1 .. n, Len(ss) = n,
         \A i \in 1 .. n : ss[i] \in Seq(S)
  PROVE  \E f : FlatTo(f, ss)
<1> DEFINE step == [p \in (1 .. n) \X Seq(S) |->
                      IF p[1] = 1 THEN ss[1] ELSE p[2] \o ss[p[1]]]
<1>1. Closed(step, n, Seq(S))
  BY DEF Closed
<1>2. <<>> \in Seq(S)
  OBVIOUS
<1>3. PICK g \in [0 .. n -> Seq(S)] : Follows(g, <<>>, step, n)
  <2> HIDE DEF step
  <2> QED
    BY <1>1, <1>2, BoundedRecursion
<1> DEFINE f == [i \in 1 .. n |-> g[i]]
<1>4. ASSUME NEW i \in 1 .. n
      PROVE  f[i] = IF i = 1 THEN ss[i] ELSE f[i - 1] \o ss[i]
  <2>0. i - 1 \in 0 .. n
    OBVIOUS
  <2>1. g[i] = step[<<i, g[i - 1]>>] /\ g[i - 1] \in Seq(S)
    <3> HIDE DEF step
    <3> QED
      BY <1>3, <2>0 DEF Follows
  <2>2. g[i] = IF i = 1 THEN ss[1] ELSE g[i - 1] \o ss[i]
    BY <2>1
  <2>3. i # 1 => i - 1 \in 1 .. n
    OBVIOUS
  <2> QED
    BY <2>2, <2>3
<1>5. FlatTo(f, ss)
  BY <1>4 DEF FlatTo
<1> QED
  BY <1>5

\* It then holds what its lists hold, and nothing else.
LEMMA ItemsFlat ==
  ASSUME NEW S, NEW n \in Nat \ {0}, NEW ss, DOMAIN ss = 1 .. n, Len(ss) = n,
         \A i \in 1 .. n : ss[i] \in Seq(S),
         NEW h, FlatTo(h, ss)
  PROVE  h[n] \in Seq(S) /\ ItemsOf(h[n]) = UNION {ItemsOf(ss[i]) : i \in 1 .. n}
<1> DEFINE All(i) == UNION {ItemsOf(ss[j]) : j \in 1 .. i}
           T == {i \in 0 .. n : i # 0 => h[i] \in Seq(S) /\ ItemsOf(h[i]) = All(i)}
<1>1. 0 \in T
  OBVIOUS
<1>2. ASSUME NEW i \in 1 .. n, i - 1 \in T PROVE i \in T
  <2>1. h[i] = IF i = 1 THEN ss[i] ELSE h[i - 1] \o ss[i]
    BY DEF FlatTo
  <2>2. CASE i = 1
    <3>1. All(1) = ItemsOf(ss[1])
      OBVIOUS
    <3> QED
      BY <2>1, <2>2, <3>1
  <2>3. CASE i # 1
    <3>1. h[i - 1] \in Seq(S) /\ ItemsOf(h[i - 1]) = All(i - 1) /\ ss[i] \in Seq(S)
      BY <1>2, <2>3
    <3>2. h[i] \in Seq(S) /\ ItemsOf(h[i]) = All(i - 1) \cup ItemsOf(ss[i])
      BY <2>1, <2>3, <3>1, ItemsOfBoth
    <3>3. All(i) = All(i - 1) \cup ItemsOf(ss[i])
      <4>1. 1 .. i = (1 .. i - 1) \cup {i}
        OBVIOUS
      <4> QED
        BY <4>1
    <3>4. i \in 0 .. n /\ h[i] \in Seq(S) /\ ItemsOf(h[i]) = All(i)
      BY <3>2, <3>3
    <3> HIDE DEF All
    <3> QED
      BY <3>4
  <2> QED
    BY <2>2, <2>3
<1>3. n \in T
  <2> HIDE DEF T
  <2>1. \A i \in 0 .. n : i \in T
    BY <1>1, <1>2, BoundedInduction
  <2>2. n \in 0 .. n
    OBVIOUS
  <2> QED
    BY <2>1, <2>2
<1> QED
  BY <1>3
=============================================================================

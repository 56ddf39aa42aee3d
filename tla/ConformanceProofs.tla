-------------------------- MODULE ConformanceProofs --------------------------
(***************************************************************************)
(* Theorems about the pytest side of the conformance suites, for any       *)
(* archive, any suite of case directories, and any entries of fork_choice  *)
(* vectors.  The walk: its counts of what it yielded never fall behind     *)
(* what it met.  The fork_choice vectors: the lines of a script stand for  *)
(* exactly what the vector asks for, and what ran is a prefix of them.     *)
(* The vector cache: the theorems of VectorArchiveProofs, once for the     *)
(* workers of a session and once for sessions in turn.                     *)
(***************************************************************************)
EXTENDS Conformance, InductionLemmas, TLAPS

-----------------------------------------------------------------------------
(* The walk over the cases. *)

\* The cases in scope met before position n, by the name they are known by.
MetBefore(n) ==
  {Walk!CaseId(Walk!Tree[i]) : i \in {j \in present : j < n /\ Walk!InScope(Walk!Tree[j])}}

\* Those of the group of the case at k.
MetOfGroup(n, k) ==
  {Walk!CaseId(Walk!Tree[i]) :
     i \in {j \in present : /\ j < n /\ Walk!InScope(Walk!Tree[j])
                            /\ Walk!Alike(Walk!Tree[j], Walk!Tree[k])}}

\* The places of the yielded cases of that group.
Taken(yielded, k) ==
  {i \in DOMAIN yielded : Walk!Alike(Walk!Tree[yielded[i]], Walk!Tree[k])}

\* What the cap leaves of n cases.
Capped(n) == IF limit = 0 THEN n ELSE Walk!Least(limit, n)

\* The values of the variables.
WalkTyped ==
  /\ suite \in DOMAIN Trees
  /\ present \in SUBSET DOMAIN Walk!Tree
  /\ limit \in Nat
  /\ at \in 1 .. Len(Walk!Tree) + 1
  /\ counts \in [Walk!Groups -> Nat]
  /\ collected \in Seq(DOMAIN Walk!Tree)

\* Up to position n: seen is what was met, counts what the cap leaves of it, and
\* as many were yielded, each of them met, no two the same.
WalkCounts(n) ==
  /\ seen = {Walk!CaseKey(Walk!Tree[i]) :
               i \in {j \in present : j < n /\ Walk!InScope(Walk!Tree[j])}}
  /\ \A j \in DOMAIN collected : Walk!CaseId(Walk!Tree[collected[j]]) \in MetBefore(n)
  /\ \A k \in DOMAIN Walk!Tree :
       /\ counts[Walk!Group(Walk!Tree[k])] = Capped(Cardinality(MetOfGroup(n, k)))
       /\ Cardinality(Taken(collected, k)) = counts[Walk!Group(Walk!Tree[k])]
  /\ Walk!IdsDistinct

WalkInv == WalkTyped /\ WalkCounts(at)

\* The tree of a suite is a sequence of different directories.
LEMMA TreeFacts ==
  ASSUME suite \in DOMAIN Trees
  PROVE  /\ Walk!Tree \in Seq(CaseDirectory)
         /\ Len(Walk!Tree) \in Nat
         /\ DOMAIN Walk!Tree = 1 .. Len(Walk!Tree)
         /\ \A i \in DOMAIN Walk!Tree : Walk!Tree[i] \in CaseDirectory
         /\ suite \in {"consensus", "generic"}
<1>1. Walk!Tree \in Seq(CaseDirectory) /\ suite \in {"consensus", "generic"}
  BY TreesAssumption DEF Walk!Tree
<1> QED
  BY <1>1

\* Two cases count for the same group exactly when they are alike.
LEMMA AlikeIsGroup ==
  ASSUME suite \in DOMAIN Trees, NEW i \in DOMAIN Walk!Tree, NEW k \in DOMAIN Walk!Tree
  PROVE  Walk!Alike(Walk!Tree[i], Walk!Tree[k])
           <=> Walk!Group(Walk!Tree[i]) = Walk!Group(Walk!Tree[k])
<1>1. suite = "generic" => Walk!Tree[i].runner = Walk!Tree[k].runner
  BY TreesAssumption DEF Walk!Tree
<1>2. suite \in {"consensus", "generic"}
  BY TreeFacts
<1> QED
  BY <1>1, <1>2 DEF Walk!Alike, Walk!Group

\* A case at another position is another case, but for the fork in the generic suite.
LEMMA ConsensusCasesDiffer ==
  ASSUME suite = "consensus", suite \in DOMAIN Trees,
         NEW i \in DOMAIN Walk!Tree, NEW k \in DOMAIN Walk!Tree, i # k
  PROVE  Walk!CaseId(Walk!Tree[i]) # Walk!CaseId(Walk!Tree[k])
  BY TreesAssumption DEF Walk!Tree, Walk!CaseId

\* What was met is finite.
LEMMA MetFinite ==
  ASSUME WalkTyped, NEW n, NEW k
  PROVE  IsFiniteSet(MetOfGroup(n, k)) /\ Cardinality(MetOfGroup(n, k)) \in Nat
<1> DEFINE P == {j \in present : /\ j < n /\ Walk!InScope(Walk!Tree[j])
                                 /\ Walk!Alike(Walk!Tree[j], Walk!Tree[k])}
           Id(i) == Walk!CaseId(Walk!Tree[i])
<1>1. IsFiniteSet(DOMAIN Walk!Tree)
  BY TreeFacts, FS_Interval DEF WalkTyped
<1>2. IsFiniteSet(P)
  <2>1. P \subseteq DOMAIN Walk!Tree
    BY DEF WalkTyped
  <2> HIDE DEF P
  <2> QED
    BY <1>1, <2>1, FS_Subset
<1>3. MetOfGroup(n, k) = {Id(i) : i \in P}
  BY DEF MetOfGroup
<1> DEFINE f == [i \in P |-> Id(i)]
<1>4. f \in Surjection(P, MetOfGroup(n, k))
  <2> HIDE DEF P, Id
  <2> QED
    BY <1>3 DEF Surjection
<1>5. IsFiniteSet(MetOfGroup(n, k))
  <2> HIDE DEF P, f
  <2> QED
    BY <1>2, <1>4, FS_Surjection
<1> QED
  BY <1>5, FS_CardinalityType

\* At first nothing was met.
LEMMA WalkStarts == Walk!Init => WalkInv
<1> SUFFICES ASSUME Walk!Init PROVE WalkInv
  OBVIOUS
<1> USE DEF Walk!Init
<1>1. WalkTyped
  BY TreeFacts, TreesAssumption DEF WalkTyped
<1>2. \A k : MetOfGroup(at, k) = {} /\ Taken(collected, k) = {}
  BY TreeFacts DEF MetOfGroup, Taken
<1>3. Cardinality({}) = 0
  BY FS_EmptySet
<1>4. Capped(0) = 0
  BY <1>1 DEF Capped, Walk!Least, WalkTyped
<1>5. \A k \in DOMAIN Walk!Tree : counts[Walk!Group(Walk!Tree[k])] = 0
  BY DEF Walk!Groups
<1>6. seen = {Walk!CaseKey(Walk!Tree[i]) :
                i \in {j \in present : j < at /\ Walk!InScope(Walk!Tree[j])}}
  BY TreeFacts
<1>7. DOMAIN collected = {}
  OBVIOUS
<1>8. ASSUME NEW k \in DOMAIN Walk!Tree
      PROVE  /\ counts[Walk!Group(Walk!Tree[k])] = Capped(Cardinality(MetOfGroup(at, k)))
             /\ Cardinality(Taken(collected, k)) = counts[Walk!Group(Walk!Tree[k])]
  <2>1. MetOfGroup(at, k) = {} /\ Taken(collected, k) = {}
    BY <1>2
  <2> QED
    BY <2>1, <1>3, <1>4, <1>5
<1>9. WalkCounts(at)
  BY <1>6, <1>7, <1>8 DEF WalkCounts, Walk!IdsDistinct
<1> QED
  BY <1>1, <1>9 DEF WalkInv

\* Nothing changes where no case in scope is visited.
LEMMA NothingMet ==
  ASSUME WalkTyped, at \in DOMAIN Walk!Tree,
         at \notin present \/ ~ Walk!InScope(Walk!Tree[at])
  PROVE  /\ MetBefore(at + 1) = MetBefore(at)
         /\ \A k : MetOfGroup(at + 1, k) = MetOfGroup(at, k)
         /\ {j \in present : j < at + 1 /\ Walk!InScope(Walk!Tree[j])}
              = {j \in present : j < at /\ Walk!InScope(Walk!Tree[j])}
<1>1. \A j \in present : Walk!InScope(Walk!Tree[j]) => (j < at + 1 <=> j < at)
  <2>1. \A j \in present : j \in Nat
    BY TreeFacts DEF WalkTyped
  <2>2. at \in Nat
    BY TreeFacts DEF WalkTyped
  <2> QED
    BY <2>1, <2>2
<1> QED
  BY <1>1 DEF MetBefore, MetOfGroup

\* Where one is, it joins those met, in its own group.
LEMMA OneMet ==
  ASSUME WalkTyped, at \in present, Walk!InScope(Walk!Tree[at])
  PROVE  LET id == Walk!CaseId(Walk!Tree[at])
         IN /\ MetBefore(at + 1) = MetBefore(at) \cup {id}
            /\ \A k : MetOfGroup(at + 1, k) =
                 IF Walk!Alike(Walk!Tree[at], Walk!Tree[k]) THEN MetOfGroup(at, k) \cup {id}
                 ELSE MetOfGroup(at, k)
            /\ {j \in present : j < at + 1 /\ Walk!InScope(Walk!Tree[j])}
                 = {j \in present : j < at /\ Walk!InScope(Walk!Tree[j])} \cup {at}
<1>1. \A j \in present : j < at + 1 <=> j < at \/ j = at
  <2>1. \A j \in present : j \in Nat
    BY TreeFacts DEF WalkTyped
  <2>2. at \in Nat
    BY TreeFacts DEF WalkTyped
  <2> QED
    BY <2>1, <2>2
<1>2. ~ (at < at)
  BY TreeFacts DEF WalkTyped
<1>3. {j \in present : j < at + 1 /\ Walk!InScope(Walk!Tree[j])}
        = {j \in present : j < at /\ Walk!InScope(Walk!Tree[j])} \cup {at}
  BY <1>1
<1>4. ASSUME NEW k
      PROVE  {j \in present : /\ j < at + 1 /\ Walk!InScope(Walk!Tree[j])
                              /\ Walk!Alike(Walk!Tree[j], Walk!Tree[k])}
               = {j \in present : /\ j < at /\ Walk!InScope(Walk!Tree[j])
                                  /\ Walk!Alike(Walk!Tree[j], Walk!Tree[k])}
                 \cup (IF Walk!Alike(Walk!Tree[at], Walk!Tree[k]) THEN {at} ELSE {})
  BY <1>1
<1> QED
  BY <1>3, <1>4 DEF MetBefore, MetOfGroup

\* A case not known before joins those met as one more of its group.
LEMMA OneMoreMet ==
  ASSUME WalkTyped, at \in present, Walk!InScope(Walk!Tree[at]), NEW k,
         Walk!Alike(Walk!Tree[at], Walk!Tree[k]),
         Walk!CaseId(Walk!Tree[at]) \notin MetBefore(at)
  PROVE  Cardinality(MetOfGroup(at + 1, k)) = Cardinality(MetOfGroup(at, k)) + 1
<1> DEFINE id == Walk!CaseId(Walk!Tree[at])
<1>1. MetOfGroup(at + 1, k) = MetOfGroup(at, k) \cup {id}
  BY OneMet
<1>2. MetOfGroup(at, k) \subseteq MetBefore(at)
  BY DEF MetOfGroup, MetBefore
<1> HIDE DEF id
<1> QED
  BY <1>1, <1>2, MetFinite, FS_AddElement DEF id

\* A case already known by its name, of the same group, adds nothing.
LEMMA NothingMoreMet ==
  ASSUME WalkTyped, at \in present, Walk!InScope(Walk!Tree[at]),
         suite = "generic",
         NEW i \in present, i < at, Walk!InScope(Walk!Tree[i]),
         Walk!CaseKey(Walk!Tree[i]) = Walk!CaseKey(Walk!Tree[at])
  PROVE  /\ MetBefore(at + 1) = MetBefore(at)
         /\ \A k : MetOfGroup(at + 1, k) = MetOfGroup(at, k)
<1>1. Walk!CaseId(Walk!Tree[i]) = Walk!CaseId(Walk!Tree[at])
  BY DEF Walk!CaseId
<1>2. /\ Walk!Tree[i].handler = Walk!Tree[at].handler
      /\ Walk!Tree[i].kind = Walk!Tree[at].kind
  BY DEF Walk!CaseKey
<1>3. Walk!Tree[i].runner = Walk!Tree[at].runner
  BY TreesAssumption DEF WalkTyped, Walk!Tree
<1>4. \A k : Walk!Alike(Walk!Tree[at], Walk!Tree[k]) => Walk!Alike(Walk!Tree[i], Walk!Tree[k])
  BY <1>2, <1>3 DEF Walk!Alike
<1>5. Walk!CaseId(Walk!Tree[at]) \in MetBefore(at)
  BY <1>1 DEF MetBefore
<1>6. \A k : Walk!Alike(Walk!Tree[at], Walk!Tree[k]) =>
               Walk!CaseId(Walk!Tree[at]) \in MetOfGroup(at, k)
  BY <1>1, <1>4 DEF MetOfGroup
<1> DEFINE id == Walk!CaseId(Walk!Tree[at])
<1>7. /\ MetBefore(at + 1) = MetBefore(at) \cup {id}
      /\ \A k : MetOfGroup(at + 1, k) =
           IF Walk!Alike(Walk!Tree[at], Walk!Tree[k]) THEN MetOfGroup(at, k) \cup {id}
           ELSE MetOfGroup(at, k)
  BY OneMet
<1> HIDE DEF id
<1>8. MetBefore(at + 1) = MetBefore(at)
  BY <1>5, <1>7 DEF id
<1>9. \A k : MetOfGroup(at + 1, k) = MetOfGroup(at, k)
  BY <1>6, <1>7 DEF id
<1> QED
  BY <1>8, <1>9

\* A case that was not met before, by its name, is yielded up to the cap.
LEMMA WalkYields ==
  ASSUME WalkInv, at \in present, Walk!InScope(Walk!Tree[at]), Walk!Yield(Walk!Tree[at]),
         Walk!CaseId(Walk!Tree[at]) \notin MetBefore(at),
         at' = at + 1, UNCHANGED <<suite, present, limit>>,
         seen' = seen \cup {Walk!CaseKey(Walk!Tree[at])}
  PROVE  WalkInv'
<1> DEFINE here == Walk!Tree[at]
           id == Walk!CaseId(here)
           g == Walk!Group(here)
<1>1. WalkTyped /\ WalkCounts(at)
  BY DEF WalkInv
<1>2. at \in DOMAIN Walk!Tree /\ at \in Nat
  BY <1>1, TreeFacts DEF WalkTyped
<1>3. /\ (Walk!Tree)' = Walk!Tree /\ (Walk!Groups)' = Walk!Groups
      /\ \A d : Walk!Group(d)' = Walk!Group(d) /\ Walk!CaseId(d)' = Walk!CaseId(d)
      /\ \A d, e : Walk!Alike(d, e)' = Walk!Alike(d, e)
      /\ \A d : Walk!InScope(d)' = Walk!InScope(d)
  BY DEF Walk!Tree, Walk!Groups, Walk!Group, Walk!CaseId, Walk!Alike, Walk!InScope
<1>4. /\ MetBefore(at)' = MetBefore(at + 1)
      /\ \A k : MetOfGroup(at, k)' = MetOfGroup(at + 1, k)
  BY <1>3 DEF MetBefore, MetOfGroup
<1>5. \A n \in Nat : Capped(n)' = Capped(n)
  BY DEF Capped, Walk!Least
<1>6. /\ MetBefore(at + 1) = MetBefore(at) \cup {id}
      /\ {j \in present : j < at + 1 /\ Walk!InScope(Walk!Tree[j])}
           = {j \in present : j < at /\ Walk!InScope(Walk!Tree[j])} \cup {at}
  BY <1>1, OneMet
<1>7. ASSUME NEW k, Walk!Alike(here, Walk!Tree[k])
      PROVE  Cardinality(MetOfGroup(at + 1, k)) = Cardinality(MetOfGroup(at, k)) + 1
  BY <1>1, <1>7, OneMoreMet
<1>8. ASSUME NEW k, ~ Walk!Alike(here, Walk!Tree[k])
      PROVE  MetOfGroup(at + 1, k) = MetOfGroup(at, k)
  BY <1>1, <1>8, OneMet
<1>9. \A k \in DOMAIN Walk!Tree : Walk!Alike(here, Walk!Tree[k]) <=> g = Walk!Group(Walk!Tree[k])
  BY <1>1, <1>2, AlikeIsGroup DEF WalkTyped
<1>10. g \in Walk!Groups /\ \A k \in DOMAIN Walk!Tree : Walk!Group(Walk!Tree[k]) \in Walk!Groups
  BY <1>2 DEF Walk!Groups
<1>11. /\ seen' = {Walk!CaseKey(Walk!Tree[i]) :
                    i \in {j \in present : j < at + 1 /\ Walk!InScope(Walk!Tree[j])}}
  BY <1>1, <1>6 DEF WalkCounts
<1>12. seen' = {Walk!CaseKey(Walk!Tree[i]) :
                  i \in {j \in present : j < at /\ Walk!InScope(Walk!Tree[j])}}'
  BY <1>3, <1>11
<1>13. at' \in 1 .. Len(Walk!Tree) + 1
  BY <1>1, <1>2, TreeFacts DEF WalkTyped
<1>14. \A k \in DOMAIN Walk!Tree :
         /\ counts[Walk!Group(Walk!Tree[k])] = Capped(Cardinality(MetOfGroup(at, k)))
         /\ Cardinality(Taken(collected, k)) = counts[Walk!Group(Walk!Tree[k])]
         /\ Cardinality(MetOfGroup(at, k)) \in Nat
         /\ counts[Walk!Group(Walk!Tree[k])] \in Nat
  BY <1>1, <1>10, MetFinite DEF WalkCounts, WalkTyped
<1>15. CASE limit # 0 /\ counts[g] >= limit
  <2>1. counts' = counts /\ collected' = collected
    BY <1>15 DEF Walk!Yield
  <2>2. WalkTyped'
    BY <1>1, <1>3, <1>13, <2>1 DEF WalkTyped
  <2>3. ASSUME NEW k \in DOMAIN Walk!Tree
        PROVE  /\ counts'[Walk!Group(Walk!Tree[k])] = Capped(Cardinality(MetOfGroup(at + 1, k)))
               /\ Cardinality(Taken(collected, k))' = counts'[Walk!Group(Walk!Tree[k])]
    <3>1. Taken(collected, k)' = Taken(collected, k)
      BY <1>3, <2>1 DEF Taken
    <3>2. CASE Walk!Alike(here, Walk!Tree[k])
      <4>1. counts[Walk!Group(Walk!Tree[k])] >= limit /\ limit \in Nat /\ limit # 0
        BY <1>1, <1>9, <1>15, <3>2 DEF WalkTyped
      <4> QED
        BY <4>1, <1>7, <1>14, <2>1, <3>1, <3>2 DEF Capped, Walk!Least
    <3>3. CASE ~ Walk!Alike(here, Walk!Tree[k])
      BY <1>8, <1>14, <2>1, <3>1, <3>3
    <3> QED
      BY <3>2, <3>3
  <2>4. \A j \in DOMAIN collected : Walk!CaseId(Walk!Tree[collected[j]]) \in MetBefore(at + 1)
    BY <1>1, <1>6 DEF WalkCounts
  <2>5. (Walk!IdsDistinct)'
    BY <1>1, <1>3, <2>1 DEF WalkCounts, Walk!IdsDistinct
  <2>6. WalkCounts(at)'
    <3>1. \A k \in DOMAIN (Walk!Tree)' :
            /\ counts'[(Walk!Group(Walk!Tree[k]))'] = Capped(Cardinality(MetOfGroup(at, k)))'
            /\ Cardinality(Taken(collected, k))' = counts'[(Walk!Group(Walk!Tree[k]))']
      BY <1>3, <1>4, <1>5, <2>3, <1>1, MetFinite
    <3>2. \A j \in DOMAIN collected' : Walk!CaseId(Walk!Tree[collected[j]])' \in MetBefore(at)'
      BY <1>3, <1>4, <2>1, <2>4
    <3> QED
      BY <1>12, <2>5, <3>1, <3>2 DEF WalkCounts
  <2> QED
    BY <2>2, <2>6 DEF WalkInv
<1>16. CASE ~ (limit # 0 /\ counts[g] >= limit)
  <2>1. /\ counts' = [counts EXCEPT ![g] = @ + 1]
        /\ collected' = Append(collected, at)
    BY <1>16 DEF Walk!Yield
  <2>2. WalkTyped'
    <3>1. collected' \in Seq(DOMAIN Walk!Tree)
      BY <1>1, <1>2, <2>1 DEF WalkTyped
    <3>2. counts' \in [Walk!Groups -> Nat]
      BY <1>1, <1>10, <2>1 DEF WalkTyped
    <3> QED
      BY <1>1, <1>3, <1>13, <3>1, <3>2 DEF WalkTyped
  <2>3. /\ Len(collected) \in Nat /\ Len(collected') = Len(collected) + 1
        /\ DOMAIN collected = 1 .. Len(collected)
        /\ DOMAIN collected' = DOMAIN collected \cup {Len(collected) + 1}
        /\ Len(collected) + 1 \notin DOMAIN collected
        /\ \A j \in DOMAIN collected : collected'[j] = collected[j]
        /\ collected'[Len(collected) + 1] = at
    <3>1. collected \in Seq(DOMAIN Walk!Tree)
      BY <1>1 DEF WalkTyped
    <3> QED
      BY <2>1, <3>1, <1>2
  <2>4. ASSUME NEW k \in DOMAIN Walk!Tree
        PROVE  /\ counts'[Walk!Group(Walk!Tree[k])] = Capped(Cardinality(MetOfGroup(at + 1, k)))
               /\ Cardinality(Taken(collected, k))' = counts'[Walk!Group(Walk!Tree[k])]
    <3>1. Taken(collected, k)' = Taken(collected, k)
            \cup (IF Walk!Alike(here, Walk!Tree[k]) THEN {Len(collected) + 1} ELSE {})
      BY <1>3, <2>3 DEF Taken
    <3>2. Taken(collected, k) \subseteq DOMAIN collected
      BY DEF Taken
    <3>3. IsFiniteSet(Taken(collected, k))
      BY <2>3, <3>2, FS_Interval, FS_Subset
    <3>4. CASE Walk!Alike(here, Walk!Tree[k])
      <4>1. Cardinality(Taken(collected, k))' = Cardinality(Taken(collected, k)) + 1
        BY <2>3, <3>1, <3>2, <3>3, <3>4, FS_AddElement
      <4>2. counts'[Walk!Group(Walk!Tree[k])] = counts[Walk!Group(Walk!Tree[k])] + 1
        BY <1>1, <1>9, <1>10, <2>1, <3>4 DEF WalkTyped
      <4>3. limit \in Nat /\ (limit = 0 \/ counts[Walk!Group(Walk!Tree[k])] < limit)
        BY <1>1, <1>9, <1>10, <1>14, <1>16, <3>4 DEF WalkTyped
      <4> QED
        BY <4>1, <4>2, <4>3, <1>7, <1>14, <3>4 DEF Capped, Walk!Least
    <3>5. CASE ~ Walk!Alike(here, Walk!Tree[k])
      <4>1. counts'[Walk!Group(Walk!Tree[k])] = counts[Walk!Group(Walk!Tree[k])]
        BY <1>1, <1>9, <1>10, <2>1, <3>5 DEF WalkTyped
      <4>2. Taken(collected, k)' = Taken(collected, k)
        BY <3>1, <3>5
      <4> QED
        BY <4>1, <4>2, <1>8, <1>14, <3>5
    <3> QED
      BY <3>4, <3>5
  <2>5. \A j \in DOMAIN collected' : Walk!CaseId(Walk!Tree[collected'[j]]) \in MetBefore(at + 1)
    BY <1>1, <1>6, <2>3 DEF WalkCounts
  <2>6. (Walk!IdsDistinct)'
    <3>1. \A j \in DOMAIN collected : Walk!CaseId(Walk!Tree[collected[j]]) # id
      BY <1>1 DEF WalkCounts
    <3>2. \A i, j \in DOMAIN collected' : i # j =>
            Walk!CaseId(Walk!Tree[collected'[i]]) # Walk!CaseId(Walk!Tree[collected'[j]])
      BY <1>1, <2>3, <3>1 DEF WalkCounts, Walk!IdsDistinct
    <3> QED
      BY <1>3, <3>2 DEF Walk!IdsDistinct
  <2>7. WalkCounts(at)'
    <3>1. \A k \in DOMAIN (Walk!Tree)' :
            /\ counts'[(Walk!Group(Walk!Tree[k]))'] = Capped(Cardinality(MetOfGroup(at, k)))'
            /\ Cardinality(Taken(collected, k))' = counts'[(Walk!Group(Walk!Tree[k]))']
      BY <1>3, <1>4, <1>5, <2>4, <1>1, MetFinite
    <3>2. \A j \in DOMAIN collected' : Walk!CaseId(Walk!Tree[collected[j]])' \in MetBefore(at)'
      BY <1>3, <1>4, <2>5
    <3> QED
      BY <1>12, <2>6, <3>1, <3>2 DEF WalkCounts
  <2> QED
    BY <2>2, <2>7 DEF WalkInv
<1> QED
  BY <1>15, <1>16

\* A visit keeps the counts right.
LEMMA WalkVisits == WalkInv /\ Walk!Visit => WalkInv'
<1> SUFFICES ASSUME WalkInv, Walk!Visit PROVE WalkInv'
  OBVIOUS
<1> DEFINE here == Walk!Tree[at]
<1>1. WalkTyped /\ WalkCounts(at)
  BY DEF WalkInv
<1>2. at \in DOMAIN Walk!Tree /\ at \in Nat /\ at' = at + 1 /\ at' \in 1 .. Len(Walk!Tree) + 1
  BY <1>1, TreeFacts DEF WalkTyped, Walk!Visit
<1>3. UNCHANGED <<suite, present, limit>>
  BY DEF Walk!Visit
<1>4. ASSUME UNCHANGED <<seen, counts, collected>>,
             MetBefore(at + 1) = MetBefore(at),
             \A k : MetOfGroup(at + 1, k) = MetOfGroup(at, k),
             seen = {Walk!CaseKey(Walk!Tree[i]) :
                       i \in {j \in present : j < at + 1 /\ Walk!InScope(Walk!Tree[j])}}
      PROVE  WalkInv'
  <2>1. /\ (Walk!Tree)' = Walk!Tree /\ (Walk!Groups)' = Walk!Groups
        /\ \A d : Walk!Group(d)' = Walk!Group(d) /\ Walk!CaseId(d)' = Walk!CaseId(d)
        /\ \A d, e : Walk!Alike(d, e)' = Walk!Alike(d, e)
        /\ \A d : Walk!InScope(d)' = Walk!InScope(d)
    BY <1>3 DEF Walk!Tree, Walk!Groups, Walk!Group, Walk!CaseId, Walk!Alike, Walk!InScope
  <2>2. /\ MetBefore(at)' = MetBefore(at + 1)
        /\ \A k : MetOfGroup(at, k)' = MetOfGroup(at + 1, k)
        /\ \A k : Taken(collected, k)' = Taken(collected, k)
        /\ \A n : Capped(n)' = Capped(n)
    BY <1>2, <1>3, <1>4, <2>1 DEF MetBefore, MetOfGroup, Taken, Capped, Walk!Least
  <2>3. WalkTyped'
    BY <1>1, <1>2, <1>3, <1>4, <2>1 DEF WalkTyped
  <2>4. (Walk!IdsDistinct)'
    BY <1>1, <1>4, <2>1 DEF WalkCounts, Walk!IdsDistinct
  <2>5. seen' = {Walk!CaseKey(Walk!Tree[i]) :
                   i \in {j \in present : j < at /\ Walk!InScope(Walk!Tree[j])}}'
    BY <1>2, <1>3, <1>4, <2>1
  <2>6. \A j \in DOMAIN collected' : Walk!CaseId(Walk!Tree[collected[j]])' \in MetBefore(at)'
    BY <1>1, <1>4, <2>1, <2>2 DEF WalkCounts
  <2>7. \A k \in DOMAIN (Walk!Tree)' :
          /\ counts'[(Walk!Group(Walk!Tree[k]))'] = Capped(Cardinality(MetOfGroup(at, k)))'
          /\ Cardinality(Taken(collected, k))' = counts'[(Walk!Group(Walk!Tree[k]))']
    BY <1>1, <1>4, <2>1, <2>2 DEF WalkCounts
  <2>8. WalkCounts(at)'
    BY <2>4, <2>5, <2>6, <2>7 DEF WalkCounts
  <2> QED
    BY <2>3, <2>8 DEF WalkInv
<1>5. CASE at \notin present \/ ~ Walk!InScope(here)
  <2>1. UNCHANGED <<seen, counts, collected>>
    BY <1>5 DEF Walk!Visit
  <2>2. /\ MetBefore(at + 1) = MetBefore(at)
        /\ \A k : MetOfGroup(at + 1, k) = MetOfGroup(at, k)
        /\ {j \in present : j < at + 1 /\ Walk!InScope(Walk!Tree[j])}
             = {j \in present : j < at /\ Walk!InScope(Walk!Tree[j])}
    BY <1>1, <1>2, <1>5, NothingMet
  <2>3. seen = {Walk!CaseKey(Walk!Tree[i]) :
                  i \in {j \in present : j < at + 1 /\ Walk!InScope(Walk!Tree[j])}}
    BY <1>1, <2>2 DEF WalkCounts
  <2> QED
    BY <1>4, <2>1, <2>2, <2>3
<1>6. CASE at \in present /\ Walk!InScope(here) /\ suite = "generic" /\ Walk!CaseKey(here) \in seen
  <2>1. UNCHANGED <<seen, counts, collected>>
    BY <1>6 DEF Walk!Visit
  <2>2. PICK met \in present : /\ met < at /\ Walk!InScope(Walk!Tree[met])
                               /\ Walk!CaseKey(Walk!Tree[met]) = Walk!CaseKey(here)
    BY <1>1, <1>6 DEF WalkCounts
  <2>3. /\ MetBefore(at + 1) = MetBefore(at)
        /\ \A k : MetOfGroup(at + 1, k) = MetOfGroup(at, k)
    BY <1>1, <1>6, <2>2, NothingMoreMet
  <2>4. {j \in present : j < at + 1 /\ Walk!InScope(Walk!Tree[j])}
          = {j \in present : j < at /\ Walk!InScope(Walk!Tree[j])} \cup {at}
    BY <1>1, <1>6, OneMet
  <2>5. seen = {Walk!CaseKey(Walk!Tree[i]) :
                  i \in {j \in present : j < at + 1 /\ Walk!InScope(Walk!Tree[j])}}
    BY <1>1, <1>6, <2>4 DEF WalkCounts
  <2> QED
    BY <1>4, <2>1, <2>3, <2>5
<1>7. CASE /\ at \in present /\ Walk!InScope(here)
           /\ ~ (suite = "generic" /\ Walk!CaseKey(here) \in seen)
  <2>1. Walk!Yield(here) /\ seen' = seen \cup {Walk!CaseKey(here)}
    BY <1>7 DEF Walk!Visit
  <2>2. Walk!CaseId(here) \notin MetBefore(at)
    <3>1. suite \in {"consensus", "generic"}
      BY <1>1, TreeFacts DEF WalkTyped
    <3>2. CASE suite = "generic"
      BY <1>1, <1>7, <3>2 DEF WalkCounts, MetBefore, Walk!CaseId
    <3>3. CASE suite = "consensus"
      <4>1. ASSUME NEW j \in present, j < at PROVE Walk!CaseId(Walk!Tree[j]) # Walk!CaseId(here)
        <5>1. j \in DOMAIN Walk!Tree /\ j # at
          BY <1>1, <1>2, <4>1 DEF WalkTyped
        <5> QED
          BY <1>1, <1>2, <3>3, <5>1, ConsensusCasesDiffer DEF WalkTyped
      <4> QED
        BY <4>1 DEF MetBefore
    <3> QED
      BY <3>1, <3>2, <3>3
  <2> QED
    BY <1>2, <1>3, <1>7, <2>1, <2>2, WalkYields
<1> QED
  BY <1>5, <1>6, <1>7

\* Cardinality is one operator, by whatever name a module reaches it.
LEMMA SameCardinality == \A S : Walk!Cardinality(S) = Cardinality(S)
  BY DEF Walk!Cardinality, Cardinality, Walk!IsFiniteSet, IsFiniteSet

\* What the counts mean at the end.
LEMMA WalkSamples == WalkInv => Walk!GroupsSampled /\ Walk!IdsDistinct
<1> SUFFICES ASSUME WalkInv PROVE Walk!GroupsSampled /\ Walk!IdsDistinct
  OBVIOUS
<1>1. WalkTyped /\ WalkCounts(at)
  BY DEF WalkInv
<1>2. ASSUME at > Len(Walk!Tree), NEW k \in DOMAIN Walk!Tree
      PROVE  /\ MetOfGroup(at, k)
                  = {Walk!CaseId(Walk!Tree[i]) :
                       i \in {j \in present : /\ Walk!InScope(Walk!Tree[j])
                                              /\ Walk!Alike(Walk!Tree[j], Walk!Tree[k])}}
             /\ Cardinality(Taken(collected, k)) = Capped(Cardinality(MetOfGroup(at, k)))
  <2>1. \A j \in present : j < at
    BY <1>1, <1>2, TreeFacts DEF WalkTyped
  <2> QED
    BY <1>1, <2>1 DEF MetOfGroup, WalkCounts
<1>3. Walk!GroupsSampled
  <2> SUFFICES ASSUME at > Len(Walk!Tree), NEW k \in DOMAIN Walk!Tree
               PROVE  Cardinality({i \in DOMAIN collected :
                                     Walk!Alike(Walk!Tree[collected[i]], Walk!Tree[k])})
                        = (IF limit = 0
                           THEN Cardinality({Walk!CaseId(Walk!Tree[i]) :
                                  i \in {j \in present : Walk!InScope(Walk!Tree[j])
                                           /\ Walk!Alike(Walk!Tree[j], Walk!Tree[k])}})
                           ELSE Walk!Least(limit, Cardinality({Walk!CaseId(Walk!Tree[i]) :
                                  i \in {j \in present : Walk!InScope(Walk!Tree[j])
                                           /\ Walk!Alike(Walk!Tree[j], Walk!Tree[k])}})))
    BY SameCardinality DEF Walk!GroupsSampled
  <2>1. Cardinality(Taken(collected, k)) = Capped(Cardinality(MetOfGroup(at, k)))
    BY <1>2
  <2>2. MetOfGroup(at, k) = {Walk!CaseId(Walk!Tree[i]) :
                               i \in {j \in present : /\ Walk!InScope(Walk!Tree[j])
                                                      /\ Walk!Alike(Walk!Tree[j], Walk!Tree[k])}}
    BY <1>2
  <2> QED
    BY <2>1, <2>2 DEF Taken, Capped
<1> QED
  BY <1>1, <1>3 DEF WalkCounts

\* Every group of cases is sampled up to the cap, and no case twice, for every tree
\* of directories, every part of it on disk and every cap.
THEOREM EveryGroupSampled == ConformanceSpec => []CasesSampled
<1>1. ConformanceInit => (part = "walk" => WalkInv)
  BY WalkStarts DEF ConformanceInit
<1>2. /\ (part = "walk" => WalkInv)
      /\ [ConformanceNext]_<<part, state>>
      => (part = "walk" => WalkInv)'
  <2> SUFFICES ASSUME part = "walk" => WalkInv, [ConformanceNext]_<<part, state>>, part' = "walk"
               PROVE  WalkInv'
    OBVIOUS
  <2>1. part = "walk" /\ WalkInv
    BY DEF ConformanceNext, notCache, notWalk, notScript, notVerdict
  <2>2. CASE Walk!Visit
    BY <2>1, <2>2, WalkVisits
  <2>3. CASE UNCHANGED <<part, state>>
    <3>1. UNCHANGED <<suite, present, limit, at, seen, counts, collected>>
      BY <2>3 DEF state, walkOnly
    <3>2. /\ (Walk!Tree)' = Walk!Tree /\ (Walk!Groups)' = Walk!Groups
          /\ \A d : /\ Walk!Group(d)' = Walk!Group(d) /\ Walk!CaseId(d)' = Walk!CaseId(d)
                    /\ Walk!InScope(d)' = Walk!InScope(d)
          /\ \A d, e : Walk!Alike(d, e)' = Walk!Alike(d, e)
      BY <3>1 DEF Walk!Tree, Walk!Groups, Walk!Group, Walk!CaseId, Walk!Alike, Walk!InScope
    <3>3. /\ MetBefore(at)' = MetBefore(at)
          /\ \A k : MetOfGroup(at, k)' = MetOfGroup(at, k)
          /\ \A k : Taken(collected, k)' = Taken(collected, k)
          /\ \A n : Capped(n)' = Capped(n)
      BY <3>1, <3>2 DEF MetBefore, MetOfGroup, Taken, Capped, Walk!Least
    <3>4. WalkTyped'
      BY <2>1, <3>1, <3>2 DEF WalkInv, WalkTyped
    <3>5. WalkCounts(at)'
      <4>1. (Walk!IdsDistinct)'
        BY <2>1, <3>1, <3>2 DEF WalkInv, WalkCounts, Walk!IdsDistinct
      <4>2. \A j \in DOMAIN collected' : Walk!CaseId(Walk!Tree[collected[j]])' \in MetBefore(at)'
        BY <2>1, <3>1, <3>2, <3>3 DEF WalkInv, WalkCounts
      <4>3. \A k \in DOMAIN (Walk!Tree)' :
              /\ counts'[(Walk!Group(Walk!Tree[k]))'] = Capped(Cardinality(MetOfGroup(at, k)))'
              /\ Cardinality(Taken(collected, k))' = counts'[(Walk!Group(Walk!Tree[k]))']
        BY <2>1, <3>1, <3>2, <3>3 DEF WalkInv, WalkCounts
      <4>4. seen' = {Walk!CaseKey(Walk!Tree[i]) :
                       i \in {j \in present : j < at /\ Walk!InScope(Walk!Tree[j])}}'
        BY <2>1, <3>1, <3>2 DEF WalkInv, WalkCounts
      <4> QED
        BY <4>1, <4>2, <4>3, <4>4 DEF WalkCounts
    <3> QED
      BY <3>4, <3>5 DEF WalkInv
  <2> QED
    BY <2>1, <2>2, <2>3 DEF ConformanceNext
<1>3. (part = "walk" => WalkInv) => CasesSampled
  BY WalkSamples DEF CasesSampled
<1> QED
  BY <1>1, <1>2, <1>3, PTL DEF ConformanceSpec

-----------------------------------------------------------------------------
(* The fork_choice vectors: FlattenSeq. *)

\* FlattenSeq keeps what is in the lists, and nothing else.
LEMMA MembersOfAll ==
  ASSUME NEW S, NEW n \in Nat, NEW ss, DOMAIN ss = 1 .. n, Len(ss) = n, ss = <<>> <=> n = 0,
         \A i \in 1 .. n : ss[i] \in Seq(S)
  PROVE  /\ Script!FlattenSeq(ss) \in Seq(S)
         /\ ItemsOf(Script!FlattenSeq(ss)) = UNION {ItemsOf(ss[i]) : i \in 1 .. n}
<1>1. CASE n = 0
  <2>1. Script!FlattenSeq(ss) = ss
    BY <1>1 DEF Script!FlattenSeq
  <2>2. ss = <<>>
    BY <1>1
  <2>3. ItemsOf(<<>>) = {} /\ <<>> \in Seq(S)
    BY DEF ItemsOf
  <2> QED
    BY <1>1, <2>1, <2>2, <2>3
<1>2. CASE n # 0
  <2> DEFINE h == CHOOSE x : FlatTo(x, ss)
  <2>1. Script!FlattenSeq(ss) = h[n]
    BY <1>2 DEF Script!FlattenSeq, FlatTo
  <2>2. n \in Nat \ {0}
    BY <1>2
  <2>3. FlatTo(h, ss)
    BY <2>2, FlatExists
  <2> HIDE DEF h
  <2>4. h[n] \in Seq(S) /\ ItemsOf(h[n]) = UNION {ItemsOf(ss[i]) : i \in 1 .. n}
    BY <2>2, <2>3, ItemsFlat
  <2> QED
    BY <2>1, <2>4
<1> QED
  BY <1>1, <1>2

-----------------------------------------------------------------------------
(* The fork_choice vectors: the tests that write a line per check.         *)

Chain == {Script!EmitterChain[j] : j \in 1 .. 12}

\* The token of each test, by the key.
TokenOf(k) ==
  CASE k = "justified_checkpoint" -> "justified"
    [] k = "finalized_checkpoint" -> "finalized"
    [] k = "proposer_boost_root" -> "boost"
    [] k = "viable_for_head_roots_and_weights" -> "viable_for_head"
    [] k = "should_override_forkchoice_update" -> "unsupported"
    [] OTHER -> k

\* Of a test: it is for a known key or for a head's payload status, and the server
\* knows the token, which is no handler's.
TestOk(e) ==
  /\ e[1] \in Script!KnownCheckKeys
  /\ e[2] = "" \/ (e[1] = "head" /\ e[2] = "payload_status")
  /\ e[3] = IF e[2] = "" THEN TokenOf(e[1]) ELSE "head_payload_status"
  /\ e[3] \in Script!ServerTokens \cup {"unsupported"} /\ e[3] \notin Script!Handlers

\* The chain has a test for each known key and for a head's payload status.
LEMMA ChainIs ==
  /\ Script!Range(Script!EmitterChain) = Chain /\ DOMAIN Script!EmitterChain = 1 .. 12
  /\ \A e \in Chain : TestOk(e)
  /\ \A k \in Script!KnownCheckKeys : \E e \in Chain : e[1] = k /\ e[2] = ""
  /\ \E e \in Chain : e[1] = "head" /\ e[2] = "payload_status"
<1> DEFINE E == Script!EmitterChain
<1>1. E[1][1] = "get_proposer_head" /\ E[1][2] = "" /\ TestOk(E[1])
  <2>1. /\ E[1][1] = "get_proposer_head"
        /\ E[1][2] = ""
        /\ E[1][3] = "get_proposer_head"
    BY DEF Script!EmitterChain
  <2> HIDE DEF E
  <2> QED
    BY <2>1 DEF TestOk, TokenOf, Script!KnownCheckKeys, Script!ServerTokens, Script!Handlers
<1>2. E[2][1] = "should_override_forkchoice_update" /\ E[2][2] = "" /\ TestOk(E[2])
  <2>1. /\ E[2][1] = "should_override_forkchoice_update"
        /\ E[2][2] = ""
        /\ E[2][3] = "unsupported"
    BY DEF Script!EmitterChain
  <2> HIDE DEF E
  <2> QED
    BY <2>1 DEF TestOk, TokenOf, Script!KnownCheckKeys, Script!ServerTokens, Script!Handlers
<1>3. E[3][1] = "head" /\ E[3][2] = "" /\ TestOk(E[3])
  <2>1. /\ E[3][1] = "head"
        /\ E[3][2] = ""
        /\ E[3][3] = "head"
    BY DEF Script!EmitterChain
  <2> HIDE DEF E
  <2> QED
    BY <2>1 DEF TestOk, TokenOf, Script!KnownCheckKeys, Script!ServerTokens, Script!Handlers
<1>4. E[4][1] = "head" /\ E[4][2] = "payload_status" /\ TestOk(E[4])
  <2>1. /\ E[4][1] = "head"
        /\ E[4][2] = "payload_status"
        /\ E[4][3] = "head_payload_status"
    BY DEF Script!EmitterChain
  <2> HIDE DEF E
  <2> QED
    BY <2>1 DEF TestOk, TokenOf, Script!KnownCheckKeys, Script!ServerTokens, Script!Handlers
<1>5. E[5][1] = "payload_timeliness_vote" /\ E[5][2] = "" /\ TestOk(E[5])
  <2>1. /\ E[5][1] = "payload_timeliness_vote"
        /\ E[5][2] = ""
        /\ E[5][3] = "payload_timeliness_vote"
    BY DEF Script!EmitterChain
  <2> HIDE DEF E
  <2> QED
    BY <2>1 DEF TestOk, TokenOf, Script!KnownCheckKeys, Script!ServerTokens, Script!Handlers
<1>6. E[6][1] = "payload_data_availability_vote" /\ E[6][2] = "" /\ TestOk(E[6])
  <2>1. /\ E[6][1] = "payload_data_availability_vote"
        /\ E[6][2] = ""
        /\ E[6][3] = "payload_data_availability_vote"
    BY DEF Script!EmitterChain
  <2> HIDE DEF E
  <2> QED
    BY <2>1 DEF TestOk, TokenOf, Script!KnownCheckKeys, Script!ServerTokens, Script!Handlers
<1>7. E[7][1] = "justified_checkpoint" /\ E[7][2] = "" /\ TestOk(E[7])
  <2>1. /\ E[7][1] = "justified_checkpoint"
        /\ E[7][2] = ""
        /\ E[7][3] = "justified"
    BY DEF Script!EmitterChain
  <2> HIDE DEF E
  <2> QED
    BY <2>1 DEF TestOk, TokenOf, Script!KnownCheckKeys, Script!ServerTokens, Script!Handlers
<1>8. E[8][1] = "finalized_checkpoint" /\ E[8][2] = "" /\ TestOk(E[8])
  <2>1. /\ E[8][1] = "finalized_checkpoint"
        /\ E[8][2] = ""
        /\ E[8][3] = "finalized"
    BY DEF Script!EmitterChain
  <2> HIDE DEF E
  <2> QED
    BY <2>1 DEF TestOk, TokenOf, Script!KnownCheckKeys, Script!ServerTokens, Script!Handlers
<1>9. E[9][1] = "proposer_boost_root" /\ E[9][2] = "" /\ TestOk(E[9])
  <2>1. /\ E[9][1] = "proposer_boost_root"
        /\ E[9][2] = ""
        /\ E[9][3] = "boost"
    BY DEF Script!EmitterChain
  <2> HIDE DEF E
  <2> QED
    BY <2>1 DEF TestOk, TokenOf, Script!KnownCheckKeys, Script!ServerTokens, Script!Handlers
<1>10. E[10][1] = "time" /\ E[10][2] = "" /\ TestOk(E[10])
  <2>1. /\ E[10][1] = "time"
        /\ E[10][2] = ""
        /\ E[10][3] = "time"
    BY DEF Script!EmitterChain
  <2> HIDE DEF E
  <2> QED
    BY <2>1 DEF TestOk, TokenOf, Script!KnownCheckKeys, Script!ServerTokens, Script!Handlers
<1>11. E[11][1] = "genesis_time" /\ E[11][2] = "" /\ TestOk(E[11])
  <2>1. /\ E[11][1] = "genesis_time"
        /\ E[11][2] = ""
        /\ E[11][3] = "genesis_time"
    BY DEF Script!EmitterChain
  <2> HIDE DEF E
  <2> QED
    BY <2>1 DEF TestOk, TokenOf, Script!KnownCheckKeys, Script!ServerTokens, Script!Handlers
<1>12. E[12][1] = "viable_for_head_roots_and_weights" /\ E[12][2] = "" /\ TestOk(E[12])
  <2>1. /\ E[12][1] = "viable_for_head_roots_and_weights"
        /\ E[12][2] = ""
        /\ E[12][3] = "viable_for_head"
    BY DEF Script!EmitterChain
  <2> HIDE DEF E
  <2> QED
    BY <2>1 DEF TestOk, TokenOf, Script!KnownCheckKeys, Script!ServerTokens, Script!Handlers
<1>13. 1 .. 12 = {1, 2, 3, 4, 5, 6, 7, 8, 9, 10, 11, 12}
  OBVIOUS
<1>14. DOMAIN E = 1 .. 12 /\ Script!Range(E) = Chain
  <2>1. DOMAIN E = 1 .. 12
    BY DEF Script!EmitterChain
  <2> HIDE DEF E
  <2> QED
    BY <2>1 DEF Script!Range, Chain, E
<1> HIDE DEF E
<1>15. \A e \in Chain : TestOk(e)
  <2>1. \A j \in {1, 2, 3, 4, 5, 6, 7, 8, 9, 10, 11, 12} : TestOk(E[j])
    BY <1>1, <1>2, <1>3, <1>4, <1>5, <1>6, <1>7, <1>8, <1>9, <1>10, <1>11, <1>12
  <2>2. Chain = {E[j] : j \in 1 .. 12}
    BY DEF Chain, E
  <2> HIDE DEF TestOk
  <2> QED
    BY <1>13, <2>1, <2>2
<1>16. \A k \in Script!KnownCheckKeys : \E e \in Chain : e[1] = k /\ e[2] = ""
  <2>1. \A j \in {1, 2, 3, 5, 6, 7, 8, 9, 10, 11, 12} : E[j] \in Chain
    BY <1>13 DEF Chain, E
  <2> QED
    BY <1>1, <1>2, <1>3, <1>5, <1>6, <1>7, <1>8, <1>9, <1>10, <1>11, <1>12, <2>1
    DEF Script!KnownCheckKeys
<1>17. \E e \in Chain : e[1] = "head" /\ e[2] = "payload_status"
  BY <1>4, <1>13 DEF Chain, E
<1> QED
  BY <1>14, <1>15, <1>16, <1>17 DEF E

-----------------------------------------------------------------------------
(* The fork_choice vectors: the lines of an entry.                         *)

\* The tests that write a line for the i-th entry.
Wrote(i) ==
  {e \in Chain : e[1] \in DOMAIN vector[i].checks /\ e[2] \in vector[i].checks[e[1]] \cup {""}}

CheckSet(i) ==
  {Script!Line(e[3], i, e[1], e[2]) : e \in Wrote(i)}
    \cup {l \in {Script!Line("unsupported", i, "", "")} : Script!Unknown(vector[i].checks) # {}}

EntrySet(i) ==
  IF vector[i].key \in Script!Handlers THEN {Script!Line(vector[i].key, i, vector[i].key, "")}
  ELSE IF vector[i].key = "checks" THEN CheckSet(i)
  ELSE {Script!Line("unsupported", i, "", "")}

\* A list of one.
LEMMA MembersOfOne ==
  ASSUME NEW S, NEW x \in S
  PROVE  /\ <<x>> \in Seq(S) /\ ItemsOf(<<x>>) = {x}
         /\ <<>> \in Seq(S) /\ ItemsOf(<<>>) = {}
<1>1. Len(<<x>>) = 1 /\ <<x>>[1] = x /\ 1 .. 1 = {1}
  OBVIOUS
<1>2. Len(<<>>) = 0 /\ 1 .. 0 = {}
  OBVIOUS
<1> QED
  BY <1>1, <1>2 DEF ItemsOf

\* A list of lists, one for each of n places.
LEMMA ListOf ==
  ASSUME NEW n \in Nat, NEW Z, NEW f \in [1 .. n -> Z]
  PROVE  DOMAIN f = 1 .. n /\ Len(f) = n /\ (f = <<>> <=> n = 0)
<1>1. f \in Seq(Z) /\ Len(f) = n
  OBVIOUS
<1> QED
  BY <1>1

\* The lines of a checks entry.
LEMMA CheckLinesAre ==
  ASSUME NEW i
  PROVE  /\ Script!CheckLines(i) \in Seq(CheckSet(i))
         /\ ItemsOf(Script!CheckLines(i)) = CheckSet(i)
<1> DEFINE S == CheckSet(i)
           E == Script!EmitterChain
           checks == vector[i].checks
           LineOf(e) == IF e[1] \in DOMAIN checks /\ e[2] \in checks[e[1]] \cup {""}
                        THEN <<Script!Line(e[3], i, e[1], e[2])>> ELSE <<>>
           ss == [j \in DOMAIN E |-> LineOf(E[j])]
           rest == IF Script!Unknown(checks) = {} THEN <<>>
                   ELSE <<Script!Line("unsupported", i, "", "")>>
           W == {Script!Line(e[3], i, e[1], e[2]) : e \in Wrote(i)}
           U == {l \in {Script!Line("unsupported", i, "", "")} : Script!Unknown(checks) # {}}
<1>1. Script!CheckLines(i) = Script!FlattenSeq(ss) \o rest
  BY DEF Script!CheckLines
<1>2. ASSUME NEW e \in Chain
      PROVE  /\ LineOf(e) \in Seq(S)
             /\ ItemsOf(LineOf(e)) = IF e \in Wrote(i) THEN {Script!Line(e[3], i, e[1], e[2])}
                                     ELSE {}
  <2> DEFINE l == Script!Line(e[3], i, e[1], e[2])
  <2>1. CASE e \in Wrote(i)
    <3>1. l \in S
      BY <2>1 DEF CheckSet
    <3>2. LineOf(e) = <<l>>
      BY <2>1 DEF Wrote
    <3> HIDE DEF l, S, LineOf
    <3>3. <<l>> \in Seq(S) /\ ItemsOf(<<l>>) = {l}
      BY <3>1, MembersOfOne
    <3> QED
      BY <2>1, <3>2, <3>3 DEF l
  <2>2. CASE e \notin Wrote(i)
    <3>1. LineOf(e) = <<>>
      BY <2>2 DEF Wrote
    <3> HIDE DEF l, S, LineOf
    <3>2. <<>> \in Seq(S)
      OBVIOUS
    <3>3. ItemsOf(<<>>) = {}
      BY MembersOfOne
    <3> QED
      BY <2>2, <3>1, <3>2, <3>3
  <2> QED
    BY <2>1, <2>2
<1>3. \A j \in 1 .. 12 : E[j] \in Chain
  BY DEF Chain
<1>4. DOMAIN E = 1 .. 12
  BY ChainIs
<1>5. rest \in Seq(S) /\ ItemsOf(rest) = U
  <2> DEFINE l == Script!Line("unsupported", i, "", "")
  <2>1. CASE Script!Unknown(checks) = {}
    <3>1. rest = <<>> /\ U = {}
      BY <2>1
    <3> HIDE DEF S, rest, U
    <3>2. <<>> \in Seq(S)
      OBVIOUS
    <3> QED
      BY <3>1, <3>2, MembersOfOne
  <2>2. CASE Script!Unknown(checks) # {}
    <3>1. rest = <<l>> /\ U = {l}
      BY <2>2
    <3>2. l \in S
      BY <2>2 DEF CheckSet
    <3> HIDE DEF S, rest, U, l
    <3> QED
      BY <3>1, <3>2, MembersOfOne
  <2> QED
    BY <2>1, <2>2
<1> HIDE DEF LineOf, rest
<1>6. ss \in [1 .. 12 -> Seq(S)]
  <2> HIDE DEF E, S
  <2> QED
    BY <1>2, <1>3, <1>4
<1>7. \A j \in 1 .. 12 : ss[j] = LineOf(E[j])
  BY <1>4
<1>8. Script!FlattenSeq(ss) \in Seq(S)
        /\ ItemsOf(Script!FlattenSeq(ss)) = UNION {ItemsOf(ss[j]) : j \in 1 .. 12}
  <2> DEFINE n == 12
  <2>1. n \in Nat /\ ss \in [1 .. n -> Seq(S)] /\ 1 .. n = 1 .. 12
    <3> HIDE DEF ss, S
    <3> QED
      BY <1>6
  <2> HIDE DEF ss, S, n
  <2>2. DOMAIN ss = 1 .. n /\ Len(ss) = n /\ (ss = <<>> <=> n = 0)
    BY <2>1, ListOf
  <2>3. \A j \in 1 .. n : ss[j] \in Seq(S)
    BY <2>1
  <2>4. n \in Nat
    BY DEF n
  <2>5. Script!FlattenSeq(ss) \in Seq(S)
          /\ ItemsOf(Script!FlattenSeq(ss)) = UNION {ItemsOf(ss[j]) : j \in 1 .. n}
    <3> HIDE DEF E, checks, W, U
    <3> QED
      BY <2>2, <2>3, <2>4, MembersOfAll
  <2> QED
    BY <2>1, <2>5
<1>9. UNION {ItemsOf(ss[j]) : j \in 1 .. 12} = W
  <2>1. \A j \in 1 .. 12 : ItemsOf(ss[j]) = IF E[j] \in Wrote(i)
                             THEN {Script!Line(E[j][3], i, E[j][1], E[j][2])} ELSE {}
    <3> HIDE DEF ss, E, S
    <3> QED
      BY <1>2, <1>3, <1>7
  <2>2. \A e \in Wrote(i) : \E j \in 1 .. 12 : e = E[j]
    BY DEF Wrote, Chain
  <2> HIDE DEF ss, E
  <2> QED
    BY <2>1, <2>2
<1>10. S = W \cup U
  BY DEF CheckSet
<1> HIDE DEF ss, S, W, U
<1> QED
  BY <1>1, <1>5, <1>8, <1>9, <1>10, ItemsOfBoth DEF S

\* The lines of an entry.
LEMMA EntryLinesAre ==
  ASSUME NEW i
  PROVE  /\ Script!EntryLines(i) \in Seq(EntrySet(i))
         /\ ItemsOf(Script!EntryLines(i)) = EntrySet(i)
<1> DEFINE S == EntrySet(i)
<1>1. CASE vector[i].key \in Script!Handlers
  <2> DEFINE l == Script!Line(vector[i].key, i, vector[i].key, "")
  <2>1. S = {l} /\ Script!EntryLines(i) = <<l>>
    BY <1>1 DEF EntrySet, Script!EntryLines
  <2> HIDE DEF l, S
  <2> QED
    BY <2>1, MembersOfOne DEF S
<1>2. CASE vector[i].key \notin Script!Handlers /\ vector[i].key = "checks"
  <2>1. S = CheckSet(i) /\ Script!EntryLines(i) = Script!CheckLines(i)
    BY <1>2 DEF EntrySet, Script!EntryLines
  <2> QED
    BY <2>1, CheckLinesAre
<1>3. CASE vector[i].key \notin Script!Handlers /\ vector[i].key # "checks"
  <2> DEFINE l == Script!Line("unsupported", i, "", "")
  <2>1. S = {l} /\ Script!EntryLines(i) = <<l>>
    BY <1>3 DEF EntrySet, Script!EntryLines
  <2> HIDE DEF l, S
  <2> QED
    BY <2>1, MembersOfOne DEF S
<1> QED
  BY <1>1, <1>2, <1>3

\* The lines of a vector, in the script file.
ScriptLines == UNION {EntrySet(i) : i \in DOMAIN vector}

\* The script of a vector holds the lines of its entries.
LEMMA EncodeWrites ==
  ASSUME NEW n \in Nat, vector \in [1 .. n -> ScriptEntries]
  PROVE  LET script == Script!FlattenSeq([i \in DOMAIN vector |-> Script!EntryLines(i)])
         IN script \in Seq(ScriptLines) /\ ItemsOf(script) = ScriptLines
<1> DEFINE S == ScriptLines
           ss == [i \in DOMAIN vector |-> Script!EntryLines(i)]
<1>1. \A i \in 1 .. n : Script!EntryLines(i) \in Seq(S)
  <2> TAKE i \in 1 .. n
  <2>1. EntrySet(i) \subseteq S
    BY DEF ScriptLines
  <2>2. Script!EntryLines(i) \in Seq(EntrySet(i))
    BY EntryLinesAre
  <2> HIDE DEF S
  <2> QED
    BY <2>1, <2>2
<1>2. ss \in [1 .. n -> Seq(S)]
  <2> HIDE DEF S
  <2> QED
    BY <1>1
<1>3. \A i \in 1 .. n : ItemsOf(ss[i]) = EntrySet(i)
  BY EntryLinesAre
<1>4. Script!FlattenSeq(ss) \in Seq(S)
        /\ ItemsOf(Script!FlattenSeq(ss)) = UNION {ItemsOf(ss[i]) : i \in 1 .. n}
  <2> HIDE DEF ss, S
  <2>1. DOMAIN ss = 1 .. n /\ Len(ss) = n /\ (ss = <<>> <=> n = 0)
    BY <1>2, ListOf
  <2>2. \A i \in 1 .. n : ss[i] \in Seq(S)
    BY <1>2
  <2> QED
    BY <2>1, <2>2, MembersOfAll
<1>5. UNION {ItemsOf(ss[i]) : i \in 1 .. n} = S
  <2> HIDE DEF ss
  <2> QED
    BY <1>3 DEF ScriptLines
<1> QED
  BY <1>4, <1>5

-----------------------------------------------------------------------------
(* The fork_choice vectors: what a script holds. *)

\* A line of an entry of the vector, as the server reads it.
LineOk(l) ==
  \E i, token, key, sub :
    /\ i \in DOMAIN vector
    /\ l = Script!Line(token, i, key, sub)
    /\ token \in Script!ServerTokens \cup {"unsupported"}
    /\ \/ token \in Script!Handlers /\ vector[i].key = token /\ key = token /\ sub = ""
       \/ token \notin Script!Handlers /\ key \notin Script!Handlers

\* Of names that are no handler's.
LEMMA PlainNames ==
  /\ {"unsupported", "checks", ""} \cap Script!Handlers = {}
  /\ Script!Handlers \subseteq Script!ServerTokens
BY DEF Script!Handlers, Script!ServerTokens

\* A line is of that kind.
LEMMA LineIsOk ==
  ASSUME NEW i \in DOMAIN vector, NEW token, NEW key, NEW sub,
         token \in Script!ServerTokens \cup {"unsupported"},
         \/ token \in Script!Handlers /\ vector[i].key = token /\ key = token /\ sub = ""
         \/ token \notin Script!Handlers /\ key \notin Script!Handlers
  PROVE  LineOk(Script!Line(token, i, key, sub))
BY DEF LineOk

\* The lines of a script are all of that kind.
LEMMA ScriptLinesOk ==
  ASSUME NEW l \in ScriptLines
  PROVE  LineOk(l)
<1>1. PICK i \in DOMAIN vector : l \in EntrySet(i)
  BY DEF ScriptLines
<1>2. CASE vector[i].key \in Script!Handlers
  <2>1. l = Script!Line(vector[i].key, i, vector[i].key, "")
    BY <1>1, <1>2 DEF EntrySet
  <2> QED
    BY <1>2, <2>1, LineIsOk, PlainNames
<1>3. CASE vector[i].key \notin Script!Handlers /\ vector[i].key = "checks"
  <2>1. l \in CheckSet(i)
    BY <1>1, <1>3 DEF EntrySet
  <2>2. CASE \E e \in Wrote(i) : l = Script!Line(e[3], i, e[1], e[2])
    <3>1. PICK e \in Wrote(i) : l = Script!Line(e[3], i, e[1], e[2])
      BY <2>2
    <3>2. TestOk(e)
      BY <3>1, ChainIs DEF Wrote
    <3>3. e[1] \notin Script!Handlers
      BY <3>2 DEF TestOk, Script!KnownCheckKeys, Script!Handlers
    <3> QED
      BY <3>1, <3>2, <3>3, LineIsOk DEF TestOk
  <2>3. CASE l = Script!Line("unsupported", i, "", "")
    BY <2>3, LineIsOk, PlainNames
  <2> QED
    BY <2>1, <2>2, <2>3 DEF CheckSet
<1>4. CASE vector[i].key \notin Script!Handlers /\ vector[i].key # "checks"
  <2>1. l = Script!Line("unsupported", i, "", "")
    BY <1>1, <1>4 DEF EntrySet
  <2> QED
    BY <2>1, LineIsOk, PlainNames
<1> QED
  BY <1>2, <1>3, <1>4

\* The subkeys of a check that are asked with the check itself.
Usual(k) ==
  IF k = "head" THEN {"root", "slot"} ELSE
  IF k \in DOMAIN Script!KnownCheckSubkeys THEN Script!KnownCheckSubkeys[k] ELSE {}

\* What the i-th entry asks for.
AskedOf(i) ==
  IF vector[i].key = "checks"
  THEN {<<i, k, "">> : k \in DOMAIN vector[i].checks}
       \cup UNION {{<<i, k, s>> : s \in vector[i].checks[k] \ Usual(k)} :
                   k \in DOMAIN vector[i].checks}
  ELSE {<<i, vector[i].key, "">>}

\* What is asked, entry by entry.
LEMMA AskedIs == Script!Asked = UNION {AskedOf(i) : i \in DOMAIN vector}
BY DEF Script!Asked, AskedOf, Usual

\* An entry that is no checks entry asks for itself.
LEMMA AskedOfOthers ==
  ASSUME NEW i \in DOMAIN vector, vector[i].key # "checks"
  PROVE  <<i, vector[i].key, "">> \in Script!Asked
<1>1. <<i, vector[i].key, "">> \in AskedOf(i)
  BY DEF AskedOf
<1> QED
  BY <1>1, AskedIs

\* A check is asked, and so is each subkey that is not asked with it.
LEMMA AskedOfChecks ==
  ASSUME NEW i \in DOMAIN vector, vector[i].key = "checks",
         NEW k \in DOMAIN vector[i].checks
  PROVE  /\ <<i, k, "">> \in Script!Asked
         /\ \A s \in vector[i].checks[k] \ Usual(k) : <<i, k, s>> \in Script!Asked
<1> DEFINE A == {<<i, m, "">> : m \in DOMAIN vector[i].checks}
           B(m) == {<<i, m, s>> : s \in vector[i].checks[m] \ Usual(m)}
<1>1. AskedOf(i) = A \cup UNION {B(m) : m \in DOMAIN vector[i].checks}
  BY DEF AskedOf
<1>2. <<i, k, "">> \in A
  OBVIOUS
<1>3. \A s \in vector[i].checks[k] \ Usual(k) : <<i, k, s>> \in B(k)
  OBVIOUS
<1> HIDE DEF A, B
<1>4. A \subseteq AskedOf(i) /\ B(k) \subseteq AskedOf(i)
  BY <1>1
<1>5. AskedOf(i) \subseteq Script!Asked
  BY AskedIs
<1> QED
  BY <1>2, <1>3, <1>4, <1>5

\* A checks entry asks for nothing else.
LEMMA AskedOnly ==
  ASSUME NEW i \in DOMAIN vector, vector[i].key = "checks", NEW item \in AskedOf(i)
  PROVE  \E k \in DOMAIN vector[i].checks :
           \/ item = <<i, k, "">>
           \/ \E s \in vector[i].checks[k] \ Usual(k) : item = <<i, k, s>>
<1> DEFINE A == {<<i, m, "">> : m \in DOMAIN vector[i].checks}
           B(m) == {<<i, m, s>> : s \in vector[i].checks[m] \ Usual(m)}
<1>1. AskedOf(i) = A \cup UNION {B(m) : m \in DOMAIN vector[i].checks}
  BY DEF AskedOf
<1>2. item \in A \/ \E m \in DOMAIN vector[i].checks : item \in B(m)
  <2> HIDE DEF A, B
  <2> QED
    BY <1>1
<1> QED
  BY <1>2

\* The keys whose subkeys are looked at.
LEMMA SubkeysAre ==
  /\ DOMAIN Script!KnownCheckSubkeys =
       {"head", "payload_timeliness_vote", "payload_data_availability_vote",
        "justified_checkpoint", "finalized_checkpoint", "viable_for_head_roots_and_weights"}
  /\ Script!KnownCheckSubkeys["head"] = {"root", "slot", "payload_status"}
BY DEF Script!KnownCheckSubkeys

\* What no test is for.
LEMMA UnknownIs ==
  ASSUME NEW checks
  PROVE  Script!Unknown(checks) # {} <=>
           \E k \in DOMAIN checks :
             \/ k \notin Script!KnownCheckKeys
             \/ /\ k \in DOMAIN Script!KnownCheckSubkeys
                /\ \E s \in checks[k] : s \notin Script!KnownCheckSubkeys[k]
<1> DEFINE K == Script!KnownCheckSubkeys
           A == {<<k, "">> : k \in DOMAIN checks \ Script!KnownCheckKeys}
           B(k) == {<<k, s>> : s \in checks[k] \ K[k]}
           D == DOMAIN checks \cap DOMAIN K
<1>1. Script!Unknown(checks) = A \cup UNION {B(k) : k \in D}
  BY DEF Script!Unknown
<1>2. A # {} <=> \E k \in DOMAIN checks : k \notin Script!KnownCheckKeys
  OBVIOUS
<1>3. ASSUME NEW k \in D
      PROVE  B(k) # {} <=> \E s \in checks[k] : s \notin K[k]
  OBVIOUS
<1>4. A \cup UNION {B(k) : k \in D} # {} <=> A # {} \/ \E k \in D : B(k) # {}
  <2> HIDE DEF A, B, D
  <2> QED
    OBVIOUS
<1> HIDE DEF A, B, K
<1> QED
  BY <1>1, <1>2, <1>3, <1>4 DEF K

\* What a written test is for, is asked.
LEMMA WrittenAsked ==
  ASSUME NEW i \in DOMAIN vector, vector[i].key = "checks", NEW e \in Wrote(i)
  PROVE  <<i, e[1], e[2]>> \in Script!Asked
<1>1. TestOk(e) /\ e[1] \in DOMAIN vector[i].checks
        /\ e[2] \in vector[i].checks[e[1]] \cup {""}
  BY ChainIs DEF Wrote
<1>2. CASE e[2] = ""
  BY <1>1, <1>2, AskedOfChecks
<1>3. CASE e[2] # ""
  <2>1. e[1] = "head" /\ e[2] = "payload_status" /\ e[2] \in vector[i].checks["head"]
    BY <1>1, <1>3 DEF TestOk
  <2>2. e[2] \in vector[i].checks[e[1]] \ Usual(e[1])
    BY <2>1 DEF Usual
  <2> QED
    BY <1>1, <2>2, AskedOfChecks
<1> QED
  BY <1>2, <1>3

\* A script without an unsupported line holds all that is asked, and nothing else.
LEMMA SupportedAsked ==
  ASSUME NEW n \in Nat, vector \in [1 .. n -> ScriptEntries],
         \A l \in ScriptLines : l.token # "unsupported"
  PROVE  {l.item : l \in ScriptLines} = Script!Asked
<1>1. ASSUME NEW i \in DOMAIN vector, NEW l \in EntrySet(i)
      PROVE  l.item \in Script!Asked
  <2>0. l \in ScriptLines
    BY <1>1 DEF ScriptLines
  <2>1. CASE vector[i].key \in Script!Handlers
    <3>0. l = Script!Line(vector[i].key, i, vector[i].key, "")
      BY <1>1, <2>1 DEF EntrySet
    <3>1. vector[i].key # "checks" /\ l.item = <<i, vector[i].key, "">>
      BY <2>1, <3>0, PlainNames DEF Script!Line
    <3> QED
      BY <3>1, AskedOfOthers
  <2>2. CASE vector[i].key \notin Script!Handlers /\ vector[i].key = "checks"
    <3>1. l \in CheckSet(i)
      BY <1>1, <2>2 DEF EntrySet
    <3>2. ASSUME l = Script!Line("unsupported", i, "", "") PROVE FALSE
      <4>1. l.token = "unsupported"
        BY <3>2 DEF Script!Line
      <4> QED
        BY <2>0, <4>1
    <3>3. PICK e \in Wrote(i) : l = Script!Line(e[3], i, e[1], e[2])
      BY <3>1, <3>2 DEF CheckSet
    <3>4. l.item = <<i, e[1], e[2]>>
      BY <3>3 DEF Script!Line
    <3> QED
      BY <2>2, <3>4, WrittenAsked
  <2>3. CASE vector[i].key \notin Script!Handlers /\ vector[i].key # "checks"
    <3>0. l = Script!Line("unsupported", i, "", "")
      BY <1>1, <2>3 DEF EntrySet
    <3>1. l.token = "unsupported"
      BY <3>0 DEF Script!Line
    <3> QED
      BY <2>0, <3>1
  <2> QED
    BY <2>1, <2>2, <2>3
<1>2. ASSUME NEW i \in DOMAIN vector, vector[i].key = "checks"
      PROVE  \A e \in Wrote(i) : \E l \in ScriptLines : l.item = <<i, e[1], e[2]>>
                                                     /\ l.token = e[3]
  <2> TAKE e \in Wrote(i)
  <2> DEFINE l == Script!Line(e[3], i, e[1], e[2])
  <2>1. l.item = <<i, e[1], e[2]>> /\ l.token = e[3]
    BY DEF Script!Line
  <2>2. l \in CheckSet(i)
    BY DEF CheckSet
  <2>3. EntrySet(i) = CheckSet(i)
    BY <1>2 DEF EntrySet, Script!Handlers
  <2>4. l \in ScriptLines
    <3> HIDE DEF l
    <3> QED
      BY <2>2, <2>3 DEF ScriptLines
  <2> HIDE DEF l
  <2> QED
    BY <2>1, <2>4
<1>3. ASSUME NEW i \in DOMAIN vector, vector[i].key = "checks"
      PROVE  Script!Unknown(vector[i].checks) = {}
  <2> SUFFICES ASSUME Script!Unknown(vector[i].checks) # {} PROVE FALSE
    OBVIOUS
  <2> DEFINE l == Script!Line("unsupported", i, "", "")
  <2>1. l \in CheckSet(i) /\ l.token = "unsupported"
    BY DEF CheckSet, Script!Line
  <2>2. EntrySet(i) = CheckSet(i)
    BY <1>3 DEF EntrySet, Script!Handlers
  <2> HIDE DEF l
  <2>3. l \in ScriptLines
    BY <2>1, <2>2 DEF ScriptLines
  <2> QED
    BY <2>1, <2>3
<1>4. ASSUME NEW i \in DOMAIN vector, vector[i].key = "checks",
             NEW k \in DOMAIN vector[i].checks
      PROVE  /\ \E e \in Wrote(i) : e[1] = k /\ e[2] = ""
             /\ k # "should_override_forkchoice_update"
  <2>1. k \in Script!KnownCheckKeys
    BY <1>3, <1>4, UnknownIs
  <2>2. PICK e \in Chain : e[1] = k /\ e[2] = ""
    BY <2>1, ChainIs
  <2>3. e \in Wrote(i)
    BY <2>2 DEF Wrote
  <2>4. e[3] # "unsupported"
    BY <1>2, <1>4, <2>3
  <2>5. TestOk(e)
    BY <2>2, ChainIs
  <2> QED
    BY <2>2, <2>3, <2>4, <2>5 DEF TestOk, TokenOf
<1>5. ASSUME NEW i \in DOMAIN vector, vector[i].key = "checks",
             NEW k \in DOMAIN vector[i].checks, NEW s \in vector[i].checks[k] \ Usual(k)
      PROVE  \E e \in Wrote(i) : e[1] = k /\ e[2] = s
  <2>1. k \in Script!KnownCheckKeys
    BY <1>3, <1>5, UnknownIs
  <2>2. k \in DOMAIN Script!KnownCheckSubkeys => s \in Script!KnownCheckSubkeys[k]
    BY <1>3, <1>5, UnknownIs
  <2>3. k # "should_override_forkchoice_update"
    BY <1>4, <1>5
  <2>4. vector[i] \in ScriptEntries
    OBVIOUS
  <2>5. k \notin {"get_proposer_head", "proposer_boost_root", "time", "genesis_time"}
    BY <1>5, <2>4, ScriptAssumption
  <2>6. k = "head"
    BY <1>5, <2>1, <2>2, <2>3, <2>5, SubkeysAre DEF Script!KnownCheckKeys, Usual
  <2>7. s = "payload_status"
    BY <1>5, <2>2, <2>6, SubkeysAre DEF Usual
  <2> QED
    BY <1>5, <2>6, <2>7, ChainIs DEF Wrote
<1>6. ASSUME NEW item \in Script!Asked
      PROVE  \E l \in ScriptLines : l.item = item
  <2>1. PICK i \in DOMAIN vector : item \in AskedOf(i)
    BY AskedIs
  <2>2. CASE vector[i].key = "checks"
    <3>1. PICK k \in DOMAIN vector[i].checks :
            \/ item = <<i, k, "">>
            \/ \E s \in vector[i].checks[k] \ Usual(k) : item = <<i, k, s>>
      BY <2>1, <2>2, AskedOnly
    <3>2. \E e \in Wrote(i) : item = <<i, e[1], e[2]>>
      <4>1. CASE item = <<i, k, "">>
        <5>1. PICK e \in Wrote(i) : e[1] = k /\ e[2] = ""
          BY <1>4, <2>2
        <5> QED
          BY <4>1, <5>1
      <4>2. ASSUME NEW s \in vector[i].checks[k] \ Usual(k), item = <<i, k, s>>
            PROVE  \E e \in Wrote(i) : item = <<i, e[1], e[2]>>
        <5>1. PICK e \in Wrote(i) : e[1] = k /\ e[2] = s
          BY <1>5, <2>2
        <5> QED
          BY <4>2, <5>1
      <4> QED
        BY <3>1, <4>1, <4>2
    <3> QED
      BY <1>2, <2>2, <3>2
  <2>3. CASE vector[i].key # "checks"
    <3>1. item = <<i, vector[i].key, "">>
      BY <2>1, <2>3 DEF AskedOf
    <3>2. vector[i].key \in Script!Handlers
      <4> SUFFICES ASSUME vector[i].key \notin Script!Handlers PROVE FALSE
        OBVIOUS
      <4> DEFINE l == Script!Line("unsupported", i, "", "")
      <4>1. EntrySet(i) = {l} /\ l.token = "unsupported"
        BY <2>3 DEF EntrySet, Script!Line
      <4> HIDE DEF l
      <4>2. l \in ScriptLines
        BY <4>1 DEF ScriptLines
      <4> QED
        BY <4>1, <4>2
    <3> DEFINE l == Script!Line(vector[i].key, i, vector[i].key, "")
    <3>3. EntrySet(i) = {l} /\ l.item = item
      BY <3>1, <3>2 DEF EntrySet, Script!Line
    <3> HIDE DEF l
    <3>4. l \in ScriptLines
      BY <3>3 DEF ScriptLines
    <3> QED
      BY <3>3, <3>4
  <2> QED
    BY <2>2, <2>3
<1> QED
  BY <1>1, <1>6 DEF ScriptLines

\* What the interpreter throws todo at, in a script, is in a vector that asks for
\* something that is not modelled.
LEMMA UnportedAsked ==
  ASSUME NEW n \in Nat, vector \in [1 .. n -> ScriptEntries],
         NEW l \in ScriptLines, l.token \in Script!Unported, l.token \notin Script!Handlers
  PROVE  \E item \in Script!Asked : ~ Script!Modelled(item)
<1>1. PICK i \in DOMAIN vector : l \in EntrySet(i)
  BY DEF ScriptLines
<1> DEFINE Plain(item, e) == e[1] = item[2] /\ e[2] = item[3] /\ e[3] \notin Script!Unported
<1>2. ASSUME vector[i].key = "checks", NEW k, NEW s,
             \A e \in Chain : ~ Plain(<<i, k, s>>, e)
      PROVE  ~ Script!Modelled(<<i, k, s>>)
  <2>1. <<i, k, s>>[1] = i
    OBVIOUS
  <2> HIDE DEF Plain
  <2>2. Script!Modelled(<<i, k, s>>) <=> \E e \in Chain : Plain(<<i, k, s>>, e)
    BY <1>2, <2>1, ChainIs DEF Script!Modelled, Plain
  <2> QED
    BY <1>2, <2>2
<1>3. CASE vector[i].key \in Script!Handlers
  <2>1. l = Script!Line(vector[i].key, i, vector[i].key, "")
    BY <1>1, <1>3 DEF EntrySet
  <2>2. l.token = vector[i].key
    BY <2>1 DEF Script!Line
  <2> QED
    BY <1>3, <2>2
<1>4. CASE vector[i].key \notin Script!Handlers /\ vector[i].key # "checks"
  <2>1. ~ Script!Modelled(<<i, vector[i].key, "">>)
    BY <1>4 DEF Script!Modelled
  <2> QED
    BY <1>4, <2>1, AskedOfOthers
<1>5. CASE vector[i].key \notin Script!Handlers /\ vector[i].key = "checks"
  <2>1. l \in CheckSet(i)
    BY <1>1, <1>5 DEF EntrySet
  <2>2. CASE \E e \in Wrote(i) : l = Script!Line(e[3], i, e[1], e[2])
    <3>1. PICK e \in Wrote(i) : l = Script!Line(e[3], i, e[1], e[2])
      BY <2>2
    <3>2. l.token = e[3]
      BY <3>1 DEF Script!Line
    <3>3. ASSUME NEW d \in Chain, d[1] = e[1], d[2] = e[2]
          PROVE  d[3] = e[3]
      <4>1. TestOk(d) /\ TestOk(e)
        BY ChainIs DEF Wrote
      <4> QED
        BY <3>3, <4>1 DEF TestOk
    <3>4. \A d \in Chain : ~ Plain(<<i, e[1], e[2]>>, d)
      BY <3>2, <3>3
    <3>5. ~ Script!Modelled(<<i, e[1], e[2]>>)
      BY <1>2, <1>5, <3>4
    <3> QED
      BY <1>5, <3>5, WrittenAsked
  <2>3. CASE Script!Unknown(vector[i].checks) # {}
    <3>1. PICK k \in DOMAIN vector[i].checks :
             \/ k \notin Script!KnownCheckKeys
             \/ /\ k \in DOMAIN Script!KnownCheckSubkeys
                /\ \E s \in vector[i].checks[k] : s \notin Script!KnownCheckSubkeys[k]
      BY <2>3, UnknownIs
    <3>2. CASE k \notin Script!KnownCheckKeys
      <4>1. \A d \in Chain : d[1] # k
        <5>1. \A d \in Chain : TestOk(d)
          BY ChainIs
        <5> QED
          BY <3>2, <5>1 DEF TestOk
      <4>2. ~ Script!Modelled(<<i, k, "">>)
        BY <1>2, <1>5, <4>1
      <4> QED
        BY <1>5, <4>2, AskedOfChecks
    <3>3. CASE /\ k \in DOMAIN Script!KnownCheckSubkeys
               /\ \E s \in vector[i].checks[k] : s \notin Script!KnownCheckSubkeys[k]
      <4>1. PICK s \in vector[i].checks[k] : s \notin Script!KnownCheckSubkeys[k]
        BY <3>3
      <4>2. s \notin Usual(k)
        BY <3>3, <4>1, SubkeysAre DEF Usual
      <4>3. s # "" /\ (k = "head" => s # "payload_status")
        <5>1. vector[i] \in ScriptEntries
          OBVIOUS
        <5>2. s # ""
          BY <4>1, <5>1, ScriptAssumption
        <5> QED
          BY <4>1, <5>2, SubkeysAre
      <4>4. \A d \in Chain : d[1] # k \/ d[2] # s
        <5>1. \A d \in Chain : TestOk(d)
          BY ChainIs
        <5> QED
          BY <4>3, <5>1 DEF TestOk
      <4>5. ~ Script!Modelled(<<i, k, s>>)
        BY <1>2, <1>5, <4>4
      <4> QED
        BY <1>5, <4>1, <4>2, <4>5, AskedOfChecks
    <3> QED
      BY <3>1, <3>2, <3>3
  <2> QED
    BY <2>1, <2>2, <2>3 DEF CheckSet
<1> QED
  BY <1>3, <1>4, <1>5

-----------------------------------------------------------------------------
(* The fork_choice vectors: the inductive invariant. *)

\* The outcome of what the interpreter threw.
OutcomeOf(e) ==
  IF e = "none" THEN "pass" ELSE IF e = "todo" THEN "xfail"
  ELSE IF e = "outOfScope" THEN "skip" ELSE "fail"

\* The script is the one of the vector.
EncodedOk ==
  /\ \E n \in Nat : vector \in [1 .. n -> ScriptEntries]
  /\ pc \in {"encode", "decode", "run", "report", "done"}
  /\ pc # "encode" => lines \in Seq(ScriptLines) /\ ItemsOf(lines) = ScriptLines

\* The steps are the lines, once they are read.
DecodedOk ==
  /\ pc \in {"encode", "decode"} => steps = <<>> /\ at = 1
  /\ pc \notin {"encode", "decode"} => steps = lines
  /\ at \in Nat /\ at \in 1 .. Len(steps) + 1

\* What was answered is what was run; each answer is one the reference goes on after.
AnswersOk ==
  /\ {x[1] : x \in answers} = {steps[j].item : j \in 1 .. at - 1}
  /\ \A x \in answers : x[2] \in Script!Wanted(x[1])
  /\ \A j \in 1 .. at - 1 : steps[j].token \notin Script!Unported

\* The interpreter stops at the end, or where it throws.
ErrorOk ==
  /\ error \in Script!Errors \cup {"none"}
  /\ pc \in {"encode", "decode", "run"} => error = "none"
  /\ pc \in {"report", "done"} /\ error = "none" => at = Len(steps) + 1
  /\ pc \in {"report", "done"} /\ error = "todo" =>
       /\ at \in 1 .. Len(steps)
       /\ steps[at].token \in Script!Handlers \cup Script!Unported
  /\ outcome = IF pc = "done" THEN OutcomeOf(error) ELSE "none"

ScriptInv == EncodedOk /\ DecodedOk /\ AnswersOk /\ ErrorOk

\* A vector starts with nothing written.
LEMMA ScriptStarts ==
  ASSUME Script!Init
  PROVE  ScriptInv
<1>1. PICK n \in 1 .. MaxEntries[fork] : vector \in [1 .. n -> ScriptEntries]
  BY DEF Script!Init
<1>2. MaxEntries[fork] \in Nat
  BY ScriptAssumption DEF Script!Init
<1>3. EncodedOk
  BY <1>1, <1>2 DEF EncodedOk, Script!Init
<1>4. Len(<<>>) = 0 /\ 1 .. 1 - 1 = {}
  OBVIOUS
<1>5. DecodedOk
  BY <1>4 DEF DecodedOk, Script!Init
<1>6. AnswersOk
  BY <1>4 DEF AnswersOk, Script!Init
<1>7. ErrorOk
  BY DEF ErrorOk, Script!Init
<1> QED
  BY <1>3, <1>5, <1>6, <1>7 DEF ScriptInv

\* What the script of a vector is, does not change while the vector does not.
LEMMA SameVector ==
  ASSUME UNCHANGED <<fork, vector>>
  PROVE  /\ ScriptLines' = ScriptLines /\ Script!Unported' = Script!Unported
         /\ \A item : Script!Wanted(item)' = Script!Wanted(item)
BY DEF ScriptLines, EntrySet, CheckSet, Wrote, Script!Line, Script!Unported, Script!Wanted

\* _build_fork_choice_request.
LEMMA ScriptEncode ==
  ASSUME ScriptInv, Script!Encode
  PROVE  ScriptInv'
<1>1. PICK n \in Nat : vector \in [1 .. n -> ScriptEntries]
  BY DEF ScriptInv, EncodedOk
<1>2. lines' \in Seq(ScriptLines) /\ ItemsOf(lines') = ScriptLines
  BY <1>1, EncodeWrites DEF Script!Encode
<1>3. /\ ScriptLines' = ScriptLines /\ Script!Unported' = Script!Unported
      /\ \A item : Script!Wanted(item)' = Script!Wanted(item)
  BY SameVector DEF Script!Encode
<1>4. EncodedOk'
  BY <1>1, <1>2, <1>3 DEF EncodedOk, ItemsOf, Script!Encode
<1>5. DecodedOk'
  BY DEF ScriptInv, DecodedOk, Script!Encode
<1>6. AnswersOk'
  BY <1>3 DEF ScriptInv, AnswersOk, Script!Encode
<1>7. ErrorOk'
  BY DEF ScriptInv, ErrorOk, Script!Encode
<1> QED
  BY <1>4, <1>5, <1>6, <1>7 DEF ScriptInv

\* The lines of the script, one by one.
LEMMA LinesAre ==
  ASSUME NEW S, lines \in Seq(S), ItemsOf(lines) = S
  PROVE  /\ Len(lines) \in Nat /\ DOMAIN lines = 1 .. Len(lines)
         /\ \A j \in 1 .. Len(lines) : lines[j] \in S
         /\ \A l \in S : \E j \in 1 .. Len(lines) : l = lines[j]
BY DEF ItemsOf

\* handleForkChoice: the server knows each line the harness writes.
LEMMA ScriptDecode ==
  ASSUME ScriptInv, Script!Decode
  PROVE  ScriptInv'
<1>1. lines \in Seq(ScriptLines) /\ ItemsOf(lines) = ScriptLines
  BY DEF ScriptInv, EncodedOk, Script!Decode
<1>2. /\ Len(lines) \in Nat /\ DOMAIN lines = 1 .. Len(lines)
      /\ \A j \in 1 .. Len(lines) : lines[j] \in ScriptLines
  BY <1>1, LinesAre
<1> DEFINE Read(l) == IF l.token \in Script!ServerTokens THEN l
                      ELSE [l EXCEPT !.token = "unsupported"]
<1>3. ASSUME NEW l \in ScriptLines PROVE Read(l) = l
  <2>1. LineOk(l)
    BY ScriptLinesOk
  <2>2. CASE l.token \in Script!ServerTokens
    BY <2>2
  <2>3. CASE l.token \notin Script!ServerTokens
    <3>1. PICK i, token, key, sub :
             /\ i \in DOMAIN vector
             /\ l = Script!Line(token, i, key, sub)
             /\ token \in Script!ServerTokens \cup {"unsupported"}
      BY <2>1 DEF LineOk
    <3>2. l.token = token
      BY <3>1 DEF Script!Line
    <3>3. token = "unsupported"
      BY <2>3, <3>1, <3>2
    <3>4. l = [token |-> "unsupported", valid |-> vector[i].valid, item |-> <<i, key, sub>>]
      BY <3>1, <3>3 DEF Script!Line
    <3> QED
      BY <2>3, <3>4
  <2> QED
    BY <2>2, <2>3
<1>4. steps' = [j \in DOMAIN lines |-> Read(lines[j])]
  BY DEF Script!Decode
<1>5. steps' = lines
  <2> HIDE DEF Read
  <2>1. \A j \in DOMAIN lines : Read(lines[j]) = lines[j]
    BY <1>2, <1>3
  <2>2. lines = [j \in DOMAIN lines |-> lines[j]]
    BY <1>1
  <2> QED
    BY <1>4, <2>1, <2>2
<1>6. /\ ScriptLines' = ScriptLines /\ Script!Unported' = Script!Unported
      /\ \A item : Script!Wanted(item)' = Script!Wanted(item)
  BY SameVector DEF Script!Decode
<1>7. EncodedOk'
  BY <1>1, <1>6 DEF ScriptInv, EncodedOk, ItemsOf, Script!Decode
<1>8. DecodedOk'
  <2>1. at' = 1 /\ pc' = "run" /\ lines' = lines
    BY DEF ScriptInv, DecodedOk, Script!Decode
  <2>2. Len(steps') \in Nat
    BY <1>2, <1>5
  <2> QED
    BY <1>5, <2>1, <2>2 DEF DecodedOk
<1>9. AnswersOk'
  <2>1. at = 1 /\ at' = at /\ answers' = answers
    BY DEF ScriptInv, DecodedOk, Script!Decode
  <2>2. 1 .. at - 1 = {}
    BY <2>1
  <2> QED
    BY <1>6, <2>1, <2>2 DEF ScriptInv, AnswersOk
<1>10. ErrorOk'
  BY DEF ScriptInv, ErrorOk, Script!Decode
<1> QED
  BY <1>7, <1>8, <1>9, <1>10 DEF ScriptInv

\* The interpreter goes on with the next step, or throws.
Went(step) ==
  /\ at' = at + 1 /\ error' = error /\ pc' = pc
  /\ \E r \in Script!Wanted(step.item) : answers' = answers \cup {<<step.item, r>>}

Threw(step) ==
  /\ pc' = "report" /\ at' = at /\ answers' = answers
  /\ error' \in Script!Errors
  /\ error' = "todo" => step.token \in Script!Handlers \cup Script!Unported

\* Which answers the interpreter goes on after, by the line.
LEMMA WantedOf ==
  ASSUME NEW n \in Nat, vector \in [1 .. n -> ScriptEntries], NEW l, LineOk(l)
  PROVE  /\ l.valid \in BOOLEAN
         /\ Script!Wanted(l.item) =
              IF l.token \in Script!Handlers \ {"tick"} /\ ~ l.valid
              THEN IF l.token = "block" THEN {"assert"} ELSE {"assert", "outOfBounds"}
              ELSE {"ok"}
<1>1. PICK i, token, key, sub :
    /\ i \in DOMAIN vector
    /\ l = Script!Line(token, i, key, sub)
    /\ token \in Script!ServerTokens \cup {"unsupported"}
    /\ \/ token \in Script!Handlers /\ vector[i].key = token /\ key = token /\ sub = ""
       \/ token \notin Script!Handlers /\ key \notin Script!Handlers
  BY DEF LineOk
<1>2. l.token = token /\ l.valid = vector[i].valid /\ l.item = <<i, key, sub>>
  BY <1>1 DEF Script!Line
<1>3. vector[i].valid \in BOOLEAN
  <2>1. vector[i] \in ScriptEntries
    BY <1>1
  <2> QED
    BY <2>1, ScriptAssumption
<1>4. l.item[1] = i /\ l.item[2] = key
  BY <1>2
<1>5. Script!Wanted(l.item) =
        IF key \in Script!Handlers \ {"tick"} /\ ~ vector[i].valid
        THEN IF key = "block" THEN {"assert"} ELSE {"assert", "outOfBounds"}
        ELSE {"ok"}
  BY <1>4 DEF Script!Wanted
<1>6. token \in Script!Handlers <=> key \in Script!Handlers
  BY <1>1
<1>7. token \in Script!Handlers => key = token
  BY <1>1
<1> QED
  BY <1>2, <1>3, <1>5, <1>6, <1>7

\* checkStepValidity.
LEMMA StepChecked ==
  ASSUME NEW step, NEW r \in Script!Errors \cup {"ok"}, step.valid \in BOOLEAN,
         step.token \in Script!Handlers, Script!CheckStepValidity(step, r)
  PROVE  \/ /\ Script!Match(step, r)
            /\ r \in IF step.valid THEN {"ok"}
                     ELSE IF step.token = "block" THEN {"assert"} ELSE {"assert", "outOfBounds"}
         \/ \E e \in Script!Errors : Script!Throw(e)
<1>1. CASE r = "ok"
  <2>1. CASE step.valid
    BY <1>1, <2>1 DEF Script!CheckStepValidity
  <2>2. CASE ~ step.valid
    <3>1. Script!Throw("assert")
      BY <1>1, <2>2 DEF Script!CheckStepValidity
    <3> QED
      BY <3>1 DEF Script!Errors
  <2> QED
    BY <2>1, <2>2
<1>2. CASE r # "ok"
  <2>1. CASE ~ step.valid /\ Script!Admits(step.token, r)
    <3>1. Script!Match(step, r)
      BY <1>2, <2>1 DEF Script!CheckStepValidity
    <3>2. r \in IF step.token = "block" THEN {"assert"} ELSE {"assert", "outOfBounds"}
      BY <2>1 DEF Script!Admits
    <3> QED
      BY <2>1, <3>1, <3>2
  <2>2. CASE ~ (~ step.valid /\ Script!Admits(step.token, r))
    <3>1. Script!Throw(r)
      BY <1>2, <2>2 DEF Script!CheckStepValidity
    <3> QED
      BY <1>2, <3>1
  <2> QED
    BY <2>1, <2>2
<1> QED
  BY <1>1, <1>2

\* One step of the interpreter.
LEMMA StepTaken ==
  ASSUME NEW n \in Nat, vector \in [1 .. n -> ScriptEntries], NEW step, LineOk(step),
         \/ \E r \in Script!Errors \cup {"ok"} : Script!RunHandler(step, r)
         \/ Script!RunCheck(step)
         \/ Script!RunUnported(step)
  PROVE  (Went(step) /\ step.token \notin Script!Unported) \/ Threw(step)
<1>1. ASSUME NEW e \in Script!Errors, Script!Throw(e),
             step.token \in Script!Handlers \cup Script!Unported \/ e # "todo"
      PROVE  Threw(step)
  BY <1>1 DEF Threw, Script!Throw
<1>2. ASSUME NEW r \in Script!Wanted(step.item), Script!Match(step, r)
      PROVE  Went(step)
  BY <1>2 DEF Went, Script!Match
<1>3. ASSUME NEW r \in Script!Errors \cup {"ok"}, Script!RunHandler(step, r)
      PROVE  (Went(step) /\ step.token \notin Script!Unported) \/ Threw(step)
  <2>1. step.token \in Script!Handlers \ Script!Unported
    BY <1>3 DEF Script!RunHandler
  <2>2. CASE step.token = "tick"
    <3> DEFINE tick == [step EXCEPT !.valid = TRUE]
    <3>1. tick.valid = TRUE /\ tick.token = "tick" /\ tick.item = step.item
      BY <2>2 DEF LineOk, Script!Line
    <3>2. Script!CheckStepValidity(tick, r)
      BY <1>3, <2>2 DEF Script!RunHandler
    <3> HIDE DEF tick
    <3>3. \/ Script!Match(tick, r) /\ r = "ok"
          \/ \E e \in Script!Errors : Script!Throw(e)
      BY <2>1, <2>2, <3>1, <3>2, StepChecked
    <3>4. Script!Match(tick, r) => Script!Match(step, r)
      BY <3>1 DEF Script!Match
    <3>5. Script!Wanted(step.item) = {"ok"}
      BY <2>2, WantedOf
    <3> QED
      BY <1>1, <1>2, <2>1, <3>3, <3>4, <3>5
  <2>3. CASE step.token = "block" /\ step.valid /\ r = "ok"
    <3>1. Script!Match(step, r) \/ \E e \in Script!Errors : Script!Throw(e)
      BY <1>3, <2>3 DEF Script!RunHandler
    <3>2. Script!Wanted(step.item) = {"ok"}
      BY <2>3, WantedOf
    <3> QED
      BY <1>1, <1>2, <2>1, <2>3, <3>1, <3>2
  <2>4. CASE step.token # "tick" /\ ~ (step.token = "block" /\ step.valid /\ r = "ok")
    <3>1. Script!CheckStepValidity(step, r)
      BY <1>3, <2>4 DEF Script!RunHandler
    <3>2. step.valid \in BOOLEAN
      BY WantedOf
    <3>3. \/ /\ Script!Match(step, r)
             /\ r \in IF step.valid THEN {"ok"}
                      ELSE IF step.token = "block" THEN {"assert"} ELSE {"assert", "outOfBounds"}
          \/ \E e \in Script!Errors : Script!Throw(e)
      BY <2>1, <3>1, <3>2, StepChecked
    <3>4. Script!Wanted(step.item) =
            IF step.valid THEN {"ok"}
            ELSE IF step.token = "block" THEN {"assert"} ELSE {"assert", "outOfBounds"}
      BY <2>1, <2>4, <3>2, WantedOf
    <3> QED
      BY <1>1, <1>2, <2>1, <3>3, <3>4
  <2> QED
    BY <2>2, <2>3, <2>4
<1>4. ASSUME Script!RunCheck(step)
      PROVE  (Went(step) /\ step.token \notin Script!Unported) \/ Threw(step)
  <2>1. step.token \notin Script!Handlers \cup Script!Unported
    BY <1>4 DEF Script!RunCheck
  <2>2. Script!Match(step, "ok") \/ Script!Throw("assert") \/ Script!Throw("missingKey")
    BY <1>4 DEF Script!RunCheck
  <2>3. Script!Wanted(step.item) = {"ok"}
    BY <2>1, WantedOf
  <2>4. {"assert", "missingKey"} \subseteq Script!Errors \ {"todo"}
    BY DEF Script!Errors
  <2> QED
    BY <1>1, <1>2, <2>1, <2>2, <2>3, <2>4
<1>5. ASSUME Script!RunUnported(step)
      PROVE  Threw(step)
  BY <1>1, <1>5 DEF Script!RunUnported, Script!Errors
<1> QED
  BY <1>3, <1>4, <1>5

\* A step of the interpreter keeps the invariant.
LEMMA ScriptRunStep ==
  ASSUME ScriptInv, Script!RunStep
  PROVE  ScriptInv'
<1>1. PICK n \in Nat : vector \in [1 .. n -> ScriptEntries]
  BY DEF ScriptInv, EncodedOk
<1>2. pc = "run" /\ steps = lines /\ lines \in Seq(ScriptLines) /\ ItemsOf(lines) = ScriptLines
  BY DEF ScriptInv, EncodedOk, DecodedOk, Script!RunStep
<1>3. /\ Len(steps) \in Nat /\ at \in 1 .. Len(steps) /\ at \in Nat
      /\ steps[at] \in ScriptLines
  <2>1. /\ Len(lines) \in Nat /\ DOMAIN lines = 1 .. Len(lines)
        /\ \A j \in 1 .. Len(lines) : lines[j] \in ScriptLines
    BY <1>2, LinesAre
  <2> QED
    BY <1>2, <2>1 DEF Script!RunStep
<1> DEFINE step == steps[at]
<1>4. LineOk(step)
  BY <1>3, ScriptLinesOk
<1>5. UNCHANGED <<fork, vector, lines, steps, outcome>>
  BY DEF Script!RunStep
<1>6. \/ \E r \in Script!Errors \cup {"ok"} : Script!RunHandler(step, r)
      \/ Script!RunCheck(step)
      \/ Script!RunUnported(step)
  BY DEF Script!RunStep
<1> HIDE DEF step
<1>7. (Went(step) /\ step.token \notin Script!Unported) \/ Threw(step)
  BY <1>1, <1>4, <1>6, StepTaken
<1>8. /\ ScriptLines' = ScriptLines /\ Script!Unported' = Script!Unported
      /\ \A item : Script!Wanted(item)' = Script!Wanted(item)
  BY <1>5, SameVector
<1>9. error = "none" /\ outcome = "none"
  BY <1>2 DEF ScriptInv, ErrorOk
<1>10. CASE Went(step) /\ step.token \notin Script!Unported
  <2>1. PICK r \in Script!Wanted(step.item) : answers' = answers \cup {<<step.item, r>>}
    BY <1>10 DEF Went
  <2>2. at' = at + 1 /\ error' = error /\ pc' = pc
    BY <1>10 DEF Went
  <2>3. 1 .. at' - 1 = (1 .. at - 1) \cup {at}
    BY <1>3, <2>2
  <2>4. EncodedOk'
    BY <1>1, <1>2, <1>5, <1>8, <2>2 DEF EncodedOk, ItemsOf
  <2>5. DecodedOk'
    BY <1>2, <1>3, <1>5, <2>2 DEF DecodedOk
  <2>6. AnswersOk'
    <3>1. {x[1] : x \in answers'} = {x[1] : x \in answers} \cup {step.item}
      <4> DEFINE now == <<step.item, r>>
      <4>1. now[1] = step.item
        OBVIOUS
      <4> HIDE DEF now
      <4>2. answers' = answers \cup {now}
        BY <2>1 DEF now
      <4> QED
        BY <4>1, <4>2
    <3>2. {steps[j].item : j \in 1 .. at' - 1} =
            {steps[j].item : j \in 1 .. at - 1} \cup {step.item}
      BY <2>3 DEF step
    <3>3. {x[1] : x \in answers'} = {steps'[j].item : j \in 1 .. at' - 1}
      BY <1>5, <3>1, <3>2 DEF ScriptInv, AnswersOk
    <3>4. \A x \in answers' : x[2] \in Script!Wanted(x[1])
      BY <2>1 DEF ScriptInv, AnswersOk
    <3>5. \A j \in 1 .. at' - 1 : steps'[j].token \notin Script!Unported
      BY <1>5, <1>10, <2>3 DEF step, ScriptInv, AnswersOk
    <3> QED
      BY <1>8, <3>3, <3>4, <3>5 DEF AnswersOk
  <2>7. ErrorOk'
    BY <1>2, <1>5, <1>9, <2>2 DEF ErrorOk, Script!Errors
  <2> QED
    BY <2>4, <2>5, <2>6, <2>7 DEF ScriptInv
<1>11. CASE Threw(step)
  <2>1. /\ pc' = "report" /\ at' = at /\ answers' = answers
        /\ error' \in Script!Errors
        /\ error' = "todo" => step.token \in Script!Handlers \cup Script!Unported
    BY <1>11 DEF Threw
  <2>2. EncodedOk'
    BY <1>1, <1>2, <1>5, <1>8, <2>1 DEF EncodedOk, ItemsOf
  <2>3. DecodedOk'
    BY <1>2, <1>3, <1>5, <2>1 DEF DecodedOk
  <2>4. AnswersOk'
    BY <1>5, <1>8, <2>1 DEF ScriptInv, AnswersOk
  <2>5. error' # "none"
    BY <2>1 DEF Script!Errors
  <2>6. ErrorOk'
    BY <1>3, <1>5, <1>8, <1>9, <2>1, <2>5 DEF ErrorOk, step
  <2> QED
    BY <2>2, <2>3, <2>4, <2>6 DEF ScriptInv
<1> QED
  BY <1>7, <1>10, <1>11

\* The interpreter runs out of steps.
LEMMA ScriptRunEnds ==
  ASSUME ScriptInv, Script!RunEnds
  PROVE  ScriptInv'
<1>1. UNCHANGED <<fork, vector, lines, steps, at, answers, error, outcome>> /\ pc' = "report"
  BY DEF Script!RunEnds
<1>2. pc = "run" /\ steps = lines /\ lines \in Seq(ScriptLines) /\ ItemsOf(lines) = ScriptLines
        /\ error = "none" /\ outcome = "none"
  BY DEF ScriptInv, EncodedOk, DecodedOk, ErrorOk, Script!RunEnds
<1>3. at = Len(steps) + 1
  <2>1. Len(lines) \in Nat /\ DOMAIN lines = 1 .. Len(lines)
    BY <1>2, LinesAre
  <2>2. at \notin DOMAIN steps
    BY DEF Script!RunEnds
  <2>3. at \in Nat /\ at \in 1 .. Len(steps) + 1
    BY DEF ScriptInv, DecodedOk
  <2> QED
    BY <1>2, <2>1, <2>2, <2>3
<1>4. /\ ScriptLines' = ScriptLines /\ Script!Unported' = Script!Unported
      /\ \A item : Script!Wanted(item)' = Script!Wanted(item)
  BY <1>1, SameVector
<1>5. EncodedOk'
  BY <1>1, <1>2, <1>4 DEF ScriptInv, EncodedOk, ItemsOf
<1>6. DecodedOk'
  BY <1>1, <1>2 DEF ScriptInv, DecodedOk
<1>7. AnswersOk'
  BY <1>1, <1>4 DEF ScriptInv, AnswersOk
<1>8. ErrorOk'
  BY <1>1, <1>2, <1>3 DEF ErrorOk
<1> QED
  BY <1>5, <1>6, <1>7, <1>8 DEF ScriptInv

\* handleForkChoice and test_case: the result line and the verdict.
LEMMA ScriptReport ==
  ASSUME ScriptInv, Script!Report
  PROVE  ScriptInv'
<1>1. UNCHANGED <<fork, vector, lines, steps, at, answers, error>>
        /\ pc = "report" /\ pc' = "done"
  BY DEF Script!Report
<1>2. outcome' = OutcomeOf(error)
  <2>1. error \in Script!Errors \cup {"none"}
    BY DEF ScriptInv, ErrorOk
  <2>2. Script!Bucket(error) = IF error = "none" THEN "passing" ELSE IF error = "todo" THEN "todo"
                               ELSE IF error = "outOfScope" THEN "skip" ELSE "bug"
    BY <2>1 DEF Script!Bucket, Script!Errors
  <2> QED
    BY <2>2 DEF Script!Report, OutcomeOf
<1>3. /\ ScriptLines' = ScriptLines /\ Script!Unported' = Script!Unported
      /\ \A item : Script!Wanted(item)' = Script!Wanted(item)
  BY <1>1, SameVector
<1>4. EncodedOk'
  BY <1>1, <1>3 DEF ScriptInv, EncodedOk, ItemsOf
<1>5. DecodedOk'
  BY <1>1 DEF ScriptInv, DecodedOk
<1>6. AnswersOk'
  BY <1>1, <1>3 DEF ScriptInv, AnswersOk
<1>7. ErrorOk'
  BY <1>1, <1>2, <1>3 DEF ScriptInv, ErrorOk
<1> QED
  BY <1>4, <1>5, <1>6, <1>7 DEF ScriptInv

\* Every step of a vector keeps the invariant.
LEMMA ScriptStep ==
  ASSUME ScriptInv, Script!Next
  PROVE  ScriptInv'
BY ScriptEncode, ScriptDecode, ScriptRunStep, ScriptRunEnds, ScriptReport DEF Script!Next

\* The invariant stays where nothing of a vector changes.
LEMMA SameScript ==
  ASSUME ScriptInv,
         UNCHANGED <<fork, vector, pc, lines, steps, at, answers, error, outcome>>
  PROVE  ScriptInv'
<1>1. /\ ScriptLines' = ScriptLines /\ Script!Unported' = Script!Unported
      /\ \A item : Script!Wanted(item)' = Script!Wanted(item)
  BY SameVector
<1> QED
  BY <1>1 DEF ScriptInv, EncodedOk, ItemsOf, DecodedOk, AnswersOk, ErrorOk

\* A case passes only when all its vector asks for was run and matched.
LEMMA PassRunsAll ==
  ASSUME ScriptInv
  PROVE  Script!PassChecksAll
<1> SUFFICES ASSUME outcome = "pass" PROVE {x[1] : x \in answers} = Script!Asked
  BY DEF Script!PassChecksAll
<1>1. PICK n \in Nat : vector \in [1 .. n -> ScriptEntries]
  BY DEF ScriptInv, EncodedOk
<1>2. pc = "done" /\ error = "none"
  BY DEF ScriptInv, ErrorOk, OutcomeOf
<1>3. steps = lines /\ lines \in Seq(ScriptLines) /\ ItemsOf(lines) = ScriptLines
        /\ at = Len(steps) + 1
  BY <1>2 DEF ScriptInv, EncodedOk, DecodedOk, ErrorOk
<1>4. Len(lines) \in Nat /\ 1 .. at - 1 = 1 .. Len(lines)
  <2>1. Len(lines) \in Nat
    BY <1>3
  <2> QED
    BY <1>3, <2>1
<1>5. \A l \in ScriptLines : l.token # "unsupported"
  <2>1. \A j \in 1 .. Len(lines) : lines[j].token \notin Script!Unported
    BY <1>3, <1>4 DEF ScriptInv, AnswersOk
  <2>2. "unsupported" \in Script!Unported
    BY DEF Script!Unported
  <2> QED
    BY <1>3, <2>1, <2>2 DEF ItemsOf
<1>6. {x[1] : x \in answers} = {lines[j].item : j \in 1 .. Len(lines)}
  BY <1>3, <1>4 DEF ScriptInv, AnswersOk
<1>7. {lines[j].item : j \in 1 .. Len(lines)} = {l.item : l \in ScriptLines}
  BY <1>3 DEF ItemsOf
<1> QED
  BY <1>1, <1>5, <1>6, <1>7, SupportedAsked

\* A case is set aside only for something that is not modelled.
LEMMA XfailCaused ==
  ASSUME ScriptInv
  PROVE  Script!XfailHasCause
<1> SUFFICES ASSUME outcome = "xfail", steps[at].token \notin Script!Handlers
             PROVE  \E item \in Script!Asked : ~ Script!Modelled(item)
  BY DEF Script!XfailHasCause
<1>1. PICK n \in Nat : vector \in [1 .. n -> ScriptEntries]
  BY DEF ScriptInv, EncodedOk
<1>2. pc = "done" /\ error = "todo"
  BY DEF ScriptInv, ErrorOk, OutcomeOf
<1>3. steps = lines /\ lines \in Seq(ScriptLines) /\ ItemsOf(lines) = ScriptLines
        /\ at \in 1 .. Len(steps) /\ steps[at].token \in Script!Handlers \cup Script!Unported
  BY <1>2 DEF ScriptInv, EncodedOk, DecodedOk, ErrorOk
<1>4. steps[at] \in ScriptLines
  BY <1>3, LinesAre
<1> QED
  BY <1>1, <1>3, <1>4, UnportedAsked

\* What the invariant says of a vector.
LEMMA ScriptMeans ==
  ASSUME ScriptInv
  PROVE  /\ Script!TypeOK /\ Script!PassChecksAll /\ Script!XfailHasCause
         /\ Script!MismatchFails /\ Script!MatchedAsReference
<1>1. Script!TypeOK
  <2>1. PICK n \in Nat : vector \in [1 .. n -> ScriptEntries]
    BY DEF ScriptInv, EncodedOk
  <2>2. vector \in Seq(ScriptEntries)
    BY <2>1
  <2>3. \A j \in DOMAIN steps : steps[j].token \in Script!ServerTokens \cup {"unsupported"}
    <3>1. CASE pc \in {"encode", "decode"}
      <4>1. steps = <<>>
        BY <3>1 DEF ScriptInv, DecodedOk
      <4> QED
        BY <4>1
    <3>2. CASE pc \notin {"encode", "decode"}
      <4>1. steps = lines /\ lines \in Seq(ScriptLines) /\ ItemsOf(lines) = ScriptLines
        BY <3>2 DEF ScriptInv, EncodedOk, DecodedOk
      <4>2. \A j \in DOMAIN steps : steps[j] \in ScriptLines
        BY <4>1, LinesAre
      <4>3. \A l \in ScriptLines : l.token \in Script!ServerTokens \cup {"unsupported"}
        <5> TAKE l \in ScriptLines
        <5>1. PICK i, token, key, sub :
                 /\ i \in DOMAIN vector
                 /\ l = Script!Line(token, i, key, sub)
                 /\ token \in Script!ServerTokens \cup {"unsupported"}
          BY ScriptLinesOk DEF LineOk
        <5> QED
          BY <5>1 DEF Script!Line
      <4> QED
        BY <4>2, <4>3
    <3> QED
      BY <3>1, <3>2
  <2>4. outcome \in Script!Outcomes \cup {"none"}
    BY DEF ScriptInv, ErrorOk, OutcomeOf, Script!Outcomes
  <2> QED
    BY <2>2, <2>3, <2>4 DEF ScriptInv, EncodedOk, DecodedOk, ErrorOk, Script!TypeOK
<1>2. Script!MismatchFails
  BY DEF ScriptInv, ErrorOk, OutcomeOf, Script!MismatchFails
<1>3. Script!MatchedAsReference
  BY DEF ScriptInv, AnswersOk, Script!MatchedAsReference
<1> QED
  BY <1>1, <1>2, <1>3, PassRunsAll, XfailCaused

\* The part of a fork_choice vector.
ScriptPart == part = "script" => ScriptInv

\* The part starts in the invariant and stays in it.
LEMMA ScriptPartStarts == ConformanceInit => ScriptPart
BY ScriptStarts DEF ConformanceInit, ScriptPart

\* No step of the other parts touches a vector.
LEMMA ScriptPartStep == ScriptPart /\ [ConformanceNext]_<<part, state>> => ScriptPart'
<1> SUFFICES ASSUME ScriptPart, [ConformanceNext]_<<part, state>>, part' = "script"
             PROVE  ScriptInv'
  BY DEF ScriptPart
<1>1. CASE part = "script" /\ Script!Next /\ UNCHANGED notScript
  BY <1>1, ScriptStep DEF ScriptPart
<1>2. CASE UNCHANGED <<part, state>>
  <2>1. UNCHANGED <<fork, vector, pc, lines, steps, at, answers, error, outcome>> /\ part = "script"
    BY <1>2 DEF state, scriptOnly
  <2> QED
    BY <2>1, SameScript DEF ScriptPart
<1>3. CASE /\ ConformanceNext
           /\ ~ (part = "script" /\ Script!Next /\ UNCHANGED notScript)
  <2>1. part # "script" /\ part' = part
    BY <1>3 DEF ConformanceNext, notCache, notWalk, notVerdict
  <2> QED
    BY <2>1
<1> QED
  BY <1>1, <1>2, <1>3

\* _build_fork_choice_request to test_case: a fork_choice vector passes only if all it
\* asks for was run and matched, and is set aside only for something not modelled,
\* whatever its entries, their keys and subkeys are.
THEOREM VectorsRunWhole == ConformanceSpec => []ScriptComplete
<1>1. ScriptPart => ScriptComplete
  BY ScriptMeans DEF ScriptPart, ScriptComplete
<1> QED
  BY <1>1, ScriptPartStarts, ScriptPartStep, PTL DEF ConformanceSpec

-----------------------------------------------------------------------------
(* The vector cache: the theorems of VectorArchiveProofs, for both of its  *)
(* instances.                                                              *)
AtOnce == INSTANCE VectorArchiveProofs WITH
  Workers <- XdistWorkers, Members <- XdistMembers, MaxSessions <- 0,
  MaxFailures <- XdistFailures, MayCrash <- FALSE, None <- NoState

InTurn == INSTANCE VectorArchiveProofs WITH
  Workers <- {SerialWorker}, Members <- SerialMembers, MaxSessions <- LaterSessions,
  MaxFailures <- SerialFailures, MayCrash <- TRUE, None <- NoState

\* The constants are what VectorArchiveProofs wants them to be.
LEMMA CacheSizes == AtOnce!Sizes /\ InTurn!Sizes
  BY CacheAssumption DEF AtOnce!Sizes, InTurn!Sizes, AtOnce!All, InTurn!All

\* The proofs are about the same archive.
LEMMA SameXdist ==
  /\ Xdist!Init <=> AtOnce!Init
  /\ Xdist!Next <=> AtOnce!Next
  /\ Xdist!TypeOK <=> AtOnce!TypeOK
  /\ Xdist!CleanSessionLeavesAll <=> AtOnce!CleanSessionLeavesAll
  /\ Xdist!CompleteForGood <=> AtOnce!CompleteForGood
<1>1. /\ Xdist!All = AtOnce!All /\ Xdist!Full = AtOnce!Full
      /\ Xdist!TestsIsDir <=> AtOnce!TestsIsDir
  BY DEF Xdist!All, AtOnce!All, Xdist!Full, AtOnce!Full, Xdist!TestsIsDir, AtOnce!TestsIsDir
<1>2. /\ Xdist!CleanSessionLeavesAll <=> AtOnce!CleanSessionLeavesAll
      /\ Xdist!CompleteForGood <=> AtOnce!CompleteForGood
  BY DEF Xdist!All, AtOnce!All, Xdist!Full, AtOnce!Full, Xdist!CleanSessionLeavesAll,
     AtOnce!CleanSessionLeavesAll, Xdist!CompleteForGood, AtOnce!CompleteForGood
<1>3. ASSUME NEW w
      PROVE  /\ Xdist!WorkerStep(w) <=> AtOnce!WorkerStep(w)
             /\ Xdist!DownloadFails(w) <=> AtOnce!DownloadFails(w)
  BY <1>1 DEF Xdist!WorkerStep, AtOnce!WorkerStep, Xdist!Check, AtOnce!Check, Xdist!Probe,
     AtOnce!Probe, Xdist!Fetch, AtOnce!Fetch, Xdist!Write, AtOnce!Write, Xdist!Open,
     AtOnce!Open, Xdist!Extract, AtOnce!Extract, Xdist!Fill, AtOnce!Fill, Xdist!DownloadFails,
     AtOnce!DownloadFails, Xdist!Return, AtOnce!Return, Xdist!Goto, AtOnce!Goto
<1>4. Xdist!NewSession <=> AtOnce!NewSession
  BY DEF Xdist!NewSession, AtOnce!NewSession, Xdist!Done, AtOnce!Done
<1> QED
  BY <1>1, <1>2, <1>3, <1>4 DEF Xdist!Init, AtOnce!Init, Xdist!TypeOK, AtOnce!TypeOK,
     Xdist!Next, AtOnce!Next

\* So they are about that of one worker.
LEMMA SameSerial ==
  /\ Serial!Init <=> InTurn!Init
  /\ Serial!Next <=> InTurn!Next
  /\ Serial!TypeOK <=> InTurn!TypeOK
  /\ Serial!CleanSessionLeavesAll <=> InTurn!CleanSessionLeavesAll
  /\ Serial!CompleteForGood <=> InTurn!CompleteForGood
<1>1. /\ Serial!All = InTurn!All /\ Serial!Full = InTurn!Full
      /\ Serial!TestsIsDir <=> InTurn!TestsIsDir
  BY DEF Serial!All, InTurn!All, Serial!Full, InTurn!Full, Serial!TestsIsDir,
     InTurn!TestsIsDir
<1>2. /\ Serial!CleanSessionLeavesAll <=> InTurn!CleanSessionLeavesAll
      /\ Serial!CompleteForGood <=> InTurn!CompleteForGood
  BY DEF Serial!All, InTurn!All, Serial!Full, InTurn!Full, Serial!CleanSessionLeavesAll,
     InTurn!CleanSessionLeavesAll, Serial!CompleteForGood, InTurn!CompleteForGood
<1>3. ASSUME NEW w
      PROVE  /\ Serial!WorkerStep(w) <=> InTurn!WorkerStep(w)
             /\ Serial!DownloadFails(w) <=> InTurn!DownloadFails(w)
  BY <1>1 DEF Serial!WorkerStep, InTurn!WorkerStep, Serial!Check, InTurn!Check, Serial!Probe,
     InTurn!Probe, Serial!Fetch, InTurn!Fetch, Serial!Write, InTurn!Write, Serial!Open,
     InTurn!Open, Serial!Extract, InTurn!Extract, Serial!Fill, InTurn!Fill,
     Serial!DownloadFails, InTurn!DownloadFails, Serial!Return, InTurn!Return, Serial!Goto,
     InTurn!Goto
<1>4. Serial!NewSession <=> InTurn!NewSession
  BY DEF Serial!NewSession, InTurn!NewSession, Serial!Done, InTurn!Done
<1> QED
  BY <1>1, <1>2, <1>3, <1>4 DEF Serial!Init, InTurn!Init, Serial!TypeOK, InTurn!TypeOK,
     Serial!Next, InTurn!Next

\* What keeps the cache right, in either part.
CacheInv ==
  /\ part = "xdist" => AtOnce!CInv
  /\ part = "serial" => InTurn!CInv /\ InTurn!Alone

\* At first the cache is empty.
LEMMA CacheStarts == ConformanceInit => CacheInv
<1>1. Xdist!Init => AtOnce!CInv
  BY CacheSizes, CacheAssumption, SameXdist, AtOnce!CInit
<1>2. Serial!Init => InTurn!CInv
  BY CacheSizes, SameSerial, InTurn!CInit
<1>3. Serial!Init => InTurn!Alone
  BY CacheSizes, SameSerial, InTurn!AloneInit
<1> QED
  BY <1>1, <1>2, <1>3 DEF CacheInv, ConformanceInit

\* Every step keeps it right, and what is complete in the serial cache.
LEMMA CacheStep ==
  ASSUME CacheInv, [ConformanceNext]_<<part, state>>
  PROVE  CacheInv' /\ (part = "serial" => Serial!CompleteForGood)
<1>1. part' = part
  BY DEF ConformanceNext, notCache, notWalk, notScript, notVerdict
<1>2. CASE part = "xdist"
  <2>1. [AtOnce!Next]_(AtOnce!vars)
    BY <1>2, SameXdist DEF ConformanceNext, state, cacheOnly, AtOnce!vars
  <2>2. AtOnce!CInv
    BY <1>2 DEF CacheInv
  <2>3. AtOnce!CInv'
    BY <2>1, <2>2, CacheSizes, AtOnce!CStep
  <2> QED
    BY <1>1, <1>2, <2>3 DEF CacheInv
<1>3. CASE part = "serial"
  <2>1. [InTurn!Next]_(InTurn!vars)
    BY <1>3, SameSerial DEF ConformanceNext, state, cacheOnly, InTurn!vars
  <2>2. InTurn!CInv /\ InTurn!Alone /\ InTurn!TInv
    BY <1>3 DEF CacheInv, InTurn!CInv
  <2>3. InTurn!CInv'
    BY <2>1, <2>2, CacheSizes, InTurn!CStep
  <2>4. InTurn!Alone' /\ InTurn!CompleteForGood
    BY <2>1, <2>2, CacheSizes, InTurn!AloneStep
  <2> QED
    BY <1>1, <1>3, <2>3, <2>4, SameSerial DEF CacheInv
<1> QED
  BY <1>1, <1>2, <1>3 DEF CacheInv

\* From an empty cache, a session none of whose workers reported an error leaves the
\* whole archive, for any number of workers, members and failed downloads.
THEOREM CleanSessionComplete == ConformanceSpec => []CleanSessionLeavesAll
<1>1. CacheInv => CleanSessionLeavesAll
  <2>1. AtOnce!CInv => Xdist!TypeOK /\ Xdist!CleanSessionLeavesAll
    BY CacheSizes, SameXdist, AtOnce!CMeans DEF AtOnce!CInv, AtOnce!TInv
  <2>2. InTurn!CInv => Serial!TypeOK /\ Serial!CleanSessionLeavesAll
    BY CacheSizes, SameSerial, InTurn!CMeans DEF InTurn!CInv, InTurn!TInv
  <2> QED
    BY <2>1, <2>2 DEF CacheInv, CleanSessionLeavesAll
<1> QED
  BY CacheStarts, CacheStep, <1>1, PTL DEF ConformanceSpec

\* Without xdist, what is complete stays so: through failures, through kills at any
\* point, in every later session.
THEOREM CompleteStays == ConformanceSpec => CompleteForGood
<1>1. CacheInv /\ [ConformanceNext]_<<part, state>>
        => CacheInv' /\ (part = "serial" => Serial!CompleteForGood)
  BY CacheStep
<1> QED
  BY CacheStarts, <1>1, PTL DEF ConformanceSpec, CompleteForGood

=============================================================================

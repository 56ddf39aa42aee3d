---------------------------- MODULE ScriptsProofs ----------------------------
(***************************************************************************)
(* Theorems about Scripts.                                                 *)
(*                                                                         *)
(* The releases, for any number of maintainers, commits and crashes: the   *)
(* commits behind a commit form a chain; the mirror takes of a commit the  *)
(* newest of the chain to touch the package; then the invariant of clones, *)
(* published repository, mirror and runs, and that every step keeps it.    *)
(*                                                                         *)
(* The benchmark that is edited under its runs, for any number of runs,    *)
(* edits, faults and repetitions: what a harness prints are rows; what the *)
(* driver knows at each of its places while nothing was edited under it;   *)
(* and that a report so names what was measured.                           *)
(***************************************************************************)
EXTENDS Scripts, InductionLemmas, TLAPS

-----------------------------------------------------------------------------
(* The releases: what lies behind a commit.                                *)

\* A log of commits, each made on one before it.
Log(log) ==
  /\ log \in Seq([parent : Nat, patch : Nat, pkg : BOOLEAN])
  /\ \A i \in 1 .. Len(log) : log[i].parent < i

\* What a log holds at a place.
LEMMA LogAt ==
  ASSUME NEW log, Log(log), NEW d \in 1 .. Len(log)
  PROVE  /\ log[d] \in [parent : Nat, patch : Nat, pkg : BOOLEAN]
         /\ log[d].parent \in Nat /\ log[d].parent < d
         /\ log[d].parent \in 0 .. Len(log)
         /\ log[d].patch \in Nat /\ log[d].pkg \in BOOLEAN
<1> DEFINE R == [parent : Nat, patch : Nat, pkg : BOOLEAN]
<1>1. log[d] \in R
  <2> HIDE DEF R
  <2>1. log \in Seq(R)
    BY DEF Log, R
  <2> QED
    BY <2>1
<1>2. Len(log) \in Nat /\ log[d].parent < d
  BY DEF Log
<1>3. log[d].parent \in Nat
  BY <1>1
<1> QED
  BY <1>1, <1>2, <1>3

\* The recursion equation of Lineage.
LEMMA LineageUnfolds ==
  ASSUME NEW log, Log(log), NEW c \in 0 .. Len(log)
  PROVE  Publish!Lineage(log, c) =
           IF c = 0 THEN {} ELSE {c} \cup Publish!Lineage(log, log[c].parent)
<1> DEFINE D == 0 .. Len(log)
           Z == SUBSET Nat
           rank == [d \in D |-> d]
           base == {0}
           out == [d \in D |-> {}]
           next_ == [d \in D |-> log[d].parent]
           combine == [p \in D \X Z |-> {p[1]} \cup p[2]]
           IsLineage(h) == h = [d \in 0 .. Len(log) |->
                                  IF d = 0 THEN {} ELSE {d} \cup h[log[d].parent]]
<1>1. Len(log) \in Nat /\ rank \in [D -> Nat]
  BY DEF Log
<1>2. \A d \in D \ base : next_[d] \in D /\ rank[next_[d]] < rank[d]
  <2> SUFFICES ASSUME NEW d \in D \ base PROVE next_[d] \in D /\ rank[next_[d]] < rank[d]
    OBVIOUS
  <2>1. d \in 1 .. Len(log)
    BY <1>1
  <2>2. log[d].parent \in Nat /\ log[d].parent < d
    BY <2>1, LogAt
  <2> QED
    BY <1>1, <2>1, <2>2
<1>3. \A d \in D \cap base : out[d] \in Z
  OBVIOUS
<1>4. \A d \in D, z \in Z : combine[<<d, z>>] \in Z
  BY <1>1
<1>5. PICK f \in [D -> Z] : Unfolds(f, D, base, out, next_, combine)
  <2> HIDE DEF D, Z, rank, base, out, next_, combine
  <2> QED
    BY <1>1, <1>2, <1>3, <1>4, RecursionExists
<1>6. IsLineage(f)
  <2> DEFINE body == [d \in 0 .. Len(log) |->
                        IF d = 0 THEN {} ELSE {d} \cup f[log[d].parent]]
  <2>1. ASSUME NEW d \in D PROVE f[d] = body[d]
    <3>1. f[d] = IF d \in base THEN out[d] ELSE combine[<<d, f[next_[d]]>>]
      BY <1>5 DEF Unfolds
    <3>2. d \notin base => combine[<<d, f[next_[d]]>>] = {d} \cup f[log[d].parent]
      BY <1>2, <1>5
    <3> QED
      BY <3>1, <3>2
  <2> QED
    BY <2>1, <1>5
<1>7. PICK h : IsLineage(h) /\ \A d : Publish!Lineage(log, d) = h[d]
  <2> DEFINE h == CHOOSE g : IsLineage(g)
  <2>1. IsLineage(h)
    BY <1>6
  <2>2. \A d : Publish!Lineage(log, d) = h[d]
    BY DEF Publish!Lineage
  <2> QED
    BY <2>1, <2>2
<1>8. h[c] = IF c = 0 THEN {} ELSE {c} \cup h[log[c].parent]
  BY <1>7
<1> QED
  BY <1>7, <1>8

\* Induction along a log: from each commit's parent to the commit.
LEMMA LogInduction ==
  ASSUME NEW log, Log(log), NEW S \in SUBSET (0 .. Len(log)), 0 \in S,
         \A d \in 1 .. Len(log) : log[d].parent \in S => d \in S
  PROVE  S = 0 .. Len(log)
<1> DEFINE D == 0 .. Len(log)
           rank == [d \in D |-> d]
<1>1. Len(log) \in Nat /\ rank \in [D -> Nat]
  BY DEF Log
<1>2. ASSUME NEW d \in D, \A e \in D : rank[e] < rank[d] => e \in S
      PROVE  d \in S
  <2>1. CASE d = 0
    BY <2>1
  <2>2. CASE d # 0
    <3>1. d \in 1 .. Len(log)
      BY <1>1, <2>2
    <3>2. log[d].parent \in D /\ log[d].parent < d
      BY <3>1, LogAt
    <3> QED
      BY <1>1, <1>2, <3>1, <3>2
  <2> QED
    BY <2>1, <2>2
<1> DEFINE T == S
<1>3. T = D
  <2> HIDE DEF D, rank, T
  <2>1. ASSUME NEW d \in D, \A e \in D : rank[e] < rank[d] => e \in T
        PROVE  d \in T
    BY <1>2, <2>1 DEF T
  <2>2. T \in SUBSET D
    BY DEF D, T
  <2> QED
    BY <1>1, <2>1, <2>2, RankInduction
<1> QED
  BY <1>3

\* A commit is behind itself, and what is behind it is older.
LEMMA LineageOlder ==
  ASSUME NEW log, Log(log), NEW c \in 0 .. Len(log)
  PROVE  /\ Publish!Lineage(log, c) \subseteq 1 .. c
         /\ c # 0 => c \in Publish!Lineage(log, c)
<1> DEFINE S == {d \in 0 .. Len(log) : Publish!Lineage(log, d) \subseteq 1 .. d}
<1>1. Len(log) \in Nat
  BY DEF Log
<1>2. 0 \in S
  BY <1>1, LineageUnfolds
<1>3. ASSUME NEW d \in 1 .. Len(log), log[d].parent \in S
      PROVE  d \in S
  <2>1. d \in 0 .. Len(log) /\ d # 0 /\ d \in Nat
    BY <1>1
  <2>2. Publish!Lineage(log, d) = {d} \cup Publish!Lineage(log, log[d].parent)
    BY <2>1, LineageUnfolds
  <2>3. log[d].parent \in Nat /\ log[d].parent < d
    BY LogAt
  <2>4. 1 .. log[d].parent \subseteq 1 .. d
    BY <2>1, <2>3
  <2> QED
    BY <1>3, <2>1, <2>2, <2>4
<1>4. S = 0 .. Len(log)
  <2> HIDE DEF S
  <2>1. S \in SUBSET (0 .. Len(log))
    BY DEF S
  <2> QED
    BY <1>2, <1>3, <2>1, LogInduction
<1>5. c # 0 => c \in Publish!Lineage(log, c)
  BY LineageUnfolds
<1> QED
  BY <1>4, <1>5

\* A new commit changes nothing behind the others.
LEMMA LineageGrows ==
  ASSUME NEW log, Log(log), NEW r \in [parent : Nat, patch : Nat, pkg : BOOLEAN],
         Log(Append(log, r)), NEW c \in 0 .. Len(log)
  PROVE  Publish!Lineage(Append(log, r), c) = Publish!Lineage(log, c)
<1> DEFINE more == Append(log, r)
           S == {d \in 0 .. Len(log) : Publish!Lineage(more, d) = Publish!Lineage(log, d)}
<1>1. /\ Len(log) \in Nat /\ Len(more) = Len(log) + 1
      /\ \A d \in 1 .. Len(log) : more[d] = log[d]
  <2> DEFINE R == [parent : Nat, patch : Nat, pkg : BOOLEAN]
  <2> HIDE DEF R
  <2>1. log \in Seq(R) /\ r \in R
    BY DEF Log, R
  <2> QED
    BY <2>1
<1>2. 0 \in S
  <2>1. 0 \in 0 .. Len(log) /\ 0 \in 0 .. Len(more)
    BY <1>1
  <2>2. Publish!Lineage(log, 0) = {}
    BY <2>1, LineageUnfolds
  <2>3. Publish!Lineage(more, 0) = {}
    <3> HIDE DEF more
    <3> QED
      BY <2>1, LineageUnfolds DEF more
  <2> QED
    BY <2>1, <2>2, <2>3
<1>3. ASSUME NEW d \in 1 .. Len(log), log[d].parent \in S
      PROVE  d \in S
  <2>1. d \in 0 .. Len(log) /\ d \in 0 .. Len(more) /\ d # 0
    BY <1>1
  <2>2. Publish!Lineage(log, d) = {d} \cup Publish!Lineage(log, log[d].parent)
    BY <2>1, LineageUnfolds
  <2>3. Publish!Lineage(more, d) = {d} \cup Publish!Lineage(more, more[d].parent)
    <3>1. Log(more)
      OBVIOUS
    <3> HIDE DEF more
    <3> QED
      BY <2>1, <3>1, LineageUnfolds
  <2>4. Publish!Lineage(more, log[d].parent) = Publish!Lineage(log, log[d].parent)
    BY <1>3
  <2>5. more[d] = log[d]
    BY <1>1
  <2>6. Publish!Lineage(more, d) = Publish!Lineage(log, d)
    <3> HIDE DEF more
    <3> QED
      BY <2>2, <2>3, <2>4, <2>5
  <2> QED
    BY <2>1, <2>6
<1>4. S = 0 .. Len(log)
  <2> HIDE DEF S
  <2>1. S \in SUBSET (0 .. Len(log))
    BY DEF S
  <2> QED
    BY <1>2, <1>3, <2>1, LogInduction
<1> QED
  BY <1>4

\* What is behind a commit behind another is behind that one.
LEMMA LineageBehind ==
  ASSUME NEW log, Log(log), NEW c \in 0 .. Len(log), NEW d \in Publish!Lineage(log, c)
  PROVE  /\ d \in 1 .. Len(log)
         /\ Publish!Lineage(log, d) \subseteq Publish!Lineage(log, c)
<1> DEFINE S == {e \in 0 .. Len(log) : \A a \in Publish!Lineage(log, e) :
                   Publish!Lineage(log, a) \subseteq Publish!Lineage(log, e)}
<1>1. Len(log) \in Nat
  BY DEF Log
<1>2. 0 \in S
  BY <1>1, LineageUnfolds
<1>3. ASSUME NEW e \in 1 .. Len(log), log[e].parent \in S
      PROVE  e \in S
  <2>1. e \in 0 .. Len(log) /\ e # 0
    BY <1>1
  <2>2. Publish!Lineage(log, e) = {e} \cup Publish!Lineage(log, log[e].parent)
    BY <2>1, LineageUnfolds
  <2>3. \A a \in Publish!Lineage(log, log[e].parent) :
          Publish!Lineage(log, a) \subseteq Publish!Lineage(log, log[e].parent)
    BY <1>3
  <2> QED
    BY <2>1, <2>2, <2>3
<1>4. S = 0 .. Len(log)
  <2> HIDE DEF S
  <2>1. S \in SUBSET (0 .. Len(log))
    BY DEF S
  <2> QED
    BY <1>2, <1>3, <2>1, LogInduction
<1>5. d \in 1 .. Len(log)
  BY <1>1, LineageOlder
<1> QED
  BY <1>4, <1>5

\* The commits behind one commit form a chain.
LEMMA LineageChain ==
  ASSUME NEW log, Log(log), NEW c \in 0 .. Len(log),
         NEW a \in Publish!Lineage(log, c), NEW b \in Publish!Lineage(log, c), a <= b
  PROVE  a \in Publish!Lineage(log, b)
<1> DEFINE S == {e \in 0 .. Len(log) :
                   \A x, y \in Publish!Lineage(log, e) :
                     x <= y => x \in Publish!Lineage(log, y)}
<1>1. Len(log) \in Nat
  BY DEF Log
<1>2. 0 \in S
  BY <1>1, LineageUnfolds
<1>3. ASSUME NEW e \in 1 .. Len(log), log[e].parent \in S
      PROVE  e \in S
  <2> DEFINE p == log[e].parent
  <2>1. e \in 0 .. Len(log) /\ e # 0 /\ e \in Nat
    BY <1>1
  <2>2. Publish!Lineage(log, e) = {e} \cup Publish!Lineage(log, p)
    BY <2>1, LineageUnfolds
  <2>3. p \in 0 .. Len(log) /\ p < e
    BY LogAt
  <2>4. Publish!Lineage(log, p) \subseteq 1 .. p
    BY <2>3, LineageOlder
  <2>5. ASSUME NEW x \in Publish!Lineage(log, e), NEW y \in Publish!Lineage(log, e), x <= y
        PROVE  x \in Publish!Lineage(log, y)
    <3>1. CASE y = e
      BY <3>1
    <3>2. CASE y # e
      <4>1. y \in Publish!Lineage(log, p) /\ y \in 1 .. p
        BY <2>2, <2>4, <3>2
      <4>2. x # e
        BY <2>1, <2>3, <2>5, <4>1
      <4>3. x \in Publish!Lineage(log, p)
        BY <2>2, <4>2
      <4> QED
        BY <1>3, <2>5, <4>1, <4>3
    <3> QED
      BY <3>1, <3>2
  <2> QED
    BY <2>1, <2>5
<1>4. S = 0 .. Len(log)
  <2> HIDE DEF S
  <2>1. S \in SUBSET (0 .. Len(log))
    BY DEF S
  <2> QED
    BY <1>2, <1>3, <2>1, LogInduction
<1> QED
  BY <1>4

\* The first commit is behind them all.
LEMMA FirstBehind ==
  ASSUME NEW log, Log(log), NEW c \in 1 .. Len(log),
         \A i \in 2 .. Len(log) : log[i].parent # 0
  PROVE  1 \in Publish!Lineage(log, c)
<1> DEFINE S == {e \in 0 .. Len(log) : e # 0 => 1 \in Publish!Lineage(log, e)}
<1>1. Len(log) \in Nat
  BY DEF Log
<1>2. 0 \in S
  BY <1>1
<1>3. ASSUME NEW e \in 1 .. Len(log), log[e].parent \in S
      PROVE  e \in S
  <2>1. e \in 0 .. Len(log) /\ e # 0 /\ e \in Nat
    BY <1>1
  <2>2. Publish!Lineage(log, e) = {e} \cup Publish!Lineage(log, log[e].parent)
    BY <2>1, LineageUnfolds
  <2>3. CASE e = 1
    BY <2>1, <2>2, <2>3
  <2>4. CASE e # 1
    <3>1. e \in 2 .. Len(log)
      BY <1>1, <2>4
    <3> QED
      BY <1>3, <2>1, <2>2, <3>1
  <2> QED
    BY <2>3, <2>4
<1>4. S = 0 .. Len(log)
  <2> HIDE DEF S
  <2>1. S \in SUBSET (0 .. Len(log))
    BY DEF S
  <2> QED
    BY <1>2, <1>3, <2>1, LogInduction
<1>5. c \in 0 .. Len(log) /\ c # 0
  BY <1>1
<1> QED
  BY <1>4, <1>5

-----------------------------------------------------------------------------
(* The releases: what the mirror takes of a commit.                        *)

\* Every commit but the first, which holds the package, has a parent and raises the
\* patch by one or not at all.
Commits(log) ==
  /\ Log(log) /\ Len(log) >= 1
  /\ log[1].parent = 0 /\ log[1].pkg
  /\ \A i \in 2 .. Len(log) :
       log[i].parent # 0 /\ log[i].patch - log[log[i].parent].patch \in {0, 1}

\* Split for any log.
Touching(log, c) == {d \in Publish!Lineage(log, c) : log[d].pkg}
Tip(log, c) == CHOOSE d \in Touching(log, c) : \A e \in Touching(log, c) : e <= d

\* A bounded set of numbers has a greatest.
LEMMA GreatestNumber ==
  ASSUME NEW n \in Nat, NEW S \in SUBSET (0 .. n), S # {}
  PROVE  \E top \in S : \A m \in S : m <= top
<1> DEFINE U == {n - m : m \in S}
<1>1. U \in SUBSET Nat /\ U # {}
  <2>1. \A m \in S : n - m \in Nat
    OBVIOUS
  <2> QED
    BY <2>1
<1>2. PICK least \in U : \A u \in U : least <= u
  <2> HIDE DEF U
  <2> QED
    BY <1>1, LeastNumber
<1>3. PICK top \in S : least = n - top
  BY <1>2
<1>4. \A m \in S : n - top <= n - m
  BY <1>2, <1>3
<1> QED
  BY <1>4

\* The tip is the newest commit of the lineage to touch the package.
LEMMA TipNewest ==
  ASSUME NEW log, Commits(log), NEW c \in 1 .. Len(log)
  PROVE  /\ Tip(log, c) \in Publish!Lineage(log, c)
         /\ Tip(log, c) \in 1 .. Len(log)
         /\ log[Tip(log, c)].pkg
         /\ \A d \in Publish!Lineage(log, c) : log[d].pkg => d <= Tip(log, c)
<1> DEFINE S == Touching(log, c)
<1>1. Len(log) \in Nat /\ c \in 0 .. Len(log) /\ Log(log)
  BY DEF Commits, Log
<1>2. Publish!Lineage(log, c) \subseteq 1 .. c
  BY <1>1, LineageOlder
<1>3. S \subseteq 0 .. Len(log) /\ S \subseteq 1 .. Len(log)
  BY <1>1, <1>2 DEF Touching
<1>4. 1 \in S
  BY <1>1, FirstBehind DEF Touching, Commits
<1>5. \E top \in S : \A m \in S : m <= top
  <2> HIDE DEF S
  <2> QED
    BY <1>1, <1>3, <1>4, GreatestNumber
<1>6. Tip(log, c) \in S /\ \A e \in S : e <= Tip(log, c)
  BY <1>5 DEF Tip
<1> QED
  BY <1>3, <1>6 DEF Touching

\* The tips of two commits, one behind the other, are one behind the other.
LEMMA TipsFollow ==
  ASSUME NEW log, Commits(log), NEW c \in 1 .. Len(log), NEW d \in Publish!Lineage(log, c)
  PROVE  Tip(log, d) \in Publish!Lineage(log, Tip(log, c))
<1>1. Len(log) \in Nat /\ c \in 0 .. Len(log) /\ Log(log)
  BY DEF Commits, Log
<1>2. d \in 1 .. Len(log) /\ Publish!Lineage(log, d) \subseteq Publish!Lineage(log, c)
  BY <1>1, LineageBehind
<1>3. Tip(log, d) \in Publish!Lineage(log, d) /\ log[Tip(log, d)].pkg
  BY <1>2, TipNewest
<1>4. Tip(log, c) \in Publish!Lineage(log, c) /\ Tip(log, d) <= Tip(log, c)
  BY <1>2, <1>3, TipNewest
<1> QED
  BY <1>1, <1>2, <1>3, <1>4, LineageChain

\* The tip of a commit is behind the commit.
LEMMA BehindTip ==
  ASSUME NEW log, Commits(log), NEW c \in 1 .. Len(log), NEW d \in Publish!Lineage(log, c),
         NEW e \in Publish!Lineage(log, Tip(log, d))
  PROVE  e \in Publish!Lineage(log, Tip(log, c))
<1>1. Len(log) \in Nat /\ Log(log)
  BY DEF Commits, Log
<1>2. Tip(log, d) \in Publish!Lineage(log, Tip(log, c))
  BY TipsFollow
<1>3. Tip(log, c) \in 1 .. Len(log)
  BY TipNewest
<1>4. Tip(log, c) \in 0 .. Len(log)
  BY <1>1, <1>3
<1> QED
  BY <1>1, <1>2, <1>4, LineageBehind

\* A commit made on another, with its patch or the next one.
LEMMA CommitsGrow ==
  ASSUME NEW log, Commits(log), NEW r \in [parent : Nat, patch : Nat, pkg : BOOLEAN],
         r.parent \in 1 .. Len(log), r.patch - log[r.parent].patch \in {0, 1}
  PROVE  /\ Commits(Append(log, r))
         /\ Len(Append(log, r)) = Len(log) + 1
         /\ \A i \in 1 .. Len(log) : Append(log, r)[i] = log[i]
         /\ Append(log, r)[Len(log) + 1] = r
<1> DEFINE R == [parent : Nat, patch : Nat, pkg : BOOLEAN]
           more == Append(log, r)
<1>1. log \in Seq(R) /\ Len(log) \in Nat /\ r \in R /\ Len(log) >= 1
  BY DEF Commits, Log
<1>2. /\ more \in Seq(R) /\ Len(more) = Len(log) + 1
      /\ \A i \in 1 .. Len(log) : more[i] = log[i]
      /\ more[Len(log) + 1] = r
  <2> HIDE DEF R
  <2> QED
    BY <1>1
<1>3. \A i \in 1 .. Len(log) : log[i].parent \in Nat /\ log[i].parent < i
  BY LogAt DEF Commits
<1>4. ASSUME NEW i \in 1 .. Len(more) PROVE more[i].parent < i
  <2>1. CASE i \in 1 .. Len(log)
    BY <1>2, <1>3, <2>1
  <2>2. CASE i = Len(log) + 1
    BY <1>1, <1>2, <2>2
  <2> QED
    BY <1>1, <1>2, <2>1, <2>2
<1>5. Log(more)
  BY <1>2, <1>4 DEF Log
<1>6. ASSUME NEW i \in 2 .. Len(more)
      PROVE  more[i].parent # 0 /\ more[i].patch - more[more[i].parent].patch \in {0, 1}
  <2>1. CASE i \in 2 .. Len(log)
    <3>1. i \in 1 .. Len(log) /\ more[i] = log[i]
      BY <1>1, <1>2, <2>1
    <3>2. log[i].parent # 0 /\ log[i].patch - log[log[i].parent].patch \in {0, 1}
      BY <2>1 DEF Commits
    <3>3. log[i].parent \in 1 .. Len(log)
      <4>1. log[i].parent \in Nat /\ log[i].parent < i /\ log[i].parent # 0
        BY <1>3, <3>1, <3>2
      <4>2. i \in Nat /\ i <= Len(log) /\ Len(log) \in Nat
        BY <1>1, <2>1
      <4> HIDE DEF more, R
      <4>3. \A p, j, n \in Nat : p < j /\ p # 0 /\ j <= n => p \in 1 .. n
        OBVIOUS
      <4> QED
        BY <4>1, <4>2, <4>3
    <3>4. more[log[i].parent] = log[log[i].parent]
      BY <1>2, <3>3
    <3> QED
      BY <3>1, <3>2, <3>4
  <2>2. CASE i = Len(log) + 1
    <3>1. more[i] = r /\ more[r.parent] = log[r.parent] /\ r.parent # 0
      BY <1>2, <2>2
    <3> QED
      BY <3>1
  <2>3. i \in 2 .. Len(log) \/ i = Len(log) + 1
    <3>1. i \in 2 .. Len(log) + 1
      BY <1>2
    <3> QED
      BY <1>1, <3>1
  <2> QED
    BY <2>1, <2>2, <2>3
<1>7. more[1].parent = 0 /\ more[1].pkg
  BY <1>1, <1>2 DEF Commits
<1>8. Commits(more)
  <2> HIDE DEF more
  <2> QED
    BY <1>1, <1>2, <1>5, <1>6, <1>7 DEF Commits
<1> QED
  BY <1>2, <1>8

\* A new commit changes no tip of the others.
LEMMA TipStays ==
  ASSUME NEW log, Commits(log), NEW r \in [parent : Nat, patch : Nat, pkg : BOOLEAN],
         r.parent \in 1 .. Len(log), r.patch - log[r.parent].patch \in {0, 1},
         NEW c \in 1 .. Len(log)
  PROVE  /\ Publish!Lineage(Append(log, r), c) = Publish!Lineage(log, c)
         /\ Tip(Append(log, r), c) = Tip(log, c)
<1>1. Len(log) \in Nat /\ c \in 0 .. Len(log) /\ Log(log)
  BY DEF Commits, Log
<1>2. Log(Append(log, r)) /\ \A i \in 1 .. Len(log) : Append(log, r)[i] = log[i]
  BY CommitsGrow DEF Commits
<1>3. Publish!Lineage(Append(log, r), c) = Publish!Lineage(log, c)
  BY <1>1, <1>2, LineageGrows
<1>4. Publish!Lineage(log, c) \subseteq 1 .. Len(log)
  BY <1>1, LineageOlder
<1>5. Touching(Append(log, r), c) = Touching(log, c)
  BY <1>2, <1>3, <1>4 DEF Touching
<1> QED
  BY <1>3, <1>5 DEF Tip

-----------------------------------------------------------------------------
(* The releases: what the script and the pushes keep.                      *)

\* The tags of a repository: commits by version.
TagMaps == UNION {[S -> Nat] : S \in SUBSET Nat}
Steps == {"idle", "fetch", "lsremote", "write", "commit", "tag"}
Clones == [pc : Steps, head : Nat, lakefile : Nat, next : Nat, tags : TagMaps]
Repositories == [main : Nat, tags : TagMaps]
Runs == [kind : {"none", "main", "tag"}, tag : Nat, commit : Nat]

\* Commit c introduced version t.
Released(log, t, c) ==
  /\ c \in 1 .. Len(log)
  /\ log[c].parent # 0
  /\ log[c].patch = t
  /\ log[log[c].parent].patch = t - 1

\* Of a clone: its tags are right, and while the script runs, it is about to tag the
\* commit that raises the version of its head by one.
CloneOk(log, k) ==
  /\ k \in Clones
  /\ k.head \in 1 .. Len(log)
  /\ \A t \in DOMAIN k.tags : Released(log, t, k.tags[t])
  /\ k.pc \in {"fetch", "lsremote", "write"} =>
       k.lakefile = log[k.head].patch /\ k.next = k.lakefile + 1
  /\ k.pc = "commit" => k.lakefile = k.next /\ k.next = log[k.head].patch + 1
  /\ k.pc = "tag" => Released(log, k.next, k.head)

\* Of the published repository: its tags are right and on main.
OriginOk(log, o) ==
  /\ o \in Repositories
  /\ o.main \in 1 .. Len(log)
  /\ \A t \in DOMAIN o.tags :
       Released(log, t, o.tags[t]) /\ o.tags[t] \in Publish!Lineage(log, o.main)

\* A run of the workflow is for a commit on main, or for a tag and its commit.
RunOk(log, o, r) ==
  /\ r \in Runs
  /\ r.kind = "none" => r = Publish!None
  /\ r.kind # "none" => r.commit \in Publish!Lineage(log, o.main)
  /\ r.kind = "tag" => r.tag \in DOMAIN o.tags /\ r.commit = o.tags[r.tag]

\* Of the mirror: its tags are the tips of the published ones, its main is behind the
\* tip of the published main and those of the runs to come, and these come in order.
MirrorOk(log, o, d, g, w) ==
  /\ d \in Repositories
  /\ d.main \in 1 .. Len(log)
  /\ d.main \in Publish!Lineage(log, Tip(log, o.main))
  /\ \A t \in DOMAIN d.tags : t \in DOMAIN o.tags /\ d.tags[t] = Tip(log, o.tags[t])
  /\ RunOk(log, o, g) /\ RunOk(log, o, w)
  /\ w # Publish!None => g # Publish!None
  /\ g.kind = "main" => d.main \in Publish!Lineage(log, Tip(log, g.commit))
  /\ w.kind = "main" => d.main \in Publish!Lineage(log, Tip(log, w.commit))
  /\ g.kind = "main" /\ w.kind = "main" => g.commit \in Publish!Lineage(log, w.commit)

ReleaseInv ==
  /\ Commits(commits)
  /\ clone = [m \in Maintainers |-> clone[m]]
  /\ \A m \in Maintainers : CloneOk(commits, clone[m])
  /\ OriginOk(commits, origin)
  /\ MirrorOk(commits, origin, downstream, going, waiting)
  /\ crashes \in 0 .. MaxCrashes /\ MaxCrashes \in Nat

\* What a map of tags is.
LEMMA TagMapsAre ==
  ASSUME NEW f
  PROVE  /\ f \in TagMaps => DOMAIN f \in SUBSET Nat /\ f \in [DOMAIN f -> Nat]
         /\ \A S \in SUBSET Nat : f \in [S -> Nat] => f \in TagMaps
BY DEF TagMaps

\* Without tags.
LEMMA NoTags == <<>> \in TagMaps /\ DOMAIN <<>> = {}
<1>1. DOMAIN <<>> = {}
  OBVIOUS
<1>2. <<>> = [t \in {} |-> 0]
  OBVIOUS
<1>3. [t \in {} |-> 0] \in [{} -> Nat]
  OBVIOUS
<1> QED
  BY <1>1, <1>2, <1>3, TagMapsAre

OneMore(new, tags, t, c) ==
  /\ new \in TagMaps
  /\ DOMAIN new = DOMAIN tags \cup {t}
  /\ \A u \in DOMAIN tags \cup {t} : new[u] = IF u = t THEN c ELSE tags[u]

\* One tag more.
LEMMA TaggedIs ==
  ASSUME NEW tags \in TagMaps, NEW t \in Nat, NEW c \in Nat
  PROVE  OneMore(Publish!Tagged(tags, t, c), tags, t, c)
<1>1. DOMAIN tags \in SUBSET Nat /\ tags \in [DOMAIN tags -> Nat]
  BY TagMapsAre
<1>2. Publish!Tagged(tags, t, c) \in [DOMAIN tags \cup {t} -> Nat]
  BY <1>1 DEF Publish!Tagged
<1>3. DOMAIN tags \cup {t} \in SUBSET Nat
  BY <1>1
<1> QED
  BY <1>2, <1>3, TagMapsAre DEF OneMore, Publish!Tagged

\* The tags of two repositories.
LEMMA MergeIs ==
  ASSUME NEW tags \in TagMaps, NEW more \in TagMaps
  PROVE  /\ Publish!Merge(tags, more) \in TagMaps
         /\ DOMAIN Publish!Merge(tags, more) = DOMAIN tags \cup DOMAIN more
         /\ \A u \in DOMAIN tags \cup DOMAIN more :
              Publish!Merge(tags, more)[u] = IF u \in DOMAIN tags THEN tags[u] ELSE more[u]
<1>1. /\ DOMAIN tags \in SUBSET Nat /\ tags \in [DOMAIN tags -> Nat]
      /\ DOMAIN more \in SUBSET Nat /\ more \in [DOMAIN more -> Nat]
  BY TagMapsAre
<1>2. Publish!Merge(tags, more) \in [DOMAIN tags \cup DOMAIN more -> Nat]
  BY <1>1 DEF Publish!Merge
<1>3. DOMAIN tags \cup DOMAIN more \in SUBSET Nat
  BY <1>1
<1> QED
  BY <1>2, <1>3, TagMapsAre DEF Publish!Merge

\* A new commit keeps every clone, the published repository and the mirror right.
LEMMA GrowKeeps ==
  ASSUME NEW log, Commits(log), NEW r \in [parent : Nat, patch : Nat, pkg : BOOLEAN],
         r.parent \in 1 .. Len(log), r.patch - log[r.parent].patch \in {0, 1}
  PROVE  /\ \A t, c : Released(log, t, c) => Released(Append(log, r), t, c)
         /\ \A k : CloneOk(log, k) => CloneOk(Append(log, r), k)
         /\ \A o : OriginOk(log, o) => OriginOk(Append(log, r), o)
         /\ \A o, d, g, w : OriginOk(log, o) /\ MirrorOk(log, o, d, g, w)
                              => MirrorOk(Append(log, r), o, d, g, w)
<1> DEFINE more == Append(log, r)
<1>1. /\ Commits(more) /\ Len(more) = Len(log) + 1
      /\ \A i \in 1 .. Len(log) : more[i] = log[i]
  BY CommitsGrow
<1>2. Len(log) \in Nat /\ 1 .. Len(log) \subseteq 1 .. Len(more)
  BY <1>1 DEF Commits, Log
<1>3. \A c \in 1 .. Len(log) : /\ Publish!Lineage(more, c) = Publish!Lineage(log, c)
                               /\ Tip(more, c) = Tip(log, c)
  BY TipStays
<1>4. \A c \in 1 .. Len(log) : /\ Tip(log, c) \in 1 .. Len(log)
                               /\ Publish!Lineage(log, c) \subseteq 1 .. Len(log)
  <2> TAKE c \in 1 .. Len(log)
  <2>1. c \in 0 .. Len(log) /\ Log(log)
    BY <1>2 DEF Commits
  <2>2. Publish!Lineage(log, c) \subseteq 1 .. c
    BY <2>1, LineageOlder
  <2>3. 1 .. c \subseteq 1 .. Len(log)
    BY <1>2
  <2> QED
    BY <2>2, <2>3, TipNewest
<1> HIDE DEF more
<1>5. ASSUME NEW t, NEW c, Released(log, t, c) PROVE Released(more, t, c)
  <2>1. c \in 1 .. Len(log) /\ log[c].parent # 0
    BY <1>5 DEF Released
  <2>2. log[c].parent \in 0 .. Len(log)
    BY <2>1, LogAt DEF Commits
  <2>3. log[c].parent \in 1 .. Len(log)
    BY <1>2, <2>1, <2>2
  <2> QED
    BY <1>1, <1>2, <1>5, <2>1, <2>3 DEF Released
<1>6. ASSUME NEW k, CloneOk(log, k) PROVE CloneOk(more, k)
  BY <1>1, <1>2, <1>5, <1>6 DEF CloneOk
<1>7. ASSUME NEW o, OriginOk(log, o) PROVE OriginOk(more, o)
  BY <1>2, <1>3, <1>5, <1>7 DEF OriginOk
<1>8. ASSUME NEW o, NEW d, NEW g, NEW w, OriginOk(log, o), MirrorOk(log, o, d, g, w)
      PROVE  MirrorOk(more, o, d, g, w)
  <2>1. o.main \in 1 .. Len(log) /\ d.main \in 1 .. Len(log)
    BY <1>8 DEF OriginOk, MirrorOk
  <2>2. /\ Publish!Lineage(more, o.main) = Publish!Lineage(log, o.main)
        /\ Tip(more, o.main) = Tip(log, o.main)
        /\ Publish!Lineage(more, Tip(log, o.main)) = Publish!Lineage(log, Tip(log, o.main))
        /\ Publish!Lineage(log, o.main) \subseteq 1 .. Len(log)
    BY <1>3, <1>4, <2>1
  <2>3. \A t \in DOMAIN o.tags : o.tags[t] \in 1 .. Len(log)
    BY <1>8 DEF OriginOk, Released
  <2>4. \A t \in DOMAIN d.tags : t \in DOMAIN o.tags /\ d.tags[t] = Tip(more, o.tags[t])
    BY <1>3, <1>8, <2>3 DEF MirrorOk
  <2>5. ASSUME NEW x, RunOk(log, o, x)
        PROVE  /\ RunOk(more, o, x)
               /\ x.kind = "main" =>
                    /\ x.commit \in 1 .. Len(log)
                    /\ Publish!Lineage(more, x.commit) = Publish!Lineage(log, x.commit)
                    /\ Publish!Lineage(more, Tip(more, x.commit))
                         = Publish!Lineage(log, Tip(log, x.commit))
    <3>1. RunOk(more, o, x)
      BY <2>2, <2>5 DEF RunOk
    <3>2. ASSUME x.kind = "main"
          PROVE  /\ x.commit \in 1 .. Len(log)
                 /\ Publish!Lineage(more, x.commit) = Publish!Lineage(log, x.commit)
                 /\ Publish!Lineage(more, Tip(more, x.commit))
                      = Publish!Lineage(log, Tip(log, x.commit))
      <4>1. x.commit \in 1 .. Len(log)
        BY <2>2, <2>5, <3>2 DEF RunOk
      <4> QED
        BY <1>3, <1>4, <4>1
    <3> QED
      BY <3>1, <3>2
  <2>6. RunOk(log, o, g) /\ RunOk(log, o, w)
    BY <1>8 DEF MirrorOk
  <2> QED
    BY <1>2, <1>8, <2>1, <2>2, <2>4, <2>5, <2>6 DEF MirrorOk
<1> QED
  BY <1>5, <1>6, <1>7, <1>8 DEF more

\* What a run waits for: MainRun and TagRun on a published main.
LEMMA RunsMade ==
  ASSUME NEW log, NEW o, NEW c \in Nat
  PROVE  /\ c \in Publish!Lineage(log, o.main) => RunOk(log, o, Publish!MainRun(c))
         /\ \A t \in Nat :
              c \in Publish!Lineage(log, o.main) /\ t \in DOMAIN o.tags /\ c = o.tags[t]
                => RunOk(log, o, Publish!TagRun(t, c))
         /\ RunOk(log, o, Publish!None)
         /\ Publish!MainRun(c).kind = "main" /\ Publish!MainRun(c).commit = c
         /\ \A t : Publish!TagRun(t, c).kind = "tag"
         /\ Publish!None.kind = "none"
<1>1. /\ Publish!MainRun(c) \in Runs /\ Publish!None \in Runs
      /\ Publish!MainRun(c).kind = "main" /\ Publish!MainRun(c).commit = c
      /\ Publish!None.kind = "none"
  BY DEF Runs, Publish!MainRun, Publish!None
<1>2. \A t : /\ Publish!TagRun(t, c).kind = "tag" /\ Publish!TagRun(t, c).commit = c
             /\ Publish!TagRun(t, c).tag = t
  BY DEF Publish!TagRun
<1>3. \A t \in Nat : Publish!TagRun(t, c) \in Runs
  BY DEF Runs, Publish!TagRun
<1>4. c \in Publish!Lineage(log, o.main) => RunOk(log, o, Publish!MainRun(c))
  <2> DEFINE r == Publish!MainRun(c)
  <2>1. r \in Runs /\ r.kind = "main" /\ r.commit = c
    BY <1>1
  <2>2. c \in Publish!Lineage(log, o.main) => RunOk(log, o, r)
    <3> HIDE DEF r
    <3> QED
      BY <2>1 DEF RunOk
  <2> QED
    BY <2>2
<1>5. ASSUME NEW t \in Nat, c \in Publish!Lineage(log, o.main), t \in DOMAIN o.tags,
             c = o.tags[t]
      PROVE  RunOk(log, o, Publish!TagRun(t, c))
  <2> DEFINE r == Publish!TagRun(t, c)
  <2>1. r \in Runs /\ r.kind = "tag" /\ r.commit = c /\ r.tag = t
    BY <1>2, <1>3
  <2>2. RunOk(log, o, r)
    <3> HIDE DEF r
    <3> QED
      BY <1>5, <2>1 DEF RunOk
  <2> QED
    BY <2>2
<1>6. RunOk(log, o, Publish!None)
  BY <1>1 DEF RunOk
<1>7. \A t \in Nat :
        c \in Publish!Lineage(log, o.main) /\ t \in DOMAIN o.tags /\ c = o.tags[t]
          => RunOk(log, o, Publish!TagRun(t, c))
  BY <1>5
<1>8. \A t : Publish!TagRun(t, c).kind = "tag"
  BY <1>2
<1> QED
  BY <1>1, <1>4, <1>6, <1>7, <1>8

\* A pushed main has the old one behind it: the published tags stay on main, the
\* mirror and the runs behind it.
LEMMA PushMainKeeps ==
  ASSUME NEW log, Commits(log), NEW o, NEW d, NEW g, NEW w, NEW h, NEW g2, NEW w2,
         OriginOk(log, o), MirrorOk(log, o, d, g, w),
         h \in 1 .. Len(log), o.main \in Publish!Lineage(log, h),
         IF g = Publish!None THEN g2 = Publish!MainRun(h) /\ w2 = w
                             ELSE w2 = Publish!MainRun(h) /\ g2 = g
  PROVE  /\ OriginOk(log, [o EXCEPT !.main = h])
         /\ MirrorOk(log, [o EXCEPT !.main = h], d, g2, w2)
<1> DEFINE o2 == [o EXCEPT !.main = h]
           r == Publish!MainRun(h)
<1>1. /\ o2 \in Repositories /\ o2.main = h /\ o2.tags = o.tags
      /\ Len(log) \in Nat /\ h \in Nat /\ h \in 0 .. Len(log) /\ Log(log)
      /\ o.main \in 1 .. Len(log) /\ o.tags \in TagMaps
  <2>1. Log(log) /\ Len(log) \in Nat
    BY DEF Commits, Log
  <2>2. h \in Nat /\ h \in 0 .. Len(log)
    BY <2>1
  <2>3. o \in Repositories /\ o.main \in 1 .. Len(log)
    BY DEF OriginOk
  <2>4. o.tags \in TagMaps /\ o2 \in Repositories /\ o2.main = h /\ o2.tags = o.tags
    BY <2>2, <2>3 DEF Repositories
  <2> QED
    BY <2>1, <2>2, <2>3, <2>4
<1> HIDE DEF o2
<1>2. /\ h \in Publish!Lineage(log, h)
      /\ Publish!Lineage(log, o.main) \subseteq Publish!Lineage(log, h)
  BY <1>1, LineageOlder, LineageBehind
<1>3. OriginOk(log, o2)
  BY <1>1, <1>2 DEF OriginOk
<1>4. ASSUME NEW x, RunOk(log, o, x) PROVE RunOk(log, o2, x)
  BY <1>1, <1>2, <1>4 DEF RunOk
<1>5. RunOk(log, o2, r) /\ r.kind = "main" /\ r.commit = h /\ r # Publish!None
  BY <1>1, <1>2, RunsMade
<1>6. d.main \in Publish!Lineage(log, Tip(log, h))
  BY BehindTip DEF MirrorOk
<1>7. MirrorOk(log, o2, d, g2, w2)
  <2>1. RunOk(log, o, g) /\ RunOk(log, o, w)
    BY DEF MirrorOk
  <2>2. CASE g = Publish!None
    <3>1. w = Publish!None /\ w.kind = "none"
      BY <2>2, RunsMade DEF MirrorOk
    <3>2. g2 = r /\ w2 = w
      BY <2>2
    <3> HIDE DEF r
    <3> QED
      BY <1>1, <1>4, <1>5, <1>6, <2>1, <3>1, <3>2 DEF MirrorOk
  <2>3. CASE g # Publish!None
    <3>1. w2 = r /\ g2 = g
      BY <2>3
    <3>2. g.kind = "main" => g.commit \in Publish!Lineage(log, h)
      BY <1>2, <2>1 DEF RunOk
    <3> HIDE DEF r
    <3> QED
      BY <1>1, <1>4, <1>5, <1>6, <2>1, <2>3, <3>1, <3>2 DEF MirrorOk
  <2> QED
    BY <2>2, <2>3
<1> QED
  BY <1>3, <1>7 DEF o2

\* A pushed tag is new and its commit on main: the other tags stay as they are.
LEMMA PushTagKeeps ==
  ASSUME NEW log, Commits(log), NEW o, NEW d, NEW g, NEW w, NEW t, NEW c, NEW g2, NEW w2,
         OriginOk(log, o), MirrorOk(log, o, d, g, w),
         t \in Nat, t \notin DOMAIN o.tags, Released(log, t, c),
         c \in Publish!Lineage(log, o.main),
         IF g = Publish!None THEN g2 = Publish!TagRun(t, c) /\ w2 = w
                             ELSE w2 = Publish!TagRun(t, c) /\ g2 = g
  PROVE  LET o2 == [o EXCEPT !.tags = Publish!Tagged(o.tags, t, c)]
         IN OriginOk(log, o2) /\ MirrorOk(log, o2, d, g2, w2)
<1> DEFINE more == Publish!Tagged(o.tags, t, c)
           o2 == [o EXCEPT !.tags = more]
           r == Publish!TagRun(t, c)
<1>1. o \in Repositories /\ o.tags \in TagMaps /\ c \in Nat
  BY DEF OriginOk, Repositories, Released
<1>2. /\ more \in TagMaps /\ DOMAIN more = DOMAIN o.tags \cup {t}
      /\ \A u \in DOMAIN o.tags \cup {t} : more[u] = IF u = t THEN c ELSE o.tags[u]
  <2>1. OneMore(more, o.tags, t, c)
    BY <1>1, TaggedIs
  <2> HIDE DEF more
  <2> QED
    BY <2>1 DEF OneMore
<1> HIDE DEF more
<1>3. o2 \in Repositories /\ o2.main = o.main /\ o2.tags = more
  BY <1>1, <1>2 DEF Repositories
<1> HIDE DEF o2
<1>4. OriginOk(log, o2)
  BY <1>2, <1>3 DEF OriginOk
<1>5. ASSUME NEW x, RunOk(log, o, x) PROVE RunOk(log, o2, x)
  BY <1>2, <1>3, <1>5 DEF RunOk
<1>6. RunOk(log, o2, r) /\ r.kind = "tag"
  BY <1>1, <1>2, <1>3, RunsMade
<1>7. r # Publish!None
  BY <1>6, RunsMade
<1>8. \A u \in DOMAIN d.tags : u \in DOMAIN more /\ d.tags[u] = Tip(log, more[u])
  <2> TAKE u \in DOMAIN d.tags
  <2>1. u \in DOMAIN o.tags /\ d.tags[u] = Tip(log, o.tags[u])
    BY DEF MirrorOk
  <2>2. u # t /\ more[u] = o.tags[u]
    BY <1>2, <2>1
  <2> QED
    BY <1>2, <2>1, <2>2
<1>9. MirrorOk(log, o2, d, g2, w2)
  <2>1. RunOk(log, o, g) /\ RunOk(log, o, w)
    BY DEF MirrorOk
  <2>2. CASE g = Publish!None
    <3>1. g2 = r /\ w2 = w
      BY <2>2
    <3> HIDE DEF r
    <3> QED
      BY <1>3, <1>5, <1>6, <1>7, <1>8, <2>1, <2>2, <3>1 DEF MirrorOk
  <2>3. CASE g # Publish!None
    <3>1. w2 = r /\ g2 = g
      BY <2>3
    <3> HIDE DEF r
    <3> QED
      BY <1>3, <1>5, <1>6, <1>7, <1>8, <2>1, <2>3, <3>1 DEF MirrorOk
  <2> QED
    BY <2>2, <2>3
<1> QED
  BY <1>4, <1>9 DEF o2, more

\* The run that is going brings the mirror's main forward, or a tag over; the one
\* that waits is next.
LEMMA MirrorKeeps ==
  ASSUME NEW log, Commits(log), NEW o, NEW d, NEW g, NEW w,
         OriginOk(log, o), MirrorOk(log, o, d, g, w), g # Publish!None
  PROVE  LET tip == Tip(log, g.commit)
             d2 == IF g.kind = "main" THEN [d EXCEPT !.main = tip]
                   ELSE [d EXCEPT !.tags = Publish!Tagged(d.tags, g.tag, tip)]
         IN /\ MirrorOk(log, o, d2, w, Publish!None)
            /\ d.main \in Publish!Lineage(log, d2.main)
<1> DEFINE tip == Tip(log, g.commit)
           more == Publish!Tagged(d.tags, g.tag, tip)
<1>1. /\ Len(log) \in Nat /\ Log(log) /\ d \in Repositories /\ d.tags \in TagMaps
      /\ d.main \in 1 .. Len(log) /\ o.main \in 1 .. Len(log) /\ o.main \in 0 .. Len(log)
      /\ d.main \in 0 .. Len(log) /\ d.main # 0
  BY DEF MirrorOk, OriginOk, Repositories, Commits, Log
<1>2. /\ RunOk(log, o, g) /\ RunOk(log, o, w) /\ RunOk(log, o, Publish!None)
      /\ Publish!None.kind = "none"
  BY <1>1, RunsMade DEF MirrorOk
<1>3. g.kind \in {"main", "tag"} /\ g.commit \in Publish!Lineage(log, o.main)
  BY <1>2 DEF RunOk, Runs
<1>4. g.commit \in 1 .. Len(log)
  BY <1>1, <1>3, LineageBehind
<1>5. tip \in 1 .. Len(log) /\ tip \in Nat /\ tip \in 0 .. Len(log) /\ tip # 0
  BY <1>1, <1>4, TipNewest
<1>6. tip \in Publish!Lineage(log, Tip(log, o.main))
  BY <1>1, <1>3, TipsFollow
<1>7. w.kind = "main" => w.commit \in 1 .. Len(log)
  BY <1>1, <1>2, LineageBehind DEF RunOk
<1>8. CASE g.kind = "main"
  <2> DEFINE d2 == [d EXCEPT !.main = tip]
  <2> HIDE DEF tip
  <2>1. d2 \in Repositories /\ d2.main = tip /\ d2.tags = d.tags
    BY <1>1, <1>5 DEF Repositories
  <2> HIDE DEF d2
  <2>2. w.kind = "main" => tip \in Publish!Lineage(log, Tip(log, w.commit))
    BY <1>7, <1>8, TipsFollow DEF MirrorOk, tip
  <2>3. MirrorOk(log, o, d2, w, Publish!None)
    BY <1>2, <1>5, <1>6, <2>1, <2>2 DEF MirrorOk
  <2>4. d.main \in Publish!Lineage(log, d2.main)
    BY <1>8, <2>1 DEF MirrorOk, tip
  <2> QED
    BY <1>8, <2>3, <2>4 DEF tip, d2
<1>9. CASE g.kind = "tag"
  <2> DEFINE d2 == [d EXCEPT !.tags = more]
  <2>1. g.tag \in Nat /\ g.tag \in DOMAIN o.tags /\ g.commit = o.tags[g.tag]
    BY <1>2, <1>9 DEF RunOk, Runs
  <2>2. /\ more \in TagMaps /\ DOMAIN more = DOMAIN d.tags \cup {g.tag}
        /\ \A u \in DOMAIN d.tags \cup {g.tag} :
             more[u] = IF u = g.tag THEN tip ELSE d.tags[u]
    <3>1. OneMore(more, d.tags, g.tag, tip)
      <4> HIDE DEF tip
      <4> QED
        BY <1>1, <1>5, <2>1, TaggedIs
    <3> HIDE DEF more, tip
    <3> QED
      BY <3>1 DEF OneMore
  <2> HIDE DEF more
  <2>3. d2 \in Repositories /\ d2.main = d.main /\ d2.tags = more
    BY <1>1, <2>2 DEF Repositories
  <2> HIDE DEF d2
  <2>4. \A u \in DOMAIN more : u \in DOMAIN o.tags /\ more[u] = Tip(log, o.tags[u])
    <3> TAKE u \in DOMAIN more
    <3>1. CASE u = g.tag
      BY <2>1, <2>2, <3>1
    <3>2. CASE u # g.tag
      <4>1. u \in DOMAIN d.tags /\ more[u] = d.tags[u]
        BY <2>2, <3>2
      <4> QED
        BY <4>1 DEF MirrorOk
    <3> QED
      BY <3>1, <3>2
  <2>5. MirrorOk(log, o, d2, w, Publish!None)
    BY <1>2, <2>3, <2>4 DEF MirrorOk
  <2>6. d.main \in Publish!Lineage(log, d2.main)
    BY <1>1, <2>3, LineageOlder
  <2> QED
    BY <1>9, <2>5, <2>6 DEF tip, more, d2
<1> QED
  BY <1>3, <1>8, <1>9

-----------------------------------------------------------------------------
(* The releases: every step.                                               *)

\* One clone changes.
LEMMA OneClone ==
  ASSUME ReleaseInv, NEW m \in Maintainers, NEW k, CloneOk(commits, k),
         clone' = [clone EXCEPT ![m] = k],
         UNCHANGED <<commits, origin, downstream, going, waiting>>,
         crashes' \in 0 .. MaxCrashes
  PROVE  ReleaseInv'
<1>1. /\ clone' = [n \in Maintainers |-> clone'[n]]
      /\ \A n \in Maintainers : clone'[n] = IF n = m THEN k ELSE clone[n]
  BY DEF ReleaseInv
<1>2. \A n \in Maintainers : CloneOk(commits, clone'[n])
  BY <1>1 DEF ReleaseInv
<1> QED
  BY <1>1, <1>2 DEF ReleaseInv

\* One clone makes a commit on its head.
LEMMA OneCommit ==
  ASSUME ReleaseInv, NEW m \in Maintainers, NEW k,
         NEW r \in [parent : Nat, patch : Nat, pkg : BOOLEAN],
         r.parent \in 1 .. Len(commits), r.patch - commits[r.parent].patch \in {0, 1},
         CloneOk(Append(commits, r), k),
         commits' = Append(commits, r), clone' = [clone EXCEPT ![m] = k],
         UNCHANGED <<origin, downstream, going, waiting, crashes>>
  PROVE  ReleaseInv'
<1>1. /\ clone' = [n \in Maintainers |-> clone'[n]]
      /\ \A n \in Maintainers : clone'[n] = IF n = m THEN k ELSE clone[n]
  BY DEF ReleaseInv
<1>2. Commits(commits)
  BY DEF ReleaseInv
<1>3. /\ Commits(commits')
      /\ \A x : CloneOk(commits, x) => CloneOk(commits', x)
      /\ \A o : OriginOk(commits, o) => OriginOk(commits', o)
      /\ \A o, d, g, w : OriginOk(commits, o) /\ MirrorOk(commits, o, d, g, w)
                           => MirrorOk(commits', o, d, g, w)
  BY <1>2, GrowKeeps, CommitsGrow
<1>4. \A n \in Maintainers : CloneOk(commits', clone'[n])
  BY <1>1, <1>3 DEF ReleaseInv
<1> QED
  BY <1>1, <1>3, <1>4 DEF ReleaseInv

\* A clone's record, field by field.
LEMMA CloneFields ==
  ASSUME ReleaseInv, NEW m \in Maintainers
  PROVE  /\ clone[m] \in Clones /\ CloneOk(commits, clone[m])
         /\ clone[m].head \in 1 .. Len(commits) /\ clone[m].head \in Nat
         /\ clone[m].lakefile \in Nat /\ clone[m].next \in Nat
         /\ clone[m].tags \in TagMaps
         /\ DOMAIN clone = Maintainers
         /\ Len(commits) \in Nat
         /\ \A i \in 1 .. Len(commits) : commits[i].patch \in Nat
<1>1. CloneOk(commits, clone[m]) /\ clone[m] \in Clones /\ Commits(commits)
  BY DEF ReleaseInv, CloneOk
<1>2. clone[m].head \in 1 .. Len(commits)
  BY <1>1 DEF CloneOk
<1>3. /\ clone[m].head \in Nat /\ clone[m].lakefile \in Nat /\ clone[m].next \in Nat
      /\ clone[m].tags \in TagMaps
  BY <1>1 DEF Clones
<1>4. DOMAIN clone = Maintainers
  BY DEF ReleaseInv
<1>5. Len(commits) \in Nat /\ \A i \in 1 .. Len(commits) : commits[i].patch \in Nat
  BY <1>1, LogAt DEF Commits, Log
<1> QED
  BY <1>1, <1>2, <1>3, <1>4, <1>5

\* bump_patch.py starts in a clean clone.
LEMMA BeginKeeps ==
  ASSUME ReleaseInv, NEW m \in Maintainers, Publish!Begin(m)
  PROVE  ReleaseInv'
<1> DEFINE up == clone[m].lakefile + 1
           k == [clone[m] EXCEPT !.pc = "fetch", !.next = up]
<1>1. clone' = [clone EXCEPT ![m] = k]
  BY CloneFields DEF Publish!Begin
<1>2. /\ k \in Clones /\ k.pc = "fetch" /\ k.next = up
      /\ k.head = clone[m].head /\ k.lakefile = clone[m].lakefile /\ k.tags = clone[m].tags
  <2>1. up \in Nat
    BY CloneFields
  <2> HIDE DEF up
  <2> QED
    BY <2>1, CloneFields DEF Clones, Steps
<1>3. clone[m].lakefile = commits[clone[m].head].patch
  BY DEF Publish!Begin, Publish!Clean, Publish!Patch
<1>4. CloneOk(commits, k)
  <2> HIDE DEF k
  <2> QED
    BY <1>2, <1>3, CloneFields DEF CloneOk
<1>5. UNCHANGED <<commits, origin, downstream, going, waiting, crashes>>
  BY DEF Publish!Begin, Publish!Rest
<1> HIDE DEF k
<1> QED
  BY <1>1, <1>4, <1>5, OneClone DEF ReleaseInv

\* The script stops, or moves on to a step with the same promise.
LEMMA StepKeeps ==
  ASSUME ReleaseInv, NEW m \in Maintainers, NEW pc_ \in Steps,
         pc_ = "idle" \/ {pc_, clone[m].pc} \subseteq {"fetch", "lsremote", "write"},
         clone' = [clone EXCEPT ![m].pc = pc_],
         UNCHANGED <<commits, origin, downstream, going, waiting>>,
         crashes' \in 0 .. MaxCrashes
  PROVE  ReleaseInv'
<1> DEFINE k == [clone[m] EXCEPT !.pc = pc_]
<1>1. clone' = [clone EXCEPT ![m] = k]
  BY CloneFields
<1>2. /\ k \in Clones /\ k.pc = pc_ /\ k.next = clone[m].next
      /\ k.head = clone[m].head /\ k.lakefile = clone[m].lakefile /\ k.tags = clone[m].tags
  BY CloneFields DEF Clones
<1>3. CloneOk(commits, k)
  <2> HIDE DEF k
  <2> QED
    BY <1>2, CloneFields DEF CloneOk
<1> HIDE DEF k
<1> QED
  BY <1>1, <1>3, OneClone

\* Fetched tags are right, those the clone had and those of the published repository.
LEMMA MergedTags ==
  ASSUME ReleaseInv, NEW m \in Maintainers
  PROVE  LET tags == Publish!Merge(clone[m].tags, origin.tags)
         IN tags \in TagMaps /\ \A t \in DOMAIN tags : Released(commits, t, tags[t])
<1> DEFINE mine == clone[m].tags
           theirs == origin.tags
           tags == Publish!Merge(mine, theirs)
<1>1. mine \in TagMaps /\ \A t \in DOMAIN mine : Released(commits, t, mine[t])
  BY CloneFields DEF CloneOk
<1>2. theirs \in TagMaps /\ \A t \in DOMAIN theirs : Released(commits, t, theirs[t])
  BY DEF ReleaseInv, OriginOk, Repositories
<1> HIDE DEF mine, theirs
<1>3. tags \in TagMaps
  BY <1>1, <1>2, MergeIs
<1>4. DOMAIN tags = DOMAIN mine \cup DOMAIN theirs
  BY <1>1, <1>2, MergeIs
<1>5. \A u \in DOMAIN tags : tags[u] = IF u \in DOMAIN mine THEN mine[u] ELSE theirs[u]
  BY DEF Publish!Merge
<1>6. \A t \in DOMAIN tags : Released(commits, t, tags[t])
  <2> HIDE DEF tags
  <2> QED
    BY <1>1, <1>2, <1>4, <1>5
<1> QED
  BY <1>3, <1>6 DEF mine, theirs

\* `git fetch --tags` and the local guard.
LEMMA FetchKeeps ==
  ASSUME ReleaseInv, NEW m \in Maintainers, Publish!FetchTags(m)
  PROVE  ReleaseInv'
<1> DEFINE tags == Publish!Merge(clone[m].tags, origin.tags)
           pc_ == IF clone[m].next \in DOMAIN tags THEN "idle" ELSE "lsremote"
           k == [clone[m] EXCEPT !.tags = tags, !.pc = pc_]
<1>1. /\ UNCHANGED <<commits, origin, downstream, going, waiting, crashes>>
      /\ crashes' \in 0 .. MaxCrashes /\ clone[m].pc = "fetch"
  BY DEF Publish!FetchTags, Publish!Rest, ReleaseInv
<1>2. CASE Publish!Die(m)
  BY <1>1, <1>2, StepKeeps DEF Publish!Die, Steps
<1>3. CASE clone' = [clone EXCEPT ![m].tags = tags, ![m].pc = pc_]
  <2>1. tags \in TagMaps /\ \A t \in DOMAIN tags : Released(commits, t, tags[t])
    BY MergedTags
  <2>2. pc_ \in {"idle", "lsremote"}
    OBVIOUS
  <2> HIDE DEF tags, pc_
  <2>3. clone' = [clone EXCEPT ![m] = k]
    BY <1>3, CloneFields
  <2>4. /\ k \in Clones /\ k.pc = pc_ /\ k.next = clone[m].next /\ k.tags = tags
        /\ k.head = clone[m].head /\ k.lakefile = clone[m].lakefile
    BY <2>1, <2>2, CloneFields DEF Clones, Steps
  <2>5. CloneOk(commits, k)
    <3> HIDE DEF k
    <3> QED
      BY <1>1, <2>1, <2>2, <2>4, CloneFields DEF CloneOk
  <2> HIDE DEF k
  <2> QED
    BY <1>1, <2>3, <2>5, OneClone
<1> QED
  BY <1>2, <1>3 DEF Publish!FetchTags

\* `git ls-remote`.
LEMMA LsRemoteKeeps ==
  ASSUME ReleaseInv, NEW m \in Maintainers, Publish!LsRemote(m)
  PROVE  ReleaseInv'
<1>1. /\ UNCHANGED <<commits, origin, downstream, going, waiting, crashes>>
      /\ crashes' \in 0 .. MaxCrashes /\ clone[m].pc = "lsremote"
  BY DEF Publish!LsRemote, Publish!Rest, ReleaseInv
<1>2. CASE Publish!Die(m)
  BY <1>1, <1>2, StepKeeps DEF Publish!Die, Steps
<1>3. CASE Publish!Goto(m, "write")
  BY <1>1, <1>3, StepKeeps DEF Publish!Goto, Steps
<1> QED
  BY <1>2, <1>3 DEF Publish!LsRemote

\* The lakefile gets the next version.
LEMMA WriteKeeps ==
  ASSUME ReleaseInv, NEW m \in Maintainers, Publish!WriteLakefile(m)
  PROVE  ReleaseInv'
<1> DEFINE k == [clone[m] EXCEPT !.pc = "commit", !.lakefile = clone[m].next]
<1>1. clone' = [clone EXCEPT ![m] = k]
  BY CloneFields DEF Publish!WriteLakefile
<1>2. /\ k \in Clones /\ k.pc = "commit" /\ k.next = clone[m].next
      /\ k.head = clone[m].head /\ k.lakefile = clone[m].next /\ k.tags = clone[m].tags
  BY CloneFields DEF Clones, Steps
<1>3. clone[m].pc = "write"
  BY DEF Publish!WriteLakefile
<1>4. CloneOk(commits, k)
  <2> HIDE DEF k
  <2> QED
    BY <1>2, <1>3, CloneFields DEF CloneOk
<1>5. UNCHANGED <<commits, origin, downstream, going, waiting, crashes>>
  BY DEF Publish!WriteLakefile, Publish!Rest
<1> HIDE DEF k
<1> QED
  BY <1>1, <1>4, <1>5, OneClone DEF ReleaseInv

\* The commit raises the version of its parent by one.
LEMMA CommitKeeps ==
  ASSUME ReleaseInv, NEW m \in Maintainers, Publish!Commit(m)
  PROVE  ReleaseInv'
<1> DEFINE r == [parent |-> clone[m].head, patch |-> clone[m].lakefile, pkg |-> TRUE]
           new == Len(commits) + 1
           k == [clone[m] EXCEPT !.pc = "tag", !.head = new]
<1>1. clone' = [clone EXCEPT ![m] = k]
  BY CloneFields DEF Publish!Commit
<1>2. /\ k \in Clones /\ k.pc = "tag" /\ k.next = clone[m].next
      /\ k.head = new /\ k.lakefile = clone[m].lakefile /\ k.tags = clone[m].tags
  <2>1. new \in Nat
    BY CloneFields
  <2> HIDE DEF new
  <2> QED
    BY <2>1, CloneFields DEF Clones, Steps
<1>3. /\ clone[m].lakefile = clone[m].next
      /\ clone[m].next = commits[clone[m].head].patch + 1
  BY CloneFields DEF Publish!Commit, CloneOk
<1>4. /\ r \in [parent : Nat, patch : Nat, pkg : BOOLEAN]
      /\ r.parent = clone[m].head /\ r.patch = clone[m].next
  BY <1>3, CloneFields
<1> HIDE DEF r
<1>5. r.parent \in 1 .. Len(commits) /\ r.patch - commits[r.parent].patch \in {0, 1}
  BY <1>3, <1>4, CloneFields
<1>6. Commits(commits)
  BY DEF ReleaseInv
<1>7. /\ Len(Append(commits, r)) = new
      /\ \A i \in 1 .. Len(commits) : Append(commits, r)[i] = commits[i]
      /\ Append(commits, r)[new] = r
  BY <1>4, <1>5, <1>6, CommitsGrow
<1>8. Released(Append(commits, r), clone[m].next, new)
  <2>1. new \in 1 .. new /\ clone[m].head # 0
    BY CloneFields
  <2>2. commits[clone[m].head].patch = clone[m].next - 1
    BY <1>3, CloneFields
  <2> HIDE DEF new
  <2> QED
    BY <1>4, <1>5, <1>7, <2>1, <2>2 DEF Released
<1>9. \A t \in DOMAIN k.tags : Released(Append(commits, r), t, k.tags[t])
  <2>1. \A t \in DOMAIN clone[m].tags : Released(commits, t, clone[m].tags[t])
    BY CloneFields DEF CloneOk
  <2>2. \A t, c : Released(commits, t, c) => Released(Append(commits, r), t, c)
    BY <1>4, <1>5, <1>6, GrowKeeps
  <2> HIDE DEF k
  <2> QED
    BY <1>2, <2>1, <2>2
<1>10. CloneOk(Append(commits, r), k)
  <2>1. new \in 1 .. Len(Append(commits, r))
    BY <1>7, CloneFields
  <2> HIDE DEF k, new
  <2> QED
    BY <1>2, <1>8, <1>9, <2>1 DEF CloneOk
<1>11. /\ commits' = Append(commits, r)
       /\ UNCHANGED <<origin, downstream, going, waiting, crashes>>
  BY DEF Publish!Commit, Publish!Rest, r
<1> HIDE DEF k, new
<1> QED
  BY <1>1, <1>4, <1>5, <1>10, <1>11, OneCommit

\* The tag names the commit the script made.
LEMMA TagKeeps ==
  ASSUME ReleaseInv, NEW m \in Maintainers, Publish!Tag(m)
  PROVE  ReleaseInv'
<1> DEFINE tags == Publish!Tagged(clone[m].tags, clone[m].next, clone[m].head)
           k == [clone[m] EXCEPT !.pc = "idle", !.tags = tags]
<1>1. clone' = [clone EXCEPT ![m] = k]
  BY CloneFields DEF Publish!Tag
<1>2. OneMore(tags, clone[m].tags, clone[m].next, clone[m].head)
  BY CloneFields, TaggedIs
<1>3. /\ Released(commits, clone[m].next, clone[m].head)
      /\ \A t \in DOMAIN clone[m].tags : Released(commits, t, clone[m].tags[t])
  BY CloneFields DEF Publish!Tag, CloneOk
<1> HIDE DEF tags
<1>4. tags \in TagMaps /\ \A t \in DOMAIN tags : Released(commits, t, tags[t])
  BY <1>2, <1>3 DEF OneMore
<1>5. /\ k \in Clones /\ k.pc = "idle" /\ k.head = clone[m].head /\ k.tags = tags
  BY <1>4, CloneFields DEF Clones, Steps
<1>6. CloneOk(commits, k)
  <2> HIDE DEF k
  <2> QED
    BY <1>4, <1>5, CloneFields DEF CloneOk
<1>7. UNCHANGED <<commits, origin, downstream, going, waiting, crashes>>
  BY DEF Publish!Tag, Publish!Rest
<1> HIDE DEF k
<1> QED
  BY <1>1, <1>6, <1>7, OneClone DEF ReleaseInv

\* The script dies: its promise goes with it.
LEMMA CrashKeeps ==
  ASSUME ReleaseInv, NEW m \in Maintainers, Publish!Crash(m)
  PROVE  ReleaseInv'
<1>1. crashes' \in 0 .. MaxCrashes
  BY DEF Publish!Crash, ReleaseInv
<1> QED
  BY <1>1, StepKeeps DEF Publish!Crash, Publish!Die, Steps

\* A commit without a release keeps the version.
LEMMA WorkKeeps ==
  ASSUME ReleaseInv, NEW m \in Maintainers, Publish!Work(m)
  PROVE  ReleaseInv'
<1>1. PICK pkg \in BOOLEAN :
        commits' = Append(commits, [parent |-> clone[m].head, patch |-> clone[m].lakefile,
                                    pkg |-> pkg])
  BY DEF Publish!Work
<1> DEFINE r == [parent |-> clone[m].head, patch |-> clone[m].lakefile, pkg |-> pkg]
           new == Len(commits) + 1
           k == [clone[m] EXCEPT !.head = new]
<1>2. clone' = [clone EXCEPT ![m] = k]
  BY CloneFields DEF Publish!Work
<1>3. clone[m].pc = "idle" /\ clone[m].lakefile = commits[clone[m].head].patch
  BY DEF Publish!Work, Publish!Idle, Publish!Clean, Publish!Patch
<1>4. k \in Clones /\ k.pc = "idle" /\ k.head = new /\ k.tags = clone[m].tags
  BY <1>3, CloneFields DEF Clones
<1>5. /\ r \in [parent : Nat, patch : Nat, pkg : BOOLEAN]
      /\ r.parent \in 1 .. Len(commits) /\ r.patch - commits[r.parent].patch \in {0, 1}
  BY <1>3, CloneFields
<1>6. commits' = Append(commits, r)
  BY <1>1
<1> HIDE DEF r
<1>7. Commits(commits)
  BY DEF ReleaseInv
<1>8. Len(Append(commits, r)) = new
  BY <1>5, <1>7, CommitsGrow
<1>9. \A t \in DOMAIN k.tags : Released(Append(commits, r), t, k.tags[t])
  <2>1. \A t \in DOMAIN clone[m].tags : Released(commits, t, clone[m].tags[t])
    BY CloneFields DEF CloneOk
  <2>2. \A t, c : Released(commits, t, c) => Released(Append(commits, r), t, c)
    BY <1>5, <1>7, GrowKeeps
  <2> HIDE DEF k
  <2> QED
    BY <1>4, <2>1, <2>2
<1>10. CloneOk(Append(commits, r), k)
  <2>1. new \in 1 .. Len(Append(commits, r))
    BY <1>8, CloneFields
  <2> HIDE DEF k, new
  <2> QED
    BY <1>4, <1>9, <2>1 DEF CloneOk
<1>11. UNCHANGED <<origin, downstream, going, waiting, crashes>>
  BY DEF Publish!Work, Publish!Rest
<1> HIDE DEF k, new
<1> QED
  BY <1>2, <1>5, <1>6, <1>10, <1>11, OneCommit

\* A clone that goes to the published main, with tags that are right.
LEMMA ToMain ==
  ASSUME ReleaseInv, NEW m \in Maintainers, clone[m].pc = "idle", NEW tags \in TagMaps,
         \A t \in DOMAIN tags : Released(commits, t, tags[t]),
         clone' = [clone EXCEPT ![m].head = origin.main,
                     ![m].lakefile = commits[origin.main].patch, ![m].tags = tags],
         UNCHANGED <<commits, origin, downstream, going, waiting, crashes>>
  PROVE  ReleaseInv'
<1> DEFINE k == [clone[m] EXCEPT !.head = origin.main,
                   !.lakefile = commits[origin.main].patch, !.tags = tags]
<1>1. clone' = [clone EXCEPT ![m] = k]
  BY CloneFields
<1>2. origin.main \in 1 .. Len(commits) /\ origin.main \in Nat
  BY DEF ReleaseInv, OriginOk, Repositories
<1>3. commits[origin.main].patch \in Nat
  BY <1>2, CloneFields
<1>4. k \in Clones /\ k.pc = "idle" /\ k.head = origin.main /\ k.tags = tags
  BY <1>2, <1>3, CloneFields DEF Clones
<1>5. CloneOk(commits, k)
  <2> HIDE DEF k
  <2> QED
    BY <1>2, <1>4 DEF CloneOk
<1> HIDE DEF k
<1> QED
  BY <1>1, <1>5, OneClone DEF ReleaseInv

\* A pull brings main and its tags.
LEMMA PullKeeps ==
  ASSUME ReleaseInv, NEW m \in Maintainers, Publish!Pull(m)
  PROVE  ReleaseInv'
<1> DEFINE tags == Publish!Merge(clone[m].tags, origin.tags)
<1>1. tags \in TagMaps /\ \A t \in DOMAIN tags : Released(commits, t, tags[t])
  BY MergedTags
<1>2. clone' = [clone EXCEPT ![m].head = origin.main,
                  ![m].lakefile = commits[origin.main].patch, ![m].tags = tags]
  BY DEF Publish!Pull, Publish!Patch
<1>3. /\ UNCHANGED <<commits, origin, downstream, going, waiting, crashes>>
      /\ clone[m].pc = "idle"
  BY DEF Publish!Pull, Publish!Rest, Publish!Idle
<1> HIDE DEF tags
<1> QED
  BY <1>1, <1>2, <1>3, ToMain

\* A reset drops what is not published.
LEMMA ResetKeeps ==
  ASSUME ReleaseInv, NEW m \in Maintainers, Publish!Reset(m)
  PROVE  ReleaseInv'
<1> DEFINE tags == origin.tags
<1>1. tags \in TagMaps /\ \A t \in DOMAIN tags : Released(commits, t, tags[t])
  BY DEF ReleaseInv, OriginOk, Repositories
<1>2. clone' = [clone EXCEPT ![m].head = origin.main,
                  ![m].lakefile = commits[origin.main].patch, ![m].tags = tags]
  BY DEF Publish!Reset, Publish!Patch
<1>3. /\ UNCHANGED <<commits, origin, downstream, going, waiting, crashes>>
      /\ clone[m].pc = "idle"
  BY DEF Publish!Reset, Publish!Rest, Publish!Idle
<1> HIDE DEF tags
<1> QED
  BY <1>1, <1>2, <1>3, ToMain

\* origin takes a fast-forward of main, and the workflow is triggered.
LEMMA PushMainStep ==
  ASSUME ReleaseInv, NEW m \in Maintainers, Publish!PushMain(m)
  PROVE  ReleaseInv'
<1> DEFINE h == clone[m].head
<1>1. /\ Commits(commits) /\ OriginOk(commits, origin)
      /\ MirrorOk(commits, origin, downstream, going, waiting)
  BY DEF ReleaseInv
<1>2. h \in 1 .. Len(commits)
  BY CloneFields
<1>3. /\ origin.main \in Publish!Lineage(commits, h)
      /\ origin' = [origin EXCEPT !.main = h]
      /\ UNCHANGED <<commits, clone, downstream, crashes>>
  BY DEF Publish!PushMain, Publish!History
<1>4. IF going = Publish!None THEN going' = Publish!MainRun(h) /\ waiting' = waiting
                              ELSE waiting' = Publish!MainRun(h) /\ going' = going
  BY DEF Publish!PushMain, Publish!Trigger
<1> HIDE DEF h
<1>5. /\ OriginOk(commits, origin')
      /\ MirrorOk(commits, origin', downstream, going', waiting')
  BY <1>1, <1>2, <1>3, <1>4, PushMainKeeps
<1> QED
  BY <1>3, <1>5 DEF ReleaseInv

\* origin takes a tag that is not there yet.
LEMMA PushTagStep ==
  ASSUME ReleaseInv, NEW m \in Maintainers, Publish!PushTag(m)
  PROVE  ReleaseInv'
<1>1. /\ Commits(commits) /\ OriginOk(commits, origin)
      /\ MirrorOk(commits, origin, downstream, going, waiting)
  BY DEF ReleaseInv
<1>2. PICK t \in DOMAIN clone[m].tags \ DOMAIN origin.tags :
        /\ clone[m].tags[t] \in Publish!Lineage(commits, origin.main)
        /\ origin' = [origin EXCEPT !.tags = Publish!Tagged(origin.tags, t, clone[m].tags[t])]
        /\ Publish!Trigger(Publish!TagRun(t, clone[m].tags[t]))
  BY DEF Publish!PushTag, Publish!History
<1> DEFINE c == clone[m].tags[t]
<1>3. t \in Nat /\ t \notin DOMAIN origin.tags /\ Released(commits, t, c)
  <2>1. DOMAIN clone[m].tags \in SUBSET Nat
    BY CloneFields, TagMapsAre
  <2> QED
    BY <2>1, CloneFields DEF CloneOk
<1>4. /\ c \in Publish!Lineage(commits, origin.main)
      /\ origin' = [origin EXCEPT !.tags = Publish!Tagged(origin.tags, t, c)]
      /\ UNCHANGED <<commits, clone, downstream, crashes>>
  BY <1>2 DEF Publish!PushTag
<1>5. IF going = Publish!None THEN going' = Publish!TagRun(t, c) /\ waiting' = waiting
                              ELSE waiting' = Publish!TagRun(t, c) /\ going' = going
  BY <1>2 DEF Publish!Trigger
<1> HIDE DEF c
<1>6. /\ OriginOk(commits, origin')
      /\ MirrorOk(commits, origin', downstream, going', waiting')
  BY <1>1, <1>3, <1>4, <1>5, PushTagKeeps
<1> QED
  BY <1>4, <1>6 DEF ReleaseInv

\* Split and Tip are the same.
LEMMA SplitIsTip == \A c : Publish!Split(c) = Tip(commits, c)
BY DEF Publish!Split, Publish!History, Tip, Touching

\* A run of the workflow.
LEMMA MirrorStep ==
  ASSUME ReleaseInv, Publish!Mirror
  PROVE  ReleaseInv' /\ downstream.main \in Publish!Lineage(commits', downstream'.main)
<1> DEFINE tip == Tip(commits, going.commit)
           d2 == IF going.kind = "main" THEN [downstream EXCEPT !.main = tip]
                 ELSE [downstream EXCEPT
                         !.tags = Publish!Tagged(downstream.tags, going.tag, tip)]
<1>1. /\ Commits(commits) /\ OriginOk(commits, origin)
      /\ MirrorOk(commits, origin, downstream, going, waiting)
  BY DEF ReleaseInv
<1>2. /\ going # Publish!None /\ going' = waiting /\ waiting' = Publish!None
      /\ UNCHANGED <<commits, clone, origin, crashes>>
  BY DEF Publish!Mirror
<1>3. downstream' = d2
  BY SplitIsTip DEF Publish!Mirror
<1>4. /\ MirrorOk(commits, origin, d2, waiting, Publish!None)
      /\ downstream.main \in Publish!Lineage(commits, d2.main)
  BY <1>1, <1>2, MirrorKeeps
<1> HIDE DEF d2
<1> QED
  BY <1>1, <1>2, <1>3, <1>4 DEF ReleaseInv

\* The first state.
LEMMA ReleaseStarts ==
  ASSUME Publish!Init, MaxCrashes \in Nat
  PROVE  ReleaseInv
<1> DEFINE R == [parent : Nat, patch : Nat, pkg : BOOLEAN]
           one == [parent |-> 0, patch |-> 0, pkg |-> TRUE]
<1>1. commits \in Seq(R) /\ Len(commits) = 1 /\ commits[1] = one
  <2>1. one \in R /\ commits = <<one>>
    BY DEF Publish!Init
  <2> HIDE DEF one, R
  <2> QED
    BY <2>1
<1>2. Log(commits)
  <2>1. ASSUME NEW i \in 1 .. Len(commits) PROVE commits[i].parent < i
    BY <1>1
  <2> QED
    BY <1>1, <2>1 DEF Log
<1>3. Commits(commits)
  BY <1>1, <1>2 DEF Commits
<1>4. clone = [m \in Maintainers |-> clone[m]]
  BY DEF Publish!Init
<1>5. ASSUME NEW m \in Maintainers PROVE CloneOk(commits, clone[m])
  <2> DEFINE k == [pc |-> "idle", head |-> 1, lakefile |-> 0, next |-> 0, tags |-> <<>>]
  <2>1. clone[m] = k
    BY DEF Publish!Init
  <2>2. k.pc = "idle" /\ k.head = 1 /\ DOMAIN k.tags = {} /\ k \in Clones
    BY NoTags DEF Clones, Steps
  <2> HIDE DEF k
  <2>3. CloneOk(commits, k)
    BY <1>1, <2>2 DEF CloneOk
  <2> QED
    BY <2>1, <2>3
<1> DEFINE o == [main |-> 1, tags |-> <<>>]
<1>6. o \in Repositories /\ o.main = 1 /\ DOMAIN o.tags = {}
  BY NoTags DEF Repositories
<1>7. origin = o /\ downstream = o /\ going = Publish!None /\ waiting = Publish!None
  BY DEF Publish!Init
<1> HIDE DEF o
<1>8. OriginOk(commits, origin)
  BY <1>1, <1>6, <1>7 DEF OriginOk
<1>9. Tip(commits, 1) \in 1 .. 1
  <2>1. 1 \in 1 .. Len(commits)
    BY <1>1
  <2>2. Tip(commits, 1) \in 1 .. Len(commits)
    BY <1>3, <2>1, TipNewest
  <2> QED
    BY <1>1, <2>2
<1>10. 1 \in Publish!Lineage(commits, Tip(commits, 1))
  <2>1. Tip(commits, 1) = 1 /\ 1 \in 0 .. Len(commits) /\ 1 # 0
    BY <1>1, <1>9
  <2> QED
    BY <1>2, <2>1, LineageOlder
<1>11. RunOk(commits, origin, Publish!None) /\ Publish!None.kind = "none"
  <2>1. 0 \in Nat
    OBVIOUS
  <2> QED
    BY <2>1, RunsMade
<1>12. MirrorOk(commits, origin, downstream, going, waiting)
  BY <1>1, <1>6, <1>7, <1>10, <1>11 DEF MirrorOk
<1>13. crashes \in 0 .. MaxCrashes
  BY DEF Publish!Init
<1> QED
  BY <1>3, <1>4, <1>5, <1>8, <1>12, <1>13 DEF ReleaseInv

\* A step of the releases.
LEMMA ReleaseStep ==
  ASSUME ReleaseInv, Publish!Next \/ UNCHANGED Publish!vars
  PROVE  ReleaseInv' /\ Publish!MirrorForward
<1>1. ASSUME ReleaseInv', UNCHANGED downstream
      PROVE  Publish!MirrorForward
  <2>1. Commits(commits') /\ downstream'.main \in 1 .. Len(commits')
    BY <1>1 DEF ReleaseInv, MirrorOk
  <2>2. Log(commits') /\ downstream'.main \in 0 .. Len(commits') /\ downstream'.main # 0
    BY <2>1 DEF Commits, Log
  <2> QED
    BY <1>1, <2>2, LineageOlder DEF Publish!MirrorForward
<1>2. CASE UNCHANGED Publish!vars
  <2>1. UNCHANGED <<commits, clone, origin, downstream, going, waiting, crashes>>
    BY <1>2 DEF Publish!vars
  <2>2. ReleaseInv'
    BY <2>1 DEF ReleaseInv
  <2> QED
    BY <1>1, <2>1, <2>2
<1>3. ASSUME NEW m \in Maintainers, Publish!Script(m)
      PROVE  ReleaseInv' /\ UNCHANGED downstream
  <2>1. ReleaseInv'
    BY <1>3, BeginKeeps, FetchKeeps, LsRemoteKeeps, WriteKeeps, CommitKeeps, TagKeeps,
       CrashKeeps DEF Publish!Script
  <2>2. UNCHANGED downstream
    BY <1>3 DEF Publish!Script, Publish!Begin, Publish!FetchTags, Publish!LsRemote,
       Publish!WriteLakefile, Publish!Commit, Publish!Tag, Publish!Crash, Publish!Rest
  <2> QED
    BY <2>1, <2>2
<1>4. ASSUME NEW m \in Maintainers,
             \/ Publish!Work(m) \/ Publish!Pull(m) \/ Publish!Reset(m)
             \/ Publish!PushMain(m) \/ Publish!PushTag(m)
      PROVE  ReleaseInv' /\ UNCHANGED downstream
  <2>1. ReleaseInv'
    BY <1>4, WorkKeeps, PullKeeps, ResetKeeps, PushMainStep, PushTagStep
  <2>2. UNCHANGED downstream
    BY <1>4 DEF Publish!Work, Publish!Pull, Publish!Reset, Publish!PushMain,
       Publish!PushTag, Publish!Rest
  <2> QED
    BY <2>1, <2>2
<1>5. CASE Publish!Mirror
  BY <1>5, MirrorStep DEF Publish!MirrorForward
<1>6. CASE Publish!Next
  BY <1>1, <1>3, <1>4, <1>5, <1>6 DEF Publish!Next
<1> QED
  BY <1>2, <1>6

\* What the invariant says of the releases.
LEMMA ReleaseMeans ==
  ASSUME ReleaseInv
  PROVE  /\ Publish!TypeOK /\ Publish!BumpsByOne
         /\ Publish!TagsNameReleases /\ Publish!MirrorTagsAgree
<1>1. /\ Commits(commits) /\ OriginOk(commits, origin)
      /\ MirrorOk(commits, origin, downstream, going, waiting)
      /\ DOMAIN commits = 1 .. Len(commits) /\ Len(commits) \in Nat
  BY DEF ReleaseInv, Commits, Log
<1>2. \A i \in 1 .. Len(commits) :
        /\ commits[i].parent \in Nat /\ commits[i].parent < i /\ commits[i].patch \in Nat
        /\ commits[i].parent \in 0 .. i - 1
  <2> TAKE i \in 1 .. Len(commits)
  <2>1. commits[i].parent \in Nat /\ commits[i].parent < i /\ commits[i].patch \in Nat
    BY <1>1, LogAt DEF Commits
  <2> QED
    BY <1>1, <2>1
<1>3. Publish!TypeOK
  <2>1. \A m \in Maintainers :
          /\ clone[m].pc \in {"idle", "fetch", "lsremote", "write", "commit", "tag"}
          /\ clone[m].head \in DOMAIN commits
          /\ clone[m].lakefile \in Nat
    <3> TAKE m \in Maintainers
    <3>1. clone[m] \in Clones
      BY CloneFields
    <3>2. clone[m].pc \in Steps
      BY <3>1 DEF Clones
    <3> QED
      BY <1>1, <3>2, CloneFields DEF Steps
  <2>2. origin.main \in DOMAIN commits /\ downstream.main \in DOMAIN commits
    BY <1>1 DEF OriginOk, MirrorOk
  <2>3. (waiting # Publish!None => going # Publish!None) /\ crashes \in 0 .. MaxCrashes
    BY <1>1 DEF MirrorOk, ReleaseInv
  <2> QED
    BY <1>1, <1>2, <2>1, <2>2, <2>3 DEF Publish!TypeOK
<1>4. Publish!BumpsByOne
  <2>1. ASSUME NEW i \in DOMAIN commits, commits[i].parent # 0
        PROVE  commits[i].patch - commits[commits[i].parent].patch \in {0, 1}
    <3>1. i \in 2 .. Len(commits)
      BY <1>1, <2>1 DEF Commits
    <3> QED
      BY <1>1, <3>1 DEF Commits
  <2> QED
    BY <2>1 DEF Publish!BumpsByOne
<1>5. Publish!TagsNameReleases
  BY <1>1 DEF OriginOk, Released, Publish!TagsNameReleases, Publish!Patch, Publish!History
<1>6. Publish!MirrorTagsAgree
  BY <1>1, SplitIsTip DEF MirrorOk, Publish!MirrorTagsAgree
<1> QED
  BY <1>3, <1>4, <1>5, <1>6

\* The releases stay right.
LEMMA ReleasesInvariant ==
  ScriptsSpec => /\ [](part = "release" => ReleaseInv)
                 /\ [][part = "release" => Publish!MirrorForward]_<<part, slots, releases>>
<1> DEFINE Inv == part = "release" => ReleaseInv
<1>1. ScriptsInit => Inv
  BY ReleaseAssumption, ReleaseStarts DEF ScriptsInit
<1>2. ASSUME Inv, [ScriptsNext]_<<part, slots, releases>>
      PROVE  Inv' /\ (part = "release" => Publish!MirrorForward)
  <2>1. part' = part
    BY <1>2 DEF ScriptsNext
  <2>2. CASE part = "release"
    <3>1. Publish!Next \/ UNCHANGED Publish!vars
      BY <1>2, <2>2 DEF ScriptsNext, releases, Publish!vars
    <3> QED
      BY <1>2, <2>2, <3>1, ReleaseStep
  <2> QED
    BY <2>1, <2>2
<1> QED
  BY <1>1, <1>2, PTL DEF ScriptsSpec

\* Whatever the script leaves behind when it dies, and however the maintainers'
\* pushes and the workflow's runs interleave: a published tag names the version its
\* commit introduced, that commit is on main, and no commit skips a version.
THEOREM ReleasesCorrect == ScriptsSpec => []ReleasesNumbered
<1>1. (part = "release" => ReleaseInv) => ReleasesNumbered
  BY ReleaseMeans DEF ReleasesNumbered
<1> QED
  BY <1>1, ReleasesInvariant, PTL

\* The mirror's main never goes back, though a run may be dropped for a newer one.
THEOREM MirrorNeverBack ==
  ScriptsSpec => [][part = "release" => Publish!MirrorForward]_<<part, slots, releases>>
BY ReleasesInvariant

-----------------------------------------------------------------------------
(* The benchmark, edited under its runs: what a harness prints.  Of its    *)
(* variables s1 is the disk, s2 the driver's locals, s3 the rows, s4 the   *)
(* report.                                                                 *)

\* A row of a harness.
Harnesses == {"sizzlean-fast", "sizzlean-pure", "libssz", "ssz-specs"}
RowOf ==
  [impl : Harnesses, scenario : {"update1", "update1000"},
   root1 : {"ok", "bad"}, root2 : {"ok", "bad"}]

\* Lists of rows, one after the other.
LEMMA RowsFlat ==
  ASSUME NEW S, NEW n \in Nat, NEW ss \in [1 .. n -> Seq(S)]
  PROVE  MovingBench!FlattenSeq(ss) \in Seq(S)
<1>1. DOMAIN ss = 1 .. n /\ Len(ss) = n /\ \A i \in 1 .. n : ss[i] \in Seq(S)
  <2>1. ss \in Seq(Seq(S)) /\ Len(ss) = n
    OBVIOUS
  <2> QED
    BY <2>1
<1>2. CASE n = 0
  <2>1. ss \in Seq(S) /\ Len(ss) = 0
    BY <1>1, <1>2
  <2> QED
    BY <2>1 DEF MovingBench!FlattenSeq
<1>3. CASE n # 0
  <2> DEFINE h == CHOOSE x : FlatTo(x, ss)
  <2>1. MovingBench!FlattenSeq(ss) = h[n]
    BY <1>1, <1>3 DEF MovingBench!FlattenSeq, FlatTo
  <2>2. n \in Nat \ {0}
    BY <1>3
  <2>3. FlatTo(h, ss)
    BY <1>1, <2>2, FlatExists
  <2> HIDE DEF h
  <2>4. h[n] \in Seq(S)
    BY <1>1, <2>2, <2>3, ItemsFlat
  <2> QED
    BY <2>1, <2>4
<1> QED
  BY <1>2, <1>3

\* A harness prints rows.
LEMMA PrintedRows ==
  ASSUME NEW impls \in Seq(Harnesses)
  PROVE  MovingBench!Printed(impls) \in Seq(RowOf)
<1> DEFINE S == RowOf
           Rep(i, s) == [rep \in 1 .. Reps |-> MovingBench!Row(impls[i], MovingBench!SCENARIOS[s])]
           Of(i) == [s \in 1 .. Len(MovingBench!SCENARIOS) |-> Rep(i, s)]
           All == [i \in 1 .. Len(impls) |-> MovingBench!FlattenSeq(Of(i))]
<1>1. /\ Len(MovingBench!SCENARIOS) = 2
      /\ \A s \in 1 .. 2 : MovingBench!SCENARIOS[s] \in {"update1", "update1000"}
  BY DEF MovingBench!SCENARIOS
<1>2. ASSUME NEW i \in 1 .. Len(impls), NEW s \in 1 .. 2
      PROVE  Rep(i, s) \in Seq(S)
  <2> DEFINE row == MovingBench!Row(impls[i], MovingBench!SCENARIOS[s])
  <2>1. row \in S
    <3>1. impls[i] \in Harnesses
      OBVIOUS
    <3>2. MovingBench!SCENARIOS[s] \in {"update1", "update1000"}
      BY <1>1
    <3> QED
      BY <3>1, <3>2 DEF RowOf, MovingBench!Row
  <2> HIDE DEF S, row
  <2>2. Reps \in Nat
    BY BenchAssumption
  <2>3. [rep \in 1 .. Reps |-> row] \in [1 .. Reps -> S]
    BY <2>1
  <2>4. [rep \in 1 .. Reps |-> row] \in Seq(S)
    BY <2>2, <2>3
  <2> QED
    BY <2>4 DEF row
<1>3. ASSUME NEW i \in 1 .. Len(impls)
      PROVE  MovingBench!FlattenSeq(Of(i)) \in Seq(S)
  <2>1. Of(i) \in [1 .. 2 -> Seq(S)]
    <3> HIDE DEF S, Rep
    <3> QED
      BY <1>1, <1>2
  <2> HIDE DEF S, Of
  <2>2. 2 \in Nat
    OBVIOUS
  <2> QED
    BY <2>1, <2>2, RowsFlat
<1>4. All \in [1 .. Len(impls) -> Seq(S)]
  <2> HIDE DEF S, Of
  <2> QED
    BY <1>3
<1>5. Len(impls) \in Nat
  OBVIOUS
<1>6. MovingBench!FlattenSeq(All) \in Seq(S)
  <2> HIDE DEF S, All
  <2> QED
    BY <1>4, <1>5, RowsFlat
<1> QED
  BY <1>6 DEF MovingBench!Printed

\* A harness that misbehaves prints rows as well.
LEMMA MisprintedRows ==
  ASSUME NEW impls \in Seq(Harnesses), NEW p \in MovingBench!Misprinted(impls)
  PROVE  p \in Seq(RowOf)
<1> DEFINE S == RowOf
           q == MovingBench!Printed(impls)
           Lost == {MovingBench!RemoveAt(q, i) : i \in DOMAIN q}
           Twice == {Append(q, q[i]) : i \in DOMAIN q}
           Wrong == {[q EXCEPT ![i][key] = "bad"] : i \in DOMAIN q, key \in MovingBench!KEYS}
           First(s) == [i \in DOMAIN q |->
                          IF q[i].scenario = s THEN [q[i] EXCEPT !.root1 = "bad"] ELSE q[i]]
<1>1. q \in Seq(S)
  BY PrintedRows
<1>2. \A r \in S : /\ [r EXCEPT !.root1 = "bad"] \in S
                   /\ [r EXCEPT !["root1"] = "bad"] \in S
                   /\ [r EXCEPT !["root2"] = "bad"] \in S
  BY DEF RowOf
<1>3. p = <<>> \/ p \in Lost \/ p \in Twice \/ p \in Wrong \/ \E s : p = First(s)
  <2> DEFINE Firsts == {First(s) : s \in MovingBench!Range(MovingBench!SCENARIOS)}
  <2>1. MovingBench!Misprinted(impls) = {<<>>} \cup Lost \cup Twice \cup Wrong \cup Firsts
    BY DEF MovingBench!Misprinted
  <2>2. p \in Firsts => \E s : p = First(s)
    <3> HIDE DEF First
    <3> QED
      OBVIOUS
  <2> HIDE DEF q, Lost, Twice, Wrong, Firsts
  <2> QED
    BY <2>1, <2>2
<1> HIDE DEF S, q
<1>4. Len(q) \in Nat /\ DOMAIN q = 1 .. Len(q) /\ \A i \in 1 .. Len(q) : q[i] \in S
  BY <1>1
<1>5. CASE p = <<>>
  BY <1>5
<1>6. CASE p \in Lost
  <2>1. PICK i \in 1 .. Len(q) : p = SubSeq(q, 1, i - 1) \o SubSeq(q, i + 1, Len(q))
    BY <1>4, <1>6 DEF MovingBench!RemoveAt
  <2>2. SubSeq(q, 1, i - 1) \in Seq(S) /\ SubSeq(q, i + 1, Len(q)) \in Seq(S)
    BY <1>1, <1>4
  <2> QED
    BY <2>1, <2>2 DEF S
<1>7. CASE p \in Twice
  <2>1. PICK i \in 1 .. Len(q) : p = Append(q, q[i])
    BY <1>4, <1>7
  <2>2. q[i] \in S
    BY <1>4
  <2> QED
    BY <1>1, <2>1, <2>2 DEF S
<1>8. CASE p \in Wrong
  <2>1. PICK i \in 1 .. Len(q), key \in {"root1", "root2"} : p = [q EXCEPT ![i][key] = "bad"]
    BY <1>4, <1>8 DEF MovingBench!KEYS
  <2> DEFINE r == [q[i] EXCEPT ![key] = "bad"]
  <2>2. r \in S
    BY <1>2, <1>4, <2>1
  <2>3. p = [q EXCEPT ![i] = r]
    BY <2>1
  <2> HIDE DEF r
  <2> QED
    BY <1>1, <2>2, <2>3 DEF S
<1>9. CASE \E s : p = First(s)
  <2>1. PICK s : p = [i \in DOMAIN q |->
                        IF q[i].scenario = s THEN [q[i] EXCEPT !.root1 = "bad"] ELSE q[i]]
    BY <1>9
  <2>2. p \in [1 .. Len(q) -> S]
    BY <1>2, <1>4, <2>1
  <2> QED
    BY <1>4, <2>2 DEF S
<1> HIDE DEF Lost, Twice, Wrong, First
<1> QED
  BY <1>3, <1>5, <1>6, <1>7, <1>8, <1>9 DEF S

-----------------------------------------------------------------------------
(* The benchmark, edited under its runs: the inductive invariant.          *)

Pins == Revs \cup {MovingBench!NoRev, MovingBench!Absent}
Trio == [lean : Pins, lib : Pins, specs : Pins]

DiskOk(d) ==
  d \in [tree : Revs, commit : Revs, lib : Revs, cargo : SUBSET Revs, specs : Revs,
         lean : Pins, rust : Pins, venv : [Revs -> Pins]]

LocalsOk(r) ==
  /\ r \in [pc : {"idle", "reuse", "lean", "lib", "venv", "install", "emit", "sizzlean", "libssz",
                 "ssz-specs", "check", "render", "write"},
           skip : BOOLEAN, lib : Pins, specs : Pins, fixture : {"", "ok", "bad"},
           ran : Trio, touched : BOOLEAN, draft : {r.draft}]
  /\ r.pc = "reuse" => r.skip
  /\ r.pc # "idle" => r.specs \in Revs

\* What the driver knows of a run that builds, as long as nothing was edited under it:
\* the pins are those on disk, and each binary is built, then run, from its pin.
Begun(r, d) == r.pc # "idle" => r.lib = d.lib /\ r.specs = d.specs
BuiltLean(r, d) == r.pc \notin {"idle", "reuse", "lean"} => d.lean = d.tree
BuiltLib(r, d) == r.pc \notin {"idle", "reuse", "lean", "lib"} => d.rust = r.lib
BuiltSpecs(r, d) ==
  r.pc \notin {"idle", "reuse", "lean", "lib", "venv", "install"} =>
    r.specs \in Revs /\ d.venv[r.specs] = r.specs
RanLean(r, d) ==
  r.pc \in {"libssz", "ssz-specs", "check", "render", "write"} => r.ran.lean = d.lean
RanLib(r, d) == r.pc \in {"ssz-specs", "check", "render", "write"} => r.ran.lib = d.rust
RanSpecs(r, d) == r.pc \in {"check", "render", "write"} => r.ran.specs = d.venv[r.specs]

Measured(r, d) ==
  /\ Begun(r, d) /\ BuiltLean(r, d) /\ BuiltLib(r, d) /\ BuiltSpecs(r, d)
  /\ RanLean(r, d) /\ RanLib(r, d) /\ RanSpecs(r, d)

\* What a report promises.
RowsOneRoot(rows) ==
  /\ \A s \in MovingBench!Range(MovingBench!SCENARIOS), key \in MovingBench!KEYS :
       LET of == {q \in MovingBench!Range(rows) : q.scenario = s}
       IN MovingBench!Cardinality({r[key] : r \in of}) = 1
  /\ MovingBench!Cardinality({r.root1 : r \in MovingBench!Range(rows)}) = 1

NamesMeasured(r) ==
  r.built /\ ~ r.touched =>
    /\ r.ran.lib = r.names.lib
    /\ r.ran.specs = r.names.specs
    /\ r.ran.lean = r.names.lean <=> r.clean

Honest(r) == RowsOneRoot(r.rows) /\ NamesMeasured(r)

BenchInv ==
  /\ DiskOk(s1) /\ LocalsOk(s2) /\ s3 \in Seq(RowOf)
  /\ ~ s2.skip /\ ~ s2.touched => Measured(s2, s1)
  /\ s2.pc = "render" => RowsOneRoot(s3)
  /\ s2.pc = "write" => Honest(s2.draft)
  /\ s4 # MovingBench!NoReport => Honest(s4)

\* A fresh clone.
LEMMA BenchStarts ==
  ASSUME MovingBench!Init
  PROVE  BenchInv
<1>1. DiskOk(s1)
  <2>1. PICK r \in Revs :
          s1 = [tree |-> r, commit |-> r, lib |-> r, cargo |-> {r}, specs |-> r,
                lean |-> MovingBench!NoRev, rust |-> MovingBench!NoRev,
                venv |-> [s \in Revs |-> MovingBench!Absent]]
    BY DEF MovingBench!Init
  <2>2. [s \in Revs |-> MovingBench!Absent] \in [Revs -> Pins]
    BY DEF Pins
  <2>3. MovingBench!NoRev \in Pins
    BY DEF Pins
  <2> QED
    BY <2>1, <2>2, <2>3 DEF DiskOk
<1>2. s2 = MovingBench!Idle /\ s3 = <<>> /\ s4 = MovingBench!NoReport
  BY DEF MovingBench!Init
<1>3. LocalsOk(s2) /\ s2.pc = "idle"
  BY <1>2 DEF LocalsOk, Trio, Pins, MovingBench!Idle, MovingBench!NoRevs
<1>4. Measured(s2, s1)
  BY <1>3 DEF Measured, Begun, BuiltLean, BuiltLib, BuiltSpecs, RanLean, RanLib, RanSpecs
<1> QED
  BY <1>1, <1>2, <1>3, <1>4 DEF BenchInv

\* The driver gives up, or is interrupted.
LEMMA GivesUp ==
  ASSUME BenchInv, DiskOk(s1'), s2' = MovingBench!Idle, s3' \in Seq(RowOf), s4' = s4
  PROVE  BenchInv'
<1>1. LocalsOk(s2') /\ s2'.pc = "idle"
  BY DEF LocalsOk, Trio, Pins, MovingBench!Idle, MovingBench!NoRevs
<1>2. Measured(s2', s1')
  BY <1>1 DEF Measured, Begun, BuiltLean, BuiltLib, BuiltSpecs, RanLean, RanLib, RanSpecs
<1> QED
  BY <1>1, <1>2 DEF BenchInv

\* A step of the driver from one place to the next.
LEMMA GoesOn ==
  ASSUME BenchInv, DiskOk(s1'), s3' \in Seq(RowOf), s4' = s4, s2.pc # "idle",
         NEW to \in {"lib", "venv", "install", "emit", "sizzlean", "libssz", "ssz-specs", "check"},
         s2' = [s2 EXCEPT !.pc = to], ~ s2.skip /\ ~ s2.touched => Measured(s2', s1')
  PROVE  BenchInv'
<1>1. LocalsOk(s2') /\ s2'.pc = to /\ s2'.skip = s2.skip /\ s2'.touched = s2.touched
  BY DEF BenchInv, LocalsOk
<1> QED
  BY <1>1 DEF BenchInv

\* main begins: the pins are read from disk, with or without builds to come.
LEMMA StartKeeps ==
  ASSUME BenchInv, MovingBench!Start
  PROVE  BenchInv'
<1>1. PICK skip \in BOOLEAN :
         s2' = [MovingBench!Idle EXCEPT !.pc = IF skip THEN "reuse" ELSE "lean", !.skip = skip,
                                        !.lib = s1.lib, !.specs = s1.specs]
  BY DEF MovingBench!Start
<1>2. s1' = s1 /\ s3' = <<>> /\ s4' = s4 /\ DiskOk(s1)
  BY DEF MovingBench!Start, BenchInv
<1>3. s1.lib \in Pins /\ s1.specs \in Pins /\ s1.specs \in Revs
  BY <1>2 DEF DiskOk, Pins
<1>4. LocalsOk(s2') /\ s2'.pc = (IF skip THEN "reuse" ELSE "lean") /\ s2'.skip = skip
        /\ s2'.lib = s1.lib /\ s2'.specs = s1.specs
  BY <1>1, <1>3 DEF LocalsOk, Trio, Pins, MovingBench!Idle, MovingBench!NoRevs
<1>5. ~ s2'.skip => Measured(s2', s1')
  BY <1>2, <1>4
  DEF Measured, Begun, BuiltLean, BuiltLib, BuiltSpecs, RanLean, RanLib, RanSpecs
<1> QED
  BY <1>2, <1>4, <1>5 DEF BenchInv


\* Nothing edited: what the driver knows of the pins.
LEMMA PinsHeld ==
  ASSUME BenchInv, ~ s2.skip, ~ s2.touched, s2.pc # "idle"
  PROVE  s2.lib = s1.lib /\ s2.specs = s1.specs /\ s2.specs \in Revs
BY DEF BenchInv, Measured, Begun, DiskOk

\* With --skip-build nothing is known of what the binaries were built from.
LEMMA ReuseKeeps ==
  ASSUME BenchInv, MovingBench!Reuse
  PROVE  BenchInv'
<1>1. s1' = s1 /\ s3' = s3 /\ s4' = s4 /\ s2.pc = "reuse"
        /\ (s2' = [s2 EXCEPT !.pc = "emit"] \/ s2' = MovingBench!Idle)
  BY DEF MovingBench!Reuse, MovingBench!Step, MovingBench!Fail
<1>2. DiskOk(s1') /\ s3' \in Seq(RowOf)
  BY <1>1 DEF BenchInv
<1>3. CASE s2' = MovingBench!Idle
  BY <1>1, <1>2, <1>3, GivesUp
<1>4. CASE s2' = [s2 EXCEPT !.pc = "emit"]
  <2>1. s2.skip
    BY <1>1 DEF BenchInv, LocalsOk
  <2> QED
    BY <1>1, <1>2, <1>4, <2>1, GoesOn
<1> QED
  BY <1>1, <1>3, <1>4

\* A build or an install that ends well changes the binary or the venv on disk.
LEMMA BuildSizzLeanKeeps ==
  ASSUME BenchInv, MovingBench!BuildSizzLean
  PROVE  BenchInv'
<1>1. s3' = s3 /\ s4' = s4 /\ s2.pc = "lean" /\ DiskOk(s1) /\ s3' \in Seq(RowOf)
  BY DEF MovingBench!BuildSizzLean, MovingBench!Step, MovingBench!Fail, BenchInv
<1>2. CASE MovingBench!Fail("lean") /\ s1' = s1
  BY <1>1, <1>2, GivesUp DEF MovingBench!Fail
<1>3. CASE s2' = [s2 EXCEPT !.pc = "lib"] /\ s1' = [s1 EXCEPT !.lean = s1.tree]
  <2>1. DiskOk(s1') /\ s1'.lean = s1'.tree /\ s1'.lib = s1.lib /\ s1'.specs = s1.specs
    BY <1>1, <1>3 DEF DiskOk, Pins
  <2>2. s2'.pc = "lib" /\ s2'.lib = s2.lib /\ s2'.specs = s2.specs
    BY <1>3 DEF BenchInv, LocalsOk
  <2>3. ~ s2.skip /\ ~ s2.touched => Measured(s2', s1')
    BY <1>1, <2>1, <2>2, PinsHeld
    DEF Measured, Begun, BuiltLean, BuiltLib, BuiltSpecs, RanLean, RanLib, RanSpecs
  <2> QED
    BY <1>1, <1>3, <2>1, <2>3, GoesOn
<1> QED
  BY <1>2, <1>3 DEF MovingBench!BuildSizzLean, MovingBench!Step

\* The manifest pins what the driver names, so cargo builds that.
LEMMA BuildLibsszKeeps ==
  ASSUME BenchInv, MovingBench!BuildLibssz
  PROVE  BenchInv'
<1>1. s3' = s3 /\ s4' = s4 /\ s2.pc = "lib" /\ DiskOk(s1) /\ s3' \in Seq(RowOf)
  BY DEF MovingBench!BuildLibssz, MovingBench!Step, MovingBench!Fail, BenchInv
<1>2. CASE MovingBench!Fail("lib") /\ s1' = s1
  BY <1>1, <1>2, GivesUp DEF MovingBench!Fail
<1>3. CASE /\ MovingBench!CargoPinAgrees
           /\ s2' = [s2 EXCEPT !.pc = "venv"]
           /\ \E r \in s1.cargo : s1' = [s1 EXCEPT !.rust = r]
  <2>1. PICK r \in s1.cargo : s1' = [s1 EXCEPT !.rust = r]
    BY <1>3
  <2>2. r = s2.lib /\ r \in Revs
    BY <1>1, <1>3 DEF MovingBench!CargoPinAgrees, DiskOk
  <2>3. /\ DiskOk(s1') /\ s1'.lean = s1.lean /\ s1'.tree = s1.tree
        /\ s1'.lib = s1.lib /\ s1'.specs = s1.specs /\ s1'.rust = s2.lib
    BY <1>1, <2>1, <2>2 DEF DiskOk, Pins
  <2>4. s2'.pc = "venv" /\ s2'.lib = s2.lib /\ s2'.specs = s2.specs
    BY <1>3 DEF BenchInv, LocalsOk
  <2>5. ASSUME ~ s2.skip, ~ s2.touched
        PROVE  Measured(s2', s1')
    <3>1. BuiltLean(s2, s1) /\ s2.lib = s1.lib /\ s2.specs = s1.specs
      BY <1>1, <2>5, PinsHeld DEF BenchInv, Measured
    <3> QED
      BY <1>1, <2>3, <2>4, <3>1
      DEF Measured, Begun, BuiltLean, BuiltLib, BuiltSpecs, RanLean, RanLib, RanSpecs
  <2> QED
    BY <1>1, <1>3, <2>3, <2>5, GoesOn
<1> QED
  BY <1>2, <1>3 DEF MovingBench!BuildLibssz, MovingBench!Step

\* The venv read, cleared or filled.
LEMMA VenvChanged ==
  ASSUME DiskOk(s1), NEW STATE rev, rev \in Pins, NEW STATE at, s1' = [s1 EXCEPT !.venv[at] = rev]
  PROVE  /\ DiskOk(s1') /\ s1'.lean = s1.lean /\ s1'.tree = s1.tree /\ s1'.rust = s1.rust
         /\ s1'.lib = s1.lib /\ s1'.specs = s1.specs
         /\ at \in Revs => s1'.venv[at] = rev
<1>1. s1.venv \in [Revs -> Pins]
  BY DEF DiskOk
<1> DEFINE v == [s1.venv EXCEPT ![at] = rev]
<1>2. v \in [Revs -> Pins] /\ (at \in Revs => v[at] = rev)
  BY <1>1
<1>3. s1' = [s1 EXCEPT !.venv = v]
  OBVIOUS
<1> HIDE DEF v
<1> QED
  BY <1>2, <1>3 DEF DiskOk

\* A venv that reads back as the pin is kept, another one is cleared.
LEMMA ProbeVenvKeeps ==
  ASSUME BenchInv, MovingBench!ProbeVenv
  PROVE  BenchInv'
<1>1. s3' = s3 /\ s4' = s4 /\ s2.pc = "venv" /\ DiskOk(s1) /\ s3' \in Seq(RowOf)
  BY DEF MovingBench!ProbeVenv, BenchInv
<1>2. CASE /\ s1.venv[s2.specs] = s2.specs /\ s1' = s1
           /\ s2' = [s2 EXCEPT !.pc = "emit"]
  <2>1. s2'.pc = "emit" /\ s2'.lib = s2.lib /\ s2'.specs = s2.specs
    BY <1>2 DEF BenchInv, LocalsOk
  <2>2. ASSUME ~ s2.skip, ~ s2.touched
        PROVE  Measured(s2', s1')
    <3>1. /\ BuiltLean(s2, s1) /\ BuiltLib(s2, s1)
          /\ s2.lib = s1.lib /\ s2.specs = s1.specs /\ s2.specs \in Revs
      BY <1>1, <2>2, PinsHeld DEF BenchInv, Measured
    <3> QED
      BY <1>1, <1>2, <2>1, <3>1
      DEF Measured, Begun, BuiltLean, BuiltLib, BuiltSpecs, RanLean, RanLib, RanSpecs
  <2> QED
    BY <1>1, <1>2, <2>2, GoesOn
<1>3. CASE /\ s1' = [s1 EXCEPT !.venv[s2.specs] = MovingBench!NoRev]
           /\ s2' = [s2 EXCEPT !.pc = "install"]
  <2>1. s2'.pc = "install" /\ s2'.lib = s2.lib /\ s2'.specs = s2.specs
    BY <1>3 DEF BenchInv, LocalsOk
  <2>2. MovingBench!NoRev \in Pins
    BY DEF Pins
  <2>3. /\ DiskOk(s1') /\ s1'.lean = s1.lean /\ s1'.tree = s1.tree /\ s1'.rust = s1.rust
        /\ s1'.lib = s1.lib /\ s1'.specs = s1.specs
    BY <1>1, <1>3, <2>2, VenvChanged
  <2>4. ASSUME ~ s2.skip, ~ s2.touched
        PROVE  Measured(s2', s1')
    <3>1. /\ BuiltLean(s2, s1) /\ BuiltLib(s2, s1)
          /\ s2.lib = s1.lib /\ s2.specs = s1.specs
      BY <1>1, <2>4, PinsHeld DEF BenchInv, Measured
    <3> QED
      BY <1>1, <2>1, <2>3, <3>1
      DEF Measured, Begun, BuiltLean, BuiltLib, BuiltSpecs, RanLean, RanLib, RanSpecs
  <2> QED
    BY <1>1, <1>3, <2>3, <2>4, GoesOn
<1> QED
  BY <1>1, <1>2, <1>3 DEF MovingBench!ProbeVenv, MovingBench!Step

\* An install is used only when the commit it reads back is the pin.
LEMMA InstallKeeps ==
  ASSUME BenchInv, MovingBench!Install
  PROVE  BenchInv'
<1>1. s3' = s3 /\ s4' = s4 /\ s2.pc = "install" /\ DiskOk(s1) /\ s3' \in Seq(RowOf)
  BY DEF MovingBench!Install, MovingBench!Step, MovingBench!Fail, BenchInv
<1>2. CASE MovingBench!Fail("install") /\ s1' = s1
  BY <1>1, <1>2, GivesUp DEF MovingBench!Fail
<1>3. CASE /\ MovingBench!Fail("install")
           /\ \E r \in Revs \ {s2.specs} : s1' = [s1 EXCEPT !.venv[s2.specs] = r]
  <2>1. PICK r \in Revs : s1' = [s1 EXCEPT !.venv[s2.specs] = r]
    BY <1>3
  <2>2. DiskOk(s1')
    <3>1. r \in Pins
      BY DEF Pins
    <3> QED
      BY <1>1, <2>1, <3>1, VenvChanged
  <2> QED
    BY <1>1, <1>3, <2>2, GivesUp DEF MovingBench!Fail
<1>4. CASE /\ s1' = [s1 EXCEPT !.venv[s2.specs] = s2.specs]
           /\ s2' = [s2 EXCEPT !.pc = "emit"]
  <2>1. s2'.pc = "emit" /\ s2'.lib = s2.lib /\ s2'.specs = s2.specs /\ s2.specs \in Pins
    BY <1>4 DEF BenchInv, LocalsOk
  <2>2. /\ DiskOk(s1') /\ s1'.lean = s1.lean /\ s1'.tree = s1.tree /\ s1'.rust = s1.rust
        /\ s1'.lib = s1.lib /\ s1'.specs = s1.specs
        /\ s2.specs \in Revs => s1'.venv[s2.specs] = s2.specs
    BY <1>1, <1>4, <2>1, VenvChanged
  <2>3. ASSUME ~ s2.skip, ~ s2.touched
        PROVE  Measured(s2', s1')
    <3>1. /\ BuiltLean(s2, s1) /\ BuiltLib(s2, s1)
          /\ s2.lib = s1.lib /\ s2.specs = s1.specs /\ s2.specs \in Revs
      BY <1>1, <2>3, PinsHeld DEF BenchInv, Measured
    <3> QED
      BY <1>1, <2>1, <2>2, <3>1
      DEF Measured, Begun, BuiltLean, BuiltLib, BuiltSpecs, RanLean, RanLib, RanSpecs
  <2> QED
    BY <1>1, <1>4, <2>2, <2>3, GoesOn
<1> QED
  BY <1>2, <1>3, <1>4 DEF MovingBench!Install, MovingBench!Step

\* The fixture, with its root on stderr or without.
LEMMA EmitFixtureKeeps ==
  ASSUME BenchInv, MovingBench!EmitFixture
  PROVE  BenchInv'
<1>1. s1' = s1 /\ s3' = s3 /\ s4' = s4 /\ s2.pc = "emit" /\ DiskOk(s1') /\ s3' \in Seq(RowOf)
  BY DEF MovingBench!EmitFixture, MovingBench!Fail, BenchInv
<1>2. CASE s2' = MovingBench!Idle
  BY <1>1, <1>2, GivesUp
<1>3. CASE \E root \in {"", "ok", "bad"} : s2' = [s2 EXCEPT !.pc = "sizzlean", !.fixture = root]
  <2>1. /\ LocalsOk(s2') /\ s2'.pc = "sizzlean" /\ s2'.lib = s2.lib /\ s2'.specs = s2.specs
        /\ s2'.skip = s2.skip /\ s2'.touched = s2.touched
    BY <1>1, <1>3 DEF BenchInv, LocalsOk
  <2>2. ASSUME ~ s2.skip, ~ s2.touched
        PROVE  Measured(s2', s1')
    <3>1. Measured(s2, s1)
      BY <2>2 DEF BenchInv
    <3> QED
      BY <1>1, <2>1, <3>1
      DEF Measured, Begun, BuiltLean, BuiltLib, BuiltSpecs, RanLean, RanLib, RanSpecs
  <2> QED
    BY <1>1, <2>1, <2>2 DEF BenchInv
<1> QED
  BY <1>2, <1>3 DEF MovingBench!EmitFixture, MovingBench!Fail

\* The locals after a harness of lib ran at rev.
AfterHarness(to, lib, rev) == [s2 EXCEPT !.pc = to, !.ran[lib] = rev]

\* A harness that runs: the rows it prints are rows.
LEMMA HarnessRows ==
  ASSUME BenchInv, NEW from, NEW to, NEW lib, NEW STATE rev, NEW impls \in Seq(Harnesses),
         MovingBench!RunHarness(from, to, lib, impls, rev)
  PROVE  /\ s1' = s1 /\ s4' = s4 /\ s2.pc = from /\ DiskOk(s1') /\ s3' \in Seq(RowOf)
         /\ s2' # MovingBench!Idle => s2' = AfterHarness(to, lib, rev)
<1>1. /\ s1' = s1 /\ s4' = s4 /\ s2.pc = from /\ DiskOk(s1')
      /\ s2' # MovingBench!Idle => s2' = AfterHarness(to, lib, rev)
  BY DEF AfterHarness, MovingBench!RunHarness, BenchInv
<1>2. s3 \in Seq(RowOf)
  BY DEF BenchInv
<1>3. s3' = s3 \/ \E p \in Seq(RowOf) : s3' = s3 \o p
  <2>1. \/ s3' = s3 \/ s3' = s3 \o MovingBench!Printed(impls)
        \/ \E p \in MovingBench!Misprinted(impls) : s3' = s3 \o p
    BY DEF MovingBench!RunHarness
  <2> QED
    BY <2>1, PrintedRows, MisprintedRows
<1>4. s3' \in Seq(RowOf)
  <2> DEFINE S == RowOf
  <2>1. s3 \in Seq(S) /\ (s3' = s3 \/ \E p \in Seq(S) : s3' = s3 \o p)
    BY <1>2, <1>3
  <2> HIDE DEF S
  <2>2. s3' \in Seq(S)
    <3>1. CASE s3' = s3
      BY <2>1, <3>1
    <3>2. ASSUME NEW p \in Seq(S), s3' = s3 \o p
          PROVE  s3' \in Seq(S)
      <4>1. s3 \in Seq(S)
        BY <2>1
      <4>2. s3 \o p \in Seq(S)
        BY <4>1
      <4> QED
        BY <3>2, <4>2
    <3> QED
      BY <2>1, <3>1, <3>2
  <2> QED
    BY <2>2 DEF S
<1> QED
  BY <1>1, <1>4

\* The three harnesses: what each ran is what was built for it.
LEMMA RunSizzLeanKeeps ==
  ASSUME BenchInv, MovingBench!RunSizzLean
  PROVE  BenchInv'
<1>1. SubSeq(MovingBench!IMPLS, 1, 2) \in Seq(Harnesses)
  BY DEF MovingBench!IMPLS, Harnesses
<1>2. /\ s1' = s1 /\ s4' = s4 /\ s2.pc = "sizzlean" /\ DiskOk(s1') /\ s3' \in Seq(RowOf)
      /\ s2' # MovingBench!Idle => s2' = AfterHarness("libssz", "lean", s1.lean)
  <2> DEFINE impls == SubSeq(MovingBench!IMPLS, 1, 2)
  <2>1. MovingBench!RunHarness("sizzlean", "libssz", "lean", impls, s1.lean)
    BY DEF MovingBench!RunSizzLean
  <2> HIDE DEF impls
  <2> QED
    BY <1>1, <2>1, HarnessRows DEF impls
<1>3. CASE s2' = MovingBench!Idle
  BY <1>2, <1>3, GivesUp
<1>4. CASE s2' # MovingBench!Idle
  <2> DEFINE ran == [s2.ran EXCEPT !.lean = s1.lean]
  <2>3. ran \in Trio /\ ran.lean = s1.lean
    BY DEF BenchInv, LocalsOk, DiskOk, Trio
  <2>4. s2' = [s2 EXCEPT !.pc = "libssz", !.ran = ran]
    BY <1>2, <1>4 DEF AfterHarness
  <2> HIDE DEF ran
  <2>1. /\ LocalsOk(s2') /\ s2'.pc = "libssz" /\ s2'.lib = s2.lib /\ s2'.specs = s2.specs
        /\ s2'.skip = s2.skip /\ s2'.touched = s2.touched /\ s2'.ran.lean = s1.lean
    BY <1>2, <2>3, <2>4 DEF BenchInv, LocalsOk
  <2>2. ASSUME ~ s2.skip, ~ s2.touched
        PROVE  Measured(s2', s1')
    <3>1. Measured(s2, s1)
      BY <2>2 DEF BenchInv
    <3> QED
      BY <1>2, <2>1, <3>1
      DEF Measured, Begun, BuiltLean, BuiltLib, BuiltSpecs, RanLean, RanLib, RanSpecs
  <2> QED
    BY <1>2, <2>1, <2>2 DEF BenchInv
<1> QED
  BY <1>3, <1>4

\* libssz ran what cargo built.
LEMMA RunLibsszKeeps ==
  ASSUME BenchInv, MovingBench!RunLibssz
  PROVE  BenchInv'
<1>1. <<"libssz">> \in Seq(Harnesses)
  BY DEF Harnesses
<1>2. /\ s1' = s1 /\ s4' = s4 /\ s2.pc = "libssz" /\ DiskOk(s1') /\ s3' \in Seq(RowOf)
      /\ s2' # MovingBench!Idle => s2' = AfterHarness("ssz-specs", "lib", s1.rust)
  <2>1. MovingBench!RunHarness("libssz", "ssz-specs", "lib", <<"libssz">>, s1.rust)
    BY DEF MovingBench!RunLibssz
  <2> QED
    BY <1>1, <2>1, HarnessRows
<1>3. CASE s2' = MovingBench!Idle
  BY <1>2, <1>3, GivesUp
<1>4. CASE s2' # MovingBench!Idle
  <2> DEFINE ran == [s2.ran EXCEPT !.lib = s1.rust]
  <2>3. ran \in Trio /\ ran.lean = s2.ran.lean /\ ran.lib = s1.rust
    BY DEF BenchInv, LocalsOk, DiskOk, Trio
  <2>4. s2' = [s2 EXCEPT !.pc = "ssz-specs", !.ran = ran]
    BY <1>2, <1>4 DEF AfterHarness
  <2> HIDE DEF ran
  <2>1. /\ LocalsOk(s2') /\ s2'.pc = "ssz-specs" /\ s2'.lib = s2.lib /\ s2'.specs = s2.specs
        /\ s2'.skip = s2.skip /\ s2'.touched = s2.touched
        /\ s2'.ran.lean = s2.ran.lean /\ s2'.ran.lib = s1.rust
    BY <1>2, <2>3, <2>4 DEF BenchInv, LocalsOk
  <2>2. ASSUME ~ s2.skip, ~ s2.touched
        PROVE  Measured(s2', s1')
    <3>1. Measured(s2, s1)
      BY <2>2 DEF BenchInv
    <3> QED
      BY <1>2, <2>1, <3>1
      DEF Measured, Begun, BuiltLean, BuiltLib, BuiltSpecs, RanLean, RanLib, RanSpecs
  <2> QED
    BY <1>2, <2>1, <2>2 DEF BenchInv
<1> QED
  BY <1>3, <1>4

\* ssz-specs ran what its venv holds.
LEMMA RunSszSpecsKeeps ==
  ASSUME BenchInv, MovingBench!RunSszSpecs
  PROVE  BenchInv'
<1> DEFINE rev == s1.venv[s2.specs]
<1>1. <<"ssz-specs">> \in Seq(Harnesses)
  BY DEF Harnesses
<1>2. /\ s1' = s1 /\ s4' = s4 /\ s2.pc = "ssz-specs" /\ DiskOk(s1') /\ s3' \in Seq(RowOf)
      /\ s2' # MovingBench!Idle => s2' = AfterHarness("check", "specs", rev)
  <2> DEFINE impls == <<"ssz-specs">>
  <2>1. impls \in Seq(Harnesses)
    BY <1>1
  <2>2. MovingBench!RunHarness("ssz-specs", "check", "specs", impls, rev)
    BY DEF MovingBench!RunSszSpecs
  <2> HIDE DEF rev, impls
  <2> QED
    BY <2>1, <2>2, HarnessRows
<1>3. CASE s2' = MovingBench!Idle
  BY <1>2, <1>3, GivesUp
<1>4. CASE s2' # MovingBench!Idle
  <2> DEFINE ran == [s2.ran EXCEPT !.specs = rev]
  <2>1. rev \in Pins
    BY <1>2 DEF BenchInv, LocalsOk, DiskOk
  <2>4. s2' = [s2 EXCEPT !.pc = "check", !.ran = ran]
    BY <1>2, <1>4 DEF AfterHarness
  <2> HIDE DEF rev
  <2>5. /\ ran \in Trio /\ ran.lean = s2.ran.lean /\ ran.lib = s2.ran.lib
        /\ ran.specs = rev
    BY <2>1 DEF BenchInv, LocalsOk, Trio
  <2> HIDE DEF ran
  <2>2. /\ LocalsOk(s2') /\ s2'.pc = "check" /\ s2'.lib = s2.lib /\ s2'.specs = s2.specs
        /\ s2'.skip = s2.skip /\ s2'.touched = s2.touched
        /\ s2'.ran.lean = s2.ran.lean /\ s2'.ran.lib = s2.ran.lib /\ s2'.ran.specs = rev
    BY <1>2, <2>4, <2>5 DEF BenchInv, LocalsOk
  <2>3. ASSUME ~ s2.skip, ~ s2.touched
        PROVE  Measured(s2', s1')
    <3>1. Measured(s2, s1)
      BY <2>3 DEF BenchInv
    <3> QED
      BY <1>2, <2>2, <3>1
      DEF rev, Measured, Begun, BuiltLean, BuiltLib, BuiltSpecs, RanLean, RanLib, RanSpecs
  <2> QED
    BY <1>2, <2>2, <2>3 DEF BenchInv
<1> QED
  BY <1>3, <1>4

\* Both checks passed: the rows of each scenario have one root, and the scenarios the same.
LEMMA CheckedRows ==
  ASSUME s3 \in Seq(RowOf), MovingBench!RootsAgree
  PROVE  RowsOneRoot(s3)
<1> DEFINE D(s, key) == MovingBench!Distinct(s, key)
           All == {r.root1 : r \in MovingBench!Range(s3)}
<1>1. /\ \A s \in MovingBench!Range(MovingBench!SCENARIOS), key \in MovingBench!KEYS :
           MovingBench!Cardinality(D(s, key)) = 1
      /\ D("update1", "root1") = D("update1000", "root1")
  BY DEF MovingBench!RootsAgree
<1>2. "update1" \in MovingBench!Range(MovingBench!SCENARIOS) /\ "root1" \in MovingBench!KEYS
  <2>1. DOMAIN MovingBench!SCENARIOS = 1 .. 2 /\ MovingBench!SCENARIOS[1] = "update1"
    BY DEF MovingBench!SCENARIOS
  <2> QED
    BY <2>1 DEF MovingBench!Range, MovingBench!KEYS
<1>3. \A r \in MovingBench!Range(s3) : r \in RowOf
  BY DEF MovingBench!Range
<1>4. All = D("update1", "root1") \cup D("update1000", "root1")
  <2>1. \A r \in MovingBench!Range(s3) : r.scenario \in {"update1", "update1000"}
    BY <1>3 DEF RowOf
  <2>2. /\ D("update1", "root1")
             = {r["root1"] : r \in {q \in MovingBench!Range(s3) : q.scenario = "update1"}}
        /\ D("update1000", "root1")
             = {r["root1"] : r \in {q \in MovingBench!Range(s3) : q.scenario = "update1000"}}
    BY DEF MovingBench!Distinct
  <2> HIDE DEF D
  <2> QED
    BY <2>1, <2>2
<1>5. MovingBench!Cardinality(All) = 1
  <2> HIDE DEF D, All
  <2> QED
    BY <1>1, <1>2, <1>4
<1> QED
  BY <1>1, <1>5 DEF RowsOneRoot, MovingBench!Distinct

\* Only rows that agree are rendered.
LEMMA CheckKeeps ==
  ASSUME BenchInv, MovingBench!Check
  PROVE  BenchInv'
<1>1. s1' = s1 /\ s3' = s3 /\ s4' = s4 /\ s2.pc = "check" /\ DiskOk(s1') /\ s3' \in Seq(RowOf)
  BY DEF MovingBench!Check, MovingBench!Fail, MovingBench!Step, BenchInv
<1>2. CASE s2' = MovingBench!Idle
  BY <1>1, <1>2, GivesUp
<1>3. CASE MovingBench!RootsAgree /\ s2' = [s2 EXCEPT !.pc = "render"]
  <2>1. /\ LocalsOk(s2') /\ s2'.pc = "render" /\ s2'.lib = s2.lib /\ s2'.specs = s2.specs
        /\ s2'.skip = s2.skip /\ s2'.touched = s2.touched /\ s2'.ran = s2.ran
    BY <1>1, <1>3 DEF BenchInv, LocalsOk
  <2>2. ASSUME ~ s2.skip, ~ s2.touched
        PROVE  Measured(s2', s1')
    <3>1. Measured(s2, s1)
      BY <2>2 DEF BenchInv
    <3> QED
      BY <1>1, <2>1, <3>1
      DEF Measured, Begun, BuiltLean, BuiltLib, BuiltSpecs, RanLean, RanLib, RanSpecs
  <2>3. RowsOneRoot(s3')
    <3>1. RowsOneRoot(s3)
      BY <1>3, CheckedRows DEF BenchInv
    <3> QED
      BY <1>1, <3>1
  <2> QED
    BY <1>1, <2>1, <2>2, <2>3 DEF BenchInv
<1> QED
  BY <1>2, <1>3 DEF MovingBench!Check, MovingBench!Fail, MovingBench!Step

\* The draft names the commit of HEAD and the pins: those measured, on a clean tree.
LEMMA RenderKeeps ==
  ASSUME BenchInv, MovingBench!Render
  PROVE  BenchInv'
<1> DEFINE tables == MovingBench!Tables
           roots == [p \in MovingBench!Range(MovingBench!SCENARIOS) \X MovingBench!KEYS |->
                       MovingBench!Distinct(p[1], p[2])]
           d == [names |-> [lean |-> s1.commit, lib |-> s2.lib, specs |-> s2.specs],
                 clean |-> MovingBench!CleanCheckout, ran |-> s2.ran, built |-> ~ s2.skip,
                 touched |-> s2.touched, rows |-> s3, tables |-> tables, roots |-> roots]
<1>1. /\ s1' = s1 /\ s3' = s3 /\ s4' = s4 /\ s2.pc = "render" /\ DiskOk(s1')
      /\ s3' \in Seq(RowOf) /\ s2' = [s2 EXCEPT !.pc = "write", !.draft = d]
  BY DEF MovingBench!Render, BenchInv
<1> HIDE DEF tables, roots
<1>2. /\ d.rows = s3 /\ d.built = ~ s2.skip /\ d.touched = s2.touched /\ d.ran = s2.ran
      /\ d.names.lib = s2.lib /\ d.names.specs = s2.specs /\ d.names.lean = s1.commit
      /\ d.clean = MovingBench!CleanCheckout
  OBVIOUS
<1> HIDE DEF d
<1>3. /\ LocalsOk(s2') /\ s2'.pc = "write" /\ s2'.lib = s2.lib /\ s2'.specs = s2.specs
      /\ s2'.skip = s2.skip /\ s2'.touched = s2.touched /\ s2'.ran = s2.ran /\ s2'.draft = d
  BY <1>1 DEF BenchInv, LocalsOk
<1>4. ASSUME ~ s2.skip, ~ s2.touched
      PROVE  Measured(s2', s1') /\ NamesMeasured(d)
  <2>1. Measured(s2, s1)
    BY <1>4 DEF BenchInv
  <2>2. Measured(s2', s1')
    BY <1>1, <1>3, <2>1
    DEF Measured, Begun, BuiltLean, BuiltLib, BuiltSpecs, RanLean, RanLib, RanSpecs
  <2>3. /\ s2.ran.lib = s2.lib /\ s2.ran.specs = s2.specs /\ s2.ran.lean = s1.tree
    BY <1>1, <2>1
    DEF Measured, Begun, BuiltLean, BuiltLib, BuiltSpecs, RanLean, RanLib, RanSpecs
  <2>4. NamesMeasured(d)
    BY <1>2, <2>3 DEF NamesMeasured, MovingBench!CleanCheckout
  <2> QED
    BY <2>2, <2>4
<1>5. NamesMeasured(d)
  <2>1. s2.skip \in BOOLEAN /\ s2.touched \in BOOLEAN
    BY DEF BenchInv, LocalsOk
  <2> QED
    BY <1>2, <1>4, <2>1 DEF NamesMeasured
<1>6. RowsOneRoot(d.rows)
  BY <1>1, <1>2 DEF BenchInv
<1> QED
  BY <1>1, <1>3, <1>4, <1>5, <1>6 DEF BenchInv, Honest

\* The draft becomes the report.
LEMMA WriteReportKeeps ==
  ASSUME BenchInv, MovingBench!WriteReport
  PROVE  BenchInv'
<1>1. /\ s1' = s1 /\ s3' = s3 /\ s4' = s2.draft /\ s2' = MovingBench!Idle /\ Honest(s2.draft)
  BY DEF MovingBench!WriteReport, BenchInv
<1>2. LocalsOk(s2') /\ s2'.pc = "idle"
  BY <1>1 DEF LocalsOk, Trio, Pins, MovingBench!Idle, MovingBench!NoRevs
<1>3. Measured(s2', s1')
  BY <1>2 DEF Measured, Begun, BuiltLean, BuiltLib, BuiltSpecs, RanLean, RanLib, RanSpecs
<1> QED
  BY <1>1, <1>2, <1>3 DEF BenchInv

\* An interrupt ends the run wherever it is.
LEMMA InterruptKeeps ==
  ASSUME BenchInv, MovingBench!Interrupt
  PROVE  BenchInv'
BY GivesUp DEF MovingBench!Interrupt, BenchInv

\* An edit is between runs, or marks the one it happens under.
LEMMA EditKeeps ==
  ASSUME BenchInv, MovingBench!Edit
  PROVE  BenchInv'
<1>1. s3' = s3 /\ s4' = s4 /\ DiskOk(s1)
  BY DEF MovingBench!Edit, BenchInv
<1>2. DiskOk(s1')
  BY <1>1 DEF DiskOk, MovingBench!Edit
<1>3. CASE s2.pc = "idle"
  <2>1. s2' = s2
    BY <1>3 DEF MovingBench!Edit
  <2>2. Measured(s2', s1')
    BY <1>3, <2>1
    DEF Measured, Begun, BuiltLean, BuiltLib, BuiltSpecs, RanLean, RanLib, RanSpecs
  <2> QED
    BY <1>1, <1>2, <2>1, <2>2 DEF BenchInv
<1>4. CASE s2.pc # "idle"
  <2>1. s2' = [s2 EXCEPT !.touched = TRUE]
    BY <1>4 DEF MovingBench!Edit
  <2>2. LocalsOk(s2') /\ s2'.touched /\ s2'.pc = s2.pc /\ s2'.draft = s2.draft
    BY <2>1 DEF BenchInv, LocalsOk
  <2> QED
    BY <1>1, <1>2, <2>2 DEF BenchInv
<1> QED
  BY <1>3, <1>4

\* Every step.
LEMMA BenchStep ==
  ASSUME BenchInv, MovingBench!Next
  PROVE  BenchInv'
BY StartKeeps, ReuseKeeps, BuildSizzLeanKeeps, BuildLibsszKeeps, ProbeVenvKeeps, InstallKeeps,
   EmitFixtureKeeps, RunSizzLeanKeeps, RunLibsszKeeps, RunSszSpecsKeeps, CheckKeeps, RenderKeeps,
   WriteReportKeeps, InterruptKeeps, EditKeeps
DEF MovingBench!Next

\* What the invariant says of a report.
LEMMA BenchMeans ==
  ASSUME BenchInv
  PROVE  MovingBench!ReportedRowsAgree /\ MovingBench!BuiltNamesMeasured
BY DEF BenchInv, Honest, RowsOneRoot, NamesMeasured, MovingBench!Reported,
       MovingBench!ReportedRowsAgree, MovingBench!BuiltNamesMeasured

\* The part "moving", where all this happens.
BenchPart == part = "moving" => BenchInv

\* Any step of the scripts keeps it.
LEMMA BenchPartStep == BenchPart /\ [ScriptsNext]_<<part, slots, releases>> => BenchPart'
<1> SUFFICES ASSUME BenchPart, [ScriptsNext]_<<part, slots, releases>>, part' = "moving"
             PROVE  BenchInv'
  BY DEF BenchPart
<1>1. part = "moving"
  BY DEF ScriptsNext
<1>2. BenchInv
  BY <1>1 DEF BenchPart
<1>3. CASE MovingBench!Next
  BY <1>2, <1>3, BenchStep
<1>4. CASE UNCHANGED <<part, slots, releases>>
  <2>1. s1' = s1 /\ s2' = s2 /\ s3' = s3 /\ s4' = s4
    BY <1>4 DEF slots
  <2> QED
    BY <1>2, <2>1
    DEF BenchInv, Measured, Begun, BuiltLean, BuiltLib, BuiltSpecs, RanLean, RanLib, RanSpecs
<1> QED
  BY <1>1, <1>3, <1>4 DEF ScriptsNext

\* comparative_benchmark: whatever fails, whatever a harness prints, however often the
\* driver is run and the sources and pins are edited under it, a report stands on rows
\* that agree on their roots; and where it built everything and nothing was edited
\* meanwhile, it names what was measured, SizzLean's revision only of a clean tree.
THEOREM ReportsHonest ==
  ScriptsSpec =>
    [](part = "moving" => MovingBench!ReportedRowsAgree /\ MovingBench!BuiltNamesMeasured)
<1>1. ScriptsInit => BenchPart
  BY BenchStarts DEF ScriptsInit, BenchPart
<1>2. BenchPart =>
        (part = "moving" => MovingBench!ReportedRowsAgree /\ MovingBench!BuiltNamesMeasured)
  BY BenchMeans DEF BenchPart
<1> QED
  BY <1>1, <1>2, BenchPartStep, PTL DEF ScriptsSpec

=============================================================================

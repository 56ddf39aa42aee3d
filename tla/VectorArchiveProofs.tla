------------------------ MODULE VectorArchiveProofs ------------------------
(***************************************************************************)
(* Theorems about VectorArchive, for any number of workers and archive     *)
(* members.  The workers truncate the tarball and the files under each     *)
(* other; what saves a session is that whoever undid something still has   *)
(* it ahead of him: the invariants name, for every member not in place, a  *)
(* worker that will put it there or that failed.                           *)
(***************************************************************************)
EXTENDS VectorArchive, TLAPS

(* A release has vectors, and None is no tarball. *)
Sizes ==
  /\ Members \in Nat \ {0}
  /\ MaxSessions \in Nat
  /\ MaxFailures \in Nat
  /\ \A S \in SUBSET All : S # None

LEMMA AllFacts ==
  ASSUME Sizes
  PROVE  1 \in All /\ Members \in All /\ \A k \in All : k \in Nat
BY DEF Sizes, All

(* Past `if not tarball.exists()` the file exists, and it is never deleted.*)
TarballThere ==
  /\ \A w \in Workers : pc[w] \in {"write", "open", "extract", "fill"} => tarball # None
  /\ TestsIsDir => tarball # None

TInv == TypeOK /\ TarballThere

LEMMA TypeInit == ASSUME Sizes PROVE Init => TInv
BY AllFacts DEF Init, TInv, TypeOK, TarballThere, TestsIsDir, Sizes

(* What a step of one worker makes of the tarball, of his next member, of  *)
(* the files and of where he is.                                           *)
LEMMA WorkerSteps ==
  ASSUME Sizes, TInv, NEW w \in Workers, WorkerStep(w) \/ DownloadFails(w)
  PROVE  /\ pc' = [pc EXCEPT ![w] = pc'[w]]
         /\ next' = [next EXCEPT ![w] = next'[w]]
         /\ sessions' = sessions
         /\ \/ Check(w) /\ pc[w] = "check" /\ UNCHANGED <<tarball, next, tree>>
               /\ pc'[w] = (IF TestsIsDir THEN "returned" ELSE "probe")
            \/ Probe(w) /\ pc[w] = "probe" /\ UNCHANGED <<tarball, next, tree>>
               /\ pc'[w] = (IF tarball = None THEN "fetch" ELSE "open")
            \/ Fetch(w) /\ pc[w] = "fetch" /\ UNCHANGED tree
               /\ pc'[w] = "write" /\ tarball' = {} /\ next'[w] = 1
            \/ Write(w) /\ pc[w] = "write" /\ UNCHANGED tree
               /\ tarball # None /\ tarball' = tarball \cup {next[w]}
               /\ \/ next[w] = Members /\ pc'[w] = "open" /\ UNCHANGED next
                  \/ next[w] # Members /\ pc'[w] = "write" /\ next'[w] = next[w] + 1
            \/ Open(w) /\ pc[w] = "open" /\ UNCHANGED <<tarball, tree>>
               /\ tarball # None /\ pc'[w] \in {"extract", "failed"} /\ next'[w] = 1
            \/ Extract(w) /\ pc[w] = "extract" /\ UNCHANGED <<tarball, next>>
               /\ tarball # None
               /\ \/ /\ pc'[w] = "fill"
                     /\ tree' = [tree EXCEPT ![next[w]] = IF next[w] = 1 THEN "full" ELSE "short"]
                  \/ /\ pc'[w] = "failed"
                     /\ tree' = tree \/ tree' = [tree EXCEPT ![next[w]] = "short"]
            \/ Fill(w) /\ pc[w] = "fill" /\ UNCHANGED tarball
               /\ tarball # None
               /\ \/ /\ tree' = [tree EXCEPT ![next[w]] = "full"]
                     /\ \/ next[w] = Members /\ pc'[w] = "returned" /\ UNCHANGED next
                        \/ next[w] # Members /\ pc'[w] = "extract" /\ next'[w] = next[w] + 1
                  \/ pc'[w] = "failed" /\ UNCHANGED <<tree, next>>
            \/ DownloadFails(w) /\ pc[w] \in {"fetch", "write"} /\ pc'[w] = "failed"
               /\ UNCHANGED <<tarball, next, tree>>
<1> USE DEF TInv, TypeOK, TarballThere, Goto
<1>1. CASE Check(w)
  BY <1>1 DEF Check, Return
<1>2. CASE Probe(w)
  BY <1>2 DEF Probe
<1>3. CASE Fetch(w)
  BY <1>3, AllFacts DEF Fetch
<1>4. CASE Write(w)
  BY <1>4 DEF Write
<1>5. CASE Open(w)
  BY <1>5 DEF Open
<1>6. CASE Extract(w)
  BY <1>6 DEF Extract
<1>7. CASE Fill(w)
  BY <1>7 DEF Fill
<1>8. CASE DownloadFails(w)
  BY <1>8 DEF DownloadFails
<1> QED BY <1>1, <1>2, <1>3, <1>4, <1>5, <1>6, <1>7, <1>8 DEF WorkerStep

LEMMA TypeStep == ASSUME Sizes PROVE TInv /\ [Next]_vars => TInv'
<1> SUFFICES ASSUME TInv, [Next]_vars PROVE TInv'
  OBVIOUS
<1>a. 1 \in All /\ Members \in All /\ \A k \in All : k \in Nat /\ Full \subseteq All
  BY AllFacts DEF Full
<1>1. CASE NewSession
  BY <1>1, <1>a DEF NewSession, TInv, TypeOK, TarballThere, TestsIsDir, Sizes
<1>2. ASSUME NEW w \in Workers, WorkerStep(w) \/ DownloadFails(w) PROVE TInv'
  <2>1. /\ pc' = [pc EXCEPT ![w] = pc'[w]]
        /\ next' = [next EXCEPT ![w] = next'[w]]
        /\ sessions' = sessions
    BY <1>2, WorkerSteps
  <2>2. collected' \in [Workers -> SUBSET All] /\ failures' \in 0 .. MaxFailures
    <3>1. CASE Check(w)
      BY <1>a, <3>1 DEF Check, Return, TInv, TypeOK
    <3>2. CASE Fill(w)
      BY <3>2 DEF Fill, TInv, TypeOK
    <3>3. CASE DownloadFails(w)
      BY <3>3 DEF DownloadFails, TInv, TypeOK, Sizes
    <3> QED BY <1>2, <3>1, <3>2, <3>3 DEF WorkerStep, Probe, Fetch, Write, Open, Extract, TInv, TypeOK
  <2>3. /\ tarball' = None \/ tarball' \subseteq All
        /\ tarball # None => tarball' # None
        /\ pc'[w] \in {"write", "open", "extract", "fill"} => tarball' # None
    BY <1>2, <1>a, WorkerSteps DEF TInv, TypeOK, TarballThere, Sizes
  <2>4. next'[w] \in All
    <3>1. next[w] \in All /\ (next[w] # Members => next[w] + 1 \in All)
      BY DEF TInv, TypeOK, All, Sizes
    <3> QED BY <1>2, <1>a, <3>1, WorkerSteps
  <2>5. /\ pc'[w] \in {"check", "probe", "fetch", "write", "open", "extract", "fill",
                       "returned", "failed"}
        /\ tree' \in [All -> {"absent", "short", "full"}]
        /\ TestsIsDir' => tarball' # None
    BY <1>2, <1>a, <2>3, WorkerSteps DEF TInv, TypeOK, TarballThere, TestsIsDir
  <2> QED BY <2>1, <2>2, <2>3, <2>4, <2>5 DEF TInv, TypeOK, TarballThere
<1>3. CASE UNCHANGED vars
  BY <1>3 DEF vars, TInv, TypeOK, TarballThere, TestsIsDir
<1> QED BY <1>1, <1>2, <1>3 DEF Next

(* TypeOK: no worker writes, opens or extracts a tarball that is not there.*)
THEOREM TypeCorrect == ASSUME Sizes PROVE Spec => []TypeOK
<1>1. TInv => TypeOK
  BY DEF TInv
<1> QED BY TypeInit, TypeStep, <1>1, PTL DEF Spec

-----------------------------------------------------------------------------
(* In the first session, until a worker fails.  A truncated tarball has a  *)
(* writer with every earlier member behind him; a member that is not       *)
(* extracted has a worker ahead of whom it lies.                           *)
WillWriteRest(w) == pc[w] = "write" /\ \A k \in All : k < next[w] => k \in tarball
WillExtract(w, m) ==
  \/ pc[w] = "check" /\ ~ TestsIsDir
  \/ pc[w] \in {"probe", "fetch", "write", "open"}
  \/ pc[w] \in {"extract", "fill"} /\ next[w] <= m

FirstSession ==
  /\ tarball = None \/ tarball = All \/ \E w \in Workers : WillWriteRest(w)
  /\ \A m \in All : tree[m] = "full" \/ \E w \in Workers : WillExtract(w, m)

CInv ==
  /\ TInv
  /\ sessions = 0 => FirstSession \/ \E w \in Workers : pc[w] = "failed"

LEMMA FirstSessionStep ==
  ASSUME Sizes, TInv, FirstSession, NEW w \in Workers, WorkerStep(w) \/ DownloadFails(w), 
         pc'[w] # "failed"
  PROVE  FirstSession'
<1>a. 1 \in All /\ Members \in All /\ \A k \in All : k \in Nat
  BY AllFacts
<1>s. /\ pc' = [pc EXCEPT ![w] = pc'[w]]
      /\ next' = [next EXCEPT ![w] = next'[w]]
  BY WorkerSteps
<1>o. \A v \in Workers : v # w => pc'[v] = pc[v] /\ next'[v] = next[v]
  BY <1>s DEF TInv, TypeOK
<1>m. \A m \in All : m <= Members /\ 1 <= m
  BY DEF All, Sizes
<1>t. tarball = None \/ tarball \subseteq All
  BY DEF TInv, TypeOK
<1>n. next[w] \in All /\ \A v \in Workers : next[v] \in All
  BY DEF TInv, TypeOK
<1>1. tarball' = None \/ tarball' = All \/ \E v \in Workers : WillWriteRest(v)'
  <2>1. CASE Fetch(w)
    <3>1. pc'[w] = "write" /\ next'[w] = 1
      BY <1>s, <2>1 DEF Fetch, Goto, TInv, TypeOK
    <3>2. WillWriteRest(w)'
      BY <1>m, <1>a, <3>1 DEF WillWriteRest
    <3> QED BY <3>2
  <2>2. CASE Write(w)
    <3>1. tarball \subseteq All /\ pc[w] = "write" /\ tarball' = tarball \cup {next[w]}
      BY <1>t, <2>2 DEF Write, TInv, TarballThere
    <3>2. CASE tarball = All
      BY <1>n, <3>1, <3>2
    <3>3. ASSUME NEW v \in Workers, v # w, WillWriteRest(v) PROVE WillWriteRest(v)'
      BY <1>o, <3>1, <3>3 DEF WillWriteRest
    <3>4. CASE WillWriteRest(w)
      <4>1. \A k \in All : k <= next[w] => k \in tarball'
        BY <1>a, <1>n, <3>1, <3>4 DEF WillWriteRest
      <4>2. CASE next[w] = Members
        BY <1>m, <1>n, <3>1, <4>1, <4>2
      <4>3. CASE next[w] # Members
        <5>1. pc'[w] = "write" /\ next'[w] = next[w] + 1
          BY <2>2, <4>3 DEF Write, TInv, TypeOK
        <5>2. WillWriteRest(w)'
          BY <1>a, <1>n, <4>1, <5>1 DEF WillWriteRest
        <5> QED BY <5>2
      <4> QED BY <4>2, <4>3
    <3> QED BY <3>1, <3>2, <3>3, <3>4 DEF FirstSession, TInv, TarballThere
  <2>3. CASE ~ Fetch(w) /\ ~ Write(w)
    <3>1. tarball' = tarball /\ pc[w] # "write"
      BY <2>3 DEF WorkerStep, Check, Probe, Open, Extract, Fill, DownloadFails, Goto, TInv, TypeOK
    <3>2. ASSUME NEW v \in Workers, WillWriteRest(v) PROVE WillWriteRest(v)'
      BY <1>o, <3>1, <3>2 DEF WillWriteRest
    <3> QED BY <3>1, <3>2 DEF FirstSession
  <2> QED BY <2>1, <2>2, <2>3
<1>2. ASSUME NEW m \in All PROVE tree'[m] = "full" \/ \E v \in Workers : WillExtract(v, m)'
  <2>0. tree[m] = "full" \/ \E v \in Workers : WillExtract(v, m)
    BY DEF FirstSession
  <2>k. ASSUME TestsIsDir' <=> TestsIsDir, NEW v \in Workers, v # w, WillExtract(v, m)
        PROVE  WillExtract(v, m)'
    BY <1>o, <2>k DEF WillExtract
  <2>1. CASE Check(w)
    <3>1. UNCHANGED tree /\ (~ TestsIsDir => pc'[w] = "probe") /\ pc[w] = "check"
      BY <2>1 DEF Check, Goto, TInv, TypeOK
    <3>2. WillExtract(w, m) => WillExtract(w, m)'
      BY <3>1 DEF WillExtract
    <3> QED BY <2>0, <2>k, <3>1, <3>2 DEF TestsIsDir
  <2>2. CASE Probe(w) \/ Fetch(w) \/ Write(w) \/ Open(w)
    <3>1. /\ UNCHANGED tree
          /\ \/ pc'[w] \in {"fetch", "write", "open"}
             \/ pc'[w] = "extract" /\ next'[w] = 1
      BY <2>2, <1>a DEF Probe, Fetch, Write, Open, Goto, TInv, TypeOK
    <3>2. WillExtract(w, m)'
      BY <1>m, <3>1 DEF WillExtract
    <3> QED BY <3>2
  <2>3. CASE Extract(w)
    <3>1. /\ pc[w] = "extract" /\ pc'[w] = "fill" /\ next'[w] = next[w]
          /\ tree' = [tree EXCEPT ![next[w]] = IF next[w] = 1 THEN "full" ELSE "short"]
      BY <2>3 DEF Extract, Goto, TInv, TypeOK
    <3>2. CASE next[w] <= m
      BY <3>1, <3>2 DEF WillExtract
    <3>3. CASE ~ (next[w] <= m)
      <4>1. tree'[m] = tree[m] /\ tree'[1] = tree[1]
        BY <1>a, <1>m, <1>n, <3>1, <3>3 DEF TInv, TypeOK
      <4>2. ~ WillExtract(w, m)
        BY <3>1, <3>3 DEF WillExtract
      <4> QED BY <2>0, <2>k, <4>1, <4>2 DEF TestsIsDir
    <3> QED BY <3>2, <3>3
  <2>4. CASE Fill(w)
    <3>1. /\ pc[w] = "fill"
          /\ tree' = [tree EXCEPT ![next[w]] = "full"]
          /\ next[w] # Members => pc'[w] = "extract" /\ next'[w] = next[w] + 1
      BY <2>4 DEF Fill, Goto, TInv, TypeOK
    <3>2. CASE next[w] = m
      BY <1>n, <3>1, <3>2 DEF TInv, TypeOK
    <3>3. CASE next[w] < m
      <4>1. next[w] # Members /\ next[w] + 1 <= m
        BY <1>a, <1>m, <1>n, <3>3
      <4> QED BY <3>1, <4>1 DEF WillExtract
    <3>4. CASE m < next[w]
      <4>1. tree'[m] = tree[m] /\ tree'[1] = tree[1]
        BY <1>a, <1>m, <1>n, <3>1, <3>4 DEF TInv, TypeOK
      <4>2. ~ WillExtract(w, m)
        BY <1>a, <1>n, <3>1, <3>4 DEF WillExtract
      <4> QED BY <2>0, <2>k, <4>1, <4>2 DEF TestsIsDir
    <3> QED BY <1>a, <1>n, <3>2, <3>3, <3>4
  <2>5. ~ DownloadFails(w)
    BY DEF DownloadFails, Goto, TInv, TypeOK
  <2> QED BY <2>1, <2>2, <2>3, <2>4, <2>5 DEF WorkerStep
<1> QED BY <1>1, <1>2 DEF FirstSession

LEMMA CStep == ASSUME Sizes PROVE CInv /\ [Next]_vars => CInv'
<1> SUFFICES ASSUME CInv, [Next]_vars PROVE CInv'
  OBVIOUS
<1>0. TInv /\ TInv'
  BY TypeStep DEF CInv
<1>1. CASE NewSession
  BY <1>0, <1>1 DEF NewSession, CInv, TInv, TypeOK, Sizes
<1>2. ASSUME NEW w \in Workers, WorkerStep(w) \/ DownloadFails(w) PROVE CInv'
  <2>1. /\ pc' = [pc EXCEPT ![w] = pc'[w]]
        /\ sessions' = sessions
    BY <1>0, <1>2, WorkerSteps
  <2>2. CASE pc'[w] = "failed"
    BY <1>0, <2>2 DEF CInv
  <2>3. ASSUME NEW v \in Workers, pc[v] = "failed" PROVE pc'[v] = "failed"
    <3>1. v # w
      BY <1>2, <2>3 DEF WorkerStep, Check, Probe, Fetch, Write, Open, Extract, Fill, DownloadFails
    <3> QED BY <1>0, <2>1, <2>3, <3>1 DEF TInv, TypeOK
  <2> QED BY <1>0, <1>2, <2>1, <2>2, <2>3, FirstSessionStep DEF CInv
<1>3. CASE UNCHANGED vars
  BY <1>0, <1>3 DEF vars, CInv, FirstSession, WillWriteRest, WillExtract, TestsIsDir
<1> QED BY <1>1, <1>2, <1>3 DEF Next

LEMMA CInit == ASSUME Sizes, Workers # {} PROVE Init => CInv
<1> SUFFICES ASSUME Init PROVE CInv
  OBVIOUS
<1>1. PICK w \in Workers : TRUE
  OBVIOUS
<1>2. \A m \in All : WillExtract(w, m)
  BY <1>1, AllFacts DEF Init, WillExtract, TestsIsDir
<1> QED BY <1>2, TypeInit DEF Init, CInv, FirstSession

(* What the invariant means once all workers have returned.                *)
LEMMA CMeans == ASSUME Sizes PROVE CInv => CleanSessionLeavesAll
<1> SUFFICES ASSUME CInv, sessions = 0, \A w \in Workers : pc[w] = "returned"
             PROVE  Full = All /\ tarball = All
  BY DEF CleanSessionLeavesAll
<1>1. FirstSession /\ \A w \in Workers : ~ WillWriteRest(w) /\ \A m \in All : ~ WillExtract(w, m)
  BY DEF CInv, WillWriteRest, WillExtract
<1>2. Full = All
  BY <1>1 DEF FirstSession, Full
<1>3. tarball # None
  BY <1>2, AllFacts DEF CInv, TInv, TarballThere, TestsIsDir, Full
<1> QED
  BY <1>1, <1>2, <1>3 DEF FirstSession

(* From an empty cache a session all of whose workers returned leaves the  *)
(* whole archive, however they truncated each other's files.               *)
THEOREM FirstSessionComplete ==
  ASSUME Sizes, Workers # {}
  PROVE  Spec => []CleanSessionLeavesAll
  BY CInit, CStep, CMeans, PTL DEF Spec

-----------------------------------------------------------------------------
(* A session of one worker, in a cache of sessions of one worker: the      *)
(* worker passes the checks only where there is nothing to lose.           *)
Alone ==
  /\ ~ TestsIsDir => \A k \in All : tree[k] # "full"
  /\ \A w \in Workers :
       /\ pc[w] \in {"probe", "fetch", "write", "open"} => ~ TestsIsDir
       /\ pc[w] = "fetch" => tarball = None
       /\ pc[w] = "write" => \A k \in tarball : k < next[w]
       /\ pc[w] = "extract" => \A k \in All : next[w] <= k => tree[k] # "full"
       /\ pc[w] = "fill" => \A k \in All : next[w] <= k /\ k # 1 => tree[k] # "full"
       /\ pc[w] \in {"extract", "fill"} /\ next[w] # 1 => TestsIsDir

LEMMA AloneInit == ASSUME Sizes PROVE Init => Alone
  BY AllFacts DEF Init, Alone, TestsIsDir

LEMMA AloneStep ==
  ASSUME Sizes, TInv, Alone, [Next]_vars, \A v, w \in Workers : v = w
  PROVE  Alone' /\ CompleteForGood
<1>a. 1 \in All /\ Members \in All /\ \A k \in All : k \in Nat
  BY AllFacts
<1>m. \A m \in All : m <= Members /\ 1 <= m
  BY DEF All, Sizes
<1>1. CASE NewSession
  BY <1>1 DEF NewSession, Alone, CompleteForGood, TestsIsDir, Full
<1>2. ASSUME NEW w \in Workers, WorkerStep(w) \/ DownloadFails(w)
      PROVE  Alone' /\ CompleteForGood
  <2>n. next[w] \in All /\ (tarball = None \/ tarball \subseteq All) /\ tree \in [All -> {"absent", "short", "full"}]
    BY DEF TInv, TypeOK
  <2>w. \A v \in Workers : v = w
    OBVIOUS
  <2>1. CASE Check(w)
    <3>1. UNCHANGED <<tarball, tree>> /\ pc'[w] = (IF TestsIsDir THEN "returned" ELSE "probe")
      BY <2>1 DEF Check, Return, Goto, TInv, TypeOK
    <3> QED BY <2>w, <3>1 DEF Alone, CompleteForGood, TestsIsDir, Full
  <2>2. CASE Probe(w)
    <3>1. UNCHANGED <<tarball, tree>> /\ pc'[w] = (IF tarball = None THEN "fetch" ELSE "open") /\ pc[w] = "probe"
      BY <2>2 DEF Probe, Goto, TInv, TypeOK
    <3> QED BY <2>w, <3>1 DEF Alone, CompleteForGood, TestsIsDir, Full
  <2>3. CASE Fetch(w)
    <3>1. UNCHANGED tree /\ tarball' = {} /\ pc'[w] = "write" /\ pc[w] = "fetch"
      BY <2>3 DEF Fetch, Goto, TInv, TypeOK
    <3>2. tarball # All
      BY <3>1, Sizes DEF Alone, Sizes
    <3> QED BY <2>w, <3>1, <3>2 DEF Alone, CompleteForGood, TestsIsDir, Full
  <2>4. CASE Write(w)
    <3>1. /\ UNCHANGED tree /\ tarball' = tarball \cup {next[w]} /\ pc[w] = "write"
          /\ tarball # None
          /\ \/ pc'[w] = "open"
             \/ pc'[w] = "write" /\ next'[w] = next[w] + 1
      BY <2>4 DEF Write, Goto, TInv, TypeOK, TarballThere
    <3>2. tarball \subseteq All /\ \A k \in tarball : k < next[w]
      BY <2>n, <3>1 DEF Alone
    <3>3. \A k \in tarball' : k < next[w] + 1
      <4> TAKE k \in tarball'
      <4>1. k \in Nat /\ next[w] \in Nat /\ (k < next[w] \/ k = next[w])
        BY <1>a, <2>n, <3>1, <3>2
      <4> QED BY <4>1
    <3>4. CompleteForGood
      BY <2>n, <3>1 DEF CompleteForGood, Full
    <3> QED BY <2>w, <3>1, <3>3, <3>4 DEF Alone, TestsIsDir
  <2>5. CASE Open(w)
    <3>1. /\ UNCHANGED <<tarball, tree>> /\ pc[w] = "open" /\ next'[w] = 1
          /\ pc'[w] \in {"extract", "failed"}
      BY <1>a, <2>5 DEF Open, Goto, TInv, TypeOK
    <3> QED BY <2>w, <3>1 DEF Alone, CompleteForGood, TestsIsDir, Full
  <2>6. CASE Extract(w)
    <3>1. /\ pc[w] = "extract" /\ UNCHANGED <<tarball, next>>
          /\ \/ /\ pc'[w] = "fill"
                /\ tree' = [tree EXCEPT ![next[w]] = IF next[w] = 1 THEN "full" ELSE "short"]
             \/ /\ pc'[w] = "failed"
                /\ tree' = tree \/ tree' = [tree EXCEPT ![next[w]] = "short"]
      BY <2>6 DEF Extract, Goto, TInv, TypeOK
    <3>2. \A k \in All : next[w] <= k => tree[k] # "full"
      BY <3>1 DEF Alone
    <3>5. tree[next[w]] # "full"
      BY <1>a, <2>n, <3>2
    <3>3. CompleteForGood
      BY <2>n, <3>1, <3>5 DEF CompleteForGood, Full
    <3>4. Alone'
      BY <1>a, <1>m, <2>n, <2>w, <3>1, <3>2 DEF Alone, TestsIsDir
    <3> QED BY <3>3, <3>4
  <2>7. CASE Fill(w)
    <3>1. /\ pc[w] = "fill" /\ UNCHANGED tarball
          /\ \/ /\ tree' = [tree EXCEPT ![next[w]] = "full"]
                /\ \/ pc'[w] = "returned"
                   \/ pc'[w] = "extract" /\ next'[w] = next[w] + 1
             \/ pc'[w] = "failed" /\ UNCHANGED tree
      BY <2>7 DEF Fill, Goto, TInv, TypeOK
    <3>3. CompleteForGood
      BY <2>n, <3>1 DEF CompleteForGood, Full
    <3>4. Alone'
      BY <1>a, <1>m, <2>n, <2>w, <3>1 DEF Alone, TestsIsDir
    <3> QED BY <3>3, <3>4
  <2>8. CASE DownloadFails(w)
    <3>1. UNCHANGED <<tarball, tree>> /\ pc'[w] = "failed"
      BY <2>8 DEF DownloadFails, Goto, TInv, TypeOK
    <3> QED BY <2>w, <3>1 DEF Alone, CompleteForGood, TestsIsDir, Full
  <2> QED BY <1>2, <2>1, <2>2, <2>3, <2>4, <2>5, <2>6, <2>7, <2>8 DEF WorkerStep
<1>3. CASE UNCHANGED vars
  BY <1>3 DEF vars, Alone, CompleteForGood, TestsIsDir, Full
<1> QED BY <1>1, <1>2, <1>3 DEF Next

(* Without xdist, what is complete stays so: through failures, through     *)
(* kills at any point, in every later session.                             *)
THEOREM CompleteStaysComplete ==
  ASSUME Sizes, \A v, w \in Workers : v = w
  PROVE  Spec => [][CompleteForGood]_vars
<1>1. TInv /\ Alone /\ [Next]_vars => TInv' /\ Alone' /\ CompleteForGood
  BY TypeStep, AloneStep
<1> QED BY TypeInit, AloneInit, <1>1, PTL DEF Spec
=============================================================================

------------------------------ MODULE CaseWalk ------------------------------
(***************************************************************************)
(* The collection of test cases: walk_cases of                             *)
(* packages/EthCLSpecs/PySpecTests/harness.py (suite = "consensus") and of *)
(* packages/SizzLean/PySpecTests/harness.py (suite = "generic").  Both     *)
(* visit the directories of the extracted archive in sorted order and cap  *)
(* what they yield of each group of cases; the generic suite holds the     *)
(* same case once per fork, and yields the first of them.                  *)
(*                                                                         *)
(* Abstraction.  The directories come from Trees[suite], in the order of   *)
(* the nested loops; an archive holds any part of them.                    *)
(***************************************************************************)
EXTENDS Naturals, Sequences, FiniteSets

CONSTANTS
  Trees,   (* of a suite, "consensus" or "generic": its case directories
              [fork, runner, handler, kind, name], in walk order *)
  Limits   (* values of --subset; 0 stands for the full suite *)

VARIABLES
  suite,      (* the suite collected *)
  present,    (* the positions of Tree the archive holds *)
  limit,
  at,         (* the position visited next *)
  seen,       (* generic: the cases met so far *)
  counts,     (* counts[g] : cases yielded of group g *)
  collected   (* positions of the yielded cases, in order *)

vars == <<suite, present, limit, at, seen, counts, collected>>

Tree == Trees[suite]

InScopeRunners == {"sanity", "finality", "random", "epoch_processing", "operations",
  "rewards", "genesis", "fork", "transition", "fork_choice", "ssz_static"}
SupportedHandlers == {"uints", "basic_vector", "bitvector", "bitlist", "boolean", "containers",
  "basic_progressive_list", "progressive_bitlist", "progressive_containers"}

InScope(c) ==
  IF suite = "consensus"
  THEN /\ c.runner \in InScopeRunners
       /\ ~ (c.fork = "fulu" /\ c.runner \in {"fork", "transition"})
  ELSE c.handler \in SupportedHandlers

(* The key the cap counts by, and the key a case is known by.              *)
Group(c) == IF suite = "consensus" THEN <<c.runner, c.handler>> ELSE <<c.handler, c.kind>>
CaseKey(c) == <<c.handler, c.kind, c.name>>

Groups == {Group(Tree[i]) : i \in DOMAIN Tree}

Yield(c) ==
  IF limit # 0 /\ counts[Group(c)] >= limit
  THEN UNCHANGED <<counts, collected>>
  ELSE /\ counts' = [counts EXCEPT ![Group(c)] = @ + 1]
       /\ collected' = Append(collected, at)

(* Variants of Visit: duplicates are yielded; a duplicate counts.          *)
VisitAll ==
  /\ at \in DOMAIN Tree
  /\ at' = at + 1
  /\ LET c == Tree[at]
     IN IF at \notin present \/ ~ InScope(c) THEN UNCHANGED <<seen, counts, collected>>
        ELSE Yield(c) /\ UNCHANGED seen
  /\ UNCHANGED <<suite, present, limit>>

VisitCountingDuplicates ==
  /\ at \in DOMAIN Tree
  /\ at' = at + 1
  /\ LET c == Tree[at]
     IN IF at \notin present \/ ~ InScope(c) THEN UNCHANGED <<seen, counts, collected>>
        ELSE IF CaseKey(c) \in seen
        THEN counts' = [counts EXCEPT ![Group(c)] = @ + 1] /\ UNCHANGED <<seen, collected>>
        ELSE seen' = seen \cup {CaseKey(c)} /\ Yield(c)
  /\ UNCHANGED <<suite, present, limit>>

Visit ==
  /\ at \in DOMAIN Tree
  /\ at' = at + 1
  /\ LET c == Tree[at]
     IN \/ /\ at \notin present \/ ~ InScope(c)
           /\ UNCHANGED <<seen, counts, collected>>
        \/ /\ at \in present /\ InScope(c)
           /\ IF suite = "generic" /\ CaseKey(c) \in seen
              THEN UNCHANGED <<seen, counts, collected>>
              ELSE Yield(c) /\ seen' = seen \cup {CaseKey(c)}
  /\ UNCHANGED <<suite, present, limit>>

Init ==
  /\ suite \in DOMAIN Trees
  /\ present \in SUBSET DOMAIN Tree
  /\ limit \in Limits
  /\ at = 1
  /\ seen = {}
  /\ counts = [g \in Groups |-> 0]
  /\ collected = <<>>

Spec == Init /\ [][Visit]_vars

-----------------------------------------------------------------------------
(* The identity of a case in the test report: the generic one has no fork. *)
CaseId(c) == IF suite = "consensus" THEN c ELSE CaseKey(c)

(* No two tests have the same identity.                                    *)
IdsDistinct ==
  \A i, j \in DOMAIN collected :
    i # j => CaseId(Tree[collected[i]]) # CaseId(Tree[collected[j]])

(* At the end every handler of a runner (of a kind, in the generic suite)  *)
(* is represented: by all of its cases, or by as many as the cap allows,   *)
(* whatever other handlers, out-of-scope directories and duplicates lie    *)
(* around it (harness.py:114-116: cap the count per (runner, handler)).    *)
Least(m, n) == IF m < n THEN m ELSE n
Alike(c, d) ==
  /\ c.runner = d.runner /\ c.handler = d.handler
  /\ suite = "generic" => c.kind = d.kind
GroupsSampled ==
  at > Len(Tree) =>
    \A k \in DOMAIN Tree :
      LET there == {CaseId(Tree[i]) :
                    i \in {j \in present : InScope(Tree[j]) /\ Alike(Tree[j], Tree[k])}}
          taken == {i \in DOMAIN collected : Alike(Tree[collected[i]], Tree[k])}
      IN Cardinality(taken) = (IF limit = 0 THEN Cardinality(there)
                               ELSE Least(limit, Cardinality(there)))
=============================================================================

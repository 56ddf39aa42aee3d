---------------------------- MODULE CompScenario ----------------------------
(***************************************************************************)
(* The harnesses of the comparative benchmark, as the driver runs them one *)
(* after the other: each repetition decodes the shared fixture, roots it,  *)
(* performs the scenario's writes and roots it again.                      *)
(*                                                                         *)
(* scripts/compbench/ssz_specs_harness.py and libssz-harness/src/main.rs   *)
(* write element by element; SizzLeanBench/CompBench/Scenarios.lean reads  *)
(* the validators and the balances once, before its loops, and stores the  *)
(* balances in one clause.                                                 *)
(*                                                                         *)
(* Abstractions.  Of the 38 fields, the five a scenario writes.  A root is *)
(* the value it is the root of (the hash is injective), and amounts are    *)
(* in Gwei over 32 ETH, which keeps TLC's integers small: no sum in the    *)
(* scenarios comes near 2^64.                                              *)
(***************************************************************************)
EXTENDS Naturals, Sequences, SequencesExt

CONSTANTS
  Impls,            (* the implementations, in the order the driver runs them *)
  ByClause,         (* those that hoist reads and store the balances at once *)
  WRITES_PER_SHAPE, (* 250 in the code *)
  Length,           (* entries of each collection held, of the fixture's thousands *)
  Reps

VARIABLES
  at,       (* where the driver is: implementation, scenario, repetition *)
  phase,    (* decode, root1, write, root2 *)
  k,        (* write steps done in this phase *)
  state,    (* the decoded value; nothing before the decode *)
  hoisted,  (* the validators and balances read before the loops *)
  root1,    (* the first root of this repetition *)
  rows      (* the lines printed *)

vars == <<at, phase, k, state, hoisted, root1, rows>>

Scenarios == <<"update1", "update1000">>
Index == 0 .. Length - 1

Byte32(seed, pos) == (seed * 31 + pos * 7 + 11) % 256
MkRoot(seed) == [pos \in 0 .. 31 |-> Byte32(seed, pos)]

(* Fixture.mkBeaconState: what every repetition decodes.                   *)
Fixture ==
  [slot |-> 9007199,
   validators |-> [i \in Index |-> i * 1000000],
   balances |-> [i \in Index |-> i * 7],
   block_roots |-> [i \in Index |-> MkRoot(i + 10000)],
   randao_mixes |-> [i \in Index |-> MkRoot(i + 50000)]]

RandaoSeed(i) == i + 95000

(* The element the j-th write of the thousand goes to, shape by shape.     *)
Target(j) == j % WRITES_PER_SHAPE
Shape(j) == j \div WRITES_PER_SHAPE

WriteOne(s) == [s EXCEPT !.slot = @ + 1]

BumpValidator(old) == old + 1000000
BumpBalance(old) == old + 12345

(* One write of write_thousand, in place.                                  *)
WriteElement(s, j) ==
  LET i == Target(j)
  IN CASE Shape(j) = 0 -> [s EXCEPT !.validators[i] = BumpValidator(@)]
       [] Shape(j) = 1 -> [s EXCEPT !.balances[i] = BumpBalance(@)]
       [] Shape(j) = 2 -> [s EXCEPT !.block_roots[i] = MkRoot(i + 90000)]
       [] OTHER -> [s EXCEPT !.randao_mixes[i] = MkRoot(RandaoSeed(i))]

(* The same write through a clause: a validator comes from the hoisted     *)
(* list, a balance goes to the local array, stored when its loop is done.  *)
WriteClause(s, h, j) ==
  LET i == Target(j)
  IN CASE Shape(j) = 0 -> [s EXCEPT !.validators[i] = BumpValidator(h.validators[i])]
       [] Shape(j) = 1 -> IF j = 2 * WRITES_PER_SHAPE - 1
                          THEN [s EXCEPT !.balances = [h.balances EXCEPT ![i] = BumpBalance(@)]]
                          ELSE s
       [] OTHER -> WriteElement(s, j)
WriteLocal(h, j) ==
  IF Shape(j) = 1 THEN [h EXCEPT !.balances[Target(j)] = BumpBalance(@)] ELSE h

Impl == Impls[at.impl]
Scenario == Scenarios[at.scenario]
Writes == IF Scenario = "update1" THEN 1 ELSE 4 * WRITES_PER_SHAPE

Running == at.impl <= Len(Impls)

-----------------------------------------------------------------------------
(* A variant of Decode: the value of the repetition before is kept.        *)
DecodeOnce ==
  /\ Running
  /\ phase = "decode"
  /\ phase' = "root1"
  /\ state' = IF at.rep = 0 THEN Fixture ELSE state
  /\ UNCHANGED <<at, k, hoisted, root1, rows>>

Decode ==
  /\ Running
  /\ phase = "decode"
  /\ phase' = "root1"
  /\ state' = Fixture
  /\ UNCHANGED <<at, k, hoisted, root1, rows>>

FirstRoot ==
  /\ phase = "root1"
  /\ phase' = "write"
  /\ root1' = state
  /\ k' = 0
  /\ hoisted' = [validators |-> state.validators, balances |-> state.balances]
  /\ UNCHANGED <<at, state, rows>>

Write ==
  /\ phase = "write"
  /\ k < Writes
  /\ k' = k + 1
  /\ IF Scenario = "update1"
     THEN state' = WriteOne(state) /\ UNCHANGED hoisted
     ELSE IF Impl \in ByClause
     THEN state' = WriteClause(state, hoisted, k) /\ hoisted' = WriteLocal(hoisted, k)
     ELSE state' = WriteElement(state, k) /\ UNCHANGED hoisted
  /\ UNCHANGED <<at, phase, root1, rows>>

(* The driver's order: repetitions, then scenarios, then implementations.  *)
Advance(a) ==
  IF a.rep + 1 < Reps THEN [a EXCEPT !.rep = @ + 1]
  ELSE IF a.scenario < Len(Scenarios) THEN [a EXCEPT !.rep = 0, !.scenario = @ + 1]
  ELSE [impl |-> a.impl + 1, scenario |-> 1, rep |-> 0]

SecondRoot ==
  /\ phase = "write"
  /\ k = Writes
  /\ phase' = "decode"
  /\ rows' = Append(rows, [impl |-> Impl, scenario |-> Scenario, rep |-> at.rep,
                           root1 |-> root1, root2 |-> state])
  /\ at' = Advance(at)
  /\ UNCHANGED <<k, state, hoisted, root1>>

Init ==
  /\ at = [impl |-> 1, scenario |-> 1, rep |-> 0]
  /\ phase = "decode"
  /\ k = 0
  /\ state = Fixture
  /\ hoisted = [validators |-> Fixture.validators, balances |-> Fixture.balances]
  /\ root1 = Fixture
  /\ rows = <<>>

Next == Decode \/ FirstRoot \/ Write \/ SecondRoot

Spec == Init /\ [][Next]_vars

-----------------------------------------------------------------------------
(* The control of the benchmark: whatever the implementation and the       *)
(* repetition, two rows of a scenario carry the same roots, and every      *)
(* first root is the fixture's.                                            *)
RowsAgree ==
  \A r, s \in Range(rows) :
    /\ r.root1 = s.root1
    /\ r.scenario = s.scenario => r.root2 = s.root2

(* "update1000 writes 1000 fields": a finished thousand-write scenario has *)
(* changed WRITES_PER_SHAPE elements of each of the four shapes, and left  *)
(* the rest: no write repeats an element or writes what was there.         *)
ChangedIn(f, s) == {i \in Index : s[f][i] # Fixture[f][i]}
ThousandWritesBite ==
  \A r \in Range(rows) :
    r.scenario = "update1000" =>
      \A f \in {"validators", "balances", "block_roots", "randao_mixes"} :
        ChangedIn(f, r.root2) = 0 .. WRITES_PER_SHAPE - 1

(* The hoisted validators are current where they are used (Scenarios.lean: *)
(* "the hoisting changes no result; each field is written once").          *)
HoistedCurrent ==
  phase = "write" /\ Impl \in ByClause /\ k < Writes /\ Shape(k) = 0 =>
    hoisted.validators[Target(k)] = state.validators[Target(k)]
=============================================================================

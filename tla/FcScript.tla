------------------------------- MODULE FcScript -------------------------------
(***************************************************************************)
(* One fork_choice vector on its way through the two halves of the         *)
(* conformance suite: packages/EthCLSpecs/PySpecTests/harness.py writes    *)
(* the entries of steps.yaml as script lines, PySpecTests/Server.lean      *)
(* reads the lines back, the interpreter of the fork runs them, and        *)
(* test_pyspec.py turns the result line into the outcome of the test.      *)
(* The two halves hold their own tables of keys, tokens and step kinds,    *)
(* and have to agree on them.                                              *)
(*                                                                         *)
(* Abstractions.  An entry is its key, its valid flag and, for a checks    *)
(* entry, the set of subkeys of each check key; a line is its token and    *)
(* the entry it came from, a file or an argument is not looked at.  What a *)
(* handler or a check answers is chosen freely: FuluDriver and             *)
(* FuluForkChoice model the store they run on.                             *)
(***************************************************************************)
EXTENDS Naturals, Sequences, SequencesExt

CONSTANTS
  Entries,    (* the steps.yaml entries vectors are made of *)
  MaxEntries  (* bound, of a fork "fulu", "gloas" or "heze": entries of one vector *)

VARIABLES
  fork,       (* the fork the vector is for *)
  vector,     (* the entries of steps.yaml *)
  pc,         (* encode, decode, run, report, done *)
  lines,      (* the script file *)
  steps,      (* the decoded steps *)
  at,         (* the step the interpreter runs next *)
  answers,    (* history: the items run to a match, with what they answered *)
  error,      (* what the interpreter threw, "none" while it runs *)
  outcome     (* what pytest reports *)

vars == <<fork, vector, pc, lines, steps, at, answers, error, outcome>>

(* The entries that carry a valid flag, and how the spec's errors are told *)
(* apart: StoreTransitionError, with a wrapped StateTransitionError as its *)
(* inner one.                                                              *)
Handlers == {"tick", "block", "attestation", "attester_slashing", "execution_payload",
             "payload_attestation_message"}
Errors == {"assert", "outOfBounds", "arithmetic", "listFull", "missingKey", "decodeFailure",
           "todo", "outOfScope"}
Outcomes == {"pass", "fail", "xfail", "skip"}

-----------------------------------------------------------------------------
(* The script: harness.py *)

KnownCheckKeys == {
  "get_proposer_head", "should_override_forkchoice_update", "head",
  "payload_timeliness_vote", "payload_data_availability_vote", "justified_checkpoint",
  "finalized_checkpoint", "proposer_boost_root", "time", "genesis_time",
  "viable_for_head_roots_and_weights"}

KnownCheckSubkeys == [
  head |-> {"root", "slot", "payload_status"},
  payload_timeliness_vote |-> {"block_root", "votes"},
  payload_data_availability_vote |-> {"block_root", "votes"},
  justified_checkpoint |-> {"epoch", "root"},
  finalized_checkpoint |-> {"epoch", "root"},
  viable_for_head_roots_and_weights |-> {"root", "weight", "payload_status"}]

(* The chain of tests that writes a line per check: the key, the subkey    *)
(* the line is for ("" for the key itself) and the token it starts with.   *)
EmitterChain == <<
  <<"get_proposer_head", "", "get_proposer_head">>,
  <<"should_override_forkchoice_update", "", "unsupported">>,
  <<"head", "", "head">>,
  <<"head", "payload_status", "head_payload_status">>,
  <<"payload_timeliness_vote", "", "payload_timeliness_vote">>,
  <<"payload_data_availability_vote", "", "payload_data_availability_vote">>,
  <<"justified_checkpoint", "", "justified">>,
  <<"finalized_checkpoint", "", "finalized">>,
  <<"proposer_boost_root", "", "boost">>,
  <<"time", "", "time">>,
  <<"genesis_time", "", "genesis_time">>,
  <<"viable_for_head_roots_and_weights", "", "viable_for_head">> >>

Line(token, i, key, sub) ==
  [token |-> token, valid |-> vector[i].valid, item |-> <<i, key, sub>>]

(* The keys nobody emits a line for, and the subkeys one level down.       *)
Unknown(checks) ==
  {<<k, "">> : k \in DOMAIN checks \ KnownCheckKeys}
    \cup UNION {{<<k, s>> : s \in checks[k] \ KnownCheckSubkeys[k]} :
                k \in DOMAIN checks \cap DOMAIN KnownCheckSubkeys}

CheckLines(i) ==
  LET checks == vector[i].checks
      LineOf(e) == IF e[1] \in DOMAIN checks /\ e[2] \in checks[e[1]] \cup {""}
                   THEN <<Line(e[3], i, e[1], e[2])>> ELSE <<>>
  IN FlattenSeq([j \in DOMAIN EmitterChain |-> LineOf(EmitterChain[j])])
       \o (IF Unknown(checks) = {} THEN <<>> ELSE <<Line("unsupported", i, "", "")>>)

EntryLines(i) ==
  IF vector[i].key \in Handlers THEN <<Line(vector[i].key, i, vector[i].key, "")>>
  ELSE IF vector[i].key = "checks" THEN CheckLines(i)
  ELSE <<Line("unsupported", i, "", "")>>

(* A variant of Encode: an entry with an unknown key is left out. *)
EncodeKnown ==
  /\ pc = "encode"
  /\ pc' = "decode"
  /\ lines' = FlattenSeq([i \in DOMAIN vector |->
                IF vector[i].key \in Handlers \cup {"checks"} THEN EntryLines(i) ELSE <<>>])
  /\ UNCHANGED <<fork, vector, steps, at, answers, error, outcome>>

(* _build_fork_choice_request *)
Encode ==
  /\ pc = "encode"
  /\ pc' = "decode"
  /\ lines' = FlattenSeq([i \in DOMAIN vector |-> EntryLines(i)])
  /\ UNCHANGED <<fork, vector, steps, at, answers, error, outcome>>

-----------------------------------------------------------------------------
(* The server: handleForkChoice *)

(* The tokens the server knows; any other line becomes an unsupported step.*)
ServerTokens == Handlers \cup {
  "head", "get_proposer_head", "head_payload_status", "payload_timeliness_vote",
  "payload_data_availability_vote", "justified", "finalized", "boost", "time",
  "genesis_time", "viable_for_head"}

Decode ==
  /\ pc = "decode"
  /\ pc' = "run"
  /\ steps' = [j \in DOMAIN lines |->
                 IF lines[j].token \in ServerTokens THEN lines[j]
                 ELSE [lines[j] EXCEPT !.token = "unsupported"]]
  /\ UNCHANGED <<fork, vector, lines, at, answers, error, outcome>>

(* What the interpreter of the fork throws `todo` at.                      *)
Unported ==
  {"unsupported"} \cup
  (IF fork = "fulu"
   THEN {"execution_payload", "payload_attestation_message", "head_payload_status",
         "payload_timeliness_vote", "payload_data_availability_vote"}
   ELSE {"get_proposer_head"})

-----------------------------------------------------------------------------
(* The interpreter: fcInterpret and checkStepValidity *)

(* A variant of Admits: the block step takes an index miss as well. *)
AdmitsIndexMiss(kind, e) == e \in {"assert", "outOfBounds"}

(* FcStepKind.admits: the errors the reference wrapper of the step catches.*)
Admits(kind, e) == e = "assert" \/ (e = "outOfBounds" /\ kind # "block")

Throw(e) ==
  /\ error' = e
  /\ pc' = "report"
  /\ UNCHANGED <<at, answers>>

(* The interpreter goes on, from the error-time store after a rejection.   *)
Match(step, r) ==
  /\ at' = at + 1
  /\ answers' = answers \cup {<<step.item, r>>}
  /\ UNCHANGED <<error, pc>>

(* checkStepValidity, for a handler that answered r.                       *)
CheckStepValidity(step, r) ==
  IF r = "ok"
  THEN IF step.valid THEN Match(step, r) ELSE Throw("assert")
  ELSE IF ~ step.valid /\ Admits(step.token, r) THEN Match(step, r) ELSE Throw(r)

(* A tick is expected to be valid whatever its entry says; a valid block   *)
(* is followed by the replay of its attestations and slashings, which can  *)
(* throw after on_block was accepted.                                      *)
RunHandler(step, r) ==
  /\ step.token \in Handlers \ Unported
  /\ CASE step.token = "tick" -> CheckStepValidity([step EXCEPT !.valid = TRUE], r)
       [] step.token = "block" /\ step.valid /\ r = "ok" ->
            Match(step, r) \/ \E e \in Errors : Throw(e)
       [] OTHER -> CheckStepValidity(step, r)

(* A check holds, fails its assert, or misses a key of the store.          *)
RunCheck(step) ==
  /\ step.token \notin Handlers \cup Unported
  /\ Match(step, "ok") \/ Throw("assert") \/ Throw("missingKey")

RunUnported(step) ==
  /\ step.token \in Unported
  /\ Throw("todo")

RunStep ==
  /\ pc = "run"
  /\ at \in DOMAIN steps
  /\ \/ \E r \in Errors \cup {"ok"} : RunHandler(steps[at], r)
     \/ RunCheck(steps[at])
     \/ RunUnported(steps[at])
  /\ UNCHANGED <<fork, vector, lines, steps, outcome>>

RunEnds ==
  /\ pc = "run"
  /\ at \notin DOMAIN steps
  /\ pc' = "report"
  /\ UNCHANGED <<fork, vector, lines, steps, at, answers, error, outcome>>

-----------------------------------------------------------------------------
(* The result line and the verdict: handleForkChoice, test_case *)

Bucket(e) ==
  CASE e = "none" -> "passing"
    [] e = "todo" -> "todo"
    [] e = "outOfScope" -> "skip"
    [] OTHER -> "bug"

Report ==
  /\ pc = "report"
  /\ pc' = "done"
  /\ outcome' = CASE Bucket(error) = "bug" -> "fail"
                  [] Bucket(error) = "skip" -> "skip"
                  [] Bucket(error) = "todo" -> "xfail"
                  [] OTHER -> "pass"
  /\ UNCHANGED <<fork, vector, lines, steps, at, answers, error>>

Init ==
  /\ fork \in DOMAIN MaxEntries
  /\ vector \in UNION {[1 .. n -> Entries] : n \in 1 .. MaxEntries[fork]}
  /\ pc = "encode"
  /\ lines = <<>> /\ steps = <<>>
  /\ at = 1
  /\ answers = {}
  /\ error = "none"
  /\ outcome = "none"

Next == Encode \/ Decode \/ RunStep \/ RunEnds \/ Report

Spec == Init /\ [][Next]_vars

-----------------------------------------------------------------------------
TypeOK ==
  /\ vector \in Seq(Entries)
  /\ pc \in {"encode", "decode", "run", "report", "done"}
  /\ \A j \in DOMAIN steps : steps[j].token \in ServerTokens \cup {"unsupported"}
  /\ at \in 1 .. Len(steps) + 1
  /\ error \in Errors \cup {"none"}
  /\ outcome \in Outcomes \cup {"none"}

(* What a vector asks for: each entry with a handler, each check of a      *)
(* checks entry (a payload_status under head is one of its own), and each  *)
(* entry, key or subkey of a kind not seen so far.                         *)
Asked ==
  UNION {IF vector[i].key = "checks"
         THEN {<<i, k, "">> : k \in DOMAIN vector[i].checks}
              \cup UNION {{<<i, k, s>> : s \in vector[i].checks[k]
                             \ (IF k = "head" THEN {"root", "slot"} ELSE
                                IF k \in DOMAIN KnownCheckSubkeys THEN KnownCheckSubkeys[k]
                                ELSE {})} : k \in DOMAIN vector[i].checks}
         ELSE {<<i, vector[i].key, "">>} : i \in DOMAIN vector}

(* A case passes only when everything its vector asks for was run and      *)
(* matched: no step, check or subkey is dropped on the way from steps.yaml *)
(* through the script to the interpreter (harness.py:193-194).             *)
PassChecksAll == outcome = "pass" => {x[1] : x \in answers} = Asked

(* A case is set aside as work to be done only because its vector asks for *)
(* something the fork does not model or a handler says so itself; a case   *)
(* whose checks are all modelled is never demoted (harness.py:55-56).      *)
Modelled(item) ==
  IF vector[item[1]].key = "checks"
  THEN \E e \in Range(EmitterChain) :
         e[1] = item[2] /\ e[2] = item[3] /\ e[3] \notin Unported
  ELSE item[2] \in Handlers \ Unported
XfailHasCause ==
  outcome = "xfail" => \/ steps[at].token \in Handlers
                       \/ \E item \in Asked : ~ Modelled(item)

(* A step counts as matched only where the reference runner would go on: a *)
(* step marked invalid raised what the wrapper of its kind catches         *)
(* (AssertionError in add_block, IndexError as well in                     *)
(* expect_assertion_error), any other step and every check succeeded.      *)
Wanted(item) ==
  IF item[2] \in Handlers \ {"tick"} /\ ~ vector[item[1]].valid
  THEN IF item[2] = "block" THEN {"assert"} ELSE {"assert", "outOfBounds"}
  ELSE {"ok"}
MatchedAsReference == \A x \in answers : x[2] \in Wanted(x[1])

(* A mismatch is a failure: whatever the interpreter threw, only a reason  *)
(* of our own (todo, outOfScope) keeps the test from failing.              *)
MismatchFails ==
  pc = "done" /\ error \notin {"none", "todo", "outOfScope"} => outcome = "fail"
=============================================================================

----------------------------- MODULE CaseVerdict -----------------------------
(***************************************************************************)
(* One conformance case other than fork_choice, from its files to the      *)
(* outcome of its test: build_request of                                   *)
(* packages/EthCLSpecs/PySpecTests/harness.py encodes it by position, the  *)
(* server (PySpecTests/Server.lean) decodes it, EthCLLib's driver          *)
(* (EthCLLib/PySpecTests/Driver.lean) runs and classifies it, and          *)
(* test_pyspec.py reads the bucket.                                        *)
(*                                                                         *)
(* Abstractions.  A file is named by what it holds, a numeric field is its *)
(* number.  A field of the request line is a dash, a value, or the cfg=    *)
(* field.  What the spec code answers for a case is chosen freely.  That   *)
(* the fork cannot apply an override (Server.lean:270-272) is left out: it *)
(* only makes cases fail.                                                  *)
(***************************************************************************)
EXTENDS Naturals, Sequences, FiniteSets, SequencesExt

CONSTANTS Cases   (* the cases: see CaseType *)

VARIABLES
  case,     (* the case under test *)
  pc,       (* encode, decode, run, verdict, done *)
  request,  (* the fields of the request line *)
  decoded,  (* the CaseRequest the server read from it *)
  answer,   (* what running the case came to *)
  result,   (* the fields of the result line *)
  outcome   (* what pytest reports *)

vars == <<case, pc, request, decoded, answer, result, outcome>>

(* The rejects of the state machine, and a container that does not decode. *)
Rejects == {"assert", "outOfBounds", "arithmetic", "listFull", "todo", "outOfScope"}
Answers == {"match", "mismatch", "decode"} \cup Rejects

Dash == [tag |-> "dash"]
Val(x) == [tag |-> "val", v |-> x]
Opt(x) == IF x = <<>> THEN Dash ELSE Val(x[1])

(* What a case ships: optional values are sequences of at most one.        *)
(* blocks is the set of numbers of its blocks_N files, config the keys of  *)
(* its config.yaml with their values.                                      *)
CaseType(c) ==
  /\ DOMAIN c = {"runner", "handler", "name", "pre", "post", "blocks", "operand", "slots",
                 "deltas", "meta", "executionValid", "config"}
  /\ DOMAIN c.meta = {"bls", "count", "forkEpoch", "forkBlock", "parentSlot", "postFork"}

-----------------------------------------------------------------------------
(* The request: harness.py *)

ForkEpochKeys == {"FULU_FORK_EPOCH", "GLOAS_FORK_EPOCH", "HEZE_FORK_EPOCH"}
ForkEpochKey(fork) == CASE fork = "fulu" -> "FULU_FORK_EPOCH"
                        [] fork = "gloas" -> "GLOAS_FORK_EPOCH"
                        [] fork = "heze" -> "HEZE_FORK_EPOCH"

(* config_overrides: the fork epochs of config.yaml, and over them the one *)
(* a transition case activates its post-fork at.                           *)
Overrides(c) ==
  LET fromConfig == [k \in DOMAIN c.config \cap ForkEpochKeys |-> c.config[k]]
      activated == IF c.runner = "transition" /\ c.meta.forkEpoch # <<>> /\ c.meta.postFork # <<>>
                   THEN {ForkEpochKey(c.meta.postFork[1])} ELSE {}
  IN [k \in DOMAIN fromConfig \cup activated |->
        IF k \in activated THEN c.meta.forkEpoch[1] ELSE fromConfig[k]]

(* sanity/slots: the count as the bytes of a big-endian number.            *)
Base == 256
BigEndian(n) ==
  LET k == CHOOSE j \in 1 .. 4 : n < Base ^ j /\ \A i \in 1 .. j - 1 : n >= Base ^ i
  IN [i \in 1 .. k |-> (n \div Base ^ (k - i)) % Base]
FromBigEndian(bytes) == FoldLeft(LAMBDA acc, x : acc * Base + x, 0, bytes)

(* A variant of BlockOrder: the order of the file names. *)
BlockNameOrder(m, n) ==
  LET rank(k) == IF k < 10 THEN k * 100 ELSE (k \div 10) * 100 + 1 + (k % 10)
  IN rank(m) < rank(n)

BlockOrder(m, n) == m < n

Sorted(S) ==
  [i \in 1 .. Cardinality(S) |->
     CHOOSE b \in S : Cardinality({x \in S : BlockOrder(x, b)}) = i - 1]

DeltaFiles == <<"source_deltas", "target_deltas", "head_deltas", "inactivity_penalty_deltas">>

(* The files of the inputs field, in order.                                *)
Inputs(c) ==
  Sorted(c.blocks)
    \o (IF c.runner = "operations" THEN c.operand ELSE <<>>)
    \o (IF c.runner = "sanity" /\ c.handler = "slots" /\ c.slots # <<>>
        THEN <<BigEndian(c.slots[1])>> ELSE <<>>)
    \o (IF c.runner = "rewards" THEN SelectSeq(DeltaFiles, LAMBDA f : f \in c.deltas) ELSE <<>>)

ExecutionValid(c) ==
  IF c.runner = "operations" /\ c.handler = "execution_payload" /\ c.executionValid = <<FALSE>>
  THEN 0 ELSE 1

(* build_request, and _build_ssz_static_request.                           *)
Fields(c) ==
  LET cfg == [tag |-> "cfg", v |-> Overrides(c)]
  IN IF c.runner = "ssz_static"
     THEN <<Val(c.runner), Val(c.handler), Val("serialized"), Val("root"), cfg>>
     ELSE <<Val(c.runner), Val(c.handler), Opt(c.pre), Opt(c.post), Val(c.meta.bls),
            Val(IF c.meta.count = <<>> THEN Cardinality(c.blocks) ELSE c.meta.count[1]),
            Opt(c.meta.forkEpoch), Val(Inputs(c)), Opt(c.meta.forkBlock),
            Val(ExecutionValid(c)), Opt(c.meta.parentSlot), cfg>>

Encode ==
  /\ pc = "encode"
  /\ pc' = "decode"
  /\ request' = Fields(case)
  /\ UNCHANGED <<case, decoded, answer, result, outcome>>

-----------------------------------------------------------------------------
(* The server: splitConfigOverrides and buildRequest *)

FromOpt(f) == IF f.tag = "dash" THEN <<>> ELSE <<f.v>>

(* The trailing cfg= field is split off before positions are read.         *)
Positional(fields) == IF Last(fields).tag = "cfg" THEN Front(fields) ELSE fields

(* handleLine, up to the run.  Optional trailing fields have their default *)
(* when the line is shorter.                                               *)
Decode ==
  /\ pc = "decode"
  /\ pc' = "run"
  /\ LET f == Positional(request)
         opt(i) == IF i \in DOMAIN f THEN FromOpt(f[i]) ELSE <<>>
     IN decoded' =
          IF f[1].v = "ssz_static"
          THEN [runner |-> f[1].v, handler |-> f[2].v]
          ELSE [runner |-> f[1].v, handler |-> f[2].v, pre |-> FromOpt(f[3]),
                post |-> FromOpt(f[4]), bls |-> f[5].v, count |-> f[6].v,
                forkEpoch |-> FromOpt(f[7]), inputs |-> f[8].v, forkBlock |-> FromOpt(f[9]),
                executionValid |-> (IF 10 \in DOMAIN f THEN f[10].v = 1 ELSE TRUE),
                parentSlot |-> opt(11),
                overrides |-> IF Last(request).tag = "cfg" THEN Last(request).v ELSE <<>>]
  /\ UNCHANGED <<case, request, answer, result, outcome>>

-----------------------------------------------------------------------------
(* The driver: dispatch, runCase, classifyReject, render *)

(* The formats dispatch knows; sanity/slots wants its count.               *)
Wired(r) ==
  \/ r.runner \in {"finality", "random", "operations", "epoch_processing", "genesis", "fork",
                   "transition", "rewards", "ssz_static"}
  \/ r.runner = "sanity" /\ r.handler = "blocks"
  \/ r.runner = "sanity" /\ r.handler = "slots" /\ r.inputs # <<>>

(* The spec code answers; a case that ships no post is never a mismatch,   *)
(* it just runs clean (match).                                             *)
Run ==
  /\ pc = "run"
  /\ pc' = "verdict"
  /\ answer' \in IF Wired(decoded) THEN Answers ELSE {"todo"}
  /\ UNCHANGED <<case, request, decoded, result, outcome>>

Result(passed, bucket, flagged) == [passed |-> passed, bucket |-> bucket, flagged |-> flagged]

(* StateTransitionError.classify and ClassifyBucket.tag                    *)
Tag(e) == CASE e = "assert" -> "reject"
            [] e = "todo" -> "todo"
            [] e = "outOfScope" -> "skip"
            [] OTHER -> "bug"

(* RunnerCaughtSet.ofCase and admits                                       *)
CaughtSet(r) ==
  IF r.runner = "epoch_processing" /\ r.handler = "registry_updates"
  THEN {"arithmetic"} ELSE {"assert", "outOfBounds"}

(* A variant of ClassifyReject: the caught set is not consulted. *)
ClassifyAnyReject(r, e) ==
  IF e \in {"todo", "outOfScope"} THEN Result(FALSE, Tag(e), FALSE)
  ELSE Result(TRUE, "reject", e = "outOfBounds")

ClassifyReject(r, e) ==
  LET caught == e \in CaughtSet(r)
  IN CASE e \in {"todo", "outOfScope"} -> Result(FALSE, Tag(e), FALSE)
       [] e = "assert" -> Result(caught, IF caught THEN "reject" ELSE "bug", ~ caught)
       [] e = "outOfBounds" -> Result(caught, "bug", TRUE)
       [] OTHER -> Result(caught, IF caught THEN "reject" ELSE "bug", FALSE)

(* runCase; rewards and ssz_static compare their own way and pass only on  *)
(* a match.                                                                *)
RunCase(r, a) ==
  IF r.runner \in {"rewards", "ssz_static"} \/ r.post # <<>>
  THEN CASE a = "match" -> Result(TRUE, "pass", FALSE)
         [] a \in {"mismatch", "decode"} -> Result(FALSE, "bug", FALSE)
         [] OTHER -> Result(FALSE, IF r.runner \in {"rewards", "ssz_static"} /\ Tag(a) = "reject"
                                   THEN "bug" ELSE Tag(a), FALSE)
  ELSE CASE a \in {"match", "mismatch"} -> Result(FALSE, "bug", FALSE)
         [] a = "decode" -> Result(FALSE, "bug", TRUE)
         [] OTHER -> ClassifyReject(r, a)

(* test_case: it looks for the bucket "bug", and render put a mark after   *)
(* the bucket of a flagged result ("bug!").                                *)
Outcome(r) ==
  CASE r.bucket = "bug" /\ ~ r.flagged -> "fail"
    [] ~ r.passed /\ r.bucket = "skip" -> "skip"
    [] ~ r.passed /\ r.bucket = "todo" -> "xfail"
    [] OTHER -> IF r.passed THEN "pass" ELSE "fail"

Verdict ==
  /\ pc = "verdict"
  /\ pc' = "done"
  /\ result' = RunCase(decoded, answer)
  /\ outcome' = Outcome(result')
  /\ UNCHANGED <<case, request, decoded, answer>>

Init ==
  /\ case \in Cases
  /\ pc = "encode"
  /\ request = <<>>
  /\ decoded = [runner |-> "none"]
  /\ answer = "none"
  /\ result = Result(FALSE, "none", FALSE)
  /\ outcome = "none"

Next == Encode \/ Decode \/ Run \/ Verdict

Spec == Init /\ [][Next]_vars

-----------------------------------------------------------------------------
TypeOK ==
  /\ CaseType(case)
  /\ pc \in {"encode", "decode", "run", "verdict", "done"}
  /\ Len(request) \in {0, 5, 12}
  /\ answer \in Answers \cup {"none"}
  /\ result.bucket \in {"none", "pass", "reject", "todo", "skip", "bug"}
  /\ outcome \in {"none", "pass", "fail", "xfail", "skip"}

(* The server reads what the case holds: every positional field, blocks in *)
(* block order, the slot count, the deltas in the order the runner returns *)
(* them, and the fork epochs of its configuration (Server.lean:19-28).     *)
RequestRoundTrip ==
  pc \notin {"encode", "decode"} /\ case.runner # "ssz_static" =>
    /\ decoded.runner = case.runner /\ decoded.handler = case.handler
    /\ decoded.pre = case.pre /\ decoded.post = case.post
    /\ \A i, j \in 1 .. Cardinality(case.blocks) :
         i < j => decoded.inputs[i] < decoded.inputs[j]
    /\ case.slots # <<>> => FromBigEndian(decoded.inputs[1]) = case.slots[1]
    /\ case.deltas # {} => decoded.inputs = DeltaFiles
    /\ decoded.parentSlot = case.meta.parentSlot
    /\ decoded.executionValid = (case.executionValid # <<FALSE>>)
    /\ case.runner = "transition" /\ case.meta.postFork # <<>> =>
         decoded.overrides[ForkEpochKey(case.meta.postFork[1])] = case.meta.forkEpoch[1]
    /\ \A k \in DOMAIN case.config : k \in ForkEpochKeys => k \in DOMAIN decoded.overrides

(* The reference runner: a case with a post state passes when its root     *)
(* matches, one without when the wrapper of its own test catches what was  *)
(* raised.  One test of the reference wraps in `except ValueError`.        *)
ReferencePasses(c, a) ==
  IF c.runner \in {"rewards", "ssz_static"} \/ c.post # <<>> THEN a = "match"
  ELSE IF c.name = "invalid_large_withdrawable_epoch" THEN a = "arithmetic"
  ELSE a \in {"assert", "outOfBounds"}

(* test_value_error_scope fails on a corpus with this case.                *)
ScopeTestFails(c) ==
  /\ c.runner = "epoch_processing" /\ c.handler = "registry_updates"
  /\ c.post = <<>>
  /\ c.name # "invalid_large_withdrawable_epoch"

(* A case passes exactly when the reference runner passes it, unless the   *)
(* scope test has failed the corpus for it: no undecodable container and   *)
(* no uncaught fault stands in for a rejection.                            *)
PassIffReference ==
  pc = "done" /\ ~ ScopeTestFails(case) /\ answer \notin {"todo", "outOfScope"} =>
    (outcome = "pass" <=> ReferencePasses(case, answer))

(* Only our own deferrals keep a case from failing, and none of them       *)
(* passes (test_pyspec.py:10-14).                                          *)
DeferralsVisible ==
  pc = "done" =>
    /\ answer = "todo" <=> outcome = "xfail"
    /\ answer = "outOfScope" <=> outcome = "skip"

(* `bug` is always a hard failure (test_pyspec.py:8-9).                    *)
BugAlwaysFails == pc = "done" /\ result.bucket = "bug" => outcome = "fail"
=============================================================================

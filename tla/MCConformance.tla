---------------------------- MODULE MCConformance ----------------------------
(***************************************************************************)
(* Conformance for TLC: three xdist workers at once and two, one worker    *)
(* over more sessions with more failures, the trees of two suites, and     *)
(* vectors and cases of every kind.                                        *)
(***************************************************************************)
EXTENDS Conformance, TLC

(* The case directories, any part of them on disk.                         *)
Dir(f, runner, handler, kind, name) ==
  [fork |-> f, runner |-> runner, handler |-> handler, kind |-> kind, name |-> name]

MCConsensusTree == <<
  Dir("fulu", "bls", "sign", "s", "a"),
  Dir("fulu", "epoch_processing", "slashings", "s", "a"),
  Dir("fulu", "operations", "attestation", "s", "a"),
  Dir("fulu", "operations", "attestation", "s", "b"),
  Dir("fulu", "operations", "attestation", "t", "a"),
  Dir("fulu", "operations", "withdrawals", "s", "a"),
  Dir("fulu", "operations", "withdrawals", "s", "b"),
  Dir("fulu", "transition", "core", "s", "a") >>

MCGenericTree == <<
  Dir("altair", "ssz_generic", "uints", "valid", "a"),
  Dir("altair", "ssz_generic", "uints", "invalid", "a"),
  Dir("phase0", "ssz_generic", "compatible_unions", "valid", "a"),
  Dir("phase0", "ssz_generic", "uints", "valid", "a"),
  Dir("phase0", "ssz_generic", "uints", "valid", "b"),
  Dir("phase0", "ssz_generic", "uints", "valid", "c"),
  Dir("phase0", "ssz_generic", "uints", "invalid", "a"),
  Dir("phase0", "ssz_generic", "uints", "invalid", "b") >>

MCTrees == [consensus |-> MCConsensusTree, generic |-> MCGenericTree]

-----------------------------------------------------------------------------
(* fork_choice vectors of up to three entries for Fulu, two for Gloas.     *)
NoChecks == [k \in {} |-> {}]
Handler(key, valid) == [key |-> key, valid |-> valid, checks |-> NoChecks]
Checks(c) == [key |-> "checks", valid |-> TRUE, checks |-> c]

(* Entries with a handler, one of an unknown kind, and checks entries with *)
(* every known key, an unknown key and an unknown subkey among them.       *)
MCEntries ==
  {Handler("tick", TRUE), Handler("block", TRUE), Handler("block", FALSE),
   Handler("attestation", TRUE), Handler("attestation", FALSE),
   Handler("attester_slashing", FALSE), Handler("execution_payload", FALSE),
   Handler("payload_attestation_message", TRUE), Handler("on_inclusion_list", TRUE)}
  \cup {Checks(c) : c \in {
    "time" :> {} @@ "genesis_time" :> {} @@ "head" :> {"root", "slot"}
      @@ "justified_checkpoint" :> {"epoch", "root"}
      @@ "finalized_checkpoint" :> {"epoch", "root"}
      @@ "viable_for_head_roots_and_weights" :> {"root", "weight", "payload_status"},
    "head" :> {"root", "slot", "payload_status"}
      @@ "payload_timeliness_vote" :> {"block_root", "votes"}
      @@ "payload_data_availability_vote" :> {"block_root", "votes"},
    "head" :> {"root", "slot", "weight"} @@ "time" :> {},
    "get_proposer_head" :> {} @@ "proposer_boost_root" :> {},
    "should_override_forkchoice_update" :> {} @@ "time" :> {},
    "inclusion_list_satisfied" :> {} @@ "genesis_time" :> {}}}

MCMaxEntries == [fulu |-> 3, gloas |-> 2]

-----------------------------------------------------------------------------
(* Cases of the other formats.                                             *)
MCDeltaFiles == {"source_deltas", "target_deltas", "head_deltas", "inactivity_penalty_deltas"}

Plain == [runner |-> "sanity", handler |-> "blocks", name |-> "case",
          pre |-> <<"pre">>, post |-> <<"post">>, blocks |-> {}, operand |-> <<>>,
          slots |-> <<>>, deltas |-> {}, executionValid |-> <<>>,
          config |-> [k \in {} |-> 0],
          meta |-> [bls |-> 1, count |-> <<>>, forkEpoch |-> <<>>, forkBlock |-> <<>>,
                    parentSlot |-> <<>>, postFork |-> <<>>]]

(* A case of every format: valid and invalid, with twelve blocks, with     *)
(* slot counts on both sides of a byte, with every optional field.         *)
MCCases ==
  UNION {
    {[Plain EXCEPT !.blocks = b, !.post = p] : b \in {{0}, 0 .. 11}, p \in {<<>>, <<"post">>}},
    {[Plain EXCEPT !.handler = "slots", !.slots = <<n>>] : n \in {0, 1, 255, 256, 65535, 65536}},
    {[Plain EXCEPT !.runner = "operations", !.handler = h, !.operand = <<h>>, !.post = p,
                   !.executionValid = IF h = "execution_payload" THEN v ELSE <<>>] :
       h \in {"attestation", "execution_payload"}, p \in {<<>>, <<"post">>},
       v \in {<<>>, <<TRUE>>, <<FALSE>>}},
    {[Plain EXCEPT !.runner = "operations", !.handler = "attestation",
                   !.operand = <<"attestation">>, !.meta.parentSlot = <<3>>,
                   !.config = "GLOAS_FORK_EPOCH" :> 0 @@ "SECONDS_PER_SLOT" :> 6]},
    {[Plain EXCEPT !.runner = "epoch_processing", !.handler = h, !.post = p] :
       h \in {"registry_updates", "slashings"}, p \in {<<>>, <<"post">>}},
    {[Plain EXCEPT !.runner = "epoch_processing", !.handler = "registry_updates",
                   !.post = <<>>, !.name = "invalid_large_withdrawable_epoch"]},
    {[Plain EXCEPT !.runner = "rewards", !.handler = "basic", !.post = <<>>,
                   !.deltas = MCDeltaFiles]},
    {[Plain EXCEPT !.runner = "transition", !.handler = "core", !.blocks = 0 .. 2,
                   !.meta.forkEpoch = <<2>>, !.meta.postFork = <<"gloas">>,
                   !.meta.forkBlock = f, !.config = "GLOAS_FORK_EPOCH" :> 9] :
       f \in {<<>>, <<1>>}},
    {[Plain EXCEPT !.runner = "ssz_static", !.handler = "Validator", !.pre = <<>>, !.post = <<>>]},
    {[Plain EXCEPT !.handler = "unknown"]}}
=============================================================================

----------------------------- MODULE MCGenerators -----------------------------
(***************************************************************************)
(* The two generators of constants, side by side: the round constants of   *)
(* Poseidon2 for small numbers of rounds and those of the data files, and  *)
(* the BLAKE2b vectors.  Either runs on its own; the other then rests.     *)
(***************************************************************************)
EXTENDS PoseidonParams

VARIABLES case, brounds, call, v, fed

AllCases == 1 .. 6

Blake == INSTANCE Blake2f WITH Cases <- AllCases, round <- brounds

bvars == <<case, brounds, call, v, fed>>
MCvars == <<vars, bvars>>

(* The first vector has no rounds: while it is up, Poseidon2 runs.         *)
MCInit ==
  /\ Init
  /\ Blake!Init
  /\ case = 1 \/ data = [rounds_f |-> 0, rounds_p |-> 0, listed |-> 2]

MCNext ==
  \/ case = 1 /\ Next /\ UNCHANGED bvars
  \/ case # 1 /\ Blake!Next /\ UNCHANGED vars

MCSpec == MCInit /\ [][MCNext]_MCvars

-----------------------------------------------------------------------------

\* gen_vectors reproduces the published vectors, and a finished round has fed every
\* message word once; the permutation never reads past the array it was given, and
\* a complete pass ends on its last entry.
ValuesReproduced ==
  /\ Blake!TypeOK /\ Blake!Reproduced /\ Blake!EveryWordFed
  /\ TypeOK /\ ReadsInside
=============================================================================

--------------------------- MODULE PoseidonParams ---------------------------
(***************************************************************************)
(* The round constants of Poseidon2.  packages/LeanPoseidon/scripts/       *)
(* gen_poseidon_params.py flattens the constants of an instance, round by  *)
(* round, into one array; LeanPoseidon/Poseidon2/Permutation.lean indexes  *)
(* that array with arithmetic of its own.  The two have to agree for every *)
(* number of rounds.                                                       *)
(*                                                                         *)
(* Abstractions.  A constant is where it comes from, <<round, element>> of *)
(* the data file; the field, the S-box and the linear layers are left out. *)
(***************************************************************************)
EXTENDS Integers, Sequences

CONSTANTS
  RoundsF,  (* numbers of full rounds a data file may state *)
  RoundsP,  (* numbers of partial rounds *)
  Listed    (* rounds a data file may list constants for *)

ASSUME CountsAreNat == RoundsF \subseteq Nat /\ RoundsP \subseteq Nat /\ Listed \subseteq Nat

VARIABLES
  data,     (* rounds_f, rounds_p, and the rounds rc<t> lists *)
  pc,       (* load, flatten, refused, permute *)
  r, c,     (* the loop indices of the generator *)
  flat,     (* the array written so far *)
  round,    (* rounds the permutation has done *)
  added     (* history: what the last of them added to each element *)

vars == <<data, pc, r, c, flat, round, added>>

(* The width: `Vector R 3` in the permutation, "t" of both data files.     *)
t == 3
Elements == 0 .. t - 1

half == data.rounds_f \div 2
Total == half + data.rounds_p + half

IsPartial(q) == half <= q /\ q < half + data.rounds_p

(* A variant of EmitPartial: a partial round keeps its last entry.         *)
EmitPartialLast ==
  /\ pc = "flatten" /\ r < Total /\ IsPartial(r)
  /\ flat' = Append(flat, <<r, t - 1>>)
  /\ r' = r + 1
  /\ UNCHANGED <<data, pc, c, round, added>>

-----------------------------------------------------------------------------
(* emit_instance's first assertion, then flatten_round_constants: every    *)
(* entry of a full round, entry 0 of a partial one.                        *)
Load ==
  /\ pc = "load"
  /\ pc' = IF data.listed = data.rounds_f + data.rounds_p THEN "flatten" ELSE "refused"
  /\ UNCHANGED <<data, r, c, flat, round, added>>

EmitFull ==
  /\ pc = "flatten" /\ r < Total /\ ~IsPartial(r)
  /\ flat' = Append(flat, <<r, c>>)
  /\ IF c = t - 1 THEN r' = r + 1 /\ c' = 0 ELSE r' = r /\ c' = c + 1
  /\ UNCHANGED <<data, pc, round, added>>

EmitPartial ==
  /\ pc = "flatten" /\ r < Total /\ IsPartial(r)
  /\ flat' = Append(flat, <<r, 0>>)
  /\ r' = r + 1
  /\ UNCHANGED <<data, pc, c, round, added>>

(* The assertion on the length, which an odd number of full rounds fails.  *)
Assert ==
  /\ pc = "flatten" /\ r = Total
  /\ pc' = IF Len(flat) = data.rounds_f * t + data.rounds_p THEN "permute" ELSE "refused"
  /\ UNCHANGED <<data, r, c, flat, round, added>>

(* A variant of IndexAt: the end rounds forget the partial ones.           *)
IndexAtNoPartial(q, i) ==
  IF q < half THEN 3 * q + i
  ELSE IF IsPartial(q) THEN 3 * half + (q - half)
  ELSE 3 * half + 3 * (q - half - data.rounds_p) + i

(* permuteWith: where element i of round q reads the array (from 0).       *)
IndexAt(q, i) ==
  IF q < half THEN 3 * q + i
  ELSE IF IsPartial(q) THEN 3 * half + (q - half)
  ELSE 3 * half + data.rounds_p + 3 * (q - half - data.rounds_p) + i

Nothing == <<-1, -1>>

(* fullRound and partialRound; the latter adds to element 0 alone.         *)
Round ==
  /\ pc = "permute" /\ round < Total
  /\ added' = [i \in Elements |->
                 IF IsPartial(round) /\ i # 0 THEN Nothing ELSE flat[IndexAt(round, i) + 1]]
  /\ round' = round + 1
  /\ UNCHANGED <<data, pc, r, c, flat>>

Init ==
  /\ data \in [rounds_f : RoundsF, rounds_p : RoundsP, listed : Listed]
  /\ pc = "load"
  /\ r = 0 /\ c = 0
  /\ flat = <<>>
  /\ round = 0
  /\ added = [i \in Elements |-> Nothing]

Next == Load \/ EmitFull \/ EmitPartial \/ Assert \/ Round

Spec == Init /\ [][Next]_vars

-----------------------------------------------------------------------------
TypeOK ==
  /\ data \in [rounds_f : RoundsF, rounds_p : RoundsP, listed : Listed]
  /\ pc \in {"load", "flatten", "refused", "permute"}
  /\ r \in 0 .. Total /\ c \in Elements
  /\ flat \in Seq((0 .. Total - 1) \X Elements)
  /\ round \in 0 .. Total

(* Every round adds the constants the data file lists for that round: all  *)
(* of a full round, the first of a partial one, and nothing else.          *)
RightConstants ==
  round > 0 =>
    added = [i \in Elements |->
               IF IsPartial(round - 1) /\ i # 0 THEN Nothing ELSE <<round - 1, i>>]

(* The permutation never reads past the array it was given, and a complete *)
(* pass ends on its last entry (`rc[...]!` would answer a default).        *)
ReadsInside ==
  pc = "permute" =>
    /\ \A q \in 0 .. Total - 1 : \A i \in Elements :
         (IsPartial(q) => i = 0) => IndexAt(q, i) \in 0 .. Len(flat) - 1
    /\ data.rounds_f > 0 => IndexAt(Total - 1, t - 1) = Len(flat) - 1
=============================================================================

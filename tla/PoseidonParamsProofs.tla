------------------------ MODULE PoseidonParamsProofs ------------------------
(***************************************************************************)
(* The two index computations of Poseidon2 agree for every number of full  *)
(* and of partial rounds: the array the generator writes holds, where the  *)
(* permutation reads element i of round q, entry i of round q of the data. *)
(*                                                                         *)
(* The inductive invariant says where everything written so far stands     *)
(* (Placed), that the next write goes where the permutation will read it   *)
(* (NextIsRead), and that the array is complete once it is permuted.       *)
(***************************************************************************)
EXTENDS PoseidonParams, TLAPS

Datas == [rounds_f : RoundsF, rounds_p : RoundsP, listed : Listed]

(* Entry i of round q is used and has been written.                        *)
Written(q, i) ==
  /\ q \in 0 .. Total - 1 /\ i \in Elements
  /\ IsPartial(q) => i = 0
  /\ q < r \/ (q = r /\ i < c)

Placed == \A q, i \in Nat : Written(q, i) => flat[IndexAt(q, i) + 1] = <<q, i>>

NextIsRead == Len(flat) = IndexAt(r, c)

IInv ==
  /\ TypeOK
  /\ r = Total \/ IsPartial(r) => c = 0
  /\ pc = "permute" => r = Total
  /\ pc = "load" => r = 0
  /\ NextIsRead
  /\ Placed
  /\ round > 0 => pc = "permute"
  /\ RightConstants

-----------------------------------------------------------------------------
(* Half the full rounds, and the partial rounds, are naturals.             *)
LEMMA HalfIsNat ==
  ASSUME data \in Datas
  PROVE  half \in Nat /\ data.rounds_p \in Nat /\ Total \in Nat
<1>1. data.rounds_f \in Nat /\ data.rounds_p \in Nat
  BY CountsAreNat DEF Datas
<1>2. data.rounds_f \div 2 \in Nat
  BY <1>1
<1> QED BY <1>1, <1>2 DEF half, Total

(* Positions are naturals, and increase with the round and the element.    *)
LEMMA IndexAtOrder ==
  ASSUME data \in Datas,
         NEW q \in Nat, NEW i \in Elements, IsPartial(q) => i = 0,
         NEW p \in 0 .. Total, NEW j \in Elements, IsPartial(p) \/ p = Total => j = 0,
         q < p \/ (q = p /\ i < j)
  PROVE  IndexAt(q, i) \in Nat /\ IndexAt(p, j) \in Nat /\ IndexAt(q, i) < IndexAt(p, j)
<1>1. half \in Nat /\ data.rounds_p \in Nat
  BY HalfIsNat
<1>2. p \in Nat /\ p <= half + data.rounds_p + half /\ i \in 0 .. 2 /\ j \in 0 .. 2
  BY <1>1 DEF Total, Elements, t
<1> QED BY <1>1, <1>2 DEF IndexAt, IsPartial, Total

(* The position after a round's last used entry is the next round's first. *)
LEMMA IndexAtStep ==
  ASSUME data \in Datas, NEW q \in 0 .. Total - 1
  PROVE  /\ ~IsPartial(q) => /\ IndexAt(q, 1) = IndexAt(q, 0) + 1
                             /\ IndexAt(q, 2) = IndexAt(q, 1) + 1
                             /\ IndexAt(q + 1, 0) = IndexAt(q, 2) + 1
         /\ IsPartial(q) => IndexAt(q + 1, 0) = IndexAt(q, 0) + 1
<1>1. half \in Nat /\ data.rounds_p \in Nat
  BY HalfIsNat
<1>2. q \in Nat /\ q < half + data.rounds_p + half
  BY <1>1 DEF Total
<1> QED BY <1>1, <1>2 DEF IndexAt, IsPartial

-----------------------------------------------------------------------------
LEMMA InitIInv == Init => IInv
<1> SUFFICES ASSUME Init PROVE IInv
  OBVIOUS
<1> USE DEF Init
<1>1. data \in Datas
  BY DEF Datas
<1>2. half \in Nat /\ data.rounds_p \in Nat /\ Total \in Nat
  BY <1>1, HalfIsNat
<1>3. TypeOK
  BY <1>2 DEF TypeOK, Elements, t
<1>4. NextIsRead
  BY <1>2 DEF NextIsRead, IndexAt, IsPartial
<1>5. Placed
  BY <1>2 DEF Placed, Written, Elements, t
<1> QED BY <1>2, <1>3, <1>4, <1>5 DEF IInv, RightConstants

(* Writing entry c of round r where NextIsRead says keeps what stands.     *)
LEMMA AppendKeepsPlaced ==
  ASSUME IInv, data' = data, r < Total, IsPartial(r) => c = 0,
         flat' = Append(flat, <<r, c>>),
         \/ r' = r /\ c' = c + 1 /\ c + 1 < t /\ ~IsPartial(r)
         \/ r' = r + 1 /\ c' = 0 /\ (c = t - 1 \/ IsPartial(r))
  PROVE  NextIsRead' /\ Placed'
<1>0. data \in Datas /\ r \in 0 .. Total /\ c \in 0 .. 2 /\ Elements = 0 .. 2 /\ t = 3
  BY DEF IInv, TypeOK, Datas, Elements, t
<1>1. half \in Nat /\ data.rounds_p \in Nat /\ Total \in Nat
  BY <1>0, HalfIsNat
<1>2. r \in 0 .. Total - 1
  BY <1>0, <1>1
<1>3. /\ Total' = Total
      /\ \A q, i : IndexAt(q, i)' = IndexAt(q, i)
      /\ \A q : IsPartial(q)' = IsPartial(q)
  BY DEF Total, IndexAt, IsPartial, half
<1>4. /\ ~IsPartial(r) => /\ IndexAt(r, 1) = IndexAt(r, 0) + 1
                          /\ IndexAt(r, 2) = IndexAt(r, 1) + 1
                          /\ IndexAt(r + 1, 0) = IndexAt(r, 2) + 1
      /\ IsPartial(r) => IndexAt(r + 1, 0) = IndexAt(r, 0) + 1
  BY <1>0, <1>2, IndexAtStep
<1>5. flat \in Seq((0 .. Total - 1) \X Elements) /\ Len(flat) = IndexAt(r, c)
  BY DEF IInv, TypeOK, NextIsRead
<1>6. <<r, c>> \in (0 .. Total - 1) \X Elements
  BY <1>0, <1>2
<1>7. /\ Len(flat') = Len(flat) + 1
      /\ flat'[Len(flat) + 1] = <<r, c>>
      /\ \A k \in 1 .. Len(flat) : flat'[k] = flat[k]
  BY <1>5, <1>6
<1>8. NextIsRead'
  <2>1. Len(flat)' = IndexAt(r, c) + 1
    BY <1>5, <1>7
  <2>2. CASE r' = r /\ c' = c + 1 /\ c + 1 < t /\ ~IsPartial(r)
    <3>1. c = 0 \/ c = 1
      BY <2>2, <1>0
    <3>2. IndexAt(r, c + 1) = IndexAt(r, c) + 1
      BY <3>1, <2>2, <1>4
    <3> QED BY <3>2, <2>1, <2>2 DEF NextIsRead, IndexAt, half, IsPartial
  <2>3. CASE r' = r + 1 /\ c' = 0 /\ (c = t - 1 \/ IsPartial(r))
    <3>1. IndexAt(r + 1, 0) = IndexAt(r, c) + 1
      BY <2>3, <1>4, <1>0
    <3> QED BY <3>1, <2>1, <2>3 DEF NextIsRead, IndexAt, half, IsPartial
  <2> QED BY <2>2, <2>3
<1>9. Placed'
  <2> SUFFICES ASSUME NEW q \in Nat, NEW i \in Nat, Written(q, i)'
               PROVE  flat'[IndexAt(q, i) + 1] = <<q, i>>
    BY <1>3 DEF Placed
  <2>1. /\ q \in 0 .. Total - 1 /\ i \in Elements
        /\ IsPartial(q) => i = 0
        /\ q < r' \/ (q = r' /\ i < c')
    BY <1>3 DEF Written, Elements, t
  <2>2. CASE q = r /\ i = c
    BY <2>2, <1>5, <1>7
  <2>3. CASE ~(q = r /\ i = c)
    <3>1. q < r \/ (q = r /\ i < c)
      BY <2>1, <2>3, <1>0, <1>1
    <3>2. flat[IndexAt(q, i) + 1] = <<q, i>>
      BY <2>1, <3>1 DEF IInv, Placed, Written
    <3>3. IndexAt(q, i) \in Nat /\ IndexAt(q, i) < Len(flat)
      <4>1. IsPartial(r) \/ r = Total => c = 0
        BY DEF IInv
      <4> QED BY <1>0, <1>5, <2>1, <3>1, <4>1, IndexAtOrder
    <3>4. IndexAt(q, i) + 1 \in 1 .. Len(flat)
      BY <3>3, <1>5
    <3> QED BY <3>2, <3>4, <1>7
  <2> QED BY <2>2, <2>3
<1> QED BY <1>8, <1>9

(* Every step preserves the invariant.                                     *)
LEMMA NextIInv == IInv /\ [Next]_vars => IInv'
<1> SUFFICES ASSUME IInv, [Next]_vars PROVE IInv'
  OBVIOUS
<1>0. data \in Datas /\ r \in 0 .. Total /\ c \in 0 .. 2 /\ Elements = 0 .. 2 /\ t = 3
  BY DEF IInv, TypeOK, Datas, Elements, t
<1>1. half \in Nat /\ data.rounds_p \in Nat /\ Total \in Nat
  BY <1>0, HalfIsNat
<1>2. ASSUME data' = data
      PROVE  /\ Total' = Total /\ Elements' = Elements
             /\ \A q, i : IndexAt(q, i)' = IndexAt(q, i)
             /\ \A q : IsPartial(q)' = IsPartial(q)
  BY <1>2 DEF Total, IndexAt, IsPartial, half, Elements, t
<1>3. CASE Load
  <2>1. data' = data /\ r' = r /\ c' = c /\ flat' = flat /\ round' = round /\ added' = added
        /\ pc = "load" /\ pc' \in {"flatten", "refused"}
    BY <1>3 DEF Load
  <2>2. ~(round > 0)
    BY <2>1 DEF IInv
  <2>3. TypeOK'
    BY <2>1, <1>2 DEF IInv, TypeOK
  <2>4. NextIsRead' /\ Placed'
    BY <2>1, <1>2 DEF IInv, NextIsRead, Placed, Written, Elements, t, Total, IndexAt, IsPartial, half
  <2> QED BY <2>1, <2>2, <2>3, <2>4, <1>2 DEF IInv, RightConstants, Total, IsPartial, half
<1>4. CASE EmitFull
  <2>1. /\ pc = "flatten" /\ r < Total /\ ~IsPartial(r)
        /\ data' = data /\ pc' = pc /\ round' = round /\ added' = added
        /\ flat' = Append(flat, <<r, c>>)
    BY <1>4 DEF EmitFull
  <2>2. \/ r' = r /\ c' = c + 1 /\ c + 1 < t /\ ~IsPartial(r)
        \/ r' = r + 1 /\ c' = 0 /\ (c = t - 1 \/ IsPartial(r))
    BY <1>4, <1>0 DEF EmitFull
  <2>3. NextIsRead' /\ Placed'
    BY <2>1, <2>2, AppendKeepsPlaced
  <2>4. ~(round > 0)
    BY <2>1 DEF IInv
  <2>5. TypeOK'
    <3>1. <<r, c>> \in (0 .. Total - 1) \X Elements
      BY <2>1, <1>0, <1>1
    <3>2. flat' \in Seq((0 .. Total - 1) \X Elements)
      BY <3>1, <2>1 DEF IInv, TypeOK
    <3>3. r' \in 0 .. Total /\ c' \in Elements
      BY <2>1, <2>2, <1>0, <1>1
    <3> QED BY <3>2, <3>3, <2>1, <1>2 DEF IInv, TypeOK
  <2>6. r' = Total \/ IsPartial(r') => c' = 0
    BY <2>1, <2>2, <1>0, <1>1
  <2> QED BY <2>1, <2>3, <2>4, <2>5, <2>6, <1>2 DEF IInv, RightConstants, Total, IsPartial, half
<1>5. CASE EmitPartial
  <2>1. /\ pc = "flatten" /\ r < Total /\ IsPartial(r) /\ c = 0
        /\ data' = data /\ pc' = pc /\ round' = round /\ added' = added
        /\ flat' = Append(flat, <<r, c>>) /\ r' = r + 1 /\ c' = c
    BY <1>5 DEF EmitPartial, IInv
  <2>3. NextIsRead' /\ Placed'
    BY <2>1, AppendKeepsPlaced
  <2>4. ~(round > 0)
    BY <2>1 DEF IInv
  <2>5. TypeOK'
    <3>1. <<r, c>> \in (0 .. Total - 1) \X Elements
      BY <2>1, <1>0, <1>1
    <3>2. flat' \in Seq((0 .. Total - 1) \X Elements)
      BY <3>1, <2>1 DEF IInv, TypeOK
    <3>3. r' \in 0 .. Total /\ c' \in Elements
      BY <2>1, <1>0, <1>1
    <3> QED BY <3>2, <3>3, <2>1, <1>2 DEF IInv, TypeOK
  <2> QED BY <2>1, <2>3, <2>4, <2>5, <1>2 DEF IInv, RightConstants, Total, IsPartial, half
<1>6. CASE Assert
  <2>1. data' = data /\ r' = r /\ c' = c /\ flat' = flat /\ round' = round /\ added' = added
        /\ pc = "flatten" /\ r = Total /\ pc' \in {"permute", "refused"}
    BY <1>6 DEF Assert
  <2>2. ~(round > 0)
    BY <2>1 DEF IInv
  <2>3. TypeOK'
    BY <2>1, <1>2 DEF IInv, TypeOK
  <2>4. NextIsRead' /\ Placed'
    BY <2>1, <1>2 DEF IInv, NextIsRead, Placed, Written, Elements, t, Total, IndexAt, IsPartial, half
  <2> QED BY <2>1, <2>2, <2>3, <2>4, <1>2 DEF IInv, RightConstants, Total, IsPartial, half
<1>7. CASE Round
  <2>1. /\ pc = "permute" /\ round < Total /\ round' = round + 1
        /\ data' = data /\ pc' = pc /\ r' = r /\ c' = c /\ flat' = flat
        /\ added' = [i \in Elements |->
                       IF IsPartial(round) /\ i # 0 THEN Nothing ELSE flat[IndexAt(round, i) + 1]]
    BY <1>7 DEF Round
  <2>2. round \in 0 .. Total - 1 /\ round' \in 0 .. Total /\ round' - 1 = round /\ r = Total
    BY <2>1, <1>1 DEF IInv, TypeOK
  <2>3. TypeOK'
    BY <2>1, <2>2, <1>2 DEF IInv, TypeOK
  <2>4. NextIsRead' /\ Placed'
    BY <2>1, <1>2 DEF IInv, NextIsRead, Placed, Written, Elements, t, Total, IndexAt, IsPartial, half
  <2>5. \A i \in Elements : (IsPartial(round) => i = 0) => flat[IndexAt(round, i) + 1] = <<round, i>>
    <3> SUFFICES ASSUME NEW i \in Elements, IsPartial(round) => i = 0
                 PROVE  flat[IndexAt(round, i) + 1] = <<round, i>>
      OBVIOUS
    <3>1. Written(round, i) /\ round \in Nat /\ i \in Nat
      BY <2>2, <1>0, <1>1 DEF Written
    <3> QED BY <3>1 DEF IInv, Placed
  <2>6. added' = [i \in Elements |->
                    IF IsPartial(round) /\ i # 0 THEN Nothing ELSE <<round, i>>]
    BY <2>1, <2>5
  <2>7. RightConstants'
    BY <2>1, <2>2, <2>6, <1>2 DEF RightConstants, Nothing, Elements, t, IsPartial, half
  <2> QED BY <2>1, <2>3, <2>4, <2>7, <1>2 DEF IInv, Total, IsPartial, half
<1>8. CASE UNCHANGED vars
  <2>1. data' = data /\ r' = r /\ c' = c /\ flat' = flat /\ round' = round /\ added' = added /\ pc' = pc
    BY <1>8 DEF vars
  <2>2. TypeOK'
    BY <2>1, <1>2 DEF IInv, TypeOK
  <2>3. NextIsRead' /\ Placed'
    BY <2>1, <1>2 DEF IInv, NextIsRead, Placed, Written, Elements, t, Total, IndexAt, IsPartial, half
  <2>4. RightConstants'
    BY <2>1, <1>2 DEF IInv, RightConstants, Elements, t, IsPartial, half
  <2> QED BY <2>1, <2>2, <2>3, <2>4, <1>2 DEF IInv, Total, IsPartial, half
<1> QED BY <1>3, <1>4, <1>5, <1>6, <1>7, <1>8 DEF Next

LEMMA IInvAlways == Spec => []IInv
<1> QED BY InitIInv, NextIInv, PTL DEF Spec

-----------------------------------------------------------------------------
(* The array holds pairs of a round and an element at every step.          *)
THEOREM TypeCorrect == Spec => []TypeOK
<1>1. IInv => TypeOK
  BY DEF IInv
<1> QED BY <1>1, IInvAlways, PTL

(* Whatever the numbers of rounds, the permutation adds in every round the *)
(* constants the data file lists for that round: the generator's loop and  *)
(* the index arithmetic of permuteWith agree.                              *)
THEOREM EveryRoundRight == Spec => []RightConstants
<1>1. IInv => RightConstants
  BY DEF IInv
<1> QED BY <1>1, IInvAlways, PTL

(* permuteWith never reads past the end of the array: an array that passed *)
(* the generator's assertion has an entry wherever a round reads.          *)
THEOREM EveryReadInside == Spec => [](pc = "permute" => \A q \in 0 .. Total - 1 : \A i \in Elements :
                                        (IsPartial(q) => i = 0) => IndexAt(q, i) \in 0 .. Len(flat) - 1)
<1>1. ASSUME IInv, pc = "permute", NEW q \in 0 .. Total - 1, NEW i \in Elements, IsPartial(q) => i = 0
      PROVE  IndexAt(q, i) \in 0 .. Len(flat) - 1
  <2>1. data \in Datas /\ r = Total /\ c = 0 /\ Len(flat) = IndexAt(Total, 0)
    BY <1>1 DEF IInv, TypeOK, Datas, NextIsRead
  <2>2. Total \in Nat /\ 0 \in Elements /\ Total \in 0 .. Total
    BY <2>1, HalfIsNat DEF Elements, t
  <2>3. q \in Nat /\ q < Total
    BY <2>2
  <2>4. IndexAt(q, i) \in Nat /\ IndexAt(Total, 0) \in Nat /\ IndexAt(q, i) < IndexAt(Total, 0)
    BY <1>1, <2>1, <2>2, <2>3, IndexAtOrder
  <2> QED BY <2>1, <2>4
<1>2. IInv => (pc = "permute" => \A q \in 0 .. Total - 1 : \A i \in Elements :
                 (IsPartial(q) => i = 0) => IndexAt(q, i) \in 0 .. Len(flat) - 1)
  BY <1>1
<1> QED BY <1>2, IInvAlways, PTL
=============================================================================

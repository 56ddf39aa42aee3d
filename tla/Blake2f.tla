------------------------------- MODULE Blake2f -------------------------------
(***************************************************************************)
(* packages/hazmat/LeanHazmatBlake2f/scripts/gen_vectors.py: the BLAKE2b   *)
(* compression function in plain integers, which has to reproduce the      *)
(* published EIP-152 vectors before the values it emits are trusted.  One  *)
(* step is one call of g.                                                  *)
(*                                                                         *)
(* A 64-bit word is a tuple of four 16-bit limbs, the least significant    *)
(* first, so that every sum stays within TLC's integers.                   *)
(***************************************************************************)
EXTENDS Naturals, Sequences, Bitwise

CONSTANT Cases    (* the vectors to run, as indices of VECTORS *)

VARIABLES
  case,     (* the vector under way *)
  round,    (* rounds done *)
  call,     (* calls of g done in this round *)
  v,        (* the sixteen working words *)
  fed       (* history: message words this round has fed, a sequence of indices *)

vars == <<case, round, call, v, fed>>

-----------------------------------------------------------------------------
(* Words.                                                                  *)
Limb == 0 .. 65535
MASK == <<65535, 65535, 65535, 65535>>

(* Addition modulo 2^64: carries run up the limbs, the last one is masked. *)
Add(x, y) ==
  LET s1 == x[1] + y[1]
      s2 == x[2] + y[2] + (s1 \div 65536)
      s3 == x[3] + y[3] + (s2 \div 65536)
      s4 == x[4] + y[4] + (s3 \div 65536)
  IN <<s1 % 65536, s2 % 65536, s3 % 65536, s4 % 65536>>

XorWord(x, y) == [i \in 1 .. 4 |-> x[i] ^^ y[i]]

(* rotr(x, n): whole limbs first, then the n % 16 bits across limbs.       *)
rotr(x, n) ==
  LET limb(i) == x[((i - 1 + (n \div 16)) % 4) + 1]
      k == n % 16
  IN [i \in 1 .. 4 |-> (limb(i) \div 2 ^ k) + (limb(i + 1) % 2 ^ k) * 2 ^ (16 - k)]

-----------------------------------------------------------------------------
(* The constants of RFC 7693, and the block every vector shares.           *)
IV == <<
  <<\hc908, \hf3bc, \he667, \h6a09>>, <<\ha73b, \h84ca, \hae85, \hbb67>>,
  <<\hf82b, \hfe94, \hf372, \h3c6e>>, <<\h36f1, \h5f1d, \hf53a, \ha54f>>,
  <<\h82d1, \hade6, \h527f, \h510e>>, <<\h6c1f, \h2b3e, \h688c, \h9b05>>,
  <<\hbd6b, \hfb41, \hd9ab, \h1f83>>, <<\h2179, \h137e, \hcd19, \h5be0>> >>
SIGMA == <<
  <<0, 1, 2, 3, 4, 5, 6, 7, 8, 9, 10, 11, 12, 13, 14, 15>>,
  <<14, 10, 4, 8, 9, 15, 13, 6, 1, 12, 0, 2, 11, 7, 5, 3>>,
  <<11, 8, 12, 0, 5, 2, 15, 13, 10, 14, 3, 6, 7, 1, 9, 4>>,
  <<7, 9, 3, 1, 13, 12, 11, 14, 2, 6, 5, 10, 4, 0, 15, 8>>,
  <<9, 0, 5, 7, 2, 4, 10, 15, 14, 1, 11, 12, 6, 8, 3, 13>>,
  <<2, 12, 6, 10, 0, 11, 8, 3, 4, 13, 7, 5, 15, 14, 1, 9>>,
  <<12, 5, 1, 15, 14, 13, 4, 10, 0, 7, 6, 3, 9, 2, 8, 11>>,
  <<13, 11, 7, 14, 12, 1, 3, 9, 5, 0, 15, 4, 8, 6, 2, 10>>,
  <<6, 15, 14, 9, 11, 3, 0, 8, 12, 2, 13, 7, 1, 4, 10, 5>>,
  <<10, 2, 8, 4, 7, 6, 1, 5, 15, 11, 9, 14, 3, 12, 13, 0>> >>
(* The words of the block: H_WORDS, and "abc" padded with zeros.           *)
H_WORDS == <<
  <<\hc948, \hf2bd, \he667, \h6a09>>, <<\ha73b, \h84ca, \hae85, \hbb67>>,
  <<\hf82b, \hfe94, \hf372, \h3c6e>>, <<\h36f1, \h5f1d, \hf53a, \ha54f>>,
  <<\h82d1, \hade6, \h527f, \h510e>>, <<\h6c1f, \h2b3e, \h688c, \h9b05>>,
  <<\hbd6b, \hfb41, \hd9ab, \h1f83>>, <<\h2179, \h137e, \hcd19, \h5be0>> >>
M_WORDS == [i \in 1 .. 16 |-> IF i = 1 THEN <<\h6261, \h0063, \h0000, \h0000>> ELSE <<0, 0, 0, 0>>]

(* The published vectors of at most 12 rounds, then the two with nonzero   *)
(* counters that LeanHazmatBlake2fTests/Vectors.lean commits.              *)
VECTORS == <<
  [rounds |-> 0, t0 |-> <<\h0003, \h0000, \h0000, \h0000>>, t1 |-> <<\h0000, \h0000, \h0000, \h0000>>, last |-> TRUE,
   want |-> <<
     <<\hc908, \hf3bc, \he667, \h6a09>>, <<\ha73b, \h84ca, \hae85, \hbb67>>,
     <<\hf82b, \hfe94, \hf372, \h3c6e>>, <<\h36f1, \h5f1d, \hf53a, \ha54f>>,
     <<\h82d2, \hade6, \h527f, \h510e>>, <<\h6c1f, \h2b3e, \h688c, \h9b05>>,
     <<\h4294, \h04be, \h2654, \he07c>>, <<\h2179, \h137e, \hcd19, \h5be0>> >>],
  [rounds |-> 12, t0 |-> <<\h0003, \h0000, \h0000, \h0000>>, t1 |-> <<\h0000, \h0000, \h0000, \h0000>>, last |-> TRUE,
   want |-> <<
     <<\h80ba, \h3fa5, \h1c98, \h0d4d>>, <<\h276a, \hb697, \h129f, \he9f6>>,
     <<\h214c, \h142f, \h5a68, \hb7c4>>, <<\h124b, \h6fbb, \hffdb, \hd1a2>>,
     <<\h877d, \h39c5, \hab2a, \h2d79>>, <<\h52c2, \hded5, \h3345, \h95cc>>,
     <<\hd318, \ha88a, \hf1db, \h5a92>>, <<\h23b9, \hed86, \h00d4, \h2399>> >>],
  [rounds |-> 12, t0 |-> <<\h0003, \h0000, \h0000, \h0000>>, t1 |-> <<\h0000, \h0000, \h0000, \h0000>>, last |-> FALSE,
   want |-> <<
     <<\hab75, \hd369, \h0a19, \h2c56>>, <<\hae51, \hd8f8, \h1c8f, \h7527>>,
     <<\h6987, \h4044, \h7072, \h2cc4>>, <<\h4498, \h2c25, \hd226, \h5287>>,
     <<\h7498, \h7f3e, \h5e6d, \hf2a2>>, <<\he8d3, \h26d2, \h9c03, \h1bd3>>,
     <<\h424e, \hc46a, \hd3f2, \h66d6>>, <<\h10a6, \h11c2, \hde6f, \h3547>> >>],
  [rounds |-> 1, t0 |-> <<\h0003, \h0000, \h0000, \h0000>>, t1 |-> <<\h0000, \h0000, \h0000, \h0000>>, last |-> TRUE,
   want |-> <<
     <<\h3ab6, \h0c38, \h89b2, \h527d>>, <<\h9419, \h52a8, \hee34, \h182c>>,
     <<\h5f1b, \h4d84, \h622c, \h004c>>, <<\h7726, \h70e9, \h4934, \hfbd2>>,
     <<\h51a5, \ha8b3, \h3b33, \hf5cd>>, <<\hf7f2, \h89e0, \hd593, \h2339>>,
     <<\h3dde, \hfc64, \h8cc6, \h4e03>>, <<\h7b71, \h9392, \hd7fe, \h21a4>> >>],
  [rounds |-> 12, t0 |-> <<\h7788, \h5566, \h3344, \h1122>>, t1 |-> <<\hff00, \hddee, \hbbcc, \h99aa>>, last |-> TRUE,
   want |-> <<
     <<\h48a4, \h3253, \hbeb3, \h11d9>>, <<\h31dc, \hd520, \h3d17, \h6039>>,
     <<\hcfe8, \hd60b, \ha133, \h6d96>>, <<\haeb0, \h8f50, \h3536, \he7e2>>,
     <<\h4194, \h36d1, \h3fc8, \h150d>>, <<\he6dd, \h7f2f, \h573b, \hd6e2>>,
     <<\h1dd4, \he2c9, \h040d, \h5fe8>>, <<\h04c0, \h93bd, \h1ca7, \h9ea2>> >>],
  [rounds |-> 1, t0 |-> <<\h7788, \h5566, \h3344, \h1122>>, t1 |-> <<\hff00, \hddee, \hbbcc, \h99aa>>, last |-> FALSE,
   want |-> <<
     <<\hdf76, \hbd1a, \heed8, \hfc76>>, <<\h70a0, \h625e, \hb416, \hf726>>,
     <<\hedaa, \hf4fe, \h9e45, \h8429>>, <<\h1a15, \h57df, \h63bc, \h4340>>,
     <<\h1e54, \hc954, \ha622, \h0e5f>>, <<\hb62c, \he429, \h6e9d, \h2fc6>>,
     <<\h38df, \h39d3, \h7beb, \h0cc7>>, <<\h374c, \hd4d5, \hc4db, \hd7f0>> >>] >>

(* The lanes the eight calls of a round work on: columns, then diagonals.  *)
LANES == <<
  <<0, 4, 8, 12>>, <<1, 5, 9, 13>>, <<2, 6, 10, 14>>, <<3, 7, 11, 15>>,
  <<0, 5, 10, 15>>, <<1, 6, 11, 12>>, <<2, 7, 8, 13>>, <<3, 4, 9, 14>> >>

(* A variant of Row: the first row is skipped.                             *)
RowOffByOne(r) == SIGMA[((r + 1) % 10) + 1]
Row(r) == SIGMA[(r % 10) + 1]

(* The two message words of the k-th call.                                 *)
Feed(s, k) == <<s[2 * k + 1], s[2 * k + 2]>>

(* g(v, a, b, c, d, x, y)                                                  *)
g(u, lanes, x, y) ==
  LET a == lanes[1] + 1  b == lanes[2] + 1  c == lanes[3] + 1  d == lanes[4] + 1
      a1 == Add(Add(u[a], u[b]), x)
      d1 == rotr(XorWord(u[d], a1), 32)
      c1 == Add(u[c], d1)
      b1 == rotr(XorWord(u[b], c1), 24)
      a2 == Add(Add(a1, b1), y)
      d2 == rotr(XorWord(d1, a2), 16)
      c2 == Add(c1, d2)
      b2 == rotr(XorWord(b1, c2), 63)
  IN [u EXCEPT ![a] = a2, ![b] = b2, ![c] = c2, ![d] = d2]

Vector == VECTORS[case]

(* What f starts from: the counters and the final flag go into the IV half.*)
Start(k) ==
  [i \in 1 .. 16 |->
     CASE i <= 8 -> H_WORDS[i]
       [] i = 13 -> XorWord(IV[5], VECTORS[k].t0)
       [] i = 14 -> XorWord(IV[6], VECTORS[k].t1)
       [] i = 15 /\ VECTORS[k].last -> XorWord(IV[7], MASK)
       [] OTHER -> IV[i - 8]]

Output == [i \in 1 .. 8 |-> XorWord(XorWord(H_WORDS[i], v[i]), v[8 + i])]

Done == round = Vector.rounds

(* One call of g in round `round`.                                         *)
Mix ==
  /\ ~Done
  /\ LET s == Row(round)
         x == Feed(s, call)[1]
         y == Feed(s, call)[2]
     IN /\ v' = g(v, LANES[call + 1], M_WORDS[x + 1], M_WORDS[y + 1])
        /\ fed' = (IF call = 0 THEN <<>> ELSE fed) \o <<x, y>>
  /\ call' = (call + 1) % 8
  /\ round' = IF call = 7 THEN round + 1 ELSE round
  /\ UNCHANGED case

Init ==
  /\ case \in Cases
  /\ round = 0 /\ call = 0
  /\ v = Start(case)
  /\ fed = <<>>

Next == Mix

Spec == Init /\ [][Next]_vars

-----------------------------------------------------------------------------
TypeOK ==
  /\ case \in DOMAIN VECTORS
  /\ round \in 0 .. Vector.rounds /\ call \in 0 .. 7
  /\ \A i \in 1 .. 16 : \A l \in 1 .. 4 : v[i][l] \in Limb

(* The self-check of main: the published vectors and the committed ones    *)
(* come out (EIP-152, and LeanHazmatBlake2fTests/Vectors.lean).            *)
Reproduced == Done => Output = Vector.want

(* A finished round has fed every message word exactly once.               *)
EveryWordFed ==
  call = 0 /\ round > 0 => \A w \in 0 .. 15 : \E i \in 1 .. 16 : fed[i] = w
=============================================================================

---------------------------- MODULE CaseService ----------------------------
(***************************************************************************)
(* What a pytest worker relies on when it calls ServerClient.submit        *)
(* (packages/EthCLSpecs/PySpecTests/harness.py): cases are submitted one   *)
(* at a time, and every submission ends in one verdict of its own case:    *)
(* the answer computed for that case, the report that the server died, or  *)
(* an exception.  Only after an exception may the answer be another        *)
(* case's.  ServerClient implements it with processes, pipes and retries.  *)
(***************************************************************************)
EXTENDS Naturals

CONSTANTS
  MaxCase     (* cases one worker runs, numbered in the order it runs them *)

VARIABLES
  current,    (* the case in flight, 0 between two submissions *)
  last,       (* the case submitted last *)
  verdict     (* verdict[c] : what submit returned for case c *)

cvars == <<current, last, verdict>>

Cases == 1 .. MaxCase

(* A verdict answers a case, reports a death, or is an exception that left *)
(* submit; "none" before submit.                                           *)
None   == [kind |-> "none", to |-> 0]
Died   == [kind |-> "died", to |-> 0]
Raised == [kind |-> "raised", to |-> 0]
AnswerTo(c) == [kind |-> "answer", to |-> c]

Init ==
  /\ current = 0
  /\ last = 0
  /\ verdict = [c \in Cases |-> None]

Submit ==
  /\ current = 0
  /\ last < MaxCase
  /\ current' = last + 1
  /\ last' = last + 1
  /\ UNCHANGED verdict

Return(v) ==
  /\ current # 0
  /\ verdict' = [verdict EXCEPT ![current] = v]
  /\ current' = 0
  /\ UNCHANGED last

(* What an exception that left submit takes away: the server it left in    *)
(* place may still answer an earlier case.                                 *)
LateAnswer ==
  /\ \E c \in Cases : verdict[c] = Raised
  /\ \E c \in Cases : Return(AnswerTo(c))

Next ==
  \/ Submit
  \/ Return(AnswerTo(current))
  \/ Return(Died)
  \/ Return(Raised)
  \/ LateAnswer

Spec == Init /\ [][Next]_cvars /\ WF_cvars(current # 0 /\ Next)
=============================================================================

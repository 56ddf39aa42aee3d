------------------------- MODULE ServerClientProofs -------------------------
(***************************************************************************)
(* Theorems about ServerClient, for any number of cases, processes and     *)
(* faults.  The inductive invariant follows a request through the pipes of *)
(* the held server: before the write the server owes nothing, after it the *)
(* one thing it owes is the answer to the case in flight.  A second one    *)
(* counts the failures against the attempts and the copies of a request    *)
(* still unread against the times it was written.                          *)
(***************************************************************************)
EXTENDS ServerClient, FiniteSetTheorems, TLAPS

LEMMA NewProcesses == Unborn \in Process /\ Fresh \in Process
<1>1. <<>> \in Seq(Cases) /\ <<>> \in Seq(Lines) /\ 0 \in 0 .. MaxCase
  BY BoundsAssumption
<1>2. Unborn \in Process
  BY <1>1 DEF Unborn, Process
<1> QED BY <1>2 DEF Fresh, Process

LEMMA LineKinds ==
  /\ NoiseLine \in Lines
  /\ BadLine \in Lines
  /\ \A c \in Cases : AnswerTo(c) \in Lines
BY DEF Lines

(* What a client or a server does to one process keeps it a process.       *)
LEMMA ProcessChanges ==
  ASSUME NEW s \in Process
  PROVE  /\ \A b \in BOOLEAN : [s EXCEPT !.alive = b] \in Process
         /\ \A b \in BOOLEAN : [s EXCEPT !.open = b] \in Process
         /\ \A b \in BOOLEAN, c \in 0 .. MaxCase : [s EXCEPT !.alive = b, !.busy = c] \in Process
         /\ \A b \in BOOLEAN : [s EXCEPT !.open = b, !.stdout = <<>>] \in Process
         /\ \A c \in Cases : [s EXCEPT !.stdin = Append(@, c)] \in Process
         /\ s.stdin # <<>> => /\ Head(s.stdin) \in Cases
                              /\ [s EXCEPT !.busy = Head(s.stdin), !.stdin = Tail(@)] \in Process
         /\ \A l \in Lines : [s EXCEPT !.stdout = Append(@, l)] \in Process
         /\ s.stdout # <<>> => /\ Head(s.stdout) \in Lines
                               /\ [s EXCEPT !.stdout = Tail(@)] \in Process
<1> USE BoundsAssumption
<1>1. \A c \in Cases : c \in 0 .. MaxCase
  BY DEF Cases
<1>2. s.stdin \in Seq(Cases) /\ s.stdout \in Seq(Lines)
  BY DEF Process
<1>3. s.stdin # <<>> => Head(s.stdin) \in Cases /\ Tail(s.stdin) \in Seq(Cases)
  BY <1>2
<1>4. s.stdout # <<>> => Head(s.stdout) \in Lines /\ Tail(s.stdout) \in Seq(Lines)
  BY <1>2
<1>5. \A c \in Cases : Append(s.stdin, c) \in Seq(Cases)
  BY <1>2
<1>6. \A l \in Lines : Append(s.stdout, l) \in Seq(Lines)
  BY <1>2
<1>7. <<>> \in Seq(Lines)
  OBVIOUS
<1> QED
  BY <1>1, <1>2, <1>3, <1>4, <1>5, <1>6, <1>7 DEF Process

LEMMA SpawnType ==
  ASSUME TypeOK, Spawn
  PROVE  held' \in Procs /\ spawned' \in Procs /\ server' \in [Procs -> Process]
<1>1. spawned + 1 \in Procs
  BY BoundsAssumption DEF TypeOK, Spawn, Procs
<1>2. [server[held] EXCEPT !.open = FALSE, !.stdout = <<>>] \in Process
  BY ProcessChanges DEF TypeOK
<1> QED
  BY <1>1, <1>2, NewProcesses DEF TypeOK, Spawn

(* The same for a change of one entry of server. *)
LEMMA ServerChanges ==
  ASSUME TypeOK, NEW p \in Procs, NEW s \in Process, server' = [server EXCEPT ![p] = s]
  PROVE  server' \in [Procs -> Process]
BY DEF TypeOK

TInv == TypeOK /\ (InFlight => case # 0)

LEMMA TypeInit == Init => TInv
BY BoundsAssumption, NewProcesses DEF Init, TInv, InFlight, TypeOK, Procs

LEMMA TypeStep == TInv /\ [Next]_vars => TInv'
<1> SUFFICES ASSUME TInv, [Next]_vars PROVE TInv'
  OBVIOUS
<1> USE BoundsAssumption DEF TInv
<1>0. server[held] \in Process /\ 0 \in 0 .. MaxCase
  BY DEF TypeOK
<1>1. CASE Submit
  BY <1>1 DEF Submit, budgets, TypeOK, InFlight
<1>2. CASE Poll
  BY <1>2, SpawnType DEF Poll, budgets, TypeOK, InFlight
<1>3. CASE Write
  <2>1. case \in Cases
    BY <1>3 DEF Write, InFlight, TypeOK, Cases
  <2>2. server' \in [Procs -> Process]
    <3>1. [server[held] EXCEPT !.stdin = Append(@, case)] \in Process
      BY <1>0, <2>1, ProcessChanges
    <3>2. \/ server' = server
          \/ server' = [server EXCEPT ![held] = [server[held] EXCEPT !.stdin = Append(@, case)]]
      BY <1>3 DEF Write
    <3> QED BY <3>1, <3>2, ServerChanges DEF TypeOK
  <2>3. pc' \in {"read", "respawn"}
    BY <1>3 DEF Write
  <2> QED BY <1>3, <2>1, <2>2, <2>3 DEF Write, budgets, TypeOK, InFlight
<1>4. CASE Read
  <2>1. case \in Cases /\ pc = "read"
    BY <1>4 DEF Read, InFlight, TypeOK, Cases
  <2>2. CASE server[held].stdout # <<>>
    <3>1. Head(server[held].stdout) \in Lines /\ server' \in [Procs -> Process]
      BY <1>4, <1>0, <2>2, ProcessChanges DEF Read, TypeOK
    <3>2. /\ pc' \in {"idle", "read", "respawn"}
          /\ hits' \in Nat
          /\ UNCHANGED <<case, attempt, held, spawned, budgets, handed>>
          /\ verdict' = verdict \/ verdict' = [verdict EXCEPT ![case] = Head(server[held].stdout)]
      BY <1>4, <2>1, <2>2 DEF Read, Finish, client, TypeOK
    <3>3. verdict' \in [Cases -> {None, Died, Raised} \cup Lines]
      BY <3>1, <3>2, <2>1 DEF TypeOK
    <3> QED BY <2>1, <3>1, <3>2, <3>3 DEF budgets, TypeOK, InFlight
  <2>3. CASE server[held].stdout = <<>>
    BY <1>4, <2>1, <2>3 DEF Read, budgets, TypeOK, InFlight
  <2> QED BY <2>2, <2>3
<1>5. CASE Respawn
  BY <1>5, SpawnType DEF Respawn, budgets, Finish, TypeOK, InFlight
<1>6. CASE Closed
  BY <1>6, <1>0, ProcessChanges DEF Closed, budgets, TypeOK, InFlight
<1>7. CASE SpawnFails
  BY <1>7 DEF SpawnFails, Finish, TypeOK, InFlight
<1>8. CASE Close
  BY <1>8, <1>0, ProcessChanges DEF Close, budgets, TypeOK, InFlight
<1>9. ASSUME NEW p \in Procs, ServerStep(p) \/ Disturb(p) PROVE TInv'
  <2>0. server[p] \in Process
    BY DEF TypeOK
  <2>c. UNCHANGED <<client, held, spawned>>
    BY <1>9 DEF ServerStep, Disturb, Take, Answer, Exit, Chatter, Garble, Crash
  <2>1. CASE Take(p)
    <3>0. server[p].stdin # <<>>
      BY <2>1 DEF Take
    <3>1. PICK s \in Process : server' = [server EXCEPT ![p] = s]
      <4>1. [server[p] EXCEPT !.busy = Head(server[p].stdin), !.stdin = Tail(@)] \in Process
        BY <2>0, <3>0, ProcessChanges
      <4>2. server' = [server EXCEPT ![p] = [server[p] EXCEPT !.busy = Head(server[p].stdin),
                                                             !.stdin = Tail(@)]]
        BY <2>1 DEF Take, TypeOK
      <4> QED BY <4>1, <4>2
    <3>2. Head(server[p].stdin) \in Cases
      BY <2>1, <2>0, ProcessChanges DEF Take
    <3>3. server' \in [Procs -> Process]
      BY <3>1, ServerChanges
    <3>4. handed' \in [Cases -> Nat]
      BY <2>1, <3>2 DEF Take, TypeOK
    <3> QED BY <2>1, <2>c, <3>3, <3>4 DEF Take, budgets, client, TypeOK, InFlight
  <2>2. CASE Answer(p)
    <3>1. server[p].busy \in Cases
      BY <2>2, <2>0 DEF Answer, Process, Cases
    <3>2. Printing(p, AnswerTo(server[p].busy)) \in Process
      BY <2>0, <3>1, ProcessChanges, LineKinds DEF Printing
    <3>3. [Printing(p, AnswerTo(server[p].busy)) EXCEPT !.busy = 0] \in Process
      BY <3>2, <1>0 DEF Process
    <3> QED BY <2>2, <2>c, <3>3, ServerChanges DEF Answer, budgets, client, TypeOK, InFlight
  <2>3. CASE Exit(p)
    <3>1. PICK s \in Process : server' = [server EXCEPT ![p] = s]
      BY <2>3, <2>0, ProcessChanges DEF Exit, TypeOK
    <3> QED BY <2>3, <2>c, <3>1, ServerChanges DEF Exit, budgets, client, TypeOK, InFlight
  <2>4. CASE Chatter(p)
    <3>1. Printing(p, NoiseLine) \in Process
      BY <2>0, ProcessChanges, LineKinds DEF Printing
    <3> QED BY <2>4, <2>c, <3>1, ServerChanges DEF Chatter, client, TypeOK, InFlight
  <2>5. CASE Garble(p)
    <3>1. Printing(p, BadLine) \in Process
      BY <2>0, ProcessChanges, LineKinds DEF Printing
    <3> QED BY <2>5, <2>c, <3>1, ServerChanges DEF Garble, client, TypeOK, InFlight
  <2>6. CASE Crash(p)
    <3>1. PICK s \in Process : server' = [server EXCEPT ![p] = s]
      <4>1. [server[p] EXCEPT !.alive = FALSE, !.busy = 0] \in Process
        BY <2>0, <1>0, ProcessChanges
      <4>2. server' = [server EXCEPT ![p] = [server[p] EXCEPT !.alive = FALSE, !.busy = 0]]
        BY <2>6 DEF Crash, TypeOK
      <4> QED BY <4>1, <4>2
    <3>2. server' \in [Procs -> Process]
      BY <3>1, ServerChanges
    <3>3. hits' \in Nat /\ faults' \in 0 .. MaxFaults
      BY <2>6 DEF Crash, TypeOK
    <3> QED BY <2>6, <2>c, <3>2, <3>3 DEF Crash, client, TypeOK, InFlight
  <2> QED
    BY <1>9, <2>1, <2>2, <2>3, <2>4, <2>5, <2>6 DEF ServerStep, Disturb
<1>10. CASE UNCHANGED vars
  BY <1>10 DEF vars, client, budgets, TypeOK, InFlight
<1> QED
  BY <1>1, <1>2, <1>3, <1>4, <1>5, <1>6, <1>7, <1>8, <1>9, <1>10 DEF Next, ClientStep

(* TypeOK: the protocol loses no number and no line.                       *)
THEOREM TypeCorrect == Spec => []TypeOK
<1>1. TInv => TypeOK
  BY DEF TInv
<1> QED
  BY TypeInit, TypeStep, <1>1, PTL DEF Spec

-----------------------------------------------------------------------------
(* The one outstanding thing of process p is the case in flight: unread,   *)
(* being served, or answered.                                              *)
Answered(p) == {i \in DOMAIN server[p].stdout : server[p].stdout[i].kind = "answer"}

OwesCase(p) ==
  /\ server[p].stdin \in {<<>>, <<case>>}
  /\ server[p].busy \in {0, case}
  /\ server[p].stdin # <<>> => server[p].busy = 0
  /\ \A i \in Answered(p) : /\ server[p].stdout[i] = AnswerTo(case)
                            /\ server[p].stdin = <<>>
                            /\ server[p].busy = 0
  /\ \A i, j \in Answered(p) : i = j

(* A case has no verdict until its submission returns. *)
VerdictsInOrder ==
  /\ InFlight => verdict[case] = None
  /\ \A c \in Cases : c > case => verdict[c] = None

Pipes ==
  /\ pc \in {"idle", "poll", "write"} => OwesNothing(held)
  /\ pc = "read" => OwesCase(held)

IInv ==
  /\ TInv
  /\ held = spawned
  /\ VerdictsInOrder
  /\ AnswersUnlessRaised
  /\ NoRaise => Pipes

LEMMA TailElements ==
  ASSUME NEW S, NEW s \in Seq(S), s # <<>>
  PROVE  /\ 1 \in DOMAIN s /\ Head(s) = s[1]
         /\ \A i \in DOMAIN Tail(s) : i + 1 \in DOMAIN s /\ i + 1 # 1 /\ Tail(s)[i] = s[i + 1]
         /\ \A i, j \in DOMAIN Tail(s) : i + 1 = j + 1 => i = j
OBVIOUS

LEMMA AppendElements ==
  ASSUME NEW S, NEW s \in Seq(S), NEW e \in S
  PROVE  \A i \in DOMAIN Append(s, e) :
           \/ i \in DOMAIN s /\ Append(s, e)[i] = s[i]
           \/ i = Len(s) + 1 /\ Append(s, e)[i] = e
OBVIOUS

(* A fresh process owes nothing. *)
LEMMA SpawnOwesNothing ==
  ASSUME TInv, Spawn
  PROVE  /\ held' = spawned'
         /\ OwesNothing(held)'
<1>1. held' \in Procs /\ held' = spawned + 1
  BY SpawnType DEF Spawn, TInv
<1>2. server'[held'] = Fresh
  BY <1>1 DEF Spawn, TypeOK, TInv
<1>3. Fresh.stdin = <<>> /\ Fresh.busy = 0 /\ Fresh.stdout = <<>>
  BY DEF Fresh, Unborn
<1>4. DOMAIN Fresh.stdout = {}
  BY <1>3
<1> QED BY <1>2, <1>3, <1>4 DEF Spawn, OwesNothing

(* A submission that raised is remembered. *)
LEMMA RaiseStays ==
  ASSUME IInv, [Next]_vars, NoRaise'
  PROVE  NoRaise
<1> SUFFICES ASSUME NEW c \in Cases, verdict[c] = Raised PROVE verdict'[c] = Raised
  BY DEF NoRaise
<1>1. InFlight => c # case
  BY DEF IInv, VerdictsInOrder, None, Raised
<1>2. verdict' = verdict \/ (InFlight /\ \E v : verdict' = [verdict EXCEPT ![case] = v])
  BY DEF Next, ClientStep, ServerStep, Disturb, vars, client, InFlight, Finish, Submit, Poll, Write,
         Read, Respawn, Closed, SpawnFails, Close, Take, Answer, Exit, Chatter, Garble, Crash
<1> QED BY <1>1, <1>2 DEF IInv, TInv, TypeOK

(* A server step by a process other than the held one is not seen here,    *)
(* and one by the held server moves what it owes along.                    *)
LEMMA ServerPipes ==
  ASSUME IInv, NEW p \in Procs, ServerStep(p) \/ Disturb(p), Pipes
  PROVE  Pipes'
<1>0. UNCHANGED <<client, held, spawned>>
  BY DEF ServerStep, Disturb, Take, Answer, Exit, Chatter, Garble, Crash
<1>t. server \in [Procs -> Process] /\ held \in Procs /\ server[p] \in Process
  BY DEF IInv, TInv, TypeOK
<1>1. CASE p # held
  <2>1. server'[held] = server[held]
    BY <1>1, <1>t DEF ServerStep, Disturb, Take, Answer, Exit, Chatter, Garble, Crash
  <2> QED BY <1>0, <2>1 DEF Pipes, OwesNothing, OwesCase, Answered, client
<1>2. CASE p = held
  <2>1. CASE Take(p)
    <3>1. /\ server'[p].busy = Head(server[p].stdin)
          /\ server'[p].stdin = Tail(server[p].stdin)
          /\ server'[p].stdout = server[p].stdout
      BY <2>1, <1>t DEF Take, Process
    <3>2. server[p].stdin # <<>>
      BY <2>1 DEF Take
    <3>3. pc \notin {"idle", "poll", "write"}
      BY <1>2, <3>2 DEF Pipes, OwesNothing
    <3>4. ASSUME pc = "read" PROVE OwesCase(held)'
      <4>1. OwesCase(p) /\ server[p].stdin = <<case>>
        BY <1>2, <3>2, <3>4 DEF Pipes, OwesCase
      <4>2. server'[p].busy = case /\ server'[p].stdin = <<>>
        BY <3>1, <4>1
      <4>3. Answered(p) = {}
        BY <4>1 DEF OwesCase
      <4>4. Answered(p)' = {}
        BY <3>1, <4>3 DEF Answered
      <4> QED BY <1>0, <1>2, <4>2, <4>4 DEF OwesCase, client
    <3> QED BY <1>0, <3>3, <3>4 DEF Pipes, client
  <2>2. CASE Answer(p)
    <3>1. /\ server'[p].busy = 0
          /\ server'[p].stdin = server[p].stdin
          /\ server'[p].stdout = Append(server[p].stdout, AnswerTo(server[p].busy))
      BY <2>2, <1>t, <1>2 DEF Answer, Printing, Process
    <3>2. server[p].busy # 0
      BY <2>2 DEF Answer
    <3>3. pc \notin {"idle", "poll", "write"}
      BY <1>2, <3>2 DEF Pipes, OwesNothing
    <3>4. ASSUME pc = "read" PROVE OwesCase(held)'
      <4>1. OwesCase(p) /\ server[p].busy = case /\ server[p].stdin = <<>> /\ Answered(p) = {}
        BY <1>2, <3>2, <3>4 DEF Pipes, OwesCase
      <4>2. server[p].stdout \in Seq(Lines) /\ AnswerTo(case) \in Lines
        BY <1>t, <3>2, <4>1, LineKinds DEF Process, Cases
      <4>3. \A i \in Answered(p)' : i = Len(server[p].stdout) + 1 /\ server'[p].stdout[i] = AnswerTo(case)
        <5> SUFFICES ASSUME NEW i \in DOMAIN server'[p].stdout, server'[p].stdout[i].kind = "answer"
                     PROVE  i = Len(server[p].stdout) + 1 /\ server'[p].stdout[i] = AnswerTo(case)
          BY DEF Answered
        <5>1. \/ i \in DOMAIN server[p].stdout /\ server'[p].stdout[i] = server[p].stdout[i]
              \/ i = Len(server[p].stdout) + 1 /\ server'[p].stdout[i] = AnswerTo(case)
          BY <3>1, <4>1, <4>2, AppendElements
        <5> QED BY <5>1, <4>1 DEF Answered
      <4> QED BY <1>0, <1>2, <3>1, <4>1, <4>3 DEF OwesCase, client
    <3> QED BY <1>0, <3>3, <3>4 DEF Pipes, client
  <2>3. CASE Exit(p) \/ Crash(p)
    <3>1. /\ server'[p].busy \in {0, server[p].busy}
          /\ server'[p].stdin = server[p].stdin
          /\ server'[p].stdout = server[p].stdout
      BY <2>3, <1>t DEF Exit, Crash, Process
    <3> QED BY <1>0, <1>2, <3>1 DEF Pipes, OwesNothing, OwesCase, Answered, client
  <2>4. CASE Chatter(p) \/ Garble(p)
    <3>1. PICK l \in {NoiseLine, BadLine} :
            /\ server'[p].busy = server[p].busy
            /\ server'[p].stdin = server[p].stdin
            /\ server'[p].stdout = Append(server[p].stdout, l)
      BY <2>4, <1>t, <1>2 DEF Chatter, Garble, Printing, Process
    <3>2. server[p].stdout \in Seq(Lines) /\ l \in Lines /\ l.kind # "answer"
      BY <1>t, LineKinds DEF Process, NoiseLine, BadLine
    <3>3. \A i \in DOMAIN server'[p].stdout : server'[p].stdout[i].kind = "answer" =>
            i \in DOMAIN server[p].stdout /\ server'[p].stdout[i] = server[p].stdout[i]
      BY <3>1, <3>2, AppendElements
    <3>4. /\ \A i \in Answered(p)' : i \in Answered(p) /\ server'[p].stdout[i] = server[p].stdout[i]
          /\ OwesNothing(p) => OwesNothing(p)'
      BY <3>1, <3>3 DEF Answered, OwesNothing
    <3>5. OwesCase(p) => OwesCase(p)'
      BY <1>0, <3>1, <3>4 DEF OwesCase, client
    <3> QED BY <1>0, <1>2, <3>4, <3>5 DEF Pipes, client
  <2> QED BY <2>1, <2>2, <2>3, <2>4 DEF ServerStep, Disturb
<1> QED BY <1>1, <1>2

(* The write makes the case in flight the one thing the server owes.       *)
LEMMA WritePipes ==
  ASSUME IInv, Write, Pipes
  PROVE  Pipes'
<1>1. server \in [Procs -> Process] /\ held \in Procs /\ server[held] \in Process
  BY DEF IInv, TInv, TypeOK
<1>2. OwesNothing(held) /\ UNCHANGED <<held, case>> /\ pc' \in {"read", "respawn"}
  BY DEF Pipes, Write
<1>3. ASSUME pc' = "read" PROVE OwesCase(held)'
  <2>1. server' = [server EXCEPT ![held].stdin = Append(@, case)]
    BY <1>3 DEF Write
  <2>2. /\ server'[held].stdin = Append(server[held].stdin, case)
        /\ server'[held].busy = 0
        /\ server'[held].stdout = server[held].stdout
    BY <1>1, <1>2, <2>1 DEF Process, OwesNothing
  <2>3. server'[held].stdin = <<case>>
    BY <1>2, <2>2 DEF OwesNothing
  <2>4. Answered(held)' = {}
    BY <1>2, <2>2 DEF Answered, OwesNothing
  <2> QED BY <1>2, <2>2, <2>3, <2>4 DEF OwesCase
<1> QED BY <1>2, <1>3 DEF Pipes

(* Reading takes one line off the pipe; when it is a result line it is the *)
(* answer to the case in flight and nothing is owed any more.              *)
LEMMA ReadPipes ==
  ASSUME IInv, Read, Pipes
  PROVE  /\ Pipes'
         /\ \/ verdict' = verdict
            \/ verdict' = [verdict EXCEPT ![case] = AnswerTo(case)]
<1>1. server \in [Procs -> Process] /\ held \in Procs /\ server[held] \in Process
  BY DEF IInv, TInv, TypeOK
<1>2. OwesCase(held) /\ UNCHANGED <<held, case>> /\ pc = "read"
  BY DEF Pipes, Read, Finish, client
<1> DEFINE out == server[held].stdout
<1>3. CASE out = <<>>
  BY <1>2, <1>3 DEF Read, Pipes
<1>4. CASE out # <<>>
  <2>1. /\ server'[held].stdin = server[held].stdin
        /\ server'[held].busy = server[held].busy
        /\ server'[held].stdout = Tail(out)
    BY <1>1, <1>4 DEF Read, Process
  <2>2. out \in Seq(Lines)
    BY <1>1 DEF Process
  <2>3. /\ 1 \in DOMAIN out /\ Head(out) = out[1]
        /\ \A i \in DOMAIN Tail(out) : i + 1 \in DOMAIN out /\ i + 1 # 1 /\ Tail(out)[i] = out[i + 1]
        /\ \A i, j \in DOMAIN Tail(out) : i + 1 = j + 1 => i = j
    BY <1>4, <2>2, TailElements
  <2>4. CASE Head(out).kind = "answer"
    <3>1. 1 \in Answered(held)
      BY <2>3, <2>4 DEF Answered
    <3>2. Head(out) = AnswerTo(case) /\ server[held].stdin = <<>> /\ server[held].busy = 0
      BY <1>2, <2>3, <3>1 DEF OwesCase
    <3>3. \A i \in DOMAIN Tail(out) : Tail(out)[i].kind # "answer"
      BY <1>2, <2>3, <3>1 DEF OwesCase, Answered
    <3>4. pc' = "idle" /\ verdict' = [verdict EXCEPT ![case] = AnswerTo(case)]
      BY <1>4, <2>4, <3>2 DEF Read, Finish
    <3>5. OwesNothing(held)'
      BY <1>2, <2>1, <3>2, <3>3 DEF OwesNothing
    <3> QED BY <1>2, <3>4, <3>5 DEF Pipes
  <2>5. CASE Head(out).kind = "noise"
    <3>1. UNCHANGED client
      BY <1>4, <2>5 DEF Read
    <3>2. \A i \in Answered(held)' : /\ i + 1 \in Answered(held)
                                     /\ server'[held].stdout[i] = server[held].stdout[i + 1]
      BY <1>2, <2>1, <2>3 DEF Answered
    <3>3. \A i, j \in Answered(held)' : i = j
      BY <1>2, <2>1, <2>3, <3>2 DEF OwesCase, Answered
    <3>4. OwesCase(held)'
      BY <1>2, <2>1, <3>2, <3>3 DEF OwesCase
    <3> QED BY <1>2, <3>1, <3>4 DEF Pipes, client
  <2>6. CASE Head(out).kind = "bad"
    BY <1>2, <1>4, <2>6 DEF Read, Pipes
  <2> QED BY <1>4, <2>4, <2>5, <2>6 DEF Read
<1> QED BY <1>3, <1>4

LEMMA VerdictStep ==
  ASSUME IInv, [Next]_vars, NEW v,
         verdict' = verdict \/ (InFlight /\ pc' = "idle" /\ verdict' = [verdict EXCEPT ![case] = v]),
         case' = case, InFlight' => InFlight
  PROVE  VerdictsInOrder'
<1> USE DEF IInv, TInv, TypeOK
<1>1. \A c \in Cases : c > case => c # case /\ verdict'[c] = verdict[c]
  BY BoundsAssumption DEF Cases
<1>2. ~ InFlight' \/ verdict' = verdict
  BY DEF InFlight
<1> QED BY <1>1, <1>2 DEF VerdictsInOrder

LEMMA IStep == IInv /\ [Next]_vars => IInv'
<1> SUFFICES ASSUME IInv, [Next]_vars PROVE IInv'
  OBVIOUS
<1>t. TInv /\ TypeOK /\ TInv'
  BY TypeStep DEF IInv, TInv
<1>n. NoRaise' => NoRaise /\ Pipes /\ AnswersOwnCase
  BY RaiseStays DEF IInv, AnswersUnlessRaised
<1> SUFFICES /\ held' = spawned'
             /\ VerdictsInOrder'
             /\ NoRaise' => AnswersOwnCase' /\ Pipes'
  BY <1>t DEF IInv, AnswersUnlessRaised
<1>s. Spawn => held' = spawned' /\ OwesNothing(held)'
  BY <1>t, SpawnOwesNothing
<1>v. /\ held = spawned /\ VerdictsInOrder
      /\ UNCHANGED verdict => (AnswersOwnCase => AnswersOwnCase')
  BY DEF IInv, AnswersOwnCase
<1>1. CASE Submit
  <2>1. case + 1 \in Cases /\ case < case + 1 /\ verdict[case + 1] = None
    BY <1>1, <1>t, <1>v, BoundsAssumption DEF Submit, VerdictsInOrder, TypeOK, Cases
  <2>2. VerdictsInOrder'
    BY <1>1, <1>t, <1>v, <2>1 DEF Submit, VerdictsInOrder, TypeOK, Cases
  <2>3. Pipes => Pipes'
    BY <1>1 DEF Submit, Pipes, OwesNothing
  <2> QED BY <1>1, <1>n, <1>v, <2>2, <2>3 DEF Submit
<1>2. CASE Poll
  <2>1. VerdictsInOrder'
    BY <1>2, VerdictStep DEF Poll, InFlight
  <2>2. Pipes => Pipes'
    BY <1>2, <1>s DEF Poll, Pipes, OwesNothing
  <2> QED BY <1>2, <1>n, <1>s, <1>v, <2>1, <2>2 DEF Poll
<1>3. CASE Write
  <2>1. VerdictsInOrder'
    BY <1>3, VerdictStep DEF Write, InFlight
  <2> QED BY <1>3, <1>n, <1>v, <2>1, WritePipes DEF Write
<1>4. CASE Read
  <2>1. UNCHANGED <<case, held, spawned>> /\ InFlight
    BY <1>4 DEF Read, Finish, client, InFlight
  <2>2. PICK v : verdict' = verdict \/ (pc' = "idle" /\ verdict' = [verdict EXCEPT ![case] = v])
    BY <1>4 DEF Read, Finish, client
  <2>3. VerdictsInOrder'
    BY <2>1, <2>2, VerdictStep
  <2>4. NoRaise' => AnswersOwnCase'
    BY <1>4, <1>n, <1>t, ReadPipes DEF AnswersOwnCase, AnswerTo, TypeOK
  <2> QED BY <1>4, <1>n, <1>v, <2>1, <2>3, <2>4, ReadPipes
<1>5. CASE Respawn
  <2>1. VerdictsInOrder'
    BY <1>5, VerdictStep DEF Respawn, Finish, InFlight
  <2>2. AnswersOwnCase => AnswersOwnCase'
    BY <1>5, <1>t, <1>v DEF Respawn, Finish, AnswersOwnCase, Died, TypeOK
  <2>3. Pipes'
    BY <1>5, <1>s DEF Respawn, Finish, Pipes
  <2> QED BY <1>5, <1>n, <1>s, <2>1, <2>2, <2>3 DEF Respawn
<1>6. CASE Closed
  <2>1. VerdictsInOrder'
    BY <1>6, VerdictStep DEF Closed, InFlight
  <2> QED BY <1>6, <1>n, <1>v, <2>1 DEF Closed, Pipes
<1>7. CASE SpawnFails
  <2>1. VerdictsInOrder'
    BY <1>7, VerdictStep DEF SpawnFails, Finish, InFlight
  <2>2. NoRaise' => pc' = "respawn" /\ UNCHANGED verdict
    <3>1. ASSUME Finish(Raised), pc = "respawn" PROVE ~ NoRaise'
      <4>1. case \in Cases
        BY <1>t, <3>1 DEF TInv, TypeOK, InFlight, Cases
      <4> QED BY <1>t, <3>1, <4>1 DEF Finish, NoRaise, TypeOK
    <3> QED BY <1>7, <3>1 DEF SpawnFails
  <2> QED BY <1>7, <1>n, <1>v, <2>1, <2>2 DEF SpawnFails, Pipes
<1>8. CASE Close
  <2>1. VerdictsInOrder'
    BY <1>8, VerdictStep DEF Close, InFlight
  <2> QED BY <1>8, <1>n, <1>v, <2>1 DEF Close, Pipes
<1>9. ASSUME NEW p \in Procs, ServerStep(p) \/ Disturb(p)
      PROVE  /\ held' = spawned' /\ VerdictsInOrder'
             /\ NoRaise' => AnswersOwnCase' /\ Pipes'
  <2>1. UNCHANGED <<client, held, spawned>>
    BY <1>9 DEF ServerStep, Disturb, Take, Answer, Exit, Chatter, Garble, Crash
  <2>2. VerdictsInOrder'
    BY <2>1, VerdictStep DEF client, InFlight
  <2> QED BY <1>9, <1>n, <1>v, <2>1, <2>2, ServerPipes DEF client
<1>10. CASE UNCHANGED vars
  <2>1. VerdictsInOrder'
    BY <1>10, VerdictStep DEF vars, client, InFlight
  <2>2. Pipes => Pipes'
    BY <1>10 DEF vars, client, Pipes, OwesNothing, OwesCase, Answered
  <2> QED BY <1>10, <1>n, <1>v, <2>1, <2>2 DEF vars, client
<1> QED
  BY <1>1, <1>2, <1>3, <1>4, <1>5, <1>6, <1>7, <1>8, <1>9, <1>10 DEF Next, ClientStep

LEMMA IInit == Init => IInv
<1> SUFFICES ASSUME Init PROVE IInv
  OBVIOUS
<1>1. server[held].stdin = <<>> /\ server[held].busy = 0 /\ server[held].stdout = <<>>
  BY BoundsAssumption DEF Init, Fresh, Unborn, Procs
<1>2. DOMAIN server[held].stdout = {}
  BY <1>1
<1>3. AnswersOwnCase /\ VerdictsInOrder
  BY DEF Init, AnswersOwnCase, VerdictsInOrder, InFlight, None
<1> QED BY <1>1, <1>2, <1>3, TypeInit DEF Init, IInv, Pipes, OwesNothing, AnswersUnlessRaised

(* As long as no submission raised, a result line submit returns answers   *)
(* the case it submitted, whatever crashed or was garbled before.          *)
THEOREM AnswersMatch == Spec => []AnswersUnlessRaised
<1>1. IInv => AnswersUnlessRaised
  BY DEF IInv
<1> QED BY IInit, IStep, <1>1, PTL DEF Spec

(* Between two submissions the held server has nothing left to say.        *)
THEOREM IdleClean == Spec => []IdleServerClean
<1>1. IInv => IdleServerClean
  BY DEF IInv, Pipes, IdleServerClean
<1> QED BY IInit, IStep, <1>1, PTL DEF Spec

-----------------------------------------------------------------------------
(* The client implements the service a worker relies on: each submission   *)
(* is one Submit and one Return, all the rest are stuttering steps.        *)
LEMMA ServiceStep ==
  ASSUME IInv, [Next]_vars
  PROVE  [Service!Next]_(Service!cvars)
<1> DEFINE cur == IF InFlight THEN case ELSE 0
<1>t. TInv /\ TypeOK /\ (NoRaise => Pipes)
  BY DEF IInv, TInv
<1>1. CASE Submit
  <2>1. cur = 0 /\ cur' = case + 1
    BY <1>1 DEF Submit, InFlight
  <2> QED BY <1>1, <2>1 DEF Submit, Service!Next, Service!Submit
<1>2. CASE Read
  <2>1. cur = case /\ case # 0 /\ UNCHANGED case
    BY <1>2, <1>t DEF Read, Finish, client, InFlight, TInv
  <2>2. CASE UNCHANGED verdict /\ pc' # "idle"
    <3>1. cur' = cur
      BY <1>2, <2>1, <2>2 DEF Read, Finish, client, InFlight
    <3> QED BY <2>1, <2>2, <3>1 DEF Service!cvars
  <2>3. CASE pc' = "idle"
    <3> DEFINE line == Head(server[held].stdout)
    <3>1. /\ server[held].stdout # <<>> /\ line.kind = "answer"
          /\ verdict' = [verdict EXCEPT ![case] = line]
      BY <1>2, <2>3 DEF Read, Finish, client
    <3>2. cur' = 0 /\ server[held] \in Process
      BY <1>t, <2>3 DEF InFlight, TypeOK
    <3>3. CASE NoRaise
      <4>1. line = AnswerTo(case)
        <5>1. OwesCase(held)
          BY <1>2, <1>t, <3>3 DEF Pipes, Read
        <5>2. 1 \in Answered(held) /\ line = server[held].stdout[1]
          BY <3>1, <3>2, TailElements DEF Answered, Process
        <5> QED BY <5>1, <5>2 DEF OwesCase
      <4>2. verdict' = [verdict EXCEPT ![cur] = Service!AnswerTo(cur)]
        BY <2>1, <3>1, <4>1 DEF AnswerTo, Service!AnswerTo
      <4>3. Service!Return(Service!AnswerTo(cur))
        BY <2>1, <3>2, <4>2 DEF Service!Return
      <4> QED BY <4>3 DEF Service!Next
    <3>4. CASE ~ NoRaise
      <4>1. PICK c \in Cases : verdict[c] = Service!Raised
        BY <3>4 DEF NoRaise, Raised, Service!Raised
      <4>2. PICK d \in Cases : line = Service!AnswerTo(d)
        <5>1. line \in Lines
          BY <3>1, <3>2, ProcessChanges
        <5> QED BY <3>1, <5>1 DEF Lines, NoiseLine, BadLine, AnswerTo, Service!AnswerTo
      <4>3. Service!Return(Service!AnswerTo(d))
        BY <2>1, <3>1, <3>2, <4>2 DEF Service!Return
      <4> QED BY <4>1, <4>3 DEF Service!Next, Service!LateAnswer, Cases, Service!Cases
    <3> QED BY <3>3, <3>4
  <2> QED BY <1>2, <2>2, <2>3 DEF Read, Finish, client
<1>3. CASE Respawn
  <2>1. cur = case /\ case # 0 /\ UNCHANGED case
    BY <1>3, <1>t DEF Respawn, Finish, InFlight, TInv
  <2>2. CASE attempt = 1
    BY <1>3, <2>1, <2>2 DEF Respawn, InFlight, Service!cvars
  <2>3. CASE attempt # 1
    <3>1. cur' = 0 /\ verdict' = [verdict EXCEPT ![case] = Died]
      BY <1>3, <2>3 DEF Respawn, Finish, InFlight
    <3>2. Service!Return(Service!Died)
      BY <2>1, <3>1 DEF Service!Return, Died, Service!Died
    <3> QED BY <3>2 DEF Service!Next
  <2> QED BY <2>2, <2>3
<1>4. CASE SpawnFails
  <2>1. cur = case /\ case # 0 /\ UNCHANGED case
    BY <1>4, <1>t DEF SpawnFails, Finish, InFlight, TInv
  <2>2. CASE pc' = "respawn" /\ UNCHANGED verdict
    BY <2>1, <2>2 DEF InFlight, Service!cvars
  <2>3. CASE Finish(Raised)
    <3>1. cur' = 0 /\ verdict' = [verdict EXCEPT ![case] = Raised]
      BY <2>3 DEF Finish, InFlight
    <3>2. Service!Return(Service!Raised)
      BY <2>1, <3>1 DEF Service!Return, Raised, Service!Raised
    <3> QED BY <3>2 DEF Service!Next
  <2> QED BY <1>4, <2>2, <2>3 DEF SpawnFails
<1>5. CASE ~ Submit /\ ~ Read /\ ~ Respawn /\ ~ SpawnFails
  <2>1. /\ UNCHANGED <<case, verdict>>
        /\ \/ pc' = pc
           \/ InFlight /\ InFlight'
           \/ ~ InFlight /\ ~ InFlight'
    <3>1. CASE Poll \/ Write \/ Closed \/ Close
      BY <3>1 DEF Poll, Write, Closed, Close, InFlight
    <3>2. CASE \E p \in Procs : ServerStep(p) \/ Disturb(p)
      BY <3>2 DEF ServerStep, Disturb, client, Take, Answer, Exit, Chatter, Garble, Crash
    <3>3. CASE UNCHANGED vars
      BY <3>3 DEF vars, client
    <3> QED BY <1>5, <3>1, <3>2, <3>3 DEF Next, ClientStep
  <2>2. cur' = cur
    BY <2>1 DEF InFlight
  <2> QED BY <2>1, <2>2 DEF Service!cvars
<1> QED BY <1>1, <1>2, <1>3, <1>4, <1>5

LEMMA ServiceInit == Init => Service!Init
BY DEF Init, Service!Init, InFlight, None, Service!None, Cases, Service!Cases

(* ServerClient implements the safety part of CaseService, whatever fails: *)
(* cases are submitted one at a time, in order, each gets one verdict, and *)
(* an answer is the case's own unless a submission raised before it.       *)
THEOREM ImplementsService == Spec => Service!Init /\ [][Service!Next]_(Service!cvars)
<1>1. IInv /\ [Next]_vars => [Service!Next]_(Service!cvars)
  BY ServiceStep
<1> QED BY <1>1, IInit, IStep, ServiceInit, PTL DEF Spec

-----------------------------------------------------------------------------
(* The failures met, against the iteration of the retry loop: the first    *)
(* attempt is free, a dead held server in flight has been counted, and     *)
(* the held server's stdin is open, so it never exits on its own.          *)
HitsEarned ==
  /\ InFlight => hits + 1 >= attempt
  /\ pc = "respawn" => hits >= attempt
  /\ pc \in {"write", "read"} /\ ~ server[held].alive => hits >= attempt
  /\ pc \notin {"closing", "closed"} => server[held].open
  /\ case # 0 /\ verdict[case] = Died => hits >= 2

(* The requests written to p it has not taken up, in the order of their    *)
(* submissions; on the held server all older than the one to be written.   *)
Unread(p) == {server[p].stdin[i] : i \in DOMAIN server[p].stdin}

InOrder(p) ==
  \A i \in DOMAIN server[p].stdin :
    /\ server[p].stdin[i] <= case
    /\ p = held /\ pc \in {"poll", "write"} => server[p].stdin[i] < case
    /\ \A j \in DOMAIN server[p].stdin : i < j => server[p].stdin[i] < server[p].stdin[j]

(* The processes that may still take case c up, and the number of times it *)
(* was, or may have been, written.                                         *)
Holders(c) == {p \in Procs : c \in Unread(p)}
Written(c) ==
  IF c > case THEN 0
  ELSE IF c < case \/ ~ InFlight THEN 2
  ELSE IF pc \in {"poll", "write"} THEN attempt - 1 ELSE attempt

RInv ==
  /\ IInv
  /\ HitsEarned
  /\ \A p \in Procs : InOrder(p)
  /\ \A c \in Cases : handed[c] + Cardinality(Holders(c)) <= Written(c)

LEMMA SpawnServers ==
  ASSUME TInv, Spawn
  PROVE  /\ server'[held'] = Fresh
         /\ \A p \in Procs : server'[p].stdin = server[p].stdin \/ server'[p].stdin = <<>>
<1>2. held' \in Procs /\ held' = spawned + 1 /\ held \in Procs
  BY SpawnType DEF Spawn, TInv, TypeOK
<1>3. server'[held'] = Fresh
  BY <1>2 DEF Spawn, TypeOK, TInv
<1>4. ASSUME NEW p \in Procs PROVE server'[p].stdin = server[p].stdin \/ server'[p].stdin = <<>>
  <2>1. CASE p = spawned + 1
    BY <1>2, <1>3, <2>1 DEF Fresh, Unborn
  <2>2. CASE p # spawned + 1
    <3>1. server'[p] = server[p] \/ server'[p] = [server[p] EXCEPT !.open = FALSE, !.stdout = <<>>]
      BY <2>2 DEF Spawn, TypeOK, TInv
    <3> QED BY <3>1 DEF TypeOK, TInv, Process
  <2> QED BY <2>1, <2>2
<1> QED BY <1>3, <1>4

LEMMA HitsStep ==
  ASSUME IInv, HitsEarned, [Next]_vars
  PROVE  HitsEarned'
<1>t. TypeOK /\ TypeOK' /\ (InFlight => case \in Cases /\ verdict[case] = None) /\ TInv /\ TInv'
  BY TypeStep DEF IInv, TInv, TypeOK, Cases, VerdictsInOrder
<1>n. hits \in Nat /\ attempt \in 1 .. 2 /\ hits' \in Nat /\ attempt' \in 1 .. 2 /\ None # Died /\ Raised # Died
  BY <1>t DEF TypeOK, None, Died, Raised
<1>s. Spawn => server'[held'].alive /\ server'[held'].open
  BY <1>t, SpawnServers DEF Fresh, Unborn
<1>1. CASE Submit
  <2>1. case + 1 \in Cases /\ verdict[case + 1] = None
    BY <1>1, <1>t, BoundsAssumption DEF Submit, IInv, VerdictsInOrder, TypeOK, Cases
  <2> QED BY <1>1, <1>t, <1>n, <2>1 DEF Submit, HitsEarned, InFlight
<1>2. CASE Poll
  BY <1>2, <1>t, <1>n, <1>s DEF Poll, HitsEarned, InFlight
<1>3. CASE Write
  <2>1. server'[held].alive = server[held].alive /\ server'[held].open = server[held].open
    BY <1>3, <1>t DEF Write, TypeOK, Process
  <2> QED BY <1>3, <1>t, <1>n, <2>1 DEF Write, HitsEarned, InFlight
<1>4. CASE Read
  <2>1. server'[held].alive = server[held].alive /\ server'[held].open = server[held].open
    BY <1>4, <1>t DEF Read, TypeOK, Process
  <2>2. UNCHANGED <<case, attempt, held>> /\ pc = "read" /\ case \in Cases
    BY <1>4, <1>t DEF Read, Finish, client, InFlight
  <2>3. CASE pc' = "idle"
    <3>1. server[held].stdout # <<>> /\ Head(server[held].stdout).kind = "answer"
          /\ verdict' = [verdict EXCEPT ![case] = Head(server[held].stdout)]
      BY <1>4, <2>3 DEF Read, Finish, client
    <3>2. verdict'[case] # Died
      BY <3>1, <2>2, <1>t DEF TypeOK, Died
    <3> QED BY <2>1, <2>2, <2>3, <3>2 DEF HitsEarned, InFlight
  <2>4. CASE pc' # "idle"
    <3>1. verdict' = verdict /\ \/ pc' = "read" /\ hits' = hits
                                \/ pc' = "respawn" /\ hits' = hits + 1
                                \/ pc' = "respawn" /\ hits' = hits /\ ~ server[held].alive
      BY <1>4, <2>4, <2>2 DEF Read, Finish, client
    <3> QED BY <2>1, <2>2, <3>1, <1>n DEF HitsEarned, InFlight
  <2> QED BY <2>3, <2>4
<1>5. CASE Respawn
  <2>1. case \in Cases /\ hits >= attempt /\ hits' = hits /\ case' = case
    BY <1>5, <1>t DEF Respawn, Finish, HitsEarned, InFlight
  <2>2. CASE attempt = 1
    BY <1>5, <1>t, <1>n, <1>s, <2>1, <2>2 DEF Respawn, HitsEarned, InFlight
  <2>3. CASE attempt = 2
    BY <1>5, <1>t, <1>n, <1>s, <2>1, <2>3 DEF Respawn, Finish, HitsEarned, InFlight
  <2> QED BY <1>n, <2>2, <2>3
<1>6. CASE Closed
  BY <1>6 DEF Closed, HitsEarned, InFlight
<1>7. CASE SpawnFails
  <2>1. CASE pc = "poll"
    BY <1>7, <1>t, <1>n, <2>1 DEF SpawnFails, HitsEarned, InFlight
  <2>2. CASE pc # "poll"
    <3>1. pc = "respawn" /\ Finish(Raised) /\ case \in Cases /\ UNCHANGED <<case, held, server>>
      BY <1>7, <1>t, <2>2 DEF SpawnFails, Finish, InFlight
    <3>2. verdict'[case] = Raised
      BY <1>t, <3>1 DEF Finish, TypeOK
    <3> QED BY <1>n, <3>1, <3>2 DEF Finish, HitsEarned, InFlight
  <2> QED BY <2>1, <2>2
<1>8. CASE Close
  BY <1>8 DEF Close, HitsEarned, InFlight
<1>9. ASSUME NEW p \in Procs, ServerStep(p) \/ Disturb(p) PROVE HitsEarned'
  <2>0. UNCHANGED <<client, held, spawned>>
    BY <1>9 DEF ServerStep, Disturb, Take, Answer, Exit, Chatter, Garble, Crash
  <2>1. CASE Exit(p)
    <3>1. p = held => pc \in {"closing", "closed"}
      BY <2>1 DEF Exit, HitsEarned
    <3>2. p # held => server'[held] = server[held]
      BY <2>1, <1>t DEF Exit, TypeOK
    <3> QED BY <2>0, <2>1, <3>1, <3>2 DEF Exit, HitsEarned, InFlight, client
  <2>2. CASE Crash(p)
    <3>1. server'[held].open = server[held].open /\ (p # held => server'[held] = server[held])
      BY <2>2, <1>t DEF Crash, TypeOK, Process
    <3> QED BY <2>0, <2>2, <3>1, <1>n DEF Crash, HitsEarned, InFlight, client
  <2>3. CASE Take(p) \/ Answer(p) \/ Chatter(p) \/ Garble(p)
    <3>1. hits' = hits
      BY <2>3 DEF Take, Answer, Chatter, Garble
    <3>2. server'[held].open = server[held].open /\ server'[held].alive = server[held].alive
      <4>1. CASE p # held
        BY <2>3, <1>t, <4>1 DEF Take, Answer, Chatter, Garble, TypeOK
      <4>2. CASE p = held
        <5>1. CASE Take(p)
          BY <1>t, <4>2, <5>1 DEF Take, TypeOK, Process
        <5>2. CASE Answer(p)
          BY <1>t, <4>2, <5>2 DEF Answer, Printing, TypeOK, Process
        <5>3. CASE Chatter(p)
          BY <1>t, <4>2, <5>3 DEF Chatter, Printing, TypeOK, Process
        <5>4. CASE Garble(p)
          BY <1>t, <4>2, <5>4 DEF Garble, Printing, TypeOK, Process
        <5> QED BY <2>3, <5>1, <5>2, <5>3, <5>4
      <4> QED BY <4>1, <4>2
    <3> QED BY <2>0, <3>1, <3>2 DEF HitsEarned, InFlight, client
  <2> QED BY <1>9, <2>1, <2>2, <2>3 DEF ServerStep, Disturb
<1>10. CASE UNCHANGED vars
  BY <1>10 DEF vars, client, HitsEarned, InFlight
<1> QED
  BY <1>1, <1>2, <1>3, <1>4, <1>5, <1>6, <1>7, <1>8, <1>9, <1>10 DEF Next, ClientStep

(* One step changes the unread requests of at most one process: the write  *)
(* appends to those of the held one, taking up removes the first, a spawn  *)
(* forgets them.                                                           *)
StdinStep(p) ==
  \/ server'[p].stdin = server[p].stdin
  \/ server'[p].stdin = <<>>
  \/ Write /\ p = held /\ server'[p].stdin = Append(server[p].stdin, case)
  \/ Take(p) /\ server'[p].stdin = Tail(server[p].stdin)

LEMMA StdinSteps ==
  ASSUME IInv, [Next]_vars, NEW p \in Procs
  PROVE  StdinStep(p)
<1>t. TypeOK /\ TInv
  BY DEF IInv, TInv
<1>1. CASE Spawn
  BY <1>1, <1>t, SpawnServers DEF StdinStep
<1>2. CASE Write
  BY <1>2, <1>t, SMTT(30) DEF Write, TypeOK, Process, StdinStep
<1>3. CASE Read \/ Close \/ Closed
  BY <1>3, <1>t, SMTT(30) DEF Read, Close, Closed, TypeOK, Process, StdinStep
<1>4. ASSUME NEW q \in Procs, ServerStep(q) \/ Disturb(q) PROVE StdinStep(p)
  <2>1. CASE q # p
    BY <1>4, <2>1, <1>t DEF ServerStep, Disturb, Take, Answer, Exit, Chatter, Garble, Crash,
                            TypeOK, StdinStep
  <2>2. CASE q = p
    <3>1. CASE Take(p)
      BY <1>t, <3>1 DEF Take, TypeOK, Process, StdinStep
    <3>2. CASE Answer(p)
      BY <1>t, <3>2 DEF Answer, Printing, TypeOK, Process, StdinStep
    <3>3. CASE Chatter(p) \/ Garble(p)
      BY <1>t, <3>3 DEF Chatter, Garble, Printing, TypeOK, Process, StdinStep
    <3>4. CASE Exit(p) \/ Crash(p)
      BY <1>t, <3>4 DEF Exit, Crash, TypeOK, Process, StdinStep
    <3> QED BY <1>4, <2>2, <3>1, <3>2, <3>3, <3>4 DEF ServerStep, Disturb
  <2> QED BY <2>1, <2>2
<1>5. CASE UNCHANGED server
  BY <1>5 DEF StdinStep
<1>6. \/ Spawn \/ Write \/ Read \/ Close \/ Closed \/ UNCHANGED server
      \/ \E q \in Procs : ServerStep(q) \/ Disturb(q)
  BY DEF Next, ClientStep, vars, Submit, Poll, Respawn, SpawnFails
<1> QED BY <1>1, <1>2, <1>3, <1>4, <1>5, <1>6

LEMMA OrderStep ==
  ASSUME IInv, [Next]_vars, NEW p \in Procs, InOrder(p)
  PROVE  InOrder(p)'
<1>t. TInv /\ TypeOK /\ TypeOK'
  BY TypeStep DEF IInv, TInv
<1>u. server[p].stdin \in Seq(Cases) /\ case \in Nat /\ case' \in Nat /\ held \in Procs
  BY <1>t, BoundsAssumption DEF TypeOK, Process
<1> DEFINE Q == server[p].stdin
           R == server'[p].stdin
<1>q. Q \in Seq(Cases)
  BY <1>u
<1>e. \A i \in DOMAIN Q : Q[i] \in Nat
  BY <1>q, BoundsAssumption DEF Cases
<1>c. /\ case' = case \/ case' = case + 1
      /\ p = held' /\ pc' \in {"poll", "write"} =>
           \/ case' = case + 1
           \/ R = <<>>
           \/ p = held /\ pc \in {"poll", "write"}
  <2>1. CASE Spawn
    <3>1. server'[held'].stdin = <<>>
      BY <2>1, <1>t, SpawnServers DEF Fresh, Unborn
    <3>2. spawned' # spawned
      BY <2>1, <1>t DEF Spawn, TypeOK, Procs
    <3>3. Poll \/ Respawn
      BY <3>2 DEF Next, ClientStep, vars, Submit, Write, Read, Closed, SpawnFails, Close,
         ServerStep, Disturb, Take, Answer, Exit, Chatter, Garble, Crash
    <3> QED BY <2>1, <3>1, <3>3 DEF Poll, Respawn, Finish
  <2>2. CASE ~ Spawn
    BY <2>2 DEF Next, ClientStep, vars, client, Submit, Poll, Write, Read, Respawn, Finish, Closed,
         SpawnFails, Close, ServerStep, Disturb, Take, Answer, Exit, Chatter, Garble, Crash
  <2> QED BY <2>1, <2>2
<1>m. StdinStep(p)
  BY StdinSteps
<1>o. /\ \A i \in DOMAIN Q : Q[i] <= case /\ (p = held /\ pc \in {"poll", "write"} => Q[i] < case)
      /\ \A i, j \in DOMAIN Q : i < j => Q[i] < Q[j]
  BY DEF InOrder
<1>g. SUFFICES /\ \A i \in DOMAIN R : R[i] <= case'
               /\ p = held' /\ pc' \in {"poll", "write"} => \A i \in DOMAIN R : R[i] < case'
               /\ \A i \in DOMAIN R : \A j \in DOMAIN R : i < j => R[i] < R[j]
  BY DEF InOrder
<1> HIDE DEF Q, R
<1>1. CASE R = Q
  BY <1>1, <1>c, <1>e, <1>o, <1>u, <1>q
<1>2. CASE R = <<>>
  BY <1>2
<1>3. CASE Write /\ p = held /\ R = Append(Q, case)
  <2>1. pc = "write" /\ pc' \notin {"poll", "write"} /\ case' = case
    BY <1>3 DEF Write
  <2>2. \A i \in DOMAIN Q : Q[i] < case
    BY <1>3, <1>o, <2>1
  <2>3. /\ \A i \in DOMAIN R : (i \in DOMAIN Q /\ R[i] = Q[i]) \/ (i = Len(Q) + 1 /\ R[i] = case)
        /\ \A i \in DOMAIN Q : i \in Nat /\ i < Len(Q) + 1
    BY <1>3, <1>q, <1>u, AppendElements DEF IInv, TInv, InFlight, Cases
  <2> QED BY <1>o, <1>e, <1>q, <1>u, <2>1, <2>2, <2>3
<1>4. CASE Take(p) /\ R = Tail(Q)
  <2>1. Q # <<>> /\ UNCHANGED <<pc, case, held>>
    BY <1>4 DEF Take, client, Q
  <2>2. \A i \in DOMAIN R : i \in Nat /\ i + 1 \in DOMAIN Q /\ R[i] = Q[i + 1]
    BY <1>4, <1>q, <2>1
  <2>3. \A i, j \in DOMAIN R : i < j => i + 1 < j + 1
    BY <2>2
  <2> QED BY <1>o, <1>e, <1>u, <2>1, <2>2, <2>3
<1> QED BY <1>m, <1>1, <1>2, <1>3, <1>4 DEF StdinStep, Q, R

(* What was written of a case is never less after a step, and the write    *)
(* of the case in flight is one more.                                      *)
LEMMA WrittenStep ==
  ASSUME IInv, [Next]_vars, NEW c \in Cases
  PROVE  /\ Written(c) \in 0 .. 2
         /\ Written(c)' \in 0 .. 2
         /\ Written(c) <= Written(c)'
         /\ Write /\ c = case => Written(c)' = Written(c) + 1
<1>t. TInv /\ TypeOK /\ TypeOK'
  BY TypeStep DEF IInv, TInv
<1>u. case \in Nat /\ case' \in Nat /\ attempt \in {1, 2} /\ attempt' \in {1, 2} /\ c \in Nat
  BY <1>t, BoundsAssumption DEF TypeOK, Cases
<1>0. Written(c) \in 0 .. 2 /\ Written(c)' \in 0 .. 2
  BY <1>u DEF Written
<1>1. CASE Submit
  <2>1. case' = case + 1 /\ ~ InFlight /\ InFlight' /\ pc' = "poll" /\ attempt' = 1
    BY <1>1 DEF Submit, InFlight
  <2> QED BY <1>0, <1>1, <1>u, <2>1 DEF Written, Submit, Write
<1>2. CASE Write
  <2>1. case' = case /\ InFlight /\ InFlight' /\ pc = "write" /\ pc' \in {"read", "respawn"} /\ attempt' = attempt
    BY <1>2 DEF Write, InFlight
  <2> QED BY <1>0, <1>u, <2>1 DEF Written
<1>3. CASE ~ Submit /\ ~ Write
  <2>1. /\ case' = case
        /\ \/ ~ InFlight /\ ~ InFlight'
           \/ InFlight /\ ~ InFlight'
           \/ InFlight /\ InFlight' /\ attempt' = attempt /\ (pc' \in {"poll", "write"} => pc \in {"poll", "write"})
           \/ InFlight /\ InFlight' /\ attempt' = attempt + 1
    <3>1. CASE Poll \/ Read \/ SpawnFails \/ Close \/ Closed
      BY <1>3, <3>1 DEF Poll, Read, SpawnFails, Close, Closed, Finish, client, InFlight
    <3>2. CASE Respawn
      BY <1>u, <3>2 DEF Respawn, Finish, InFlight
    <3>3. CASE \E q \in Procs : ServerStep(q) \/ Disturb(q)
      BY <3>3 DEF ServerStep, Disturb, Take, Answer, Exit, Chatter, Garble, Crash, client, InFlight
    <3>4. CASE UNCHANGED vars
      BY <3>4 DEF vars, client, InFlight
    <3> QED BY <1>3, <3>1, <3>2, <3>3, <3>4 DEF Next, ClientStep
  <2>2. Written(c) <= Written(c)'
    <3>1. CASE ~ InFlight'
      BY <1>0, <1>u, <2>1, <3>1 DEF Written
    <3>2. CASE InFlight' /\ attempt' = attempt
      BY <1>u, <2>1, <3>2 DEF Written
    <3>3. CASE InFlight' /\ attempt' = attempt + 1
      <4>1. attempt = 1 /\ attempt' = 2
        BY <1>u, <3>3
      <4> QED BY <1>u, <2>1, <3>3, <4>1 DEF Written
    <3> QED BY <2>1, <3>1, <3>2, <3>3
  <2> QED BY <1>0, <1>3, <2>2
<1> QED BY <1>1, <1>2, <1>3

LEMMA ProcsFinite == \A S \in SUBSET Procs : IsFiniteSet(S) /\ Cardinality(S) \in Nat
<1> TAKE S \in SUBSET Procs
<1>1. IsFiniteSet(Procs)
  BY FS_Interval, BoundsAssumption DEF Procs
<1>2. IsFiniteSet(S)
  BY <1>1, FS_Subset
<1> QED BY <1>2, FS_CardinalityType

LEMMA HandedStep ==
  ASSUME IInv, [Next]_vars, \A p \in Procs : InOrder(p), NEW c \in Cases,
         handed[c] + Cardinality(Holders(c)) <= Written(c)
  PROVE  (handed[c] + Cardinality(Holders(c)) <= Written(c))'
<1>t. TypeOK /\ TypeOK'
  BY TypeStep DEF IInv, TInv
<1> DEFINE H == Holders(c)
           G == Holders(c)'
<1>f. IsFiniteSet(H) /\ Cardinality(H) \in Nat /\ IsFiniteSet(G) /\ Cardinality(G) \in Nat
  <2>1. H \in SUBSET Procs /\ G \in SUBSET Procs
    BY DEF Holders
  <2> QED BY <2>1, ProcsFinite
<1>w. /\ Written(c) \in 0 .. 2
      /\ Written(c)' \in 0 .. 2
      /\ Written(c) <= Written(c)'
      /\ Write /\ c = case => Written(c)' = Written(c) + 1
  BY WrittenStep
<1>h. handed[c] \in Nat /\ handed'[c] \in Nat
  BY <1>t DEF TypeOK
<1>r. \A p \in Procs : server[p].stdin \in Seq(Cases)
  BY <1>t DEF TypeOK, Process
<1>1. CASE Write /\ c = case
  <2>1. G \subseteq H \cup {held}
    <3> SUFFICES ASSUME NEW p \in Procs, c \in Unread(p)', p # held PROVE c \in Unread(p)
      BY DEF Holders
    <3>1. server'[p].stdin = server[p].stdin
      BY <1>1, <1>t DEF Write, TypeOK
    <3> QED BY <3>1 DEF Unread
  <2>2. Cardinality(G) <= Cardinality(H) + 1
    <3> HIDE DEF H, G
    <3>0. /\ IsFiniteSet(H \cup {held})
          /\ Cardinality(H \cup {held}) = IF held \in H THEN Cardinality(H) ELSE Cardinality(H) + 1
      BY <1>f, FS_AddElement, Zenon
    <3>1. IsFiniteSet(H \cup {held}) /\ Cardinality(H \cup {held}) <= Cardinality(H) + 1
      BY <1>f, <3>0
    <3>2. Cardinality(H \cup {held}) \in Nat
      BY <3>1, FS_CardinalityType
    <3> QED BY <1>f, <2>1, <3>1, <3>2, FS_Subset
  <2>3. handed' = handed
    BY <1>1 DEF Write
  <2> QED BY <1>1, <1>f, <1>w, <1>h, <2>2, <2>3
<1>2. CASE ~ (Write /\ c = case)
  <2>1. G \subseteq H
    <3> SUFFICES ASSUME NEW p \in Procs, c \in Unread(p)' PROVE c \in Unread(p)
      BY DEF Holders
    <3> DEFINE Q == server[p].stdin
               R == server'[p].stdin
    <3>1. StdinStep(p)
      BY StdinSteps
    <3>2. Q \in Seq(Cases)
      BY <1>r
    <3>3. PICK i \in DOMAIN R : R[i] = c
      BY DEF Unread
    <3>4. CASE R = Q
      BY <3>3, <3>4 DEF Unread
    <3>5. CASE R = <<>>
      BY <3>3, <3>5
    <3>6. CASE Write /\ R = Append(Q, case)
      <4>1. case \in Cases
        BY <1>t, <3>6 DEF Write, IInv, TInv, InFlight, TypeOK, Cases
      <4>2. i \in DOMAIN Q /\ R[i] = Q[i]
        BY <1>2, <3>2, <3>3, <3>6, <4>1, AppendElements
      <4> QED BY <3>3, <4>2 DEF Unread
    <3>7. CASE Take(p) /\ R = Tail(Q)
      <4>1. Q # <<>>
        BY <3>7 DEF Take
      <4>2. i + 1 \in DOMAIN Q /\ R[i] = Q[i + 1]
        BY <3>2, <3>3, <3>7, <4>1, TailElements
      <4> QED BY <3>3, <4>2 DEF Unread
    <3> QED BY <3>1, <3>4, <3>5, <3>6, <3>7 DEF StdinStep
  <2>2. Cardinality(G) <= Cardinality(H)
    BY <1>f, <2>1, FS_Subset
  <2>3. CASE handed'[c] = handed[c]
    BY <1>f, <1>w, <1>h, <2>2, <2>3
  <2>4. CASE handed'[c] # handed[c]
    <3>1. PICK q \in Procs : Take(q)
      BY <2>4 DEF Next, ClientStep, ServerStep, Disturb, vars, Submit, Poll, Write, Read, Respawn,
         Closed, SpawnFails, Close, Answer, Exit, Chatter, Garble, Crash
    <3> DEFINE Q == server[q].stdin
               R == server'[q].stdin
    <3>2. Q # <<>> /\ Q \in Seq(Cases) /\ R = Tail(Q)
      BY <1>r, <1>t, <3>1 DEF Take, TypeOK, Process
    <3>3. /\ 1 \in DOMAIN Q /\ Head(Q) = Q[1]
          /\ \A i \in DOMAIN R : i + 1 \in DOMAIN Q /\ i + 1 > 1 /\ R[i] = Q[i + 1]
      BY <3>2
    <3>4. c = Q[1] /\ handed'[c] = handed[c] + 1
      BY <1>t, <2>4, <3>1, <3>3 DEF Take, TypeOK
    <3>5. \A j \in DOMAIN Q : 1 < j => Q[1] < Q[j]
      BY <3>3 DEF InOrder
    <3>6. q \in H
      BY <3>3, <3>4 DEF Holders, Unread
    <3>7. \A i \in DOMAIN R : c < R[i]
      BY <3>3, <3>4, <3>5
    <3>8. q \notin G
      <4> SUFFICES ASSUME NEW i \in DOMAIN R, R[i] = c PROVE FALSE
        BY DEF Holders, Unread
      <4> QED BY <3>7, BoundsAssumption DEF Cases
    <3>9. G \subseteq H \ {q}
      BY <2>1, <3>8
    <3>10. IsFiniteSet(H \ {q}) /\ Cardinality(H \ {q}) = Cardinality(H) - 1
      BY <1>f, <3>6, FS_RemoveElement
    <3>11. Cardinality(G) <= Cardinality(H) - 1
      BY <3>9, <3>10, FS_Subset
    <3> QED BY <1>f, <1>w, <1>h, <3>4, <3>11
  <2> QED BY <2>3, <2>4
<1> QED BY <1>1, <1>2

LEMMA RInit == Init => RInv
<1> SUFFICES ASSUME Init PROVE RInv
  OBVIOUS
<1>1. \A p \in Procs : server[p].stdin = <<>>
  BY DEF Init, Fresh, Unborn
<1>2. \A p \in Procs : DOMAIN server[p].stdin = {}
  BY <1>1
<1>3. \A p \in Procs : InOrder(p) /\ Unread(p) = {}
  BY <1>2 DEF InOrder, Unread
<1>4. \A c \in Cases : handed[c] = 0 /\ Holders(c) = {} /\ Written(c) = 0
  BY <1>3, BoundsAssumption DEF Init, Holders, Written, Cases
<1>5. Cardinality({}) = 0
  BY FS_EmptySet
<1>6. HitsEarned
  BY BoundsAssumption DEF Init, HitsEarned, InFlight, Procs, Fresh, Unborn
<1> QED BY <1>3, <1>4, <1>5, <1>6, IInit DEF RInv

LEMMA RStep == RInv /\ [Next]_vars => RInv'
<1> SUFFICES ASSUME RInv, [Next]_vars PROVE RInv'
  OBVIOUS
<1>1. IInv' /\ HitsEarned'
  BY IStep, HitsStep DEF RInv
<1>2. \A p \in Procs : InOrder(p)'
  BY OrderStep DEF RInv
<1>3. \A c \in Cases : (handed[c] + Cardinality(Holders(c)) <= Written(c))'
  BY HandedStep DEF RInv
<1> QED BY <1>1, <1>2, <1>3 DEF RInv

(* "server died" is reported only of a submission that met two failures,   *)
(* and no case is taken up more than twice, by whatever processes.         *)
THEOREM TwoAttempts == Spec => []RetriesEarned
<1>1. RInv => RetriesEarned
  <2> SUFFICES ASSUME RInv, NEW c \in Cases PROVE handed[c] <= 2
    BY DEF RInv, HitsEarned, RetriesEarned
  <2>1. handed[c] \in Nat /\ attempt \in 1 .. 2
    BY DEF RInv, IInv, TInv, TypeOK
  <2>2. Written(c) \in 0 .. 2
    BY <2>1 DEF Written
  <2>3. Cardinality(Holders(c)) \in Nat
    BY ProcsFinite DEF Holders
  <2> QED BY <2>1, <2>2, <2>3 DEF RInv
<1> QED BY RInit, RStep, <1>1, PTL DEF Spec
=============================================================================

---------------------------- MODULE ServerClient ----------------------------
(***************************************************************************)
(* The per-worker client of a Lean conformance server                      *)
(* (packages/EthCLSpecs/PySpecTests/harness.py, ServerClient; the client   *)
(* of packages/SizzLean/PySpecTests/harness.py runs the same loop) and the *)
(* request loop of the server processes it spawns (serve in                *)
(* PySpecTests/Server.lean).  Client and servers are concurrent: each      *)
(* client step below ends at a system call, and a server may print a line, *)
(* answer, exit or crash between any two of them.                          *)
(*                                                                         *)
(* Abstractions.  A request line is its case number; a result line is the  *)
(* number of the case it answers.  Any other line on stdout is noise the   *)
(* client skips, or one Python cannot decode (ValueError).  A spawned      *)
(* process takes the next number.  Faults are bounded by MaxFaults.        *)
(***************************************************************************)
EXTENDS Naturals, Sequences

CONSTANTS
  MaxCase,           (* cases one worker runs *)
  MaxFaults,         (* bound: crashes and undecodable lines *)
  MaxNoise,          (* bound: noise lines the servers print *)
  MaxSpawnFailures,  (* bound: Popen calls that raise OSError *)
  MaxProcs           (* bound: processes started, enough for the faults *)

ASSUME BoundsAssumption ==
  /\ MaxCase \in Nat
  /\ MaxProcs \in Nat \ {0}
  /\ MaxFaults \in Nat
  /\ MaxNoise \in Nat
  /\ MaxSpawnFailures \in Nat

VARIABLES
  pc,        (* where the client is in submit or close *)
  case,      (* the case submitted last, 0 before the first *)
  attempt,   (* the iteration of `for _ in range(2)` *)
  verdict,   (* verdict[c] : what submit returned for case c *)
  held,      (* self.proc *)
  spawned,   (* processes started so far *)
  server,    (* server[p] : the state of process p and of its two pipes *)
  faults, noise, spawnFailures,  (* fault budgets used *)
  hits,      (* history: failures met by the submission in flight *)
  handed     (* history: handed[c] : times a server took up case c *)

client == <<pc, case, attempt, verdict>>
budgets == <<faults, noise, spawnFailures>>
vars == <<client, held, spawned, server, budgets, hits, handed>>

Cases == 1 .. MaxCase
Procs == 1 .. MaxProcs

None   == [kind |-> "none", to |-> 0]
Died   == [kind |-> "died", to |-> 0]
Raised == [kind |-> "raised", to |-> 0]
AnswerTo(c) == [kind |-> "answer", to |-> c]
NoiseLine == [kind |-> "noise", to |-> 0]
BadLine   == [kind |-> "bad", to |-> 0]
Lines == {NoiseLine, BadLine} \cup {AnswerTo(c) : c \in Cases}

(* A process not yet started, and one just started: its stdin is open, it  *)
(* is serving nothing and has printed nothing.                             *)
Unborn == [alive |-> FALSE, open |-> FALSE, stdin |-> <<>>, busy |-> 0, stdout |-> <<>>]
Fresh  == [Unborn EXCEPT !.alive = TRUE, !.open = TRUE]
Process == [alive : BOOLEAN, open : BOOLEAN, stdin : Seq(Cases),
            busy : 0 .. MaxCase, stdout : Seq(Lines)]

TypeOK ==
  /\ pc \in {"idle", "poll", "write", "read", "respawn", "closing", "closed"}
  /\ case \in 0 .. MaxCase
  /\ attempt \in 1 .. 2
  /\ verdict \in [Cases -> {None, Died, Raised} \cup Lines]
  /\ held \in Procs
  /\ spawned \in Procs
  /\ server \in [Procs -> Process]
  /\ faults \in 0 .. MaxFaults
  /\ noise \in 0 .. MaxNoise
  /\ spawnFailures \in 0 .. MaxSpawnFailures
  /\ hits \in Nat
  /\ handed \in [Cases -> Nat]

(* submit is running. *)
InFlight == pc \in {"poll", "write", "read", "respawn"}

-----------------------------------------------------------------------------
(* The client *)

(* A variant of Spawn: a reference to the old process is left somewhere.   *)
SpawnLeaking ==
  /\ spawned < MaxProcs
  /\ spawned' = spawned + 1
  /\ held' = spawned + 1
  /\ server' = [server EXCEPT ![spawned + 1] = Fresh]

(* _spawn(): the new process replaces self.proc.  Nothing refers to the    *)
(* old Popen object any more, so both its pipes are closed.                *)
Spawn ==
  /\ spawned < MaxProcs
  /\ spawned' = spawned + 1
  /\ held' = spawned + 1
  /\ server' = [server EXCEPT ![held] = [@ EXCEPT !.open = FALSE, !.stdout = <<>>],
                              ![spawned + 1] = Fresh]

Init ==
  /\ pc = "idle"
  /\ case = 0
  /\ attempt = 1
  /\ verdict = [c \in Cases |-> None]
  /\ held = 1
  /\ spawned = 1
  /\ server = [p \in Procs |-> IF p = 1 THEN Fresh ELSE Unborn]
  /\ faults = 0 /\ noise = 0 /\ spawnFailures = 0
  /\ hits = 0
  /\ handed = [c \in Cases |-> 0]

Submit ==
  /\ pc = "idle"
  /\ case < MaxCase
  /\ pc' = "poll"
  /\ case' = case + 1
  /\ attempt' = 1
  /\ hits' = 0
  /\ UNCHANGED <<verdict, held, spawned, server, budgets, handed>>

(* A variant of Poll: no check, the write finds out. *)
PollNothing ==
  /\ pc = "poll"
  /\ pc' = "write"
  /\ UNCHANGED <<case, attempt, verdict, held, spawned, server, budgets, hits, handed>>

(* `if self.proc.poll() is not None: self._spawn()`                        *)
Poll ==
  /\ pc = "poll"
  /\ pc' = "write"
  /\ IF server[held].alive THEN UNCHANGED <<held, spawned, server>> ELSE Spawn
  /\ UNCHANGED <<case, attempt, verdict, budgets, hits, handed>>

(* The write reaches the pipe of a live process; on a dead one it raises   *)
(* BrokenPipeError.                                                        *)
Write ==
  /\ pc = "write"
  /\ IF server[held].alive
     THEN /\ server' = [server EXCEPT ![held].stdin = Append(@, case)]
          /\ pc' = "read"
     ELSE /\ pc' = "respawn"
          /\ UNCHANGED server
  /\ UNCHANGED <<case, attempt, verdict, held, spawned, budgets, hits, handed>>

(* submit returns the verdict v.                                           *)
Finish(v) ==
  /\ pc' = "idle"
  /\ verdict' = [verdict EXCEPT ![case] = v]
  /\ UNCHANGED <<case, attempt>>

(* A variant of Read: the end of the stream goes unnoticed. *)
ReadWithoutEof ==
  LET out == server[held].stdout
  IN /\ pc = "read"
     /\ out # <<>>
     /\ server' = [server EXCEPT ![held].stdout = Tail(@)]
     /\ \/ Head(out).kind = "answer" /\ Finish(Head(out))
        \/ Head(out).kind = "noise" /\ UNCHANGED client
        \/ Head(out).kind = "bad" /\ pc' = "respawn" /\ UNCHANGED <<case, attempt, verdict>>
     /\ UNCHANGED <<held, spawned, budgets, hits, handed>>

(* One turn of the read loop: a result line ends the submission, noise is  *)
(* skipped, an undecodable line or the end of the stream is an exception.  *)
Read ==
  LET out == server[held].stdout
  IN /\ pc = "read"
     /\ \/ /\ out # <<>>
           /\ server' = [server EXCEPT ![held].stdout = Tail(@)]
           /\ \/ Head(out).kind = "answer" /\ Finish(Head(out)) /\ UNCHANGED hits
              \/ Head(out).kind = "noise" /\ UNCHANGED <<client, hits>>
              \/ /\ Head(out).kind = "bad"
                 /\ pc' = "respawn"
                 /\ hits' = hits + 1
                 /\ UNCHANGED <<case, attempt, verdict>>
        \/ /\ out = <<>>
           /\ ~ server[held].alive
           /\ pc' = "respawn"
           /\ UNCHANGED <<case, attempt, verdict, server, hits>>
     /\ UNCHANGED <<held, spawned, budgets, handed>>

(* A variant of Respawn: a live server is kept, desynced or not. *)
RespawnIfDead ==
  /\ pc = "respawn"
  /\ IF server[held].alive THEN UNCHANGED <<held, spawned, server>> ELSE Spawn
  /\ IF attempt = 1
     THEN pc' = "poll" /\ attempt' = 2 /\ UNCHANGED <<case, verdict>>
     ELSE Finish(Died)
  /\ UNCHANGED <<budgets, hits, handed>>

(* The except clause: spawn again, then the second attempt or, after it,   *)
(* the report that the server died.                                        *)
Respawn ==
  /\ pc = "respawn"
  /\ Spawn
  /\ IF attempt = 1
     THEN /\ pc' = "poll"
          /\ attempt' = 2
          /\ UNCHANGED <<case, verdict>>
     ELSE Finish(Died)
  /\ UNCHANGED <<budgets, hits, handed>>

(* Popen raises OSError.  Inside the try the except clause catches it; in  *)
(* the except clause it leaves submit, and self.proc keeps its old value.  *)
SpawnFails ==
  /\ spawnFailures < MaxSpawnFailures
  /\ spawnFailures' = spawnFailures + 1
  /\ hits' = hits + 1
  /\ \/ /\ pc = "poll"
        /\ ~ server[held].alive
        /\ pc' = "respawn"
        /\ UNCHANGED <<case, attempt, verdict>>
     \/ /\ pc = "respawn"
        /\ Finish(Raised)
  /\ UNCHANGED <<held, spawned, server, faults, noise, handed>>

(* close(): stdin is closed, then wait(timeout=30), then kill on a timeout *)
(* or any other exception.                                                 *)
Close ==
  /\ pc = "idle"
  /\ pc' = "closing"
  /\ server' = [server EXCEPT ![held].open = FALSE]
  /\ UNCHANGED <<case, attempt, verdict, held, spawned, budgets, hits, handed>>

Closed ==
  /\ pc = "closing"
  /\ pc' = "closed"
  /\ \/ ~ server[held].alive /\ UNCHANGED server
     \/ server' = [server EXCEPT ![held].alive = FALSE]
  /\ UNCHANGED <<case, attempt, verdict, held, spawned, budgets, hits, handed>>

-----------------------------------------------------------------------------
(* A server process p *)

Take(p) ==
  /\ server[p].alive
  /\ server[p].busy = 0
  /\ server[p].stdin # <<>>
  /\ server' = [server EXCEPT ![p].busy = Head(server[p].stdin), ![p].stdin = Tail(@)]
  /\ handed' = [handed EXCEPT ![Head(server[p].stdin)] = @ + 1]
  /\ UNCHANGED <<client, held, spawned, budgets, hits>>

(* What p prints is lost once the client dropped it: the write to the pipe *)
(* nobody reads ends the process.                                          *)
Printing(p, line) ==
  IF p = held THEN [server[p] EXCEPT !.stdout = Append(@, line)]
  ELSE [server[p] EXCEPT !.alive = FALSE]

Answer(p) ==
  /\ server[p].alive
  /\ server[p].busy # 0
  /\ server' = [server EXCEPT ![p] = [Printing(p, AnswerTo(server[p].busy)) EXCEPT !.busy = 0]]
  /\ UNCHANGED <<client, held, spawned, budgets, hits, handed>>

(* The empty read of a closed stdin ends the loop.                         *)
Exit(p) ==
  /\ server[p].alive
  /\ server[p].busy = 0
  /\ server[p].stdin = <<>>
  /\ ~ server[p].open
  /\ server' = [server EXCEPT ![p].alive = FALSE]
  /\ UNCHANGED <<client, held, spawned, budgets, hits, handed>>

Chatter(p) ==
  /\ server[p].alive
  /\ noise < MaxNoise
  /\ noise' = noise + 1
  /\ server' = [server EXCEPT ![p] = Printing(p, NoiseLine)]
  /\ UNCHANGED <<client, held, spawned, faults, spawnFailures, hits, handed>>

Garble(p) ==
  /\ server[p].alive
  /\ faults < MaxFaults
  /\ faults' = faults + 1
  /\ server' = [server EXCEPT ![p] = Printing(p, BadLine)]
  /\ UNCHANGED <<client, held, spawned, noise, spawnFailures, hits, handed>>

(* Counted as a failure of the submission in flight when it is its server  *)
(* that dies; between two submissions poll() will see it.                  *)
Crash(p) ==
  /\ server[p].alive
  /\ faults < MaxFaults
  /\ faults' = faults + 1
  /\ server' = [server EXCEPT ![p].alive = FALSE, ![p].busy = 0]
  /\ hits' = IF p = held /\ InFlight THEN hits + 1 ELSE hits
  /\ UNCHANGED <<client, held, spawned, noise, spawnFailures, handed>>

-----------------------------------------------------------------------------
ClientStep == Poll \/ Write \/ Read \/ Respawn \/ Closed
ServerStep(p) == Take(p) \/ Answer(p) \/ Exit(p)
Disturb(p) == Chatter(p) \/ Garble(p) \/ Crash(p)

Next ==
  \/ Submit \/ ClientStep \/ SpawnFails \/ Close
  \/ \E p \in Procs : ServerStep(p) \/ Disturb(p)

(* The client runs on, and so does every server: a handler of the request  *)
(* loop terminates on every line (exceptions become result lines).         *)
Fairness ==
  /\ WF_vars(ClientStep)
  /\ \A p \in Procs : WF_vars(ServerStep(p))

Spec == Init /\ [][Next]_vars /\ Fairness

-----------------------------------------------------------------------------
(* The result line submit returns answers the case it submitted, never an  *)
(* earlier one still in a pipe (harness.py:6: one tab-separated request    *)
(* line per case, one result line back).                                   *)
AnswersOwnCase == \A c \in Cases : verdict[c].kind = "answer" => verdict[c].to = c

NoRaise == \A c \in Cases : verdict[c] # Raised

(* As above, for every worker whose submissions all returned: only a Popen *)
(* that fails in the except clause leaves an old answer to be read.        *)
AnswersUnlessRaised == NoRaise => AnswersOwnCase

(* Between two submissions the held server owes nothing: no request is     *)
(* unread, none is being served, no result line is waiting.                *)
OwesNothing(p) ==
  /\ server[p].stdin = <<>>
  /\ server[p].busy = 0
  /\ \A i \in DOMAIN server[p].stdout : server[p].stdout[i].kind # "answer"
IdleServerClean == pc = "idle" /\ NoRaise => OwesNothing(held)

(* Retries are bounded and earned: "server died" is reported only when the *)
(* submission itself met two failures (a crash between two cases, seen by  *)
(* poll(), costs no attempt), and no case is run more than twice.          *)
RetriesEarned ==
  /\ case # 0 /\ verdict[case] = Died => hits >= 2
  /\ \A c \in Cases : handed[c] <= 2

(* A server the client dropped or closed comes to an end: the closed pipes *)
(* stop it, no later case has to wait for its memory or its locks.         *)
DroppedServersExit ==
  \A p \in Procs : (p <= spawned /\ (p # held \/ pc = "closing")) ~> ~ server[p].alive

-----------------------------------------------------------------------------
(* ServerClient implements CaseService: the requests, retries, deaths and  *)
(* respawns of a submission are one Return of the service.                 *)
Service == INSTANCE CaseService WITH
  current <- IF InFlight THEN case ELSE 0,
  last <- case,
  verdict <- verdict
ServiceSpec == Service!Spec
=============================================================================

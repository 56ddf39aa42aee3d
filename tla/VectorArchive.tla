---------------------------- MODULE VectorArchive ---------------------------
(***************************************************************************)
(* ensure_archive of packages/EthCLSpecs/PySpecTests/harness.py and of     *)
(* packages/SizzLean/PySpecTests/harness.py: the vectors of a release are  *)
(* downloaded and extracted on first use under ~/.cache/sizzlean, by every *)
(* pytest-xdist worker of a session at once, and stay there from one       *)
(* session to the next.  A session may be killed between any two steps,    *)
(* and a download may fail.                                                *)
(*                                                                         *)
(* Abstractions.  The archive is the sequence of its members 1 .. Members, *)
(* the first being the directory tests/.  The tarball on disk is the set   *)
(* of members whose bytes are in place, or None; a file extracted from it  *)
(* is absent, cut short or full.  Each step ends at a file system call.    *)
(***************************************************************************)
EXTENDS Naturals

CONSTANTS
  Workers,      (* the xdist workers of a session *)
  Members,      (* number of members of the archive *)
  MaxSessions,  (* bound: pytest sessions *)
  MaxFailures,  (* bound: downloads cut off *)
  MayCrash,     (* may a session be killed before its workers are done? *)
  None          (* no tarball *)

VARIABLES
  tarball,    (* members in place in the file, None when it does not exist *)
  tree,       (* tree[m] : the file extracted from member m *)
  pc,         (* pc[w] : the next step of worker w *)
  next,       (* next[w] : the member w is writing or extracting *)
  collected,  (* history: collected[w] : the full files when w returned *)
  sessions, failures

vars == <<tarball, tree, pc, next, collected, sessions, failures>>

All == 1 .. Members
Full == {m \in All : tree[m] = "full"}
TestsIsDir == tree[1] = "full"

TypeOK ==
  /\ tarball = None \/ tarball \subseteq All
  /\ tree \in [All -> {"absent", "short", "full"}]
  /\ pc \in [Workers -> {"check", "probe", "fetch", "write", "open", "extract", "fill",
                         "returned", "failed"}]
  /\ next \in [Workers -> All]
  /\ collected \in [Workers -> SUBSET All]
  /\ sessions \in 0 .. MaxSessions
  /\ failures \in 0 .. MaxFailures

Init ==
  /\ tarball = None
  /\ tree = [m \in All |-> "absent"]
  /\ pc = [w \in Workers |-> "check"]
  /\ next = [w \in Workers |-> 1]
  /\ collected = [w \in Workers |-> {}]
  /\ sessions = 0
  /\ failures = 0

Goto(w, label) == pc' = [pc EXCEPT ![w] = label]

(* ensure_archive returns and walk_cases lists what is there. *)
Return(w) ==
  /\ Goto(w, "returned")
  /\ collected' = [collected EXCEPT ![w] = Full]

(* A variant of Check: nothing is checked. *)
CheckNothing(w) ==
  /\ pc[w] = "check"
  /\ Goto(w, "probe")
  /\ UNCHANGED <<tarball, tree, next, collected, sessions, failures>>

(* `if (extract_dir / "tests").is_dir(): return extract_dir`               *)
Check(w) ==
  /\ pc[w] = "check"
  /\ IF TestsIsDir THEN Return(w) ELSE Goto(w, "probe") /\ UNCHANGED collected
  /\ UNCHANGED <<tarball, tree, next, sessions, failures>>

(* `if not tarball.exists():`                                              *)
Probe(w) ==
  /\ pc[w] = "probe"
  /\ Goto(w, IF tarball = None THEN "fetch" ELSE "open")
  /\ UNCHANGED <<tarball, tree, next, collected, sessions, failures>>

(* `with urlopen(url) as resp, open(tarball, "wb")`: the file is created   *)
(* or cut to nothing.                                                      *)
Fetch(w) ==
  /\ pc[w] = "fetch"
  /\ tarball' = {}
  /\ next' = [next EXCEPT ![w] = 1]
  /\ Goto(w, "write")
  /\ UNCHANGED <<tree, collected, sessions, failures>>

(* `out.write(resp.read())`, a part at a time.                             *)
Write(w) ==
  /\ pc[w] = "write"
  /\ tarball' = tarball \cup {next[w]}
  /\ IF next[w] = Members
     THEN Goto(w, "open") /\ UNCHANGED next
     ELSE next' = [next EXCEPT ![w] = @ + 1] /\ UNCHANGED pc
  /\ UNCHANGED <<tree, collected, sessions, failures>>

(* A variant of DownloadFails: the error is swallowed. *)
DownloadFailsQuietly(w) ==
  /\ pc[w] \in {"fetch", "write"}
  /\ failures < MaxFailures
  /\ failures' = failures + 1
  /\ Goto(w, "returned")
  /\ UNCHANGED <<tarball, tree, next, collected, sessions>>

(* The server or the disk fails: the exception leaves the worker, and the  *)
(* file with what was written.                                             *)
DownloadFails(w) ==
  /\ pc[w] \in {"fetch", "write"}
  /\ failures < MaxFailures
  /\ failures' = failures + 1
  /\ Goto(w, "failed")
  /\ UNCHANGED <<tarball, tree, next, collected, sessions>>

(* tarfile.open reads the first header, and raises when there is none.     *)
Open(w) ==
  /\ pc[w] = "open"
  /\ Goto(w, IF 1 \in tarball THEN "extract" ELSE "failed")
  /\ next' = [next EXCEPT ![w] = 1]
  /\ UNCHANGED <<tarball, tree, collected, sessions, failures>>

(* extractall creates or truncates the file of the next member, then fills *)
(* it.  It raises where the tarball ends early, before the file is created *)
(* or after.  The directory tests/ has nothing to fill.                    *)
Extract(w) ==
  LET m == next[w]
  IN /\ pc[w] = "extract"
     /\ \/ /\ m \in tarball
           /\ tree' = [tree EXCEPT ![m] = IF m = 1 THEN "full" ELSE "short"]
           /\ Goto(w, "fill")
        \/ /\ m \notin tarball
           /\ \/ UNCHANGED tree
              \/ tree' = [tree EXCEPT ![m] = "short"]
           /\ Goto(w, "failed")
     /\ UNCHANGED <<tarball, next, collected, sessions, failures>>

Fill(w) ==
  LET m == next[w]
  IN /\ pc[w] = "fill"
     /\ IF m \in tarball
        THEN /\ tree' = [tree EXCEPT ![m] = "full"]
             /\ IF m = Members
                THEN /\ Goto(w, "returned")
                     /\ collected' = [collected EXCEPT
                                        ![w] = {k \in All : tree'[k] = "full"}]
                     /\ UNCHANGED next
                ELSE /\ next' = [next EXCEPT ![w] = m + 1]
                     /\ Goto(w, "extract")
                     /\ UNCHANGED collected
        ELSE Goto(w, "failed") /\ UNCHANGED <<tree, next, collected>>
     /\ UNCHANGED <<tarball, sessions, failures>>

Done == \A w \in Workers : pc[w] \in {"returned", "failed"}

(* The next session starts after the last one ended or was killed.         *)
NewSession ==
  /\ sessions < MaxSessions
  /\ Done \/ MayCrash
  /\ sessions' = sessions + 1
  /\ pc' = [w \in Workers |-> "check"]
  /\ next' = [w \in Workers |-> 1]
  /\ collected' = [w \in Workers |-> {}]
  /\ UNCHANGED <<tarball, tree, failures>>

WorkerStep(w) ==
  Check(w) \/ Probe(w) \/ Fetch(w) \/ Write(w) \/ Open(w) \/ Extract(w) \/ Fill(w)

Next == NewSession \/ \E w \in Workers : WorkerStep(w) \/ DownloadFails(w)

Spec == Init /\ [][Next]_vars

-----------------------------------------------------------------------------
(* What ensure_archive returned holds the whole archive (harness.py:78-79: *)
(* "Download + extract (idempotent).  Returns the extracted root").        *)
ReturnsWholeArchive == \A w \in Workers : pc[w] = "returned" => collected[w] = All

(* From an empty cache, a session none of whose workers reported an error  *)
(* leaves the whole archive, however its workers truncated the tarball and *)
(* extracted over each other.                                              *)
CleanSessionLeavesAll ==
  sessions = 0 /\ (\A w \in Workers : pc[w] = "returned") => Full = All /\ tarball = All

(* What every step does, through later sessions and their crashes: vectors *)
(* once extracted in full stay so, and a tarball once whole is not         *)
(* downloaded again.                                                       *)
CompleteForGood == (Full = All => Full' = All) /\ (tarball = All => tarball' = All)
=============================================================================

------------------------------- MODULE Release -------------------------------
(***************************************************************************)
(* Releasing LeanSha256.  packages/LeanSha256/scripts/bump_patch.py raises *)
(* the patch version, commits and tags in a maintainer's clone; the        *)
(* maintainer pushes main and then the tag; the workflow                   *)
(* .github/workflows/mirror-leansha256.yml splits the package's history    *)
(* off and pushes it to the downstream repository.                         *)
(*                                                                         *)
(* Several maintainers work in clones of their own, and the script may die *)
(* between any two of its steps.  GitHub keeps one run of a concurrency    *)
(* group going and at most one waiting: a newer run takes the place of the *)
(* one that waits.                                                         *)
(*                                                                         *)
(* Abstractions.  A version is its patch number.  Nothing else writes to   *)
(* the downstream repository, so that the lease of a mirror push always    *)
(* holds.  A maintainer pushes a tag only once main holds its commit:      *)
(* nothing enforces it, the script prints the two pushes in this order.    *)
(***************************************************************************)
EXTENDS Naturals, Sequences, FiniteSets

CONSTANTS
  Maintainers,
  MaxCommits,   (* bound: commits made *)
  MaxCrashes    (* bound: times the script dies *)

VARIABLES
  commits,      (* commits[i] : [parent, patch, pkg], pkg: it touches the package *)
  clone,        (* clone[m] : head, the lakefile's version, tags; the script's locals *)
  origin,       (* main, and tags: a function from versions to commits *)
  downstream,   (* the same of the mirror *)
  going, waiting,   (* workflow runs; None if there is none *)
  crashes

vars == <<commits, clone, origin, downstream, going, waiting, crashes>>

None == [kind |-> "none", tag |-> 0, commit |-> 0]
MainRun(c) == [kind |-> "main", tag |-> 0, commit |-> c]
TagRun(t, c) == [kind |-> "tag", tag |-> t, commit |-> c]

(* The commits c has behind it, c included.                                *)
Lineage(log, c) == LET h[d \in 0 .. Len(log)] ==
                         IF d = 0 THEN {} ELSE {d} \cup h[log[d].parent]
                   IN h[c]
History(c) == Lineage(commits, c)

Tagged(tags, t, c) == [u \in DOMAIN tags \cup {t} |-> IF u = t THEN c ELSE tags[u]]
Merge(tags, more) ==
  [u \in DOMAIN tags \cup DOMAIN more |-> IF u \in DOMAIN tags THEN tags[u] ELSE more[u]]

Patch(c) == commits[c].patch
Idle(m) == clone[m].pc = "idle"

(* `git status --porcelain` prints nothing.                                *)
Clean(m) == clone[m].lakefile = Patch(clone[m].head)

Die(m) == clone' = [clone EXCEPT ![m].pc = "idle"]
Goto(m, pc) == clone' = [clone EXCEPT ![m].pc = pc]
Rest == UNCHANGED <<origin, downstream, going, waiting, crashes>>

-----------------------------------------------------------------------------
(* bump_patch.py, step by step.                                            *)
Begin(m) ==
  /\ Idle(m)
  /\ Clean(m)
  /\ Len(commits) < MaxCommits
  /\ clone' = [clone EXCEPT ![m].pc = "fetch", ![m].next = clone[m].lakefile + 1]
  /\ UNCHANGED commits /\ Rest

(* `git fetch --tags`, which fails on a tag that differs, then the local   *)
(* guard.                                                                  *)
FetchTags(m) ==
  LET tags == Merge(clone[m].tags, origin.tags)
  IN /\ clone[m].pc = "fetch"
     /\ IF \E t \in DOMAIN clone[m].tags \cap DOMAIN origin.tags :
             clone[m].tags[t] # origin.tags[t]
        THEN Die(m)
        ELSE clone' = [clone EXCEPT ![m].tags = tags,
                         ![m].pc = IF clone[m].next \in DOMAIN tags THEN "idle" ELSE "lsremote"]
     /\ UNCHANGED commits /\ Rest

LsRemote(m) ==
  /\ clone[m].pc = "lsremote"
  /\ IF clone[m].next \in DOMAIN origin.tags THEN Die(m) ELSE Goto(m, "write")
  /\ UNCHANGED commits /\ Rest

WriteLakefile(m) ==
  /\ clone[m].pc = "write"
  /\ clone' = [clone EXCEPT ![m].pc = "commit", ![m].lakefile = clone[m].next]
  /\ UNCHANGED commits /\ Rest

Commit(m) ==
  /\ clone[m].pc = "commit"
  /\ Len(commits) < MaxCommits
  /\ commits' = Append(commits, [parent |-> clone[m].head, patch |-> clone[m].lakefile,
                                 pkg |-> TRUE])
  /\ clone' = [clone EXCEPT ![m].pc = "tag", ![m].head = Len(commits) + 1]
  /\ Rest

Tag(m) ==
  /\ clone[m].pc = "tag"
  /\ clone' = [clone EXCEPT ![m].pc = "idle",
                            ![m].tags = Tagged(@, clone[m].next, clone[m].head)]
  /\ UNCHANGED commits /\ Rest

(* The script dies (an interrupt, a git command that fails).               *)
Crash(m) ==
  /\ ~Idle(m)
  /\ crashes < MaxCrashes
  /\ crashes' = crashes + 1
  /\ Die(m)
  /\ UNCHANGED <<commits, origin, downstream, going, waiting>>

-----------------------------------------------------------------------------
(* The maintainers: other commits, pulls, resets and pushes.               *)
Work(m) ==
  /\ Idle(m) /\ Clean(m)
  /\ Len(commits) < MaxCommits
  /\ \E pkg \in BOOLEAN :
       commits' = Append(commits, [parent |-> clone[m].head, patch |-> clone[m].lakefile,
                                   pkg |-> pkg])
  /\ clone' = [clone EXCEPT ![m].head = Len(commits) + 1]
  /\ Rest

Pull(m) ==
  /\ Idle(m) /\ Clean(m)
  /\ clone[m].head \in History(origin.main) \ {origin.main}
  /\ clone' = [clone EXCEPT ![m].head = origin.main, ![m].lakefile = Patch(origin.main),
                            ![m].tags = Merge(@, origin.tags)]
  /\ UNCHANGED commits /\ Rest

(* After a rejected push or a crash: back to what origin has.              *)
Reset(m) ==
  /\ Idle(m)
  /\ \/ origin.main \notin History(clone[m].head)
     \/ ~Clean(m)
     \/ DOMAIN clone[m].tags # DOMAIN origin.tags
  /\ clone' = [clone EXCEPT ![m].head = origin.main, ![m].lakefile = Patch(origin.main),
                            ![m].tags = origin.tags]
  /\ UNCHANGED commits /\ Rest

(* on: push, and the concurrency group.                                    *)
Trigger(r) ==
  IF going = None THEN going' = r /\ UNCHANGED waiting ELSE waiting' = r /\ UNCHANGED going

(* A variant of PushMain: a forced push.                                   *)
PushMainForced(m) ==
  /\ Idle(m)
  /\ clone[m].head # origin.main
  /\ origin' = [origin EXCEPT !.main = clone[m].head]
  /\ Trigger(MainRun(clone[m].head))
  /\ UNCHANGED <<commits, clone, downstream, crashes>>

(* `git push origin main`: origin takes a fast-forward.                    *)
PushMain(m) ==
  /\ Idle(m)
  /\ clone[m].head # origin.main
  /\ origin.main \in History(clone[m].head)
  /\ origin' = [origin EXCEPT !.main = clone[m].head]
  /\ Trigger(MainRun(clone[m].head))
  /\ UNCHANGED <<commits, clone, downstream, crashes>>

PushTag(m) ==
  /\ Idle(m)
  /\ \E t \in DOMAIN clone[m].tags \ DOMAIN origin.tags :
       /\ clone[m].tags[t] \in History(origin.main)
       /\ origin' = [origin EXCEPT !.tags = Tagged(@, t, clone[m].tags[t])]
       /\ Trigger(TagRun(t, clone[m].tags[t]))
  /\ UNCHANGED <<commits, clone, downstream, crashes>>

-----------------------------------------------------------------------------
(* `git subtree split`: the last commit of the history to touch the        *)
(* package stands for the rewritten tip.                                   *)
Split(c) == LET touching == {d \in History(c) : commits[d].pkg}
            IN CHOOSE d \in touching : \A e \in touching : e <= d

(* A variant of Mirror: main is pushed whatever triggered the run.         *)
MirrorMainAlways ==
  /\ going # None
  /\ LET tip == Split(going.commit)
     IN downstream' = [main |-> tip,
                       tags |-> IF going.kind = "main" THEN downstream.tags
                                ELSE Tagged(downstream.tags, going.tag, tip)]
  /\ going' = waiting
  /\ waiting' = None
  /\ UNCHANGED <<commits, clone, origin, crashes>>

(* One run of the workflow on the commit that triggered it.                *)
Mirror ==
  /\ going # None
  /\ LET tip == Split(going.commit)
     IN downstream' = IF going.kind = "main" THEN [downstream EXCEPT !.main = tip]
                      ELSE [downstream EXCEPT !.tags = Tagged(@, going.tag, tip)]
  /\ going' = waiting
  /\ waiting' = None
  /\ UNCHANGED <<commits, clone, origin, crashes>>

(* The first commit is published and mirrored, at patch 0 and untagged.    *)
Init ==
  /\ commits = <<[parent |-> 0, patch |-> 0, pkg |-> TRUE]>>
  /\ clone = [m \in Maintainers |->
                [pc |-> "idle", head |-> 1, lakefile |-> 0, next |-> 0, tags |-> <<>>]]
  /\ origin = [main |-> 1, tags |-> <<>>]
  /\ downstream = [main |-> 1, tags |-> <<>>]
  /\ going = None /\ waiting = None
  /\ crashes = 0

Script(m) ==
  \/ Begin(m) \/ FetchTags(m) \/ LsRemote(m) \/ WriteLakefile(m) \/ Commit(m) \/ Tag(m)
  \/ Crash(m)

Next ==
  \/ \E m \in Maintainers : Script(m) \/ Work(m) \/ Pull(m) \/ Reset(m) \/ PushMain(m) \/ PushTag(m)
  \/ Mirror

Spec == Init /\ [][Next]_vars

-----------------------------------------------------------------------------
TypeOK ==
  /\ \A i \in DOMAIN commits : commits[i].parent \in 0 .. i - 1 /\ commits[i].patch \in Nat
  /\ \A m \in Maintainers :
       /\ clone[m].pc \in {"idle", "fetch", "lsremote", "write", "commit", "tag"}
       /\ clone[m].head \in DOMAIN commits
       /\ clone[m].lakefile \in Nat
  /\ origin.main \in DOMAIN commits
  /\ downstream.main \in DOMAIN commits
  /\ waiting # None => going # None
  /\ crashes \in 0 .. MaxCrashes

(* No commit raises the version by more than one patch, whatever the       *)
(* script left behind when it died.                                        *)
BumpsByOne ==
  \A i \in DOMAIN commits : commits[i].parent # 0 =>
    commits[i].patch - commits[commits[i].parent].patch \in {0, 1}

(* A published tag names the version of the commit it points at, that      *)
(* commit is on main, and it is the one that introduced the version.       *)
TagsNameReleases ==
  \A t \in DOMAIN origin.tags :
    LET c == origin.tags[t]
    IN /\ Patch(c) = t
       /\ Patch(commits[c].parent) = t - 1
       /\ c \in History(origin.main)

(* The mirror's tags point at the split of what the umbrella's point at.   *)
MirrorTagsAgree ==
  \A t \in DOMAIN downstream.tags :
    t \in DOMAIN origin.tags /\ downstream.tags[t] = Split(origin.tags[t])

(* Of a step: the mirror's main never goes back ("ordinary fast-forward    *)
(* pushes work across runs").                                              *)
MirrorForward == downstream.main \in Lineage(commits', downstream'.main)
=============================================================================

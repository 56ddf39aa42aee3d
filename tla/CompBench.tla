------------------------------ MODULE CompBench ------------------------------
(***************************************************************************)
(* scripts/comparative_benchmark.py: build the SizzLean harness, build     *)
(* libssz at the revision Cargo.toml pins, install ssz-specs in a venv     *)
(* named after its pin, emit the fixture, run the three harnesses, check   *)
(* the rows and write a report that names what was measured.               *)
(*                                                                         *)
(* Runs follow one another over what earlier ones left behind: binaries,   *)
(* venvs, a report.  Between any two steps the driver may be interrupted,  *)
(* and a developer may edit the sources or move a pin.  The driver holds   *)
(* the pins it was started with.                                           *)
(*                                                                         *)
(* Abstractions.  A revision is a number, a root is "ok" or "bad".         *)
(* Timings, the load average, the machine line and the prose are left out. *)
(***************************************************************************)
EXTENDS Integers, Sequences, FiniteSets, SequencesExt

CONSTANTS
  Revs,       (* revisions of each of the three libraries *)
  Reps,
  MaxFaults,  (* bound: commands that fail or harnesses that misbehave *)
  MaxEdits,   (* bound: edits of sources, commits and moved pins *)
  MaxRuns

VARIABLES
  disk,    (* tree, commit: SizzLean; lib, cargo: its pin twice; specs: a pin;
              lean, rust: what each binary was built from; venv[rev]: see below *)
  run,     (* the driver's locals *)
  rows,    (* the JSON lines read so far *)
  report,  (* the last report written *)
  faults, edits, runs

vars == <<disk, run, rows, report, faults, edits, runs>>

NoRev == 0
(* A venv is absent, or its interpreter exists and NoRev or a revision is  *)
(* installed in it.                                                        *)
Absent == -1

IMPLS == <<"sizzlean-fast", "sizzlean-pure", "libssz", "ssz-specs">>
SCENARIOS == <<"update1", "update1000">>
KEYS == {"root1", "root2"}

(* The revisions of the three libraries, as named or as measured.          *)
NoRevs == [lean |-> NoRev, lib |-> NoRev, specs |-> NoRev]
NoReport == [names |-> NoRevs, clean |-> TRUE, ran |-> NoRevs, built |-> FALSE,
             touched |-> FALSE, rows |-> <<>>, tables |-> {}, roots |-> <<>>]
(* ran and touched are history: the revisions whose code printed the rows, *)
(* and whether anything was edited under the run.                          *)
Idle == [pc |-> "idle", skip |-> FALSE, lib |-> NoRev, specs |-> NoRev, fixture |-> "",
         ran |-> NoRevs, touched |-> FALSE, draft |-> NoReport]

Step(from, to) == run.pc = from /\ run' = [run EXCEPT !.pc = to]

(* BenchmarkError: main prints it and returns 1.                           *)
Fail(from) == run.pc = from /\ run' = Idle
Faulty == faults < MaxFaults /\ faults' = faults + 1

-----------------------------------------------------------------------------
Start ==
  /\ run.pc = "idle"
  /\ runs < MaxRuns
  /\ runs' = runs + 1
  /\ \E skip \in BOOLEAN :
       run' = [Idle EXCEPT !.pc = IF skip THEN "reuse" ELSE "lean", !.skip = skip,
                           !.lib = disk.lib, !.specs = disk.specs]
  /\ rows' = <<>>
  /\ UNCHANGED <<disk, report, faults, edits>>

(* --skip-build: the venv and the Lean executable have to be there.        *)
Reuse ==
  /\ run.pc = "reuse"
  /\ IF disk.venv[run.specs] # Absent /\ disk.lean # NoRev
     THEN Step("reuse", "emit") ELSE Fail("reuse")
  /\ UNCHANGED <<disk, rows, report, faults, edits, runs>>

BuildSizzLean ==
  /\ \/ /\ Step("lean", "lib")
        /\ disk' = [disk EXCEPT !.lean = disk.tree]
        /\ UNCHANGED faults
     \/ Fail("lean") /\ Faulty /\ UNCHANGED disk
  /\ UNCHANGED <<rows, report, edits, runs>>

(* check_cargo_pin: every crate's rev is the driver's.                     *)
CargoPinAgrees == disk.cargo = {run.lib}

(* Once the pins agree, cargo builds what its own manifest pins.           *)
BuildLibssz ==
  /\ \/ /\ CargoPinAgrees
        /\ Step("lib", "venv")
        /\ \E r \in disk.cargo : disk' = [disk EXCEPT !.rust = r]
        /\ UNCHANGED faults
     \/ Fail("lib") /\ ~CargoPinAgrees /\ UNCHANGED <<disk, faults>>
     \/ Fail("lib") /\ Faulty /\ UNCHANGED disk
  /\ UNCHANGED <<rows, report, edits, runs>>

(* build_ssz_specs: reuse the venv whose commit reads back as the pin, or  *)
(* clear it.                                                               *)
ProbeVenv ==
  /\ run.pc = "venv"
  /\ \/ /\ disk.venv[run.specs] = run.specs
        /\ Step("venv", "emit")
        /\ UNCHANGED disk
     \/ /\ disk.venv[run.specs] # run.specs
        /\ Step("venv", "install")
        /\ disk' = [disk EXCEPT !.venv[run.specs] = NoRev]
  /\ UNCHANGED <<rows, report, faults, edits, runs>>

(* The install, which may fail or put another revision there; the commit   *)
(* is read back before anything is measured.                               *)
Install ==
  /\ \/ Step("install", "emit") /\ disk' = [disk EXCEPT !.venv[run.specs] = run.specs]
        /\ UNCHANGED faults
     \/ /\ Faulty
        /\ Fail("install")
        /\ \E r \in Revs \ {run.specs} : disk' = [disk EXCEPT !.venv[run.specs] = r]
     \/ Fail("install") /\ Faulty /\ UNCHANGED disk
  /\ UNCHANGED <<rows, report, edits, runs>>

(* emit_fixture: the root line on stderr is optional to the driver.        *)
EmitFixture ==
  /\ \/ /\ run.pc = "emit"
        /\ run' = [run EXCEPT !.pc = "sizzlean", !.fixture = "ok"]
        /\ UNCHANGED faults
     \/ /\ run.pc = "emit"
        /\ Faulty
        /\ \E root \in {"", "bad"} : run' = [run EXCEPT !.pc = "sizzlean", !.fixture = root]
     \/ Fail("emit") /\ Faulty
  /\ UNCHANGED <<disk, rows, report, edits, runs>>

-----------------------------------------------------------------------------
(* What a harness prints: Reps rows per implementation and scenario.       *)
Row(impl, scenario) == [impl |-> impl, scenario |-> scenario, root1 |-> "ok", root2 |-> "ok"]
Printed(impls) ==
  FlattenSeq([i \in 1 .. Len(impls) |->
    FlattenSeq([s \in 1 .. Len(SCENARIOS) |->
      [rep \in 1 .. Reps |-> Row(impls[i], SCENARIOS[s])]])])

(* ... and how it may misbehave with a zero exit code: say nothing, lose or *)
(* repeat a row, root one row wrongly, or every first root of a scenario.   *)
Misprinted(impls) ==
  LET p == Printed(impls)
  IN {<<>>} \cup {RemoveAt(p, i) : i \in DOMAIN p} \cup {Append(p, p[i]) : i \in DOMAIN p}
     \cup {[p EXCEPT ![i][key] = "bad"] : i \in DOMAIN p, key \in KEYS}
     \cup {[i \in DOMAIN p |-> IF p[i].scenario = s THEN [p[i] EXCEPT !.root1 = "bad"] ELSE p[i]] :
             s \in Range(SCENARIOS)}

(* One harness: a missing binary, a non-zero exit or a malformed line ends *)
(* the run.                                                                *)
RunHarness(from, to, lib, impls, rev) ==
  /\ run.pc = from
  /\ IF rev \in {NoRev, Absent}
     THEN run' = Idle /\ UNCHANGED <<rows, faults>>
     ELSE \/ /\ run' = [run EXCEPT !.pc = to, !.ran[lib] = rev]
             /\ \/ rows' = rows \o Printed(impls) /\ UNCHANGED faults
                \/ Faulty /\ \E p \in Misprinted(impls) : rows' = rows \o p
          \/ run' = Idle /\ Faulty /\ UNCHANGED rows
  /\ UNCHANGED <<disk, report, edits, runs>>

RunSizzLean == RunHarness("sizzlean", "libssz", "lean", SubSeq(IMPLS, 1, 2), disk.lean)
RunLibssz == RunHarness("libssz", "ssz-specs", "lib", <<"libssz">>, disk.rust)
RunSszSpecs == RunHarness("ssz-specs", "check", "specs", <<"ssz-specs">>, disk.venv[run.specs])

-----------------------------------------------------------------------------
Of(impl, scenario) == SelectSeq(rows, LAMBDA r : r.impl = impl /\ r.scenario = scenario)

(* A variant of Complete: a group with no row at all is not counted.       *)
CompleteOfSeen ==
  \A impl \in Range(IMPLS), s \in Range(SCENARIOS) : Len(Of(impl, s)) \in {0, Reps}
(* check_complete                                                          *)
Complete ==
  \A impl \in Range(IMPLS), s \in Range(SCENARIOS) : Len(Of(impl, s)) = Reps

(* The roots every row reports at a point.                                 *)
Distinct(s, key) == {r[key] : r \in {q \in Range(rows) : q.scenario = s}}

(* check_roots: one root per point, one first root for both scenarios, and *)
(* the emitted one if the driver knows it.                                 *)
RootsAgree ==
  /\ \A s \in Range(SCENARIOS), key \in KEYS : Cardinality(Distinct(s, key)) = 1
  /\ Distinct("update1", "root1") = Distinct("update1000", "root1")
  /\ run.fixture # "" => Distinct("update1", "root1") = {run.fixture}

Check ==
  /\ run.pc = "check"
  /\ IF Complete /\ RootsAgree THEN Step("check", "render") ELSE Fail("check")
  /\ UNCHANGED <<disk, rows, report, faults, edits, runs>>

(* averages and the tables: a group without samples has no row.            *)
Tables == {row \in Range(IMPLS) \X Range(SCENARIOS) : Of(row[1], row[2]) # <<>>}

(* checkout_description: `git status` prints nothing under packages/ and   *)
(* scripts/.                                                               *)
CleanCheckout == disk.tree = disk.commit

(* render: the SizzLean revision is read from git now, with a note when    *)
(* the tree has changes; the others are the pins the driver started with.  *)
Render ==
  /\ run.pc = "render"
  /\ run' = [run EXCEPT !.pc = "write", !.draft =
       [names |-> [lean |-> disk.commit, lib |-> run.lib, specs |-> run.specs],
        clean |-> CleanCheckout,
        ran |-> run.ran, built |-> ~run.skip, touched |-> run.touched, rows |-> rows,
        tables |-> Tables,
        roots |-> [p \in Range(SCENARIOS) \X KEYS |-> Distinct(p[1], p[2])]]]
  /\ UNCHANGED <<disk, rows, report, faults, edits, runs>>

WriteReport ==
  /\ run.pc = "write"
  /\ report' = run.draft
  /\ run' = Idle
  /\ UNCHANGED <<disk, rows, faults, edits, runs>>

-----------------------------------------------------------------------------
(* The user interrupts the driver.                                         *)
Interrupt ==
  /\ run.pc # "idle"
  /\ Faulty
  /\ run' = Idle
  /\ UNCHANGED <<disk, rows, report, edits, runs>>

(* A developer edits SizzLean, commits, or moves a pin, in one place or in *)
(* one of the lines of Cargo.toml.  History: whether that was under a run. *)
Edit ==
  /\ edits < MaxEdits
  /\ edits' = edits + 1
  /\ \/ \E r \in Revs \ {disk.tree} : disk' = [disk EXCEPT !.tree = r]
     \/ disk.tree # disk.commit /\ disk' = [disk EXCEPT !.commit = disk.tree]
     \/ \E r \in Revs \ {disk.lib} : disk' = [disk EXCEPT !.lib = r]
     \/ \E c \in (SUBSET Revs) \ {{}, disk.cargo} : disk' = [disk EXCEPT !.cargo = c]
     \/ \E r \in Revs \ {disk.specs} : disk' = [disk EXCEPT !.specs = r]
  /\ run' = IF run.pc = "idle" THEN run ELSE [run EXCEPT !.touched = TRUE]
  /\ UNCHANGED <<rows, report, faults, runs>>

(* A fresh clone: nothing is built, the pins agree.                        *)
Init ==
  /\ \E r \in Revs :
       disk = [tree |-> r, commit |-> r, lib |-> r, cargo |-> {r}, specs |-> r,
               lean |-> NoRev, rust |-> NoRev, venv |-> [s \in Revs |-> Absent]]
  /\ run = Idle
  /\ rows = <<>>
  /\ report = NoReport
  /\ faults = 0 /\ edits = 0 /\ runs = 0

Next ==
  \/ Start \/ Reuse \/ BuildSizzLean \/ BuildLibssz \/ ProbeVenv \/ Install
  \/ EmitFixture \/ RunSizzLean \/ RunLibssz \/ RunSszSpecs
  \/ Check \/ Render \/ WriteReport \/ Interrupt \/ Edit

Spec == Init /\ [][Next]_vars

-----------------------------------------------------------------------------
Reported == report # NoReport

(* The control (:31-33): a report is written only when every harness       *)
(* reported every repetition and all rows agree on the roots.              *)
ReportedRowsAgree ==
  Reported =>
    /\ \A s \in Range(SCENARIOS), key \in KEYS :
         Cardinality({r[key] : r \in {q \in Range(report.rows) : q.scenario = s}}) = 1
    /\ Cardinality({r.root1 : r \in Range(report.rows)}) = 1

(* No implementation vanishes from a table, and none is averaged over more *)
(* or fewer repetitions than the report says.                              *)
TablesFull ==
  Reported =>
    /\ report.tables = Range(IMPLS) \X Range(SCENARIOS)
    /\ \A t \in report.tables :
         Cardinality({i \in DOMAIN report.rows : /\ report.rows[i].impl = t[1]
                                                 /\ report.rows[i].scenario = t[2]}) = Reps

(* A run that built everything, with nothing edited meanwhile, reports the *)
(* revisions it measured; SizzLean's exactly when the report says the tree *)
(* has no changes.                                                         *)
BuiltNamesMeasured ==
  Reported /\ report.built /\ ~report.touched =>
    /\ report.ran.lib = report.names.lib
    /\ report.ran.specs = report.names.specs
    /\ report.ran.lean = report.names.lean <=> report.clean

(* A report that says the tree has no changes names the SizzLean revision  *)
(* measured ("A report that names a revision it did not measure is worse   *)
(* than one that names none", checkout_description).                       *)
SizzLeanNamed == Reported /\ report.clean => report.ran.lean = report.names.lean
=============================================================================

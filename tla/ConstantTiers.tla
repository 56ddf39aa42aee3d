---------------------------- MODULE ConstantTiers ----------------------------
(***************************************************************************)
(* scripts/check_constant_tiers.py: the tier and the owning fork of every  *)
(* spec constant are checked against constant_tiers.json, which --refresh  *)
(* builds from the documents of the pinned release.  A download may fail   *)
(* (fetch answers None), the pin may move, and developers move             *)
(* declarations, between any two steps.                                    *)
(*                                                                         *)
(* Abstractions.  A document is the sequence of its lines as the regular   *)
(* expressions tell them apart; names are the same upstream and in Lean    *)
(* (snake and the Gwei twins only respell them).                           *)
(***************************************************************************)
EXTENDS Naturals, Sequences, SequencesExt

CONSTANTS
  Tags,         (* releases of the specs *)
  Documents,    (* Documents[tag] : what refresh fetches, in its order *)
  Forks,        (* FORKS, in order *)
  Accumulated,  (* the forks our Fulu carries *)
  Names,
  Ours0,        (* Ours0[n] : [fork, tier] the constant is declared with at first *)
  Untabled,     (* names upstream defines in no table *)
  MaxFailures,  (* bound: fetches that fail *)
  MaxMoves      (* bound: re-pins and moved declarations *)

VARIABLES
  pinned,    (* PINNED_VERSION *)
  ours,      (* ours[n] : the declaration of n in Constants.lean *)
  truth,     (* constant_tiers.json: a function on some of the names *)
  pc, fetched, scan,  (* refresh: where it is, documents done, names so far *)
  status,    (* what the last check said: none, match, drift *)
  basis,     (* history: the tag truth was built from, and whether whole *)
  whole,     (* history: no fetch of the refresh under way failed *)
  failures, moves

vars == <<pinned, ours, truth, pc, fetched, scan, status, basis, whole, failures, moves>>

ForkSet == Range(Forks)
TierOf(title) ==
  CASE title \in {"constant", "constants"} -> "flat"
    [] title \in {"preset", "presets"} -> "Preset"
    [] title \in {"configuration", "configs"} -> "Config"
    [] OTHER -> "none"
Tiers == {"flat", "Preset", "Config"}

Entry(fork, tier, source) == [fork |-> fork, tier |-> tier, source |-> source]

(* `out.setdefault(name, entry)`                                           *)
SetDefault(out, n, e) == IF n \in DOMAIN out THEN out
                         ELSE [m \in DOMAIN out \cup {n} |-> IF m = n THEN e ELSE out[m]]

-----------------------------------------------------------------------------
(* The scanners.  A line is [kind |-> "heading", level, title],            *)
(* [kind |-> "row", name], or, in a YAML file, [kind |-> "key", name],     *)
(* [kind |-> "comment", fork] and [kind |-> "divider"].                    *)

(* A variant of MarkdownLine: a sibling heading does not end the section.  *)
MarkdownNoEnd(doc, s, line) ==
  IF line.kind = "heading"
  THEN IF TierOf(line.title) # "none"
       THEN [s EXCEPT !.tier = TierOf(line.title), !.depth = line.level]
       ELSE IF s.tier # "none" /\ line.level < s.depth THEN [s EXCEPT !.tier = "none"] ELSE s
  ELSE IF s.tier = "none" THEN s
  ELSE [s EXCEPT !.out = SetDefault(@, line.name, Entry(doc.fork, s.tier, "table"))]

(* scan_markdown: a row under a tier heading, at any depth.                *)
MarkdownLine(doc, s, line) ==
  IF line.kind = "heading"
  THEN IF TierOf(line.title) # "none"
       THEN [s EXCEPT !.tier = TierOf(line.title), !.depth = line.level]
       ELSE IF s.tier # "none" /\ line.level <= s.depth THEN [s EXCEPT !.tier = "none"] ELSE s
  ELSE IF s.tier = "none" THEN s
  ELSE [s EXCEPT !.out = SetDefault(@, line.name, Entry(doc.fork, s.tier, "table"))]

(* The config YAML: the fork a comment names reaches to the next divider.  *)
ConfigLine(s, line) ==
  CASE line.kind = "comment" -> IF line.fork \in ForkSet THEN [s EXCEPT !.fork = line.fork] ELSE s
    [] line.kind = "divider" -> [s EXCEPT !.fork = "?"]
    [] OTHER -> [s EXCEPT !.out = SetDefault(@, line.name, Entry(s.fork, "Config", "config"))]

PresetLine(doc, s, line) ==
  [s EXCEPT !.out = SetDefault(@, line.name, Entry(doc.fork, "Preset", "preset"))]

ScanDocument(doc, out) ==
  LET start == [tier |-> "none", depth |-> 0, fork |-> "?", out |-> out]
      step(s, line) == CASE doc.kind = "markdown" -> MarkdownLine(doc, s, line)
                         [] doc.kind = "preset" -> PresetLine(doc, s, line)
                         [] OTHER -> ConfigLine(s, line)
  IN FoldLeft(step, start, doc.lines).out

-----------------------------------------------------------------------------
StartRefresh ==
  /\ pc = "idle"
  /\ pc' = "fetch"
  /\ fetched' = 0
  /\ scan' = <<>>
  /\ whole' = TRUE
  /\ status' = "none"
  /\ UNCHANGED <<pinned, ours, truth, basis, failures, moves>>

Docs == Documents[pinned]

(* One document: scanned, or skipped when fetch answered None.             *)
Fetch ==
  /\ pc = "fetch"
  /\ fetched < Len(Docs)
  /\ fetched' = fetched + 1
  /\ \/ /\ scan' = ScanDocument(Docs[fetched + 1], scan)
        /\ UNCHANGED <<whole, failures>>
     \/ /\ failures < MaxFailures
        /\ failures' = failures + 1
        /\ whole' = FALSE
        /\ UNCHANGED scan
  /\ UNCHANGED <<pinned, ours, truth, pc, status, basis, moves>>

(* GROUND_TRUTH.write_text; main goes on to the check.                     *)
WriteTruth ==
  /\ pc = "fetch"
  /\ fetched = Len(Docs)
  /\ pc' = "check"
  /\ truth' = scan
  /\ basis' = [tag |-> pinned, whole |-> whole]
  /\ UNCHANGED <<pinned, ours, fetched, scan, status, whole, failures, moves>>

OwningFork(upFork) == IF upFork \in Accumulated THEN "fulu" ELSE upFork

(* What the check holds against the declaration of n.                      *)
Drifts(n) ==
  /\ n \notin Untabled
  /\ \/ n \notin DOMAIN truth
     \/ truth[n].tier # ours[n].tier
     \/ truth[n].fork # "?" /\ OwningFork(truth[n].fork) # ours[n].fork

Check ==
  /\ pc \in {"idle", "check"}
  /\ pc' = "idle"
  /\ status' = IF \E n \in Names : Drifts(n) THEN "drift" ELSE "match"
  /\ UNCHANGED <<pinned, ours, truth, fetched, scan, basis, whole, failures, moves>>

(* Developers move the pin, or a declaration.                              *)
Repin ==
  /\ pc = "idle"
  /\ moves < MaxMoves
  /\ moves' = moves + 1
  /\ pinned' \in Tags \ {pinned}
  /\ status' = "none"
  /\ UNCHANGED <<ours, truth, pc, fetched, scan, basis, whole, failures>>

MoveDeclaration ==
  /\ pc = "idle"
  /\ moves < MaxMoves
  /\ moves' = moves + 1
  /\ \E n \in Names, f \in {OwningFork(g) : g \in ForkSet}, t \in Tiers :
       ours' = [ours EXCEPT ![n] = [fork |-> f, tier |-> t]]
  /\ status' = "none"
  /\ UNCHANGED <<pinned, truth, pc, fetched, scan, basis, whole, failures>>

(* The repository ships the ground truth of its pin.                       *)
Init ==
  /\ pinned \in Tags
  /\ ours = Ours0
  /\ truth = FoldLeft(LAMBDA out, doc : ScanDocument(doc, out), <<>>, Documents[pinned])
  /\ pc = "idle"
  /\ fetched = 0
  /\ scan = <<>>
  /\ status = "none"
  /\ basis = [tag |-> pinned, whole |-> TRUE]
  /\ whole = TRUE
  /\ failures = 0 /\ moves = 0

Next == StartRefresh \/ Fetch \/ WriteTruth \/ Check \/ Repin \/ MoveDeclaration

Spec == Init /\ [][Next]_vars

-----------------------------------------------------------------------------
(* Upstream's own statement of a constant: the tier of its section and the *)
(* first fork to list it, in a table if any table lists it.                *)
Section(doc, i) ==
  LET heads == {h \in 1 .. i - 1 : /\ doc.lines[h].kind = "heading"
                                   /\ \A k \in h + 1 .. i - 1 :
                                        doc.lines[k].kind = "heading" =>
                                          doc.lines[k].level > doc.lines[h].level}
      tiers == {TierOf(doc.lines[h].title) : h \in heads} \ {"none"}
  IN IF tiers = {} THEN "none" ELSE CHOOSE t \in tiers : TRUE

Lists(doc, n) == \E i \in DOMAIN doc.lines :
  /\ doc.lines[i].kind \in {"row", "key"} /\ doc.lines[i].name = n
  /\ doc.kind = "markdown" => Section(doc, i) # "none"

Position(fork) == CHOOSE i \in DOMAIN Forks : Forks[i] = fork

Introducing(tag, n) ==
  LET tables == {d \in Range(Documents[tag]) : d.kind = "markdown" /\ Lists(d, n)}
  IN CHOOSE d \in tables : \A e \in tables : Position(d.fork) <= Position(e.fork)

(* The declaration of n is where the tables of the pinned release put it.  *)
InTable(tag, n) == \E d \in Range(Documents[tag]) : d.kind = "markdown" /\ Lists(d, n)
Matches(n) ==
  InTable(pinned, n) =>
    LET d == Introducing(pinned, n)
    IN /\ ours[n].fork = OwningFork(d.fork)
       /\ \E i \in DOMAIN d.lines : /\ d.lines[i].kind = "row" /\ d.lines[i].name = n
                                    /\ Section(d, i) = ours[n].tier

TypeOK ==
  /\ pinned \in Tags
  /\ \A n \in Names : ours[n].tier \in Tiers
  /\ \A n \in DOMAIN truth : truth[n].tier \in Tiers /\ truth[n].fork \in ForkSet \cup {"?"}
  /\ pc \in {"idle", "fetch", "check"}
  /\ fetched \in 0 .. Len(Docs)
  /\ status \in {"none", "match", "drift"}

(* A check that reports a match means it: every constant a table lists is  *)
(* declared in the tier and by the fork of the pinned specs (the summary,  *)
(* :252: "every constant's tier and owning fork match the pinned specs").  *)
MatchMeansMatch == status = "match" => \A n \in Names \ Untabled : Matches(n)

(* The same, for a ground truth built from the pinned tag without a failed *)
(* download.                                                               *)
Sound == basis = [tag |-> pinned, whole |-> TRUE]
SoundMatchMeansMatch == Sound => MatchMeansMatch

(* Attribution from a table wins over attribution from a YAML (:38).       *)
TableWins ==
  basis.whole => \A n \in DOMAIN truth : InTable(basis.tag, n) => truth[n].source = "table"

(* The ground truth lists every name a whole refresh saw.                  *)
TruthComplete ==
  basis.whole => \A d \in Range(Documents[basis.tag]) :
                   \A n \in Names : Lists(d, n) => n \in DOMAIN truth
=============================================================================

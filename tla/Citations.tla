------------------------------ MODULE Citations ------------------------------
(***************************************************************************)
(* scripts/check_citations.py: ledgers and proof docstrings cite spec      *)
(* declarations as `File.lean:start-end`; the script reports the citations *)
(* a change of the cited file made stale, and with --fix rewrites them in  *)
(* place.  Between two runs of it, developers insert and delete lines of   *)
(* the cited file.                                                         *)
(*                                                                         *)
(* Abstractions.  A line of the cited file is what the regular expressions *)
(* tell apart: the declaration of a name, another line with a declaration  *)
(* keyword, one that opens a comment or an attribute, text, or blank.  A   *)
(* citing line is the sequence of its citations; the name a citation is    *)
(* about is the identifier before it (collect_from_ledger,                 *)
(* collect_from_proofs) or NoName.                                         *)
(***************************************************************************)
EXTENDS Naturals, Sequences, FiniteSets, SequencesExt

CONSTANTS
  Names,       (* names of declarations *)
  NoName,      (* a citation with no identifier before it *)
  File0,       (* the cited file at first, see Line *)
  Cites0,      (* the citations at first: [line, name, start, end] *)
  MaxEdits,    (* bound: insertions and deletions *)
  MaxLines     (* bound: lines of the cited file *)

VARIABLES
  file,      (* the lines of the cited file *)
  cites,     (* the citations, in the order of the scan *)
  status,    (* what the last run came to: none, clean, stale, fixed, unresolved *)
  edits

vars == <<file, cites, status, edits>>

Keyword == "keyword"
Comment == "comment"
Text == "text"
Blank == "blank"
Line == Names \cup {Keyword, Comment, Text, Blank}

(* A citation with no end has the end 0.                                   *)
Citation == [line : Nat, name : Names \cup {NoName}, start : Nat \ {0}, end : Nat]

TypeOK ==
  /\ file \in Seq(Line) /\ Len(file) <= MaxLines
  /\ cites \in Seq(Citation)
  /\ status \in {"none", "clean", "stale", "fixed", "unresolved"}
  /\ edits \in 0 .. MaxEdits

(* DECL_LINE and is_boundary                                               *)
IsDecl(i) == file[i] \in Names \cup {Keyword}
IsBoundary(i) == IsDecl(i) \/ file[i] = Comment

(* The last non-blank line before the next construct.                      *)
SpanFrom(i0) ==
  LET after == {i \in i0 + 1 .. Len(file) : IsBoundary(i)}
      last == IF after = {} THEN Len(file)
              ELSE (CHOOSE i \in after : \A j \in after : i <= j) - 1
      solid == {i \in i0 .. last : i = i0 \/ file[i] # Blank}
  IN CHOOSE i \in solid : \A j \in solid : j <= i

NoSpan == <<>>

(* actual_span: the declaration opening at the cited line, or, when that   *)
(* is not the one named, the first that is.                                *)
ActualSpan(c) ==
  LET hits == {i \in DOMAIN file : file[i] = c.name}
      first == CHOOSE i \in hits : \A j \in hits : i <= j
  IN IF c.start \notin DOMAIN file THEN NoSpan
     ELSE IF c.name = NoName
     THEN IF IsDecl(c.start) THEN <<c.start, SpanFrom(c.start)>> ELSE NoSpan
     ELSE IF file[c.start] = c.name THEN <<c.start, SpanFrom(c.start)>>
     ELSE IF hits = {} THEN NoSpan ELSE <<first, SpanFrom(first)>>

Unresolved(c) == ActualSpan(c) = NoSpan
Stale(c) ==
  /\ ~ Unresolved(c)
  /\ \/ ActualSpan(c)[1] # c.start
     \/ c.end # 0 /\ ActualSpan(c)[2] # c.end

SameText(c, d) == c.start = d.start /\ c.end = d.end
Replacement(c) ==
  [start |-> ActualSpan(c)[1], end |-> IF c.end = 0 THEN 0 ELSE ActualSpan(c)[2]]

(* A variant of Rewrite: only the start is written. *)
RewriteStart(now, c) ==
  LET alike == {i \in DOMAIN now : now[i].line = c.line /\ SameText(now[i], c)}
      i == CHOOSE i \in alike : \A j \in alike : i <= j
  IN IF alike = {} THEN now ELSE [now EXCEPT ![i].start = Replacement(c).start]

(* `lines[idx].replace(c.text, new, 1)`: the first citation of the line    *)
(* that reads like c now, be it c or another.                              *)
Rewrite(now, c) ==
  LET alike == {i \in DOMAIN now : now[i].line = c.line /\ SameText(now[i], c)}
      i == CHOOSE i \in alike : \A j \in alike : i <= j
  IN IF alike = {} THEN now
     ELSE [now EXCEPT ![i].start = Replacement(c).start, ![i].end = Replacement(c).end]

-----------------------------------------------------------------------------
Check ==
  /\ status' = IF \E i \in DOMAIN cites : Unresolved(cites[i]) THEN "unresolved"
               ELSE IF \E i \in DOMAIN cites : Stale(cites[i]) THEN "stale" ELSE "clean"
  /\ UNCHANGED <<file, cites, edits>>

(* A variant of Fix: an end is written where there was none. *)
FixInFull ==
  /\ \E i \in DOMAIN cites : Stale(cites[i])
  /\ cites' = [i \in DOMAIN cites |->
                 IF Stale(cites[i])
                 THEN [cites[i] EXCEPT !.end = ActualSpan(cites[i])[2]] ELSE cites[i]]
  /\ status' = "fixed"
  /\ UNCHANGED <<file, edits>>

(* --fix, with something stale; it reports success unless a citation is    *)
(* unresolved.                                                             *)
Fix ==
  /\ \E i \in DOMAIN cites : Stale(cites[i])
  /\ cites' = FoldLeft(Rewrite, cites, SelectSeq(cites, Stale))
  /\ status' = IF \E i \in DOMAIN cites : Unresolved(cites[i]) THEN "unresolved" ELSE "fixed"
  /\ UNCHANGED <<file, edits>>

(* A declaration is declared once in its file.                             *)
Insert ==
  /\ edits < MaxEdits
  /\ Len(file) < MaxLines
  /\ edits' = edits + 1
  /\ \E i \in 1 .. Len(file) + 1, l \in Line :
       /\ l \in Names => l \notin Range(file)
       /\ file' = InsertAt(file, i, l)
  /\ status' = "none"
  /\ UNCHANGED cites

Delete ==
  /\ edits < MaxEdits
  /\ edits' = edits + 1
  /\ \E i \in DOMAIN file : file' = RemoveAt(file, i)
  /\ status' = "none"
  /\ UNCHANGED cites

Init ==
  /\ file = File0
  /\ cites = Cites0
  /\ status = "none"
  /\ edits = 0

Next == Check \/ Fix \/ Insert \/ Delete

Spec == Init /\ [][Next]_vars

-----------------------------------------------------------------------------
(* A --fix that reports success leaves no citation stale (main, :252:      *)
(* "rewrite stale spans in place"; :303-304: "Re-run with --fix to rewrite *)
(* the stale spans").                                                      *)
FixRepairs ==
  status = "fixed" => \A i \in DOMAIN cites : ~ Stale(cites[i]) /\ ~ Unresolved(cites[i])

(* A clean check means what the reader takes it to mean: every citation    *)
(* starts at the declaration it names and ends with its last line, and     *)
(* nothing but that declaration is between.                                *)
CleanMeansExact ==
  status = "clean" =>
    \A i \in DOMAIN cites :
      LET c == cites[i]
      IN /\ c.name # NoName => file[c.start] = c.name
         /\ c.end # 0 => /\ \A k \in c.start + 1 .. c.end : ~ IsBoundary(k)
                         /\ c.end # c.start => file[c.end] # Blank
                         /\ \A k \in c.end + 1 .. Len(file) :
                              file[k] = Text =>
                                \E b \in c.end + 1 .. k : IsBoundary(b)

(* Of a step: --fix never touches a citation that was right, and never changes which  *)
(* citations carry an end.                                                 *)
FixKeepsAccurate ==
  \A i \in DOMAIN cites :
    /\ ~ Stale(cites[i]) => cites'[i] = cites[i]
    /\ (cites'[i].end = 0) = (cites[i].end = 0)
=============================================================================

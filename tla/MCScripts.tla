------------------------------ MODULE MCScripts ------------------------------
(***************************************************************************)
(* Scripts for TLC: two maintainers who release, with one crash.           *)
(***************************************************************************)
EXTENDS Scripts, TLC

CONSTANTS A, B

(* Two declarations, each cited on a line of its own, with a start-only    *)
(* citation and one that names nothing.                                    *)
MCFile == <<A, "text", B, "text", "blank">>
MCCites == <<[line |-> 1, name |-> A, start |-> 1, end |-> 2],
             [line |-> 2, name |-> B, start |-> 3, end |-> 4],
             [line |-> 3, name |-> B, start |-> 3, end |-> 0],
             [line |-> 4, name |-> NoName, start |-> 1, end |-> 2]>>

(* The documents of two releases.  CAP is a preset value Gloas takes over  *)
(* in v2; GRAPH is a constant of both forks, PTC of Gloas; SLOT is in the  *)
(* config YAML, and in a table of v2.                                      *)
Heading(level, title) == [kind |-> "heading", level |-> level, title |-> title]
Row(n) == [kind |-> "row", name |-> n]
Key(n) == [kind |-> "key", name |-> n]
Comment(f) == [kind |-> "comment", fork |-> f]
Divider == [kind |-> "divider"]
Doc(kind, fork, lines) == [kind |-> kind, fork |-> fork, lines |-> lines]

MCDocuments == [tag \in {"v1", "v2"} |-> <<
  Doc("markdown", "fulu",
      <<Heading(2, "presets")>> \o (IF tag = "v1" THEN <<Row("CAP")>> ELSE <<>>)
        \o <<Heading(2, "helpers"), Row("SLOT"), Heading(2, "constants"), Heading(3, "misc"),
             Row("GRAPH")>>),
  Doc("markdown", "gloas",
      <<Heading(3, "constant"), Row("GRAPH"), Row("PTC")>>
        \o (IF tag = "v1" THEN <<>> ELSE <<Heading(2, "configs"), Row("CAP"), Row("SLOT")>>)),
  Doc("preset", "fulu", <<Key("CAP")>>),
  Doc("config", "?", <<Comment("fulu"), Divider, Comment("time"), Key("SLOT"),
                       Comment("gloas"), Key("GRAPH")>>) >>]

MCOurs == "CAP" :> [fork |-> "fulu", tier |-> "Preset"]
       @@ "GRAPH" :> [fork |-> "fulu", tier |-> "flat"]
       @@ "PTC" :> [fork |-> "gloas", tier |-> "flat"]
       @@ "SLOT" :> [fork |-> "fulu", tier |-> "Config"]
=============================================================================

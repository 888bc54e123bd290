---------------------------- MODULE MCQualityGate ----------------------------
(* One file whose versions vary freely, in turn of every kind of path, beside*)
(* a file with legacy debt that is untouched or edited without effect.      *)
EXTENDS QualityGate

MCPaths == {"legacy", "plain", "my file", "x_test", "testdata", "vendor", "out"}
MCMetrics == {"returns of init"}
MCMinor == [m \in MCMetrics |-> 1]
MCMajor == [m \in MCMetrics |-> 2]

File(kind, text, values) ==
  [kind |-> kind, text |-> text, values |-> [m \in MCMetrics |-> values]]
Absent == File("absent", 0, <<>>)
Source(values) == File("source", 0, values)
Debt == Source(<<4>>)

\* Versions: no file, one that does not parse, no function of the name, one
\* of every severity and a worse one, and two functions of the name.
Versions ==
  {Absent, File("broken", 0, <<>>), Source(<<>>)}
    \cup {Source(<<n>>) : n \in 1..4} \cup {Source(<<4, 1>>), Source(<<3, 4>>)}
\* The same metrics after an edit.
Edited(c) == IF c = Absent THEN c ELSE [c EXCEPT !.text = 1]

\* A repository where one file has these versions and the others none, but
\* for the legacy file, which at most the working tree edits.
Tree(p, c, legacy) ==
  [q \in MCPaths |-> IF q = p THEN c ELSE IF q = "legacy" THEN legacy ELSE Absent]
RepoOf(p, base, head, work, index, legacy) ==
  [base |-> Tree(p, base, Debt), head |-> Tree(p, head, Debt),
   work |-> Tree(p, work, legacy),
   index |-> [q \in MCPaths |-> IF q = p THEN index ELSE "clean"]]

Indexed == {"clean", "staged", "removed"}
Legacy == {Debt, Edited(Debt)}
MCRepos ==
  {RepoOf("plain", b, h, w, i, l) :
     b \in Versions, h \in Versions, w \in Versions, i \in Indexed, l \in Legacy}
  \cup {RepoOf("plain", b, Edited(b), w, i, l) :
          b \in Versions, w \in Versions, i \in Indexed, l \in Legacy}
  \cup {RepoOf(p, b, h, w, i, l) :
          p \in MCPaths \ {"plain"}, b \in {Absent, Debt},
          h \in {Absent, Debt, Source(<<3>>)}, w \in {Debt, Source(<<5>>)},
          i \in Indexed, l \in Legacy}

Unset == [config |-> "unset", flag |-> "unset", compare |-> TRUE]
MCRequests ==
  {Unset, [Unset EXCEPT !.compare = FALSE], [Unset EXCEPT !.config = "minor"],
   [Unset EXCEPT !.flag = "minor", !.compare = FALSE],
   [Unset EXCEPT !.config = "minor", !.flag = "major"],
   [Unset EXCEPT !.flag = "never"], [Unset EXCEPT !.config = "bad"],
   [Unset EXCEPT !.flag = "bad", !.compare = FALSE]}
=============================================================================

----------------------------- MODULE QualityGate -----------------------------
(***************************************************************************)
(* One run of the quality gate (tools/quality): what it measures, what it  *)
(* compares with the merge-base, and how it exits.  The steps are those of *)
(* run: configuration, the git commands that list the changed files, the   *)
(* analysis, the base versions, the report.  Each call to git or to the    *)
(* file system may fail.                                                   *)
(*                                                                         *)
(* A repository is three trees (merge-base, HEAD, working tree) and an     *)
(* index.  What a file measures is, per metric (a rule and a function),    *)
(* the sequence of values in declaration order: more than one when several *)
(* functions have the name, as init functions do.  The trees do not change *)
(* during a run.                                                           *)
(***************************************************************************)
EXTENDS Naturals, Sequences

CONSTANTS
  Paths,     \* the .go files of the trees
  Tests,     \* named *_test.go
  Testdata,  \* below a testdata directory
  Skipped,   \* below vendor, .git or node_modules
  Spaced,    \* with a space in the path
  Scope,     \* below the paths to scan
  Metrics,   \* what MetricKey names within a file
  Minor,     \* Minor[m], Major[m]: the thresholds of a metric
  Major,
  Repos,     \* the repositories the gate may find
  Requests   \* [config, flag, compare]: .quality.yaml, --fail-on, --base

\* How fail_on or the flag reads; "unset" if absent, "bad" if it is an error
\* (for the file also any other invalid content).
Settings == {"unset", "major", "minor", "never", "bad"}

\* A version of a file: its text, and its metrics if it parses.
Content == [kind : {"absent", "broken", "source"},
            text : Nat,
            values : [Metrics -> Seq(Nat)]]

\* How the index differs from HEAD: "staged" is other content than HEAD's.
Repo == [base : [Paths -> Content], head : [Paths -> Content],
         work : [Paths -> Content],
         index : [Paths -> {"clean", "staged", "removed"}]]

ASSUME InputsAreTyped ==
  /\ Tests \cup Testdata \cup Skipped \cup Spaced \cup Scope \subseteq Paths
  /\ Minor \in [Metrics -> Nat] /\ Major \in [Metrics -> Nat]
  /\ Repos \subseteq Repo
  /\ Requests \subseteq
       [config : Settings, flag : Settings, compare : BOOLEAN]

\* Only a file that parses measures anything.
ASSUME OnlySourceMeasures ==
  \A r \in Repos, p \in Paths, m \in Metrics :
    \A c \in {r.base[p], r.head[p], r.work[p]} :
      c.kind # "source" => c.values[m] = <<>>

\* config.validate: the bands do not overlap.
ASSUME ThresholdsAreOrdered == \A m \in Metrics : Minor[m] <= Major[m]

VARIABLES
  repo, request,  \* the input
  step,           \* the next step of run, or the exit code's meaning
  failOn,         \* cfg.FailOn; SeverityPass is "never"
  changed,        \* the files to analyse
  violations,     \* Result.Violations
  unread,         \* files in Result.ParseErrors
  missing,        \* files git show has no base version of
  blind           \* git diff HEAD failed, and nobody was told

input == <<repo, request>>
vars == <<input, step, failOn, changed, violations, unread, missing, blind>>

Severities == {"pass", "minor", "major"}
Violation == [file : Paths, metric : Metrics, actual : Nat,
              severity : {"minor", "major"}, isNew : BOOLEAN]
Exits == {"passed", "failed", "error"}
Steps == {"prepare", "mergeBase", "diff", "diffHead", "diffCached", "filter",
          "analyze", "show", "walk", "report"} \cup Exits

\* What a run finds is about the files it analyses; a request is settled to one
\* of the three gates before anything is compared with it.
TypeOK ==
  /\ step \in Steps
  /\ failOn \in {"major", "minor", "never"}
  /\ changed \subseteq Paths \ (Tests \cup Testdata)
  /\ violations \subseteq Violation
  /\ unread \subseteq changed /\ missing \subseteq changed
  /\ blind \in BOOLEAN
  /\ \A v \in violations : v.file \in changed

\* An arbitrary run starts with nothing found; the default is fail_on: major.
Init ==
  /\ repo \in Repos /\ request \in Requests
  /\ step = "prepare"
  /\ failOn = "major"
  /\ changed = {} /\ violations = {} /\ unread = {} /\ missing = {}
  /\ blind = FALSE

-----------------------------------------------------------------------------
(* Mutated forms of definitions below: plausible bugs that the runs must    *)
(* notice.  No action of Next uses them.                                    *)

\* loadConfig that takes the flag without looking whether it is set.
LoadConfigFlagOnly ==
  /\ step = "prepare"
  /\ failOn' = request.flag
  /\ step' = IF request.compare THEN "mergeBase" ELSE "walk"
  /\ UNCHANGED <<input, changed, violations, unread, missing, blind>>

\* markNewViolations that only looks whether the metric is on the base.
IsNewIfAbsent(v, unshown) ==
  v.file \in unshown \/ repo.base[v.file].values[v.metric] = <<>>

\* markNewViolations with >= for >.
IsNewIfEqual(v, unshown) ==
  \/ v.file \in unshown
  \/ repo.base[v.file].values[v.metric] = <<>>
  \/ v.actual >= repo.base[v.file].values[v.metric]
                   [Len(repo.base[v.file].values[v.metric])]

\* collectGoFiles that only sees what git tracks.
WalkTracked ==
  /\ step = "walk"
  /\ changed' = {p \in Scope \ (Tests \cup Testdata \cup Skipped) :
                   repo.head[p].kind # "absent"}
  /\ step' = "analyze"
  /\ UNCHANGED <<input, failOn, violations, unread, missing, blind>>

-----------------------------------------------------------------------------
(* Values and violations.                                                   *)

Values(c, m) == {c.values[m][i] : i \in DOMAIN c.values[m]}

\* The index of base metrics is a map: the last function of a name wins.
LastValue(c, m) == c.values[m][Len(c.values[m])]

\* Thresholds.Classify
Classify(m, actual) ==
  IF actual <= Minor[m] THEN "pass"
  ELSE IF actual <= Major[m] THEN "minor" ELSE "major"

\* gateFailed, for one new violation.
Fails(severity) ==
  \/ failOn = "minor" /\ severity \in {"minor", "major"}
  \/ failOn = "major" /\ severity = "major"

\* metricsToViolations, for the files that could be read.
Actuals(files) == UNION {Values(repo.work[p], m) : p \in files, m \in Metrics}
Candidates(files) ==
  [file : files, metric : Metrics, actual : Actuals(files),
   severity : {"minor", "major"}, isNew : {TRUE}]
Measure(files) ==
  {v \in Candidates(files) :
     /\ v.actual \in Values(repo.work[v.file], v.metric)
     /\ v.severity = Classify(v.metric, v.actual)}

\* markNewViolations; base versions that git cannot show have no metrics.
IsNew(v, unshown) ==
  \/ v.file \in unshown
  \/ repo.base[v.file].values[v.metric] = <<>>
  \/ v.actual > LastValue(repo.base[v.file], v.metric)

\* addGoPath keeps test files and testdata out.
GoPaths(listed) == listed \ (Tests \cup Testdata)

\* What git diff --diff-filter=ACMR lists: no file that is gone.
Differs(p, from, to) == to[p] # from[p] /\ to[p].kind # "absent"
InIndex(p) ==
  \/ repo.index[p] = "staged"
  \/ repo.index[p] = "clean" /\ repo.head[p].kind # "absent"

-----------------------------------------------------------------------------
(* The steps of run.                                                        *)

At(s) == step = s
Goto(s) == step' = s

Exit(how) ==
  /\ Goto(how)
  /\ UNCHANGED <<input, failOn, changed, violations, unread, missing, blind>>

\* loadConfig: an unreadable or invalid file is an error even under a flag.
LoadConfig ==
  /\ At("prepare")
  /\ "bad" \notin {request.config, request.flag}
  /\ failOn' = CASE request.flag # "unset" -> request.flag
                 [] request.config # "unset" -> request.config
                 [] OTHER -> failOn
  /\ Goto(IF request.compare THEN "mergeBase" ELSE "walk")
  /\ UNCHANGED <<input, changed, violations, unread, missing, blind>>

ConfigIsBad ==
  /\ At("prepare")
  /\ "bad" \in {request.config, request.flag}
  /\ Exit("error")

MergeBase ==
  /\ At("mergeBase")
  /\ Goto("diff")
  /\ UNCHANGED <<input, failOn, changed, violations, unread, missing, blind>>

\* parseNameStatus splits a line at any space, so that a path with one is
\* cut and its first part is not a .go file.
DiffCommitted ==
  /\ At("diff")
  /\ changed' = GoPaths({p \in Paths \ Spaced :
                           Differs(p, repo.base, repo.head)})
  /\ Goto("diffHead")
  /\ UNCHANGED <<input, failOn, violations, unread, missing, blind>>

\* merge-base, git diff, the walk and the report may fail: exit code 2.
GitFails ==
  /\ step \in {"mergeBase", "diff", "walk"}
  /\ Exit("error")

\* appendDirtyGoFiles: two more diffs, whose lines are whole paths.  If one
\* fails, the run goes on without it.
DiffHead ==
  /\ At("diffHead")
  /\ changed' = changed \cup
       GoPaths({p \in Paths : InIndex(p) /\ Differs(p, repo.head, repo.work)})
  /\ Goto("diffCached")
  /\ UNCHANGED <<input, failOn, violations, unread, missing, blind>>

DiffHeadFails ==
  /\ At("diffHead")
  /\ blind' = TRUE
  /\ Goto("diffCached")
  /\ UNCHANGED <<input, failOn, changed, violations, unread, missing>>

DiffCached ==
  /\ At("diffCached")
  /\ changed' \in {changed,
                   changed \cup GoPaths({p \in Paths : repo.index[p] = "staged"})}
  /\ Goto("filter")
  /\ UNCHANGED <<input, failOn, violations, unread, missing, blind>>

\* filterUnderPaths; with nothing left the result is empty.
FilterUnderPaths ==
  /\ At("filter")
  /\ changed' = changed \cap Scope
  /\ Goto(IF changed' = {} THEN "report" ELSE "analyze")
  /\ UNCHANGED <<input, failOn, violations, unread, missing, blind>>

\* collectGoFiles: every file below the paths, tracked or not.
Walk ==
  /\ At("walk")
  /\ changed' = {p \in GoPaths(Scope) \ Skipped :
                   repo.work[p].kind # "absent"}
  /\ Goto("analyze")
  /\ UNCHANGED <<input, failOn, violations, unread, missing, blind>>

\* analyzeFiles: a file that cannot be read or parsed becomes a parse error
\* and has no violation.
AnalyzeFiles ==
  /\ At("analyze")
  /\ \E unreadable \in SUBSET changed :
       unread' = unreadable \cup {p \in changed : repo.work[p].kind # "source"}
  /\ violations' = Measure(changed \ unread')
  /\ Goto(IF request.compare THEN "show" ELSE "report")
  /\ UNCHANGED <<input, failOn, changed, missing, blind>>

\* gitShowFiles takes every failure of git show for a file that is not there;
\* collectBaseMetrics and markNewViolations follow.
CompareWithBase ==
  /\ At("show")
  /\ \E failing \in SUBSET changed :
       missing' = failing \cup {p \in changed : repo.base[p].kind = "absent"}
  /\ violations' = {[v EXCEPT !.isNew = IsNew(v, missing')] :
                      v \in violations}
  /\ Goto("report")
  /\ UNCHANGED <<input, failOn, changed, unread, blind>>

\* BuildSummary and writeAndExit: parse errors do not count.
Report ==
  /\ At("report")
  /\ Exit(IF \E v \in violations : v.isNew /\ Fails(v.severity)
          THEN "failed" ELSE "passed")

\* The output cannot be created, or --format is unknown.
ReportFails ==
  /\ At("report")
  /\ Exit("error")

Compare ==
  \/ MergeBase \/ DiffCommitted \/ DiffHead \/ DiffHeadFails \/ DiffCached
  \/ FilterUnderPaths \/ CompareWithBase

Exited == step \in Exits /\ UNCHANGED vars

Next ==
  \/ LoadConfig \/ ConfigIsBad \/ GitFails \/ Compare
  \/ Walk \/ AnalyzeFiles \/ Report \/ ReportFails
  \/ Exited

Spec == Init /\ [][Next]_vars

-----------------------------------------------------------------------------
(* Properties.                                                              *)

\* A value that fails the gate when it is new.
Failing(p, m, x) ==
  x \in Values(repo.work[p], m) /\ Fails(Classify(m, x))

\* The files a comparison speaks for: tracked production code below the paths,
\* read and parsed, whose path a name-status line does not cut.
Watched ==
  {p \in GoPaths(Scope) \ (Spaced \cup unread) : InIndex(p)}

\* Several functions have the name, on the base or now.
Shared(p, m) ==
  Len(repo.base[p].values[m]) > 1 \/ Len(repo.work[p].values[m]) > 1

\* "only NEW degradations fail the gate", the one direction: when a comparison
\* passes, every failing function of a watched file was as bad on the
\* merge-base, whether the change is committed, staged or in the working tree,
\* and whichever files git could not show.  A failed `git diff HEAD` blinds
\* the gate.  Functions that share a name are the exception: each is compared
\* with the last of them on the base, so that one may have become worse.
PassMeansNoWorse ==
  step = "passed" /\ request.compare /\ ~blind =>
    \A p \in Watched, m \in Metrics :
      LET was == repo.base[p].values[m]
          now == repo.work[p].values[m]
      IN  \A i \in DOMAIN now : Failing(p, m, now[i]) =>
            \/ i \in DOMAIN was /\ now[i] <= was[i]
            \/ /\ Shared(p, m)
               /\ was # <<>> /\ now[i] <= LastValue(repo.base[p], m)

\* The other direction: when a comparison fails, some function has a value
\* above all that the base has under its name.  Legacy debt can only fail it
\* where git shows no base version (a moved file, or a failed git show) or
\* where the base has several functions of the name.
FailMeansWorse ==
  step = "failed" /\ request.compare =>
    \E p \in GoPaths(Scope), m \in Metrics : \E x \in Values(repo.work[p], m) :
      /\ Failing(p, m, x)
      /\ \/ p \in missing
         \/ Len(repo.base[p].values[m]) > 1
         \/ \A y \in Values(repo.base[p], m) : y < x

\* Without a base the gate fails exactly if some production file in scope,
\* tracked or not, that could be read and parsed has a failing function.
FullScanFindsAll ==
  ~request.compare /\ step \in {"passed", "failed"} =>
    (step = "failed" <=>
       \E p \in GoPaths(Scope) \ (Skipped \cup unread), m \in Metrics :
         \E x \in Values(repo.work[p], m) : Failing(p, m, x))

-----------------------------------------------------------------------------
(* What is known at each step; the inductive invariant.                     *)

Before == {"prepare", "mergeBase", "diff", "diffHead", "diffCached", "filter",
           "walk"}
Reported == {"report", "passed", "failed"}

\* The steps of a comparison and the walk exclude each other.
OnItsWay ==
  /\ repo \in Repos /\ request \in Requests
  /\ step \in {"mergeBase", "diff", "diffHead", "diffCached", "filter", "show"} =>
       request.compare
  /\ step = "walk" => ~request.compare
  /\ step \in Before => violations = {} /\ unread = {} /\ missing = {}

\* What the commits and the working tree changed in tracked production code.
Committed == GoPaths({p \in Paths \ Spaced : Differs(p, repo.base, repo.head)})
Dirty == GoPaths({p \in Paths : InIndex(p) /\ Differs(p, repo.head, repo.work)})

\* A comparison that saw both diffs has every one of these files in scope.
ChangesListed ==
  /\ step \in {"diffHead", "diffCached", "filter"} => Committed \subseteq changed
  /\ step \in {"diffCached", "filter"} /\ ~blind => Dirty \subseteq changed
  /\ request.compare /\ step \in {"analyze", "show"} \cup Reported =>
       /\ changed \subseteq Scope
       /\ ~blind => (Committed \cup Dirty) \cap Scope \subseteq changed

\* A scan has every file there is.
EverythingListed ==
  ~request.compare /\ step \in {"analyze"} \cup Reported =>
    changed = {p \in GoPaths(Scope) \ Skipped : repo.work[p].kind # "absent"}

\* The violations are those of the files read, marked if there is a base.
Measured ==
  /\ step = "show" => violations = Measure(changed \ unread)
  /\ step \in Reported =>
       violations = IF request.compare
                    THEN {[v EXCEPT !.isNew = IsNew(v, missing)] :
                            v \in Measure(changed \ unread)}
                    ELSE Measure(changed \ unread)

\* The exit code says what the violations say.
Verdict ==
  step \in {"passed", "failed"} =>
    (step = "failed" <=> \E v \in violations : v.isNew /\ Fails(v.severity))

Inv == TypeOK /\ OnItsWay /\ ChangesListed /\ EverythingListed
         /\ Measured /\ Verdict
=============================================================================

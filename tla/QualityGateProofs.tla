-------------------------- MODULE QualityGateProofs --------------------------
(***************************************************************************)
(* Proofs about QualityGate for any repositories, thresholds and requests. *)
(* Inv follows a run: which changed files are listed before the analysis,  *)
(* which violations the analysis leaves and how the comparison marks them. *)
(* The two directions of the gate then follow from what Measure and IsNew  *)
(* say of a single value.                                                  *)
(***************************************************************************)
EXTENDS QualityGate, TLAPS

\* The versions of a file and what they measure.
LEMMA ContentTyped ==
  ASSUME repo \in Repos, NEW p \in Paths, NEW m \in Metrics
  PROVE  /\ repo.base[p] \in Content
         /\ repo.head[p] \in Content
         /\ repo.work[p] \in Content
         /\ repo.base[p].values[m] \in Seq(Nat)
         /\ repo.work[p].values[m] \in Seq(Nat)
         /\ Values(repo.work[p], m) \subseteq Nat
         /\ Values(repo.base[p], m) \subseteq Nat
<1>1. repo \in Repo
  BY InputsAreTyped
<1>2. /\ repo.base[p] \in Content
      /\ repo.head[p] \in Content
      /\ repo.work[p] \in Content
  BY <1>1 DEF Repo
<1>3. ASSUME NEW c \in Content
      PROVE  c.values[m] \in Seq(Nat) /\ Values(c, m) \subseteq Nat
  <2>1. c.values[m] \in Seq(Nat)
    BY DEF Content
  <2>2. ASSUME NEW s \in Seq(Nat), NEW i \in DOMAIN s
        PROVE  s[i] \in Nat
    OBVIOUS
  <2> QED BY <2>1, <2>2 DEF Values
<1> QED BY <1>2, <1>3

\* What the index remembers of a name is one of its values, and the only one
\* if the name is unique.
LEMMA LastIsAValue ==
  ASSUME NEW c, NEW m, c.values[m] \in Seq(Nat), c.values[m] # <<>>
  PROVE  /\ LastValue(c, m) \in Nat
         /\ LastValue(c, m) \in Values(c, m)
         /\ ~(Len(c.values[m]) > 1) => Values(c, m) = {LastValue(c, m)}
<1> DEFINE s == c.values[m]
<1>1. s \in Seq(Nat) /\ s # <<>>
  OBVIOUS
<1> HIDE DEF s
<1>2. Len(s) \in Nat /\ Len(s) > 0 /\ DOMAIN s = 1..Len(s)
  BY <1>1
<1>3. Len(s) \in DOMAIN s /\ s[Len(s)] \in Nat
  BY <1>1, <1>2
<1>4. ~(Len(s) > 1) => DOMAIN s = {Len(s)}
  BY <1>2
<1>5. LastValue(c, m) = s[Len(s)] /\ Values(c, m) = {s[i] : i \in DOMAIN s}
  BY DEF s, LastValue, Values
<1>6. Len(c.values[m]) = Len(s)
  BY DEF s
<1> QED BY <1>3, <1>4, <1>5, <1>6

LEMMA Classified ==
  ASSUME NEW m, NEW x
  PROVE  Classify(m, x) \in Severities
BY DEF Classify, Severities

\* A failing value is a violation of every file it is measured in ...
LEMMA MeasureFinds ==
  ASSUME repo \in Repos, NEW files \in SUBSET Paths,
         NEW p \in files, NEW m \in Metrics,
         NEW x \in Values(repo.work[p], m), Classify(m, x) # "pass"
  PROVE  [file |-> p, metric |-> m, actual |-> x,
          severity |-> Classify(m, x), isNew |-> TRUE] \in Measure(files)
<1>1. x \in Actuals(files)
  BY DEF Actuals
<1>2. Classify(m, x) \in {"minor", "major"}
  BY Classified DEF Severities
<1> DEFINE v == [file |-> p, metric |-> m, actual |-> x,
                 severity |-> Classify(m, x), isNew |-> TRUE]
<1>3. v \in Candidates(files)
  BY <1>1, <1>2 DEF Candidates
<1>4. /\ v.actual \in Values(repo.work[v.file], v.metric)
      /\ v.severity = Classify(v.metric, v.actual)
  OBVIOUS
<1> HIDE DEF v
<1>5. v \in Measure(files)
  BY <1>3, <1>4 DEF Measure
<1> QED BY <1>5 DEF v

\* ... and every violation is one of the files' values.
LEMMA MeasureOnly ==
  ASSUME repo \in Repos, NEW files \in SUBSET Paths, NEW v \in Measure(files)
  PROVE  /\ v \in Violation
         /\ v.file \in files /\ v.metric \in Metrics
         /\ v.actual \in Values(repo.work[v.file], v.metric)
         /\ v.severity = Classify(v.metric, v.actual)
         /\ v.isNew = TRUE
<1>1. /\ v \in Candidates(files)
      /\ v.actual \in Values(repo.work[v.file], v.metric)
      /\ v.severity = Classify(v.metric, v.actual)
  BY DEF Measure
<1>2. /\ v.file \in files /\ v.metric \in Metrics
      /\ v.severity \in {"minor", "major"} /\ v.isNew = TRUE
      /\ v = [file |-> v.file, metric |-> v.metric, actual |-> v.actual,
              severity |-> v.severity, isNew |-> v.isNew]
  BY <1>1 DEF Candidates
<1>3. v.actual \in Nat
  BY <1>1, <1>2, ContentTyped
<1>4. v \in Violation
  BY <1>2, <1>3 DEF Violation
<1> QED BY <1>1, <1>2, <1>4

\* Marking a violation changes nothing else of it.
LEMMA Marking ==
  ASSUME NEW v \in Violation, NEW b \in BOOLEAN
  PROVE  /\ [v EXCEPT !.isNew = b] \in Violation
         /\ [v EXCEPT !.isNew = b].file = v.file
         /\ [v EXCEPT !.isNew = b].metric = v.metric
         /\ [v EXCEPT !.isNew = b].actual = v.actual
         /\ [v EXCEPT !.isNew = b].severity = v.severity
         /\ [v EXCEPT !.isNew = b].isNew = b
BY DEF Violation

LEMMA IsNewTyped ==
  ASSUME NEW v, NEW unshown PROVE IsNew(v, unshown) \in BOOLEAN
BY DEF IsNew

\* Production paths are paths.
LEMMA GoPathsOf ==
  ASSUME NEW S \in SUBSET Paths
  PROVE  GoPaths(S) \subseteq Paths \ (Tests \cup Testdata)
BY DEF GoPaths

-----------------------------------------------------------------------------
(* The invariant.                                                           *)

LEMMA InitInv == Init => Inv
<1> SUFFICES ASSUME Init PROVE Inv
  OBVIOUS
<1>1. TypeOK
  BY DEF Init, TypeOK, Steps
<1>2. OnItsWay
  BY DEF Init, OnItsWay
<1> QED BY <1>1, <1>2 DEF Init, Inv, ChangesListed, EverythingListed, Measured,
                        Verdict, Reported

\* The steps that find nothing and exit, and the configuration.
LEMMA QuietSteps ==
  ASSUME Inv, \/ LoadConfig \/ ConfigIsBad \/ GitFails \/ MergeBase \/ ReportFails
  PROVE  Inv'
<1> USE DEF At, Goto, Exit, input, Exits
<1>1. TypeOK'
  <2>1. LoadConfig => failOn' \in {"major", "minor", "never"}
    <3>1. request.config \in Settings /\ request.flag \in Settings
      BY InputsAreTyped DEF Inv, OnItsWay
    <3> QED BY <3>1 DEF LoadConfig, Inv, TypeOK, Settings
  <2> QED BY <2>1 DEF Inv, TypeOK, Steps, LoadConfig, ConfigIsBad, GitFails,
                      MergeBase, ReportFails
<1>2. OnItsWay'
  BY DEF Inv, OnItsWay, Before, LoadConfig, ConfigIsBad, GitFails, MergeBase,
         ReportFails
<1>3. step' \in {"mergeBase", "diff", "walk", "error"}
  BY DEF LoadConfig, ConfigIsBad, GitFails, MergeBase, ReportFails
<1> QED BY <1>1, <1>2, <1>3 DEF Inv, ChangesListed, EverythingListed, Measured,
                                Verdict, Reported

\* The diffs: what they list stays listed.
LEMMA DiffSteps ==
  ASSUME Inv, DiffCommitted \/ DiffHead \/ DiffHeadFails \/ DiffCached
  PROVE  Inv'
<1> USE DEF At, Goto, input
<1>1. Committed \in SUBSET Paths /\ Dirty \in SUBSET Paths
      /\ Committed \subseteq Paths \ (Tests \cup Testdata)
      /\ Dirty \subseteq Paths \ (Tests \cup Testdata)
  BY DEF Committed, Dirty, GoPaths
<1>2. Committed' = Committed /\ Dirty' = Dirty
  BY DEF Committed, Dirty, GoPaths, Differs, InIndex, DiffCommitted, DiffHead,
         DiffHeadFails, DiffCached
<1>3. /\ changed' \subseteq Paths \ (Tests \cup Testdata)
      /\ ~DiffCommitted => changed \subseteq changed'
  <2>1. DiffCommitted => changed' = Committed
    BY DEF DiffCommitted, Committed
  <2>2. DiffHead => changed' = changed \cup Dirty
    BY DEF DiffHead, Dirty
  <2>3. DiffCached => /\ changed \subseteq changed'
                      /\ changed' \subseteq Paths \ (Tests \cup Testdata)
    BY DEF DiffCached, GoPaths, Inv, TypeOK
  <2>4. DiffHeadFails => changed' = changed
    BY DEF DiffHeadFails
  <2> QED BY <1>1, <2>1, <2>2, <2>3, <2>4 DEF Inv, TypeOK
<1>4. /\ step \in {"diff", "diffHead", "diffCached"}
      /\ violations = {} /\ unread = {} /\ missing = {} /\ request.compare
  BY DEF Inv, OnItsWay, Before, DiffCommitted, DiffHead, DiffHeadFails, DiffCached
<1>5. /\ violations' = {} /\ unread' = {} /\ missing' = {} /\ UNCHANGED input
      /\ failOn' = failOn /\ blind' \in BOOLEAN
      /\ step' \in {"diffHead", "diffCached", "filter"}
  BY <1>4 DEF DiffCommitted, DiffHead, DiffHeadFails, DiffCached, Inv, TypeOK
<1>6. TypeOK'
  BY <1>3, <1>5 DEF Inv, TypeOK, Steps
<1>7. OnItsWay'
  BY <1>4, <1>5 DEF Inv, OnItsWay
<1>8. ChangesListed'
  <2>1. Committed \subseteq changed'
    BY <1>3 DEF DiffCommitted, DiffHead, DiffHeadFails, DiffCached, Committed,
                Inv, ChangesListed
  <2>2. step' \in {"diffCached", "filter"} /\ ~blind' => Dirty \subseteq changed'
    BY <1>3 DEF DiffCommitted, DiffHead, DiffHeadFails, DiffCached, Dirty,
                Inv, ChangesListed
  <2> QED BY <1>2, <1>5, <2>1, <2>2 DEF ChangesListed, Reported
<1> QED BY <1>5, <1>6, <1>7, <1>8 DEF Inv, EverythingListed, Measured, Verdict,
                                      Reported

\* The files to analyse are settled.
LEMMA ListSteps ==
  ASSUME Inv, FilterUnderPaths \/ Walk
  PROVE  Inv'
<1> USE DEF At, Goto, input
<1>1. /\ violations = {} /\ unread = {} /\ missing = {}
      /\ FilterUnderPaths => request.compare
      /\ Walk => ~request.compare
  BY DEF Inv, OnItsWay, Before, FilterUnderPaths, Walk
<1>2. /\ violations' = {} /\ unread' = {} /\ missing' = {} /\ UNCHANGED input
      /\ failOn' = failOn /\ blind' = blind
      /\ step' \in {"report", "analyze"}
  BY <1>1 DEF FilterUnderPaths, Walk
<1>3. changed' \subseteq Paths \ (Tests \cup Testdata)
  BY InputsAreTyped DEF FilterUnderPaths, Walk, GoPaths, Inv, TypeOK
<1>4. TypeOK'
  BY <1>2, <1>3 DEF Inv, TypeOK, Steps
<1>5. OnItsWay'
  BY <1>2 DEF Inv, OnItsWay, Before
<1>6. ChangesListed'
  <2>1. Committed' = Committed /\ Dirty' = Dirty
    BY <1>2 DEF Committed, Dirty, GoPaths, Differs, InIndex
  <2>2. CASE FilterUnderPaths
    BY <1>2, <2>1, <2>2 DEF FilterUnderPaths, Inv, ChangesListed
  <2>3. CASE Walk
    BY <1>1, <1>2, <2>3 DEF Walk, ChangesListed
  <2> QED BY <2>2, <2>3
<1>7. EverythingListed'
  BY <1>1, <1>2 DEF FilterUnderPaths, Walk, EverythingListed, GoPaths
<1>8. Measured'
  <2>1. step' = "report" => changed' = {} /\ request'.compare
    BY <1>1, <1>2 DEF FilterUnderPaths, Walk
  <2>2. ASSUME step' = "report"
        PROVE  Measure(changed \ unread)' = {}
    BY <2>1, <2>2 DEF Measure, Candidates
  <2> QED BY <1>2, <2>1, <2>2 DEF Measured, Reported
<1> QED BY <1>2, <1>4, <1>5, <1>6, <1>7, <1>8 DEF Inv, Verdict

\* What the analysis and the comparison find, read in the next state.
LEMMA FoundAgain ==
  ASSUME UNCHANGED input, changed' = changed
  PROVE  Measure(changed \ unread)' = Measure(changed \ unread')
BY DEF input, Measure, Candidates, Actuals, Values, Classify

LEMMA AnalyzeStep ==
  ASSUME Inv, AnalyzeFiles
  PROVE  Inv'
<1> USE DEF At, Goto
<1>1. /\ UNCHANGED input /\ failOn' = failOn /\ blind' = blind
      /\ changed' = changed /\ missing' = missing
      /\ step = "analyze"
      /\ step' = IF request.compare THEN "show" ELSE "report"
      /\ violations' = Measure(changed \ unread')
      /\ unread' \subseteq changed
  BY DEF AnalyzeFiles
<1>2. /\ repo \in Repos /\ changed \ unread' \in SUBSET Paths
      /\ repo' = repo /\ request' = request
  BY <1>1 DEF Inv, TypeOK, OnItsWay, input
<1>3. TypeOK'
  <2>1. \A v \in violations' : v \in Violation /\ v.file \in changed'
    BY <1>1, <1>2, MeasureOnly
  <2> QED BY <1>1, <2>1 DEF Inv, TypeOK, Steps
<1>4. OnItsWay'
  BY <1>1, <1>2 DEF Inv, OnItsWay, Before
<1>5. Committed' = Committed /\ Dirty' = Dirty
  BY <1>2, <1>1 DEF Committed, Dirty, GoPaths, Differs, InIndex
<1>6. ChangesListed'
  BY <1>1, <1>2, <1>5 DEF Inv, ChangesListed
<1>7. EverythingListed'
  BY <1>1, <1>2 DEF Inv, EverythingListed, GoPaths
<1>8. Measured'
  <2>1. violations' = Measure(changed \ unread)'
    BY <1>1, FoundAgain
  <2> QED BY <1>1, <1>2, <2>1 DEF Measured, Reported
<1> QED BY <1>1, <1>3, <1>4, <1>6, <1>7, <1>8 DEF Inv, Verdict

LEMMA CompareStep ==
  ASSUME Inv, CompareWithBase
  PROVE  Inv'
<1> USE DEF At, Goto
<1>1. /\ UNCHANGED input /\ failOn' = failOn /\ blind' = blind
      /\ changed' = changed /\ unread' = unread
      /\ step = "show" /\ step' = "report"
      /\ violations' = {[v EXCEPT !.isNew = IsNew(v, missing')] : v \in violations}
      /\ missing' \subseteq changed
  BY DEF CompareWithBase
<1>2. /\ repo' = repo /\ request' = request /\ request.compare
      /\ repo \in Repos /\ request \in Requests
  BY <1>1 DEF Inv, OnItsWay, input
<1>3. TypeOK'
  <2>1. \A v \in violations : v \in Violation /\ v.file \in changed
    BY DEF Inv, TypeOK
  <2>2. ASSUME NEW v \in violations
        PROVE  /\ [v EXCEPT !.isNew = IsNew(v, missing')] \in Violation
               /\ [v EXCEPT !.isNew = IsNew(v, missing')].file \in changed
    BY <2>1, Marking, IsNewTyped
  <2>3. \A v \in violations' : v \in Violation /\ v.file \in changed'
    BY <1>1, <2>2
  <2> QED BY <1>1, <2>3 DEF Inv, TypeOK, Steps
<1>4. OnItsWay'
  BY <1>1, <1>2 DEF OnItsWay, Before
<1>5. Committed' = Committed /\ Dirty' = Dirty
  BY <1>2, <1>1 DEF Committed, Dirty, GoPaths, Differs, InIndex
<1>6. ChangesListed'
  BY <1>1, <1>2, <1>5 DEF Inv, ChangesListed, Reported
<1>7. EverythingListed'
  BY <1>2 DEF EverythingListed
<1>8. Measured'
  <2>1. Measure(changed \ unread)' = violations
    BY <1>1, FoundAgain DEF Inv, Measured
  <2>2. violations' = {[v EXCEPT !.isNew = IsNew(v, missing)'] : v \in violations}
    BY <1>1, <1>2 DEF IsNew, LastValue
  <2> QED BY <1>1, <1>2, <2>1, <2>2 DEF Measured, Reported, IsNew, LastValue
<1> QED BY <1>1, <1>3, <1>4, <1>6, <1>7, <1>8 DEF Inv, Verdict

LEMMA FinalSteps ==
  ASSUME Inv, Report \/ Exited \/ UNCHANGED vars
  PROVE  Inv'
<1> USE DEF At, Goto, Exit
<1>1. /\ UNCHANGED <<repo, request, failOn, changed, violations, unread,
                     missing, blind>>
      /\ Report => /\ step = "report"
                   /\ step' = IF \E v \in violations : v.isNew /\ Fails(v.severity)
                              THEN "failed" ELSE "passed"
      /\ ~Report => step' = step
  BY DEF Report, Exited, vars, input
<1>2. TypeOK'
  BY <1>1 DEF Inv, TypeOK, Steps, Exits
<1>3. OnItsWay'
  BY <1>1 DEF Inv, OnItsWay, Before
<1>4. Committed' = Committed /\ Dirty' = Dirty
  BY <1>1 DEF Committed, Dirty, GoPaths, Differs, InIndex
<1>5. ChangesListed'
  BY <1>1, <1>4 DEF Inv, ChangesListed, Reported
<1>6. EverythingListed'
  BY <1>1 DEF Inv, EverythingListed, GoPaths, Reported
<1>7. Measured'
  <2>1. Measure(changed \ unread)' = Measure(changed \ unread')
    BY <1>1, FoundAgain DEF input
  <2>2. changed \ unread' = changed \ unread
    BY <1>1
  <2>3. Measure(changed \ unread)' = Measure(changed \ unread)
    BY <2>1, <2>2
  <2>4. ASSUME NEW v
        PROVE  IsNew(v, missing)' = IsNew(v, missing)
    BY <1>1 DEF IsNew, LastValue
  <2>5. CASE step' = "show"
    BY <1>1, <2>3, <2>5 DEF Inv, Measured, Reported
  <2>6. CASE step' \in Reported
    <3>1. step \in Reported
      BY <1>1, <2>6 DEF Reported
    <3> QED BY <1>1, <2>3, <2>4, <2>6, <3>1 DEF Inv, Measured, Reported
  <2> QED BY <2>5, <2>6 DEF Measured, Reported
<1>8. Verdict'
  BY <1>1 DEF Inv, Verdict, Fails
<1> QED BY <1>2, <1>3, <1>5, <1>6, <1>7, <1>8 DEF Inv

\* Inv holds at every step of a run.
THEOREM InvCorrect == Spec => []Inv
<1>1. Init => Inv
  BY InitInv
<1>2. Inv /\ [Next]_vars => Inv'
  <2> SUFFICES ASSUME Inv, [Next]_vars
               PROVE  Inv'
    OBVIOUS
  <2> QED BY QuietSteps, DiffSteps, ListSteps, AnalyzeStep, CompareStep,
             FinalSteps DEF Next, Compare
<1> QED BY <1>1, <1>2, PTL DEF Spec

\* Whatever a run finds is about the files it analyses, and its gate is one of
\* the three the settings name.
THEOREM TypeCorrect == Spec => []TypeOK
<1>1. Inv => TypeOK
  BY DEF Inv
<1> QED BY <1>1, InvCorrect, PTL

-----------------------------------------------------------------------------
(* The gate in both directions.                                             *)

\* What a run with a base reports for a failing value of a file it read.
LEMMA ReportedValue ==
  ASSUME Inv, step \in Reported, NEW p \in changed \ unread, NEW m \in Metrics,
         NEW x, Failing(p, m, x)
  PROVE  \E v \in violations :
           /\ v.file = p /\ v.metric = m /\ v.actual = x
           /\ Fails(v.severity)
           /\ IF request.compare THEN v.isNew = IsNew(v, missing) ELSE v.isNew
<1> DEFINE v == [file |-> p, metric |-> m, actual |-> x,
                 severity |-> Classify(m, x), isNew |-> TRUE]
<1>1. /\ repo \in Repos /\ changed \ unread \in SUBSET Paths
      /\ x \in Values(repo.work[p], m)
      /\ Fails(Classify(m, x))
  BY DEF Inv, OnItsWay, TypeOK, Failing
<1>2. Classify(m, x) # "pass"
  BY <1>1 DEF Fails
<1>3. v \in Measure(changed \ unread)
  BY <1>1, <1>2, MeasureFinds
<1>4. /\ v.file = p /\ v.metric = m /\ v.actual = x
      /\ v.severity = Classify(m, x) /\ v.isNew
  OBVIOUS
<1> HIDE DEF v
<1>5. v \in Violation
  BY <1>1, <1>3, MeasureOnly
<1>6. CASE ~request.compare
  <2>1. v \in violations
    BY <1>3, <1>6 DEF Inv, Measured
  <2> QED BY <1>1, <1>4, <1>6, <2>1
<1>7. CASE request.compare
  <2> DEFINE w == [v EXCEPT !.isNew = IsNew(v, missing)]
  <2>1. w \in violations
    BY <1>3, <1>7 DEF Inv, Measured
  <2>2. /\ w.file = p /\ w.metric = m /\ w.actual = x
        /\ w.severity = Classify(m, x) /\ w.isNew = IsNew(v, missing)
    BY <1>4, <1>5, Marking, IsNewTyped
  <2> HIDE DEF w
  <2>3. w.isNew = IsNew(w, missing)
    BY <1>4, <2>2 DEF IsNew
  <2> QED BY <1>1, <1>7, <2>1, <2>2, <2>3
<1> QED BY <1>6, <1>7

\* What a run reports is a value of a file it read.
LEMMA ReportedOnly ==
  ASSUME Inv, step \in Reported, NEW v \in violations
  PROVE  /\ v.file \in changed \ unread /\ v.metric \in Metrics
         /\ v.actual \in Values(repo.work[v.file], v.metric)
         /\ v.severity = Classify(v.metric, v.actual)
         /\ IF request.compare THEN v.isNew = IsNew(v, missing) ELSE v.isNew
<1>1. repo \in Repos /\ changed \ unread \in SUBSET Paths
  BY DEF Inv, OnItsWay, TypeOK
<1>2. CASE ~request.compare
  BY <1>1, <1>2, MeasureOnly DEF Inv, Measured
<1>3. CASE request.compare
  <2>1. PICK w \in Measure(changed \ unread) :
          v = [w EXCEPT !.isNew = IsNew(w, missing)]
    BY <1>3 DEF Inv, Measured
  <2>2. /\ w \in Violation
        /\ w.file \in changed \ unread /\ w.metric \in Metrics
        /\ w.actual \in Values(repo.work[w.file], w.metric)
        /\ w.severity = Classify(w.metric, w.actual)
    BY <1>1, MeasureOnly
  <2>3. /\ v.file = w.file /\ v.metric = w.metric /\ v.actual = w.actual
        /\ v.severity = w.severity /\ v.isNew = IsNew(w, missing)
    BY <2>1, <2>2, Marking, IsNewTyped
  <2>4. IsNew(w, missing) = IsNew(v, missing)
    BY <2>3 DEF IsNew
  <2> QED BY <1>3, <2>2, <2>3, <2>4
<1> QED BY <1>2, <1>3

\* A file that measures something is there.
LEMMA MeasuredIsSource ==
  ASSUME repo \in Repos, NEW p \in Paths, NEW m \in Metrics,
         NEW x \in Values(repo.work[p], m)
  PROVE  repo.work[p].kind = "source"
<1>1. repo.work[p].kind # "source" => repo.work[p].values[m] = <<>>
  BY OnlySourceMeasures
<1>2. repo.work[p].values[m] # <<>>
  BY DEF Values
<1> QED BY <1>1, <1>2

\* A tracked file in scope that a comparison did not list is as on the base.
LEMMA UnlistedIsUnchanged ==
  ASSUME Inv, step \in Reported, request.compare, ~blind,
         NEW p \in Watched, p \notin changed, repo.work[p].kind # "absent"
  PROVE  repo.work[p] = repo.base[p]
<1>1. p \in Scope /\ p \in Paths /\ p \notin Spaced /\ InIndex(p)
  BY InputsAreTyped DEF Watched, GoPaths
<1>2. p \in GoPaths(Paths)
  BY <1>1 DEF Watched, GoPaths
<1>3. p \notin Committed /\ p \notin Dirty
  BY <1>1 DEF Inv, ChangesListed
<1>4. ~Differs(p, repo.base, repo.head) /\ ~Differs(p, repo.head, repo.work)
  BY <1>1, <1>2, <1>3 DEF Committed, Dirty, GoPaths
<1> QED BY <1>4 DEF Differs

\* A sequence of at most one element has one index at most.
LEMMA OneElement ==
  ASSUME NEW s, s \in Seq(Nat), ~(Len(s) > 1)
  PROVE  /\ s # <<>> => Len(s) = 1 /\ 1 \in DOMAIN s
         /\ \A i \in DOMAIN s : i = 1
<1>1. Len(s) \in Nat /\ DOMAIN s = 1..Len(s) /\ (s # <<>> => Len(s) > 0)
  OBVIOUS
<1>2. s # <<>> => Len(s) = 1
  BY <1>1
<1>3. s # <<>> => 1 \in DOMAIN s
  BY <1>1, <1>2
<1>4. \A i \in DOMAIN s : i = 1
  BY <1>1
<1> QED BY <1>2, <1>3, <1>4

\* When a comparison passes, every failing function of a tracked file in scope
\* was as bad on the merge-base, unless it shares its name; then the last of
\* that name was.
THEOREM NoDegradationPasses == Spec => []PassMeansNoWorse
<1>1. ASSUME Inv PROVE PassMeansNoWorse
  <2> SUFFICES ASSUME step = "passed", request.compare, ~blind,
                      NEW p \in Watched, NEW m \in Metrics,
                      NEW i \in DOMAIN repo.work[p].values[m],
                      Failing(p, m, repo.work[p].values[m][i])
               PROVE  LET was == repo.base[p].values[m]
                          now == repo.work[p].values[m]
                      IN  \/ i \in DOMAIN was /\ now[i] <= was[i]
                          \/ /\ Shared(p, m)
                             /\ was # <<>>
                             /\ now[i] <= LastValue(repo.base[p], m)
    BY DEF PassMeansNoWorse
  <2> DEFINE was == repo.base[p].values[m]
             now == repo.work[p].values[m]
             x == now[i]
  <2>1. repo \in Repos /\ p \in Paths /\ p \notin unread /\ step \in Reported
    BY <1>1, InputsAreTyped DEF Inv, OnItsWay, Watched, GoPaths, Reported
  <2>2. was \in Seq(Nat) /\ now \in Seq(Nat) /\ x \in Values(repo.work[p], m)
    BY <2>1, ContentTyped DEF Values
  <2>3. x \in Nat
    BY <2>2
  <2>4. CASE p \in changed
    <3>1. PICK v \in violations : /\ v.file = p /\ v.metric = m /\ v.actual = x
                                 /\ Fails(v.severity)
                                 /\ v.isNew = IsNew(v, missing)
      BY <1>1, <2>1, <2>2, <2>4, ReportedValue
    <3>2. ~IsNew(v, missing)
      BY <1>1, <3>1 DEF Inv, Verdict
    <3>3. was # <<>> /\ ~(x > LastValue(repo.base[p], m))
      BY <3>1, <3>2 DEF IsNew
    <3>4. LastValue(repo.base[p], m) \in Nat
      BY <2>2, <3>3, LastIsAValue
    <3>5. x <= LastValue(repo.base[p], m)
      BY <2>3, <3>3, <3>4
    <3>6. ASSUME ~Shared(p, m) PROVE i \in DOMAIN was /\ x <= was[i]
      <4>1. ~(Len(was) > 1) /\ ~(Len(now) > 1)
        BY <3>6 DEF Shared
      <4>2. Len(was) = 1 /\ 1 \in DOMAIN was /\ i = 1
        BY <2>2, <3>3, <4>1, OneElement
      <4>3. LastValue(repo.base[p], m) = was[i]
        BY <4>2 DEF LastValue
      <4> QED BY <3>5, <4>2, <4>3
    <3> QED BY <3>3, <3>5, <3>6
  <2>5. CASE p \notin changed
    <3>1. repo.work[p].kind = "source"
      BY <2>1, <2>2, MeasuredIsSource
    <3>2. repo.work[p] = repo.base[p]
      BY <1>1, <2>1, <2>5, <3>1, UnlistedIsUnchanged
    <3>3. i \in DOMAIN was /\ was[i] = x
      BY <3>2
    <3> QED BY <2>3, <3>3
  <2> QED BY <2>4, <2>5
<1> QED BY <1>1, InvCorrect, PTL

\* A comparison fails only for a value above all the base has under its name,
\* where git shows the file and the name is unique.
THEOREM LegacyDebtPasses == Spec => []FailMeansWorse
<1>1. ASSUME Inv PROVE FailMeansWorse
  <2> SUFFICES ASSUME step = "failed", request.compare
               PROVE  \E p \in GoPaths(Scope), m \in Metrics :
                        \E x \in Values(repo.work[p], m) :
                          /\ Failing(p, m, x)
                          /\ \/ p \in missing
                             \/ Len(repo.base[p].values[m]) > 1
                             \/ \A y \in Values(repo.base[p], m) : y < x
    BY DEF FailMeansWorse
  <2>1. step \in Reported
    BY DEF Reported
  <2>2. PICK v \in violations : v.isNew /\ Fails(v.severity)
    BY <1>1 DEF Inv, Verdict
  <2> DEFINE p == v.file
             m == v.metric
             x == v.actual
  <2>3. /\ p \in changed \ unread /\ m \in Metrics
        /\ x \in Values(repo.work[p], m)
        /\ v.severity = Classify(m, x)
        /\ IsNew(v, missing)
    BY <1>1, <2>1, <2>2, ReportedOnly
  <2>4. p \in GoPaths(Scope) /\ p \in Paths /\ repo \in Repos
    BY <1>1, <2>1, <2>3 DEF Inv, TypeOK, OnItsWay, ChangesListed, GoPaths
  <2>5. Failing(p, m, x)
    BY <2>2, <2>3 DEF Failing
  <2>6. x \in Nat /\ repo.base[p].values[m] \in Seq(Nat)
    BY <2>3, <2>4, ContentTyped
  <2>7. \/ p \in missing
        \/ Len(repo.base[p].values[m]) > 1
        \/ \A y \in Values(repo.base[p], m) : y < x
    <3>1. CASE p \in missing
      BY <3>1
    <3>2. CASE repo.base[p].values[m] = <<>>
      <4>1. Values(repo.base[p], m) = {}
        BY <3>2 DEF Values
      <4> QED BY <4>1
    <3>3. CASE /\ repo.base[p].values[m] # <<>>
               /\ x > LastValue(repo.base[p], m)
      <4>1. /\ LastValue(repo.base[p], m) \in Nat
            /\ ~(Len(repo.base[p].values[m]) > 1) =>
                 Values(repo.base[p], m) = {LastValue(repo.base[p], m)}
        BY <2>6, <3>3, LastIsAValue
      <4> QED BY <2>6, <3>3, <4>1
    <3> QED BY <2>3, <3>1, <3>2, <3>3 DEF IsNew
  <2> QED BY <2>3, <2>4, <2>5, <2>7
<1> QED BY <1>1, InvCorrect, PTL

\* Without a base the gate fails exactly when a file it could read has a
\* failing function.
THEOREM ScanIsComplete == Spec => []FullScanFindsAll
<1>1. ASSUME Inv PROVE FullScanFindsAll
  <2> DEFINE Found == \E p \in GoPaths(Scope) \ (Skipped \cup unread), m \in Metrics :
                        \E x \in Values(repo.work[p], m) : Failing(p, m, x)
  <2> SUFFICES ASSUME ~request.compare, step \in {"passed", "failed"}
               PROVE  step = "failed" <=> Found
    BY DEF FullScanFindsAll
  <2>1. /\ step \in Reported /\ repo \in Repos
        /\ changed = {p \in GoPaths(Scope) \ Skipped : repo.work[p].kind # "absent"}
    BY <1>1 DEF Inv, OnItsWay, EverythingListed, Reported
  <2>2. ASSUME step = "failed" PROVE Found
    <3>1. PICK v \in violations : v.isNew /\ Fails(v.severity)
      BY <1>1, <2>2 DEF Inv, Verdict
    <3>2. /\ v.file \in changed \ unread /\ v.metric \in Metrics
          /\ v.actual \in Values(repo.work[v.file], v.metric)
          /\ v.severity = Classify(v.metric, v.actual)
      BY <1>1, <2>1, ReportedOnly
    <3>3. Failing(v.file, v.metric, v.actual)
      BY <3>1, <3>2 DEF Failing
    <3> QED BY <2>1, <3>2, <3>3
  <2>3. ASSUME NEW p \in GoPaths(Scope) \ (Skipped \cup unread),
               NEW m \in Metrics, NEW x \in Values(repo.work[p], m),
               Failing(p, m, x)
        PROVE  step = "failed"
    <3>1. p \in Paths
      BY InputsAreTyped DEF GoPaths
    <3>2. p \in changed \ unread
      BY <2>1, <3>1, MeasuredIsSource
    <3>3. PICK v \in violations : Fails(v.severity) /\ v.isNew
      BY <1>1, <2>1, <2>3, <3>2, ReportedValue
    <3> QED BY <1>1, <3>3 DEF Inv, Verdict
  <2> QED BY <2>2, <2>3
<1> QED BY <1>1, InvCorrect, PTL
=============================================================================

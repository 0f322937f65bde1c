---------------------------- MODULE ReportSummary ----------------------------
(***************************************************************************)
(* reporthandling/results/v1/reportsummary: the summary of a scan.  Each   *)
(* appended resource result is folded into the control summaries of the    *)
(* whole report and of every framework that has the control, each under    *)
(* its own view of the result's exceptions; framework counters follow at   *)
(* once, the report's own counters when InitResourcesSummary closes it.    *)
(*                                                                         *)
(* A result is abstracted to what GetStatus(filters) returns for each of   *)
(* its controls and each set of framework names; ControlStatus says how    *)
(* it is computed.  A resource's result is appended once.                  *)
(***************************************************************************)
EXTENDS ScanStatus, ControlSeverity, FiniteSets, FiniteSetsExt

CONSTANTS
    Controls,           \* the controls of the report
    Frameworks,         \* the names of its frameworks
    FrameworkControls,  \* the controls of each framework
    ScoreFactor,        \* the score factor of each control
    Results,            \* the resource results that may come: [resource, views] each
    ControlInfos,       \* the controlInfoMap arguments of InitResourcesSummary
    MaxInits            \* bound: calls of InitResourcesSummary

Severities == {"Critical", "High", "Medium", "Low"}
Severity == [c \in Controls |-> ControlSeverityToString(ScoreFactor[c])]
Tallied == {StatusPassed, StatusFailed, StatusSkipped}

ASSUME ControlsAssumption == IsFiniteSet(Controls)
ASSUME FrameworksAssumption ==
    /\ "report" \notin Frameworks
    /\ FrameworkControls \in [Frameworks -> SUBSET Controls]
ASSUME ScoreFactorAssumption == ScoreFactor \in [Controls -> Nat]
ASSUME ResultsAssumption ==
    \A res \in {Results[i] : i \in DOMAIN Results} :
        /\ DOMAIN res.views \subseteq Controls
        /\ \A c \in DOMAIN res.views : \A fs \in SUBSET Frameworks :
              res.views[c][fs] \in [status : Tallied, sub : ScanningSubStatus]
(* A view by several frameworks is the worst of their single views (proved   *)
(* of the code's results in ResourceResult_proof, as JointViewCorrect).      *)
ASSUME JointViewAssumption ==
    \A res \in {Results[i] : i \in DOMAIN Results} :
        \A c \in DOMAIN res.views : \A fs \in (SUBSET Frameworks) \ {{}} :
            res.views[c][fs].status = Verdict({res.views[c][{f}].status : f \in fs})
ASSUME MaxInitsAssumption == MaxInits \in Nat
ASSUME InfosAssumption ==
    \A infos \in ControlInfos :
        /\ DOMAIN infos \subseteq Controls
        /\ \A c \in DOMAIN infos : infos[c] \in StatusInfo

VARIABLES
    summary,            \* summary[v][c]: the ControlSummary of c in view v
    totals,             \* totals[v]: StatusCounters and Status of the view
    resourcesSeverity,  \* ResourcesSeverityCounters
    controlsSeverity,   \* ControlsSeverityCounters
    appended,           \* history: which of the results were appended
    inits,              \* history: calls of InitResourcesSummary
    settled,            \* history: nothing was appended since the last one
    preset              \* history: the controls it gave a status to

vars == <<summary, totals, resourcesSeverity, controlsSeverity,
          appended, inits, settled, preset>>

(* The report as a whole and each framework hold a map of control summaries. *)
Report == "report"
Views == Frameworks \union {Report}
ControlsOf(v) == IF v = Report THEN Controls ELSE FrameworkControls[v]

ZeroTally == [s \in Tallied |-> 0]
NoResources == [r \in {} |-> StatusPassed]
NewControl ==
    [status |-> StatusUnknown, sub |-> SubStatusUnknown, tally |-> ZeroTally,
     ignored |-> 0, acknowledged |-> 0, resources |-> NoResources]

Init ==
    /\ summary = [v \in Views |-> [c \in ControlsOf(v) |-> NewControl]]
    /\ totals = [v \in Views |-> [tally |-> ZeroTally, status |-> StatusUnknown]]
    /\ resourcesSeverity = [s \in Severities |-> 0]
    /\ controlsSeverity = [s \in Severities |-> 0]
    /\ appended = {}
    /\ inits = 0
    /\ settled = FALSE
    /\ preset = {}

-----------------------------------------------------------------------------
(* One control summary. *)
Count(b) == IF b THEN 1 ELSE 0

calculateStatus(tally) ==
    IF tally[StatusFailed] # 0 THEN StatusFailed
    ELSE IF tally[StatusSkipped] # 0 THEN StatusSkipped
    ELSE StatusPassed

(* Mutated: the sub status is that of the last resource appended.            *)
calculateNSetSubStatus_Bug(status, old, new, tally) == new

(* calculateNSetSubStatus: the sub status of the summary is sticky, each     *)
(* status has its own precedence list, and what is on no list leaves the old *)
(* sub status of a passed or skipped control as it was.                      *)
calculateNSetSubStatus(status, old, new, tally) ==
    LET seen == {old, new}
            \union IF tally = ZeroTally THEN {SubStatusIrrelevant} ELSE {}
    IN  IF status = StatusPassed THEN
            Prefer(SubStatusIrrelevant, seen,
            Prefer(SubStatusException, seen,
            Prefer(SubStatusIncompleteCoverage, seen, old)))
        ELSE IF status = StatusSkipped THEN
            Prefer(SubStatusNotEvaluated, seen,
            Prefer(SubStatusConfiguration, seen,
            Prefer(SubStatusManualReview, seen,
            Prefer(SubStatusRequiresReview, seen, old))))
        ELSE FailedSubStatus(seen)

Calculated(c, new) ==
    LET status == calculateStatus(c.tally)
    IN  [c EXCEPT !.status = status,
                  !.sub = calculateNSetSubStatus(status, @, new, c.tally)]

(* Mutated: every exception on a resource that does not pass is acknowledged. *)
AppendToControl_Bug(c, info, r) ==
    [c EXCEPT !.resources = [x \in DOMAIN @ \union {r} |-> IF x # r THEN @[x] ELSE info.status],
              !.tally[info.status] = @ + 1,
              !.ignored = @ + Count(info = Info(StatusPassed, SubStatusException)),
              !.acknowledged = @ + Count(info.sub = SubStatusException)]

(* ControlSummary.Append: ResourceIDs, StatusCounters, SubStatusCounters.    *)
AppendToControl(c, info, r) ==
    [c EXCEPT !.resources = [x \in DOMAIN @ \union {r} |->
                    IF x # r THEN @[x]
                    ELSE IF r \in DOMAIN @ THEN Compare(@[r], info.status)
                    ELSE info.status],
              !.tally[info.status] = @ + 1,
              !.ignored = @ + Count(info = Info(StatusPassed, SubStatusException)),
              !.acknowledged = @ + Count(info = Info(StatusFailed, SubStatusException))]

-----------------------------------------------------------------------------
(* ListResourcesIDs: the resources of a map of control summaries, each with  *)
(* its most significant status, and StatusCounters.Set from it.              *)
Resources(cs) == UNION {DOMAIN cs[c].resources : c \in DOMAIN cs}
StatusesOf(cs, r) ==
    {cs[c].resources[r] : c \in {d \in DOMAIN cs : r \in DOMAIN cs[d].resources}}

ResourceTally(cs) ==
    [s \in Tallied |-> Cardinality({r \in Resources(cs) : Verdict(StatusesOf(cs, r)) = s})]

Total(cs) == [tally |-> ResourceTally(cs), status |-> calculateStatus(ResourceTally(cs))]

(* The framework names a view filters with: the report filters each control  *)
(* by the frameworks that have it.                                           *)
frameworksByControl(c) == {f \in Frameworks : c \in FrameworkControls[f]}

(* Mutated: the report filters every control by all its frameworks.          *)
FilterOf_Bug(v, c) == IF v = Report THEN Frameworks ELSE {v}

FilterOf(v, c) == IF v = Report THEN frameworksByControl(c) ELSE {v}

(* Mutated: the failures that all the frameworks see together are counted.   *)
FailedIn_Bug(result, s) ==
    {c \in DOMAIN result.views :
        Severity[c] = s /\ result.views[c][Frameworks].status = StatusFailed}

(* The failing controls of a result, as the report counts their severity.    *)
FailedIn(result, s) ==
    {c \in DOMAIN result.views :
        Severity[c] = s /\ result.views[c][FilterOf(Report, c)].status = StatusFailed}

(* updateControlsSummaryCountersWithFilter for the maps of all the views.    *)
Updated(result) ==
    [v \in Views |-> [c \in ControlsOf(v) |->
        IF c \notin DOMAIN result.views THEN summary[v][c]
        ELSE LET info == result.views[c][FilterOf(v, c)]
             IN  Calculated(AppendToControl(summary[v][c], info, result.resource), info.sub)]]

AppendResourceResult(i) ==
    /\ \A earlier \in appended : Results[earlier].resource # Results[i].resource
    /\ summary' = Updated(Results[i])
    /\ resourcesSeverity' =
            [s \in Severities |-> resourcesSeverity[s] + Cardinality(FailedIn(Results[i], s))]
    /\ totals' = [v \in Views |-> IF v = Report THEN totals[v] ELSE Total(summary'[v])]
    /\ appended' = appended \union {i}
    /\ settled' = FALSE
    /\ UNCHANGED <<controlsSeverity, inits, preset>>

-----------------------------------------------------------------------------
(* InitResourcesSummary: a status supplied for the control takes the place   *)
(* of the one computed; a control without any gets the status of no resource.*)
Supplied(infos) == {c \in DOMAIN infos : infos[c].status # StatusUnknown}

Initialized(c, info, supplied) ==
    IF supplied THEN [c EXCEPT !.status = info.status, !.sub = info.sub]
    ELSE IF c.status = StatusUnknown THEN Calculated(c, SubStatusUnknown)
    ELSE c

InitializedIn(v, infos) ==
    [c \in ControlsOf(v) |->
        IF c \in Supplied(infos) THEN Initialized(summary[v][c], infos[c], TRUE)
        ELSE Initialized(summary[v][c], <<>>, FALSE)]

FailedControls(s) ==
    {c \in Controls : Severity[c] = s /\ summary[Report][c].status = StatusFailed}

InitResourcesSummary(infos) ==
    /\ inits < MaxInits
    /\ summary' = [v \in Views |-> InitializedIn(v, infos)]
    /\ controlsSeverity' =
            [s \in Severities |-> controlsSeverity[s] + Cardinality(FailedControls(s)')]
    /\ totals' = [v \in Views |-> Total(summary'[v])]
    /\ inits' = inits + 1
    /\ settled' = TRUE
    /\ preset' = preset \union Supplied(infos)
            \union {c \in Controls : summary[Report][c].status = StatusUnknown}
    /\ UNCHANGED <<resourcesSeverity, appended>>

Next ==
    \/ \E i \in DOMAIN Results : AppendResourceResult(i)
    \/ \E infos \in ControlInfos : InitResourcesSummary(infos)

Spec == Init /\ [][Next]_vars

-----------------------------------------------------------------------------
Counted == {Results[i].resource : i \in appended}

(* Type invariant. *)
TypeOK ==
    /\ DOMAIN summary = Views
    /\ \A v \in Views :
          /\ DOMAIN summary[v] = ControlsOf(v)
          /\ \A c \in ControlsOf(v) :
                /\ Info(summary[v][c].status, summary[v][c].sub) \in StatusInfo
                /\ summary[v][c].tally \in [Tallied -> Nat]
                /\ DOMAIN summary[v][c].resources \subseteq Counted
    /\ totals \in [Views -> [tally : [Tallied -> Nat], status : ScanningStatus]]
    /\ resourcesSeverity \in [Severities -> Nat]
    /\ controlsSeverity \in [Severities -> Nat]
    /\ inits \in 0..MaxInits
    /\ settled \in BOOLEAN /\ preset \subseteq Controls

(* The results that concern control c, and what view v sees of them.         *)
ResultsOf(c) == {i \in appended : c \in DOMAIN Results[i].views}
Seen(v, c, i) ==
    Results[i].views[c][IF v = Report THEN {f \in Frameworks : c \in FrameworkControls[f]} ELSE {v}]

(* A resource is counted once in a view, under its worst control there:      *)
(* after every append in the frameworks, after InitResourcesSummary in the   *)
(* report, whatever statuses were supplied for controls meanwhile.           *)
TotalsMatchResults ==
    \A v \in Views :
        settled \/ (v # Report /\ appended # {}) =>
            \A s \in Tallied :
                totals[v].tally[s] =
                    Cardinality({i \in appended :
                        Verdict({Seen(v, c, i).status :
                                    c \in DOMAIN Results[i].views \intersect ControlsOf(v)}) = s})

Failures == [c \in Controls |-> summary[Report][c].tally[StatusFailed]]
OfSeverity(s) == {c \in Controls : Severity[c] = s}

(* The report's resource severity counters, made in a second pass over each  *)
(* result, agree with the failed counters of its control summaries, made in  *)
(* the first (AppendResourceResult).                                         *)
SeverityMatchesFailures ==
    \A s \in Severities : resourcesSeverity[s] = SumFunctionOnSet(Failures, OfSeverity(s))

(* The three counts a control summary keeps by separate calls (StatusCounters, *)
(* ResourceIDs, SubStatusCounters) are counts of the same resources, and those *)
(* of a whole view, made of the union of its controls' resources, are counts of *)
(* the results.                                                              *)
ControlCountersMatch(v, c) ==
    LET cs == summary[v][c]
        results(infos) == {i \in ResultsOf(c) : Seen(v, c, i) \in infos}
    IN  /\ \A s \in Tallied :
              /\ cs.tally[s] = Cardinality({i \in ResultsOf(c) : Seen(v, c, i).status = s})
              /\ cs.tally[s] = Cardinality({r \in DOMAIN cs.resources : cs.resources[r] = s})
        /\ cs.ignored = Cardinality(results({Info(StatusPassed, SubStatusException)}))
        /\ cs.acknowledged = Cardinality(results({Info(StatusFailed, SubStatusException)}))

CountersCount ==
    /\ TotalsMatchResults
    /\ \A v \in Views : \A c \in ControlsOf(v) : ControlCountersMatch(v, c)

(* No control appears in a view that does not have it, and every counter      *)
(* counts what it says (updateControlsSummaryCountersWithFilter).            *)
CountersMatchResources == TypeOK /\ CountersCount

(* The report shows a control as the worst of the frameworks that have it    *)
(* show it, although it folds another view of every result and nothing       *)
(* compares the two; so an exception scoped to one framework hides a failure *)
(* from the report only when every other framework with the control passes.  *)
AggregateIsWorstFramework ==
    \A c \in Controls :
        LET fs == {f \in Frameworks : c \in FrameworkControls[f]}
        IN  fs # {} =>
              /\ \A f \in fs : Rank(summary[f][c].status) <= Rank(summary[Report][c].status)
              /\ \E f \in fs : summary[f][c].status = summary[Report][c].status

(* The sub status of a control summary is sticky and updated resource by     *)
(* resource; still it ends up the most specific one that a resource with the *)
(* control's own status reported, in whatever order they were appended.      *)
Precedence(status) ==
    IF status = StatusPassed
    THEN <<SubStatusIrrelevant, SubStatusException, SubStatusIncompleteCoverage>>
    ELSE IF status = StatusSkipped
    THEN <<SubStatusNotEvaluated, SubStatusConfiguration,
           SubStatusManualReview, SubStatusRequiresReview>>
    ELSE <<SubStatusException>>

SubStatusIsMostSpecific ==
    \A v \in Views : \A c \in ControlsOf(v) \ preset :
        LET cs == summary[v][c]
            order == Precedence(cs.status)
            reported == {Seen(v, c, i).sub :
                            i \in {x \in ResultsOf(c) : Seen(v, c, x).status = cs.status}}
        IN  \A k \in DOMAIN order :
                order[k] \in reported =>
                    \E j \in 1..k : cs.sub = order[j]
=============================================================================

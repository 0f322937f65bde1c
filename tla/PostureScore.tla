----------------------------- MODULE PostureScore -----------------------------
(***************************************************************************)
(* score/score.go against the v2 model: the risk scores and the compliance  *)
(* scores of a report summary, its frameworks and their controls.  Results  *)
(* are appended before, between and after the calculations, each of which   *)
(* is made with the resources its own NewScore was given.                   *)
(*                                                                         *)
(* Scores are whole percents here, truncated; the code's are float32.  The  *)
(* weight of a resource (GetScore) is in tenths, so that replicaFactor is   *)
(* whole.                                                                   *)
(***************************************************************************)
EXTENDS ReportSummary, Sequences

CONSTANTS
    FrameworkOrder,  \* the frameworks, in the order of the summary's slice
    Object,          \* the workloads of each resource, [replicas, desired]: itself, or
                     \* those a vector relates, or none
    ResourceMaps,    \* the sets of resources the scores are calculated with
    MaxScored        \* bound: the results appended when scores are calculated

ASSUME ObjectAssumption ==
    \A r \in DOMAIN Object :
        IsFiniteSet(Object[r]) /\ Object[r] \subseteq [replicas : Nat, desired : Nat]
ASSUME ResourceMapsAssumption == \A known \in ResourceMaps : known \subseteq DOMAIN Object

VARIABLES
    risk,             \* Score: risk.view[v], risk.control[v][c]
    compliance,       \* ComplianceScore, likewise
    riskBy,           \* history: {known} if risk was calculated with known since
                      \* the summary last changed, {} if not
    complianceFresh   \* history: the same of compliance

scores == <<risk, compliance, riskBy, complianceFresh>>

Unscored == [view |-> [v \in Views |-> 0],
             control |-> [v \in Views |-> [c \in ControlsOf(v) |-> 0]]]

ScoreInit ==
    /\ Init
    /\ risk = Unscored
    /\ compliance = Unscored
    /\ riskBy = {}
    /\ complianceFresh = FALSE

-----------------------------------------------------------------------------
(* Tenths; desired is 0 unless the workload is a daemonset.                  *)
processWorkload(w) ==
    (IF w.replicas > 1 THEN 11 * w.replicas ELSE 10) * (IF w.desired > 0 THEN w.desired ELSE 1)

(* A vector weighs as much as the heaviest workload it relates, at least 1.  *)
GetScore(workloads) == Max({10} \union {processWorkload(w) : w \in workloads})

Weights == [r \in DOMAIN Object |-> GetScore(Object[r])]
Weigh(resources) == SumFunctionOnSet(Weights, resources)

(* ControlV2Score: the failed weight and the weight of all resources known.  *)
Unnormalized(v, c, known) ==
    ScoreFactor[c] *
        Weigh({r \in known \intersect DOMAIN summary[v][c].resources :
                  summary[v][c].resources[r] = StatusFailed})

Wcs(v, c, known) == ScoreFactor[c] * Weigh(known \intersect DOMAIN summary[v][c].resources)

Percent(part, whole) == IF whole > 0 THEN (part * 100) \div whole ELSE 0

(* Mutated: the old score of the control is not reset.                       *)
ControlScores_Bug(v, known) ==
    [c \in ControlsOf(v) |->
        Min({100, risk.control[v][c] + Percent(Unnormalized(v, c, known), Wcs(v, c, known))})]

(* ControlsSummariesScore: the score of every control, and the two sums.     *)
ControlScores(v, known) ==
    [c \in ControlsOf(v) |-> Percent(Unnormalized(v, c, known), Wcs(v, c, known))]

TotalUnnormalized(v, known) == SumFunction([c \in ControlsOf(v) |-> Unnormalized(v, c, known)])
TotalWcs(v, known) == SumFunction([c \in ControlsOf(v) |-> Wcs(v, c, known)])

(* Mutated: the percentages of the controls are added up.                    *)
ViewScore_Bug(v, known) == SumFunction(ControlScores(v, known))

ViewScore(v, known) == Percent(TotalUnnormalized(v, known), TotalWcs(v, known))

allControlsInFrameworkIrrelevant(f) ==
    \A c \in ControlsOf(f) :
        /\ summary[f][c].resources = NoResources
        /\ summary[f][c].sub = SubStatusIrrelevant

Irrelevant(f) == ControlsOf(f) # {} /\ allControlsInFrameworkIrrelevant(f)

(* The frameworks that cannot be scored, and what is scored before the first *)
(* of them ends the calculation.                                             *)
Bad(known) ==
    {i \in DOMAIN FrameworkOrder :
        TotalWcs(FrameworkOrder[i], known) = 0 /\ ~Irrelevant(FrameworkOrder[i])}

Reached(known) ==
    IF Bad(known) = {} THEN Frameworks
    ELSE {FrameworkOrder[i] : i \in 1 .. Min(Bad(known))}

(* Mutated: a framework that cannot be weighed keeps its score.              *)
FrameworkScore_Bug(f, known) ==
    IF TotalWcs(f, known) > 0 THEN ViewScore(f, known)
    ELSE IF Irrelevant(f) THEN 100
    ELSE risk.view[f]

FrameworkScore(f, known) ==
    IF TotalWcs(f, known) > 0 THEN ViewScore(f, known)
    ELSE IF Irrelevant(f) THEN 100
    ELSE 0

(* The summary's own score is left alone when there is nothing to weigh.     *)
RiskAfter(known) ==
    LET reached == Reached(known)
        complete == Bad(known) = {}
    IN  [view |-> [v \in Views |->
            IF v \in reached THEN FrameworkScore(v, known)
            ELSE IF v = Report /\ complete /\ TotalWcs(Report, known) > 0 THEN ViewScore(Report, known)
            ELSE risk.view[v]],
         control |-> [v \in Views |->
            IF v \in reached \/ (v = Report /\ complete) THEN ControlScores(v, known)
            ELSE risk.control[v]]]

Scorable == Cardinality(appended) <= MaxScored

CalculatePostureReportV2(known) ==
    /\ Scorable
    /\ risk' = RiskAfter(known)
    /\ riskBy' = IF Bad(known) = {} THEN {known} ELSE {}
    /\ UNCHANGED <<compliance, complianceFresh, vars>>

-----------------------------------------------------------------------------
(* GetControlComplianceScore.                                                *)
ControlCompliance(v, c) ==
    LET resources == summary[v][c].resources
        passed == {r \in DOMAIN resources : resources[r] = StatusPassed}
    IN  IF summary[v][c].status = StatusPassed THEN 100
        ELSE Percent(Cardinality(passed), Cardinality(DOMAIN resources))

(* Mutated: a framework without failing controls is fully compliant.         *)
ViewCompliance_Bug(v) ==
    LET passed == {c \in ControlsOf(v) : summary[v][c].status # StatusFailed}
    IN  Percent(Cardinality(passed), Cardinality(ControlsOf(v)))

ViewCompliance(v) ==
    IF ControlsOf(v) = {} THEN 0
    ELSE SumFunction([c \in ControlsOf(v) |-> ControlCompliance(v, c)])
            \div Cardinality(ControlsOf(v))

(* An error of the risk scores leaves every compliance score as it was.      *)
SetPostureReportComplianceScores(known) ==
    /\ Scorable
    /\ risk' = RiskAfter(known)
    /\ riskBy' = IF Bad(known) = {} THEN {known} ELSE {}
    /\ IF Bad(known) # {}
       THEN UNCHANGED <<compliance, complianceFresh>>
       ELSE /\ compliance' =
                    [view |-> [v \in Views |-> ViewCompliance(v)],
                     control |-> [v \in Views |-> [c \in ControlsOf(v) |-> ControlCompliance(v, c)]]]
            /\ complianceFresh' = TRUE
    /\ UNCHANGED vars

Untouched == risk = Unscored /\ compliance = Unscored

SummaryChanges ==
    /\ Next
    /\ Untouched \/ Scorable'
    /\ riskBy' = {}
    /\ complianceFresh' = FALSE
    /\ UNCHANGED <<risk, compliance>>

ScoreNext ==
    \/ SummaryChanges
    \/ \E known \in ResourceMaps :
          CalculatePostureReportV2(known) \/ SetPostureReportComplianceScores(known)

ScoreSpec == ScoreInit /\ [][ScoreNext]_<<vars, scores>>

-----------------------------------------------------------------------------
(* Type invariant: every score is a percentage. *)
ScoresOK(s) ==
    /\ s.view \in [Views -> 0 .. 100]
    /\ DOMAIN s.control = Views
    /\ \A v \in Views : s.control[v] \in [ControlsOf(v) -> 0 .. 100]

ScoreTypeOK ==
    /\ ScoresOK(risk) /\ ScoresOK(compliance)
    /\ riskBy \in SUBSET ResourceMaps
    /\ complianceFresh \in BOOLEAN

(* A view that is fully compliant counts no resource that failed or was       *)
(* skipped: the compliance score comes from the controls' own statuses and    *)
(* lists, the counters from the most significant status of each resource.     *)
FullyCompliant(v) ==
    compliance.view[v] = 100 /\ (v # Report \/ settled) =>
        totals[v].tally[StatusFailed] = 0 /\ totals[v].tally[StatusSkipped] = 0

(* Risk is computed from weights and compliance from counts; where every      *)
(* resource is known and weighs the same and none was skipped, the scores of  *)
(* a control with a score factor add up to the whole (less what truncation    *)
(* takes).                                                                    *)
Mirrored(v, c, known) ==
    LET resources == summary[v][c].resources IN
    (/\ ScoreFactor[c] > 0
     /\ DOMAIN resources # {} /\ DOMAIN resources \subseteq known
     /\ \A r, s \in DOMAIN resources : GetScore(Object[r]) = GetScore(Object[s])
     /\ \A r \in DOMAIN resources : resources[r] # StatusSkipped)
    => risk.control[v][c] + compliance.control[v][c] \in 99 .. 100

(* The compliance scores agree with the counters and with the risk scores,    *)
(* which are computed apart from them.                                        *)
ComplianceAgrees ==
    complianceFresh =>
        \A v \in Views :
            /\ FullyCompliant(v)
            /\ \A known \in riskBy : \A c \in ControlsOf(v) : Mirrored(v, c, known)

(* Every score is a percentage, and the risk of a view is a mean of the risks  *)
(* of the controls that weigh something, never outside their range.            *)
RiskIsMeanOfControls ==
    /\ ScoreTypeOK
    /\ \A known \in riskBy : \A v \in Views :
           LET weighed == {c \in ControlsOf(v) : Wcs(v, c, known) > 0} IN
           weighed # {} =>
               /\ \E c \in weighed : risk.control[v][c] <= risk.view[v]
               /\ \E c \in weighed : risk.control[v][c] >= risk.view[v]

(* A calculation that ends at a framework it cannot weigh leaves new scores    *)
(* before that framework and older ones after it; still each view has a score  *)
(* and controls of one calculation, whatever results came since: the score is  *)
(* among those of its controls, or no control has any risk, and then that of a *)
(* framework is 0, or 100 by decree (allControlsInFrameworkIrrelevant), and    *)
(* only the summary may still have an older one.                               *)
ViewsScoredAsWhole ==
    \A v \in Views :
        LET scored == risk.control[v] IN
        \/ /\ \E c \in ControlsOf(v) : scored[c] <= risk.view[v]
           /\ \E c \in ControlsOf(v) : scored[c] >= risk.view[v]
        \/ /\ \A c \in ControlsOf(v) : scored[c] = 0
           /\ v \in Frameworks =>
                 risk.view[v] = 0 \/ (risk.view[v] = 100 /\ ControlsOf(v) # {})

(* Calculating again what has not changed changes no score.                    *)
RecalculationIsStable ==
    [][\A known \in riskBy :
          CalculatePostureReportV2(known) => risk' = risk]_<<vars, scores>>
=============================================================================

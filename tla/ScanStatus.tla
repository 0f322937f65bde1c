------------------------------ MODULE ScanStatus ------------------------------
(***************************************************************************)
(* The status algebra of reporthandling/apis/statuses.go: the scanning     *)
(* statuses, their sub statuses, and the two "take the more significant"   *)
(* operators that every aggregation in the library folds with.  Pure       *)
(* definitions, no state.                                                  *)
(***************************************************************************)
EXTENDS Naturals

StatusPassed  == "passed"
StatusFailed  == "failed"
StatusSkipped == "skipped"
StatusUnknown == ""

DeprecatedStatus == {"excluded", "irrelevant", "error"}
ScanningStatus ==
    {StatusPassed, StatusFailed, StatusSkipped, StatusUnknown} \union DeprecatedStatus

SubStatusException          == "w/exceptions"
SubStatusIrrelevant         == "irrelevant"
SubStatusConfiguration      == "configuration"
SubStatusIntegration        == "integration"
SubStatusRequiresReview     == "requires review"
SubStatusManualReview       == "manual review"
SubStatusNotEvaluated       == "notEvaluated"
SubStatusIncompleteCoverage == "incompleteCoverage"
SubStatusUnknown            == ""

ScanningSubStatus ==
    {SubStatusException, SubStatusIrrelevant, SubStatusConfiguration,
     SubStatusIntegration, SubStatusRequiresReview, SubStatusManualReview,
     SubStatusNotEvaluated, SubStatusIncompleteCoverage, SubStatusUnknown}

-----------------------------------------------------------------------------
(* Compare: failed beats skipped beats everything else; two unknowns stay   *)
(* unknown, any other pair is reported as passed.                           *)
Compare(a, b) ==
    IF StatusFailed \in {a, b} THEN StatusFailed
    ELSE IF StatusSkipped \in {a, b} THEN StatusSkipped
    ELSE IF a = StatusUnknown /\ b = StatusUnknown THEN StatusUnknown
    ELSE StatusPassed

(* Prefer(s, S, other): s when it is one of the sub statuses S.             *)
Prefer(s, S, other) == IF s \in S THEN s ELSE other

(* The sub status reported with each status when the two operands carry the *)
(* sub statuses S: the first of the status' own precedence list that occurs. *)
PassedSubStatus(S) ==
    Prefer(SubStatusException, S,
    Prefer(SubStatusIncompleteCoverage, S,
    Prefer(SubStatusIrrelevant, S, SubStatusUnknown)))

SkippedSubStatus(S) ==
    Prefer(SubStatusNotEvaluated, S,
    Prefer(SubStatusConfiguration, S,
    Prefer(SubStatusIntegration, S,
    Prefer(SubStatusRequiresReview, S,
    Prefer(SubStatusManualReview, S, SubStatusUnknown)))))

FailedSubStatus(S) == Prefer(SubStatusException, S, SubStatusUnknown)

SubStatusFor(status, S) ==
    IF status = StatusFailed THEN FailedSubStatus(S)
    ELSE IF status = StatusPassed THEN PassedSubStatus(S)
    ELSE IF status = StatusSkipped THEN SkippedSubStatus(S)
    ELSE SubStatusUnknown

(* A status with its sub status (apis.StatusInfo; the info text is wording). *)
StatusInfo == [status : ScanningStatus, sub : ScanningSubStatus]

Info(status, sub) == [status |-> status, sub |-> sub]

CompareStatusAndSubStatus(x, y) ==
    LET status == Compare(x.status, y.status)
    IN  Info(status, SubStatusFor(status, {x.sub, y.sub}))

-----------------------------------------------------------------------------
(* The significance Compare orders statuses by.  Deprecated values and the  *)
(* unknown status rank together, below passed.                              *)
Rank(s) ==
    IF s = StatusFailed THEN 3
    ELSE IF s = StatusSkipped THEN 2
    ELSE IF s = StatusPassed THEN 1
    ELSE 0

(* The class a status is counted under by AllLists.updateCounters: every    *)
(* value but the three current statuses is "other".                         *)
Classes == {StatusPassed, StatusFailed, StatusSkipped, "other"}

Class(s) ==
    IF s \in {StatusPassed, StatusFailed, StatusSkipped} THEN s ELSE "other"

(* The class of a (non-empty) set of statuses: that of the most           *)
(* significant one.                                                         *)
Verdict(S) ==
    IF StatusFailed \in S THEN StatusFailed
    ELSE IF StatusSkipped \in S THEN StatusSkipped
    ELSE IF StatusPassed \in S THEN StatusPassed
    ELSE "other"
=============================================================================

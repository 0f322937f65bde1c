---------------------------- MODULE SummaryStatus ----------------------------
(***************************************************************************)
(* reporthandling/results/v1/reportsummary/utils.go,                       *)
(* statusWithControlSubStatuses: the sub status that GetStatus of a report *)
(* or a framework shows is folded over the map of its control summaries,   *)
(* one control per step in Go's arbitrary map order, with                  *)
(* CompareStatusAndSubStatus.  Only the sub status of the comparison is    *)
(* kept: the status is the cached one.                                     *)
(***************************************************************************)
EXTENDS ScanStatus

CONSTANTS
    Controls    \* the controls of the summary

VARIABLES
    status,     \* the cached Status, as calculateStatus leaves it
    subOf,      \* subOf[c]: the sub status of control c
    todo,       \* the controls the loop has not visited
    subStatus   \* the loop's accumulator

vars == <<status, subOf, todo, subStatus>>

Init ==
    /\ status \in {StatusPassed, StatusFailed, StatusSkipped}
    /\ subOf \in [Controls -> ScanningSubStatus]
    /\ todo = Controls
    /\ subStatus = SubStatusUnknown

(* Mutated: the control's own sub status is passed for both operands.        *)
Combined_Bug(acc, sub) ==
    CompareStatusAndSubStatus(Info(status, sub), Info(status, sub)).sub

Combined(acc, sub) ==
    CompareStatusAndSubStatus(Info(status, acc), Info(status, sub)).sub

Visit(c) ==
    /\ c \in todo
    /\ subStatus' = Combined(subStatus, subOf[c])
    /\ todo' = todo \ {c}
    /\ UNCHANGED <<status, subOf>>

Next == \E c \in Controls : Visit(c)

Spec == Init /\ [][Next]_vars

-----------------------------------------------------------------------------
(* Type invariant. *)
TypeOK ==
    /\ status \in {StatusPassed, StatusFailed, StatusSkipped}
    /\ subOf \in [Controls -> ScanningSubStatus]
    /\ todo \subseteq Controls
    /\ subStatus \in ScanningSubStatus

(* Folding two sub statuses at a time forgets all but one of them at each    *)
(* step, in an order that changes from call to call.  What is left is still  *)
(* the first of the status' precedence list among ALL the controls visited:  *)
(* so two calls of GetStatus on one report agree.                            *)
OrderIndependent ==
    subStatus = SubStatusFor(status, {subOf[c] : c \in Controls \ todo})
=============================================================================

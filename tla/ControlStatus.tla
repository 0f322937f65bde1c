---------------------------- MODULE ControlStatus ----------------------------
(***************************************************************************)
(* reporthandling/results/v1/resourcesresults: the status of a rule, of a  *)
(* control and of a resource, raw or as one or several frameworks see it,  *)
(* after exceptions and the control's actionRequired attribute.  Pure      *)
(* definitions; ResourceResult is the state machine over them.             *)
(***************************************************************************)
EXTENDS PosturePolicy, Integers, Sequences, SequencesExt

CONSTANTS
    Resource  \* the resource the result is about

-----------------------------------------------------------------------------
(* The loop that combines statuses: each is compared with what came before. *)
Compared(start, infos) == FoldLeft(CompareStatusAndSubStatus, start, infos)

(* Rules.  A rule: name, status, sub, config ("absent", "blank" or "set":   *)
(* its ControlConfigurations), exceptions.                                  *)

allExceptionsAlertOnly(exceptions) ==
    exceptions # {} /\ \A e \in exceptions : e.alertOnly

statusWithExceptions(rule, matching) ==
    IF matching = {} THEN Info(rule.status, rule.sub)
    ELSE IF allExceptionsAlertOnly(matching) THEN Info(StatusFailed, SubStatusException)
    ELSE Info(StatusPassed, SubStatusException)

(* A filter is a sequence of framework names, empty names dropped; NoFilter *)
(* is the nil filter.                                                       *)
NoFilter == <<"nil">>
ListFrameworkNames(filter) ==
    IF filter = NoFilter THEN <<>>
    ELSE FoldLeft(LAMBDA fn, f : IF f = Unset THEN fn ELSE Append(fn, f), <<>>, filter)

(* The names of a filter, each once, in the order they first occur.         *)
Distinct(names) ==
    FoldLeft(LAMBDA seen, f : IF Contains(seen, f) THEN seen ELSE Append(seen, f), <<>>, names)

(* What a rule shows to the frameworks fs, taken together.                   *)
RuleView(rule, fs, controlID) ==
    statusWithExceptions(rule,
        FilterExceptionsByFrameworks(rule.exceptions, fs, controlID, rule.name))

(* Mutated: the exceptions of all the frameworks are pooled.                 *)
ruleStatus_Bug(rule, names, controlID) ==
    IF rule.status # StatusFailed THEN Info(rule.status, rule.sub)
    ELSE RuleView(rule, ToSet(names), controlID)

ruleStatus(rule, names, controlID) ==
    LET frameworks == Distinct(names)
    IN  IF rule.status # StatusFailed THEN Info(rule.status, rule.sub)
        ELSE IF names = <<>> THEN RuleView(rule, {}, controlID)
        ELSE Compared(Info(StatusUnknown, SubStatusUnknown),
                      [k \in DOMAIN frameworks |-> RuleView(rule, {frameworks[k]}, controlID)])

-----------------------------------------------------------------------------
(* Controls. *)
isOldControl(c) == c.status.status = StatusUnknown

rulesStatus(c, names) ==
    Compared(Info(StatusPassed, SubStatusUnknown),
             [k \in DOMAIN c.rules |-> ruleStatus(c.rules[k], names, c.id)])

(* The first rule whose configurations are not all blank decides.           *)
controlMissingAllConfigurations(c) ==
    LET k == SelectInSeq(c.rules, LAMBDA rule : rule.config # "blank")
    IN  k = 0 \/ c.rules[k].config = "absent"

ReviewActions == {SubStatusRequiresReview, SubStatusManualReview}

(* The same rule is applied by SetStatus and by applyActionRequiredStatus.  *)
WithActionRequired(action, c, info) ==
    IF info.status = StatusFailed /\ action \in ReviewActions
    THEN Info(StatusSkipped, action)
    ELSE IF /\ action = SubStatusConfiguration
            /\ controlMissingAllConfigurations(c)
            /\ info.sub # SubStatusNotEvaluated
    THEN Info(StatusSkipped, SubStatusConfiguration)
    ELSE info

(* Mutated: not recovered from the stored sub status.                        *)
effectiveActionRequired_Bug(c) == c.actionRequired

effectiveActionRequired(c) ==
    IF c.actionRequired # SubStatusUnknown THEN c.actionRequired
    ELSE IF c.status.sub \in ReviewActions \union {SubStatusConfiguration} THEN c.status.sub
    ELSE SubStatusUnknown

GetStatus(c, filter) ==
    IF isOldControl(c) THEN rulesStatus(c, ListFrameworkNames(filter))
    ELSE IF filter = NoFilter THEN c.status
    ELSE WithActionRequired(effectiveActionRequired(c), c,
                            rulesStatus(c, ListFrameworkNames(filter)))

(* ResourceAssociatedControl.SetStatus(c): cache the raw view.              *)
WithStatus(c, action) ==
    [c EXCEPT !.actionRequired = action,
              !.status = WithActionRequired(action, c, rulesStatus(c, <<>>))]

(* rule.setExceptions and control.setExceptions.                            *)
RuleWithExceptions(rule, policies) ==
    IF ruleStatus(rule, <<>>, Unset).status # StatusFailed THEN rule
    ELSE [rule EXCEPT !.exceptions =
            GetResourceExceptions(ListRuleExceptions(policies, Unset, Unset, rule.name), Resource)]

(* Mutated: the status is cached before the exceptions are attached.         *)
ControlWithExceptions_Bug(c, policies, action) ==
    LET own == ListRuleExceptions(policies, Unset, c.id, Unset)
    IN  IF GetStatus(c, NoFilter).status = StatusPassed THEN c
        ELSE [WithStatus(c, action) EXCEPT !.rules =
                [k \in DOMAIN c.rules |-> RuleWithExceptions(c.rules[k], own)]]

ControlWithExceptions(c, policies, action) ==
    LET own == ListRuleExceptions(policies, Unset, c.id, Unset)
    IN  IF GetStatus(c, NoFilter).status = StatusPassed THEN c
        ELSE WithStatus([c EXCEPT !.rules =
                            [k \in DOMAIN c.rules |-> RuleWithExceptions(c.rules[k], own)]],
                        action)

(* Result.GetStatus(f): the fold over the controls.                         *)
ResultStatus(cs, filter) ==
    Compared(Info(StatusUnknown, SubStatusUnknown),
             [k \in DOMAIN cs |-> GetStatus(cs[k], filter)])

(* The report is marshalled and read back: actionRequired is not exported.  *)
Reloaded(c) == [c EXCEPT !.actionRequired = SubStatusUnknown]
=============================================================================

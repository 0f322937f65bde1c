---------------------------- MODULE ResourceResult ----------------------------
(***************************************************************************)
(* reporthandling/results/v1/resourcesresults: the result of scanning one  *)
(* resource.  Each associated control has rules with raw statuses; calls   *)
(* to SetStatus and SetExceptions, in any order, attach exceptions to the  *)
(* rules and cache a control status; GetStatus(filters) gives the raw view *)
(* (no framework) or a framework view of it; a report that is written as   *)
(* JSON and read back loses the unexported field actionRequired.           *)
(***************************************************************************)
EXTENDS ControlStatus

CONSTANTS
    Results,        \* the evaluated results a scan can start from
    Frameworks,     \* framework names that views are asked for
    Filters,        \* lists of them, with repetitions or without
    PolicyLists,    \* the exception policies SetExceptions can be given
    Attributes,     \* the values of a control's actionRequired attribute
    MaxCalls        \* bound: calls of SetExceptions

(* An evaluated rule: a failure comes without a sub status, or acknowledged. *)
Evaluated(rule) ==
    /\ DOMAIN rule = {"name", "status", "sub", "config", "exceptions"}
    /\ rule.name # Unset
    /\ rule.status \in ScanningStatus /\ rule.sub \in ScanningSubStatus
    /\ rule.status = StatusFailed => rule.sub \in {SubStatusUnknown, SubStatusException}
    /\ rule.config \in {"absent", "blank", "set"}
    /\ rule.exceptions = {}

IsSequence(s) == DOMAIN s = 1 .. Len(s) /\ Len(s) \in Nat

ASSUME ResultsAssumption ==
    \A cs \in Results :
        /\ IsSequence(cs)
        /\ \A k \in DOMAIN cs :
              /\ DOMAIN cs[k] = {"id", "rules", "actionRequired", "status"}
              /\ cs[k].id # Unset
              /\ cs[k].actionRequired = SubStatusUnknown
              /\ cs[k].status = Info(StatusUnknown, SubStatusUnknown)
              /\ IsSequence(cs[k].rules)
              /\ \A j \in DOMAIN cs[k].rules : Evaluated(cs[k].rules[j])
ASSUME FiltersAssumption ==
    /\ Unset \notin Frameworks /\ "nil" \notin Frameworks
    /\ \A filter \in Filters : filter \in Seq(Frameworks)
ASSUME PoliciesAssumption ==
    \A policies \in PolicyLists : \A p \in policies :
        DOMAIN p = {"id", "alertOnly", "tuples", "resources"} /\ p.alertOnly \in BOOLEAN
ASSUME AttributesAssumption == Attributes \subseteq ScanningSubStatus
ASSUME MaxCallsAssumption == MaxCalls \in Nat

VARIABLES
    controls,   \* Result.AssociatedControls
    attribute,  \* attribute[id]: actionRequired in the definition of control id
    applied     \* history: the policies given to each SetExceptions call

vars == <<controls, attribute, applied>>

ControlIDs(cs) == {cs[k].id : k \in DOMAIN cs}

Init ==
    /\ controls \in Results
    /\ attribute \in [ControlIDs(controls) -> Attributes]
    /\ applied = <<>>

-----------------------------------------------------------------------------
ResultWithExceptions(cs, policies) ==
    [k \in DOMAIN cs |-> ControlWithExceptions(cs[k], policies, attribute[cs[k].id])]

-----------------------------------------------------------------------------
SetStatus(k) ==
    /\ controls' = [controls EXCEPT ![k] = WithStatus(@, attribute[@.id])]
    /\ UNCHANGED <<attribute, applied>>

(* An empty policy list returns at once and changes nothing.                *)
SetExceptions(policies) ==
    /\ policies # {}
    /\ Len(applied) < MaxCalls
    /\ controls' = ResultWithExceptions(controls, policies)
    /\ applied' = Append(applied, policies)
    /\ UNCHANGED attribute

Reload ==
    /\ controls' = [k \in DOMAIN controls |-> Reloaded(controls[k])]
    /\ UNCHANGED <<attribute, applied>>

Next ==
    \/ \E k \in DOMAIN controls : SetStatus(k)
    \/ \E policies \in PolicyLists : SetExceptions(policies)
    \/ Reload

Spec == Init /\ [][Next]_vars

-----------------------------------------------------------------------------
RuleOK(rule) ==
    /\ rule.status \in ScanningStatus /\ rule.sub \in ScanningSubStatus
    /\ rule.config \in {"absent", "blank", "set"}
    /\ \A e \in rule.exceptions : \E p \in UNION PolicyLists :
          /\ e.id = p.id /\ e.tuples \subseteq p.tuples
          /\ e.tuples = {} => p.tuples = {}

(* Type invariant.  An attached copy of a policy never loses all its tuples, *)
(* which would make it match everywhere.                                     *)
TypeOK ==
    /\ \A k \in DOMAIN controls :
          /\ controls[k].status \in StatusInfo
          /\ controls[k].actionRequired \in ScanningSubStatus
          /\ \A j \in DOMAIN controls[k].rules : RuleOK(controls[k].rules[j])
    /\ attribute \in [ControlIDs(controls) -> Attributes]
    /\ Len(applied) <= MaxCalls

Scored == {controls[k] : k \in {k \in DOMAIN controls : ~isOldControl(controls[k])}}
AllControls == {controls[k] : k \in DOMAIN controls}

(* What a policy list asks for, said in one piece: the exceptions that cover *)
(* the resource and have a tuple that alone matches the framework, the       *)
(* control and the rule (or have no tuple at all).  An unset framework asks  *)
(* for the raw view.                                                         *)
Covers(tuple, framework, id, name) ==
    /\ tuple.framework = Unset \/ (framework # Unset /\ Names(tuple.framework, framework))
    /\ tuple.control = Unset \/ Names(tuple.control, id)
    /\ tuple.rule = Unset \/ Names(tuple.rule, name)

Declared(policies, framework, id, name) ==
    {p \in policies : /\ Resource \in p.resources
                      /\ p.tuples = {} \/ \E t \in p.tuples : Covers(t, framework, id, name)}

(* The framework, control and rule filters are applied in three places, to   *)
(* copies that were already reduced, and the calls skip controls and rules   *)
(* that already pass.  Still every failed rule shows, in the raw view and in *)
(* every framework view alike, what one of the policy lists applied to it    *)
(* declares: never a mixture of two lists, and never an exception that       *)
(* matches the control by one tuple and the rule or framework by another.    *)
ExceptionsAsDeclared ==
    /\ TypeOK
    /\ \A c \in AllControls : \A j \in DOMAIN c.rules :
          LET rule == c.rules[j] IN
          rule.status = StatusFailed =>
              \E policies \in (IF applied = <<>> THEN {{}} ELSE ToSet(applied)) :
                  \A f \in Frameworks \union {Unset} :
                      ruleStatus(rule, IF f = Unset THEN <<>> ELSE <<f>>, c.id)
                        = statusWithExceptions(rule, Declared(policies, f, c.id, rule.name))

(* An exception scoped to a framework never leaks into the raw view, and a   *)
(* framework never shows a control worse than the raw view does, which is    *)
(* the same cached (a nil filter) and computed afresh (an empty one).        *)
FrameworkViewNeverWorse ==
    \A c \in Scored :
        /\ GetStatus(c, <<>>) = GetStatus(c, NoFilter)
        /\ \A f \in Frameworks :
              Rank(GetStatus(c, <<f>>).status) <= Rank(c.status.status)

(* A view over several frameworks reports the worst of their single views,   *)
(* although the fold runs per rule before the rules are combined and the     *)
(* action-required step is applied only once, at the end, for each control;  *)
(* and the raw view is never better than any of them.                        *)
JointViewIsWorstView ==
    /\ FrameworkViewNeverWorse
    /\ \A filter \in Filters \ {<<>>} :
          /\ \A c \in AllControls :
                GetStatus(c, filter).status
                    = Verdict({GetStatus(c, <<f>>).status : f \in ToSet(filter)})
          /\ Class(ResultStatus(controls, filter).status)
                    = Verdict({ResultStatus(controls, <<f>>).status : f \in ToSet(filter)})

(* A report read back from JSON shows the same status and sub status as the  *)
(* one that was written, in every view.                                      *)
ReloadPreservesViews ==
    \A c \in Scored : \A filter \in Filters \union {NoFilter} :
        GetStatus(Reloaded(c), filter) = GetStatus(c, filter)

(* Applying the same policies twice is the same as applying them once.       *)
SetExceptionsIdempotent ==
    \A policies \in PolicyLists :
        LET once == ResultWithExceptions(controls, policies)
        IN  ResultWithExceptions(once, policies) = once

-----------------------------------------------------------------------------
(* A claim of the source's comments that the code does not keep.             *)

(* statuses.go: a failure with the exception sub status was acknowledged by  *)
(* an alertOnly exception.                                                   *)
AcknowledgedByAlertOnly ==
    \A c \in AllControls :
        GetStatus(c, NoFilter) = Info(StatusFailed, SubStatusException) =>
            \E j \in DOMAIN c.rules : \E e \in c.rules[j].exceptions : e.alertOnly
=============================================================================

---------------------------- MODULE PosturePolicy ----------------------------
(***************************************************************************)
(* exceptions/exceptionprocessor.go: which exception policies apply to a   *)
(* (framework, control, rule).  An exception carries a set of posture      *)
(* policies (tuples); an unset field of a tuple constrains nothing, and an *)
(* exception without tuples applies everywhere.  Pure definitions.         *)
(*                                                                         *)
(* Whether a tuple's pattern names a framework, a control or a rule        *)
(* (EqualFold, or a case-insensitive regular expression) is the constant   *)
(* relation PatternMatch; whether an exception's designators and selector  *)
(* cover a workload is its field "resources".                              *)
(***************************************************************************)
EXTENDS ScanStatus

CONSTANTS
    PatternMatch  \* <<pattern, name>>: the pattern matches the name

Unset == ""

Names(pattern, name) == <<pattern, name>> \in PatternMatch

(* posturePolicyMatch: what the tuples are matched against.                 *)
Match(matchFramework, frameworks, control, rule) ==
    [matchFramework |-> matchFramework, frameworks |-> frameworks,
     control |-> control, rule |-> rule]

posturePolicyMatches(tuple, match) ==
    /\ (match.matchFramework /\ tuple.framework # Unset) =>
          \E f \in match.frameworks : Names(tuple.framework, f)
    /\ (tuple.control # Unset /\ match.control # Unset) => Names(tuple.control, match.control)
    /\ (tuple.rule # Unset /\ match.rule # Unset) => Names(tuple.rule, match.rule)

(* The tuples of an exception that apply, and the exceptions that apply: a  *)
(* copy of each, holding only those tuples.                                 *)
Kept(exception, match) == {t \in exception.tuples : posturePolicyMatches(t, match)}

filterPostureExceptions(exceptions, match) ==
    {[e EXCEPT !.tuples = Kept(e, match)] :
        e \in {x \in exceptions : x.tuples = {} \/ Kept(x, match) # {}}}

(* Mutated: framework tuples are dropped when no framework is asked for.     *)
ListRuleExceptions_Bug(exceptions, framework, control, rule) ==
    filterPostureExceptions(exceptions,
        Match(TRUE, {framework} \ {Unset}, control, rule))

(* Processor.ListRuleExceptions: an empty framework name matches any tuple. *)
ListRuleExceptions(exceptions, framework, control, rule) ==
    filterPostureExceptions(exceptions,
        Match(framework # Unset, {framework} \ {Unset}, control, rule))

(* FilterExceptionsByFrameworks: no framework names select the tuples that  *)
(* name no framework.                                                       *)
FilterExceptionsByFrameworks(exceptions, frameworks, control, rule) ==
    filterPostureExceptions(exceptions, Match(TRUE, frameworks, control, rule))

(* Processor.GetResourceExceptions, designators and selector abstracted.    *)
GetResourceExceptions(exceptions, resource) ==
    {e \in exceptions : resource \in e.resources}
=============================================================================

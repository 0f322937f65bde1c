--------------------------- MODULE MCResourceResult ---------------------------
(***************************************************************************)
(* One control with two rules (and its sibling's id in some tuples), two   *)
(* frameworks, and policies that differ in action, tuples and resources.   *)
(***************************************************************************)
EXTENDS ResourceResult

MCFrameworks == {"F1", "F2"}
MCFilters == UNION {[1..n -> MCFrameworks] : n \in 0..2} \union {<<"F2", "F1", "F2">>}
MCResource == "r"
MCAttributes == {"", "configuration", "requires review"}

(* "C.*" and "F.*" are regular expressions, "F(" is a malformed one.        *)
AllPatternMatch ==
    {<<x, x>> : x \in {"F1", "F2", "C1", "C2", "R1", "R2"}}
      \union {<<"F.*", "F1">>, <<"F.*", "F2">>, <<"C.*", "C1">>, <<"C.*", "C2">>}

Tuple(f, c, r) == [framework |-> f, control |-> c, rule |-> r]
Policy(id, alertOnly, tuples) ==
    [id |-> id, alertOnly |-> alertOnly, tuples |-> tuples, resources |-> {"r"}]

Everywhere == Policy("everywhere", TRUE, {})
Agnostic   == Policy("agnostic", FALSE, {Tuple("", "C1", "R1")})
InF1       == Policy("inF1", FALSE, {Tuple("F1", "C.*", "")})
AlertF2    == Policy("alertF2", TRUE, {Tuple("F2", "C1", ""), Tuple("F(", "", "R2")})
Crossed    == Policy("crossed", FALSE, {Tuple("F2", "C2", "R2"), Tuple("F1", "C1", "R2")})
Elsewhere  == [Policy("elsewhere", FALSE, {}) EXCEPT !.resources = {"s"}]

AllPolicyLists ==
    {{}, {Everywhere}, {Agnostic}, {InF1}, {Crossed, Elsewhere}, {AlertF2, Agnostic},
     {Everywhere, InF1}, {AlertF2, Crossed}}

Rule(name, info, config) ==
    [name |-> name, status |-> info.status, sub |-> info.sub,
     config |-> config, exceptions |-> {}]
Control(id, rules) ==
    [id |-> id, rules |-> rules, actionRequired |-> "",
     status |-> Info("", "")]

Failing == Info("failed", "")
Passing == Info("passed", "")
NotEvaluated == Info("skipped", "notEvaluated")
Unconfigured == Info("skipped", "configuration")

(* One control with two rules ... *)
OneControl ==
    {<<Control("C1", <<Rule("R1", x, c), Rule("R2", y, d)>>)>> :
        x \in {Failing, NotEvaluated}, y \in {Failing, Passing, Unconfigured},
        c \in {"absent", "set"}, d \in {"blank", "set"}}

(* ... and two controls, whose tuples must not be mixed up. *)
TwoControls ==
    {<<Control("C1", <<Rule("R1", Failing, "set")>>),
       Control("C2", <<Rule("R1", Failing, "absent"), Rule("R2", y, "set")>>)>> :
        y \in {Failing, NotEvaluated}}

AllResults == OneControl \union TwoControls

(* TLC evaluates a definition without parameters once, but one that a        *)
(* constant is replaced with wherever the constant occurs.                   *)
MCResults == AllResults
MCPolicyLists == AllPolicyLists
MCPatternMatch == AllPatternMatch
=============================================================================

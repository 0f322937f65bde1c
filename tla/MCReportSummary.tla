--------------------------- MODULE MCReportSummary ---------------------------
(***************************************************************************)
(* Three controls: C1 in both frameworks, C2 in one of them, C3 in none.   *)
(* What the views see of a result is computed by ControlStatus from rules  *)
(* and exceptions, as the scan would attach them.  The scores are          *)
(* calculated with all resources known and with the deployment alone.      *)
(*                                                                         *)
(* TLC evaluates a definition that a constant is replaced with wherever    *)
(* the constant occurs, and a definition without parameters once: what is  *)
(* costly has a definition of its own.                                     *)
(***************************************************************************)
EXTENDS StatusReading, ControlStatus

CONSTANTS
    Deployment,  \* a resource of three replicas
    Vectors      \* the others, each about two workloads

ResourceIDs == Vectors \union {Deployment}

MCControls == {"C1", "C2", "C3"}
MCFrameworks == {"F1", "F2"}
FrameworkOrderOf == <<"F1", "F2">>
MCFrameworkOrder == FrameworkOrderOf
ControlsOfFramework == [f \in MCFrameworks |-> IF f = "F1" THEN {"C1", "C2"} ELSE {"C1"}]
MCFrameworkControls == ControlsOfFramework
Factors == [c \in MCControls |-> IF c = "C1" THEN 7 ELSE IF c = "C2" THEN 9 ELSE 1]
MCScoreFactor == Factors
MCPatternMatch == {<<x, x>> : x \in MCFrameworks \union MCControls}

Policy(alertOnly, framework) ==
    {[id |-> "e", alertOnly |-> alertOnly, resources |-> {Resource},
      tuples |-> {[framework |-> framework, control |-> "", rule |-> ""]}]}

Rule(info) == [name |-> "R", status |-> info.status, sub |-> info.sub,
               config |-> "set", exceptions |-> {}]
ControlResult(id, info, policies) ==
    ControlWithExceptions([id |-> id, rules |-> <<Rule(info)>>, actionRequired |-> "",
                           status |-> info], policies, "")

Failing == Info(StatusFailed, "")
Passing(sub) == Info(StatusPassed, sub)
Skipping(sub) == Info(StatusSkipped, sub)

Kinds == [ failed    |-> <<Failing, {}>>,
           disabled1 |-> <<Failing, Policy(FALSE, "F1")>>,
           disabled  |-> <<Failing, Policy(FALSE, "")>>,
           alert2    |-> <<Failing, Policy(TRUE, "F2")>>,
           review    |-> <<Skipping("requires review"), {}>>,
           blind     |-> <<Skipping("notEvaluated"), {}>>,
           passed    |-> <<Passing(""), {}>>,
           partial   |-> <<Passing("incompleteCoverage"), {}>> ]

View(id, kind, fs) ==
    GetStatus(ControlResult(id, Kinds[kind][1], Kinds[kind][2]), SetToSeq(fs))

ResultOf(r, kinds) ==
    [resource |-> r,
     views |-> [c \in DOMAIN kinds |-> [fs \in SUBSET MCFrameworks |-> View(c, kinds[c], fs)]]]

(* What a result says of one control, or of two.                             *)
Single(c, ks) == [i \in DOMAIN ks |-> c :> ks[i]]
Pair(c, ks, d, ls) ==
    [i \in 1 .. Len(ks) * Len(ls) |->
        (c :> ks[(i - 1) \div Len(ls) + 1]) @@ (d :> ls[((i - 1) % Len(ls)) + 1])]

Chosen ==
    Single("C1", <<"failed", "disabled1", "disabled", "alert2", "review", "blind", "passed", "partial">>)
    \o Pair("C1", <<"disabled", "failed">>, "C2", <<"disabled1", "passed">>)
    \o Pair("C2", <<"failed">>, "C3", <<"disabled1", "passed">>)

(* A result is named by its resource and what it says.                       *)
AllResults ==
    CHOOSE f \in {[i \in ResourceIDs \X DOMAIN Chosen |-> ResultOf(i[1], Chosen[i[2]])]} : f = f
MCResults == AllResults

Workloads ==
    [r \in ResourceIDs |->
        IF r = Deployment THEN {[replicas |-> 3, desired |-> 0]}
        ELSE {[replicas |-> 1, desired |-> 2], [replicas |-> 2, desired |-> 0]}]
MCObject == Workloads
Maps == {ResourceIDs, {Deployment}}
MCResourceMaps == Maps

NoInfos == [c \in {} |-> Failing]
Infos ==
    {NoInfos, [C1 |-> Skipping("notEvaluated"), C2 |-> Info("", "")]}
MCControlInfos == Infos

Symmetry == Permutations(Vectors)
=============================================================================

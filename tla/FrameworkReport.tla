---------------------------- MODULE FrameworkReport ----------------------------
(***************************************************************************)
(* A v1 report of a framework (reporthandling/datastructuresmethods.go and  *)
(* resultshandling.go): its controls, their rules and the responses of the  *)
(* rules, the exceptions set on the responses, and the counters and default *)
(* scores derived from them.                                                *)
(*                                                                         *)
(* A rule is [responses, inputs]: inputs is the array of ListInputKinds,    *)
(* which counting rearranges.  A response is [resources, exception].  An    *)
(* exception is [rules, resources, alertOnly]: the rules its tuples apply   *)
(* to and the resources its designators cover (see PosturePolicy and        *)
(* WorkloadMatch for those).                                                *)
(*                                                                         *)
(* The Score fields are set by two calculations, SetDefaultScore and        *)
(* CalculateFrameworkScore (score/score.go), whose directions differ.  Left *)
(* out is ARMOImprovement, which the second one sums up beside WCSScore.    *)
(***************************************************************************)
EXTENDS ResourceIDs

CONSTANTS
    Reports,         \* the reports of a scan: sequences of controls, of rules
    ExceptionLists,  \* the sequences of exceptions of a customer
    BaseScores,      \* sequences: the base score of each control
    Weight,          \* what score.GetScore makes of each resource, in some unit
    ResourceMaps,    \* the sets of resources scores are calculated with
    MaxCalls         \* bound: calls of the operations

VARIABLES
    controls,  \* controls[c][r]: a rule
    counters,  \* of the framework, its controls and their rules
    baseScore, \* of each control
    scores,    \* Score of the framework and its controls
    wcs,       \* WCSScore of the framework
    given,     \* history: controls as the scan gave them
    phase,     \* history: see Phases
    calls

vars == <<controls, counters, baseScore, scores, wcs, given, phase, calls>>

ResourceID == DOMAIN Weight
NoException == [none |-> TRUE]

(* A response alerts on something, and nothing is excepted before exceptions  *)
(* are set.                                                                  *)
RawResponse ==
    [resources : {s \in Seq(ResourceID) : s # << >>}, exception : {NoException}]
RawRule == [responses : Seq(RawResponse), inputs : Seq(ResourceID)]

ASSUME ReportsAssumption == \A report \in Reports : report \in Seq(Seq(RawRule))

ASSUME BaseScoresAssumption ==
    \A base \in BaseScores, report \in Reports :
        base \in Seq(Nat) /\ DOMAIN report \subseteq DOMAIN base

(* GetScore is 1 or a product of replicas, nodes and positive factors.        *)
ASSUME WeightAssumption == \A id \in ResourceID : Weight[id] \in Nat \ {0}

ASSUME MaxCallsAssumption == MaxCalls \in Nat

(* Never listed; listed by a score only; counted; exceptions changed since    *)
(* the first list; counted again since.                                      *)
Phases == {"raw", "listed", "counted", "stale", "recounted"}

Counters(ids) ==
    [total |-> Len(GetAllResources(ids)), failed |-> Len(ids.failed),
     warning |-> Len(ids.warning)]

NoCounters == Counters(NoIDs)

(* The percentage that a part is of the whole.                               *)
Score(part, whole) == [part |-> part, whole |-> whole]

Init ==
    /\ controls \in Reports
    /\ given = controls
    /\ counters = [framework |-> NoCounters,
                   controls |-> [c \in DOMAIN controls |-> NoCounters],
                   rules |-> [c \in DOMAIN controls |->
                                [r \in DOMAIN controls[c] |-> NoCounters]]]
    /\ scores = [framework |-> Score(0, 100), controls |-> [c \in DOMAIN controls |-> Score(0, 100)]]
    /\ baseScore \in BaseScores
    /\ wcs = 0
    /\ phase = "raw"
    /\ calls = 0

-----------------------------------------------------------------------------
(* Statuses.  A response never passes; one under a disable exception neither *)
(* fails nor warns.                                                          *)
ResponseFailed(x) == x.exception = NoException
ResponseWarning(x) == x.exception # NoException /\ x.exception.alertOnly

RulePassed(rule) == rule.responses = << >>
RuleFailed(rule) == \E i \in DOMAIN rule.responses : ResponseFailed(rule.responses[i])
RuleWarning(rule) == ~RulePassed(rule) /\ ~RuleFailed(rule)

(* Mutated: only the first rule is asked.                                    *)
ControlFailed_Bug(rules) == rules # << >> /\ RuleFailed(rules[1])

ControlFailed(rules) == \E r \in DOMAIN rules : RuleFailed(rules[r])
ControlWarning(rules) == ~ControlFailed(rules) /\ \E r \in DOMAIN rules : RuleWarning(rules[r])

FrameworkStatus ==
    IF \E c \in DOMAIN controls : ControlFailed(controls[c]) THEN "failed"
    ELSE IF \E c \in DOMAIN controls : ControlWarning(controls[c]) THEN "warning"
    ELSE "success"

-----------------------------------------------------------------------------
(* The resources a rule's responses alert on, for those that fail and warn.  *)
FailedOf(x) == IF ResponseFailed(x) THEN x.resources ELSE << >>
WarningOf(x) == IF ResponseWarning(x) THEN x.resources ELSE << >>

GetFailedResources(rule) ==
    FlattenSeq([i \in DOMAIN rule.responses |-> FailedOf(rule.responses[i])])
GetWarnignResources(rule) ==
    FlattenSeq([i \in DOMAIN rule.responses |-> WarningOf(rule.responses[i])])

(* RuleReport.ListResourcesIDs, and the array of inputs after it: made       *)
(* unique and trimmed where it stands.                                       *)
RuleIDs(rule) == IDs(GetFailedResources(rule), GetWarnignResources(rule), rule.inputs)

Listed(rule) ==
    LET unique == InPlace(rule.inputs, UniqueStrings(rule.inputs))
    IN  [rule EXCEPT !.inputs = InPlace(unique, RuleIDs(rule).passed)]

AllListed(report) == [c \in DOMAIN report |-> [r \in DOMAIN report[c] |-> Listed(report[c][r])]]

ControlIDs(rules) == FoldLeft(append, NoIDs, [r \in DOMAIN rules |-> RuleIDs(rules[r])])
FrameworkIDs(report) == FoldLeft(append, NoIDs, [c \in DOMAIN report |-> ControlIDs(report[c])])

(* SetUniqueResourcesCounter: the inputs of every rule are listed three      *)
(* times, for the rule, for its control and for the framework.               *)
SetUniqueResourcesCounter ==
    LET once == AllListed(controls)
        twice == AllListed(once)
    IN  /\ calls < MaxCalls
        /\ calls' = calls + 1
        /\ counters' = [framework |-> Counters(FrameworkIDs(twice)),
                        controls |-> [c \in DOMAIN once |-> Counters(ControlIDs(once[c]))],
                        rules |-> [c \in DOMAIN controls |-> [r \in DOMAIN controls[c] |->
                                      Counters(RuleIDs(controls[c][r]))]]]
        /\ controls' = AllListed(twice)
        /\ phase' = IF phase \in {"stale", "recounted"} THEN "recounted" ELSE "counted"
        /\ UNCHANGED <<baseScore, scores, wcs, given>>

(* Mutated: what saw no resource scores nothing.                             *)
percentage_Bug(big, small) == IF big = 0 THEN 0 ELSE ((big - small) * 100) \div big

(* Truncated.  In floats some quotients come out one percent lower (71 failed *)
(* of 100), but never the one of no failure.                                 *)
percentage(big, small) ==
    IF big = 0 THEN (IF small = 0 THEN 100 ELSE 0)
    ELSE ((big - small) * 100) \div big

DefaultScore(k) == Score(percentage(k.total, k.failed), 100)

(* SetDefaultScore, from the counters as they are.                           *)
SetDefaultScore ==
    /\ calls < MaxCalls
    /\ calls' = calls + 1
    /\ scores' = [framework |-> DefaultScore(counters.framework),
                  controls |-> [c \in DOMAIN controls |-> DefaultScore(counters.controls[c])]]
    /\ UNCHANGED <<controls, counters, baseScore, wcs, given, phase>>

-----------------------------------------------------------------------------
(* The weight of the resources on a list that the calculator knows.          *)
Weigh(ids, known) ==
    SumFunctionOnSet([i \in DOMAIN ids |-> Weight[ids[i]]], {i \in DOMAIN ids : ids[i] \in known})

(* ControlScore: the unnormalized score and the worst case of a control.      *)
Unnormalized(rules, base, known) == base * Weigh(ControlIDs(rules).failed, known)

WorstCase(rules, base, known) ==
    IF Unnormalized(rules, base, known) = 0 THEN base
    ELSE base * Weigh(GetAllResources(ControlIDs(rules)), known)

ControlScore(rules, base, known) ==
    LET worst == WorstCase(rules, base, known)
    IN  Score(Unnormalized(rules, base, known), IF worst > 0 THEN worst ELSE 100)

(* The worst case is added to what earlier calculations left.  If it is zero  *)
(* the calculation fails, with the controls scored.                          *)
CalculateFrameworkScore(known) ==
    LET unnormalized ==
            SumFunction([c \in DOMAIN controls |-> Unnormalized(controls[c], baseScore[c], known)])
        worst == wcs +
            SumFunction([c \in DOMAIN controls |-> WorstCase(controls[c], baseScore[c], known)])
    IN  /\ calls < MaxCalls
        /\ calls' = calls + 1
        /\ wcs' = worst
        /\ scores' = [framework |-> IF worst = 0 THEN Score(0, 100) ELSE Score(unnormalized, worst),
                      controls |-> [c \in DOMAIN controls |->
                          ControlScore(controls[c], baseScore[c], known)]]
        /\ controls' = AllListed(controls)
        /\ phase' = IF phase = "raw" THEN "listed" ELSE phase
        /\ UNCHANGED <<counters, baseScore, given>>

-----------------------------------------------------------------------------
Covering(exceptions, resource) == SelectSeq(exceptions, LAMBDA e : resource \in e.resources)

(* The first exception that covers the last covered resource of a response.  *)
WithException(x, exceptions) ==
    LET covered == SelectSeq(x.resources, LAMBDA id : Covering(exceptions, id) # << >>)
    IN  IF covered = << >> THEN x
        ELSE [x EXCEPT !.exception = Head(Covering(exceptions, Last(covered)))]

WithExceptions(report, exceptions) ==
    [c \in DOMAIN report |-> [r \in DOMAIN report[c] |->
        LET ruleExceptions == SelectSeq(exceptions, LAMBDA e : <<c, r>> \in e.rules)
            old == report[c][r].responses
        IN  [report[c][r] EXCEPT !.responses =
                [i \in DOMAIN old |-> WithException(old[i], ruleExceptions)]]]]

SetFrameworkExceptions(exceptions) ==
    /\ calls < MaxCalls
    /\ calls' = calls + 1
    /\ controls' = WithExceptions(controls, exceptions)
    /\ phase' = IF phase = "raw" \/ controls' = controls THEN phase ELSE "stale"
    /\ UNCHANGED <<counters, baseScore, scores, wcs, given>>

Next ==
    \/ SetUniqueResourcesCounter
    \/ SetDefaultScore
    \/ \E known \in ResourceMaps : CalculateFrameworkScore(known)
    \/ \E exceptions \in ExceptionLists : SetFrameworkExceptions(exceptions)

Spec == Init /\ [][Next]_vars

-----------------------------------------------------------------------------
CountersOK(k) == k.failed \in Nat /\ k.warning \in Nat /\ k.failed + k.warning <= k.total

ScoreOK(score) == score.whole \in Nat \ {0} /\ score.part \in 0 .. score.whole

(* Type invariant; counting never changes how long the list of inputs is.    *)
TypeOK ==
    /\ calls \in 0 .. MaxCalls
    /\ phase \in Phases
    /\ ScoreOK(scores.framework)
    /\ CountersOK(counters.framework)
    /\ \A c \in DOMAIN controls :
          /\ ScoreOK(scores.controls[c])
          /\ CountersOK(counters.controls[c])
          /\ \A r \in DOMAIN controls[c] :
                /\ CountersOK(counters.rules[c][r])
                /\ Len(controls[c][r].inputs) = Len(given[c][r].inputs)

Counted == phase \in {"counted", "recounted"}

(* What the counters of some rules count, as sets.                           *)
FailedResources(rules) == UNION {ToSet(GetFailedResources(rule)) : rule \in rules}
WarningResources(rules) ==
    (UNION {ToSet(GetWarnignResources(rule)) : rule \in rules}) \ FailedResources(rules)
Inputs(rules) == UNION {ToSet(rule.inputs) : rule \in rules}

RulesOf(report, c) == {report[c][r] : r \in DOMAIN report[c]}
AllRules(report) == UNION {RulesOf(report, c) : c \in DOMAIN report}

Counts(k, rules) ==
    /\ k.failed = Cardinality(FailedResources(rules))
    /\ k.warning = Cardinality(WarningResources(rules))

AllCounted ==
    counters.framework.total =
        Cardinality(FailedResources(AllRules(controls)) \union WarningResources(AllRules(controls))
                    \union Inputs(AllRules(given)))

(* Counting rearranges the inputs and still finds all of them the next time,  *)
(* as long as the exceptions are set before the first count or score.         *)
InputsSurviveCounting == phase = "counted" => AllCounted

(* The counters of the framework, of each control and of each rule count the  *)
(* resources that fail anywhere below and those that only warn, each once,    *)
(* however often and in whatever order the lists were made (append trims what *)
(* earlier appends left), and the total misses no input.                      *)
CountersAreUnions ==
    /\ TypeOK
    /\ InputsSurviveCounting
    /\ Counted =>
          /\ Counts(counters.framework, AllRules(controls))
          /\ \A c \in DOMAIN controls :
                /\ Counts(counters.controls[c], RulesOf(controls, c))
                /\ \A r \in DOMAIN controls[c] : Counts(counters.rules[c][r], {controls[c][r]})

(* Counting again, with the inputs as the last count left them, changes no     *)
(* counter, and neither does scoring in between.                               *)
RecountIsStable ==
    [][Counted /\ SetUniqueResourcesCounter => counters' = counters]_vars

(* The status of the framework, folded over responses, and its counters, folded *)
(* over resources, tell the same: something fails if and only if the status says *)
(* so, and nothing is counted for a success.                                     *)
StatusMatchesCounters ==
    Counted =>
        /\ FrameworkStatus = "failed" <=> counters.framework.failed > 0
        /\ FrameworkStatus = "success" => counters.framework.warning = 0

Full(score) == score.part = score.whole
Zero(score) == score.part = 0
AtMost(x, y) == x.part * y.whole <= y.part * x.whole

(* The two calculations of one field agree with the status, each in its own     *)
(* direction: a default score is full and a weighed one zero exactly if nothing   *)
(* below fails, also for a control that saw no resource; and the first weighed   *)
(* score of a framework lies between those of its controls that weigh anything.  *)
ScoresAgree ==
    [][/\ Counted /\ SetDefaultScore =>
             /\ Full(scores'.framework) <=> FrameworkStatus # "failed"
             /\ \A c \in DOMAIN controls : Full(scores'.controls[c]) <=> ~ControlFailed(controls[c])
       /\ CalculateFrameworkScore(DOMAIN Weight) =>
             LET weighing == {c \in DOMAIN controls : baseScore[c] > 0}
             IN  /\ \A c \in weighing : Zero(scores'.controls[c]) <=> ~ControlFailed(controls[c])
                 /\ Zero(scores'.framework) <=> \A c \in weighing : ~ControlFailed(controls[c])
                 /\ wcs = 0 /\ weighing # {} =>
                       /\ \E c \in weighing : AtMost(scores'.framework, scores'.controls[c])
                       /\ \E c \in weighing : AtMost(scores'.controls[c], scores'.framework)]_vars

-----------------------------------------------------------------------------
(* A claim of a comment (ListResourcesIDs: return unique lists of resource      *)
(* IDs: all,warning,failed): a count covers every input of the rules, whatever   *)
(* was called before it.                                                         *)
ListsAreComplete == Counted => AllCounted
=============================================================================

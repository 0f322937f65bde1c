-------------------------- MODULE ResponseExceptions --------------------------
(***************************************************************************)
(* The exceptions of the responses of a rule (exceptionprocessor.go,        *)
(* SetRuleResponsExceptions).  Every framework, and every run of the        *)
(* processor, calls it again on the same responses, with the exceptions of  *)
(* its own tuples; a response keeps the exception of an earlier call.       *)
(*                                                                         *)
(* A response is [workloads, paths, exception, ruleStatus]: the objects it  *)
(* alerts on, the containers its failed paths point to, and what the calls  *)
(* have found.                                                              *)
(***************************************************************************)
EXTENDS WorkloadMatch

CONSTANTS
    Responses,       \* the sequences of responses a rule may give
    ExceptionLists,  \* the sequences of exceptions it may be called with
    Cluster,         \* the names of clusters
    MaxCalls         \* bound: calls

IsSequence(s) == s \in Seq(ToSet(s))

VARIABLES
    responses,
    cause,   \* history: cause[i] is the call that gave response i its exception
    calls    \* how many calls there were

vars == <<responses, cause, calls>>

NoException == [none |-> TRUE]

(* A response as the scan gives it: no call has found an exception.  What a  *)
(* vector relates are no vectors.                                            *)
IsNewResponse(r) ==
    /\ DOMAIN r = {"workloads", "paths", "exception", "ruleStatus"}
    /\ IsSequence(r.workloads)
    /\ \A w \in ToSet(r.workloads) : \A o \in w.related : ~isTypeRegoResponseVector(o)
    /\ r.exception = NoException /\ r.ruleStatus = Unset

ASSUME ResponsesAssumption ==
    \A rs \in Responses : \A i \in DOMAIN rs : IsNewResponse(rs[i])

ASSUME ExceptionListsAssumption ==
    \A l \in ExceptionLists :
        /\ IsSequence(l)
        /\ \A e \in ToSet(l) : e # NoException /\ IsSequence(e.resources)

ASSUME MaxCallsAssumption == MaxCalls \in Nat

(* RuleResponse.GetStatus: a response never passes.                          *)
GetStatus(exception) ==
    IF exception # NoException /\ exception.alertOnly THEN "warning" ELSE "failed"

Init ==
    /\ responses \in Responses
    /\ cause = [i \in DOMAIN responses |-> NoException]
    /\ calls = 0

(* The workloads of a response for which some exception is listed.           *)
Excepted(r, exceptions, cluster) ==
    {w \in DOMAIN r.workloads :
        getResourceExceptions(exceptions, r.workloads[w], cluster,
            extractFailingContainerNames(r.paths, r.workloads[w])) # << >>}

(* The first exception listed for the last of these workloads.               *)
Found(r, exceptions, cluster) ==
    LET w == Max(Excepted(r, exceptions, cluster))
    IN  Head(getResourceExceptions(exceptions, r.workloads[w], cluster,
                extractFailingContainerNames(r.paths, r.workloads[w])))

(* Mutated: the status is taken before the exceptions are looked for.        *)
WithException_Bug(r, exceptions, cluster) ==
    IF r.workloads = << >> THEN r
    ELSE [r EXCEPT !.exception = IF Excepted(r, exceptions, cluster) = {} THEN @
                                 ELSE Found(r, exceptions, cluster),
                   !.ruleStatus = GetStatus(r.exception)]

WithException(r, exceptions, cluster) ==
    LET exception == IF Excepted(r, exceptions, cluster) = {} THEN r.exception
                     ELSE Found(r, exceptions, cluster)
    IN  IF r.workloads = << >> THEN r
        ELSE [r EXCEPT !.exception = exception, !.ruleStatus = GetStatus(exception)]

SetRuleResponsExceptions(exceptions, cluster) ==
    /\ calls < MaxCalls
    /\ calls' = calls + 1
    /\ IF exceptions = << >>
       THEN UNCHANGED <<responses, cause>>
       ELSE /\ responses' = [i \in DOMAIN responses |->
                                WithException(responses[i], exceptions, cluster)]
            /\ cause' = [i \in DOMAIN responses |->
                            IF Excepted(responses[i], exceptions, cluster) = {} THEN cause[i]
                            ELSE [exceptions |-> exceptions, cluster |-> cluster]]

Next ==
    \E exceptions \in ExceptionLists, cluster \in Cluster :
        SetRuleResponsExceptions(exceptions, cluster)

Spec == Init /\ [][Next]_vars

-----------------------------------------------------------------------------
(* Type invariant. *)
TypeOK ==
    /\ calls \in 0 .. MaxCalls
    /\ DOMAIN cause = DOMAIN responses
    /\ \A i \in DOMAIN responses :
          /\ responses[i].ruleStatus \in {Unset, "warning", "failed"}
          /\ responses[i].exception = NoException <=> cause[i] = NoException
          /\ cause[i] # NoException =>
                responses[i].exception \in ToSet(cause[i].exceptions)

(* The objects behind a workload: itself and, for a vector, what it relates.  *)
Objects(w) == {w} \union (IF isTypeRegoResponseVector(w) THEN w.related ELSE {})

Designators(e) == IF e.resources = << >> THEN {EmptyDesignator} ELSE ToSet(e.resources)

(* What the exception asks of one object, stated without the envelope.       *)
Satisfies(o, d, e, failing) ==
    /\ FieldsMatch(d, o)
    /\ SelectorMatches(e.selector, o)
    /\ isTypeWorkload(o) => LabelsMatch(d, o) /\ ContainerMatches(d, o, failing)

(* The containers of a plain workload that failed paths point to; if they     *)
(* point to none that it has, each of its containers.                        *)
Blamed(r, w) ==
    LET pointed ==
            {w.containers[p.index + 1] : p \in {p \in r.paths : ~p.init /\ p.index < Len(w.containers)}}
            \union
            {w.initContainers[p.index + 1] : p \in {p \in r.paths : p.init /\ p.index < Len(w.initContainers)}}
    IN  IF pointed # {} THEN pointed ELSE ToSet(w.containers) \union ToSet(w.initContainers)

BlamedIsNamed(r, w, d) == \E c \in Blamed(r, w) : regexCompare(d.labels[ContainerName], c)

(* What a response alerts on as a plain workload is excepted by container only *)
(* if a container is named that its paths point to (SetRuleResponsException:  *)
(* not just any container in the pod), or any of the pod when they point to   *)
(* none it has (extractFailingContainerNames).                               *)
FailingContainerIsNamed ==
    \A i \in DOMAIN responses :
        LET r == responses[i] IN
        (/\ r.exception # NoException
         /\ \A w \in ToSet(r.workloads) : isTypeWorkload(w)
         /\ \A d \in Designators(r.exception) : ContainerName \in DOMAIN d.labels)
        => \E w \in ToSet(r.workloads), d \in Designators(r.exception) : BlamedIsNamed(r, w, d)

(* An excepted response alerts on one object that alone satisfies all the     *)
(* exception asks, in the cluster it asks for: fields, labels, selector and   *)
(* the container that failed are never collected from several objects, and a  *)
(* selector or a container is never granted by the envelope of a vector       *)
(* (getResourceExceptions, hasExceptionForAttributes), nor the container that *)
(* failed by another one of the pod.                                          *)
OneObjectSatisfiesAll ==
    /\ FailingContainerIsNamed
    /\ \A i \in DOMAIN responses :
           LET r == responses[i] IN
           r.exception # NoException =>
               \E w \in ToSet(r.workloads), d \in Designators(r.exception) :
                   /\ ~r.exception.malformed
                   /\ matchesCluster(d, cause[i].cluster)
                   /\ \E o \in Objects(w) :
                         /\ Satisfies(o, d, r.exception, extractFailingContainerNames(r.paths, w))
                         /\ isTypeRegoResponseVector(o) =>
                               r.exception.selector = NoSelector /\ ContainerName \notin DOMAIN d.labels

(* The exception asks nothing of the plain workload w of r that it lacks.    *)
Grants(e, r, w, cluster) ==
    \E d \in Designators(e) :
        /\ ~e.malformed
        /\ d # EmptyDesignator \/ e.resources = << >>
        /\ matchesCluster(d, cluster)
        /\ FieldsMatch(d, w) /\ LabelsMatch(d, w)
        /\ SelectorMatches(e.selector, w)
        /\ ContainerName \in DOMAIN d.labels => BlamedIsNamed(r, w, d)

(* Nor is an exception withheld: whatever call comes next, a response that     *)
(* alerts on a plain workload which meets all that some exception of the call *)
(* asks carries an exception of that call then, whatever else it alerts on    *)
(* (SetRuleResponsException overwrites it workload by workload), and also when *)
(* its paths point to no container that there is.                             *)
MatchesAreGranted ==
    \A i \in DOMAIN responses, l \in ExceptionLists, cluster \in Cluster :
        (\E w \in ToSet(responses[i].workloads), e \in ToSet(l) :
            isTypeWorkload(w) /\ Grants(e, responses[i], w, cluster))
        => WithException(responses[i], l, cluster).exception \in ToSet(l)

(* The status of a response that has an exception is that of the exception,   *)
(* after however many calls: a warning if it only alerts.                     *)
StatusFollowsException ==
    /\ TypeOK
    /\ \A i \in DOMAIN responses :
           responses[i].exception # NoException =>
               responses[i].ruleStatus = GetStatus(responses[i].exception)

(* d constrains at least what c does, field by field and label by label.      *)
Narrows(d, c) ==
    /\ \A f \in {"cluster", "namespace", "kind", "name", "resourceID", "path"} :
          c[f] \in {Unset, d[f]}
    /\ \A k \in DOMAIN c.labels : k \in DOMAIN d.labels /\ d.labels[k] = c.labels[k]

(* A constraint added to a designator never makes it match more, on a workload *)
(* or on a vector, with its fall-through to the envelope                      *)
(* (hasExceptionForAttributes).                                               *)
NarrowingNeverWidens ==
    LET policies == {e \in UNION {ToSet(l) : l \in ExceptionLists} : ~e.malformed}
        designators == UNION {ToSet(e.resources) : e \in policies}
        selectors == {e.selector : e \in policies}
    IN  \A i \in DOMAIN responses : \A w \in ToSet(responses[i].workloads) :
            LET failing == extractFailingContainerNames(responses[i].paths, w) IN
            \A d, c \in designators \ {EmptyDesignator} : Narrows(d, c) =>
                \A s \in selectors, cluster \in Cluster :
                    hasException(cluster, d, w, failing, s) =>
                        /\ hasException(cluster, c, w, failing, s)
                        /\ hasException(cluster, d, w, failing, NoSelector)
=============================================================================

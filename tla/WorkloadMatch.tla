---------------------------- MODULE WorkloadMatch ----------------------------
(***************************************************************************)
(* exceptions/exceptionprocessor.go and comparator.go: whether an exception *)
(* covers a workload of a cluster.  The exception constrains it by its      *)
(* resources (a sequence of designators, digested to fields and labels) and *)
(* by its objectSelector.  A RegoResponseVector is an envelope: a kind and  *)
(* a name of its own around related objects.  Pure definitions.             *)
(*                                                                         *)
(* An object is a record of its type, its metadata, its labels and          *)
(* annotations (functions), its containers (sequences of names) and the     *)
(* set of its related objects, which are not vectors themselves.            *)
(***************************************************************************)
EXTENDS SequencesExt

CONSTANTS
    RegexMatch  \* <<pattern, value>>: "^pattern$" matches the value

Unset == ""          \* a field the designator does not constrain
Absent == "absent"   \* the path of an object without sourcePath

(* Attributes that the digest leaves among the labels.                       *)
ApiGroup == "apiGroup"
ContainerName == "containerName"
nonLabelAttributes == {ApiGroup, ContainerName}

regexCompare(pattern, value) == <<pattern, value>> \in RegexMatch

isTypeWorkload(o) == o.type = "workload"
isTypeRegoResponseVector(o) == o.type = "vector"

-----------------------------------------------------------------------------
(* The comparisons of comparator.go.                                         *)
compareNamespace(o, pattern) ==
    regexCompare(pattern, IF o.kind = "Namespace" THEN o.name ELSE o.namespace)

comparePath(o, pattern) == o.path # Absent /\ regexCompare(pattern, o.path)

(* compareLabels and compareAnnotations.                                     *)
compareMap(map, required) ==
    /\ map # << >>
    /\ \A k \in DOMAIN required : k \in DOMAIN map /\ regexCompare(required[k], map[k])

(* Mutated: without a container known to have failed there is none to name.  *)
compareContainerName_Bug(o, pattern, failing) == \E c \in failing : regexCompare(pattern, c)

(* failing is {} when the failed paths name no container.                    *)
compareContainerName(o, pattern, failing) ==
    \E c \in IF failing # {} THEN failing
             ELSE ToSet(o.containers) \union ToSet(o.initContainers) :
        regexCompare(pattern, c)

(* A parsed objectSelector (nil is NoSelector); a NotIn or DoesNotExist       *)
(* requirement also accepts objects without labels.                           *)
NoSelector == {}

RequirementMatches(r, labels) ==
    CASE r.op = "In" -> r.key \in DOMAIN labels /\ labels[r.key] \in r.values
      [] r.op = "NotIn" -> r.key \in DOMAIN labels => labels[r.key] \notin r.values
      [] r.op = "Exists" -> r.key \in DOMAIN labels
      [] r.op = "DoesNotExist" -> r.key \notin DOMAIN labels

SelectorMatches(selector, o) == \A r \in selector : RequirementMatches(r, o.labels)

-----------------------------------------------------------------------------
matchesCluster(d, cluster) == d.cluster # Unset => regexCompare(d.cluster, cluster)

stripNonLabelAttributes(labels) ==
    [k \in DOMAIN labels \ nonLabelAttributes |-> labels[k]]

FieldsMatch(d, o) ==
    /\ d.namespace # Unset => compareNamespace(o, d.namespace)
    /\ d.kind # Unset => regexCompare(d.kind, o.kind)
    /\ ApiGroup \in DOMAIN d.labels => regexCompare(d.labels[ApiGroup], o.apiGroup)
    /\ d.name # Unset => regexCompare(d.name, o.name)
    /\ d.resourceID # Unset => regexCompare(d.resourceID, o.id)
    /\ d.path # Unset => comparePath(o, d.path)

(* Mutated: a designator by container is not compared by labels.             *)
LabelsMatch_Bug(d, o) ==
    LET realLabels == stripNonLabelAttributes(d.labels)
    IN  realLabels # << >> =>
            \/ ContainerName \in DOMAIN d.labels
            \/ compareMap(o.labels, realLabels) \/ compareMap(o.annotations, realLabels)

LabelsMatch(d, o) ==
    LET realLabels == stripNonLabelAttributes(d.labels)
    IN  realLabels # << >> =>
            compareMap(o.labels, realLabels) \/ compareMap(o.annotations, realLabels)

ContainerMatches(d, o, failing) ==
    ContainerName \in DOMAIN d.labels =>
        compareContainerName(o, d.labels[ContainerName], failing)

(* One object against the designator and the selector.                       *)
metadataHasException(o, d, failing, selector) ==
    /\ FieldsMatch(d, o)
    /\ selector # NoSelector => SelectorMatches(selector, o)
    /\ isTypeWorkload(o) => LabelsMatch(d, o) /\ ContainerMatches(d, o, failing)

iterateRegoResponseVector(o, d, failing, selector) ==
    \E r \in o.related : metadataHasException(r, d, failing, selector)

(* Mutated: the envelope is tried also when there is a selector.             *)
FallsThrough_Bug(d, selector) == ContainerName \notin DOMAIN d.labels

(* The envelope of a vector is tried after its related objects.              *)
FallsThrough(d, selector) ==
    ContainerName \notin DOMAIN d.labels /\ selector = NoSelector

hasExceptionForAttributes(cluster, d, o, failing, selector) ==
    /\ matchesCluster(d, cluster)
    /\ IF isTypeRegoResponseVector(o)
       THEN \/ iterateRegoResponseVector(o, d, failing, selector)
            \/ FallsThrough(d, selector) /\ metadataHasException(o, d, failing, selector)
       ELSE metadataHasException(o, d, failing, selector)

EmptyDesignator ==
    [cluster |-> Unset, namespace |-> Unset, kind |-> Unset, name |-> Unset,
     resourceID |-> Unset, path |-> Unset, labels |-> << >>]

(* A designator that constrains nothing matches nothing.                     *)
hasException(cluster, d, o, failing, selector) ==
    d # EmptyDesignator /\ hasExceptionForAttributes(cluster, d, o, failing, selector)

-----------------------------------------------------------------------------
(* How many times an exception is listed for an object: once for each of its *)
(* designators that matches, once if it has none; never if its selector is   *)
(* malformed.                                                                *)
Matches(e, o, cluster, failing) ==
    IF e.malformed THEN 0
    ELSE IF e.resources = << >>
    THEN IF hasExceptionForAttributes(cluster, EmptyDesignator, o, failing, e.selector)
         THEN 1 ELSE 0
    ELSE Cardinality({i \in DOMAIN e.resources :
                         hasException(cluster, e.resources[i], o, failing, e.selector)})

getResourceExceptions(exceptions, o, cluster, failing) ==
    FlattenSeq([i \in DOMAIN exceptions |->
        [n \in 1 .. Matches(exceptions[i], o, cluster, failing) |-> exceptions[i]]])

(* What a failed path says of containers: [init, index], from 0.             *)
ContainerAt(o, path) ==
    LET names == IF path.init THEN o.initContainers ELSE o.containers
    IN  IF path.index < Len(names) THEN {names[path.index + 1]} ELSE {}

(* The names of the containers the failed paths point to, in a vector those  *)
(* of each of its related objects.                                           *)
extractFailingContainerNames(paths, o) ==
    UNION {ContainerAt(r, path) : path \in paths,
                                  r \in IF isTypeRegoResponseVector(o) THEN o.related ELSE {o}}
=============================================================================

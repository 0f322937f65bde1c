------------------------ MODULE ResponseExceptions_proof ------------------------
(***************************************************************************)
(* Proofs about how exceptions match workloads and what their calls leave  *)
(* on the responses of a rule, for any responses, workloads, designators,  *)
(* selectors, patterns and lists of exceptions.                            *)
(***************************************************************************)
EXTENDS ResponseExceptions, Lemmas

(* No required labels are required when fewer are: a designator with real    *)
(* labels is not narrowed to one without.                                    *)
LEMMA StripEmpty ==
    ASSUME NEW labels, stripNonLabelAttributes(labels) = << >>
    PROVE  DOMAIN labels \subseteq nonLabelAttributes
<1>1. DOMAIN stripNonLabelAttributes(labels) = DOMAIN labels \ nonLabelAttributes
  BY DEF stripNonLabelAttributes
<1>2. DOMAIN << >> = {}
  OBVIOUS
<1>3. QED
  BY <1>1, <1>2

LEMMA EmptyStrip ==
    ASSUME NEW labels, DOMAIN labels \subseteq nonLabelAttributes
    PROVE  stripNonLabelAttributes(labels) = << >>
<1>1. DOMAIN labels \ nonLabelAttributes = {}
  OBVIOUS
<1>2. stripNonLabelAttributes(labels) = [k \in {} |-> labels[k]]
  BY <1>1 DEF stripNonLabelAttributes
<1>3. [k \in {} |-> labels[k]] = << >>
  OBVIOUS
<1>4. QED
  BY <1>2, <1>3

(* The comparisons of one object, for a wider designator.                    *)
LEMMA FieldsWiden ==
    ASSUME NEW d, NEW c, Narrows(d, c), NEW o, FieldsMatch(d, o)
    PROVE  FieldsMatch(c, o)
BY DEF Narrows, FieldsMatch

LEMMA MapWidens ==
    ASSUME NEW d, NEW c, Narrows(d, c), NEW map,
           compareMap(map, stripNonLabelAttributes(d.labels))
    PROVE  compareMap(map, stripNonLabelAttributes(c.labels))
BY DEF Narrows, compareMap, stripNonLabelAttributes

LEMMA LabelsWiden ==
    ASSUME NEW d, NEW c, Narrows(d, c), NEW o, LabelsMatch(d, o)
    PROVE  LabelsMatch(c, o)
<1>1. CASE stripNonLabelAttributes(c.labels) = << >>
  BY <1>1 DEF LabelsMatch
<1>2. CASE stripNonLabelAttributes(c.labels) # << >>
  <2>1. stripNonLabelAttributes(d.labels) # << >>
    BY <1>2, StripEmpty, EmptyStrip DEF Narrows
  <2>2. QED
    BY <2>1, MapWidens DEF LabelsMatch
<1>3. QED
  BY <1>1, <1>2

LEMMA ContainerWidens ==
    ASSUME NEW d, NEW c, Narrows(d, c), NEW o, NEW failing, ContainerMatches(d, o, failing)
    PROVE  ContainerMatches(c, o, failing)
BY DEF Narrows, ContainerMatches

(* One object, and a vector with its envelope, for a wider designator.       *)
LEMMA ObjectWidens ==
    ASSUME NEW d, NEW c, Narrows(d, c), NEW o, NEW failing, NEW selector,
           metadataHasException(o, d, failing, selector)
    PROVE  /\ metadataHasException(o, c, failing, selector)
           /\ metadataHasException(o, d, failing, NoSelector)
BY FieldsWiden, LabelsWiden, ContainerWidens DEF metadataHasException

LEMMA ClusterWidens ==
    ASSUME NEW d, NEW c, Narrows(d, c), NEW cluster, matchesCluster(d, cluster)
    PROVE  matchesCluster(c, cluster)
BY DEF Narrows, matchesCluster

LEMMA AttributesWiden ==
    ASSUME NEW d, NEW c, Narrows(d, c), NEW o, NEW failing, NEW selector, NEW cluster,
           hasExceptionForAttributes(cluster, d, o, failing, selector)
    PROVE  /\ hasExceptionForAttributes(cluster, c, o, failing, selector)
           /\ hasExceptionForAttributes(cluster, d, o, failing, NoSelector)
<1>1. matchesCluster(d, cluster) /\ matchesCluster(c, cluster)
  BY ClusterWidens DEF hasExceptionForAttributes
<1>2. CASE ~isTypeRegoResponseVector(o)
  BY <1>1, <1>2, ObjectWidens DEF hasExceptionForAttributes
<1>3. CASE isTypeRegoResponseVector(o)
  <2>1. CASE iterateRegoResponseVector(o, d, failing, selector)
    <3>1. PICK r \in o.related : metadataHasException(r, d, failing, selector)
      BY <2>1 DEF iterateRegoResponseVector
    <3>2. /\ metadataHasException(r, c, failing, selector)
          /\ metadataHasException(r, d, failing, NoSelector)
      BY <3>1, ObjectWidens
    <3>3. QED
      BY <1>1, <1>3, <3>2 DEF hasExceptionForAttributes, iterateRegoResponseVector
  <2>2. CASE FallsThrough(d, selector) /\ metadataHasException(o, d, failing, selector)
    <3>1. FallsThrough(c, selector) /\ FallsThrough(d, NoSelector)
      BY <2>2 DEF FallsThrough, Narrows
    <3>2. QED
      BY <1>1, <1>3, <2>2, <3>1, ObjectWidens DEF hasExceptionForAttributes
  <2>3. QED
    BY <1>3, <2>1, <2>2 DEF hasExceptionForAttributes
<1>4. QED
  BY <1>2, <1>3

(* A constraint added to a designator never makes it match more: for any     *)
(* workloads, vectors, labels, selectors and patterns (hasExceptionForAttributes). *)
THEOREM NarrowingCorrect == Spec => []NarrowingNeverWidens
<1>1. NarrowingNeverWidens
  BY AttributesWiden DEF NarrowingNeverWidens, hasException
<1>2. QED
  BY <1>1, PTL

-----------------------------------------------------------------------------
(* What listing an exception for an object means: with one of its designators *)
(* it covers the object.                                                     *)
Covers(e, d, w, failing, cluster) ==
    ~e.malformed /\ hasExceptionForAttributes(cluster, d, w, failing, e.selector)

LEMMA CountOfMatches ==
    ASSUME NEW e, IsSequence(e.resources), NEW o, NEW cluster, NEW failing
    PROVE  /\ Matches(e, o, cluster, failing) \in Nat
           /\ Matches(e, o, cluster, failing) # 0 =>
                  \E d \in Designators(e) : Covers(e, d, o, failing, cluster)
<1> DEFINE matching == {i \in DOMAIN e.resources :
                            hasException(cluster, e.resources[i], o, failing, e.selector)}
<1>1. CASE e.malformed
  BY <1>1 DEF Matches
<1>2. CASE ~e.malformed /\ e.resources = << >>
  BY <1>2 DEF Matches, Designators, Covers
<1>3. CASE ~e.malformed /\ e.resources # << >>
  <2>1. Matches(e, o, cluster, failing) = Cardinality(matching)
    BY <1>3 DEF Matches
  <2>2. IsFiniteSet(matching)
    <3>1. Len(e.resources) \in Nat /\ DOMAIN e.resources = 1 .. Len(e.resources)
      BY DEF IsSequence
    <3>2. IsFiniteSet(1 .. Len(e.resources))
      BY <3>1, FS_Interval
    <3>3. QED
      BY <3>1, <3>2, FS_Subset
  <2>3. ASSUME NEW i \in matching
        PROVE  e.resources[i] \in Designators(e) /\ Covers(e, e.resources[i], o, failing, cluster)
    BY <1>3, <2>3 DEF Designators, ToSet, Covers, hasException
  <2> HIDE DEF matching
  <2>4. Cardinality(matching) \in Nat /\ (Cardinality(matching) # 0 => matching # {})
    BY <2>2, FS_CardinalityType, FS_EmptySet
  <2>5. QED
    BY <2>1, <2>3, <2>4
<1>4. QED
  BY <1>1, <1>2, <1>3

(* The first exception that is listed is one of those asked about.           *)
LEMMA ListedCovers ==
    ASSUME NEW l, IsSequence(l), \A e \in ToSet(l) : IsSequence(e.resources),
           NEW o, NEW cluster, NEW failing,
           getResourceExceptions(l, o, cluster, failing) # << >>
    PROVE  LET e == Head(getResourceExceptions(l, o, cluster, failing))
           IN  e \in ToSet(l) /\ \E d \in Designators(e) : Covers(e, d, o, failing, cluster)
<1> DEFINE times(i) == Matches(l[i], o, cluster, failing)
           seqs == [i \in DOMAIN l |-> [n \in 1 .. times(i) |-> l[i]]]
           flat == FlattenSeq(seqs)
           E == ToSet(l)
           n == Len(l)
<1>1. n \in Nat /\ DOMAIN l = 1 .. n /\ \A i \in 1 .. n : l[i] \in E
  BY DEF IsSequence, ToSet
<1>2. ASSUME NEW i \in 1 .. n
      PROVE  /\ times(i) \in Nat
             /\ times(i) # 0 => \E d \in Designators(l[i]) : Covers(l[i], d, o, failing, cluster)
  <2>1. IsSequence(l[i].resources)
    BY <1>1, <1>2
  <2>2. QED
    BY <2>1, CountOfMatches
<1>3. flat = getResourceExceptions(l, o, cluster, failing)
  BY DEF getResourceExceptions
<1> HIDE DEF times
<1>4. ASSUME NEW i \in 1 .. n
      PROVE  /\ seqs[i] \in Seq(E)
             /\ ToSet(seqs[i]) = {l[i] : j \in 1 .. times(i)}
  <2>1. seqs[i] = [j \in 1 .. times(i) |-> l[i]]
    BY <1>1
  <2>2. times(i) \in Nat /\ l[i] \in E
    BY <1>1, <1>2
  <2> HIDE DEF seqs, E
  <2>3. QED
    BY <2>1, <2>2 DEF ToSet
<1>5. seqs \in [1 .. n -> Seq(E)]
  BY <1>1, <1>4
<1> HIDE DEF seqs, E, n
<1>6. flat \in Seq(E) /\ ToSet(flat) = MembersOf(seqs, n)
  BY <1>1, <1>5, FlattenMembers
<1> HIDE DEF flat
<1>7. Head(flat) \in ToSet(flat)
  <2>1. flat # << >>
    BY <1>3
  <2>2. 1 \in DOMAIN flat /\ Head(flat) = flat[1]
    BY <1>6, <2>1
  <2>3. QED
    BY <2>2 DEF ToSet
<1>8. PICK i \in 1 .. n : Head(flat) \in ToSet(seqs[i])
  BY <1>6, <1>7 DEF MembersOf
<1>9. Head(flat) = l[i] /\ times(i) # 0
  <2>1. \E j \in 1 .. times(i) : Head(flat) = l[i]
    BY <1>4, <1>8
  <2>2. times(i) \in Nat
    BY <1>2
  <2>3. QED
    BY <2>1, <2>2
<1>10. QED
  BY <1>1, <1>2, <1>3, <1>9 DEF E

-----------------------------------------------------------------------------
(* The inductive invariant.  What the scan gave of a response stays; it has  *)
(* an exception if and only if a call gave it one, and then the exception is *)
(* of that call and covers a workload of the response in that call's cluster. *)
IsResponse(r) ==
    /\ DOMAIN r = {"workloads", "paths", "exception", "ruleStatus"}
    /\ IsSequence(r.workloads)
    /\ \A w \in ToSet(r.workloads) : \A o \in w.related : ~isTypeRegoResponseVector(o)

CoversSome(e, r, cluster) ==
    \E w \in ToSet(r.workloads), d \in Designators(e) :
        Covers(e, d, w, extractFailingContainerNames(r.paths, w), cluster)

ExceptedBy(r, why) ==
    /\ r.exception # NoException
    /\ r.exception \in ToSet(why.exceptions)
    /\ r.ruleStatus = GetStatus(r.exception)
    /\ CoversSome(r.exception, r, why.cluster)

NotExcepted(r) ==
    r.exception = NoException /\ r.ruleStatus \in {Unset, GetStatus(NoException)}

CauseIsShown(r, why) ==
    IF why = NoException THEN NotExcepted(r) ELSE ExceptedBy(r, why)

ResponsesAreExplained ==
    /\ calls \in 0 .. MaxCalls
    /\ DOMAIN cause = DOMAIN responses
    /\ \A i \in DOMAIN responses :
          IsResponse(responses[i]) /\ CauseIsShown(responses[i], cause[i])

LEMMA FoundCovers ==
    ASSUME NEW r, IsResponse(r), NEW l \in ExceptionLists, NEW cluster,
           Excepted(r, l, cluster) # {}
    PROVE  /\ Found(r, l, cluster) # NoException
           /\ Found(r, l, cluster) \in ToSet(l)
           /\ CoversSome(Found(r, l, cluster), r, cluster)
<1> DEFINE S == Excepted(r, l, cluster)
           i == Max(S)
           w == r.workloads[i]
           failing == extractFailingContainerNames(r.paths, w)
<1>1. Len(r.workloads) \in Nat /\ DOMAIN r.workloads = 1 .. Len(r.workloads)
  BY DEF IsResponse, IsSequence
<1>2. S \in SUBSET (1 .. Len(r.workloads))
  BY <1>1 DEF Excepted
<1> HIDE DEF S
<1>3. i \in S
  BY <1>1, <1>2, MaxIsMember DEF S
<1>4. w \in ToSet(r.workloads) /\ getResourceExceptions(l, w, cluster, failing) # << >>
  BY <1>3 DEF S, Excepted, ToSet
<1>5. Found(r, l, cluster) = Head(getResourceExceptions(l, w, cluster, failing))
  BY DEF Found, S
<1>6. IsSequence(l) /\ \A e \in ToSet(l) : e # NoException /\ IsSequence(e.resources)
  BY ExceptionListsAssumption
<1> HIDE DEF w, failing, i
<1> DEFINE e == Head(getResourceExceptions(l, w, cluster, failing))
<1>7. e \in ToSet(l) /\ \E d \in Designators(e) : Covers(e, d, w, failing, cluster)
  BY <1>4, <1>6, ListedCovers
<1> HIDE DEF e
<1>8. Found(r, l, cluster) = e
  BY <1>5 DEF e
<1>9. QED
  BY <1>4, <1>6, <1>7, <1>8 DEF CoversSome, failing

LEMMA CallExplains ==
    ASSUME NEW r, NEW why, IsResponse(r), CauseIsShown(r, why),
           NEW l \in ExceptionLists, NEW cluster
    PROVE  /\ IsResponse(WithException(r, l, cluster))
           /\ CauseIsShown(WithException(r, l, cluster),
                           IF Excepted(r, l, cluster) = {} THEN why
                           ELSE [exceptions |-> l, cluster |-> cluster])
<1> DEFINE new == WithException(r, l, cluster)
           x == IF Excepted(r, l, cluster) = {} THEN r.exception ELSE Found(r, l, cluster)
           call == [exceptions |-> l, cluster |-> cluster]
<1>1. CASE r.workloads = << >>
  <2>1. Excepted(r, l, cluster) = {}
    BY <1>1 DEF Excepted
  <2>2. new = r
    BY <1>1 DEF WithException
  <2>3. QED
    BY <2>1, <2>2
<1>2. CASE r.workloads # << >>
  <2>1. /\ DOMAIN new = DOMAIN r
        /\ new.workloads = r.workloads /\ new.paths = r.paths
        /\ new.exception = x /\ new.ruleStatus = GetStatus(x)
    BY <1>2 DEF WithException, IsResponse
  <2> HIDE DEF new, x
  <2>2. IsResponse(new)
    BY <2>1 DEF IsResponse
  <2>3. CASE Excepted(r, l, cluster) = {}
    <3>1. x = r.exception
      BY <2>3 DEF x
    <3>2. CoversSome(x, r, why.cluster) <=> CoversSome(x, new, why.cluster)
      BY <2>1 DEF CoversSome
    <3>3. CauseIsShown(new, why)
      BY <2>1, <3>1, <3>2 DEF CauseIsShown, NotExcepted, ExceptedBy
    <3>4. QED
      BY <2>2, <2>3, <3>3 DEF new
  <2>4. CASE Excepted(r, l, cluster) # {}
    <3>1. x = Found(r, l, cluster)
      BY <2>4 DEF x
    <3>2. x # NoException /\ x \in ToSet(l) /\ CoversSome(x, r, cluster)
      BY <2>4, <3>1, FoundCovers
    <3>3. CoversSome(x, new, cluster)
      BY <2>1, <3>2 DEF CoversSome
    <3>4. call # NoException /\ call.exceptions = l /\ call.cluster = cluster
      BY DEF NoException
    <3> HIDE DEF call
    <3>5. CauseIsShown(new, call)
      BY <2>1, <3>2, <3>3, <3>4 DEF CauseIsShown, ExceptedBy
    <3>6. QED
      BY <2>2, <2>4, <3>5 DEF new, call
  <2>5. QED
    BY <2>3, <2>4
<1>3. QED
  BY <1>1, <1>2

(* Every response is explained by the call that gave it its exception, after *)
(* however many calls with whatever exceptions (SetRuleResponsExceptions).   *)
THEOREM Explained == Spec => []ResponsesAreExplained
<1>1. Init => ResponsesAreExplained
  <2> SUFFICES ASSUME Init PROVE ResponsesAreExplained
    OBVIOUS
  <2>1. DOMAIN cause = DOMAIN responses /\ \A i \in DOMAIN responses : cause[i] = NoException
    BY DEF Init
  <2>2. \A i \in DOMAIN responses : IsNewResponse(responses[i])
    BY ResponsesAssumption DEF Init
  <2>3. calls \in 0 .. MaxCalls
    BY MaxCallsAssumption DEF Init
  <2>4. QED
    BY <2>1, <2>2, <2>3
    DEF ResponsesAreExplained, IsNewResponse, IsResponse, CauseIsShown, NotExcepted
<1>2. ResponsesAreExplained /\ [Next]_vars => ResponsesAreExplained'
  <2> SUFFICES ASSUME ResponsesAreExplained, [Next]_vars PROVE ResponsesAreExplained'
    OBVIOUS
  <2>1. CASE UNCHANGED vars
    BY <2>1 DEF ResponsesAreExplained, vars
  <2>2. ASSUME NEW l \in ExceptionLists, NEW cluster \in Cluster,
               SetRuleResponsExceptions(l, cluster)
        PROVE  ResponsesAreExplained'
    <3>1. calls' \in 0 .. MaxCalls
      BY <2>2, MaxCallsAssumption DEF SetRuleResponsExceptions, ResponsesAreExplained
    <3>2. CASE l = << >>
      BY <2>2, <3>1, <3>2 DEF SetRuleResponsExceptions, ResponsesAreExplained
    <3>3. CASE l # << >>
      <4> DEFINE r(i) == responses[i]
                 new(i) == WithException(responses[i], l, cluster)
                 why(i) == IF Excepted(responses[i], l, cluster) = {} THEN cause[i]
                           ELSE [exceptions |-> l, cluster |-> cluster]
      <4>1. /\ DOMAIN responses' = DOMAIN responses /\ DOMAIN cause' = DOMAIN responses
            /\ \A i \in DOMAIN responses : responses'[i] = new(i) /\ cause'[i] = why(i)
        BY <2>2, <3>3 DEF SetRuleResponsExceptions
      <4>2. ASSUME NEW i \in DOMAIN responses
            PROVE  IsResponse(new(i)) /\ CauseIsShown(new(i), why(i))
        <5>1. IsResponse(responses[i]) /\ CauseIsShown(responses[i], cause[i])
          BY DEF ResponsesAreExplained
        <5>2. QED
          BY <5>1, CallExplains
      <4> HIDE DEF new, why
      <4>3. QED
        BY <3>1, <4>1, <4>2 DEF ResponsesAreExplained
    <3>4. QED
      BY <3>2, <3>3
  <2>3. QED
    BY <2>1, <2>2 DEF Next
<1>3. QED
  BY <1>1, <1>2, PTL DEF Spec

(* The status of a response that has an exception is that of the exception,  *)
(* and the exception is one of the call that is recorded as its cause.       *)
THEOREM StatusCorrect == Spec => []StatusFollowsException
<1>1. ResponsesAreExplained => StatusFollowsException
  <2> SUFFICES ASSUME ResponsesAreExplained PROVE StatusFollowsException
    OBVIOUS
  <2>1. ASSUME NEW i \in DOMAIN responses
        PROVE  /\ responses[i].ruleStatus \in {Unset, "warning", "failed"}
               /\ responses[i].exception = NoException <=> cause[i] = NoException
               /\ cause[i] # NoException => responses[i].exception \in ToSet(cause[i].exceptions)
               /\ responses[i].exception # NoException =>
                      responses[i].ruleStatus = GetStatus(responses[i].exception)
    <3>1. CauseIsShown(responses[i], cause[i])
      BY DEF ResponsesAreExplained
    <3>2. \A e : GetStatus(e) \in {"warning", "failed"}
      BY DEF GetStatus
    <3>3. QED
      BY <3>1, <3>2 DEF CauseIsShown, NotExcepted, ExceptedBy
  <2>2. QED
    BY <2>1 DEF StatusFollowsException, TypeOK, ResponsesAreExplained
<1>2. QED
  BY <1>1, Explained, PTL

(* What covers a workload is satisfied by one of its objects alone.          *)
LEMMA CoveredByOneObject ==
    ASSUME NEW e, NEW d, NEW w, \A o \in w.related : ~isTypeRegoResponseVector(o),
           NEW failing, NEW cluster, Covers(e, d, w, failing, cluster)
    PROVE  /\ ~e.malformed
           /\ matchesCluster(d, cluster)
           /\ \E o \in Objects(w) :
                 /\ Satisfies(o, d, e, failing)
                 /\ isTypeRegoResponseVector(o) =>
                       e.selector = NoSelector /\ ContainerName \notin DOMAIN d.labels
<1>1. /\ ~e.malformed /\ matchesCluster(d, cluster)
      /\ hasExceptionForAttributes(cluster, d, w, failing, e.selector)
  BY DEF Covers, hasExceptionForAttributes
<1>2. ASSUME NEW o, metadataHasException(o, d, failing, e.selector)
      PROVE  Satisfies(o, d, e, failing)
  BY <1>2 DEF metadataHasException, Satisfies, SelectorMatches, NoSelector
<1>3. CASE ~isTypeRegoResponseVector(w)
  <2>1. w \in Objects(w) /\ metadataHasException(w, d, failing, e.selector)
    BY <1>1, <1>3 DEF Objects, hasExceptionForAttributes
  <2>2. QED
    BY <1>1, <1>2, <1>3, <2>1
<1>4. CASE isTypeRegoResponseVector(w)
  <2>1. CASE iterateRegoResponseVector(w, d, failing, e.selector)
    <3>1. PICK o \in w.related : metadataHasException(o, d, failing, e.selector)
      BY <2>1 DEF iterateRegoResponseVector
    <3>2. o \in Objects(w) /\ ~isTypeRegoResponseVector(o)
      BY <1>4 DEF Objects
    <3>3. QED
      BY <1>1, <1>2, <3>1, <3>2
  <2>2. CASE FallsThrough(d, e.selector) /\ metadataHasException(w, d, failing, e.selector)
    <3>1. w \in Objects(w)
      BY DEF Objects
    <3>2. QED
      BY <1>1, <1>2, <2>2, <3>1 DEF FallsThrough
  <2>3. QED
    BY <1>1, <1>4, <2>1, <2>2 DEF hasExceptionForAttributes
<1>5. QED
  BY <1>3, <1>4

(* The containers the code compares with are those that are blamed.          *)
LEMMA ComparesBlamed ==
    ASSUME NEW r, NEW w, isTypeWorkload(w), NEW pattern
    PROVE  compareContainerName(w, pattern, extractFailingContainerNames(r.paths, w))
               <=> \E c \in Blamed(r, w) : regexCompare(pattern, c)
<1> DEFINE failing == extractFailingContainerNames(r.paths, w)
           plain == {p \in r.paths : ~p.init /\ p.index < Len(w.containers)}
           init == {p \in r.paths : p.init /\ p.index < Len(w.initContainers)}
           pointed == {w.containers[p.index + 1] : p \in plain}
                      \union {w.initContainers[p.index + 1] : p \in init}
<1>1. failing = UNION {ContainerAt(w, p) : p \in r.paths}
  <2>1. ~isTypeRegoResponseVector(w)
    BY DEF isTypeWorkload, isTypeRegoResponseVector
  <2>2. QED
    BY <2>1 DEF extractFailingContainerNames
<1>2. ASSUME NEW c PROVE c \in failing <=> c \in pointed
  <2>1. c \in failing <=> \E p \in r.paths : c \in ContainerAt(w, p)
    BY <1>1
  <2>2. c \in pointed <=> \/ \E p \in plain : c = w.containers[p.index + 1]
                         \/ \E p \in init : c = w.initContainers[p.index + 1]
    OBVIOUS
  <2>3. QED
    BY <2>1, <2>2 DEF ContainerAt
<1>3. failing = pointed
  BY <1>2
<1>4. Blamed(r, w) = IF pointed # {} THEN pointed
                     ELSE ToSet(w.containers) \union ToSet(w.initContainers)
  BY DEF Blamed
<1> HIDE DEF failing, pointed
<1>5. QED
  BY <1>3, <1>4 DEF compareContainerName, failing

(* A plain workload that is covered by container is covered by one to blame. *)
LEMMA CoveredByBlamed ==
    ASSUME NEW e, NEW d, NEW r, NEW w, isTypeWorkload(w), NEW cluster,
           Covers(e, d, w, extractFailingContainerNames(r.paths, w), cluster),
           ContainerName \in DOMAIN d.labels
    PROVE  BlamedIsNamed(r, w, d)
<1> DEFINE failing == extractFailingContainerNames(r.paths, w)
<1>1. ~isTypeRegoResponseVector(w)
  BY DEF isTypeWorkload, isTypeRegoResponseVector
<1>2. metadataHasException(w, d, failing, e.selector)
  BY <1>1 DEF Covers, hasExceptionForAttributes
<1>3. compareContainerName(w, d.labels[ContainerName], failing)
  BY <1>2 DEF metadataHasException, ContainerMatches
<1>4. QED
  BY <1>3, ComparesBlamed DEF BlamedIsNamed

(* An excepted response alerts on one object that alone satisfies all the    *)
(* exception asks, in the cluster of the call that found it, whatever calls  *)
(* came before and after (getResourceExceptions, hasExceptionForAttributes). *)
THEOREM OneObjectCorrect == Spec => []OneObjectSatisfiesAll
<1>1. ResponsesAreExplained => OneObjectSatisfiesAll
  <2> SUFFICES ASSUME ResponsesAreExplained PROVE OneObjectSatisfiesAll
    OBVIOUS
  <2>1. ASSUME NEW i \in DOMAIN responses, responses[i].exception # NoException
        PROVE  /\ IsResponse(responses[i])
               /\ CoversSome(responses[i].exception, responses[i], cause[i].cluster)
    BY <2>1 DEF ResponsesAreExplained, CauseIsShown, NotExcepted, ExceptedBy
  <2>2. FailingContainerIsNamed
    <3> SUFFICES ASSUME NEW i \in DOMAIN responses, responses[i].exception # NoException,
                        \A w \in ToSet(responses[i].workloads) : isTypeWorkload(w),
                        \A d \in Designators(responses[i].exception) :
                            ContainerName \in DOMAIN d.labels
                 PROVE  \E w \in ToSet(responses[i].workloads),
                           d \in Designators(responses[i].exception) :
                               BlamedIsNamed(responses[i], w, d)
      BY DEF FailingContainerIsNamed
    <3> DEFINE r == responses[i]
    <3>1. PICK w \in ToSet(r.workloads), d \in Designators(r.exception) :
              Covers(r.exception, d, w, extractFailingContainerNames(r.paths, w),
                     cause[i].cluster)
      BY <2>1 DEF CoversSome
    <3>2. isTypeWorkload(w) /\ ContainerName \in DOMAIN d.labels
      OBVIOUS
    <3>3. QED
      BY <3>1, <3>2, CoveredByBlamed
  <2>3. ASSUME NEW i \in DOMAIN responses, responses[i].exception # NoException
        PROVE  \E w \in ToSet(responses[i].workloads), d \in Designators(responses[i].exception) :
                  /\ ~responses[i].exception.malformed
                  /\ matchesCluster(d, cause[i].cluster)
                  /\ \E o \in Objects(w) :
                        /\ Satisfies(o, d, responses[i].exception,
                                     extractFailingContainerNames(responses[i].paths, w))
                        /\ isTypeRegoResponseVector(o) =>
                              /\ responses[i].exception.selector = NoSelector
                              /\ ContainerName \notin DOMAIN d.labels
    <3> DEFINE r == responses[i]
               failing(w) == extractFailingContainerNames(r.paths, w)
    <3>1. PICK w \in ToSet(r.workloads), d \in Designators(r.exception) :
              Covers(r.exception, d, w, failing(w), cause[i].cluster)
      BY <2>1, <2>3 DEF CoversSome
    <3>2. \A o \in w.related : ~isTypeRegoResponseVector(o)
      BY <2>1, <2>3 DEF IsResponse
    <3> HIDE DEF failing
    <3>3. /\ ~r.exception.malformed /\ matchesCluster(d, cause[i].cluster)
          /\ \E o \in Objects(w) :
                /\ Satisfies(o, d, r.exception, failing(w))
                /\ isTypeRegoResponseVector(o) =>
                      r.exception.selector = NoSelector /\ ContainerName \notin DOMAIN d.labels
      BY <3>1, <3>2, CoveredByOneObject
    <3>4. QED
      BY <3>1, <3>3 DEF failing
  <2>4. QED
    BY <2>2, <2>3 DEF OneObjectSatisfiesAll
<1>2. QED
  BY <1>1, Explained, PTL

-----------------------------------------------------------------------------
(* An exception that grants a workload what it asks is listed for it.        *)
LEMMA GrantedMatches ==
    ASSUME NEW e, IsSequence(e.resources), NEW r, NEW w, isTypeWorkload(w), NEW cluster,
           Grants(e, r, w, cluster)
    PROVE  Matches(e, w, cluster, extractFailingContainerNames(r.paths, w)) # 0
<1> DEFINE failing == extractFailingContainerNames(r.paths, w)
           matching == {i \in DOMAIN e.resources :
                            hasException(cluster, e.resources[i], w, failing, e.selector)}
<1>1. PICK d \in Designators(e) :
          /\ ~e.malformed
          /\ d # EmptyDesignator \/ e.resources = << >>
          /\ matchesCluster(d, cluster)
          /\ FieldsMatch(d, w) /\ LabelsMatch(d, w)
          /\ SelectorMatches(e.selector, w)
          /\ ContainerName \in DOMAIN d.labels => BlamedIsNamed(r, w, d)
  BY DEF Grants
<1>2. hasExceptionForAttributes(cluster, d, w, failing, e.selector)
  <2>1. ~isTypeRegoResponseVector(w)
    BY DEF isTypeWorkload, isTypeRegoResponseVector
  <2>2. ContainerMatches(d, w, failing)
    BY <1>1, ComparesBlamed DEF ContainerMatches, BlamedIsNamed
  <2> HIDE DEF failing
  <2>3. QED
    BY <1>1, <2>1, <2>2 DEF hasExceptionForAttributes, metadataHasException
<1> HIDE DEF failing
<1>3. CASE e.resources = << >>
  BY <1>1, <1>2, <1>3 DEF Matches, Designators, failing
<1>4. CASE e.resources # << >>
  <2>1. Matches(e, w, cluster, failing) = Cardinality(matching)
    BY <1>1, <1>4 DEF Matches
  <2>2. IsFiniteSet(matching)
    <3>1. Len(e.resources) \in Nat /\ DOMAIN e.resources = 1 .. Len(e.resources)
      BY DEF IsSequence
    <3>2. IsFiniteSet(1 .. Len(e.resources))
      BY <3>1, FS_Interval
    <3>3. QED
      BY <3>1, <3>2, FS_Subset
  <2>3. matching # {}
    <3>1. PICK i \in DOMAIN e.resources : d = e.resources[i]
      BY <1>1, <1>4 DEF Designators, ToSet
    <3>2. hasException(cluster, e.resources[i], w, failing, e.selector)
      BY <1>1, <1>2, <1>4, <3>1 DEF hasException
    <3>3. QED
      BY <3>2
  <2> HIDE DEF matching
  <2>4. Cardinality(matching) # 0
    BY <2>2, <2>3, FS_EmptySet
  <2>5. QED
    BY <2>1, <2>4 DEF failing
<1>5. QED
  BY <1>3, <1>4

(* With an exception that is listed, what is listed is not empty.            *)
LEMMA ListedIsFound ==
    ASSUME NEW l, IsSequence(l), \A e \in ToSet(l) : IsSequence(e.resources),
           NEW o, NEW cluster, NEW failing,
           NEW k \in DOMAIN l, Matches(l[k], o, cluster, failing) # 0
    PROVE  getResourceExceptions(l, o, cluster, failing) # << >>
<1> DEFINE times(i) == Matches(l[i], o, cluster, failing)
           seqs == [i \in DOMAIN l |-> [n \in 1 .. times(i) |-> l[i]]]
           flat == FlattenSeq(seqs)
           E == ToSet(l)
           n == Len(l)
<1>1. n \in Nat /\ DOMAIN l = 1 .. n /\ \A i \in 1 .. n : l[i] \in E
  BY DEF IsSequence, ToSet
<1>2. ASSUME NEW i \in 1 .. n PROVE times(i) \in Nat
  <2>1. IsSequence(l[i].resources)
    BY <1>1, <1>2
  <2>2. QED
    BY <2>1, CountOfMatches
<1>3. flat = getResourceExceptions(l, o, cluster, failing)
  BY DEF getResourceExceptions
<1>4. times(k) # 0
  OBVIOUS
<1> HIDE DEF times
<1>5. ASSUME NEW i \in 1 .. n
      PROVE  /\ seqs[i] \in Seq(E)
             /\ ToSet(seqs[i]) = {l[i] : j \in 1 .. times(i)}
  <2>1. seqs[i] = [j \in 1 .. times(i) |-> l[i]]
    BY <1>1
  <2>2. times(i) \in Nat /\ l[i] \in E
    BY <1>1, <1>2
  <2> HIDE DEF seqs, E
  <2>3. QED
    BY <2>1, <2>2 DEF ToSet
<1>6. seqs \in [1 .. n -> Seq(E)]
  BY <1>1, <1>5
<1>7. l[k] \in ToSet(seqs[k])
  <2>1. 1 \in 1 .. times(k)
    BY <1>1, <1>2, <1>4
  <2>2. QED
    BY <1>1, <1>5, <2>1
<1> HIDE DEF seqs, E, n
<1>8. ToSet(flat) = MembersOf(seqs, n)
  BY <1>1, <1>6, FlattenMembers
<1>9. l[k] \in ToSet(flat)
  BY <1>1, <1>7, <1>8 DEF MembersOf
<1>10. flat # << >>
  BY <1>9 DEF ToSet
<1>11. QED
  BY <1>3, <1>10

(* An exception is never withheld: with the next call a response that alerts *)
(* on a plain workload meeting all that some exception of the call asks has  *)
(* an exception of that call, whatever calls came before                     *)
(* (SetRuleResponsException, getResourceExceptions, compareContainerName).   *)
THEOREM GrantedCorrect == Spec => []MatchesAreGranted
<1>1. ResponsesAreExplained => MatchesAreGranted
  <2> SUFFICES ASSUME ResponsesAreExplained,
                      NEW i \in DOMAIN responses, NEW l \in ExceptionLists, NEW cluster \in Cluster,
                      NEW w \in ToSet(responses[i].workloads), NEW e \in ToSet(l),
                      isTypeWorkload(w), Grants(e, responses[i], w, cluster)
               PROVE  WithException(responses[i], l, cluster).exception \in ToSet(l)
    BY DEF MatchesAreGranted
  <2> DEFINE r == responses[i]
             failing(o) == extractFailingContainerNames(r.paths, o)
  <2>1. IsResponse(r)
    BY DEF ResponsesAreExplained
  <2>2. IsSequence(l) /\ \A x \in ToSet(l) : IsSequence(x.resources)
    BY ExceptionListsAssumption
  <2>3. PICK k \in DOMAIN l : e = l[k]
    BY DEF ToSet
  <2>4. Matches(e, w, cluster, failing(w)) # 0
    BY <2>2, GrantedMatches
  <2> HIDE DEF failing
  <2>5. getResourceExceptions(l, w, cluster, failing(w)) # << >>
    BY <2>2, <2>3, <2>4, ListedIsFound
  <2>6. PICK j \in DOMAIN r.workloads : w = r.workloads[j]
    BY DEF ToSet
  <2>7. Excepted(r, l, cluster) # {}
    BY <2>5, <2>6 DEF Excepted, failing
  <2>8. Found(r, l, cluster) \in ToSet(l)
    BY <2>1, <2>7, FoundCovers
  <2>9. r.workloads # << >>
    BY <2>6
  <2>10. WithException(r, l, cluster).exception = Found(r, l, cluster)
    BY <2>1, <2>7, <2>9 DEF WithException, IsResponse
  <2>11. QED
    BY <2>8, <2>10
<1>2. QED
  BY <1>1, Explained, PTL
=============================================================================

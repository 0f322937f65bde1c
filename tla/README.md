# Verification of opa-utils

TLA+ models, TLC runs and TLAPS proofs about the Go library `opa-utils`: the
statuses, exceptions, results, summaries and scores with which a Kubernetes
posture scan is reported, from the objects that are scanned to the report that is
written and read back.

The library keeps the same facts in several places at once (a map and its
counters, a cached status and the rules it came from, one summary per framework
and one for the whole report), updates each of them by hand, and serves
different *views* of one result depending on the framework that asks. What can
go wrong is that two of those representations stop agreeing after some sequence
of calls. That is what the models look for.

## The system and its parts

| Part | State it keeps | Operations | What is hard, and what makes it correct |
|---|---|---|---|
| statuses (`reporthandling/apis/statuses.go`) | none | `Compare`, `CompareStatusAndSubStatus` | folds that must not depend on an order nobody controls |
| item lists (`reporthandling/helpers/v1/listing.go`) | a map item → status, four counters, a `sync.Pool` of objects | `Append`, `Update`, `Clear`, `Initialize`, `GetItems`, `Len` | counters kept by hand; iteration of Go maps in any order; recycled objects |
| exception matching (`exceptions/`) | policies; regexp and designator caches shared by goroutines | `ListRuleExceptions`, `FilterExceptionsByFrameworks`, `GetResourceExceptions`, `SetRuleResponsExceptions` | three filters in a row over shrinking copies; vectors whose related objects and envelope both may match; check-then-act on the caches |
| resource results (`reporthandling/results/v1/resourcesresults/`) | rules with raw statuses and attached exceptions; a cached control status; an unexported attribute | `SetExceptions`, `SetStatus`, `GetStatus(filters)`, JSON | the cached view against the computed ones; what JSON loses |
| report summary (`reporthandling/results/v1/reportsummary/`) | per view and control: status, sub status, three kinds of counters; totals; severity counters | `AppendResourceResult`, `InitResourcesSummary`, `GetStatus` | the same result folded several times under several filters; sticky sub statuses |
| v1 reports (`reporthandling/datastructuresmethods*.go`, `resultshandling.go`, `internal/slices`) | responses with exceptions, lists of inputs, counters, default scores | `SetUniqueResourcesCounter`, `SetDefaultScore`, `SetFrameworkExceptions` | slices changed in place; statuses over responses against counters over resources |
| scores (`score/`) | scores on the reports | `CalculatePostureReportV2`, `SetPostureReportComplianceScores`, `CalculateFrameworkScore` | accumulation and partial updates on error; two scores of the same facts |
| RBAC aggregation (`reporthandling/regoresourcesaggregator.go`) | none | joins of role bindings, roles and subjects into vectors; the API server pod | references whose qualifiers may be unset or corrupt; copies that may fail half way; vectors that share maps |
| attack tracks (`reporthandling/attacktrack`) | a tree of steps with the failed controls of a resource; per handler an adjacency matrix and the names visited | `NewAttackTrackAllPathsHandler`, `CalculateAllPaths`, `CalculatePathsRootToLeaf`, `GenerateAttackTrackFromPaths` | maps keyed by the names of steps, not the steps; handlers of different resources write to one track; paths are pointers into it |
| prioritization (`.../results/v1/prioritization`), severities (`reporthandling/apis/severity.go`) | none | vectors of the paths, their scores and severities | every combination of the controls of a path, once |
| objects and envelopes (`objectsenvelopes/`), resources (`reporthandling/resourcemethods.go`) | Go maps reached through several wrappers; a resource keeps its object twice, as what is written and as what is asked | `NewObject`, setters, `GetID`, `SetObject`, `NewResourceIMetadata`, JSON | aliasing: which of two faces a setter reaches; an object wrapped as one type and read back as another |
| v2 posture report and decoders (`reporthandling/v2`, `reporthandling/gojayunmarshaller.go`) | results, resources, summary, scan contract | streaming decoding of the common part, `GetResource`; the rest delegates to the summary | a decoder that has to agree with the struct tags key by key, and with an explicit zero apart from an omitted key; documents that are cut |
| policy resources, cloud metadata, httpserver, mocks | data | accessors, loaders | none: data conversion and file reading only |

A scan runs through them in this order: objects are wrapped in envelopes, and joined into
vectors for the rules that ask for them; rules produce raw statuses for each
resource; `SetExceptions` attaches the posture exceptions and caches the control
statuses; `AppendResourceResult` folds each result into the summaries;
`InitResourcesSummary` closes the summary; the scores are calculated from it;
`GetStatus` and the counters are read, before or after a JSON round trip. The v1
reports are an older form of the same, in which exceptions are set on the responses
of the rules. The exception processor is shared by goroutines that evaluate
controls at once: its caches are the only state of the library built for that.

## Modules

| Module | Models | State and actions |
|---|---|---|
| `ScanStatus` | the status algebra | pure definitions |
| `ReportTable` | abstract specification of an item list | `reported` (what was reported for each item), `tally` (how many items have each class as their worst report); `Report`, `Forget` |
| `AllLists` | `listing.go` | the map, its counters, the running `Update` loop (one step per map entry, in any order); `Append`, `BeginUpdate`/`UpdateStep`, `Clear`, `Initialize`; refines `ReportTable` |
| `ExceptionMatcher` | abstract specification of the exception processor | `asked`, `busy`, `answered` for each goroutine; `Ask`, and `Reply` with what a fresh computation would give |
| `DesignatorKey` | the key of the designator cache: the bytes that `HashMap` hashes | pure definitions; labels are sequences of characters here because the property is about their boundaries |
| `ProcessorCaches` | the regexp and designator caches | the caches and the program counter of each goroutine; one action per access of a cache (`Call`; `Load`, `Compile`, `Store`; `Get`, `DigestDesignator`, `Set`); refines `ExceptionMatcher` |
| `WorkloadMatch` | designators, selectors and containers against workloads and vectors | pure definitions |
| `ResponseExceptions` | `SetRuleResponsExceptions` | the responses of a rule; which call gave each its exception (history) |
| `PosturePolicy` | tuple matching in `exceptionprocessor.go` | pure definitions; patterns are a constant relation |
| `ControlStatus` | status of rules, controls and results in `resourcesresults/` | pure definitions |
| `ResourceResult` | a `Result` under `SetStatus`, `SetExceptions` and the JSON round trip | `controls`, `attribute` (actionRequired of the control definitions), `applied` (history) |
| `ReportSummary` | `reportsummary/` | one map of control summaries per view (every framework, and the report), totals, severity counters; `AppendResourceResult`, `InitResourcesSummary` |
| `SummaryStatus` | the fold of `statusWithControlSubStatuses` | one control per step, in any order |
| `StatusReading` | `GetStatus` of a report and of its frameworks | the running fold (an instance of `SummaryStatus` over the controls of the view), between any two actions of `PostureScore`, which it extends |
| `PostureScore` | the v2 scores of `score.go` | risk and compliance of every view and control; `CalculatePostureReportV2`, `SetPostureReportComplianceScores`, and every action of `ReportSummary`, which it extends |
| `ResourceIDs` | the lists of resource ids, and the slices changed in place | pure definitions; an array is a sequence, its tail survives what is returned |
| `FrameworkReport` | a v1 report | rules with their responses and input arrays, counters, `Score` (a part and the whole it is a percentage of) and `WCSScore`; `SetUniqueResourcesCounter`, `SetDefaultScore`, `CalculateFrameworkScore` (with the listing it does), `SetFrameworkExceptions` |
| `ControlSeverity` | `apis/severity.go` | pure definitions, used by the summary and the priorities |
| `AttackSteps` | a track, `IsValid`, its iterator, the controls of a step | pure definitions; a track is a tree by position whose steps have names |
| `PriorityVectors` | `prioritization/` | pure definitions: the vectors of paths, their validity, scores and severities |
| `Envelopes` | `objectsenvelopes/`: types, getters, setters and IDs of objects | pure definitions; a Go map is a function of its keys |
| `SubjectVectors` | `regoresourcesaggregator.go`: which role a binding refers to | pure definitions |
| `ReportResources` | vectors, envelopes and the resources of a report | a heap of maps with addresses; envelopes and resources that point into it; `RegoResourcesAggregator`, `NewResourceIMetadata`, the getters and setters of resources and envelopes, `SetObject`, `Reload` (JSON), `GetResource` |
| `ReportDecoder` | the `gojay` decoders of both packages against the struct tags | the stack of open structures; one action per key, the end of a structure, of the document, a failure at any point, and `Relay`: the receiver writes the report again |
| `AttackPaths` | `attacktrackmethods.go` | the track with the controls written into its steps, the handlers with their maps, the paths each found last; one action per call: a new handler, the two searches, the generated track, the prioritization |

`ResourceResult` and `ReportSummary` are composed through `ControlStatus`: the
results `MCReportSummary` feeds to the summary are computed by `ControlStatus`
from rules and exceptions, so the summary sees exactly the views a result can
give. `ReportSummary!JointViewAssumption`, an assumption about those views, is
the property `JointViewIsWorstView` that the `resource_result` run checks and `JointViewCorrect`
proves, and TLC evaluates it again on the computed results.

`PostureScore` extends `ReportSummary` and calculates scores between any two of its
steps, and `StatusReading` extends both: one run composes the summary, its scores and its
readers. `ReportResources` uses `SubjectVectors` for its joins and `Envelopes` for all it
asks of objects; a vector it makes is the kind of workload that `WorkloadMatch` matches. `ResponseExceptions` and `FrameworkReport` share the same handler from two
sides: the first expands what a match is and takes one rule, the second expands
the report and takes the resources an exception covers as a set.

`AttackPaths` composes `AttackSteps` and `PriorityVectors`: its handlers share one
track, and the paths they hand on are read with the controls the steps have at that
moment. `ScoreFactor` (of a control: its base score) gives `ReportSummary` the
severities, through `ControlSeverity`, and `PostureScore` its weights.

Definitions named `..._Bug` are faulty variants of the definition that follows
them; replacing it by the variant must break the property named in
`PROJECT.json`, which shows that the property depends on that code.

## Runs

| Run | What it shows | Bounds |
|---|---|---|
| `lists` | counters, listings, the stored status, `Update` and refinement of `ReportTable` | 2 objects (an `Update` from each into the other, or into itself), 2 items (one upgraded while the other is not), one status of each class, the unknown one included; for the deprecated ones there is the proof |
| `resource_result` | exceptions as declared, relations between the views, JSON round trip | 1 or 2 controls with 1 or 2 rules, 2 frameworks, 8 policy lists (framework scoped, crossed tuples, other resource), filters of up to two names and one with a repetition, `MaxCalls` = 2 |
| `report_summary` | counters, totals, severities, agreement of report and frameworks, sub statuses; the two scores against the counters, each other and a second calculation, and a view against its controls after calculations that ended half way; order independence of what `GetStatus` shows | 3 resources (a deployment of three replicas and two vectors, interchangeable), 3 controls (in two frameworks, in one, in none), `InitResourcesSummary` once at any moment (`MaxInits`), scores with every resource known or only the deployment (a framework cannot be weighed and the calculation ends early, with new scores before it and older ones after it) and up to `MaxScored` = 2 results, `GetStatus` before any score and with at most as many results; 119,791 states |
| `processor_caches` | the caches hold what belongs to their keys, no caller can tell they exist, every call returns | 2 goroutines (every race on an entry is between two), a pattern that accepts one name only when case is ignored, one that does not compile; 4 designators that differ from one another in one part of the cache key |
| `response_exceptions` | what an excepted response has in common with its exception, and that none is withheld; narrowing | 8 workloads (a role, a pod, a deployment, a namespace, four vectors), 4 sets of failed paths (none, the first container, a second one that the pod does not have, that and an init container), 16 designators × 5 selectors, 2 clusters, `MaxCalls` = 2 (the second call meets the exception of the first) |
| `framework_report` | counters as unions, recounts; statuses against counters and both kinds of score | up to 2 controls and 2 rules, 3 inputs with duplicates and one resource that is no input, 5 lists of exceptions, 3 pairs of base scores (zero included), scores calculated with every resource known or two of them, `MaxCalls` = 4: count, change the exceptions, count and score again |
| `attack_paths` | both searches find every path once and, repeated over what earlier ones left, nothing that is none; the generated track is the connected part, the score sums every choice of controls once, also of paths whose controls another handler has overwritten | every tree of four steps in every order of its substeps, and six tracks in which a name is used twice (which `IsValid` refuses); 2 handlers; 5 lists of failed controls, among them one unknown id and controls of several categories; vectors scored with every control known or one missing; `MaxCalls` = 4: a handler, a search, another handler or search, and what is made of the paths |
| `report_resources` | a subject is paired with exactly the roles its bindings resolve to, vectors share nothing that can be changed, an ID names what is written, and the two faces of a resource show the same | every combination of 3 kinds of binding and role, set, unset and corrupt qualifiers and 3 API groups (set, of another group, corrupt), a second role beside it; 7 scenarios with objects of every envelope type, among them subjects that are null or cannot be copied; `MaxResources` = 2, `MaxCalls` = 4 (wrap, set, write, ask); 146,989 states |
| `report_decoder` | what is read is the common part of what was written, sections are whole or absent | 141 reports: a scan and an old one as a whole, with every key; the metadata with its contexts, and with a scan contract of gates and one of overrides; and every structure on its own, with all its values, with each of them alone, with each pointer to a zero and with each section empty, so that every key of both tables is written and read; every order of keys, cut between any two values, `MaxRelays` = 1; 830,262 states |
| `acknowledged_claim`, `hash_claim`, `lists_complete_claim` | three statements of the source that the code does not keep | as the passing run of the same module |

Two resources suffice to make any two results meet in a counter; the third lets
a sticky sub status be set, overwritten and set again. The two vectors differ in nothing
but their names, so results are counted up to their exchange (symmetry). Two frameworks are the
least in which a joint view differs from the single ones.

Deadlock is not checked where a behaviour ends by itself: when every resource
has been appended, after `MaxCalls` calls, or when a report has been read.

Several properties are conjunctions: where a run checks one it checks the type invariant of
its module with it (`UpdateCoversSource`, `CountersMatchResources`, `ExceptionsAsDeclared`,
`StatusFollowsException`, `CountersAreUnions`, `ReportShowsSetters`).
`OneObjectSatisfiesAll` includes that a container is named which the failed paths point to, said
without the code's own extraction of names (`FailingContainerIsNamed`, `Blamed`),
`JointViewIsWorstView` that no framework sees a control worse than the raw view does
(`FrameworkViewNeverWorse`).

Fairness is assumed in one place: `ProcessorCaches` has weak fairness of the steps
of each goroutine, for `EveryCallReturns`. The code justifies it: there is no loop
and no wait in a call except for the designator cache's mutex, whose critical
sections contain one map access, and the Go scheduler runs every runnable
goroutine. Everything else is safety: who calls the library, and whether at all,
is not the library's to promise.

The v2 scores are whole percents, truncated; the code has float32. The properties allow
for the truncation (`ComplianceAgrees` accepts 99 where risk and compliance should make 100). The
v1 scores are exact: `ScoresAgree` asks when they are full or zero and compares quotients, and is
not about the rounding of a float, which can make a default score one percent lower. In the v1 report every
response is taken to name at least one supported object.

### Disagreements between comments and code

1. `CompareStatusAndSubStatus` marks a failure as acknowledged when *either*
   operand has the exception sub status, so a rule suppressed by a *disable*
   exception next to a plain failure reads as "an alertOnly exception
   acknowledged the failure" (`acknowledged_claim`).
2. `HashMap` writes a value and its key with the printable separator `0` and no
   lengths, so two different sets of labels have one signature, and one cache entry
   (`hash_claim`).
3. `ListResourcesIDs` trims the list of inputs in place. A resource that failed at
   the first count is not among the inputs at the next: if an exception has
   disabled its failure by then, it is not counted at all (`lists_complete_claim`).

More that no run is spent on, since the definitions show them:

* A failing control summary takes the exception sub status also from a resource that
  *passed* with a disable exception (`ReportSummary!calculateNSetSubStatus`).
* `controlMissingAllConfigurations` stops at the first rule without configurations.
* The names of the failing containers of a vector are united over its related
  objects (`extractFailingContainerNames`), so a container exception of one object
  can apply because a container of that name failed in another.
* `CalculateFrameworkScore` adds to `WCSScore` and never resets it: a second call
  divides by twice the worst case. `ScoresAgree` compares the framework with its
  controls in the first call only.
* `AggregateResourcesByAPIServerPod` makes a plain workload of the pod it finds: when the pod
  came from a manifest, the ID asked of it lacks the path that the ID of the object read back
  from the report has. `NewScanObject` over such an object does the same. `IDNamesWritten`
  speaks of objects that keep their type.
* The setters of a resource over a struct envelope (host sensor data, scan objects), and
  `SetObject` over any, do not reach the object that is written. `ReportShowsSetters` names
  both as exceptions.
* The decoder keeps an empty list behind a pointer as a pointer to a nil slice: it is told
  apart from an omitted key, as `v2/datastructures.go:237` asks, but written again as `null`.
* `GetStatus` of a report without results caches `passed`, and keeps it until
  `InitResourcesSummary`.
* `InitResourcesSummary` adds to `ControlsSeverityCounters`: a second call counts every failed
  control again. `AppendResourceResult` asks the summary for the score factor
  of every failing control of a result, and dereferences nil when the summary does not have
  it; results are taken to be about known controls (`ResultsAssumption`).
* `CalculateAllPaths` adds to the adjacency matrix and reads the names an earlier
  search left in `visited`: after another search of the same handler it repeats or
  misses paths. `SearchesAreComplete` asks it of the first search only; what any search returns
  is a path all the same (`SearchesAreSound`).
* `GenerateAttackTrackFromPaths` dereferences what its filter returns, which is nil
  when the root has no controls and no step with controls is joined to it by steps that have some
  or are on a path; the paths of `CalculateAllPaths` can begin below such a root. `GeneratedIsConnected` says
  that it panics then and only then. The comment before the filter says that the track "will
  contain only nodes that have controls" (`attacktrackmethods.go:269`); a step without controls
  is kept where it connects the root, or a step of a path, with one that has some.
* A second handler overwrites the controls in the steps that the paths of the first
  point to: the track generated and the scores of older paths show the controls of whichever
  resource came last, and scoring panics if a step of them has none now. `GeneratedIsConnected`
  and `ScoreSumsEveryChoice` say just that. No text promises more.

## Proofs

`AllLists_proof` proves, for every set of objects, every finite set of items and
every set of statuses, from `ItemsAssumption` and `StatusesAssumption` only:

* `TypeCorrect`, the type invariant. It carries the one fact about a running
  `Update` that the rest needs: the entries still to visit exist in the source.
* `CountersCorrect`: each counter is the cardinality of its class. The step
  lemma says that assigning a status to an item moves exactly that item between
  the fibres of the map; finiteness of the items makes cardinalities add up.
* `GetItemsCorrect` follows from it: a zero counter means an empty class.
* `MostSignificantStored`, from the fact that `Compare` yields its second operand,
  when that differs from the first, only if its rank is at least as high.
* `UpdateCovers`: ranks in the destination only grow while the loop runs.
* `Refinement`: every step of `AllLists` is a step of `ReportTable` or a stutter,
  from the counters and the stored statuses together.

`Lemmas` holds what the proofs about several modules cite. First, what the folds, sums and
flattenings of the community modules compute. They are recursive functions, which no step of a proof
expands by itself; every lemma
goes back to `InductionUpTo` or `FiniteInduction`, proved from the well-foundedness of finite
sets by a least counterexample: a recursive function that exists is first shown to be solvable, then
its equation is used. From there come the last step of a fold over a sequence, a sum taken apart
at any member (`SumWithout`), compared (`SumScaled`), raised (`SumRaised`), and the members of
a flattened sequence (`FlattenMembers`), which meets nothing twice if its parts do not and share
nothing (`FlattenDistinct`). Second, the algebra of the statuses: the three
precedence lists absorb, that is, summarising a set of sub statuses to one loses nothing for
a later comparison (`FailedAbsorbs`, `PassedAbsorbs`, `SkippedAbsorbs`).

`StatusReading_proof` begins with `ReportSummary` alone: any controls, frameworks, results
and calls, from the assumptions that `ReportSummary` states: finitely many controls, results
about known controls with a tallied status, and `JointViewAssumption`, a joint view is the
worst of the single ones, which `ResourceResult_proof` proves of the results (`JointViewCorrect`).

* `TypeCorrect` and `CountersCorrect` (`CountersMatchResources`). The strengthening says that
  a resource has one result, and that each control summary lists exactly the resources of the
  results about it, with what the view saw (`OneResultEach`, `SummariesCount`). From there
  resources and results are in bijection, so a tally made of either is the same number
  (`ImageCount`, `TotalCounts`), and one more result is one more in each count it belongs to
  (`OneMore`).
* `ReportIsWorstFramework` (`AggregateIsWorstFramework`). No code compares the report with its
  frameworks. The argument is that a counter is zero exactly when no result reported its
  status (`TalliesShowResults`), that the views of one control are all calculated from their
  counters or all show the same supplied status (`StatusesInStep`), and that a failure is seen
  jointly exactly when some framework sees it (`SeenJointly`, from the assumption).
* `SubStatusCorrect` (`SubStatusIsMostSpecific`): a status only gets worse while results come,
  so what an earlier status had reported is of no concern any more, and under one status the
  sticky sub status moves only towards the front of its list (`MoreSpecificIsKept`). Controls
  that a caller supplied a status for are excluded (`preset`), as the property says.
* `SeverityCorrect` (`SeverityMatchesFailures`): a result raises the failed counter of exactly
  the controls that the second pass counts, so the sum over a severity grows by their number
  (`AppendFails`, `SumRaised`).

Then the specification that the `report_summary` run checks: the summary, its scores and its
readers.

* `SummaryIsOrderIndependent`, for every set of controls: the
  invariant of the loop is the closed form of the fold. `ReadingIsOrderIndependent` says the same of
  the loop as it runs in `GetStatus`, whose controls, status and
  sub statuses are those of the view at that moment: the step lemma is about the parametrised
  instance, and the reader's other steps leave the loop alone or end it.
* `SummaryCorrect`: the invariants above, all of them, hold also when statuses are read and scores
  calculated in between. A reader is no step of `ReportSummary`, for it can fill in a status that
  was never calculated; the lemma is that none of the strengthenings mentions that one
  (`StatusesKeepSummary`).
* `RiskCorrect` (`RiskIsMeanOfControls`), for any score factors, any workloads and any sets of
  known resources. The score of a view is a truncated quotient of two sums, those of its controls are
  truncated quotients of their summands. If every control that weighs anything were above the view,
  its failed weight would exceed that of the view's percent and one more, and so would the sum;
  likewise below, strictly for one control (`ViewIsMean`). The invariant says what is stored while a
  history variable calls it fresh (`ScoreInv`, `IsRisk`).
* `WholeCorrect` (`ViewsScoredAsWhole`): the same mean, of what is stored and however old it is. A
  calculation that ends early replaces the scores of a view with those of its controls or leaves both
  (`RiskAfterIsWhole`); if nothing weighs, the controls have none (`NothingWeighs`).
* `RecalculationCorrect` (`RecalculationIsStable`), an action property: `IsRisk` determines what the
  next calculation writes, the report's own score, which it may leave alone, included (`RiskIsStable`).
* `ComplianceCorrect` (`ComplianceAgrees`), if no caller supplies the status passed to
  `InitResourcesSummary` (`NoneSuppliedPassed`). With one, a control is fully compliant whatever its
  resources did, and the property is false; no caller in the repository supplies one
  (`v2/posturereportmethods.go:81` and the tests pass none). Then a
  passed control is one whose counters say so (`PassedIsCalculated`), a mean of percentages is 100
  only if each is (`ViewComplianceBounds`), and two truncated parts of a whole make 99 or 100
  (`PartsOfWhole`). The attempt to prove the second half showed that it needs a positive score
  factor: with a factor of zero a control has no risk however many resources fail, and
  `Mirrored` says so now.

`ResourceResult_proof` is about any evaluated results (any number of controls and rules), policies,
frameworks, filters of any length and relation of patterns, and any sequence of `SetStatus`, `SetExceptions` and
JSON round trips. It assumes that a scan gives results that were not evaluated before (no exceptions, no cached
status, a failure without a sub status or acknowledged: `ResultsAssumption`), and that frameworks have names.
The invariant says that each rule carries the exceptions of one list that was
applied, or none if none was (`AsApplied`), and that a cached status is that of the rules, with the
action required that it names (`Cached`). The combination of the rules is a fold; it is shown to have
the class of the worst of them, and a sub status on the list of that class.

* `DeclaredCorrect` (`ExceptionsAsDeclared`): the three filters in a row keep an exception if and only
  if one of its tuples alone matches framework, control and rule.
* `JointViewCorrect` (`JointViewIsWorstView`): the worst of the rules of the worst of the
  frameworks is the worst in either order, and the step that turns a passed control into one that
  requires action comes last in both.
* `ReloadCorrect` (`ReloadPreservesViews`): what JSON loses can be told from what it keeps.
* `IdempotenceCorrect` (`SetExceptionsIdempotent`): the second call skips what passes since the first, and
  attaches to the rest what it carries.

`ResponseExceptions_proof` proves, for any
workloads, vectors, designators, selectors and patterns:

* `NarrowingCorrect` (`NarrowingNeverWidens`), one comparison at a time; the case
  that matters is the fall through to the envelope of a vector (`AttributesWiden`).
* `Explained`, the invariant behind the other three: a response has an exception exactly if a call gave
  it one, which is on the list of that call and covers a workload of the response. The exceptions
  listed for an object are a flattened sequence, one entry for each designator that matches; its head
  is on the list because the members of the parts are those of the whole (`FlattenMembers`).
* `StatusCorrect` (`StatusFollowsException`) and `OneObjectCorrect` (`OneObjectSatisfiesAll`) follow
  from it; the latter by the cases of a match: the vector itself, an object it relates, a
  plain workload, whose containers are those that are blamed (`ComparesBlamed`).
* `GrantedCorrect` (`MatchesAreGranted`), the other direction, for plain workloads: one that has all
  that an exception asks is listed for it at least once (`GrantedMatches`, `ListedIsFound`), and whichever
  workload of the response is looked at last, what is found is on the list of the call.

They assume that a scan gives responses without exceptions, and that the objects a vector relates
are not vectors themselves (`ResponsesAssumption`), which is the case the models cover.

`FrameworkReport_proof` is about v1 reports of any shape, any exceptions and any order of counts,
scores and exceptions. It assumes that a scan gives responses that alert on something and have no
exception yet (`ReportsAssumption`), that every control has a base score in the naturals, and that
`GetScore` gives positive weights (`WeightAssumption`).

The helpers on lists are folds, shown to be what they are named for: `UniqueStrings` lists the
same members once, `TrimStable` drops those of the other list and keeps the rest once
(`UniqueStringsCorrect`, `TrimStableCorrect`). From there appending lists is a union of sets, in
whatever order and however often (`AreIDs`, `AppendedCorrect`), and a counter is a cardinality.
What is listed of a rule and written over the front of its array of inputs covers, with what fails
and warns, the same resources as before (`ListedCorrect`). The invariant `IInv` says that a report is what
the scan gave but for exceptions and the order of inputs, that no input is lost while exceptions
do not change (`InputsKept`), and that counters just made are those that the report would be counted to
(`Recorded`); the properties alone are not inductive, for they do not say what the next count
finds in the arrays.

* `CountersCorrect` (`CountersAreUnions`) and `RecountCorrect` (`RecountIsStable`) follow from it, the
  latter because one more listing changes no set that is counted.
* `CountedStatusCorrect` (`StatusMatchesCounters`): a response fails exactly if its resources are
  among those counted, of which there is at least one.
* `ScoresCorrect` (`ScoresAgree`): a sum of positive weights is zero only over no resource, and
  a quotient of sums lies between the quotients (`BetweenParts`). `SetDefaultScore` reads the counters and not the
  responses, so this needs the invariant.

Before the proof these scores were truncated percents, and a positive share below one percent read
as "nothing failed": the property was true of the weights of the run and false for others. With
scores as fractions it holds for all.

`ProcessorCaches_proof` proves, for any number of goroutines, any patterns, names
and designators:

* `TypeCorrect`: among others, a cache never holds a pattern that did not compile.
* `CachesAreSound`: every entry is the one of its key. The strengthening says the
  same of what a goroutine carries between its steps: a compiled expression on its
  way to `Store` is that of its pattern, a digest on its way to `Set` that of its
  designator. It needs `SignaturesUnique`: designators with equal keys have equal
  digests. `hash_claim` shows that the code does not guarantee it for every set of
  labels; the theorem says that this is the only thing that can go wrong.
* `CachesAreTransparent`: under the same hypothesis every step is a step of
  `ExceptionMatcher` or a stutter, so `MatchString` on a cached expression answers
  what a fresh compilation would.

`ReportResources_proof` is about any objects, any order of calls on what is made of them, any number
of resources and any setter, for all kinds of bindings and roles and every relation of groups. It
assumes four things. The objects are what a JSON decoder makes: maps that refer to maps, each
once in a list, a binding to its subjects and a vector to bindings, and roles have names
(`ScenariosAssumption`; it also keeps the mark for "no namespace" out of the namespaces). An empty or corrupt kind is not that of a binding or role
(`KindsAssumption`), what a setter writes is a string (`ValuesAssumption`), and what `SetObject` is
given refers to nothing (`SpareAssumption`), as in the run.

None of the properties is inductive alone, for an action follows addresses: a setter writes
wherever an envelope points. The invariant, `IInv`, says whom an address may belong to. Each
envelope and resource points to what exists (`EnvelopesOK`, `ResourcesOK`); a struct has one
envelope and nothing refers to it (`StructsOK`); the map of an envelope is the Object of its resource,
but for structs and replaced maps (`FacesOK`); each vector has a map of its own, none of those
given (`VectorsOK`). TLC found this invariant to hold in all states of the `report_resources` run
before it was proved. It is said of any heap, envelopes and resources, not of the variables: an
action opens an envelope, keeps it and writes through it, and each of the three is a lemma of its own.

* `TypeCorrect` (`TypeOK`). Most of it is that a heap stays one: appended maps refer to old
  ones (`GrownHeap`), a reload refers to copies only (`CopiesAreHeap`).
* `FacesCorrect` (`ReportShowsSetters`) follows from `FacesOK`: one map has one ID.
* `IDsCorrect` (`IDNamesWritten`). An ID depends on the maps reached from an object only, so a call that
  changes none of them keeps it, and one that changes one of them marks it as `touched`. A reload
  copies all that is reached, the marks included, and the copies have the IDs of their originals
  (`CopiedObject`), although a list of maps becomes a list of anything.
* `ResolutionsCorrect` (`VectorsAreResolutions`). `bindingReferencesRole` compares pairs of
  strings that may be unset or corrupt; what Kubernetes resolves is said by sets of possible values
  that meet. That the two agree is a matter of groups (`SameGroups`) and scopes
  (`SameScope`), joined by `ReferencesResolve`. The three loops are flattened sequences; each of their parts meets
  nothing twice, since objects and subjects are listed once, so there are as many vectors as
  resolutions (`TriplesFacts`, `TriplesResolve`). If a subject cannot be copied the vectors are
  those before it.
* `IndependenceCorrect` (`VectorsAreIndependent`), an action property: every call either adds to the
  heap or changes one address of it (`CallIsSmall`). One address is at most one vector's, and no
  vector's is one of those given.

Only model-checked:

* `EveryCallReturns`, a liveness property.
* The invariants of `AttackPaths` and `ReportDecoder` (`AttackPaths!TypeOK`, `SearchesAreSound`, `DecodedIsCommon`,
  `SectionsAreWhole` and those of the paths), which are recursive over trees and declare it so; the SMT
  backend is lost in a module that reaches such a declaration.

## Plan

Done: the statuses, lists, exceptions, caches, results, summaries, scores, v1 reports, attack
paths, priorities, RBAC joins, resources and decoders of the tables above. Left, in this order:

1. `ListsPool`: the recycled `AllLists` objects (`helpers/v1/listing.go:16`) and the summaries
   that still point at their maps.
2. The JSON round trip of a summary, as an action of `ReportSummary`: `ResourceIDs` has only
   unexported fields (`reportsummary/datastructures.go:56`), so a summary read back has counters
   without resources.
3. `ARMOImprovement`, which the weighed v1 score sums up as well; the substeps with
   vulnerabilities of an attack track; vectors related to vectors.

## Not modelled

Texts (names, descriptions, remediation, status explanations), cloud metadata, the HTTP
client types, the loaders of policy resources and test mocks: they convert, read or carry data
and keep no state of their own. Accessors of the v2 report that return a field or delegate to
the summary. The decoders are modelled by which keys they read into which fields and what they
do with zero values; the bytes of a document are not, so a failure is one between two values: a number
cut in two and a value of another type are left to `gojay`, whose source is not in the repository.
The fields of `paginationInfo` are those of another module (armoapi-go); two keys stand for them, read
in place. A vector within the related objects of a
vector, and resources over something that is not a decoded map. The variants of the slice
helpers that nothing calls. Case folding, regular expressions and the grouping of API versions
are constant relations.

------------------------------ MODULE AttackPaths ------------------------------
(***************************************************************************)
(* The attack paths of an attack track (attacktrackmethods.go) and their    *)
(* priorities.  Every resource gets a handler of its own, and the handlers  *)
(* share the track: NewAttackTrackAllPathsHandler writes the failed         *)
(* controls of its resource into the steps, and the paths a handler finds   *)
(* are pointers to those steps.                                             *)
(***************************************************************************)
EXTENDS PriorityVectors, FiniteSets, TLC

CONSTANTS
    Tracks,        \* the attack tracks
    Handlers,      \* the handlers of a track
    FailedLists,   \* the sequences of control ids that fail for a resource
    KnownSets,     \* the sets of controls a vector is scored with
    Replicas,      \* the replicas of a resource
    MaxCalls       \* bound: calls of the operations

VARIABLES
    track,         \* the attack track
    controls,      \* controls[s]: the failed controls set on step s
    handlers,      \* [inDegreeZero, outDegreeZero, adjacencyMatrix, visited]
    paths,         \* [kind, steps]: the paths a handler found last
    output,        \* what GenerateAttackTrackFromPaths or the scoring made last
    pristine,      \* history: handlers that have not looked for paths yet
    fresh,         \* history: handlers whose paths were found with the controls as they are
    calls

vars == <<track, controls, handlers, paths, output, pristine, fresh, calls>>

None == [none |-> TRUE]
Panic == [panic |-> TRUE]
Failed == [error |-> TRUE]
NoPaths == [kind |-> "none", steps |-> << >>]

Init ==
    /\ track \in Tracks
    /\ controls = [s \in Steps(track) |-> << >>]
    /\ handlers = [h \in Handlers |-> None]
    /\ paths = [h \in Handlers |-> NoPaths]
    /\ output = None
    /\ pristine = {}
    /\ fresh = {}
    /\ calls = 0

IsPartOfAttackTrackPath(s) == controls[s] # << >>
IsLeaf(s) == track.sub[s] = << >>

Names == {track.name[s] : s \in Steps(track)}

NewAttackTrackAllPathsHandler(h, failed) ==
    /\ calls < MaxCalls
    /\ calls' = calls + 1
    /\ controls' = [s \in Steps(track) |-> GetAssociatedControls(failed, track.name[s])]
    /\ handlers' = [handlers EXCEPT ![h] =
                       [inDegreeZero |-> Names, outDegreeZero |-> Names,
                        adjacencyMatrix |-> [n \in Names |-> << >>], visited |-> {}]]
    /\ paths' = [paths EXCEPT ![h] = NoPaths]
    /\ pristine' = pristine \union {h}
    /\ fresh' = {}
    /\ UNCHANGED <<track, output>>

-----------------------------------------------------------------------------
(* calculateAdjacencyMatrixAndVerticesDegree: the edge from u to v and those  *)
(* below v.  The matrix is only ever added to.                               *)
RECURSIVE WithEdges(_, _, _)
WithEdges(handler, u, v) ==
    LET onPath == IsPartOfAttackTrackPath(u) /\ IsPartOfAttackTrackPath(v)
        linked == [handler EXCEPT
                      !.adjacencyMatrix[track.name[u]] = Append(@, v),
                      !.inDegreeZero = @ \ {track.name[v]},
                      !.outDegreeZero = @ \ {track.name[u]}]
    IN  FoldLeft(LAMBDA acc, w : WithEdges(acc, v, w),
                 IF onPath THEN linked ELSE handler, track.sub[v])

(* acc is [found, visited]; prefix is the path from a step of in-degree zero. *)
RECURSIVE allPathsDfs(_, _, _, _)

(* Mutated: a step that lost its controls since its edge was added is        *)
(* followed.                                                                 *)
allPathsDfs_Bug(handler, acc, prefix, s) ==
    LET path == Append(prefix, s)
        complete == /\ track.name[s] \in handler.outDegreeZero
                    /\ track.name[path[1]] \in handler.inDegreeZero
        entered == [found |-> IF complete THEN Append(acc.found, path) ELSE acc.found,
                    visited |-> acc.visited \union {track.name[s]}]
        left == FoldLeft(LAMBDA a, v : IF track.name[v] \in a.visited THEN a
                                       ELSE allPathsDfs(handler, a, path, v),
                         entered, handler.adjacencyMatrix[track.name[s]])
    IN  [left EXCEPT !.visited = @ \ {track.name[s]}]

allPathsDfs(handler, acc, prefix, s) ==
    LET path == Append(prefix, s)
        complete == /\ track.name[s] \in handler.outDegreeZero
                    /\ track.name[path[1]] \in handler.inDegreeZero
        entered == [found |-> IF complete THEN Append(acc.found, path) ELSE acc.found,
                    visited |-> acc.visited \union {track.name[s]}]
        next == SelectSeq(handler.adjacencyMatrix[track.name[s]], IsPartOfAttackTrackPath)
        left == FoldLeft(LAMBDA a, v : IF track.name[v] \in a.visited THEN a
                                       ELSE allPathsDfs(handler, a, path, v),
                         entered, next)
    IN  [left EXCEPT !.visited = @ \ {track.name[s]}]

CalculateAllPaths(h) ==
    LET handler == FoldLeft(LAMBDA acc, v : WithEdges(acc, Root, v), handlers[h], track.sub[Root])
        starts == SelectSeq(Iterator(track), LAMBDA s :
                      IsPartOfAttackTrackPath(s) /\ track.name[s] \in handler.inDegreeZero)
        all == FoldLeft(LAMBDA acc, s : allPathsDfs(handler, acc, << >>, s),
                        [found |-> << >>, visited |-> handler.visited], starts)
    IN  /\ handlers[h] # None
        /\ calls < MaxCalls
        /\ calls' = calls + 1
        /\ handlers' = [handlers EXCEPT ![h] = [handler EXCEPT !.visited = all.visited]]
        /\ paths' = [paths EXCEPT ![h] = [kind |-> "all", steps |-> all.found]]
        /\ pristine' = pristine \ {h}
        /\ fresh' = fresh \union {h}
        /\ UNCHANGED <<track, controls, output>>

(* traverse, with the current path as prefix.  A substep is not unvisited     *)
(* when the search leaves it.                                                *)
RECURSIVE traverse(_, _, _)

traverse(acc, prefix, s) ==
    LET path == IF IsPartOfAttackTrackPath(s) THEN Append(prefix, s) ELSE prefix
        Visit(a, v) ==
            IF track.name[v] \in a.visited \/ ~IsPartOfAttackTrackPath(s) THEN a
            ELSE traverse([a EXCEPT !.visited = @ \union {track.name[v]}], path, v)
    IN  IF ~IsLeaf(s) THEN FoldLeft(Visit, acc, track.sub[s])
        ELSE IF IsPartOfAttackTrackPath(s) THEN [acc EXCEPT !.found = Append(@, path)]
        ELSE acc

(* Mutated: the names visited by an earlier search are kept.                 *)
CalculatePathsRootToLeaf_Bug(h) ==
    LET all == traverse([found |-> << >>, visited |-> IF handlers[h] = None THEN {} ELSE handlers[h].visited], << >>, Root)
    IN  /\ handlers[h] # None
        /\ calls < MaxCalls
        /\ calls' = calls + 1
        /\ handlers' = [handlers EXCEPT ![h].visited = all.visited]
        /\ paths' = [paths EXCEPT ![h] = [kind |-> "rootToLeaf", steps |-> all.found]]
        /\ pristine' = pristine \ {h}
        /\ fresh' = fresh \union {h}
        /\ UNCHANGED <<track, controls, output>>

CalculatePathsRootToLeaf(h) ==
    LET all == traverse([found |-> << >>, visited |-> {}], << >>, Root)
    IN  /\ handlers[h] # None
        /\ calls < MaxCalls
        /\ calls' = calls + 1
        /\ handlers' = [handlers EXCEPT ![h].visited = all.visited]
        /\ paths' = [paths EXCEPT ![h] = [kind |-> "rootToLeaf", steps |-> all.found]]
        /\ pristine' = pristine \ {h}
        /\ fresh' = fresh \union {h}
        /\ UNCHANGED <<track, controls, output>>

-----------------------------------------------------------------------------
(* reflect.DeepEqual of two steps.                                           *)
RECURSIVE DeepEqual(_, _)
DeepEqual(s, t) ==
    /\ track.name[s] = track.name[t]
    /\ controls[s] = controls[t]
    /\ Len(track.sub[s]) = Len(track.sub[t])
    /\ \A i \in DOMAIN track.sub[s] : DeepEqual(track.sub[s][i], track.sub[t][i])

(* The steps of the filtered tree; none if it is nil.                        *)
RECURSIVE filterNodesWithControls(_, _)

(* Mutated: a substep is looked at only if it is on a path.                  *)
filterNodesWithControls_Bug(s, onPaths) ==
    LET below == UNION {filterNodesWithControls(v, onPaths) : v \in ToSet(track.sub[s]) \intersect onPaths}
    IN  IF below = {} /\ ~IsPartOfAttackTrackPath(s) THEN {} ELSE below \union {s}

filterNodesWithControls(s, onPaths) ==
    LET Included(v) == IsPartOfAttackTrackPath(v) \/ \E t \in onPaths : DeepEqual(t, v)
        below == UNION {filterNodesWithControls(v, onPaths) :
                            v \in {v \in ToSet(track.sub[s]) : Included(v)}}
    IN  IF below = {} /\ ~IsPartOfAttackTrackPath(s) THEN {} ELSE below \union {s}

(* The result of the filter is dereferenced.                                 *)
GenerateAttackTrackFromPaths(h) ==
    LET kept == filterNodesWithControls(Root, UNION {ToSet(p) : p \in ToSet(paths[h].steps)})
    IN  /\ paths[h].kind # "none"
        /\ calls < MaxCalls
        /\ calls' = calls + 1
        /\ output' = IF paths[h].steps = << >> THEN None
                     ELSE IF kept = {} THEN Panic
                     ELSE [kept |-> kept]
        /\ UNCHANGED <<track, controls, handlers, paths, pristine, fresh>>

(* The vectors of the paths as the steps are now, then the score and the      *)
(* severity of a resource that has them.                                     *)
Prioritize(h, known, replicas) ==
    LET steps == [p \in DOMAIN paths[h].steps |-> [i \in DOMAIN paths[h].steps[p] |->
                     [category |-> track.name[paths[h].steps[p][i]],
                      controls |-> controls[paths[h].steps[p][i]]]]]
        vectors == ControlsVectorFromAttackTrackPaths(steps)
    IN  /\ paths[h].kind # "none"
        /\ calls < MaxCalls
        /\ calls' = calls + 1
        /\ output' = IF Panics(steps) THEN Panic
                     ELSE IF \E k \in DOMAIN vectors : Unscorable(vectors[k], known) THEN Failed
                     ELSE [vectors |-> vectors,
                           score |-> ResourceScore(vectors, replicas),
                           severity |-> ResourceSeverity(vectors)]
        /\ UNCHANGED <<track, controls, handlers, paths, pristine, fresh>>

Next ==
    \E h \in Handlers :
        \/ \E failed \in FailedLists : NewAttackTrackAllPathsHandler(h, failed)
        \/ CalculateAllPaths(h)
        \/ CalculatePathsRootToLeaf(h)
        \/ GenerateAttackTrackFromPaths(h)
        \/ \E known \in KnownSets, replicas \in Replicas : Prioritize(h, known, replicas)

Spec == Init /\ [][Next]_vars

-----------------------------------------------------------------------------
(* Type invariant; whatever was called before, no path is empty.             *)
TypeOK ==
    /\ calls \in 0 .. MaxCalls
    /\ \A s \in Steps(track) : ToSet(controls[s]) \subseteq DOMAIN Control
    /\ fresh \intersect pristine = {}
    /\ \A h \in Handlers :
          /\ \A p \in ToSet(paths[h].steps) : p # << >> /\ ToSet(p) \subseteq Steps(track)
          /\ handlers[h] # None =>
                /\ handlers[h].visited \subseteq Names
                /\ \A n \in Names : ToSet(handlers[h].adjacencyMatrix[n]) \subseteq Steps(track)

Controlled == {s \in Steps(track) : IsPartOfAttackTrackPath(s)}
SubSteps(s) == ToSet(track.sub[s])

(* Every sequence of steps of a set in which each is a substep of the one     *)
(* before (a step has a larger number than the one it is a substep of).      *)
Descents(steps) ==
    {p \in {SetToSortSeq(S, <) : S \in (SUBSET steps) \ {{}}} :
        \A i \in 1 .. Len(p) - 1 : p[i + 1] \in SubSteps(p[i])}

Chains == Descents(Controlled)

(* The chains that cannot be made longer at either end.                      *)
MaximalChains ==
    {p \in Chains : /\ \A s \in Controlled : p[1] \notin SubSteps(s)
                    /\ SubSteps(Last(p)) \intersect Controlled = {}}

(* Over a valid track, although the maps are keyed by names and whichever     *)
(* handler set the controls, the first search of a handler finds every path   *)
(* that cannot be made longer, once; and every search from the root finds     *)
(* every unbroken path from the root to a leaf, once, also after other        *)
(* searches of the same handler.                                              *)
SearchesAreComplete ==
    [][\A h \in Handlers :
          /\ IsValid(track) /\ h \in pristine /\ CalculateAllPaths(h) =>
                /\ IsInjective(paths'[h].steps)
                /\ ToSet(paths'[h].steps) = MaximalChains
          /\ IsValid(track) /\ CalculatePathsRootToLeaf(h) =>
                /\ IsInjective(paths'[h].steps)
                /\ ToSet(paths'[h].steps) = {p \in Chains : p[1] = Root /\ IsLeaf(Last(p))}]_vars

(* A handler that is asked again meets the edges, degrees and visited names   *)
(* of its earlier searches, and controls that another handler has written     *)
(* since.  CalculateAllPaths can miss a path then, or find it twice, but over *)
(* a valid track it never returns one with a step that has lost its controls, *)
(* with a step left out, or cut short at an end (allPathsDfs).                *)
SearchesAreSound ==
    [][\A h \in Handlers :
          IsValid(track) /\ CalculateAllPaths(h) => ToSet(paths'[h].steps) \subseteq MaximalChains]_vars

(* The steps on a way down from the root to a step with controls, all but the *)
(* root with controls or on a path.                                          *)
Connected(onPaths) ==
    UNION {ToSet(p) : p \in {p \in Descents(Steps(track)) :
              /\ p[1] = Root
              /\ Last(p) \in Controlled
              /\ \A i \in 2 .. Len(p) : p[i] \in Controlled \union onPaths}}

(* Of whatever paths a handler found, of either search and with the controls  *)
(* as they are or as they were before another handler wrote its own, the      *)
(* track generated has the steps that connect the root with steps that have   *)
(* controls now, dead branches too; and it panics when there is no such step  *)
(* (GenerateAttackTrackFromPaths dereferences what the filter returns).       *)
GeneratedIsConnected ==
    [][\A h \in Handlers :
          (/\ IsValid(track)
           /\ paths[h].steps # << >>
           /\ GenerateAttackTrackFromPaths(h))
          => LET connected == Connected(UNION {ToSet(p) : p \in ToSet(paths[h].steps)})
             IN  output' = IF connected = {} THEN Panic ELSE [kept |-> connected]]_vars

(* The sum over the choices of a path, step by step.                          *)
Total(ids) == FoldLeft(LAMBDA acc, id : acc + Control[id].score, 0, ids)
PathScore(lists) == FoldLeft(LAMBDA acc, ids : acc * Total(ids), 1, lists)
ImpactOnly(ids) == SelectSeq(ids, LAMBDA id : Control[id].tags \subseteq {"security-impact"})

(* Scoring what a handler found panics only if a step of it has lost its      *)
(* controls to another handler (never while fresh), and otherwise the sum     *)
(* over the enumerated vectors is what the paths say with the controls as     *)
(* they are now, when every choice is counted once and those of               *)
(* security-impact controls only are taken out; and the severity is that of   *)
(* the worst control listed.                                                  *)
ScoreSumsEveryChoice ==
    [][\A h \in Handlers, replicas \in Replicas :
          /\ UNION {ToSet(p) : p \in ToSet(paths[h].steps)} \subseteq Controlled \/ h \notin fresh
          /\ Prioritize(h, DOMAIN Control, replicas) =>
              LET lists(p) == [i \in DOMAIN p |-> controls[p[i]]]
                  impact(p) == [i \in DOMAIN p |-> ImpactOnly(controls[p[i]])]
              IN  IF \E p \in ToSet(paths[h].steps) : ~ToSet(p) \subseteq Controlled
                  THEN output' = Panic
                  ELSE /\ output'.score = (10 + replicas) *
                            FoldLeft(LAMBDA acc, p : acc + PathScore(lists(p)) - PathScore(impact(p)),
                                     0, paths[h].steps)
                       /\ output'.severity =
                            Max({0} \union {ControlSeverityToInt(Control[id].score) : id \in ToSet(ListControlsIDs(output'.vectors))})]_vars
=============================================================================

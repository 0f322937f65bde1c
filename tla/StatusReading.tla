---------------------------- MODULE StatusReading ----------------------------
(***************************************************************************)
(* GetStatus of a report and of its frameworks (summarydetails.go,         *)
(* frameworksummarymethods.go) called while the summary is built: it fills *)
(* in a status that was never calculated and folds the sub statuses of the *)
(* control summaries as SummaryStatus does, a control per step in the      *)
(* order the map happens to give.  The library is called by one goroutine, *)
(* so nothing else happens before it answers.                              *)
(***************************************************************************)
EXTENDS PostureScore

VARIABLES
    reading,    \* the view whose GetStatus runs, or Idle
    shown,      \* its Status
    subOf,      \* the sub statuses of its controls
    todo,       \* the controls the loop has not visited
    subStatus   \* the loop's accumulator

reader == <<reading, shown, subOf, todo, subStatus>>

Idle == "idle"
NoSubs == [c \in {} |-> SubStatusUnknown]

Fold(v) == INSTANCE SummaryStatus WITH Controls <- ControlsOf(v), status <- shown

ASSUME IdleAssumption == Idle \notin Frameworks

AtRest == reading = Idle

ReadingInit ==
    /\ ScoreInit
    /\ reading = Idle /\ shown = StatusUnknown /\ subOf = NoSubs
    /\ todo = {} /\ subStatus = SubStatusUnknown

(* A status that is already known is kept, even if results came since.       *)
CachedStatus(v) ==
    IF totals[v].status = StatusUnknown THEN calculateStatus(totals[v].tally)
    ELSE totals[v].status

(* Bound: GetStatus does not look at the scores, and is called before any.   *)
ReadStatus(v) ==
    /\ AtRest
    /\ Untouched /\ Scorable
    /\ totals' = [totals EXCEPT ![v].status = CachedStatus(v)]
    /\ reading' = v
    /\ shown' = CachedStatus(v)
    /\ subOf' = [c \in ControlsOf(v) |-> summary[v][c].sub]
    /\ todo' = ControlsOf(v)
    /\ subStatus' = SubStatusUnknown
    /\ UNCHANGED <<summary, resourcesSeverity, controlsSeverity, appended, inits,
                   settled, preset, scores>>

Step(v) ==
    /\ reading = v
    /\ \E c \in ControlsOf(v) : Fold(v)!Visit(c)
    /\ UNCHANGED <<reading, vars, scores>>

Answer ==
    /\ reading # Idle
    /\ todo = {}
    /\ reading' = Idle
    /\ shown' = StatusUnknown
    /\ subOf' = NoSubs
    /\ subStatus' = SubStatusUnknown
    /\ UNCHANGED todo
    /\ UNCHANGED <<vars, scores>>

ReadingNext ==
    \/ AtRest /\ ScoreNext /\ UNCHANGED reader
    \/ \E v \in Views : ReadStatus(v)
    \/ \E v \in Views : Step(v)
    \/ Answer

ReadingSpec == ReadingInit /\ [][ReadingNext]_<<vars, scores, reader>>

-----------------------------------------------------------------------------
(* The fold keeps one sub status at a time, in an order that changes from    *)
(* call to call; still what it has is at any time the first of the status'   *)
(* precedence list among ALL the controls it visited, so that two calls of   *)
(* GetStatus on one report agree.                                            *)
OrderIndependent == \A v \in Views : reading = v => Fold(v)!OrderIndependent
=============================================================================

------------------------- MODULE StatusReading_proof -------------------------
(***************************************************************************)
(* Proofs about the summary of a report and its readers.  First those about *)
(* ReportSummary alone, for every set of controls and frameworks, every     *)
(* collection of results and every sequence of calls.  Then those about     *)
(* StatusReading, for every report, every assignment of workloads to its    *)
(* resources and every order in which its map of controls is visited:       *)
(*   - the fold of the sub statuses does not depend on that order;          *)
(*   - the invariants of ReportSummary survive scores and readers;          *)
(*   - the risk scores are means, are stable, and agree with compliance.    *)
(***************************************************************************)
EXTENDS StatusReading, Lemmas

(* The statuses a summary computes differ from one another and from the      *)
(* unknown status.                                                           *)
LEMMA TalliedDiffer ==
    /\ StatusPassed # StatusFailed
    /\ StatusPassed # StatusSkipped
    /\ StatusFailed # StatusSkipped
    /\ StatusUnknown \notin Tallied
BY Zenon DEF StatusPassed, StatusFailed, StatusSkipped, StatusUnknown, Tallied

(* A calculated status is one of the three that are tallied.                 *)
LEMMA CalculatedStatus == \A tally : calculateStatus(tally) \in Tallied
BY DEF calculateStatus, Tallied

LEMMA TalliedAreStatuses == Tallied \subseteq ScanningStatus
BY DEF Tallied, ScanningStatus

(* The sub status calculated is one of the precedence list, or the old one.  *)
LEMMA CalculatedSubStatus ==
    ASSUME NEW status, NEW old \in ScanningSubStatus, NEW new, NEW tally
    PROVE  calculateNSetSubStatus(status, old, new, tally) \in ScanningSubStatus
BY DEF calculateNSetSubStatus, FailedSubStatus, Prefer, ScanningSubStatus

-----------------------------------------------------------------------------
(* One control summary: its fields, and what a step does to them.            *)
Fields == {"status", "sub", "tally", "ignored", "acknowledged", "resources"}
ControlOK(c) ==
    /\ DOMAIN c = Fields
    /\ c = [f \in Fields |-> c[f]]
    /\ c.status \in ScanningStatus
    /\ c.sub \in ScanningSubStatus
    /\ c.tally \in [Tallied -> Nat]

LEMMA NewControlOK == ControlOK(NewControl)
BY DEF ControlOK, NewControl, Fields, ScanningStatus, ScanningSubStatus, ZeroTally

LEMMA CalculatedFields ==
    ASSUME NEW c, ControlOK(c), NEW new
    PROVE  LET d == Calculated(c, new) IN
           /\ ControlOK(d)
           /\ d.tally = c.tally
           /\ d.status = calculateStatus(c.tally)
           /\ d.sub = calculateNSetSubStatus(d.status, c.sub, new, c.tally)
           /\ d.resources = c.resources
BY CalculatedStatus, TalliedAreStatuses, CalculatedSubStatus DEF ControlOK, Calculated, Fields

LEMMA AppendedFields ==
    ASSUME NEW c, ControlOK(c), NEW info, info.status \in Tallied, NEW r
    PROVE  LET d == AppendToControl(c, info, r) IN
           /\ ControlOK(d)
           /\ d.tally = [c.tally EXCEPT ![info.status] = @ + 1]
           /\ d.sub = c.sub
           /\ DOMAIN d.resources = DOMAIN c.resources \union {r}
<1> DEFINE tally == [c.tally EXCEPT ![info.status] = @ + 1]
           ignored == c.ignored + Count(info = Info(StatusPassed, SubStatusException))
           acknowledged == c.acknowledged + Count(info = Info(StatusFailed, SubStatusException))
           resources == [x \in DOMAIN c.resources \union {r} |->
                            IF x # r THEN c.resources[x]
                            ELSE IF r \in DOMAIN c.resources
                            THEN Compare(c.resources[r], info.status) ELSE info.status]
<1>1. AppendToControl(c, info, r) =
        [[[[c EXCEPT !.resources = resources] EXCEPT !.tally = tally]
            EXCEPT !.ignored = ignored] EXCEPT !.acknowledged = acknowledged]
  BY DEF AppendToControl, ControlOK, Fields
<1>2. tally \in [Tallied -> Nat]
  BY DEF ControlOK
<1>3. DOMAIN resources = DOMAIN c.resources \union {r}
  OBVIOUS
<1> HIDE DEF tally, ignored, acknowledged, resources
<1>4. QED
  BY <1>1, <1>2, <1>3 DEF ControlOK, Fields, tally

-----------------------------------------------------------------------------
(* The strengthening.  Every view holds its control summaries, about         *)
(* resources that were appended.                                             *)
Shape ==
    /\ DOMAIN summary = Views
    /\ \A v \in Views : DOMAIN summary[v] = ControlsOf(v)
    /\ \A v \in Views : \A c \in ControlsOf(v) :
          ControlOK(summary[v][c]) /\ DOMAIN summary[v][c].resources \subseteq Counted
    /\ appended \subseteq DOMAIN Results /\ IsFiniteSet(Counted)

(* A counter is zero exactly when no result reported its status.             *)
TalliesShowResults ==
    \A v \in Views : \A c \in ControlsOf(v) : \A s \in Tallied :
        summary[v][c].tally[s] # 0 <=> \E i \in ResultsOf(c) : Seen(v, c, i).status = s

Calculates(c) ==
    \A v \in Views : c \in ControlsOf(v) =>
        summary[v][c].status = calculateStatus(summary[v][c].tally)

(* The views of a control are all calculated, or all show the same: the      *)
(* status supplied for it, or none.                                          *)
StatusesInStep ==
    \A c \in Controls :
        \/ Calculates(c)
        \/ \A v \in Views, w \in Views :
              c \in ControlsOf(v) /\ c \in ControlsOf(w) =>
                  summary[v][c].status = summary[w][c].status

(* A control that was given no status has a calculated one from its first    *)
(* result on.                                                                *)
UnsetAreCalculated ==
    \A c \in Controls \ preset :
        \/ Calculates(c)
        \/ /\ ResultsOf(c) = {}
           /\ \A v \in Views : c \in ControlsOf(v) => summary[v][c].status = StatusUnknown

IInv == Shape /\ TalliesShowResults /\ StatusesInStep /\ UnsetAreCalculated

LEMMA ViewsHaveControls ==
    /\ Report \in Views /\ ControlsOf(Report) = Controls
    /\ \A f \in Frameworks : f \in Views /\ f # Report /\ ControlsOf(f) = FrameworkControls[f]
    /\ \A v \in Views : ControlsOf(v) \subseteq Controls
BY FrameworksAssumption DEF Views, ControlsOf, Report

(* What a view sees of a result is a status that is tallied.                 *)
LEMMA SeenType ==
    ASSUME NEW i \in DOMAIN Results, NEW v \in Views, NEW c \in DOMAIN Results[i].views
    PROVE  /\ c \in Controls
           /\ Seen(v, c, i).status \in Tallied
           /\ Seen(v, c, i).sub \in ScanningSubStatus
<1> DEFINE fs == IF v = Report THEN {f \in Frameworks : c \in FrameworkControls[f]} ELSE {v}
<1>1. fs \in SUBSET Frameworks
  BY DEF Views
<1>2. c \in Controls /\ Results[i].views[c][fs] \in [status : Tallied, sub : ScanningSubStatus]
  BY <1>1, ResultsAssumption
<1>3. Seen(v, c, i) = Results[i].views[c][fs]
  BY DEF Seen
<1>4. QED
  BY <1>2, <1>3

(* What appending a result does to the summary of one control in one view.   *)
LEMMA AppendUntouched ==
    ASSUME NEW i \in DOMAIN Results, AppendResourceResult(i),
           NEW v \in Views, NEW c \in ControlsOf(v), c \notin DOMAIN Results[i].views
    PROVE  summary'[v][c] = summary[v][c]
BY DEF AppendResourceResult, Updated

LEMMA AppendTouched ==
    ASSUME Shape, NEW i \in DOMAIN Results, AppendResourceResult(i),
           NEW v \in Views, NEW c \in ControlsOf(v), c \in DOMAIN Results[i].views
    PROVE  /\ ControlOK(summary'[v][c])
           /\ Seen(v, c, i).status \in Tallied
           /\ summary'[v][c].tally = [summary[v][c].tally EXCEPT ![Seen(v, c, i).status] = @ + 1]
           /\ summary'[v][c].status = calculateStatus(summary'[v][c].tally)
           /\ summary'[v][c].sub = calculateNSetSubStatus(summary'[v][c].status,
                    summary[v][c].sub, Seen(v, c, i).sub, summary'[v][c].tally)
           /\ DOMAIN summary'[v][c].resources
                    = DOMAIN summary[v][c].resources \union {Results[i].resource}
<1> DEFINE info == Seen(v, c, i)
           added == AppendToControl(summary[v][c], info, Results[i].resource)
<1>1. summary'[v][c] = Calculated(added, info.sub)
  BY DEF AppendResourceResult, Updated, Seen, FilterOf, frameworksByControl
<1>2. ControlOK(summary[v][c])
  BY DEF Shape
<1>3. info.status \in Tallied
  BY SeenType
<1> HIDE DEF info
<1>4. /\ ControlOK(added)
      /\ added.tally = [summary[v][c].tally EXCEPT ![info.status] = @ + 1]
      /\ added.sub = summary[v][c].sub
      /\ DOMAIN added.resources = DOMAIN summary[v][c].resources \union {Results[i].resource}
  BY <1>2, <1>3, AppendedFields
<1> HIDE DEF added
<1>5. LET d == Calculated(added, info.sub) IN
      /\ ControlOK(d)
      /\ d.tally = added.tally
      /\ d.status = calculateStatus(added.tally)
      /\ d.sub = calculateNSetSubStatus(d.status, added.sub, info.sub, added.tally)
      /\ d.resources = added.resources
  BY <1>4, CalculatedFields
<1>6. QED
  BY <1>1, <1>3, <1>4, <1>5 DEF info

(* What InitResourcesSummary does to it.                                     *)
LEMMA InitializeStep ==
    ASSUME Shape, NEW infos \in ControlInfos, InitResourcesSummary(infos),
           NEW v \in Views, NEW c \in ControlsOf(v)
    PROVE  LET old == summary[v][c]
               new == summary'[v][c]
           IN  /\ ControlOK(new)
               /\ new.tally = old.tally
               /\ new.resources = old.resources
               /\ c \in Supplied(infos) => new.status = infos[c].status
               /\ c \notin Supplied(infos) /\ old.status = StatusUnknown =>
                     new.status = calculateStatus(old.tally)
               /\ c \notin Supplied(infos) /\ old.status # StatusUnknown => new = old
<1>1. ControlOK(summary[v][c])
  BY DEF Shape
<1>2. summary'[v][c] = IF c \in Supplied(infos) THEN Initialized(summary[v][c], infos[c], TRUE)
                       ELSE Initialized(summary[v][c], <<>>, FALSE)
  BY DEF InitResourcesSummary, InitializedIn
<1>3. CASE c \in Supplied(infos)
  <2>1. infos[c] \in StatusInfo
    BY <1>3, InfosAssumption DEF Supplied
  <2>2. summary'[v][c] = [summary[v][c] EXCEPT !.status = infos[c].status, !.sub = infos[c].sub]
    BY <1>2, <1>3 DEF Initialized
  <2>3. QED
    BY <1>1, <1>3, <2>1, <2>2 DEF ControlOK, Fields, StatusInfo
<1>4. CASE c \notin Supplied(infos)
  <2>1. summary'[v][c] = IF summary[v][c].status = StatusUnknown
                         THEN Calculated(summary[v][c], SubStatusUnknown) ELSE summary[v][c]
    BY <1>2, <1>4 DEF Initialized
  <2>2. QED
    BY <1>1, <1>4, <2>1, CalculatedFields
<1>5. QED
  BY <1>3, <1>4

-----------------------------------------------------------------------------
(* The strengthening holds initially.                                        *)
LEMMA InitIInv == Init => IInv
<1> SUFFICES ASSUME Init PROVE IInv
  OBVIOUS
<1>1. \A v \in Views : \A c \in ControlsOf(v) :
        /\ summary[v][c] = NewControl
        /\ ControlOK(summary[v][c])
        /\ summary[v][c].status = StatusUnknown
        /\ \A s \in Tallied : summary[v][c].tally[s] = 0
        /\ DOMAIN summary[v][c].resources = {}
  BY NewControlOK DEF Init, NewControl, ZeroTally, NoResources
<1>2. appended = {} /\ IsFiniteSet(Counted) /\ \A c : ResultsOf(c) = {}
  <2>1. Counted = {}
    BY DEF Init, Counted
  <2>2. QED
    BY <2>1, FS_EmptySet DEF Init, ResultsOf
<1>3. Shape
  BY <1>1, <1>2 DEF Shape, Init
<1>4. TalliesShowResults
  BY <1>1, <1>2 DEF TalliesShowResults
<1>5. StatusesInStep
  BY <1>1 DEF StatusesInStep
<1>6. UnsetAreCalculated
  BY <1>1, <1>2 DEF UnsetAreCalculated
<1>7. QED
  BY <1>3, <1>4, <1>5, <1>6 DEF IInv

LEMMA AppendKeepsShape ==
    ASSUME Shape, NEW i \in DOMAIN Results, AppendResourceResult(i)
    PROVE  Shape'
<1>1. DOMAIN summary' = Views /\ \A v \in Views : DOMAIN summary'[v] = ControlsOf(v)
  BY DEF AppendResourceResult, Updated
<1>2. appended' = appended \union {i} /\ Counted' = Counted \union {Results[i].resource}
  BY DEF AppendResourceResult, Counted
<1>3. IsFiniteSet(Counted')
  BY <1>2, FS_AddElement DEF Shape
<1>4. ASSUME NEW v \in Views, NEW c \in ControlsOf(v)
      PROVE  ControlOK(summary'[v][c]) /\ DOMAIN summary'[v][c].resources \subseteq Counted'
  <2>1. DOMAIN summary[v][c].resources \subseteq Counted
    BY DEF Shape
  <2>2. CASE c \notin DOMAIN Results[i].views
    <3>1. ControlOK(summary'[v][c]) /\ summary'[v][c] = summary[v][c]
      BY <2>2, AppendUntouched DEF Shape
    <3>2. QED
      BY <1>2, <2>1, <3>1
  <2>3. CASE c \in DOMAIN Results[i].views
    <3>1. /\ ControlOK(summary'[v][c])
          /\ DOMAIN summary'[v][c].resources
                = DOMAIN summary[v][c].resources \union {Results[i].resource}
      BY <2>3, AppendTouched, ZenonT(30)
    <3>2. QED
      BY <1>2, <2>1, <3>1
  <2>4. QED
    BY <2>2, <2>3
<1>5. QED
  BY <1>1, <1>2, <1>3, <1>4 DEF Shape

LEMMA InitializeKeepsShape ==
    ASSUME Shape, NEW infos \in ControlInfos, InitResourcesSummary(infos)
    PROVE  Shape'
<1>1. DOMAIN summary' = Views /\ \A v \in Views : DOMAIN summary'[v] = ControlsOf(v)
  BY DEF InitResourcesSummary, InitializedIn
<1>2. appended' = appended /\ Counted' = Counted
  BY DEF InitResourcesSummary, Counted
<1>3. ASSUME NEW v \in Views, NEW c \in ControlsOf(v)
      PROVE  ControlOK(summary'[v][c]) /\ DOMAIN summary'[v][c].resources \subseteq Counted'
  <2>1. DOMAIN summary[v][c].resources \subseteq Counted
    BY DEF Shape
  <2>2. QED
    BY <1>2, <2>1, InitializeStep
<1>4. QED
  BY <1>1, <1>2, <1>3 DEF Shape

(* Appending a result keeps the relation between counters and results.       *)
LEMMA AppendKeepsTallies ==
    ASSUME Shape, TalliesShowResults, NEW i \in DOMAIN Results, AppendResourceResult(i)
    PROVE  TalliesShowResults'
<1> SUFFICES ASSUME NEW v \in Views, NEW c \in ControlsOf(v), NEW s \in Tallied
             PROVE  summary'[v][c].tally[s] # 0
                        <=> \E j \in ResultsOf(c)' : Seen(v, c, j).status = s
  BY DEF TalliesShowResults, Seen
<1>1. summary[v][c].tally[s] # 0 <=> \E j \in ResultsOf(c) : Seen(v, c, j).status = s
  BY DEF TalliesShowResults
<1>2. CASE c \notin DOMAIN Results[i].views
  <2>1. summary'[v][c] = summary[v][c]
    BY <1>2, AppendUntouched
  <2>2. ResultsOf(c)' = ResultsOf(c)
    BY <1>2 DEF AppendResourceResult, ResultsOf
  <2>3. QED
    BY <1>1, <2>1, <2>2
<1>3. CASE c \in DOMAIN Results[i].views
  <2>1. summary'[v][c].tally = [summary[v][c].tally EXCEPT ![Seen(v, c, i).status] = @ + 1]
    BY <1>3, AppendTouched
  <2>2. summary[v][c].tally \in [Tallied -> Nat]
    BY DEF Shape, ControlOK
  <2>3. summary'[v][c].tally[s] # 0
            <=> summary[v][c].tally[s] # 0 \/ Seen(v, c, i).status = s
    BY <2>1, <2>2
  <2>4. ResultsOf(c)' = ResultsOf(c) \union {i}
    BY <1>3 DEF AppendResourceResult, ResultsOf
  <2>5. QED
    BY <1>1, <2>3, <2>4
<1>4. QED
  BY <1>2, <1>3

(* A result that concerns a control leaves it calculated in every view.      *)
LEMMA AppendKeepsStatuses ==
    ASSUME IInv, NEW i \in DOMAIN Results, AppendResourceResult(i)
    PROVE  StatusesInStep' /\ UnsetAreCalculated'
<1>1. ASSUME NEW c \in Controls, c \in DOMAIN Results[i].views PROVE Calculates(c)'
  BY <1>1, AppendTouched, ZenonT(30) DEF Calculates, IInv
<1>2. ASSUME NEW c \in Controls, c \notin DOMAIN Results[i].views
      PROVE  /\ \A v \in Views : c \in ControlsOf(v) => summary'[v][c] = summary[v][c]
             /\ ResultsOf(c)' = ResultsOf(c)
             /\ Calculates(c) => Calculates(c)'
  <2>1. \A v \in Views : c \in ControlsOf(v) => summary'[v][c] = summary[v][c]
    BY <1>2, AppendUntouched DEF IInv
  <2>2. ResultsOf(c)' = ResultsOf(c)
    BY <1>2 DEF AppendResourceResult, ResultsOf
  <2>3. QED
    BY <2>1, <2>2 DEF Calculates
<1>3. preset' = preset
  BY DEF AppendResourceResult
<1>4. StatusesInStep'
  <2> SUFFICES ASSUME NEW c \in Controls
               PROVE  \/ Calculates(c)'
                      \/ \A v \in Views, w \in Views : c \in ControlsOf(v) /\ c \in ControlsOf(w) =>
                            summary'[v][c].status = summary'[w][c].status
    BY DEF StatusesInStep
  <2>1. QED
    BY <1>1, <1>2 DEF IInv, StatusesInStep
<1>5. UnsetAreCalculated'
  <2> SUFFICES ASSUME NEW c \in Controls \ preset
               PROVE  \/ Calculates(c)'
                      \/ /\ ResultsOf(c)' = {}
                         /\ \A v \in Views : c \in ControlsOf(v) => summary'[v][c].status = StatusUnknown
    BY <1>3 DEF UnsetAreCalculated
  <2>1. QED
    BY <1>1, <1>2 DEF IInv, UnsetAreCalculated
<1>6. QED
  BY <1>4, <1>5

(* InitResourcesSummary changes no counter, and the status of a control in   *)
(* all its views at once.                                                    *)
LEMMA InitializeKeepsInvariant ==
    ASSUME IInv, NEW infos \in ControlInfos, InitResourcesSummary(infos)
    PROVE  TalliesShowResults' /\ StatusesInStep' /\ UnsetAreCalculated'
<1>1. ASSUME NEW c PROVE ResultsOf(c)' = ResultsOf(c)
  BY DEF InitResourcesSummary, ResultsOf
<1>2. TalliesShowResults'
  <2> SUFFICES ASSUME NEW v \in Views, NEW c \in ControlsOf(v), NEW s \in Tallied
               PROVE  summary'[v][c].tally[s] # 0
                          <=> \E j \in ResultsOf(c)' : Seen(v, c, j).status = s
    BY DEF TalliesShowResults, Seen
  <2>1. summary'[v][c].tally = summary[v][c].tally
    BY InitializeStep DEF IInv
  <2>2. QED
    BY <1>1, <2>1 DEF IInv, TalliesShowResults
<1>3. ASSUME NEW c \in Controls, c \notin Supplied(infos), Calculates(c)
      PROVE  /\ Calculates(c)'
             /\ \A v \in Views : c \in ControlsOf(v) => summary'[v][c] = summary[v][c]
  <2>1. ASSUME NEW v \in Views, c \in ControlsOf(v)
        PROVE  /\ summary[v][c].status = calculateStatus(summary[v][c].tally)
               /\ summary'[v][c] = summary[v][c]
    <3>1. summary[v][c].status = calculateStatus(summary[v][c].tally)
      BY <1>3, <2>1 DEF Calculates
    <3>2. summary[v][c].status # StatusUnknown
      BY <3>1, CalculatedStatus, TalliedDiffer
    <3>3. QED
      BY <1>3, <2>1, <3>1, <3>2, InitializeStep DEF IInv
  <2>2. QED
    BY <2>1 DEF Calculates
<1>4. ASSUME NEW c \in Controls, c \notin Supplied(infos), ~Calculates(c)
      PROVE  \/ Calculates(c)'
             \/ \A v \in Views, w \in Views : c \in ControlsOf(v) /\ c \in ControlsOf(w) =>
                   summary'[v][c].status = summary'[w][c].status
  <2>1. \A v \in Views, w \in Views : c \in ControlsOf(v) /\ c \in ControlsOf(w) =>
            summary[v][c].status = summary[w][c].status
    BY <1>4 DEF IInv, StatusesInStep
  <2>2. CASE summary[Report][c].status = StatusUnknown
    <3>1. ASSUME NEW v \in Views, c \in ControlsOf(v)
          PROVE  summary'[v][c].status = calculateStatus(summary'[v][c].tally)
      <4>1. summary[v][c].status = StatusUnknown
        BY <2>1, <2>2, <3>1, ViewsHaveControls
      <4>2. /\ summary'[v][c].tally = summary[v][c].tally
            /\ summary'[v][c].status = calculateStatus(summary[v][c].tally)
        BY <1>4, <3>1, <4>1, InitializeStep DEF IInv
      <4>3. QED
        BY <4>2
    <3>2. QED
      BY <3>1 DEF Calculates
  <2>3. CASE summary[Report][c].status # StatusUnknown
    <3>1. ASSUME NEW v \in Views, c \in ControlsOf(v) PROVE summary'[v][c] = summary[v][c]
      <4>1. summary[v][c].status # StatusUnknown
        BY <2>1, <2>3, <3>1, ViewsHaveControls
      <4>2. QED
        BY <1>4, <3>1, <4>1, InitializeStep DEF IInv
    <3>2. QED
      BY <2>1, <3>1
  <2>4. QED
    BY <2>2, <2>3
<1>5. ASSUME NEW c \in Controls, c \in Supplied(infos), NEW v \in Views, c \in ControlsOf(v)
      PROVE  summary'[v][c].status = infos[c].status
  BY <1>5, InitializeStep DEF IInv
<1>6. StatusesInStep'
  <2> SUFFICES ASSUME NEW c \in Controls
               PROVE  \/ Calculates(c)'
                      \/ \A v \in Views, w \in Views : c \in ControlsOf(v) /\ c \in ControlsOf(w) =>
                            summary'[v][c].status = summary'[w][c].status
    BY DEF StatusesInStep
  <2>1. CASE c \in Supplied(infos)
    BY <1>5, <2>1
  <2>2. CASE c \notin Supplied(infos)
    BY <1>3, <1>4, <2>2
  <2>3. QED
    BY <2>1, <2>2
<1>7. UnsetAreCalculated'
  <2> SUFFICES ASSUME NEW c \in Controls \ preset' PROVE Calculates(c)'
    BY DEF UnsetAreCalculated
  <2>1. c \notin preset /\ c \notin Supplied(infos) /\ summary[Report][c].status # StatusUnknown
    BY DEF InitResourcesSummary
  <2>2. Calculates(c)
    BY <2>1, ViewsHaveControls DEF IInv, UnsetAreCalculated
  <2>3. QED
    BY <1>3, <2>1, <2>2
<1>8. QED
  BY <1>2, <1>6, <1>7

(* It is kept by every step.                                                 *)
LEMMA StrengtheningStep == IInv /\ [Next]_vars => IInv'
<1> SUFFICES ASSUME IInv, [Next]_vars PROVE IInv'
  OBVIOUS
<1>1. ASSUME NEW i \in DOMAIN Results, AppendResourceResult(i) PROVE IInv'
  BY <1>1, AppendKeepsShape, AppendKeepsTallies, AppendKeepsStatuses DEF IInv
<1>2. ASSUME NEW infos \in ControlInfos, InitResourcesSummary(infos) PROVE IInv'
  BY <1>2, InitializeKeepsShape, InitializeKeepsInvariant DEF IInv
<1>3. CASE UNCHANGED vars
  <2>1. Shape'
    BY <1>3 DEF vars, IInv, Shape, Counted
  <2>2. TalliesShowResults'
    <3> SUFFICES ASSUME NEW v \in Views, NEW c \in ControlsOf(v), NEW s \in Tallied
                 PROVE  summary'[v][c].tally[s] # 0
                            <=> \E j \in ResultsOf(c)' : Seen(v, c, j).status = s
      BY DEF TalliesShowResults, Seen
    <3>1. ResultsOf(c)' = ResultsOf(c) /\ summary' = summary
      BY <1>3 DEF vars, ResultsOf
    <3>2. QED
      BY <3>1 DEF IInv, TalliesShowResults
  <2>3. StatusesInStep'
    BY <1>3 DEF vars, IInv, StatusesInStep, Calculates
  <2>4. UnsetAreCalculated'
    <3>1. ASSUME NEW c PROVE Calculates(c)' <=> Calculates(c)
      BY <1>3 DEF vars, Calculates
    <3>2. QED
      BY <1>3, <3>1 DEF vars, IInv, UnsetAreCalculated, ResultsOf
  <2>5. QED
    BY <2>1, <2>2, <2>3, <2>4 DEF IInv
<1>4. QED
  BY <1>1, <1>2, <1>3 DEF Next

(* The strengthening is an invariant.                                        *)
THEOREM StrengtheningInvariant == Spec => []IInv
<1>1. IInv /\ [Next]_vars => IInv'
  BY StrengtheningStep
<1>2. QED
  BY <1>1, InitIInv, PTL DEF Spec

-----------------------------------------------------------------------------
(* What the report sees of a result is the worst of what the frameworks that *)
(* have the control see.                                                     *)
LEMMA SeenJointly ==
    ASSUME NEW i \in DOMAIN Results, NEW c \in DOMAIN Results[i].views,
           NEW fs, fs = {f \in Frameworks : c \in FrameworkControls[f]}, fs # {}
    PROVE  /\ Seen(Report, c, i).status = StatusFailed
                <=> \E f \in fs : Seen(f, c, i).status = StatusFailed
           /\ Seen(Report, c, i).status \in {StatusFailed, StatusSkipped}
                <=> \E f \in fs : Seen(f, c, i).status \in {StatusFailed, StatusSkipped}
<1>1. fs \in (SUBSET Frameworks) \ {{}}
  OBVIOUS
<1>2. Results[i].views[c][fs].status = Verdict({Results[i].views[c][{f}].status : f \in fs})
  <2>1. \A res \in {Results[j] : j \in DOMAIN Results} : \A d \in DOMAIN res.views :
            \A gs \in (SUBSET Frameworks) \ {{}} :
                res.views[d][gs].status = Verdict({res.views[d][{f}].status : f \in gs})
    BY JointViewAssumption
  <2>2. Results[i] \in {Results[j] : j \in DOMAIN Results}
    OBVIOUS
  <2>3. QED
    BY <1>1, <2>1, <2>2, Zenon
<1>3. Seen(Report, c, i) = Results[i].views[c][fs]
  BY DEF Seen
<1>4. \A f \in fs : Seen(f, c, i) = Results[i].views[c][{f}]
  BY ViewsHaveControls DEF Seen
<1>5. \A f \in fs : Seen(f, c, i).status \in Tallied
  BY SeenType, ViewsHaveControls
<1> DEFINE S == {Results[i].views[c][{f}].status : f \in fs}
<1>6. /\ StatusFailed \in S <=> \E f \in fs : Seen(f, c, i).status = StatusFailed
      /\ StatusSkipped \in S <=> \E f \in fs : Seen(f, c, i).status = StatusSkipped
  BY <1>4
<1>7. StatusFailed \in S \/ StatusSkipped \in S \/ StatusPassed \in S
  BY <1>1, <1>4, <1>5 DEF Tallied
<1>8. Seen(Report, c, i).status = Verdict(S)
  BY <1>2, <1>3
<1> HIDE DEF S
<1>9. QED
  BY <1>6, <1>7, <1>8, TalliedDiffer DEF Verdict

LEMMA RankOfCalculated ==
    /\ Rank(StatusFailed) = 3 /\ Rank(StatusSkipped) = 2 /\ Rank(StatusPassed) = 1
    /\ \A s : Rank(s) \in Nat
BY TalliedDiffer DEF Rank

(* What it says of the report and its frameworks.                            *)
LEMMA WorstFramework == IInv => AggregateIsWorstFramework
<1> SUFFICES ASSUME IInv, NEW c \in Controls,
                    NEW fs, fs = {f \in Frameworks : c \in FrameworkControls[f]}, fs # {}
             PROVE  /\ \A f \in fs : Rank(summary[f][c].status) <= Rank(summary[Report][c].status)
                    /\ \E f \in fs : summary[f][c].status = summary[Report][c].status
  BY DEF AggregateIsWorstFramework
<1>1. Report \in Views /\ c \in ControlsOf(Report)
      /\ \A f \in fs : f \in Views /\ c \in ControlsOf(f)
  BY ViewsHaveControls
<1>2. CASE \A v \in Views, w \in Views : c \in ControlsOf(v) /\ c \in ControlsOf(w) =>
              summary[v][c].status = summary[w][c].status
  <2>1. \A f \in fs : summary[f][c].status = summary[Report][c].status
    BY <1>1, <1>2
  <2>2. QED
    BY <2>1, RankOfCalculated
<1>3. CASE Calculates(c)
  <2> DEFINE failed(v) == summary[v][c].tally[StatusFailed] # 0
             skipped(v) == summary[v][c].tally[StatusSkipped] # 0
  <2>1. \A v \in fs \union {Report} :
          /\ failed(v) <=> \E i \in ResultsOf(c) : Seen(v, c, i).status = StatusFailed
          /\ skipped(v) <=> \E i \in ResultsOf(c) : Seen(v, c, i).status = StatusSkipped
    BY <1>1 DEF IInv, TalliesShowResults, Tallied
  <2>2. \A v \in fs \union {Report} :
          summary[v][c].status = IF failed(v) THEN StatusFailed
                                 ELSE IF skipped(v) THEN StatusSkipped ELSE StatusPassed
    BY <1>1, <1>3 DEF Calculates, calculateStatus
  <2> HIDE DEF failed, skipped
  <2>3. \A i \in ResultsOf(c) :
          /\ Seen(Report, c, i).status = StatusFailed
               <=> \E f \in fs : Seen(f, c, i).status = StatusFailed
          /\ Seen(Report, c, i).status \in {StatusFailed, StatusSkipped}
               <=> \E f \in fs : Seen(f, c, i).status \in {StatusFailed, StatusSkipped}
    <3> SUFFICES ASSUME NEW i \in ResultsOf(c)
                 PROVE  /\ Seen(Report, c, i).status = StatusFailed
                             <=> \E f \in fs : Seen(f, c, i).status = StatusFailed
                        /\ Seen(Report, c, i).status \in {StatusFailed, StatusSkipped}
                             <=> \E f \in fs : Seen(f, c, i).status \in {StatusFailed, StatusSkipped}
      OBVIOUS
    <3>1. i \in DOMAIN Results /\ c \in DOMAIN Results[i].views
      BY DEF IInv, Shape, ResultsOf
    <3>2. QED
      BY <3>1, SeenJointly
  <2>4. failed(Report) <=> \E f \in fs : failed(f)
    BY <2>1, <2>3
  <2>5. failed(Report) \/ skipped(Report) <=> \E f \in fs : failed(f) \/ skipped(f)
    BY <2>1, <2>3
  <2>6. CASE failed(Report)
    BY <2>2, <2>4, <2>6, RankOfCalculated
  <2>7. CASE ~failed(Report) /\ skipped(Report)
    BY <2>2, <2>4, <2>5, <2>7, RankOfCalculated
  <2>8. CASE ~failed(Report) /\ ~skipped(Report)
    BY <2>2, <2>4, <2>5, <2>8, RankOfCalculated
  <2>9. QED
    BY <2>6, <2>7, <2>8
<1>4. QED
  BY <1>2, <1>3 DEF IInv, StatusesInStep

(* The report shows a control as the worst of the frameworks that have it,   *)
(* whatever results came in whatever order, and whenever it was closed.      *)
THEOREM ReportIsWorstFramework == Spec => []AggregateIsWorstFramework
<1>1. IInv => AggregateIsWorstFramework
  BY WorstFramework
<1>2. QED
  BY <1>1, StrengtheningInvariant, PTL

-----------------------------------------------------------------------------
(* What is on the list of the status is not lost to a less specific one.     *)
LEMMA MoreSpecificIsKept ==
    ASSUME NEW status \in Tallied, NEW old, NEW new, NEW tally,
           NEW k \in DOMAIN Precedence(status), Precedence(status)[k] \in {old, new}
    PROVE  \E j \in 1 .. k : calculateNSetSubStatus(status, old, new, tally) = Precedence(status)[j]
<1> DEFINE seen == {old, new} \union IF tally = ZeroTally THEN {SubStatusIrrelevant} ELSE {}
<1>1. Precedence(status)[k] \in seen
  OBVIOUS
<1>2. CASE status = StatusPassed
  <2>1. /\ DOMAIN Precedence(status) = 1 .. 3
        /\ Precedence(status)[1] = SubStatusIrrelevant
        /\ Precedence(status)[2] = SubStatusException
        /\ Precedence(status)[3] = SubStatusIncompleteCoverage
    BY <1>2 DEF Precedence
  <2>2. calculateNSetSubStatus(status, old, new, tally) =
            Prefer(SubStatusIrrelevant, seen,
            Prefer(SubStatusException, seen,
            Prefer(SubStatusIncompleteCoverage, seen, old)))
    BY <1>2 DEF calculateNSetSubStatus
  <2> HIDE DEF seen
  <2>3. QED
    BY <1>1, <2>1, <2>2 DEF Prefer
<1>3. CASE status = StatusSkipped
  <2>1. /\ DOMAIN Precedence(status) = 1 .. 4
        /\ Precedence(status)[1] = SubStatusNotEvaluated
        /\ Precedence(status)[2] = SubStatusConfiguration
        /\ Precedence(status)[3] = SubStatusManualReview
        /\ Precedence(status)[4] = SubStatusRequiresReview
    BY <1>3, TalliedDiffer DEF Precedence
  <2>2. calculateNSetSubStatus(status, old, new, tally) =
            Prefer(SubStatusNotEvaluated, seen,
            Prefer(SubStatusConfiguration, seen,
            Prefer(SubStatusManualReview, seen,
            Prefer(SubStatusRequiresReview, seen, old))))
    BY <1>3, TalliedDiffer DEF calculateNSetSubStatus
  <2> HIDE DEF seen
  <2>3. QED
    BY <1>1, <2>1, <2>2 DEF Prefer
<1>4. CASE status = StatusFailed
  <2>1. DOMAIN Precedence(status) = 1 .. 1 /\ Precedence(status)[1] = SubStatusException
    BY <1>4, TalliedDiffer DEF Precedence
  <2>2. calculateNSetSubStatus(status, old, new, tally) = FailedSubStatus(seen)
    BY <1>4, TalliedDiffer DEF calculateNSetSubStatus
  <2> HIDE DEF seen
  <2>3. QED
    BY <1>1, <2>1, <2>2 DEF FailedSubStatus, Prefer
<1>5. QED
  BY <1>2, <1>3, <1>4 DEF Tallied

(* The status of a control only ever gets worse, so that a result which      *)
(* reported the present one was appended while the control already had it,   *)
(* or is the last.                                                           *)
LEMMA StatusOfEarlierResult ==
    ASSUME NEW old \in [Tallied -> Nat], NEW s \in Tallied, NEW new,
           new = [old EXCEPT ![s] = @ + 1], old[calculateStatus(new)] # 0
    PROVE  calculateStatus(old) = calculateStatus(new)
<1>1. StatusPassed \in Tallied /\ StatusFailed \in Tallied /\ StatusSkipped \in Tallied
  BY DEF Tallied
<1>2. \A t \in Tallied : old[t] # 0 => new[t] # 0
  OBVIOUS
<1>3. QED
  BY <1>1, <1>2, TalliedDiffer DEF calculateStatus

Reported(v, c, s) == {Seen(v, c, i).sub : i \in {x \in ResultsOf(c) : Seen(v, c, x).status = s}}

MostSpecific(v, c) ==
    \A k \in DOMAIN Precedence(summary[v][c].status) :
        Precedence(summary[v][c].status)[k] \in Reported(v, c, summary[v][c].status) =>
            \E j \in 1 .. k : summary[v][c].sub = Precedence(summary[v][c].status)[j]

LEMMA MostSpecificEverywhere ==
    SubStatusIsMostSpecific <=> \A v \in Views : \A c \in ControlsOf(v) \ preset : MostSpecific(v, c)
BY DEF SubStatusIsMostSpecific, MostSpecific, Reported

LEMMA PrecedenceIsList ==
    ASSUME NEW status, NEW k \in DOMAIN Precedence(status)
    PROVE  k \in Nat /\ 1 .. k \subseteq DOMAIN Precedence(status)
BY DEF Precedence

(* Every step keeps the most specific sub status.                            *)
LEMMA SubStatusStep == IInv /\ SubStatusIsMostSpecific /\ [Next]_vars => SubStatusIsMostSpecific'
<1> SUFFICES ASSUME IInv, \A v \in Views : \A c \in ControlsOf(v) \ preset : MostSpecific(v, c),
                    [Next]_vars, NEW v \in Views, NEW c \in ControlsOf(v) \ preset'
             PROVE  MostSpecific(v, c)'
  BY MostSpecificEverywhere DEF SubStatusIsMostSpecific, MostSpecific, Reported, Seen
<1>1. ASSUME NEW i \in DOMAIN Results, AppendResourceResult(i), c \in DOMAIN Results[i].views
      PROVE  MostSpecific(v, c)'
  <2> DEFINE status == summary'[v][c].status
             order == Precedence(status)
  <2> SUFFICES ASSUME NEW k \in DOMAIN order, NEW x \in ResultsOf(c)',
                      Seen(v, c, x).status = status, order[k] = Seen(v, c, x).sub
               PROVE  \E j \in 1 .. k : summary'[v][c].sub = order[j]
    BY DEF MostSpecific, Reported, Seen
  <2>1. c \notin preset
    BY <1>1 DEF AppendResourceResult
  <2>2. ResultsOf(c)' = ResultsOf(c) \union {i}
    BY <1>1 DEF AppendResourceResult, ResultsOf
  <2>3. /\ Seen(v, c, i).status \in Tallied
        /\ summary'[v][c].tally = [summary[v][c].tally EXCEPT ![Seen(v, c, i).status] = @ + 1]
        /\ status = calculateStatus(summary'[v][c].tally)
        /\ summary'[v][c].sub = calculateNSetSubStatus(status,
                  summary[v][c].sub, Seen(v, c, i).sub, summary'[v][c].tally)
    BY <1>1, AppendTouched, SMTT(30) DEF IInv
  <2>4. status \in Tallied
    BY <2>3, CalculatedStatus
  <2> HIDE DEF status
  <2>5. CASE x = i
    <3>1. order[k] \in {summary[v][c].sub, Seen(v, c, i).sub}
      BY <2>5
    <3>2. \E j \in 1 .. k :
             calculateNSetSubStatus(status, summary[v][c].sub, Seen(v, c, i).sub, summary'[v][c].tally)
                = order[j]
      BY <2>4, <3>1, MoreSpecificIsKept
    <3>3. QED
      BY <2>3, <3>2
  <2>6. CASE x \in ResultsOf(c)
    <3>1. summary[v][c].tally[status] # 0
      BY <2>4, <2>6 DEF IInv, TalliesShowResults
    <3>2. summary[v][c].tally \in [Tallied -> Nat]
      BY DEF IInv, Shape, ControlOK
    <3>3. calculateStatus(summary[v][c].tally) = status
      <4>1. summary[v][c].tally[calculateStatus(summary'[v][c].tally)] # 0
        BY <2>3, <3>1
      <4>2. calculateStatus(summary[v][c].tally) = calculateStatus(summary'[v][c].tally)
        BY <2>3, <3>2, <4>1, StatusOfEarlierResult
      <4>3. QED
        BY <2>3, <4>2
    <3>4. Calculates(c)
      BY <2>1, <2>6, ViewsHaveControls DEF IInv, UnsetAreCalculated
    <3>5. summary[v][c].status = status
      BY <3>3, <3>4 DEF Calculates
    <3>6. PICK j \in 1 .. k : summary[v][c].sub = order[j]
      BY <2>1, <2>6, <3>5 DEF MostSpecific, Reported
    <3>7. j \in DOMAIN Precedence(status)
      BY <3>6, PrecedenceIsList, SMTT(30)
    <3>8. PICK m \in 1 .. j : summary'[v][c].sub = order[m]
      <4>1. Precedence(status)[j] \in {summary[v][c].sub, Seen(v, c, i).sub}
        BY <3>6
      <4>2. \E m \in 1 .. j : calculateNSetSubStatus(status, summary[v][c].sub,
                  Seen(v, c, i).sub, summary'[v][c].tally) = Precedence(status)[m]
        BY <2>4, <3>7, <4>1, MoreSpecificIsKept
      <4>3. QED
        BY <2>3, <4>2
    <3>9. m \in 1 .. k
      <4>1. k \in Nat
        BY PrecedenceIsList
      <4>2. QED
        BY <3>6, <3>8, <4>1
    <3>10. QED
      BY <3>8, <3>9
  <2>7. QED
    BY <2>2, <2>5, <2>6
<1>2. ASSUME summary'[v][c] = summary[v][c], ResultsOf(c)' = ResultsOf(c), c \notin preset
      PROVE  MostSpecific(v, c)'
  <2>1. MostSpecific(v, c)
    BY <1>2
  <2>2. \A s : Reported(v, c, s)' = Reported(v, c, s)
    BY <1>2 DEF Reported, Seen
  <2>3. QED
    BY <1>2, <2>1, <2>2 DEF MostSpecific
<1>3. ASSUME NEW i \in DOMAIN Results, AppendResourceResult(i), c \notin DOMAIN Results[i].views
      PROVE  MostSpecific(v, c)'
  <2>1. summary'[v][c] = summary[v][c]
    BY <1>3, AppendUntouched
  <2>2. ResultsOf(c)' = ResultsOf(c) /\ c \notin preset
    BY <1>3 DEF AppendResourceResult, ResultsOf
  <2>3. QED
    BY <1>2, <2>1, <2>2
<1>4. ASSUME NEW infos \in ControlInfos, InitResourcesSummary(infos)
      PROVE  MostSpecific(v, c)'
  <2>1. c \notin preset /\ c \notin Supplied(infos) /\ summary[Report][c].status # StatusUnknown
    BY <1>4, ViewsHaveControls DEF InitResourcesSummary
  <2>2. Calculates(c)
    BY <2>1, ViewsHaveControls DEF IInv, UnsetAreCalculated
  <2>3. summary[v][c].status # StatusUnknown
    BY <2>2, CalculatedStatus, TalliedDiffer DEF Calculates
  <2>4. summary'[v][c] = summary[v][c]
    BY <1>4, <2>1, <2>3, InitializeStep DEF IInv
  <2>5. ResultsOf(c)' = ResultsOf(c)
    BY <1>4 DEF InitResourcesSummary, ResultsOf
  <2>6. QED
    BY <1>2, <2>1, <2>4, <2>5
<1>5. CASE UNCHANGED vars
  <2>1. summary'[v][c] = summary[v][c] /\ ResultsOf(c)' = ResultsOf(c) /\ c \notin preset
    BY <1>5 DEF vars, ResultsOf
  <2>2. QED
    BY <1>2, <2>1
<1>6. QED
  BY <1>1, <1>3, <1>4, <1>5 DEF Next

(* There is none to keep initially.                                          *)
LEMMA InitSubStatus == Init => SubStatusIsMostSpecific
<1> SUFFICES ASSUME Init, NEW v \in Views, NEW c \in ControlsOf(v) PROVE MostSpecific(v, c)
  BY MostSpecificEverywhere
<1>1. \A s : Reported(v, c, s) = {}
  BY DEF Init, Reported, ResultsOf
<1>2. QED
  BY <1>1 DEF MostSpecific

(* The sub status of a control is the most specific of those reported with   *)
(* its status, in whatever order the resources came.                         *)
THEOREM SubStatusCorrect == Spec => []SubStatusIsMostSpecific
<1>1. Init => SubStatusIsMostSpecific
  BY InitSubStatus
<1>2. IInv /\ SubStatusIsMostSpecific /\ [Next]_vars => SubStatusIsMostSpecific'
  BY SubStatusStep
<1>3. QED
  BY <1>1, <1>2, StrengtheningInvariant, PTL DEF Spec

-----------------------------------------------------------------------------
(* The totals of a list of control summaries count finitely many resources.  *)
LEMMA TotalType ==
    ASSUME NEW cs, NEW R, IsFiniteSet(R), \A c \in DOMAIN cs : DOMAIN cs[c].resources \subseteq R
    PROVE  Total(cs) \in [tally : [Tallied -> Nat], status : ScanningStatus]
<1>1. ASSUME NEW s \in Tallied
      PROVE  Cardinality({r \in Resources(cs) : Verdict(StatusesOf(cs, r)) = s}) \in Nat
  <2>1. {r \in Resources(cs) : Verdict(StatusesOf(cs, r)) = s} \subseteq R
    BY DEF Resources
  <2>2. QED
    BY <2>1, FS_Subset, FS_CardinalityType
<1>2. ResourceTally(cs) \in [Tallied -> Nat]
  BY <1>1 DEF ResourceTally
<1>3. QED
  BY <1>2, CalculatedStatus, TalliedAreStatuses DEF Total

(* The counters and the history of a summary.                                *)
CountersOK ==
    /\ totals \in [Views -> [tally : [Tallied -> Nat], status : ScanningStatus]]
    /\ resourcesSeverity \in [Severities -> Nat]
    /\ controlsSeverity \in [Severities -> Nat]
    /\ inits \in 0 .. MaxInits
    /\ settled \in BOOLEAN /\ preset \subseteq Controls

(* The counters initially.                                                   *)
LEMMA InitCounters == Init => CountersOK
<1> SUFFICES ASSUME Init PROVE CountersOK
  OBVIOUS
<1>1. StatusUnknown \in ScanningStatus /\ ZeroTally \in [Tallied -> Nat]
  BY DEF ScanningStatus, ZeroTally
<1>2. totals \in [Views -> [tally : [Tallied -> Nat], status : ScanningStatus]]
  BY <1>1 DEF Init
<1>3. resourcesSeverity \in [Severities -> Nat] /\ controlsSeverity \in [Severities -> Nat]
  BY DEF Init
<1>4. inits \in 0 .. MaxInits
  BY MaxInitsAssumption DEF Init
<1>5. settled \in BOOLEAN /\ preset \subseteq Controls
  BY DEF Init
<1>6. QED
  BY <1>2, <1>3, <1>4, <1>5 DEF CountersOK

(* Their types are kept by every step.                                       *)
LEMMA CountersStep == IInv /\ CountersOK /\ [Next]_vars /\ IInv' => CountersOK'
<1> SUFFICES ASSUME IInv, CountersOK, [Next]_vars, IInv' PROVE CountersOK'
  OBVIOUS
<1>1. \A v \in Views : Total(summary'[v]) \in [tally : [Tallied -> Nat], status : ScanningStatus]
  <2>1. Shape' /\ \A v \in Views : DOMAIN summary'[v] = ControlsOf(v)
    BY DEF IInv, Shape
  <2>2. \A v \in Views : \A c \in DOMAIN summary'[v] :
            DOMAIN summary'[v][c].resources \subseteq Counted'
    BY <2>1 DEF Shape
  <2>3. IsFiniteSet(Counted')
    BY <2>1 DEF Shape
  <2>4. QED
    BY <2>2, <2>3, TotalType
<1>2. ASSUME NEW i \in DOMAIN Results, AppendResourceResult(i) PROVE CountersOK'
  <2>1. \A s : FailedIn(Results[i], s) \subseteq Controls
    BY ResultsAssumption DEF FailedIn
  <2>2. \A s : Cardinality(FailedIn(Results[i], s)) \in Nat
    BY <2>1, ControlsAssumption, FS_Subset, FS_CardinalityType
  <2>3. resourcesSeverity' \in [Severities -> Nat]
    BY <1>2, <2>2 DEF AppendResourceResult, CountersOK
  <2>4. totals' \in [Views -> [tally : [Tallied -> Nat], status : ScanningStatus]]
    <3>1. totals' = [v \in Views |-> IF v = Report THEN totals[v] ELSE Total(summary'[v])]
      BY <1>2 DEF AppendResourceResult
    <3>2. QED
      BY <1>1, <3>1 DEF CountersOK
  <2>5. QED
    BY <1>2, <2>3, <2>4 DEF AppendResourceResult, CountersOK
<1>3. ASSUME NEW infos \in ControlInfos, InitResourcesSummary(infos) PROVE CountersOK'
  <2>1. \A s : FailedControls(s)' \subseteq Controls
    BY DEF FailedControls
  <2>2. \A s : Cardinality(FailedControls(s)') \in Nat
    BY <2>1, ControlsAssumption, FS_Subset, FS_CardinalityType
  <2>3. controlsSeverity' \in [Severities -> Nat]
    BY <1>3, <2>2 DEF InitResourcesSummary, CountersOK
  <2>4. totals' \in [Views -> [tally : [Tallied -> Nat], status : ScanningStatus]]
    <3>1. totals' = [v \in Views |-> Total(summary'[v])]
      BY <1>3 DEF InitResourcesSummary
    <3>2. QED
      BY <1>1, <3>1
  <2>5. Supplied(infos) \subseteq Controls
    BY InfosAssumption DEF Supplied
  <2>6. inits' \in 0 .. MaxInits
    BY <1>3, MaxInitsAssumption DEF InitResourcesSummary, CountersOK
  <2>7. QED
    BY <1>3, <2>3, <2>4, <2>5, <2>6 DEF InitResourcesSummary, CountersOK
<1>4. CASE UNCHANGED vars
  BY <1>4 DEF vars, CountersOK
<1>5. QED
  BY <1>2, <1>3, <1>4 DEF Next

(* The type invariant follows.                                               *)
LEMMA TypeFollows == IInv /\ CountersOK => TypeOK
BY DEF IInv, Shape, ControlOK, CountersOK, TypeOK, Info, StatusInfo

(* Type correctness, for any controls, frameworks and results.               *)
THEOREM TypeCorrect == Spec => []TypeOK
<1>1. Init => CountersOK
  BY InitCounters
<1>2. IInv /\ CountersOK /\ [Next]_vars /\ IInv' => CountersOK'
  BY CountersStep
<1>3. IInv /\ CountersOK => TypeOK
  BY TypeFollows
<1>4. QED
  BY <1>1, <1>2, <1>3, StrengtheningInvariant, PTL DEF Spec

-----------------------------------------------------------------------------
(* The counters of a summary are counts of the same resources.               *)

(* What appending does to all the fields of a control summary.               *)
LEMMA AppendedCounters ==
    ASSUME NEW c, ControlOK(c), NEW info, info.status \in Tallied, NEW r
    PROVE  LET d == AppendToControl(c, info, r) IN
           /\ d.ignored = c.ignored + Count(info = Info(StatusPassed, SubStatusException))
           /\ d.acknowledged = c.acknowledged + Count(info = Info(StatusFailed, SubStatusException))
           /\ r \notin DOMAIN c.resources =>
                 d.resources = [x \in DOMAIN c.resources \union {r} |->
                                    IF x # r THEN c.resources[x] ELSE info.status]
<1> DEFINE tally == [c.tally EXCEPT ![info.status] = @ + 1]
           ignored == c.ignored + Count(info = Info(StatusPassed, SubStatusException))
           acknowledged == c.acknowledged + Count(info = Info(StatusFailed, SubStatusException))
           resources == [x \in DOMAIN c.resources \union {r} |->
                            IF x # r THEN c.resources[x]
                            ELSE IF r \in DOMAIN c.resources
                            THEN Compare(c.resources[r], info.status) ELSE info.status]
<1>1. AppendToControl(c, info, r) =
        [[[[c EXCEPT !.resources = resources] EXCEPT !.tally = tally]
            EXCEPT !.ignored = ignored] EXCEPT !.acknowledged = acknowledged]
  BY DEF AppendToControl, ControlOK, Fields
<1>2. r \notin DOMAIN c.resources =>
         resources = [x \in DOMAIN c.resources \union {r} |->
                        IF x # r THEN c.resources[x] ELSE info.status]
  OBVIOUS
<1> HIDE DEF tally, ignored, acknowledged, resources
<1>3. LET d == AppendToControl(c, info, r) IN
      d.ignored = ignored /\ d.acknowledged = acknowledged /\ d.resources = resources
  BY <1>1 DEF ControlOK, Fields
<1>4. QED
  BY <1>2, <1>3 DEF ignored, acknowledged

LEMMA CalculatedCounters ==
    ASSUME NEW c, ControlOK(c), NEW new
    PROVE  /\ Calculated(c, new).ignored = c.ignored
           /\ Calculated(c, new).acknowledged = c.acknowledged
BY DEF ControlOK, Calculated, Fields

-----------------------------------------------------------------------------
(* The strengthening: a resource has one result, and every control summary   *)
(* lists the resources of the results about it, each with what the view saw. *)
OneResultEach ==
    /\ appended \subseteq DOMAIN Results /\ IsFiniteSet(appended)
    /\ \A i \in appended, j \in appended : Results[i].resource = Results[j].resource => i = j

Lists(cs, v, c, R) ==
    /\ DOMAIN cs.resources = {Results[i].resource : i \in R}
    /\ \A i \in R : cs.resources[Results[i].resource] = Seen(v, c, i).status

Counts(cs, v, c, R) ==
    /\ \A s \in Tallied : cs.tally[s] = Cardinality({i \in R : Seen(v, c, i).status = s})
    /\ cs.ignored = Cardinality({i \in R : Seen(v, c, i) \in {Info(StatusPassed, SubStatusException)}})
    /\ cs.acknowledged = Cardinality({i \in R : Seen(v, c, i) \in {Info(StatusFailed, SubStatusException)}})

SummariesCount ==
    \A v \in Views : \A c \in ControlsOf(v) :
        Lists(summary[v][c], v, c, ResultsOf(c)) /\ Counts(summary[v][c], v, c, ResultsOf(c))

(* One more result is one more in each count it belongs to.                  *)
LEMMA OneMore ==
    ASSUME NEW R, IsFiniteSet(R), NEW i, i \notin R, NEW A \in SUBSET R, NEW B,
           NEW b \in BOOLEAN, B = A \union (IF b THEN {i} ELSE {})
    PROVE  Cardinality(B) = Cardinality(A) + Count(b) /\ Cardinality(A) \in Nat
<1>1. IsFiniteSet(A) /\ Cardinality(A) \in Nat
  BY FS_Subset, FS_CardinalityType
<1>2. CASE b
  <2>1. B = A \union {i} /\ i \notin A
    BY <1>2
  <2>2. Cardinality(A \union {i}) = Cardinality(A) + 1
    BY <1>1, <2>1, FS_AddElement
  <2>3. QED
    BY <1>1, <1>2, <2>1, <2>2 DEF Count
<1>3. CASE ~b
  BY <1>1, <1>3 DEF Count
<1>4. QED
  BY <1>2, <1>3

(* A control summary after one more result.                                  *)
LEMMA OneResultMore ==
    ASSUME NEW cs, ControlOK(cs), NEW v, NEW c, NEW R, IsFiniteSet(R), NEW i, i \notin R,
           Lists(cs, v, c, R), Counts(cs, v, c, R), Seen(v, c, i).status \in Tallied,
           \A j \in R : Results[j].resource # Results[i].resource
    PROVE  LET d == Calculated(AppendToControl(cs, Seen(v, c, i), Results[i].resource),
                               Seen(v, c, i).sub)
           IN  Lists(d, v, c, R \union {i}) /\ Counts(d, v, c, R \union {i})
<1> DEFINE info == Seen(v, c, i)
           r == Results[i].resource
           added == AppendToControl(cs, info, r)
           d == Calculated(added, info.sub)
           ignored == Info(StatusPassed, SubStatusException)
           acknowledged == Info(StatusFailed, SubStatusException)
<1>1. r \notin DOMAIN cs.resources
  BY DEF Lists
<1>2. /\ ControlOK(added) /\ added.tally = [cs.tally EXCEPT ![info.status] = @ + 1]
      /\ added.ignored = cs.ignored + Count(info = ignored)
      /\ added.acknowledged = cs.acknowledged + Count(info = acknowledged)
      /\ added.resources = [x \in DOMAIN cs.resources \union {r} |->
                                IF x # r THEN cs.resources[x] ELSE info.status]
  <2> HIDE DEF info, r
  <2>1. info.status \in Tallied
    BY DEF info
  <2>2. LET a == AppendToControl(cs, info, r) IN
        ControlOK(a) /\ a.tally = [cs.tally EXCEPT ![info.status] = @ + 1]
    BY <2>1, AppendedFields
  <2>3. LET a == AppendToControl(cs, info, r) IN
        /\ a.ignored = cs.ignored + Count(info = Info(StatusPassed, SubStatusException))
        /\ a.acknowledged = cs.acknowledged + Count(info = Info(StatusFailed, SubStatusException))
        /\ r \notin DOMAIN cs.resources =>
              a.resources = [x \in DOMAIN cs.resources \union {r} |->
                                IF x # r THEN cs.resources[x] ELSE info.status]
    BY <2>1, AppendedCounters
  <2>4. QED
    BY <1>1, <2>2, <2>3
<1>3. /\ d.tally = added.tally /\ d.resources = added.resources
      /\ d.ignored = added.ignored /\ d.acknowledged = added.acknowledged
  <2> HIDE DEF added
  <2>1. QED
    BY <1>2, CalculatedFields, CalculatedCounters
<1> HIDE DEF added, d
<1>4. Lists(d, v, c, R \union {i})
  <2>1. DOMAIN d.resources = {Results[j].resource : j \in R \union {i}}
    BY <1>2, <1>3 DEF Lists
  <2>2. \A j \in R \union {i} : d.resources[Results[j].resource] = Seen(v, c, j).status
    BY <1>2, <1>3 DEF Lists
  <2>3. QED
    BY <2>1, <2>2 DEF Lists
<1>5. ASSUME NEW s \in Tallied
      PROVE  d.tally[s] = Cardinality({j \in R \union {i} : Seen(v, c, j).status = s})
  <2>1. d.tally[s] = cs.tally[s] + Count(info.status = s)
    <3> HIDE DEF info
    <3>1. cs.tally \in [Tallied -> Nat]
      BY DEF ControlOK
    <3>2. info.status \in Tallied
      BY DEF info
    <3>3. QED
      BY <1>2, <1>3, <3>1, <3>2 DEF Count
  <2>2. {j \in R \union {i} : Seen(v, c, j).status = s}
          = {j \in R : Seen(v, c, j).status = s} \union (IF info.status = s THEN {i} ELSE {})
    OBVIOUS
  <2>3. Cardinality({j \in R \union {i} : Seen(v, c, j).status = s})
          = Cardinality({j \in R : Seen(v, c, j).status = s}) + Count(info.status = s)
    <3> DEFINE A == {j \in R : Seen(v, c, j).status = s}
               B == {j \in R \union {i} : Seen(v, c, j).status = s}
               b == info.status = s
    <3>1. A \in SUBSET R /\ b \in BOOLEAN /\ B = A \union (IF b THEN {i} ELSE {})
      BY <2>2
    <3> HIDE DEF A, B, b
    <3>2. Cardinality(B) = Cardinality(A) + Count(b)
      BY <3>1, OneMore
    <3>3. QED
      BY <3>2 DEF A, B, b
  <2>4. QED
    BY <2>1, <2>3 DEF Counts
<1>6. ASSUME NEW x
      PROVE  Cardinality({j \in R \union {i} : Seen(v, c, j) \in {x}})
                = Cardinality({j \in R : Seen(v, c, j) \in {x}}) + Count(info = x)
  <2> DEFINE A == {j \in R : Seen(v, c, j) \in {x}}
             B == {j \in R \union {i} : Seen(v, c, j) \in {x}}
             b == info = x
  <2>1. A \in SUBSET R /\ b \in BOOLEAN /\ B = A \union (IF b THEN {i} ELSE {})
    OBVIOUS
  <2> HIDE DEF A, B, b
  <2>2. Cardinality(B) = Cardinality(A) + Count(b)
    BY <2>1, OneMore
  <2>3. QED
    BY <2>2 DEF A, B, b
<1>7. d.ignored = Cardinality({j \in R \union {i} : Seen(v, c, j) \in {ignored}})
  <2>1. cs.ignored = Cardinality({j \in R : Seen(v, c, j) \in {ignored}})
    BY DEF Counts
  <2>2. Cardinality({j \in R \union {i} : Seen(v, c, j) \in {ignored}})
            = Cardinality({j \in R : Seen(v, c, j) \in {ignored}}) + Count(info = ignored)
    BY <1>6
  <2> HIDE DEF ignored, info
  <2>3. QED
    BY <1>2, <1>3, <2>1, <2>2
<1>8. d.acknowledged = Cardinality({j \in R \union {i} : Seen(v, c, j) \in {acknowledged}})
  <2>1. cs.acknowledged = Cardinality({j \in R : Seen(v, c, j) \in {acknowledged}})
    BY DEF Counts
  <2>2. Cardinality({j \in R \union {i} : Seen(v, c, j) \in {acknowledged}})
            = Cardinality({j \in R : Seen(v, c, j) \in {acknowledged}}) + Count(info = acknowledged)
    BY <1>6
  <2> HIDE DEF acknowledged, info
  <2>3. QED
    BY <1>2, <1>3, <2>1, <2>2
<1>9. Counts(d, v, c, R \union {i})
  BY <1>5, <1>7, <1>8 DEF Counts
<1>10. QED
  BY <1>4, <1>9 DEF d, added

-----------------------------------------------------------------------------
(* The resources of some results are as many as the results, for a resource  *)
(* has one result.                                                           *)
LEMMA ImageCount ==
    ASSUME NEW R, R \subseteq DOMAIN Results, IsFiniteSet(R),
           \A i \in R, j \in R : Results[i].resource = Results[j].resource => i = j,
           NEW A \in SUBSET R, NEW B, B = {Results[i].resource : i \in A}
    PROVE  Cardinality(B) = Cardinality(A) /\ Cardinality(A) \in Nat
<1> DEFINE f == [i \in A |-> Results[i].resource]
<1>1. IsFiniteSet(A) /\ Cardinality(A) \in Nat
  BY FS_Subset, FS_CardinalityType
<1>2. f \in Bijection(A, B)
  <2>1. f \in Injection(A, B)
    BY DEF Injection, IsInjective
  <2>2. f \in Surjection(A, B)
    BY DEF Surjection
  <2>3. QED
    BY <2>1, <2>2 DEF Bijection
<1>3. ExistsBijection(A, B)
  BY <1>2 DEF ExistsBijection
<1>4. QED
  BY <1>1, <1>3, FS_Bijection

(* The statuses a view saw in a result.                                      *)
Shown(v, i) == {Seen(v, c, i).status : c \in DOMAIN Results[i].views \intersect ControlsOf(v)}

LEMMA NothingIsOther == Verdict({}) \notin Tallied
BY Zenon DEF Verdict, Tallied, StatusPassed, StatusFailed, StatusSkipped

(* The tally of a whole view counts each result once, under its worst status *)
(* in the view.                                                              *)
LEMMA TotalCounts ==
    ASSUME NEW R, R \subseteq DOMAIN Results, IsFiniteSet(R),
           \A i \in R, j \in R : Results[i].resource = Results[j].resource => i = j,
           NEW v, NEW cs, DOMAIN cs = ControlsOf(v),
           \A c \in ControlsOf(v) : Lists(cs[c], v, c, {i \in R : c \in DOMAIN Results[i].views}),
           NEW s \in Tallied
    PROVE  ResourceTally(cs)[s] = Cardinality({i \in R : Verdict(Shown(v, i)) = s})
<1> DEFINE A == {i \in R : Verdict(Shown(v, i)) = s}
           B == {r \in Resources(cs) : Verdict(StatusesOf(cs, r)) = s}
<1>1. ASSUME NEW i \in R PROVE StatusesOf(cs, Results[i].resource) = Shown(v, i)
  <2>1. {c \in DOMAIN cs : Results[i].resource \in DOMAIN cs[c].resources}
            = DOMAIN Results[i].views \intersect ControlsOf(v)
    BY DEF Lists
  <2>2. \A c \in DOMAIN Results[i].views \intersect ControlsOf(v) :
            cs[c].resources[Results[i].resource] = Seen(v, c, i).status
    BY DEF Lists
  <2>3. QED
    BY <2>1, <2>2 DEF StatusesOf, Shown
<1>2. ASSUME NEW i \in A PROVE Results[i].resource \in B
  <2>1. Shown(v, i) # {}
    BY NothingIsOther
  <2>2. Results[i].resource \in Resources(cs)
    BY <2>1 DEF Shown, Resources, Lists
  <2>3. QED
    BY <1>1, <2>2
<1>3. ASSUME NEW r \in B PROVE \E i \in A : r = Results[i].resource
  <2>1. PICK i \in R : r = Results[i].resource
    BY DEF Resources, Lists
  <2>2. QED
    BY <1>1, <2>1
<1>4. B = {Results[i].resource : i \in A}
  BY <1>2, <1>3
<1>5. A \in SUBSET R
  OBVIOUS
<1> HIDE DEF A, B
<1>6. Cardinality(B) = Cardinality(A)
  BY <1>4, <1>5, ImageCount
<1>7. QED
  BY <1>6 DEF A, B, ResourceTally

-----------------------------------------------------------------------------
LEMMA InitCounts == Init => OneResultEach /\ SummariesCount
<1> SUFFICES ASSUME Init PROVE OneResultEach /\ SummariesCount
  OBVIOUS
<1>1. appended = {} /\ \A c : ResultsOf(c) = {}
  BY DEF Init, ResultsOf
<1>2. OneResultEach
  BY <1>1, FS_EmptySet DEF OneResultEach
<1>3. ASSUME NEW v \in Views, NEW c \in ControlsOf(v)
      PROVE  Lists(summary[v][c], v, c, {}) /\ Counts(summary[v][c], v, c, {})
  <2>1. summary[v][c] = NewControl
    BY DEF Init
  <2>2. Lists(NewControl, v, c, {})
    BY DEF Lists, NewControl, NoResources
  <2>3. /\ \A s \in Tallied : NewControl.tally[s] = 0
        /\ NewControl.ignored = 0 /\ NewControl.acknowledged = 0
    BY DEF NewControl, ZeroTally
  <2>4. Cardinality({}) = 0
    BY FS_EmptySet
  <2>5. /\ \A s : {i \in {} : Seen(v, c, i).status = s} = {}
        /\ \A x : {i \in {} : Seen(v, c, i) \in {x}} = {}
    OBVIOUS
  <2>6. Counts(NewControl, v, c, {})
    BY <2>3, <2>4, <2>5 DEF Counts
  <2>7. QED
    BY <2>1, <2>2, <2>6
<1>4. SummariesCount
  BY <1>1, <1>3 DEF SummariesCount
<1>5. QED
  BY <1>2, <1>4

LEMMA AppendCounts ==
    ASSUME Shape, OneResultEach, SummariesCount,
           NEW i \in DOMAIN Results, AppendResourceResult(i)
    PROVE  OneResultEach' /\ SummariesCount'
<1>1. /\ \A j \in appended : Results[j].resource # Results[i].resource
      /\ appended' = appended \union {i} /\ i \notin appended
  BY DEF AppendResourceResult
<1>2. OneResultEach'
  BY <1>1, FS_AddElement DEF OneResultEach
<1>3. ASSUME NEW v \in Views, NEW c \in ControlsOf(v)
      PROVE  Lists(summary'[v][c], v, c, ResultsOf(c)') /\ Counts(summary'[v][c], v, c, ResultsOf(c)')
  <2>1. Lists(summary[v][c], v, c, ResultsOf(c)) /\ Counts(summary[v][c], v, c, ResultsOf(c))
    BY DEF SummariesCount
  <2>2. CASE c \notin DOMAIN Results[i].views
    <3>1. summary'[v][c] = summary[v][c]
      BY <2>2, AppendUntouched
    <3>2. ResultsOf(c)' = ResultsOf(c)
      BY <1>1, <2>2 DEF ResultsOf
    <3>3. QED
      BY <2>1, <3>1, <3>2
  <2>3. CASE c \in DOMAIN Results[i].views
    <3>1. summary'[v][c] = Calculated(AppendToControl(summary[v][c], Seen(v, c, i),
                                        Results[i].resource), Seen(v, c, i).sub)
      BY <2>3 DEF AppendResourceResult, Updated, Seen, FilterOf, frameworksByControl
    <3>2. ResultsOf(c)' = ResultsOf(c) \union {i}
      BY <1>1, <2>3 DEF ResultsOf
    <3>3. ControlOK(summary[v][c]) /\ Seen(v, c, i).status \in Tallied
      BY <2>3, SeenType DEF Shape
    <3>4. ResultsOf(c) \subseteq appended /\ i \notin ResultsOf(c) /\ IsFiniteSet(ResultsOf(c))
      BY <1>1, FS_Subset DEF ResultsOf, OneResultEach
    <3>5. \A j \in ResultsOf(c) : Results[j].resource # Results[i].resource
      BY <1>1, <3>4
    <3>6. LET d == Calculated(AppendToControl(summary[v][c], Seen(v, c, i), Results[i].resource),
                              Seen(v, c, i).sub)
          IN  Lists(d, v, c, ResultsOf(c) \union {i}) /\ Counts(d, v, c, ResultsOf(c) \union {i})
      BY <2>1, <3>3, <3>4, <3>5, OneResultMore
    <3>7. QED
      BY <3>1, <3>2, <3>6
  <2>4. QED
    BY <2>2, <2>3
<1>4. SummariesCount'
  BY <1>3 DEF SummariesCount
<1>5. QED
  BY <1>2, <1>4

LEMMA InitializeCounts ==
    ASSUME Shape, OneResultEach, SummariesCount,
           NEW infos \in ControlInfos, InitResourcesSummary(infos)
    PROVE  OneResultEach' /\ SummariesCount'
<1>1. appended' = appended /\ \A c : ResultsOf(c)' = ResultsOf(c)
  BY DEF InitResourcesSummary, ResultsOf
<1>2. OneResultEach'
  BY <1>1 DEF OneResultEach
<1>3. ASSUME NEW v \in Views, NEW c \in ControlsOf(v)
      PROVE  /\ summary'[v][c].tally = summary[v][c].tally
             /\ summary'[v][c].resources = summary[v][c].resources
             /\ summary'[v][c].ignored = summary[v][c].ignored
             /\ summary'[v][c].acknowledged = summary[v][c].acknowledged
  <2>1. ControlOK(summary[v][c])
    BY DEF Shape
  <2>2. summary'[v][c] = IF c \in Supplied(infos) THEN Initialized(summary[v][c], infos[c], TRUE)
                         ELSE Initialized(summary[v][c], <<>>, FALSE)
    BY DEF InitResourcesSummary, InitializedIn
  <2>3. CASE c \in Supplied(infos)
    <3>1. summary'[v][c] = [summary[v][c] EXCEPT !.status = infos[c].status, !.sub = infos[c].sub]
      BY <2>2, <2>3 DEF Initialized
    <3>2. QED
      BY <2>1, <3>1 DEF ControlOK, Fields
  <2>4. CASE c \notin Supplied(infos)
    <3>1. summary'[v][c] = IF summary[v][c].status = StatusUnknown
                           THEN Calculated(summary[v][c], SubStatusUnknown) ELSE summary[v][c]
      BY <2>2, <2>4 DEF Initialized
    <3>2. QED
      BY <2>1, <3>1, CalculatedFields, CalculatedCounters
  <2>5. QED
    BY <2>3, <2>4
<1>4. ASSUME NEW v \in Views, NEW c \in ControlsOf(v)
      PROVE  Lists(summary'[v][c], v, c, ResultsOf(c)') /\ Counts(summary'[v][c], v, c, ResultsOf(c)')
  <2>1. Lists(summary[v][c], v, c, ResultsOf(c)) /\ Counts(summary[v][c], v, c, ResultsOf(c))
    BY DEF SummariesCount
  <2>2. Lists(summary'[v][c], v, c, ResultsOf(c))
    BY <1>3, <2>1 DEF Lists
  <2>3. Counts(summary'[v][c], v, c, ResultsOf(c))
    BY <1>3, <2>1 DEF Counts
  <2>4. QED
    BY <1>1, <2>2, <2>3
<1>5. SummariesCount'
  BY <1>4 DEF SummariesCount
<1>6. QED
  BY <1>2, <1>5

(* The total a step makes of a view's control summaries counts the results   *)
(* appended by then.                                                         *)
LEMMA TotalNext ==
    ASSUME Shape', OneResultEach', SummariesCount', NEW v \in Views, NEW s \in Tallied
    PROVE  Total(summary'[v]).tally[s] = Cardinality({i \in appended' : Verdict(Shown(v, i)) = s})
<1>1. \A c \in ControlsOf(v) :
        Lists(summary'[v][c], v, c, {i \in appended' : c \in DOMAIN Results[i].views})
  BY DEF SummariesCount, ResultsOf
<1>2. DOMAIN summary'[v] = ControlsOf(v)
  BY DEF Shape
<1>3. /\ appended' \subseteq DOMAIN Results /\ IsFiniteSet(appended')
      /\ \A i \in appended', j \in appended' : Results[i].resource = Results[j].resource => i = j
  BY DEF OneResultEach
<1>4. ResourceTally(summary'[v])[s] = Cardinality({i \in appended' : Verdict(Shown(v, i)) = s})
  BY <1>1, <1>2, <1>3, TotalCounts
<1>5. QED
  BY <1>4 DEF Total

(* TotalsMatchResults, with the definitions of this module.                  *)
TotalsCount ==
    \A v \in Views : settled \/ (v # Report /\ appended # {}) =>
        \A s \in Tallied :
            totals[v].tally[s] = Cardinality({i \in appended : Verdict(Shown(v, i)) = s})

CInv == OneResultEach /\ SummariesCount /\ TotalsCount

(* What is counted initially.                                                *)
LEMMA InitCInv == Init => CInv
<1>1. Init => TotalsCount
  BY DEF Init, TotalsCount
<1>2. QED
  BY <1>1, InitCounts DEF CInv

(* Every step counts what it adds.                                           *)
LEMMA CountsStep == IInv /\ IInv' /\ CInv /\ [Next]_vars => CInv'
<1> SUFFICES ASSUME IInv, IInv', CInv, [Next]_vars PROVE CInv'
  OBVIOUS
<1>1. ASSUME OneResultEach', SummariesCount'
      PROVE  \A v \in Views, s \in Tallied :
                Total(summary'[v]).tally[s]
                  = Cardinality({i \in appended' : Verdict(Shown(v, i)) = s})
  BY <1>1, TotalNext DEF IInv
<1>2. ASSUME NEW i \in DOMAIN Results, AppendResourceResult(i) PROVE CInv'
  <2>1. OneResultEach' /\ SummariesCount'
    BY <1>2, AppendCounts DEF IInv, CInv
  <2>2. /\ ~settled'
        /\ \A v \in Views : v # Report => totals'[v] = Total(summary'[v])
    BY <1>2 DEF AppendResourceResult
  <2>3. TotalsCount'
    BY <1>1, <2>1, <2>2 DEF TotalsCount
  <2>4. QED
    BY <2>1, <2>3 DEF CInv
<1>3. ASSUME NEW infos \in ControlInfos, InitResourcesSummary(infos) PROVE CInv'
  <2>1. OneResultEach' /\ SummariesCount'
    BY <1>3, InitializeCounts DEF IInv, CInv
  <2>2. \A v \in Views : totals'[v] = Total(summary'[v])
    BY <1>3 DEF InitResourcesSummary
  <2>3. TotalsCount'
    BY <1>1, <2>1, <2>2 DEF TotalsCount
  <2>4. QED
    BY <2>1, <2>3 DEF CInv
<1>4. CASE UNCHANGED vars
  <2>1. OneResultEach'
    BY <1>4 DEF CInv, OneResultEach, vars
  <2>2. \A c : ResultsOf(c)' = ResultsOf(c)
    BY <1>4 DEF ResultsOf, vars
  <2>3. SummariesCount'
    BY <1>4, <2>2 DEF CInv, SummariesCount, vars
  <2>4. TotalsCount'
    BY <1>4 DEF CInv, TotalsCount, vars
  <2>5. QED
    BY <2>1, <2>3, <2>4 DEF CInv
<1>5. QED
  BY <1>2, <1>3, <1>4 DEF Next

(* The counters then count what they say.                                    *)
LEMMA CountersFollow == CInv => CountersCount
<1> SUFFICES ASSUME CInv PROVE CountersCount
  OBVIOUS
<1>1. TotalsMatchResults
  BY DEF CInv, TotalsCount, TotalsMatchResults, Shown
<1>2. ASSUME NEW v \in Views, NEW c \in ControlsOf(v) PROVE ControlCountersMatch(v, c)
  <2>1. Lists(summary[v][c], v, c, ResultsOf(c)) /\ Counts(summary[v][c], v, c, ResultsOf(c))
    BY DEF CInv, SummariesCount
  <2>2. /\ ResultsOf(c) \subseteq DOMAIN Results /\ IsFiniteSet(ResultsOf(c))
        /\ \A i \in ResultsOf(c), j \in ResultsOf(c) :
              Results[i].resource = Results[j].resource => i = j
    <3>1. ResultsOf(c) \subseteq appended
      BY DEF ResultsOf
    <3>2. QED
      BY <3>1, FS_Subset DEF CInv, OneResultEach
  <2>3. \A s \in Tallied :
          Cardinality({r \in DOMAIN summary[v][c].resources : summary[v][c].resources[r] = s})
              = Cardinality({i \in ResultsOf(c) : Seen(v, c, i).status = s})
    <3> DEFINE R == ResultsOf(c)
               cs == summary[v][c]
    <3>1. /\ R \subseteq DOMAIN Results /\ IsFiniteSet(R) /\ Lists(cs, v, c, R)
          /\ \A i \in R, j \in R : Results[i].resource = Results[j].resource => i = j
      BY <2>1, <2>2
    <3> HIDE DEF R, cs
    <3>2. \A s : Cardinality({r \in DOMAIN cs.resources : cs.resources[r] = s})
                      = Cardinality({i \in R : Seen(v, c, i).status = s})
      <4> TAKE s
      <4> DEFINE A == {i \in R : Seen(v, c, i).status = s}
                 B == {r \in DOMAIN cs.resources : cs.resources[r] = s}
      <4>1. A \in SUBSET R /\ B = {Results[i].resource : i \in A}
        BY <3>1 DEF Lists
      <4> HIDE DEF A, B
      <4>2. Cardinality(B) = Cardinality(A)
        BY <3>1, <4>1, ImageCount
      <4>3. QED
        BY <4>2 DEF A, B
    <3>3. QED
      BY <3>2 DEF R, cs
  <2>4. \A s \in Tallied :
          /\ summary[v][c].tally[s] = Cardinality({i \in ResultsOf(c) : Seen(v, c, i).status = s})
          /\ summary[v][c].tally[s]
              = Cardinality({r \in DOMAIN summary[v][c].resources : summary[v][c].resources[r] = s})
    BY <2>1, <2>3 DEF Counts
  <2>5. /\ summary[v][c].ignored = Cardinality({i \in ResultsOf(c) :
                  Seen(v, c, i) \in {Info(StatusPassed, SubStatusException)}})
        /\ summary[v][c].acknowledged = Cardinality({i \in ResultsOf(c) :
                  Seen(v, c, i) \in {Info(StatusFailed, SubStatusException)}})
    BY <2>1 DEF Counts
  <2>6. QED
    BY ONLY <2>4, <2>5 DEF ControlCountersMatch
<1>3. QED
  BY <1>1, <1>2 DEF CountersCount

(* Every counter of the summary counts what it says, whatever was appended   *)
(* and whenever the summary was closed (AppendResourceResult,                *)
(* InitResourcesSummary).                                                    *)
THEOREM CountersCorrect == Spec => []CountersMatchResources
<1>1. Init => CInv
  BY InitCInv
<1>2. IInv /\ IInv' /\ CInv /\ [Next]_vars => CInv'
  BY CountsStep
<1>3. TypeOK /\ CInv => CountersMatchResources
  BY CountersFollow DEF CountersMatchResources
<1>4. QED
  BY <1>1, <1>2, <1>3, StrengtheningInvariant, TypeCorrect, PTL DEF Spec

-----------------------------------------------------------------------------
(* The severity counters.  Initially no control has failed.                  *)
LEMMA SeverityIsFinite ==
    ASSUME NEW s
    PROVE  OfSeverity(s) \subseteq Controls /\ IsFiniteSet(OfSeverity(s))
BY ControlsAssumption, FS_Subset DEF OfSeverity

LEMMA FailuresAreCounts == Shape => Failures \in [Controls -> Nat]
<1> SUFFICES ASSUME Shape PROVE Failures \in [Controls -> Nat]
  OBVIOUS
<1>1. ASSUME NEW c \in Controls PROVE summary[Report][c].tally[StatusFailed] \in Nat
  <2>1. Report \in Views /\ c \in ControlsOf(Report)
    BY ViewsHaveControls
  <2>2. summary[Report][c].tally \in [Tallied -> Nat]
    BY <2>1 DEF Shape, ControlOK
  <2>3. StatusFailed \in Tallied
    BY DEF Tallied
  <2> QED
    BY <2>2, <2>3
<1>2. QED
  BY <1>1 DEF Failures

LEMMA InitSeverity == Init => SeverityMatchesFailures
<1> SUFFICES ASSUME Init, NEW s \in Severities
             PROVE  SumFunctionOnSet(Failures, OfSeverity(s)) = 0
  BY DEF SeverityMatchesFailures, Init
<1>1. \A c \in OfSeverity(s) : Failures[c] = 0
  BY SeverityIsFinite, ViewsHaveControls DEF Init, Failures, NewControl, ZeroTally, Tallied
<1>2. QED
  BY <1>1, SeverityIsFinite, SumOfZeros

(* Appending a result: the first pass raises the failed counter of exactly    *)
(* the controls that the second pass counts.                                 *)
LEMMA AppendFails ==
    ASSUME Shape, NEW i \in DOMAIN Results, AppendResourceResult(i), NEW s, NEW c \in OfSeverity(s)
    PROVE  Failures'[c] = Failures[c] + IF c \in FailedIn(Results[i], s) THEN 1 ELSE 0
<1>1. c \in Controls /\ Report \in Views /\ c \in ControlsOf(Report) /\ Severity[c] = s
  BY ViewsHaveControls DEF OfSeverity
<1>2. /\ Failures[c] = summary[Report][c].tally[StatusFailed]
      /\ Failures'[c] = summary'[Report][c].tally[StatusFailed]
      /\ Failures[c] \in Nat
  BY <1>1, FailuresAreCounts DEF Failures
<1>3. CASE c \notin DOMAIN Results[i].views
  <2>1. c \notin FailedIn(Results[i], s)
    BY <1>3 DEF FailedIn
  <2>2. summary'[Report][c] = summary[Report][c]
    BY <1>1, <1>3, AppendUntouched
  <2>3. QED
    BY <1>2, <2>1, <2>2
<1>4. CASE c \in DOMAIN Results[i].views
  <2>1. c \in FailedIn(Results[i], s) <=> Seen(Report, c, i).status = StatusFailed
    BY <1>1, <1>4 DEF FailedIn, Seen, FilterOf, frameworksByControl
  <2>2. /\ Seen(Report, c, i).status \in Tallied
        /\ summary'[Report][c].tally
              = [summary[Report][c].tally EXCEPT ![Seen(Report, c, i).status] = @ + 1]
    BY <1>1, <1>4, AppendTouched
  <2>3. summary[Report][c].tally \in [Tallied -> Nat] /\ StatusFailed \in Tallied
    BY <1>1 DEF Shape, ControlOK, Tallied
  <2>4. QED
    BY <1>2, <2>1, <2>2, <2>3
<1>5. QED
  BY <1>3, <1>4

LEMMA AppendKeepsSeverity ==
    ASSUME Shape, SeverityMatchesFailures, NEW i \in DOMAIN Results, AppendResourceResult(i)
    PROVE  SeverityMatchesFailures'
<1> SUFFICES ASSUME NEW s \in Severities
             PROVE  resourcesSeverity'[s] = SumFunctionOnSet(Failures', OfSeverity(s))
  BY DEF SeverityMatchesFailures, OfSeverity
<1>1. resourcesSeverity'[s] = resourcesSeverity[s] + Cardinality(FailedIn(Results[i], s))
  BY DEF AppendResourceResult
<1>2. FailedIn(Results[i], s) \in SUBSET OfSeverity(s)
  BY ResultsAssumption DEF FailedIn, OfSeverity
<1>3. \A c \in OfSeverity(s) :
         /\ Failures[c] \in Int
         /\ Failures'[c] = Failures[c] + IF c \in FailedIn(Results[i], s) THEN 1 ELSE 0
  BY AppendFails, FailuresAreCounts, SeverityIsFinite
<1>4. SumFunctionOnSet(Failures', OfSeverity(s))
        = SumFunctionOnSet(Failures, OfSeverity(s)) + Cardinality(FailedIn(Results[i], s))
  BY <1>2, <1>3, SeverityIsFinite, SumRaised
<1>5. QED
  BY <1>1, <1>4 DEF SeverityMatchesFailures

(* Every step keeps the two passes in agreement.                             *)
LEMMA SeverityStep == IInv /\ SeverityMatchesFailures /\ [Next]_vars => SeverityMatchesFailures'
<1> SUFFICES ASSUME IInv, SeverityMatchesFailures, [Next]_vars PROVE SeverityMatchesFailures'
  OBVIOUS
<1>1. ASSUME NEW i \in DOMAIN Results, AppendResourceResult(i) PROVE SeverityMatchesFailures'
  BY <1>1, AppendKeepsSeverity DEF IInv
<1>2. ASSUME NEW infos \in ControlInfos, InitResourcesSummary(infos)
      PROVE  SeverityMatchesFailures'
  <2>1. \A c \in Controls : summary'[Report][c].tally = summary[Report][c].tally
    BY <1>2, InitializeStep, ViewsHaveControls DEF IInv
  <2>2. Failures' = Failures
    BY <2>1 DEF Failures
  <2>3. resourcesSeverity' = resourcesSeverity
    BY <1>2 DEF InitResourcesSummary
  <2>4. QED
    BY <2>2, <2>3 DEF SeverityMatchesFailures, OfSeverity
<1>3. CASE UNCHANGED vars
  BY <1>3 DEF vars, SeverityMatchesFailures, Failures, OfSeverity
<1>4. QED
  BY <1>1, <1>2, <1>3 DEF Next

(* The two passes over each result agree: for every set of controls and      *)
(* score factors, a severity counter of the report is the number of failures  *)
(* its control summaries of that severity show.                              *)
THEOREM SeverityCorrect == Spec => []SeverityMatchesFailures
<1>1. IInv /\ SeverityMatchesFailures /\ [Next]_vars => SeverityMatchesFailures'
  BY SeverityStep
<1>2. QED
  BY <1>1, InitSeverity, StrengtheningInvariant, PTL DEF Spec

-----------------------------------------------------------------------------
(* Scores and readers of the summary.                                         *)
(* The operators of the fold are those of the report.                        *)
LEMMA FoldSubStatus ==
    ASSUME NEW v, NEW s, NEW S
    PROVE  Fold(v)!SubStatusFor(s, S) = SubStatusFor(s, S)
BY DEF Fold!SubStatusFor, Fold!FailedSubStatus, Fold!PassedSubStatus, Fold!SkippedSubStatus,
       Fold!Prefer, Fold!StatusFailed, Fold!StatusPassed, Fold!StatusSkipped, Fold!SubStatusUnknown,
       Fold!SubStatusException, Fold!SubStatusIrrelevant, Fold!SubStatusConfiguration,
       Fold!SubStatusIntegration, Fold!SubStatusRequiresReview, Fold!SubStatusManualReview,
       Fold!SubStatusNotEvaluated, Fold!SubStatusIncompleteCoverage,
       SubStatusFor, FailedSubStatus, PassedSubStatus, SkippedSubStatus,
       Prefer, StatusFailed, StatusPassed, StatusSkipped, SubStatusUnknown,
       SubStatusException, SubStatusIrrelevant, SubStatusConfiguration,
       SubStatusIntegration, SubStatusRequiresReview, SubStatusManualReview,
       SubStatusNotEvaluated, SubStatusIncompleteCoverage

LEMMA FoldCombined ==
    ASSUME NEW v, NEW a, NEW b
    PROVE  Fold(v)!Combined(a, b) = CompareStatusAndSubStatus(Info(shown, a), Info(shown, b)).sub
<1>1. \A s, S : Fold(v)!SubStatusFor(s, S) = SubStatusFor(s, S)
  BY FoldSubStatus
<1>2. \A s, t : Fold(v)!Compare(s, t) = Compare(s, t)
  BY DEF Fold!Compare, Fold!StatusFailed, Fold!StatusSkipped, Fold!StatusPassed, Fold!StatusUnknown,
         Compare, StatusFailed, StatusSkipped, StatusPassed, StatusUnknown
<1>3. QED
  BY <1>1, <1>2 DEF Fold!Combined, Fold!CompareStatusAndSubStatus, Fold!Info,
                    CompareStatusAndSubStatus, Info

(* A step of the loop extends what the fold stands for by one control.       *)
LEMMA FoldAbsorbs ==
    ASSUME NEW v, shown \in Tallied, NEW S, NEW x
    PROVE  Fold(v)!Combined(SubStatusFor(shown, S), x) = SubStatusFor(shown, S \union {x})
<1>1. Fold(v)!Combined(SubStatusFor(shown, S), x)
        = SubStatusFor(shown, {SubStatusFor(shown, S), x})
  <2>1. Fold(v)!Combined(SubStatusFor(shown, S), x)
          = CompareStatusAndSubStatus(Info(shown, SubStatusFor(shown, S)), Info(shown, x)).sub
    BY FoldCombined
  <2>2. \A a, b : CompareStatusAndSubStatus(Info(shown, a), Info(shown, b)).sub
                    = SubStatusFor(shown, {a, b})
    BY ComparedSubStatus DEF Tallied
  <2>3. QED
    BY <2>1, <2>2
<1>2. SubStatusFor(shown, {SubStatusFor(shown, S), x}) = SubStatusFor(shown, S \union {x})
  BY FailedAbsorbs, PassedAbsorbs, SkippedAbsorbs, StatusesDiffer DEF SubStatusFor, Tallied
<1>3. QED
  BY <1>1, <1>2

(* The loop on its own: after any part of it, over any map of controls and in *)
(* any order, the sub status is the most significant one of those visited.    *)
THEOREM SummaryIsOrderIndependent ==
    ASSUME NEW v
    PROVE  Fold(v)!Spec => []Fold(v)!OrderIndependent
<1> DEFINE LoopOK == /\ shown \in Tallied
                     /\ todo \subseteq ControlsOf(v)
                     /\ subStatus = SubStatusFor(shown, {subOf[c] : c \in ControlsOf(v) \ todo})
<1>1. Fold(v)!Init => LoopOK
  <2> SUFFICES ASSUME Fold(v)!Init PROVE LoopOK
    OBVIOUS
  <2>1. shown \in Tallied /\ todo = ControlsOf(v) /\ subStatus = SubStatusUnknown
    BY DEF Fold!Init, Tallied, Fold!StatusPassed, Fold!StatusFailed, Fold!StatusSkipped,
           StatusPassed, StatusFailed, StatusSkipped, Fold!SubStatusUnknown, SubStatusUnknown
  <2>2. {subOf[c] : c \in ControlsOf(v) \ todo} = {}
    BY <2>1
  <2>3. QED
    BY <2>1, <2>2, SummaryOfNone
<1>2. LoopOK /\ [Fold(v)!Next]_(Fold(v)!vars) => LoopOK'
  <2> SUFFICES ASSUME LoopOK, [Fold(v)!Next]_(Fold(v)!vars) PROVE LoopOK'
    OBVIOUS
  <2>1. ASSUME NEW c \in ControlsOf(v), Fold(v)!Visit(c) PROVE LoopOK'
    <3> DEFINE S == {subOf[d] : d \in ControlsOf(v) \ todo}
    <3>1. /\ c \in todo /\ todo' = todo \ {c}
          /\ shown' = shown /\ subOf' = subOf
          /\ subStatus' = Fold(v)!Combined(subStatus, subOf[c])
      BY <2>1 DEF Fold!Visit
    <3>2. {subOf'[d] : d \in ControlsOf(v) \ todo'} = S \union {subOf[c]}
      BY <3>1
    <3>3. subStatus' = SubStatusFor(shown, S \union {subOf[c]})
      BY <3>1, FoldAbsorbs
    <3>4. QED
      BY <3>1, <3>2, <3>3
  <2>2. CASE UNCHANGED Fold(v)!vars
    BY <2>2 DEF Fold!vars
  <2>3. QED
    BY <2>1, <2>2 DEF Fold!Next
<1>3. LoopOK => Fold(v)!OrderIndependent
  BY FoldSubStatus DEF Fold!OrderIndependent
<1>4. QED
  BY <1>1, <1>2, <1>3, PTL DEF Fold!Spec

-----------------------------------------------------------------------------
(* The strengthening: the status of a view is unknown or calculated, and     *)
(* while one is read, it is calculated and the loop is within its controls.  *)
KnownStatuses == Tallied \union {StatusUnknown}

TotalsOK ==
    /\ DOMAIN totals = Views
    /\ \A v \in Views : DOMAIN totals[v] = {"tally", "status"} /\ totals[v].status \in KnownStatuses

Visited(v) == {subOf[c] : c \in ControlsOf(v) \ todo}

ReadingOK ==
    reading # Idle =>
        /\ reading \in Views
        /\ shown \in Tallied
        /\ todo \subseteq ControlsOf(reading)
        /\ subStatus = SubStatusFor(shown, Visited(reading))

LEMMA IdleIsNoView == Idle \notin Views
BY IdleAssumption DEF Idle, Views, Report

LEMMA ChangesKeepTotals == TotalsOK /\ (SummaryChanges \/ UNCHANGED vars) => TotalsOK'
<1> SUFFICES ASSUME TotalsOK, SummaryChanges \/ UNCHANGED vars PROVE TotalsOK'
  OBVIOUS
<1>1. \A cs : DOMAIN Total(cs) = {"tally", "status"} /\ Total(cs).status \in KnownStatuses
  BY CalculatedStatus DEF Total, KnownStatuses
<1>2. ASSUME NEW i \in DOMAIN Results, AppendResourceResult(i) PROVE TotalsOK'
  <2>1. totals' = [v \in Views |-> IF v = Report THEN totals[v] ELSE Total(summary'[v])]
    BY <1>2 DEF AppendResourceResult
  <2>2. QED
    BY <1>1, <2>1 DEF TotalsOK
<1>3. ASSUME NEW infos \in ControlInfos, InitResourcesSummary(infos) PROVE TotalsOK'
  <2>1. totals' = [v \in Views |-> Total(summary'[v])]
    BY <1>3 DEF InitResourcesSummary
  <2>2. QED
    BY <1>1, <2>1 DEF TotalsOK
<1>4. CASE UNCHANGED vars
  BY <1>4 DEF vars, TotalsOK
<1>5. QED
  BY <1>2, <1>3, <1>4 DEF SummaryChanges, Next

(* Order independence: whenever GetStatus runs, of a report or a framework,   *)
(* its loop has the first sub status of the status' list among the controls   *)
(* it visited, in every order.                                                *)
THEOREM ReadingIsOrderIndependent == ReadingSpec => []OrderIndependent
<1>1. ReadingInit => TotalsOK /\ ReadingOK
  BY DEF ReadingInit, ScoreInit, Init, TotalsOK, KnownStatuses, ReadingOK
<1>2. TotalsOK /\ ReadingOK /\ [ReadingNext]_<<vars, scores, reader>> => TotalsOK' /\ ReadingOK'
  <2> SUFFICES ASSUME TotalsOK, ReadingOK, [ReadingNext]_<<vars, scores, reader>>
               PROVE  TotalsOK' /\ ReadingOK'
    OBVIOUS
  <2>1. ASSUME UNCHANGED reader PROVE ReadingOK'
    BY <2>1 DEF reader, ReadingOK, Visited
  <2>2. CASE AtRest /\ ScoreNext /\ UNCHANGED reader
    <3>1. SummaryChanges \/ UNCHANGED vars
      BY <2>2 DEF ScoreNext, CalculatePostureReportV2, SetPostureReportComplianceScores
    <3>2. QED
      BY <2>1, <2>2, <3>1, ChangesKeepTotals
  <2>3. ASSUME NEW v \in Views, ReadStatus(v) PROVE TotalsOK' /\ ReadingOK'
    <3>1. CachedStatus(v) \in Tallied
      BY CalculatedStatus DEF CachedStatus, TotalsOK, KnownStatuses
    <3>2. TotalsOK'
      BY <2>3, <3>1 DEF ReadStatus, TotalsOK, KnownStatuses
    <3>3. Visited(v)' = {}
      BY <2>3 DEF ReadStatus, Visited
    <3>4. ReadingOK'
      BY <2>3, <3>1, <3>3, SummaryOfNone DEF ReadStatus, ReadingOK
    <3>5. QED
      BY <3>2, <3>4
  <2>4. ASSUME NEW v \in Views, Step(v) PROVE TotalsOK' /\ ReadingOK'
    <3>1. PICK c \in ControlsOf(v) : Fold(v)!Visit(c)
      BY <2>4 DEF Step
    <3>2. /\ reading = v /\ reading' = v /\ UNCHANGED vars
          /\ c \in todo /\ todo' = todo \ {c}
          /\ shown' = shown /\ subOf' = subOf
          /\ subStatus' = Fold(v)!Combined(subStatus, subOf[c])
      BY <2>4, <3>1 DEF Step, Fold!Visit
    <3>3. /\ shown \in Tallied /\ todo \subseteq ControlsOf(v)
          /\ subStatus = SubStatusFor(shown, Visited(v))
      BY <3>2, IdleIsNoView DEF ReadingOK
    <3>4. Visited(v)' = Visited(v) \union {subOf[c]}
      BY <3>1, <3>2, <3>3 DEF Visited
    <3>5. subStatus' = SubStatusFor(shown', Visited(v)')
      BY <3>2, <3>3, <3>4, FoldAbsorbs
    <3>6. TotalsOK'
      BY <3>2, ChangesKeepTotals
    <3>7. ReadingOK'
      BY <3>2, <3>3, <3>5 DEF ReadingOK
    <3>8. QED
      BY <3>6, <3>7
  <2>5. CASE Answer
    <3>1. ReadingOK'
      BY <2>5 DEF Answer, ReadingOK
    <3>2. QED
      BY <2>5, <3>1, ChangesKeepTotals DEF Answer
  <2>6. CASE UNCHANGED <<vars, scores, reader>>
    BY <2>1, <2>6, ChangesKeepTotals
  <2>7. QED
    BY <2>2, <2>3, <2>4, <2>5, <2>6 DEF ReadingNext
<1>3. ReadingOK => OrderIndependent
  <2> SUFFICES ASSUME ReadingOK, NEW v \in Views, reading = v PROVE Fold(v)!OrderIndependent
    BY DEF OrderIndependent
  <2>1. subStatus = SubStatusFor(shown, Visited(v))
    BY IdleIsNoView DEF ReadingOK
  <2>2. QED
    BY <2>1, FoldSubStatus DEF Fold!OrderIndependent, Visited
<1>4. QED
  BY <1>1, <1>2, <1>3, PTL DEF ReadingSpec
-----------------------------------------------------------------------------
(* The summary under the scores and the readers: between the steps of        *)
(* ReportSummary, the only thing of the summary that changes is a status of  *)
(* a view that GetStatus fills in.                                           *)
SummaryInv == IInv /\ CountersOK /\ CInv /\ SubStatusIsMostSpecific /\ SeverityMatchesFailures

OnlyStatuses ==
    /\ UNCHANGED <<summary, resourcesSeverity, controlsSeverity, appended, inits, settled, preset>>
    /\ totals' \in [Views -> [tally : [Tallied -> Nat], status : ScanningStatus]]
    /\ \A v \in Views : totals'[v].tally = totals[v].tally

LEMMA InitSummary == Init => SummaryInv
BY InitIInv, InitCounters, InitCInv, InitSubStatus, InitSeverity DEF SummaryInv

LEMMA SummaryStep == SummaryInv /\ [Next]_vars => SummaryInv'
<1> SUFFICES ASSUME SummaryInv, [Next]_vars PROVE SummaryInv'
  OBVIOUS
<1>1. IInv'
  BY StrengtheningStep DEF SummaryInv
<1>2. QED
  BY <1>1, CountersStep, CountsStep, SubStatusStep, SeverityStep DEF SummaryInv

LEMMA StatusesKeepSummary == SummaryInv /\ OnlyStatuses => SummaryInv'
<1> SUFFICES ASSUME SummaryInv, OnlyStatuses PROVE SummaryInv'
  OBVIOUS
<1>1. /\ summary' = summary /\ appended' = appended /\ preset' = preset /\ settled' = settled
      /\ \A c : ResultsOf(c)' = ResultsOf(c)
  BY DEF OnlyStatuses, ResultsOf
<1>2. IInv'
  <2>1. Shape'
    BY <1>1 DEF SummaryInv, IInv, Shape, Counted
  <2>2. TalliesShowResults'
    <3> SUFFICES ASSUME NEW v \in Views, NEW c \in ControlsOf(v), NEW s \in Tallied
                 PROVE  summary'[v][c].tally[s] # 0
                            <=> \E i \in ResultsOf(c)' : Seen(v, c, i).status = s
      BY DEF TalliesShowResults, Seen
    <3>1. QED
      BY <1>1 DEF SummaryInv, IInv, TalliesShowResults
  <2>3. \A c : Calculates(c)' <=> Calculates(c)
    BY <1>1 DEF Calculates
  <2>4. StatusesInStep' /\ UnsetAreCalculated'
    BY <1>1, <2>3 DEF SummaryInv, IInv, StatusesInStep, UnsetAreCalculated
  <2>5. QED
    BY <2>1, <2>2, <2>4 DEF IInv
<1>3. CountersOK'
  BY DEF SummaryInv, CountersOK, OnlyStatuses
<1>4. CInv'
  <2>1. OneResultEach' /\ SummariesCount'
    BY <1>1 DEF SummaryInv, CInv, OneResultEach, SummariesCount
  <2>2. TotalsCount'
    BY <1>1 DEF SummaryInv, CInv, TotalsCount, OnlyStatuses
  <2>3. QED
    BY <2>1, <2>2 DEF CInv
<1>5. SubStatusIsMostSpecific'
  <2> SUFFICES ASSUME NEW v \in Views, NEW c \in ControlsOf(v) \ preset PROVE MostSpecific(v, c)'
    BY <1>1 DEF SubStatusIsMostSpecific, MostSpecific, Reported, Seen
  <2>1. MostSpecific(v, c)
    BY MostSpecificEverywhere DEF SummaryInv
  <2>2. \A s : Reported(v, c, s)' = Reported(v, c, s)
    BY <1>1 DEF Reported, Seen
  <2>3. QED
    BY <1>1, <2>1, <2>2 DEF MostSpecific
<1>6. SeverityMatchesFailures'
  BY DEF SummaryInv, SeverityMatchesFailures, Failures, OfSeverity, OnlyStatuses
<1>7. QED
  BY <1>2, <1>3, <1>4, <1>5, <1>6 DEF SummaryInv

LEMMA ReadingSteps ==
    ASSUME SummaryInv, [ReadingNext]_<<vars, scores, reader>>
    PROVE  ScoreNext \/ (OnlyStatuses /\ UNCHANGED scores)
<1>1. totals \in [Views -> [tally : [Tallied -> Nat], status : ScanningStatus]]
  BY DEF SummaryInv, CountersOK
<1>2. ASSUME UNCHANGED vars PROVE OnlyStatuses
  BY <1>1, <1>2 DEF OnlyStatuses, vars
<1>3. ASSUME NEW v \in Views, ReadStatus(v) PROVE OnlyStatuses /\ UNCHANGED scores
  <2>1. CachedStatus(v) \in ScanningStatus
    BY <1>1, CalculatedStatus, TalliedAreStatuses DEF CachedStatus
  <2>2. totals' = [totals EXCEPT ![v].status = CachedStatus(v)]
    BY <1>3 DEF ReadStatus
  <2>3. QED
    BY <1>1, <1>3, <2>1, <2>2 DEF ReadStatus, OnlyStatuses
<1>4. QED
  BY <1>2, <1>3 DEF ReadingNext, Step, Answer

LEMMA ScoreSteps == ScoreNext => SummaryChanges \/ UNCHANGED vars
BY DEF ScoreNext, CalculatePostureReportV2, SetPostureReportComplianceScores

LEMMA ReadingKeepsSummary ==
    SummaryInv /\ [ReadingNext]_<<vars, scores, reader>> => SummaryInv'
<1> SUFFICES ASSUME SummaryInv, [ReadingNext]_<<vars, scores, reader>> PROVE SummaryInv'
  OBVIOUS
<1>1. CASE OnlyStatuses
  BY <1>1, StatusesKeepSummary
<1>2. CASE ScoreNext
  <2>1. [Next]_vars
    BY <1>2, ScoreSteps DEF SummaryChanges
  <2>2. QED
    BY <2>1, SummaryStep
<1>3. QED
  BY <1>1, <1>2, ReadingSteps

(* What holds of a summary while it is built holds when scores are           *)
(* calculated and statuses read in between.                                  *)
THEOREM SummaryCorrect ==
    ReadingSpec => [](/\ TypeOK /\ CountersMatchResources /\ SeverityMatchesFailures
                      /\ AggregateIsWorstFramework /\ SubStatusIsMostSpecific)
<1>1. ReadingInit => SummaryInv
  BY InitSummary DEF ReadingInit, ScoreInit
<1>2. SummaryInv => /\ TypeOK /\ CountersMatchResources /\ SeverityMatchesFailures
                    /\ AggregateIsWorstFramework /\ SubStatusIsMostSpecific
  BY TypeFollows, CountersFollow, WorstFramework DEF SummaryInv, CountersMatchResources
<1>3. QED
  BY <1>1, <1>2, ReadingKeepsSummary, PTL DEF ReadingSpec

-----------------------------------------------------------------------------
(* Weights and percentages.                                                  *)
LEMMA WorkloadWeighs ==
    ASSUME NEW w \in [replicas : Nat, desired : Nat]
    PROVE  processWorkload(w) \in Nat \ {0}
<1> DEFINE a == IF w.replicas > 1 THEN 11 * w.replicas ELSE 10
           b == IF w.desired > 0 THEN w.desired ELSE 1
<1>1. a \in Nat /\ b \in Nat /\ a > 0 /\ b > 0
  OBVIOUS
<1>2. processWorkload(w) = a * b
  BY DEF processWorkload
<1> HIDE DEF a, b
<1>3. a * b \in Nat /\ a * b # 0
  BY <1>1
<1>4. QED
  BY <1>2, <1>3

LEMMA ResourceWeighs == \A r \in DOMAIN Object : Weights[r] \in Nat \ {0}
<1> SUFFICES ASSUME NEW r \in DOMAIN Object PROVE Weights[r] \in Nat \ {0}
  OBVIOUS
<1> DEFINE ws == {processWorkload(w) : w \in Object[r]}
           S == {10} \union ws
<1>1. IsFiniteSet(Object[r]) /\ \A w \in Object[r] : processWorkload(w) \in Nat \ {0}
  BY ObjectAssumption, WorkloadWeighs
<1>2. IsFiniteSet(ws)
  <2> DEFINE f == [w \in Object[r] |-> processWorkload(w)]
  <2>1. f \in Surjection(Object[r], ws)
    BY DEF Surjection
  <2> HIDE DEF f, ws
  <2>2. QED
    BY <1>1, <2>1, FS_Surjection
<1>3. S \subseteq Nat \ {0} /\ S # {}
  BY <1>1
<1>4. IsFiniteSet(S)
  <2> HIDE DEF ws
  <2>1. IsFiniteSet(ws \union {10})
    BY <1>2, FS_AddElement
  <2>2. QED
    BY <2>1
<1>5. Weights[r] = Max(S)
  BY DEF Weights, GetScore
<1> HIDE DEF S
<1>6. QED
  BY <1>3, <1>4, <1>5, MaxOfFinite

LEMMA PercentBounds ==
    ASSUME NEW u \in Nat, NEW w \in Nat, u <= w
    PROVE  /\ Percent(u, w) \in 0 .. 100
           /\ w > 0 => Percent(u, w) * w <= 100 * u /\ 100 * u < (Percent(u, w) + 1) * w
<1>1. CASE w = 0
  BY <1>1 DEF Percent
<1>2. CASE w > 0
  <2> DEFINE a == u * 100
             p == a \div w
  <2>1. a \in Nat /\ a = 100 * u /\ a <= 100 * w
    OBVIOUS
  <2>2. Percent(u, w) = p
    BY <1>2 DEF Percent
  <2> HIDE DEF a
  <2>3. p \in Nat /\ p * w <= a /\ a < (p + 1) * w
    BY <1>2, <2>1
  <2> HIDE DEF p
  <2>4. p <= 100
    <3> SUFFICES ASSUME p >= 101 PROVE FALSE
      BY <2>3
    <3>1. 101 * w <= p * w
      BY <2>3
    <3>2. QED
      BY <1>2, <2>1, <2>3, <3>1
  <2>5. QED
    BY <2>1, <2>2, <2>3, <2>4
<1>3. QED
  BY <1>1, <1>2

(* What a control weighs, and what of it fails.                              *)
LEMMA ControlWeighs ==
    ASSUME Shape, NEW known \in ResourceMaps, NEW v \in Views, NEW c \in ControlsOf(v)
    PROVE  /\ Unnormalized(v, c, known) \in Nat
           /\ Wcs(v, c, known) \in Nat
           /\ Unnormalized(v, c, known) <= Wcs(v, c, known)
<1> DEFINE A == known \intersect DOMAIN summary[v][c].resources
           B == {r \in A : summary[v][c].resources[r] = StatusFailed}
           k == ScoreFactor[c]
<1>1. IsFiniteSet(A)
  BY FS_Subset DEF Shape
<1>2. \A r \in A : Weights[r] \in Nat
  BY ResourceWeighs, ResourceMapsAssumption
<1>3. B \in SUBSET A
  OBVIOUS
<1>4. k \in Nat
  BY ViewsHaveControls, ScoreFactorAssumption
<1>5. Unnormalized(v, c, known) = k * Weigh(B) /\ Wcs(v, c, known) = k * Weigh(A)
  BY DEF Unnormalized, Wcs
<1> HIDE DEF A, B, k
<1>6. Weigh(A) \in Nat /\ Weigh(B) \in 0 .. Weigh(A)
  <2>1. Weigh(A) \in Int
    BY <1>1, <1>2, SumType DEF Weigh
  <2>2. \A C \in SUBSET A : Weigh(C) \in 0 .. Weigh(A)
    BY <1>1, <1>2, SumOfNaturals DEF Weigh
  <2>3. Weigh(A) \in 0 .. Weigh(A)
    BY <2>2
  <2>4. QED
    BY <1>3, <2>1, <2>2, <2>3
<1>7. /\ k * Weigh(B) \in Nat /\ k * Weigh(A) \in Nat
      /\ k * Weigh(B) <= k * Weigh(A)
  <2> DEFINE a == Weigh(A)
             b == Weigh(B)
  <2>1. a \in Nat /\ b \in Nat /\ b <= a
    BY <1>6
  <2> HIDE DEF a, b
  <2>2. k * b \in Nat /\ k * a \in Nat /\ k * b <= k * a
    BY <1>4, <2>1
  <2>3. QED
    BY <2>2 DEF a, b
<1>8. QED
  BY <1>5, <1>7

(* The summands of the totals of a view. *)
ControlsFailed(v, known) == [c \in ControlsOf(v) |-> Unnormalized(v, c, known)]
ControlsWeighed(v, known) == [c \in ControlsOf(v) |-> Wcs(v, c, known)]

LEMMA SumOverControls ==
    ASSUME NEW v \in Views
    PROVE  /\ IsFiniteSet(ControlsOf(v))
           /\ \A known : TotalUnnormalized(v, known)
                            = SumFunctionOnSet(ControlsFailed(v, known), ControlsOf(v))
           /\ \A known : TotalWcs(v, known)
                            = SumFunctionOnSet(ControlsWeighed(v, known), ControlsOf(v))
<1>1. IsFiniteSet(ControlsOf(v))
  BY ViewsHaveControls, ControlsAssumption, FS_Subset
<1>2. QED
  BY <1>1 DEF TotalUnnormalized, TotalWcs, ControlsFailed, ControlsWeighed, SumFunction

LEMMA TotalsWeigh ==
    ASSUME Shape, NEW known \in ResourceMaps, NEW v \in Views
    PROVE  /\ TotalUnnormalized(v, known) \in Nat
           /\ TotalWcs(v, known) \in Nat
           /\ TotalUnnormalized(v, known) <= TotalWcs(v, known)
           /\ \A c \in ControlsOf(v) : Wcs(v, c, known) <= TotalWcs(v, known)
<1> DEFINE S == ControlsOf(v)
           f == ControlsFailed(v, known)
           g == ControlsWeighed(v, known)
           F == SumFunctionOnSet(f, S)
           G == SumFunctionOnSet(g, S)
<1>1. IsFiniteSet(S) /\ TotalUnnormalized(v, known) = F /\ TotalWcs(v, known) = G
  BY SumOverControls
<1>2. \A c \in S : f[c] \in Nat /\ g[c] \in Nat /\ 1 * f[c] <= 1 * g[c] /\ g[c] = Wcs(v, c, known)
  BY ControlWeighs DEF ControlsFailed, ControlsWeighed
<1> HIDE DEF S, f, g
<1>3. F \in Int /\ G \in Int /\ 1 * F <= 1 * G
  BY <1>1, <1>2, SumType, SumScaled
<1>4. F \in 0 .. F /\ G \in 0 .. G
  BY <1>1, <1>2, SumOfNaturals
<1>5. ASSUME NEW c \in S PROVE g[c] <= G
  <2>1. G = g[c] + SumFunctionOnSet(g, S \ {c})
    BY <1>1, <1>2, SumWithout
  <2>2. SumFunctionOnSet(g, S \ {c}) \in 0 .. G
    BY <1>1, <1>2, SumOfNaturals
  <2> HIDE DEF G
  <2>3. QED
    BY <1>2, <1>3, <2>1, <2>2
<1> HIDE DEF F, G
<1>6. QED
  BY <1>1, <1>2, <1>3, <1>4, <1>5 DEF S

LEMMA ControlPercent ==
    ASSUME Shape, NEW known \in ResourceMaps, NEW v \in Views, NEW c \in ControlsOf(v)
    PROVE  LET p == ControlScores(v, known)[c]
               u == Unnormalized(v, c, known)
               w == Wcs(v, c, known)
           IN  /\ p \in 0 .. 100
               /\ w > 0 => p * w <= 100 * u /\ 100 * u < (p + 1) * w
<1>1. ControlScores(v, known)[c] = Percent(Unnormalized(v, c, known), Wcs(v, c, known))
  BY DEF ControlScores
<1>2. QED
  BY <1>1, ControlWeighs, PercentBounds

LEMMA ViewPercent ==
    ASSUME Shape, NEW known \in ResourceMaps, NEW v \in Views
    PROVE  LET p == ViewScore(v, known)
               u == TotalUnnormalized(v, known)
               w == TotalWcs(v, known)
           IN  /\ p \in 0 .. 100
               /\ w > 0 => p * w <= 100 * u /\ 100 * u < (p + 1) * w
BY TotalsWeigh, PercentBounds DEF ViewScore

(* The score of a view lies between those of its controls that weigh         *)
(* anything: otherwise all of them lie on one side of it, and so does the    *)
(* quotient of the sums.                                                     *)
LEMMA ViewIsMean ==
    ASSUME Shape, NEW known \in ResourceMaps, NEW v \in Views,
           NEW z \in ControlsOf(v), Wcs(v, z, known) > 0
    PROVE  /\ TotalWcs(v, known) > 0
           /\ \E c \in ControlsOf(v) : /\ Wcs(v, c, known) > 0
                                       /\ ControlScores(v, known)[c] <= ViewScore(v, known)
           /\ \E c \in ControlsOf(v) : /\ Wcs(v, c, known) > 0
                                       /\ ControlScores(v, known)[c] >= ViewScore(v, known)
<1> DEFINE S == ControlsOf(v)
           f == ControlsFailed(v, known)
           g == ControlsWeighed(v, known)
           p(c) == ControlScores(v, known)[c]
           q == ViewScore(v, known)
           F == TotalUnnormalized(v, known)
           G == TotalWcs(v, known)
<1>1. /\ IsFiniteSet(S)
      /\ F = SumFunctionOnSet(f, S)
      /\ G = SumFunctionOnSet(g, S)
  BY SumOverControls
<1>2. F \in Nat /\ G \in Nat /\ F <= G /\ G > 0
  <2>1. G \in Nat /\ Wcs(v, z, known) \in Nat /\ Wcs(v, z, known) <= G
    BY TotalsWeigh, ControlWeighs
  <2>2. QED
    BY <2>1, TotalsWeigh
<1>3. ASSUME NEW c \in S
      PROVE  /\ f[c] \in Nat /\ g[c] \in Nat /\ f[c] <= g[c] /\ g[c] = Wcs(v, c, known)
             /\ p(c) \in 0 .. 100
             /\ g[c] > 0 => p(c) * g[c] <= 100 * f[c] /\ 100 * f[c] < (p(c) + 1) * g[c]
  BY ControlWeighs, ControlPercent DEF ControlsFailed, ControlsWeighed
<1>4. q \in 0 .. 100 /\ q * G <= 100 * F /\ 100 * F < (q + 1) * G
  BY <1>2, ViewPercent
<1>5. z \in S /\ g[z] > 0
  BY <1>3
<1> HIDE DEF S, f, g, p, q, F, G
<1>6. ASSUME \A c \in S : g[c] > 0 => p(c) > q PROVE FALSE
  <2>1. ASSUME NEW c \in S PROVE (q + 1) * g[c] <= 100 * f[c]
    <3>1. CASE g[c] = 0
      BY <1>3, <1>4, <3>1
    <3>2. CASE g[c] > 0
      <4>1. q + 1 <= p(c) /\ p(c) * g[c] <= 100 * f[c]
        BY <1>3, <1>4, <1>6, <3>2
      <4>2. (q + 1) * g[c] <= p(c) * g[c]
        BY <1>3, <1>4, <4>1
      <4>3. p(c) * g[c] \in Nat /\ (q + 1) * g[c] \in Nat
        BY <1>3, <1>4
      <4>4. QED
        BY <1>3, <4>1, <4>2, <4>3
    <3>3. QED
      BY <1>3, <3>1, <3>2
  <2>2. q + 1 \in Nat
    BY <1>4
  <2>3. (q + 1) * SumFunctionOnSet(g, S) <= 100 * SumFunctionOnSet(f, S)
    BY <1>1, <1>3, <2>1, <2>2, SumScaled, ZenonT(30)
  <2>4. (q + 1) * G \in Nat
    BY <1>2, <2>2
  <2>5. QED
    BY <1>1, <1>2, <1>4, <2>3, <2>4
<1>7. ASSUME \A c \in S : g[c] > 0 => p(c) < q PROVE FALSE
  <2>1. ASSUME NEW c \in S
        PROVE  100 * f[c] <= q * g[c] /\ (g[c] > 0 => 100 * f[c] < q * g[c])
    <3>1. CASE g[c] = 0
      BY <1>3, <1>4, <3>1
    <3>2. CASE g[c] > 0
      <4>1. p(c) + 1 <= q /\ 100 * f[c] < (p(c) + 1) * g[c]
        BY <1>3, <1>4, <1>7, <3>2
      <4>2. (p(c) + 1) * g[c] <= q * g[c]
        BY <1>3, <1>4, <4>1
      <4>3. (p(c) + 1) * g[c] \in Nat /\ q * g[c] \in Nat
        BY <1>3, <1>4
      <4>4. QED
        BY <1>3, <4>1, <4>2, <4>3
    <3>3. QED
      BY <1>3, <3>1, <3>2
  <2>2. q \in Nat /\ 100 * f[z] < q * g[z]
    BY <1>4, <1>5, <2>1
  <2>3. 100 * SumFunctionOnSet(f, S) < q * SumFunctionOnSet(g, S)
    BY <1>1, <1>3, <1>5, <2>1, <2>2, SumScaledStrictly
  <2>4. q * G \in Nat
    BY <1>2, <2>2
  <2>5. QED
    BY <1>1, <1>2, <1>4, <2>3, <2>4
<1>8. ASSUME NEW c \in S PROVE p(c) \in Int /\ q \in Int
  BY <1>3, <1>4
<1>9. \E c \in S : g[c] > 0 /\ p(c) <= q
  BY <1>6, <1>8
<1>10. \E c \in S : g[c] > 0 /\ p(c) >= q
  BY <1>7, <1>8
<1>11. QED
  BY <1>2, <1>3, <1>9, <1>10 DEF S, p, q, G

-----------------------------------------------------------------------------
(* Compliance scores are percentages.                                        *)
LEMMA ControlComplianceBounds ==
    ASSUME Shape, NEW v \in Views, NEW c \in ControlsOf(v)
    PROVE  ControlCompliance(v, c) \in 0 .. 100
<1> DEFINE D == DOMAIN summary[v][c].resources
           P == {r \in D : summary[v][c].resources[r] = StatusPassed}
<1>1. IsFiniteSet(D)
  <2>1. D \in SUBSET Counted /\ IsFiniteSet(Counted)
    BY DEF Shape
  <2>2. QED
    BY <2>1, FS_Subset
<1>2. P \in SUBSET D
  OBVIOUS
<1>3. ControlCompliance(v, c) = IF summary[v][c].status = StatusPassed THEN 100
                                ELSE Percent(Cardinality(P), Cardinality(D))
  BY DEF ControlCompliance
<1> HIDE DEF D, P
<1>4. Cardinality(P) \in Nat /\ Cardinality(D) \in Nat /\ Cardinality(P) <= Cardinality(D)
  <2>1. IsFiniteSet(P) /\ Cardinality(P) <= Cardinality(D)
    BY <1>1, <1>2, FS_Subset
  <2>2. QED
    BY <1>1, <2>1, FS_CardinalityType
<1>5. Percent(Cardinality(P), Cardinality(D)) \in 0 .. 100
  BY <1>4, PercentBounds
<1>6. QED
  BY <1>3, <1>5

(* The summands of the compliance of a view, and what they count. *)
Compliances(v) == [c \in ControlsOf(v) |-> ControlCompliance(v, c)]
Ones(v) == [c \in ControlsOf(v) |-> 1]

LEMMA ViewComplianceIsMean ==
    ASSUME Shape, NEW v \in Views
    PROVE  LET F == SumFunctionOnSet(Compliances(v), ControlsOf(v))
               n == Cardinality(ControlsOf(v))
           IN  /\ n \in Nat /\ F \in Nat /\ F <= 100 * n
               /\ ControlsOf(v) # {} => n > 0 /\ ViewCompliance(v) = F \div n
               /\ \A z \in ControlsOf(v) : ControlCompliance(v, z) < 100 => F < 100 * n
<1> DEFINE S == ControlsOf(v)
           f == Compliances(v)
           g == Ones(v)
           F == SumFunctionOnSet(f, S)
           n == Cardinality(S)
<1>1. IsFiniteSet(S)
  BY SumOverControls
<1>2. \A c \in S : /\ f[c] \in 0 .. 100 /\ g[c] = 1 /\ f[c] = ControlCompliance(v, c)
                   /\ f[c] \in Nat /\ g[c] \in Nat /\ 1 * f[c] <= 100 * g[c]
  BY ControlComplianceBounds DEF Compliances, Ones
<1>3. S # {} => ViewCompliance(v) = F \div n
  BY <1>1 DEF ViewCompliance, SumFunction, Compliances
<1> HIDE DEF S, f, g
<1>4. n \in Nat /\ (S # {} => n > 0)
  BY <1>1, FS_CardinalityType, FS_EmptySet
<1>5. SumFunctionOnSet(g, S) = 1 * n
  BY <1>1, <1>2, SumOfConstant
<1>6. F \in Nat
  BY <1>1, <1>2, SumOfNaturals, FS_EmptySet, SumType
<1>7. 1 * F <= 100 * SumFunctionOnSet(g, S)
  BY <1>1, <1>2, SumScaled
<1>8. ASSUME NEW z \in S, ControlCompliance(v, z) < 100 PROVE F < 100 * n
  <2>1. 1 * f[z] < 100 * g[z]
    BY <1>2, <1>8
  <2>2. 1 * F < 100 * SumFunctionOnSet(g, S)
    BY <1>1, <1>2, <2>1, SumScaledStrictly
  <2> HIDE DEF F, n
  <2>3. QED
    BY <1>4, <1>5, <1>6, <2>2
<1> HIDE DEF F, n
<1>9. F <= 100 * n
  BY <1>4, <1>5, <1>6, <1>7
<1>10. QED
  BY <1>3, <1>4, <1>6, <1>8, <1>9 DEF S, f, F, n

LEMMA ViewComplianceBounds ==
    ASSUME Shape, NEW v \in Views
    PROVE  /\ ViewCompliance(v) \in 0 .. 100
           /\ ViewCompliance(v) = 100 => \A c \in ControlsOf(v) : ControlCompliance(v, c) = 100
<1>1. CASE ControlsOf(v) = {}
  BY <1>1 DEF ViewCompliance
<1>2. CASE ControlsOf(v) # {}
  <2> DEFINE F == SumFunctionOnSet(Compliances(v), ControlsOf(v))
             n == Cardinality(ControlsOf(v))
  <2>1. /\ n \in Nat /\ F \in Nat /\ F <= 100 * n /\ n > 0 /\ ViewCompliance(v) = F \div n
        /\ \A z \in ControlsOf(v) : ControlCompliance(v, z) < 100 => F < 100 * n
    BY <1>2, ViewComplianceIsMean
  <2> HIDE DEF F, n
  <2> DEFINE q == F \div n
  <2>2. q \in Nat /\ q * n <= F /\ F < (q + 1) * n
    BY <2>1
  <2>3. q = ViewCompliance(v)
    BY <2>1
  <2> HIDE DEF q
  <2>4. q <= 100
    <3> SUFFICES ASSUME q >= 101 PROVE FALSE
      BY <2>2
    <3>1. 101 * n <= q * n
      BY <2>1, <2>2
    <3>2. QED
      BY <2>1, <2>2, <3>1
  <2>5. q = 100 => F = 100 * n
    BY <2>1, <2>2
  <2>6. ASSUME q = 100, NEW c \in ControlsOf(v) PROVE ControlCompliance(v, c) = 100
    <3>1. ~(ControlCompliance(v, c) < 100) /\ ControlCompliance(v, c) \in 0 .. 100
      BY <2>1, <2>5, <2>6, ControlComplianceBounds
    <3>2. QED
      BY <3>1
  <2>7. QED
    BY <2>2, <2>3, <2>4, <2>6
<1>3. QED
  BY <1>1, <1>2

-----------------------------------------------------------------------------
(* What the scores are while a history variable says that they are fresh.    *)
IsScores(s) ==
    /\ s = [view |-> s.view, control |-> s.control]
    /\ s.control = [v \in Views |-> s.control[v]]
    /\ ScoresOK(s)

IsRisk(s, known) ==
    /\ Bad(known) = {}
    /\ \A v \in Views : s.control[v] = ControlScores(v, known)
    /\ \A f \in Frameworks : s.view[f] = FrameworkScore(f, known)
    /\ TotalWcs(Report, known) > 0 => s.view[Report] = ViewScore(Report, known)

ComplianceScores ==
    [view |-> [v \in Views |-> ViewCompliance(v)],
     control |-> [v \in Views |-> [c \in ControlsOf(v) |-> ControlCompliance(v, c)]]]

ScoreInv ==
    /\ IsScores(risk) /\ IsScores(compliance)
    /\ riskBy \in SUBSET ResourceMaps /\ complianceFresh \in BOOLEAN
    /\ \A known \in riskBy : IsRisk(risk, known)
    /\ complianceFresh => compliance = ComplianceScores

LEMMA ReportIsNoFramework ==
    Report \in Views /\ Report \notin Frameworks /\ Frameworks \subseteq Views
BY FrameworksAssumption DEF Views, Report

LEMMA ComplianceIsScores == Shape => IsScores(ComplianceScores)
<1> SUFFICES ASSUME Shape PROVE IsScores(ComplianceScores)
  OBVIOUS
<1>1. \A v \in Views : /\ ViewCompliance(v) \in 0 .. 100
                       /\ [c \in ControlsOf(v) |-> ControlCompliance(v, c)] \in [ControlsOf(v) -> 0 .. 100]
  BY ViewComplianceBounds, ControlComplianceBounds
<1>2. QED
  BY <1>1 DEF IsScores, ScoresOK, ComplianceScores

LEMMA ControlScoresType ==
    ASSUME Shape, NEW known \in ResourceMaps, NEW v \in Views
    PROVE  ControlScores(v, known) \in [ControlsOf(v) -> 0 .. 100]
<1>1. \A c \in ControlsOf(v) : ControlScores(v, known)[c] \in 0 .. 100
  BY ControlPercent
<1>2. QED
  BY <1>1 DEF ControlScores

LEMMA FrameworkScoreType ==
    ASSUME Shape, NEW known \in ResourceMaps, NEW v \in Views
    PROVE  FrameworkScore(v, known) \in 0 .. 100
BY ViewPercent DEF FrameworkScore

(* A calculation leaves percentages, and the scores of the known resources   *)
(* when no framework ended it.                                               *)
LEMMA RiskAfterIsScores ==
    ASSUME Shape, IsScores(risk), NEW known \in ResourceMaps
    PROVE  /\ IsScores(RiskAfter(known))
           /\ Bad(known) = {} => IsRisk(RiskAfter(known), known)
<1> DEFINE view == [v \in Views |->
                IF v \in Reached(known) THEN FrameworkScore(v, known)
                ELSE IF v = Report /\ Bad(known) = {} /\ TotalWcs(Report, known) > 0
                THEN ViewScore(Report, known)
                ELSE risk.view[v]]
           control == [v \in Views |->
                IF v \in Reached(known) \/ (v = Report /\ Bad(known) = {})
                THEN ControlScores(v, known)
                ELSE risk.control[v]]
<1>1. RiskAfter(known) = [view |-> view, control |-> control]
  BY DEF RiskAfter
<1>2. ASSUME NEW v \in Views
      PROVE  view[v] \in 0 .. 100 /\ control[v] \in [ControlsOf(v) -> 0 .. 100]
  <2>1. risk.view[v] \in 0 .. 100 /\ risk.control[v] \in [ControlsOf(v) -> 0 .. 100]
    BY DEF IsScores, ScoresOK
  <2>2. /\ ControlScores(v, known) \in [ControlsOf(v) -> 0 .. 100]
        /\ FrameworkScore(v, known) \in 0 .. 100
        /\ ViewScore(Report, known) \in 0 .. 100
    BY ControlScoresType, FrameworkScoreType, ViewPercent, ReportIsNoFramework
  <2>3. QED
    BY <2>1, <2>2
<1>3. view \in [Views -> 0 .. 100]
  BY <1>2
<1>4. IsScores(RiskAfter(known))
  <2>1. control = [v \in Views |-> control[v]] /\ DOMAIN control = Views
    OBVIOUS
  <2> HIDE DEF view, control
  <2>2. QED
    BY <1>1, <1>2, <1>3, <2>1 DEF IsScores, ScoresOK
<1>5. ASSUME Bad(known) = {} PROVE IsRisk(RiskAfter(known), known)
  <2>1. Reached(known) = Frameworks
    BY <1>5 DEF Reached
  <2>2. /\ \A v \in Views : control[v] = ControlScores(v, known)
        /\ \A f \in Frameworks : view[f] = FrameworkScore(f, known)
        /\ TotalWcs(Report, known) > 0 => view[Report] = ViewScore(Report, known)
    BY <1>5, <2>1, ReportIsNoFramework DEF Views
  <2> HIDE DEF view, control
  <2>3. QED
    BY <1>1, <1>5, <2>2 DEF IsRisk
<1>6. QED
  BY <1>4, <1>5

(* Calculated again, the scores are what they are.                           *)
LEMMA RiskIsStable ==
    ASSUME IsScores(risk), NEW known, IsRisk(risk, known)
    PROVE  RiskAfter(known) = risk
<1> DEFINE view == [v \in Views |->
                IF v \in Reached(known) THEN FrameworkScore(v, known)
                ELSE IF v = Report /\ Bad(known) = {} /\ TotalWcs(Report, known) > 0
                THEN ViewScore(Report, known)
                ELSE risk.view[v]]
           control == [v \in Views |->
                IF v \in Reached(known) \/ (v = Report /\ Bad(known) = {})
                THEN ControlScores(v, known)
                ELSE risk.control[v]]
<1>1. RiskAfter(known) = [view |-> view, control |-> control]
  BY DEF RiskAfter
<1>2. Reached(known) = Frameworks
  BY DEF Reached, IsRisk
<1>3. \A v \in Views : control[v] = risk.control[v]
  BY DEF IsRisk
<1>4. \A v \in Views : view[v] = risk.view[v]
  BY <1>2, ReportIsNoFramework DEF IsRisk, Views
<1>5. risk.view = [v \in Views |-> risk.view[v]] /\ risk.control = [v \in Views |-> risk.control[v]]
  BY DEF IsScores, ScoresOK
<1>6. view = risk.view
  BY <1>4, <1>5
<1>7. control = risk.control
  BY <1>3, <1>5
<1> HIDE DEF view, control
<1>8. QED
  BY <1>1, <1>6, <1>7 DEF IsScores

(* The scores are made of the summary's control summaries.                   *)
LEMMA SameSummary ==
    ASSUME summary' = summary
    PROVE  /\ \A s, known : IsRisk(s, known)' <=> IsRisk(s, known)
           /\ ComplianceScores' = ComplianceScores
<1>1. ASSUME NEW v, NEW c, NEW known
      PROVE  /\ Unnormalized(v, c, known)' = Unnormalized(v, c, known)
             /\ Wcs(v, c, known)' = Wcs(v, c, known)
             /\ ControlCompliance(v, c)' = ControlCompliance(v, c)
  BY DEF Unnormalized, Wcs, ControlCompliance
<1>2. ASSUME NEW v, NEW known
      PROVE  /\ ControlScores(v, known)' = ControlScores(v, known)
             /\ TotalUnnormalized(v, known)' = TotalUnnormalized(v, known)
             /\ TotalWcs(v, known)' = TotalWcs(v, known)
             /\ ViewCompliance(v)' = ViewCompliance(v)
             /\ Irrelevant(v)' = Irrelevant(v)
  BY <1>1 DEF ControlScores, TotalUnnormalized, TotalWcs, ViewCompliance, Irrelevant,
              allControlsInFrameworkIrrelevant
<1>3. ASSUME NEW v, NEW known
      PROVE  /\ ViewScore(v, known)' = ViewScore(v, known)
             /\ FrameworkScore(v, known)' = FrameworkScore(v, known)
             /\ Bad(known)' = Bad(known)
  BY <1>2 DEF ViewScore, FrameworkScore, Bad
<1>4. ASSUME NEW s, NEW known PROVE IsRisk(s, known)' <=> IsRisk(s, known)
  BY <1>2, <1>3 DEF IsRisk
<1>5. ComplianceScores' = ComplianceScores
  BY <1>1, <1>2 DEF ComplianceScores
<1>6. QED
  BY <1>4, <1>5

LEMMA UnscoredIsScores == IsScores(Unscored)
BY DEF IsScores, ScoresOK, Unscored

LEMMA ScoresStayScores == \A s : IsScores(s)' <=> IsScores(s)
BY DEF IsScores, ScoresOK

LEMMA ReadingKeepsScores ==
    SummaryInv /\ ScoreInv /\ [ReadingNext]_<<vars, scores, reader>> => ScoreInv'
<1> SUFFICES ASSUME SummaryInv, ScoreInv, [ReadingNext]_<<vars, scores, reader>> PROVE ScoreInv'
  OBVIOUS
<1>1. ScoreNext \/ (OnlyStatuses /\ UNCHANGED scores)
  BY ReadingSteps
<1>2. CASE OnlyStatuses /\ UNCHANGED scores
  <2>1. summary' = summary /\ risk' = risk /\ compliance' = compliance
        /\ riskBy' = riskBy /\ complianceFresh' = complianceFresh
    BY <1>2 DEF OnlyStatuses, scores
  <2>2. QED
    BY <2>1, SameSummary, ScoresStayScores DEF ScoreInv
<1>3. CASE SummaryChanges
  BY <1>3, ScoresStayScores DEF SummaryChanges, ScoreInv
<1>4. ASSUME NEW known \in ResourceMaps,
             risk' = RiskAfter(known),
             riskBy' = IF Bad(known) = {} THEN {known} ELSE {},
             \/ UNCHANGED <<compliance, complianceFresh>>
             \/ compliance' = ComplianceScores /\ complianceFresh' = TRUE,
             UNCHANGED vars
      PROVE  ScoreInv'
  <2>1. summary' = summary
    BY <1>4 DEF vars
  <2>2. Shape
    BY DEF SummaryInv, IInv
  <2>3. IsScores(risk') /\ (Bad(known) = {} => IsRisk(risk', known))
    BY <1>4, <2>2, RiskAfterIsScores DEF ScoreInv
  <2>4. \A k \in riskBy' : IsRisk(risk', k) /\ k \in ResourceMaps
    BY <1>4, <2>3
  <2>5. /\ IsScores(compliance') /\ complianceFresh' \in BOOLEAN
        /\ complianceFresh' => compliance' = ComplianceScores
    <3>1. CASE UNCHANGED <<compliance, complianceFresh>>
      <4>1. compliance' = compliance /\ complianceFresh' = complianceFresh
        BY <3>1
      <4>2. QED
        BY <4>1 DEF ScoreInv
    <3>2. CASE compliance' = ComplianceScores /\ complianceFresh' = TRUE
      <4>1. IsScores(ComplianceScores)
        BY <2>2, ComplianceIsScores
      <4>2. QED
        BY <3>2, <4>1
    <3>3. QED
      BY <1>4, <3>1, <3>2
  <2>6. (\A k \in riskBy' : IsRisk(risk, k)') /\ ComplianceScores' = ComplianceScores
    <3>1. \A s, k : IsRisk(s, k)' <=> IsRisk(s, k)
      BY <2>1, SameSummary
    <3>2. QED
      BY <2>1, <2>4, <3>1, SameSummary
  <2>7. QED
    BY <2>3, <2>4, <2>5, <2>6, ScoresStayScores DEF ScoreInv
<1>5. ASSUME NEW known \in ResourceMaps,
             CalculatePostureReportV2(known) \/ SetPostureReportComplianceScores(known)
      PROVE  ScoreInv'
  BY <1>4, <1>5 DEF CalculatePostureReportV2, SetPostureReportComplianceScores, ComplianceScores
<1>6. QED
  BY <1>1, <1>2, <1>3, <1>5 DEF ScoreNext

LEMMA ReadingInvariant == ReadingSpec => [](SummaryInv /\ ScoreInv)
<1>1. ReadingInit => SummaryInv /\ ScoreInv
  BY InitSummary, UnscoredIsScores DEF ReadingInit, ScoreInit, ScoreInv
<1>2. QED
  BY <1>1, ReadingKeepsSummary, ReadingKeepsScores, PTL DEF ReadingSpec

(* Whatever was appended, initialized, read and calculated before, a fresh   *)
(* risk score of a view that weighs anything lies between the scores of its  *)
(* controls: neither the truncation of each of them nor that of the quotient *)
(* of the sums can take it out of their range.                               *)
THEOREM RiskCorrect == ReadingSpec => []RiskIsMeanOfControls
<1>1. SummaryInv /\ ScoreInv => RiskIsMeanOfControls
  <2> SUFFICES ASSUME SummaryInv, ScoreInv PROVE RiskIsMeanOfControls
    OBVIOUS
  <2>1. ScoreTypeOK
    BY DEF ScoreInv, ScoreTypeOK, IsScores
  <2>2. ASSUME NEW known \in riskBy, NEW v \in Views,
               NEW z \in ControlsOf(v), Wcs(v, z, known) > 0
        PROVE  /\ \E c \in ControlsOf(v) : Wcs(v, c, known) > 0 /\ risk.control[v][c] <= risk.view[v]
               /\ \E c \in ControlsOf(v) : Wcs(v, c, known) > 0 /\ risk.control[v][c] >= risk.view[v]
    <3>1. Shape /\ known \in ResourceMaps
      BY DEF SummaryInv, IInv, ScoreInv
    <3>2. /\ TotalWcs(v, known) > 0
          /\ \E c \in ControlsOf(v) : Wcs(v, c, known) > 0
                                      /\ ControlScores(v, known)[c] <= ViewScore(v, known)
          /\ \E c \in ControlsOf(v) : Wcs(v, c, known) > 0
                                      /\ ControlScores(v, known)[c] >= ViewScore(v, known)
      BY <2>2, <3>1, ViewIsMean
    <3>3. risk.control[v] = ControlScores(v, known)
      BY DEF ScoreInv, IsRisk
    <3>4. risk.view[v] = ViewScore(v, known)
      BY <3>2 DEF ScoreInv, IsRisk, FrameworkScore, Views
    <3>5. QED
      BY <3>2, <3>3, <3>4
  <2>3. QED
    BY <2>1, <2>2 DEF RiskIsMeanOfControls
<1>2. QED
  BY <1>1, ReadingInvariant, PTL

(* A score and the scores of the controls that one calculation gave a view.  *)
Whole(s, v) ==
    \/ /\ \E c \in ControlsOf(v) : s.control[v][c] <= s.view[v]
       /\ \E c \in ControlsOf(v) : s.control[v][c] >= s.view[v]
    \/ /\ \A c \in ControlsOf(v) : s.control[v][c] = 0
       /\ v \in Frameworks => s.view[v] = 0 \/ (s.view[v] = 100 /\ ControlsOf(v) # {})

LEMMA NothingWeighs ==
    ASSUME Shape, NEW known \in ResourceMaps, NEW v \in Views, TotalWcs(v, known) = 0
    PROVE  \A c \in ControlsOf(v) : ControlScores(v, known)[c] = 0
<1> SUFFICES ASSUME NEW c \in ControlsOf(v) PROVE ControlScores(v, known)[c] = 0
  OBVIOUS
<1>1. Wcs(v, c, known) \in Nat /\ Wcs(v, c, known) <= 0
  BY TotalsWeigh, ControlWeighs
<1>2. ~(Wcs(v, c, known) > 0)
  BY <1>1
<1>3. QED
  BY <1>2 DEF ControlScores, Percent

LEMMA SomethingWeighs ==
    ASSUME Shape, NEW known \in ResourceMaps, NEW v \in Views, TotalWcs(v, known) > 0
    PROVE  \E z \in ControlsOf(v) : Wcs(v, z, known) > 0
<1> SUFFICES ASSUME \A z \in ControlsOf(v) : ~(Wcs(v, z, known) > 0) PROVE FALSE
  OBVIOUS
<1> DEFINE g == ControlsWeighed(v, known)
           S == ControlsOf(v)
<1>1. \A z \in S : g[z] = 0
  BY ControlWeighs DEF ControlsWeighed
<1>2. IsFiniteSet(S) /\ TotalWcs(v, known) = SumFunctionOnSet(g, S)
  BY SumOverControls
<1> HIDE DEF g, S
<1>3. SumFunctionOnSet(g, S) = 0 * Cardinality(S)
  BY <1>1, <1>2, SumOfConstant
<1>4. Cardinality(S) \in Nat
  BY <1>2, FS_CardinalityType
<1>5. QED
  BY <1>2, <1>3, <1>4

(* What a calculation makes of a view that it scores.                        *)
LEMMA ScoredIsWhole ==
    ASSUME Shape, NEW known \in ResourceMaps, NEW v \in Views, NEW s,
           s.control[v] = ControlScores(v, known),
           \/ TotalWcs(v, known) > 0 /\ s.view[v] = ViewScore(v, known)
           \/ v \in Frameworks /\ s.view[v] = FrameworkScore(v, known)
           \/ v \notin Frameworks /\ TotalWcs(v, known) = 0
    PROVE  Whole(s, v)
<1>1. CASE TotalWcs(v, known) > 0
  <2>1. s.view[v] = ViewScore(v, known)
    BY <1>1 DEF FrameworkScore
  <2>2. /\ \E c \in ControlsOf(v) : ControlScores(v, known)[c] <= ViewScore(v, known)
        /\ \E c \in ControlsOf(v) : ControlScores(v, known)[c] >= ViewScore(v, known)
    BY <1>1, SomethingWeighs, ViewIsMean
  <2>3. QED
    BY <2>1, <2>2 DEF Whole
<1>2. CASE ~(TotalWcs(v, known) > 0)
  <2>1. TotalWcs(v, known) = 0
    BY <1>2, TotalsWeigh
  <2>2. \A c \in ControlsOf(v) : s.control[v][c] = 0
    BY <2>1, NothingWeighs
  <2>3. v \in Frameworks => s.view[v] = 0 \/ (s.view[v] = 100 /\ ControlsOf(v) # {})
    BY <1>2 DEF FrameworkScore, Irrelevant
  <2>4. QED
    BY <2>2, <2>3 DEF Whole
<1>3. QED
  BY <1>1, <1>2

LEMMA RiskAfterIsWhole ==
    ASSUME Shape, NEW known \in ResourceMaps, NEW v \in Views, Whole(risk, v)
    PROVE  Whole(RiskAfter(known), v)
<1> DEFINE s == RiskAfter(known)
           reached == Reached(known)
           complete == Bad(known) = {}
<1>1. /\ s.view[v] = IF v \in reached THEN FrameworkScore(v, known)
                     ELSE IF v = Report /\ complete /\ TotalWcs(Report, known) > 0
                     THEN ViewScore(Report, known)
                     ELSE risk.view[v]
      /\ s.control[v] = IF v \in reached \/ (v = Report /\ complete) THEN ControlScores(v, known)
                        ELSE risk.control[v]
  BY DEF RiskAfter
<1>2. v \in Frameworks \/ v = Report
  BY DEF Views
<1>3. TotalWcs(v, known) \in Nat
  BY TotalsWeigh
<1> HIDE DEF s, reached, complete
<1>4. CASE v \in reached /\ v \in Frameworks
  BY <1>1, <1>4, ScoredIsWhole DEF s
<1>5. CASE v \in reached /\ v \notin Frameworks
  <2>1. s.control[v] = ControlScores(v, known) /\ s.view[v] = FrameworkScore(v, known)
    BY <1>1, <1>5
  <2>2. \/ TotalWcs(v, known) > 0 /\ s.view[v] = ViewScore(v, known)
        \/ TotalWcs(v, known) = 0
    BY <1>3, <2>1 DEF FrameworkScore
  <2>3. QED
    BY <1>5, <2>1, <2>2, ScoredIsWhole DEF s
<1>6. CASE v \notin reached /\ v = Report /\ complete
  <2>1. v \notin Frameworks
    BY <1>6, ReportIsNoFramework
  <2>2. s.control[v] = ControlScores(v, known)
    BY <1>1, <1>6
  <2>3. (TotalWcs(v, known) > 0 /\ s.view[v] = ViewScore(v, known)) \/ TotalWcs(v, known) = 0
    BY <1>1, <1>3, <1>6
  <2>4. QED
    BY <2>1, <2>2, <2>3, ScoredIsWhole DEF s
<1>7. CASE v \notin reached /\ ~(v = Report /\ complete)
  <2>1. s.view[v] = risk.view[v] /\ s.control[v] = risk.control[v]
    BY <1>1, <1>7
  <2>2. QED
    BY <2>1 DEF Whole, s
<1>8. QED
  BY <1>4, <1>5, <1>6, <1>7

LEMMA ReadingKeepsWhole ==
    /\ SummaryInv /\ ViewsScoredAsWhole
    /\ [ReadingNext]_<<vars, scores, reader>>
    => ViewsScoredAsWhole'
<1> SUFFICES ASSUME SummaryInv, ViewsScoredAsWhole, [ReadingNext]_<<vars, scores, reader>>
             PROVE  ViewsScoredAsWhole'
  OBVIOUS
<1>1. \A v \in Views : Whole(risk, v)
  BY DEF ViewsScoredAsWhole, Whole
<1>2. risk' = risk \/ \E known \in ResourceMaps : risk' = RiskAfter(known)
  BY ReadingSteps DEF ScoreNext, SummaryChanges, scores,
     CalculatePostureReportV2, SetPostureReportComplianceScores
<1>3. \A v \in Views : Whole(risk', v)
  <2>1. Shape
    BY DEF SummaryInv, IInv
  <2>2. QED
    BY <1>1, <1>2, <2>1, RiskAfterIsWhole
<1>4. QED
  BY <1>3 DEF ViewsScoredAsWhole, Whole

(* Also when a calculation ends early, and whatever results come after it:   *)
(* no view ever has a score beside controls scored by another calculation    *)
(* that it is not the mean of, but for a summary without any risk.           *)
THEOREM WholeCorrect == ReadingSpec => []ViewsScoredAsWhole
<1>1. ReadingInit => ViewsScoredAsWhole
  BY DEF ReadingInit, ScoreInit, Unscored, ViewsScoredAsWhole
<1>2. QED
  BY <1>1, ReadingInvariant, ReadingKeepsWhole, PTL DEF ReadingSpec

(* A calculation of what has not changed since the last one with the same    *)
(* resources changes no score, of whatever kind the one before it was.       *)
THEOREM RecalculationCorrect == ReadingSpec => RecalculationIsStable
<1>1. ScoreInv => [\A known \in riskBy :
                      CalculatePostureReportV2(known) => risk' = risk]_<<vars, scores>>
  BY RiskIsStable DEF ScoreInv, CalculatePostureReportV2
<1>2. QED
  BY <1>1, ReadingInvariant, PTL DEF RecalculationIsStable

-----------------------------------------------------------------------------
(* Compliance.  Full compliance of a control means that nothing it lists     *)
(* failed or was skipped as long as no caller supplies "passed" for it.      *)
NoneSuppliedPassed ==
    \A infos \in ControlInfos : \A c \in DOMAIN infos : infos[c].status # StatusPassed

PassedIsCalculated ==
    \A v \in Views : \A c \in ControlsOf(v) :
        summary[v][c].status = StatusPassed => calculateStatus(summary[v][c].tally) = StatusPassed

NothingCountedYet ==
    settled \/ appended # {} \/ \A v \in Views : totals[v].tally = ZeroTally

ComplianceInv == PassedIsCalculated /\ NothingCountedYet

LEMMA InitComplianceInv == Init => ComplianceInv
<1> SUFFICES ASSUME Init PROVE ComplianceInv
  OBVIOUS
<1>1. \A v \in Views : \A c \in ControlsOf(v) : summary[v][c].status # StatusPassed
  BY DEF Init, NewControl, StatusUnknown, StatusPassed
<1>2. QED
  BY <1>1 DEF Init, ComplianceInv, PassedIsCalculated, NothingCountedYet

LEMMA ComplianceInvStep ==
    ASSUME NoneSuppliedPassed, Shape, ComplianceInv, [Next]_vars
    PROVE  ComplianceInv'
<1>1. ASSUME NEW i \in DOMAIN Results, AppendResourceResult(i) PROVE ComplianceInv'
  <2>1. appended' # {}
    BY <1>1 DEF AppendResourceResult
  <2>2. ASSUME NEW v \in Views, NEW c \in ControlsOf(v), summary'[v][c].status = StatusPassed
        PROVE  calculateStatus(summary'[v][c].tally) = StatusPassed
    <3>1. CASE c \in DOMAIN Results[i].views
      BY <1>1, <2>2, <3>1, AppendTouched, ZenonT(30)
    <3>2. CASE c \notin DOMAIN Results[i].views
      BY <1>1, <2>2, <3>2, AppendUntouched DEF ComplianceInv, PassedIsCalculated
    <3>3. QED
      BY <3>1, <3>2
  <2>3. QED
    BY <2>1, <2>2 DEF ComplianceInv, PassedIsCalculated, NothingCountedYet
<1>2. ASSUME NEW infos \in ControlInfos, InitResourcesSummary(infos) PROVE ComplianceInv'
  <2>1. settled'
    BY <1>2 DEF InitResourcesSummary
  <2>2. ASSUME NEW v \in Views, NEW c \in ControlsOf(v), summary'[v][c].status = StatusPassed
        PROVE  calculateStatus(summary'[v][c].tally) = StatusPassed
    <3>1. /\ summary'[v][c].tally = summary[v][c].tally
          /\ c \in Supplied(infos) => summary'[v][c].status = infos[c].status
          /\ c \notin Supplied(infos) /\ summary[v][c].status = StatusUnknown =>
                summary'[v][c].status = calculateStatus(summary[v][c].tally)
          /\ c \notin Supplied(infos) /\ summary[v][c].status # StatusUnknown =>
                summary'[v][c] = summary[v][c]
      BY <1>2, InitializeStep
    <3>2. c \notin Supplied(infos)
      BY <2>2, <3>1 DEF Supplied, NoneSuppliedPassed
    <3>3. QED
      BY <2>2, <3>1, <3>2 DEF ComplianceInv, PassedIsCalculated
  <2>3. QED
    BY <2>1, <2>2 DEF ComplianceInv, PassedIsCalculated, NothingCountedYet
<1>3. CASE UNCHANGED vars
  BY <1>3 DEF vars, ComplianceInv, PassedIsCalculated, NothingCountedYet
<1>4. QED
  BY <1>1, <1>2, <1>3 DEF Next

LEMMA ReadingKeepsCompliance ==
    ASSUME NoneSuppliedPassed, SummaryInv, ComplianceInv,
           [ReadingNext]_<<vars, scores, reader>>
    PROVE  ComplianceInv'
<1>1. CASE OnlyStatuses
  BY <1>1 DEF OnlyStatuses, ComplianceInv, PassedIsCalculated, NothingCountedYet
<1>2. CASE ScoreNext
  <2>1. [Next]_vars /\ Shape
    BY <1>2, ScoreSteps DEF SummaryChanges, SummaryInv, IInv
  <2>2. QED
    BY <2>1, ComplianceInvStep
<1>3. QED
  BY <1>1, <1>2, ReadingSteps

(* What a passed control counts.                                             *)
LEMMA PassedCountsNothing ==
    ASSUME NEW tally \in [Tallied -> Nat], calculateStatus(tally) = StatusPassed
    PROVE  tally[StatusFailed] = 0 /\ tally[StatusSkipped] = 0
BY TalliedDiffer DEF calculateStatus

(* A control that lists only passed resources saw nothing else.              *)
LEMMA FullControl ==
    ASSUME SummaryInv, ComplianceInv, NEW v \in Views, NEW c \in ControlsOf(v),
           ControlCompliance(v, c) = 100, NEW i \in ResultsOf(c)
    PROVE  Seen(v, c, i).status = StatusPassed
<1> DEFINE cs == summary[v][c]
<1>1. /\ i \in DOMAIN Results /\ c \in DOMAIN Results[i].views
      /\ cs.tally \in [Tallied -> Nat] /\ IsFiniteSet(DOMAIN cs.resources)
  <2>1. DOMAIN cs.resources \in SUBSET Counted /\ IsFiniteSet(Counted)
    BY DEF SummaryInv, IInv, Shape
  <2>2. IsFiniteSet(DOMAIN cs.resources)
    BY <2>1, FS_Subset
  <2>3. QED
    BY <2>2 DEF SummaryInv, IInv, Shape, ResultsOf, ControlOK
<1>2. Seen(v, c, i).status \in Tallied
  BY <1>1, SeenType
<1>3. CASE cs.status = StatusPassed
  <2>1. cs.tally[StatusFailed] = 0 /\ cs.tally[StatusSkipped] = 0
    BY <1>1, <1>3, PassedCountsNothing DEF ComplianceInv, PassedIsCalculated
  <2>2. \A s \in Tallied : cs.tally[s] # 0 <=> \E j \in ResultsOf(c) : Seen(v, c, j).status = s
    BY DEF SummaryInv, IInv, TalliesShowResults
  <2>3. QED
    BY <1>2, <2>1, <2>2 DEF Tallied
<1>4. CASE cs.status # StatusPassed
  <2> DEFINE D == DOMAIN cs.resources
             P == {r \in D : cs.resources[r] = StatusPassed}
             r == Results[i].resource
  <2>1. r \in D /\ cs.resources[r] = Seen(v, c, i).status
    BY DEF SummaryInv, CInv, SummariesCount, Lists
  <2>2. P \in SUBSET D
    OBVIOUS
  <2>3. Percent(Cardinality(P), Cardinality(D)) = 100
    BY <1>4 DEF ControlCompliance
  <2>4. ASSUME P = D PROVE cs.resources[r] = StatusPassed
    BY <2>1, <2>4
  <2> HIDE DEF D, P
  <2>5. /\ Cardinality(P) \in Nat /\ Cardinality(D) \in Nat
        /\ Cardinality(P) <= Cardinality(D) /\ (Cardinality(P) = Cardinality(D) => P = D)
    <3>1. IsFiniteSet(D)
      BY <1>1 DEF D
    <3>2. IsFiniteSet(P) /\ Cardinality(P) <= Cardinality(D) /\ (Cardinality(D) = Cardinality(P) => D = P)
      BY <2>2, <3>1, FS_Subset
    <3>3. QED
      BY <3>1, <3>2, FS_CardinalityType
  <2>6. ASSUME NEW p \in Nat, NEW n \in Nat, p <= n, Percent(p, n) = 100 PROVE p = n
    <3>1. n > 0
      BY <2>6 DEF Percent
    <3>2. 100 * n <= 100 * p
      BY <2>6, <3>1, PercentBounds
    <3>3. QED
      BY <2>6, <3>2
  <2>7. Cardinality(P) = Cardinality(D)
    BY <2>3, <2>5, <2>6
  <2>8. QED
    BY <2>1, <2>4, <2>5, <2>7
<1>5. QED
  BY <1>3, <1>4

LEMMA FullView ==
    ASSUME SummaryInv, ComplianceInv, NEW v \in Views,
           \A c \in ControlsOf(v) : ControlCompliance(v, c) = 100,
           v # Report \/ settled
    PROVE  totals[v].tally[StatusFailed] = 0 /\ totals[v].tally[StatusSkipped] = 0
<1>1. CASE settled \/ appended # {}
  <2> SUFFICES ASSUME NEW s \in {StatusFailed, StatusSkipped} PROVE totals[v].tally[s] = 0
    OBVIOUS
  <2>1. totals[v].tally[s] = Cardinality({i \in appended : Verdict(Shown(v, i)) = s})
    <3>1. s \in Tallied
      BY DEF Tallied
    <3>2. TotalsCount
      BY DEF SummaryInv, CInv
    <3>3. QED
      BY <1>1, <3>1, <3>2 DEF TotalsCount
  <2>2. ASSUME NEW i \in appended PROVE Verdict(Shown(v, i)) # s
    <3>1. \A x \in Shown(v, i) : x = StatusPassed
      BY FullControl DEF Shown, ResultsOf
    <3>2. StatusFailed \notin Shown(v, i) /\ StatusSkipped \notin Shown(v, i)
      BY <3>1, TalliedDiffer
    <3>3. s # "other"
      BY Zenon DEF StatusFailed, StatusSkipped
    <3>4. QED
      BY <3>2, <3>3, TalliedDiffer DEF Verdict
  <2>3. {i \in appended : Verdict(Shown(v, i)) = s} = {}
    BY <2>2
  <2>4. QED
    BY <2>1, <2>3, FS_EmptySet
<1>2. CASE ~settled /\ appended = {}
  BY <1>2 DEF ComplianceInv, NothingCountedYet, ZeroTally, Tallied
<1>3. QED
  BY <1>1, <1>2

-----------------------------------------------------------------------------
(* Two truncated percentages of the parts of a whole make 99 or 100, also    *)
(* when one of them is computed of weights.                                  *)
LEMMA PartsOfWhole ==
    ASSUME NEW f \in Nat, NEW p \in Nat, NEW n \in Nat, n > 0, f + p = n,
           NEW w \in Nat, w > 0
    PROVE  Percent(w * f, w * n) + Percent(p, n) \in 99 .. 100
<1> DEFINE a == Percent(w * f, w * n)
           b == Percent(p, n)
<1>1. /\ w * f \in Nat /\ w * n \in Nat /\ w * f <= w * n /\ w * n > 0
  OBVIOUS
<1>2. a \in 0 .. 100 /\ a * (w * n) <= 100 * (w * f) /\ 100 * (w * f) < (a + 1) * (w * n)
  BY <1>1, PercentBounds
<1>3. b \in 0 .. 100 /\ b * n <= 100 * p /\ 100 * p < (b + 1) * n
  BY PercentBounds
<1> HIDE DEF a, b
<1>4. a * n <= 100 * f
  <2> SUFFICES ASSUME 100 * f < a * n PROVE FALSE
    BY <1>2
  <2>1. w * (100 * f) < w * (a * n)
    BY <1>2
  <2>2. w * (100 * f) = 100 * (w * f) /\ w * (a * n) = a * (w * n)
    BY <1>2
  <2>3. QED
    BY <1>1, <1>2, <2>1, <2>2
<1>5. 100 * f < (a + 1) * n
  <2> SUFFICES ASSUME (a + 1) * n <= 100 * f PROVE FALSE
    BY <1>2
  <2>1. w * ((a + 1) * n) <= w * (100 * f)
    BY <1>2
  <2>2. w * (100 * f) = 100 * (w * f) /\ w * ((a + 1) * n) = (a + 1) * (w * n)
    BY <1>2
  <2>3. QED
    BY <1>1, <1>2, <2>1, <2>2
<1>6. (a + b) * n <= 100 * n /\ 100 * n < (a + b + 2) * n
  BY <1>2, <1>3, <1>4, <1>5
<1>7. a + b <= 100
  <2> SUFFICES ASSUME a + b >= 101 PROVE FALSE
    BY <1>2, <1>3
  <2>1. 101 * n <= (a + b) * n
    BY <1>2, <1>3
  <2>2. QED
    BY <1>2, <1>3, <1>6, <2>1
<1>8. a + b >= 99
  <2> SUFFICES ASSUME a + b + 2 <= 100 PROVE FALSE
    BY <1>2, <1>3
  <2>1. (a + b + 2) * n <= 100 * n
    BY <1>2, <1>3
  <2>2. QED
    BY <1>2, <1>3, <1>6, <2>1
<1>9. QED
  BY <1>2, <1>3, <1>7, <1>8 DEF a, b

(* The two scores of a control whose resources weigh the same.               *)
LEMMA MirroredScores ==
    ASSUME SummaryInv, ComplianceInv, NEW known \in ResourceMaps,
           NEW v \in Views, NEW c \in ControlsOf(v),
           ScoreFactor[c] > 0,
           DOMAIN summary[v][c].resources # {},
           DOMAIN summary[v][c].resources \subseteq known,
           \A r, s \in DOMAIN summary[v][c].resources : GetScore(Object[r]) = GetScore(Object[s]),
           \A r \in DOMAIN summary[v][c].resources : summary[v][c].resources[r] # StatusSkipped
    PROVE  ControlScores(v, known)[c] + ControlCompliance(v, c) \in 99 .. 100
<1> DEFINE cs == summary[v][c]
           D == DOMAIN cs.resources
           F == {r \in D : cs.resources[r] = StatusFailed}
           P == {r \in D : cs.resources[r] = StatusPassed}
           k == ScoreFactor[c]
<1>1. IsFiniteSet(D) /\ cs.tally \in [Tallied -> Nat]
  <2>1. D \in SUBSET Counted /\ IsFiniteSet(Counted)
    BY DEF SummaryInv, IInv, Shape
  <2>2. IsFiniteSet(D)
    BY <2>1, FS_Subset
  <2>3. QED
    BY <2>2 DEF SummaryInv, IInv, Shape, ControlOK
<1>2. \A r \in D : cs.resources[r] \in Tallied
  <2> SUFFICES ASSUME NEW r \in D PROVE cs.resources[r] \in Tallied
    OBVIOUS
  <2>1. PICK i \in ResultsOf(c) : r = Results[i].resource /\ cs.resources[r] = Seen(v, c, i).status
    BY DEF SummaryInv, CInv, SummariesCount, Lists
  <2>2. i \in DOMAIN Results /\ c \in DOMAIN Results[i].views
    BY DEF SummaryInv, IInv, Shape, ResultsOf
  <2>3. QED
    BY <2>1, <2>2, SeenType
<1>3. F \in SUBSET D /\ P \in SUBSET D /\ F \union P = D /\ F \intersect P = {}
  BY <1>2, TalliedDiffer DEF Tallied
<1>4. PICK d \in D : TRUE
  OBVIOUS
<1> DEFINE w == Weights[d]
<1>5. w \in Nat \ {0} /\ \A r \in D : Weights[r] = w
  <2>1. D \subseteq DOMAIN Object
    BY ResourceMapsAssumption
  <2>2. QED
    BY <1>4, <2>1, ResourceWeighs DEF Weights
<1>6. k \in Nat /\ k > 0
  BY ViewsHaveControls, ScoreFactorAssumption
<1>7. known \intersect D = D /\ {r \in known \intersect D : cs.resources[r] = StatusFailed} = F
  OBVIOUS
<1>8. ControlScores(v, known)[c] = Percent(k * Weigh(F), k * Weigh(D))
  BY <1>7 DEF ControlScores, Unnormalized, Wcs
<1>9. ControlCompliance(v, c) = IF cs.status = StatusPassed THEN 100
                                ELSE Percent(Cardinality(P), Cardinality(D))
  BY DEF ControlCompliance
<1>10. cs.status = StatusPassed => F = {}
  <2> SUFFICES ASSUME cs.status = StatusPassed, NEW r \in F PROVE FALSE
    OBVIOUS
  <2>1. PICK i \in ResultsOf(c) : r = Results[i].resource /\ cs.resources[r] = Seen(v, c, i).status
    BY DEF SummaryInv, CInv, SummariesCount, Lists
  <2>2. cs.tally[StatusFailed] = 0
    BY <1>1, PassedCountsNothing DEF ComplianceInv, PassedIsCalculated
  <2>3. cs.tally[StatusFailed] # 0 <=> \E j \in ResultsOf(c) : Seen(v, c, j).status = StatusFailed
    BY DEF SummaryInv, IInv, TalliesShowResults, Tallied
  <2>4. QED
    BY <2>1, <2>2, <2>3
<1> DEFINE f == Cardinality(F)
           p == Cardinality(P)
           n == Cardinality(D)
<1> HIDE DEF D, F, P, k, w
<1>11. /\ IsFiniteSet(F) /\ IsFiniteSet(P)
       /\ f \in Nat /\ p \in Nat /\ n \in Nat /\ n > 0 /\ f + p = n
  <2>1. IsFiniteSet(F) /\ IsFiniteSet(P)
    BY <1>1, <1>3, FS_Subset
  <2>2. f \in Nat /\ p \in Nat /\ n \in Nat /\ n # 0
    BY <1>1, <1>4, <2>1, FS_CardinalityType, FS_EmptySet
  <2>3. Cardinality(F \union P) = f + p - Cardinality(F \intersect P)
    BY <2>1, FS_Union
  <2>4. Cardinality(F \intersect P) = 0
    BY <1>3, FS_EmptySet
  <2>5. F \union P = D
    BY <1>3
  <2>6. n = f + p - 0
    BY <2>3, <2>4, <2>5
  <2> HIDE DEF f, p, n
  <2>7. QED
    BY <2>1, <2>2, <2>6
<1>12. Weigh(F) = w * f /\ Weigh(D) = w * n
  BY <1>1, <1>3, <1>5, <1>11, SumOfConstant DEF Weigh
<1> DEFINE W == k * w
<1>13. W \in Nat /\ W > 0
  BY <1>5, <1>6
<1> HIDE DEF f, n, p
<1>14. k * Weigh(F) = W * f /\ k * Weigh(D) = W * n
  BY <1>5, <1>6, <1>11, <1>12
<1> HIDE DEF W
<1>15. Percent(W * f, W * n) + Percent(p, n) \in 99 .. 100
  BY <1>11, <1>13, PartsOfWhole
<1>16. CASE cs.status = StatusPassed
  <2>1. f = 0
    BY <1>10, <1>16, FS_EmptySet DEF f
  <2>2. W * f = 0 /\ W * n \in Nat
    BY <1>11, <1>13, <2>1
  <2>3. Percent(W * f, W * n) = 0
    <3>1. Percent(W * f, W * n) = Percent(0, W * n)
      BY <2>2
    <3>2. W * n > 0
      BY <1>11, <1>13
    <3>3. Percent(0, W * n) * (W * n) <= 0 /\ Percent(0, W * n) \in 0 .. 100
      BY <2>2, <3>2, PercentBounds
    <3>4. QED
      BY <2>2, <3>1, <3>2, <3>3
  <2>4. QED
    BY <1>8, <1>9, <1>14, <1>16, <2>3
<1>17. CASE cs.status # StatusPassed
  BY <1>8, <1>9, <1>14, <1>15, <1>17 DEF p, n
<1>18. QED
  BY <1>16, <1>17

(* Compliance and risk are computed apart from the counters and from each    *)
(* other; they agree whenever both are fresh.  A caller that supplies        *)
(* "passed" for a control that did not pass makes it compliant all the same. *)
THEOREM ComplianceCorrect ==
    ASSUME NoneSuppliedPassed PROVE ReadingSpec => []ComplianceAgrees
<1>1. ReadingInit => ComplianceInv
  BY InitComplianceInv DEF ReadingInit, ScoreInit
<1>2. SummaryInv /\ ComplianceInv /\ [ReadingNext]_<<vars, scores, reader>> => ComplianceInv'
  BY ReadingKeepsCompliance
<1>3. SummaryInv /\ ScoreInv /\ ComplianceInv => ComplianceAgrees
  <2> SUFFICES ASSUME SummaryInv, ScoreInv, ComplianceInv, complianceFresh, NEW v \in Views
               PROVE  /\ FullyCompliant(v)
                      /\ \A known \in riskBy : \A c \in ControlsOf(v) : Mirrored(v, c, known)
    BY DEF ComplianceAgrees
  <2>1. /\ compliance.view[v] = ViewCompliance(v)
        /\ \A c \in ControlsOf(v) : compliance.control[v][c] = ControlCompliance(v, c)
    BY DEF ScoreInv, ComplianceScores
  <2>2. Shape
    BY DEF SummaryInv, IInv
  <2>3. FullyCompliant(v)
    BY <2>1, <2>2, ViewComplianceBounds, FullView DEF FullyCompliant
  <2>4. ASSUME NEW known \in riskBy, NEW c \in ControlsOf(v) PROVE Mirrored(v, c, known)
    <3>1. risk.control[v][c] = ControlScores(v, known)[c] /\ known \in ResourceMaps
      BY DEF ScoreInv, IsRisk
    <3>2. QED
      BY <2>1, <3>1, MirroredScores DEF Mirrored
  <2>5. QED
    BY <2>3, <2>4
<1>4. QED
  BY <1>1, <1>2, <1>3, ReadingInvariant, ReadingKeepsSummary, PTL DEF ReadingSpec
=============================================================================

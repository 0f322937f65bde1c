---------------------------- MODULE AllLists_proof ----------------------------
(***************************************************************************)
(* Proofs about AllLists, for every set of objects, every finite set of    *)
(* items and every set of statuses.                                        *)
(***************************************************************************)
EXTENDS AllLists, FiniteSetTheorems, TLAPS

USE DEF StatusPassed, StatusFailed, StatusSkipped

(* The unknown status, the empty string, is none of the three statuses; it  *)
(* is kept folded below.                                                    *)
LEMMA UnknownDistinct ==
    /\ StatusUnknown # StatusPassed
    /\ StatusUnknown # StatusFailed
    /\ StatusUnknown # StatusSkipped
BY Zenon DEF StatusUnknown

-----------------------------------------------------------------------------
(* Assigning a status to an item of a map yields a map again, with that     *)
(* item at that status and every other entry as it was.                     *)
LEMMA AssignType ==
    ASSUME NEW map \in ItemMaps, NEW i \in Items, NEW s \in Statuses
    PROVE  /\ Assign(map, i, s) \in ItemMaps
           /\ DOMAIN Assign(map, i, s) = DOMAIN map \union {i}
           /\ Assign(map, i, s)[i] = s
           /\ \A j \in DOMAIN map \ {i} : Assign(map, i, s)[j] = map[j]
<1>1. PICK D \in SUBSET Items : map \in [D -> Statuses]
  BY DEF ItemMaps
<1>2. DOMAIN map = D
  BY <1>1
<1>3. D \union {i} \in SUBSET Items
  OBVIOUS
<1>4. Assign(map, i, s) \in [D \union {i} -> Statuses]
  BY <1>1, <1>2 DEF Assign
<1>5. Assign(map, i, s) \in ItemMaps
  BY <1>3, <1>4 DEF ItemMaps
<1>6. QED
  BY <1>2, <1>5 DEF Assign

LEMMA NilMapType == NilMap \in ItemMaps /\ DOMAIN NilMap = {}
<1>1. NilMap \in [{} -> Statuses]
  BY DEF NilMap
<1>2. QED
  BY <1>1 DEF ItemMaps, NilMap

LEMMA ClassType == \A s : Class(s) \in Classes
BY DEF Class, Classes

LEMMA CountType ==
    ASSUME NEW count \in [Classes -> Int], NEW s, NEW d \in Int
    PROVE  updateCounters(count, s, d) \in [Classes -> Int]
BY ClassType DEF updateCounters

(* One iteration of Append keeps every variable it touches well typed.      *)
LEMMA AppendItemType ==
    ASSUME TypeOK, NEW l \in Lists, NEW s \in Statuses, NEW i \in Items,
           AppendItem(l, s, i)
    PROVE  /\ allocated' \in [Lists -> BOOLEAN]
           /\ itemToStatus' \in [Lists -> ItemMaps]
           /\ counters' \in [Lists -> [Classes -> Int]]
           /\ reported' \in [Lists -> [Items -> SUBSET Statuses]]
<1>1. allocated' \in [Lists -> BOOLEAN]
  BY DEF TypeOK, AppendItem
<1>2. reported' \in [Lists -> [Items -> SUBSET Statuses]]
  BY DEF TypeOK, AppendItem
<1>3. Assign(itemToStatus[l], i, s) \in ItemMaps
  BY AssignType DEF TypeOK
<1>4. itemToStatus' \in [Lists -> ItemMaps]
  BY <1>3 DEF TypeOK, AppendItem
<1>5. counters[l] \in [Classes -> Int]
  BY DEF TypeOK
<1>6. updateCounters(counters[l], s, 1) \in [Classes -> Int]
  BY <1>5, CountType
<1>7. updateCounters(updateCounters(counters[l], s, 1), itemToStatus[l][i], 0 - 1)
        \in [Classes -> Int]
  BY <1>6, CountType
<1>8. counters' \in [Lists -> [Classes -> Int]]
  BY <1>6, <1>7 DEF TypeOK, AppendItem
<1>9. QED
  BY <1>1, <1>2, <1>4, <1>8

(* Append never removes an item from any of the maps.                       *)
LEMMA AppendItemGrows ==
    ASSUME TypeOK, NEW l \in Lists, NEW s \in Statuses, NEW i \in Items,
           AppendItem(l, s, i), NEW m \in Lists
    PROVE  DOMAIN itemToStatus[m] \subseteq DOMAIN itemToStatus'[m]
<1>1. CASE UNCHANGED itemToStatus
  BY <1>1
<1>2. CASE itemToStatus' = [itemToStatus EXCEPT ![l] = Assign(@, i, s)]
  <2>1. m # l => itemToStatus'[m] = itemToStatus[m]
    BY <1>2 DEF TypeOK
  <2>2. itemToStatus'[l] = Assign(itemToStatus[l], i, s)
    BY <1>2 DEF TypeOK
  <2>3. itemToStatus[l] \in ItemMaps
    BY DEF TypeOK
  <2>4. DOMAIN itemToStatus'[l] = DOMAIN itemToStatus[l] \union {i}
    BY <2>2, <2>3, AssignType
  <2>5. QED
    BY <2>1, <2>4
<1>3. QED
  BY <1>1, <1>2 DEF AppendItem

(* The entry an Update loop reads is a status. *)
LEMMA SourceEntry ==
    ASSUME TypeOK, NEW m \in Lists, NEW i \in DOMAIN itemToStatus[m]
    PROVE  i \in Items /\ itemToStatus[m][i] \in Statuses
<1>1. PICK D \in SUBSET Items : itemToStatus[m] \in [D -> Statuses]
  BY DEF TypeOK, ItemMaps
<1>2. QED
  BY <1>1

-----------------------------------------------------------------------------
(* Type correctness: every reachable state of AllLists is well typed.       *)
THEOREM TypeCorrect == Spec => []TypeOK
<1>1. Init => TypeOK
  <2> SUFFICES ASSUME Init PROVE TypeOK
    OBVIOUS
  <2>1. itemToStatus \in [Lists -> ItemMaps]
    BY NilMapType DEF Init
  <2>2. counters \in [Lists -> [Classes -> Int]]
    BY DEF Init, ZeroCounters
  <2>3. reported \in [Lists -> [Items -> SUBSET Statuses]]
    BY DEF Init, NoReports
  <2>4. QED
    BY <2>1, <2>2, <2>3 DEF Init, TypeOK
<1>2. TypeOK /\ [Next]_vars => TypeOK'
  <2> SUFFICES ASSUME TypeOK, [Next]_vars PROVE TypeOK'
    OBVIOUS
  <2>0. ASSUME NEW l \in Lists, NEW m \in Lists, NEW todo,
               todo \in SUBSET (DOMAIN itemToStatus[m]),
               DOMAIN itemToStatus[m] \subseteq DOMAIN itemToStatus'[m],
               loop' = IsLoop(l, m, todo)
        PROVE  \/ loop' = NoLoop
               \/ \E k, n \in Lists : \E rest \in SUBSET (DOMAIN itemToStatus'[n]) :
                     loop' = IsLoop(k, n, rest)
    <3>1. todo \in SUBSET (DOMAIN itemToStatus'[m])
      BY <2>0
    <3>2. QED
      BY <2>0, <3>1
  <2>1. ASSUME NEW l \in Lists, NEW i \in Items, NEW s \in Statuses, Append(l, s, i)
        PROVE  TypeOK'
    <3>1. AppendItem(l, s, i) /\ loop' = loop
      BY <2>1 DEF Append
    <3>2. loop = NoLoop
      BY <2>1 DEF Append, TypeOK, IsLoop
    <3>3. QED
      BY <3>1, <3>2, AppendItemType DEF TypeOK
  <2>2. ASSUME NEW l \in Lists, NEW m \in Lists, BeginUpdate(l, m)
        PROVE  TypeOK'
    BY <2>2 DEF TypeOK, BeginUpdate
  <2>3. ASSUME NEW i \in Items, UpdateStep(i)
        PROVE  TypeOK'
    <3>a. PICK l \in Lists, m \in Lists :
             \E todo \in SUBSET (DOMAIN itemToStatus[m]) : loop = IsLoop(l, m, todo)
      BY <2>3 DEF TypeOK, UpdateStep, NoLoop
    <3>1. PICK todo \in SUBSET (DOMAIN itemToStatus[m]) : loop = IsLoop(l, m, todo)
      BY <3>a
    <3>2. loop.dst = l /\ loop.src = m /\ loop.todo = todo
      BY <3>1 DEF IsLoop
    <3>3. i \in todo /\ itemToStatus[m][i] \in Statuses
      BY <2>3, <3>2, SourceEntry DEF UpdateStep
    <3>4. AppendItem(l, itemToStatus[m][i], i)
      BY <2>3, <3>2 DEF UpdateStep
    <3>5. loop' = NoLoop \/ loop' = IsLoop(l, m, todo \ {i})
      BY <2>3, <3>2 DEF UpdateStep
    <3>6. DOMAIN itemToStatus[m] \subseteq DOMAIN itemToStatus'[m]
      BY <3>3, <3>4, AppendItemGrows
    <3>7. todo \ {i} \in SUBSET (DOMAIN itemToStatus[m])
      OBVIOUS
    <3>8. \/ loop' = NoLoop
          \/ \E k, n \in Lists : \E rest \in SUBSET (DOMAIN itemToStatus'[n]) :
                loop' = IsLoop(k, n, rest)
      BY <3>5, <3>6, <3>7, <2>0
    <3>9. QED
      BY <3>3, <3>4, <3>8, AppendItemType DEF TypeOK
  <2>4. ASSUME NEW l \in Lists, Clear(l) PROVE TypeOK'
    <3>1. ZeroCounters \in [Classes -> Int]
      BY DEF ZeroCounters
    <3>2. NoReports \in [Items -> SUBSET Statuses]
      BY DEF NoReports
    <3>3. loop' = NoLoop
      BY <2>4 DEF TypeOK, Clear, IsLoop
    <3>4. QED
      BY <2>4, <3>1, <3>2, <3>3, NilMapType DEF TypeOK, Clear
  <2>5. ASSUME NEW l \in Lists, Initialize(l) PROVE TypeOK'
    BY <2>5 DEF TypeOK, Initialize
  <2>6. CASE UNCHANGED vars
    BY <2>6 DEF vars, TypeOK
  <2>7. QED
    BY <2>1, <2>2, <2>3, <2>4, <2>5, <2>6 DEF Next
<1>3. QED
  BY <1>1, <1>2, PTL DEF Spec

-----------------------------------------------------------------------------
(* A class of a map is a finite set of items. *)
LEMMA FibreFinite ==
    ASSUME NEW map \in ItemMaps, NEW c
    PROVE  IsFiniteSet(Fibre(map, c)) /\ Cardinality(Fibre(map, c)) \in Nat
<1>1. Fibre(map, c) \subseteq Items
  BY DEF Fibre, ItemMaps
<1>2. IsFiniteSet(Fibre(map, c))
  BY <1>1, FS_Subset, ItemsAssumption
<1>3. QED
  BY <1>2, FS_CardinalityType

(* A new item joins the class of its status and no other.                   *)
LEMMA InsertFibre ==
    ASSUME NEW map \in ItemMaps, NEW i \in Items, NEW s \in Statuses, NEW c,
           i \notin DOMAIN map
    PROVE  Cardinality(Fibre(Assign(map, i, s), c))
             = Cardinality(Fibre(map, c)) + (IF c = Class(s) THEN 1 ELSE 0)
<1> DEFINE after == Assign(map, i, s)
<1>1. DOMAIN after = DOMAIN map \union {i} /\ after[i] = s
  BY AssignType
<1>2. \A j \in DOMAIN map \ {i} : after[j] = map[j]
  BY AssignType
<1>3. IsFiniteSet(Fibre(map, c)) /\ Cardinality(Fibre(map, c)) \in Nat
  BY FibreFinite
<1>4. i \notin Fibre(map, c)
  BY DEF Fibre
<1> HIDE DEF after
<1>5. CASE c = Class(s)
  <2>1. Fibre(after, c) = Fibre(map, c) \union {i}
    BY <1>1, <1>2, <1>5 DEF Fibre
  <2>2. QED
    BY <1>3, <1>4, <1>5, <2>1, FS_AddElement DEF after
<1>6. CASE c # Class(s)
  <2>1. Fibre(after, c) = Fibre(map, c)
    BY <1>1, <1>2, <1>6 DEF Fibre
  <2>2. QED
    BY <1>3, <1>6, <2>1 DEF after
<1>7. QED
  BY <1>5, <1>6

(* An upgraded item leaves the class of its old status for that of the new. *)
LEMMA UpgradeFibre ==
    ASSUME NEW map \in ItemMaps, NEW i \in Items, NEW s \in Statuses, NEW c,
           i \in DOMAIN map
    PROVE  Cardinality(Fibre(Assign(map, i, s), c))
             = Cardinality(Fibre(map, c)) + (IF c = Class(s) THEN 1 ELSE 0)
                                          - (IF c = Class(map[i]) THEN 1 ELSE 0)
<1> DEFINE after == Assign(map, i, s)
           old == Class(map[i])
           k == Cardinality(Fibre(map, c))
<1>1. DOMAIN after = DOMAIN map /\ after[i] = s
  BY AssignType
<1>2. \A j \in DOMAIN map \ {i} : after[j] = map[j]
  BY AssignType
<1>3. IsFiniteSet(Fibre(map, c)) /\ k \in Nat
  BY FibreFinite
<1> HIDE DEF after
<1>4. CASE c = Class(s) /\ c # old
  <2>1. Fibre(after, c) = Fibre(map, c) \union {i}
    BY <1>1, <1>2, <1>4 DEF Fibre
  <2>2. i \notin Fibre(map, c)
    BY <1>4 DEF Fibre
  <2>3. Cardinality(Fibre(after, c)) = k + 1
    BY <1>3, <2>1, <2>2, FS_AddElement
  <2>4. QED
    BY <1>3, <1>4, <2>3 DEF after
<1>5. CASE c # Class(s) /\ c = old
  <2>1. Fibre(after, c) = Fibre(map, c) \ {i}
    BY <1>1, <1>2, <1>5 DEF Fibre
  <2>2. i \in Fibre(map, c)
    BY <1>5 DEF Fibre
  <2>3. Cardinality(Fibre(after, c)) = k - 1
    BY <1>3, <2>1, <2>2, FS_RemoveElement
  <2>4. QED
    BY <1>3, <1>5, <2>3 DEF after
<1>6. CASE (c = Class(s)) <=> (c = old)
  <2>1. Fibre(after, c) = Fibre(map, c)
    BY <1>1, <1>2, <1>6 DEF Fibre
  <2>2. QED
    BY <1>3, <1>6, <2>1 DEF after
<1>7. QED
  BY <1>4, <1>5, <1>6

LEMMA CounterValue ==
    ASSUME NEW count \in [Classes -> Int], NEW s, NEW d \in Int, NEW c \in Classes
    PROVE  updateCounters(count, s, d)[c] = count[c] + (IF c = Class(s) THEN d ELSE 0)
BY ClassType DEF updateCounters

LEMMA AppendItemCounts ==
    ASSUME TypeOK, CountersMatchItems, NEW l \in Lists, NEW s \in Statuses,
           NEW i \in Items, AppendItem(l, s, i)
    PROVE  CountersMatchItems'
<1> DEFINE map == itemToStatus[l]
           count == counters[l]
<1>1. map \in ItemMaps /\ count \in [Classes -> Int]
  BY DEF TypeOK
<1>2. \A m \in Lists \ {l} : itemToStatus'[m] = itemToStatus[m] /\ counters'[m] = counters[m]
  BY DEF TypeOK, AppendItem
<1>3. ASSUME NEW c \in Classes
      PROVE  counters'[l][c] = Cardinality(Fibre(itemToStatus'[l], c))
  <2>1. count[c] = Cardinality(Fibre(map, c))
    BY DEF CountersMatchItems
  <2>2. CASE IsNew(map, i)
    <3>1. itemToStatus'[l] = Assign(map, i, s) /\ counters'[l] = updateCounters(count, s, 1)
      BY <2>2 DEF TypeOK, AppendItem, IsUpgrade, IsNew
    <3>2. i \notin DOMAIN map
      BY <2>2 DEF IsNew
    <3>3. QED
      BY <1>1, <2>1, <3>1, <3>2, InsertFibre, CounterValue
  <2>3. CASE IsUpgrade(map, i, s)
    <3>1. /\ itemToStatus'[l] = Assign(map, i, s)
          /\ counters'[l] = updateCounters(updateCounters(count, s, 1), map[i], 0 - 1)
      BY <2>3 DEF TypeOK, AppendItem, IsUpgrade, IsNew
    <3>2. i \in DOMAIN map
      BY <2>3 DEF IsUpgrade
    <3>3. Cardinality(Fibre(Assign(map, i, s), c))
             = Cardinality(Fibre(map, c)) + (IF c = Class(s) THEN 1 ELSE 0)
                                          - (IF c = Class(map[i]) THEN 1 ELSE 0)
      BY <1>1, <3>2, UpgradeFibre
    <3>4. updateCounters(count, s, 1) \in [Classes -> Int]
      BY <1>1, CountType
    <3>5. updateCounters(count, s, 1)[c] = count[c] + (IF c = Class(s) THEN 1 ELSE 0)
      BY <1>1, CounterValue
    <3>6. counters'[l][c] = updateCounters(count, s, 1)[c]
                             + (IF c = Class(map[i]) THEN 0 - 1 ELSE 0)
      BY <3>1, <3>4, CounterValue
    <3>7. count[c] \in Int
      BY <1>1
    <3>8. QED
      BY <2>1, <3>1, <3>3, <3>5, <3>6, <3>7
  <2>4. CASE ~IsNew(map, i) /\ ~IsUpgrade(map, i, s)
    BY <2>1, <2>4 DEF AppendItem
  <2>5. QED
    BY <2>2, <2>3, <2>4
<1>4. QED
  BY <1>2, <1>3 DEF CountersMatchItems

(* The counters of an AllLists object are the sizes of its classes, for     *)
(* every sequence of appends, updates, clears and initialisations.          *)
THEOREM CountersCorrect == Spec => []CountersMatchItems
<1>1. Init => CountersMatchItems
  <2> SUFFICES ASSUME Init, NEW l \in Lists, NEW c \in Classes
               PROVE  counters[l][c] = Cardinality(Fibre(itemToStatus[l], c))
    BY DEF CountersMatchItems
  <2>1. Fibre(NilMap, c) = {}
    BY NilMapType DEF Fibre
  <2>2. QED
    BY <2>1, FS_EmptySet DEF Init, ZeroCounters
<1>2. TypeOK /\ CountersMatchItems /\ [Next]_vars => CountersMatchItems'
  <2> SUFFICES ASSUME TypeOK, CountersMatchItems, [Next]_vars
               PROVE  CountersMatchItems'
    OBVIOUS
  <2>1. ASSUME NEW l \in Lists, NEW i \in Items, NEW s \in Statuses, Append(l, s, i)
        PROVE  CountersMatchItems'
    BY <2>1, AppendItemCounts DEF Append
  <2>2. ASSUME NEW i \in Items, UpdateStep(i)
        PROVE  CountersMatchItems'
    <3>1. loop.dst \in Lists /\ itemToStatus[loop.src][i] \in Statuses
      BY <2>2, SourceEntry DEF TypeOK, UpdateStep, NoLoop, IsLoop
    <3>2. QED
      BY <2>2, <3>1, AppendItemCounts DEF UpdateStep
  <2>3. ASSUME NEW l \in Lists, Clear(l)
        PROVE  CountersMatchItems'
    <3>1. \A c \in Classes : ZeroCounters[c] = Cardinality(Fibre(NilMap, c))
      <4>1. \A c : Fibre(NilMap, c) = {}
        BY NilMapType DEF Fibre
      <4>2. QED
        BY <4>1, FS_EmptySet DEF ZeroCounters
    <3>2. QED
      BY <2>3, <3>1 DEF CountersMatchItems, Clear, TypeOK
  <2>4. CASE UNCHANGED <<itemToStatus, counters>>
    BY <2>4 DEF CountersMatchItems
  <2>5. QED
    BY <2>1, <2>2, <2>3, <2>4 DEF Next, BeginUpdate, Initialize, vars
<1>3. QED
  BY <1>1, <1>2, TypeCorrect, PTL DEF Spec

-----------------------------------------------------------------------------
(* Compare agrees with the significance order: the status that replaces a   *)
(* stored one is at least as significant, one that is turned down at most.  *)
LEMMA CompareRank ==
    ASSUME NEW old, NEW s
    PROVE  /\ Compare(old, s) = s => Rank(old) <= Rank(s)
           /\ old = s \/ Compare(old, s) # s => Rank(s) <= Rank(old)
BY UnknownDistinct DEF Compare, Rank

LEMMA RankType == \A s : Rank(s) \in 0..3
BY DEF Rank

(* What one iteration of Append does to the entry of its item.              *)
LEMMA AppendItemEntry ==
    ASSUME TypeOK, NEW l \in Lists, NEW s \in Statuses, NEW i \in Items,
           AppendItem(l, s, i)
    PROVE  /\ DOMAIN itemToStatus'[l] = DOMAIN itemToStatus[l] \union {i}
           /\ \A j \in DOMAIN itemToStatus[l] \ {i} : itemToStatus'[l][j] = itemToStatus[l][j]
           /\ Rank(s) <= Rank(itemToStatus'[l][i])
           /\ \/ itemToStatus'[l][i] = s
              \/ i \in DOMAIN itemToStatus[l] /\ itemToStatus'[l][i] = itemToStatus[l][i]
           /\ i \in DOMAIN itemToStatus[l] => Rank(itemToStatus[l][i]) <= Rank(itemToStatus'[l][i])
<1> DEFINE map == itemToStatus[l]
<1>1. map \in ItemMaps
  BY DEF TypeOK
<1>2. CASE IsNew(map, i)
  <2>1. itemToStatus'[l] = Assign(map, i, s)
    BY <1>2 DEF TypeOK, AppendItem, IsUpgrade, IsNew
  <2>2. i \notin DOMAIN map
    BY <1>2 DEF IsNew
  <2>3. /\ DOMAIN itemToStatus'[l] = DOMAIN map \union {i}
        /\ itemToStatus'[l][i] = s
        /\ \A j \in DOMAIN map \ {i} : itemToStatus'[l][j] = map[j]
    BY <1>1, <2>1, AssignType
  <2>4. QED
    BY <2>2, <2>3, RankType
<1>3. CASE IsUpgrade(map, i, s)
  <2>1. itemToStatus'[l] = Assign(map, i, s)
    BY <1>3 DEF TypeOK, AppendItem, IsUpgrade, IsNew
  <2>2. Rank(map[i]) <= Rank(s)
    BY <1>3, CompareRank DEF IsUpgrade
  <2>3. QED
    BY <1>1, <2>1, <2>2, <1>3, AssignType, RankType DEF IsUpgrade
<1>4. CASE ~IsNew(map, i) /\ ~IsUpgrade(map, i, s)
  <2>1. itemToStatus'[l] = map /\ i \in DOMAIN map
    BY <1>4 DEF AppendItem, IsNew
  <2>2. map[i] = s \/ Compare(map[i], s) # s
    BY <1>4, <2>1 DEF IsUpgrade
  <2>3. Rank(s) <= Rank(map[i])
    BY <2>2, CompareRank
  <2>4. QED
    BY <2>1, <2>3, RankType
<1>5. QED
  BY <1>2, <1>3, <1>4

LEMMA AppendItemOthers ==
    ASSUME TypeOK, NEW l \in Lists, NEW s \in Statuses, NEW i \in Items,
           AppendItem(l, s, i), NEW m \in Lists, m # l
    PROVE  /\ itemToStatus'[m] = itemToStatus[m]
           /\ reported'[m] = reported[m]
           /\ counters'[m] = counters[m]
BY DEF TypeOK, AppendItem

LEMMA AppendItemStored ==
    ASSUME TypeOK, StoredIsMostSignificant, NEW l \in Lists, NEW s \in Statuses,
           NEW i \in Items, AppendItem(l, s, i)
    PROVE  StoredIsMostSignificant'
<1> SUFFICES ASSUME NEW m \in Lists
             PROVE  /\ DOMAIN itemToStatus'[m] = {j \in Items : reported'[m][j] # {}}
                    /\ \A j \in DOMAIN itemToStatus'[m] :
                          /\ itemToStatus'[m][j] \in reported'[m][j]
                          /\ \A t \in reported'[m][j] : Rank(t) <= Rank(itemToStatus'[m][j])
  BY DEF StoredIsMostSignificant
<1>1. CASE m # l
  BY <1>1, AppendItemOthers DEF StoredIsMostSignificant
<1>2. CASE m = l
  <2>1. /\ reported'[l][i] = reported[l][i] \union {s}
        /\ \A j \in Items \ {i} : reported'[l][j] = reported[l][j]
    BY DEF TypeOK, AppendItem
  <2>2. /\ DOMAIN itemToStatus[l] = {j \in Items : reported[l][j] # {}}
        /\ \A j \in DOMAIN itemToStatus[l] :
              /\ itemToStatus[l][j] \in reported[l][j]
              /\ \A t \in reported[l][j] : Rank(t) <= Rank(itemToStatus[l][j])
    BY DEF StoredIsMostSignificant
  <2>3. DOMAIN itemToStatus'[l] = {j \in Items : reported'[l][j] # {}}
    BY <2>1, <2>2, AppendItemEntry
  <2>4. ASSUME NEW j \in DOMAIN itemToStatus'[l], j # i
        PROVE  /\ itemToStatus'[l][j] \in reported'[l][j]
               /\ \A t \in reported'[l][j] : Rank(t) <= Rank(itemToStatus'[l][j])
    BY <2>1, <2>2, <2>4, AppendItemEntry
  <2>5. itemToStatus'[l][i] \in reported'[l][i]
    BY <2>1, <2>2, AppendItemEntry
  <2>6. ASSUME NEW t \in reported'[l][i]
        PROVE  Rank(t) <= Rank(itemToStatus'[l][i])
    <3>1. CASE t = s
      BY <3>1, AppendItemEntry
    <3>2. CASE t \in reported[l][i]
      <4>1. i \in DOMAIN itemToStatus[l] /\ Rank(t) <= Rank(itemToStatus[l][i])
        BY <2>2, <3>2
      <4>2. Rank(itemToStatus[l][i]) <= Rank(itemToStatus'[l][i])
        BY <4>1, AppendItemEntry
      <4>3. QED
        BY <4>1, <4>2, RankType
    <3>3. QED
      BY <2>1, <2>6, <3>1, <3>2
  <2>7. QED
    BY <1>2, <2>3, <2>4, <2>5, <2>6
<1>3. QED
  BY <1>1, <1>2

(* Whatever was appended, and in whatever order, each item is stored with   *)
(* the most significant of the statuses really reported for it.             *)
THEOREM MostSignificantStored == Spec => []StoredIsMostSignificant
<1>1. Init => StoredIsMostSignificant
  BY NilMapType DEF Init, StoredIsMostSignificant, NoReports
<1>2. TypeOK /\ StoredIsMostSignificant /\ [Next]_vars => StoredIsMostSignificant'
  <2> SUFFICES ASSUME TypeOK, StoredIsMostSignificant, [Next]_vars
               PROVE  StoredIsMostSignificant'
    OBVIOUS
  <2>1. ASSUME NEW l \in Lists, NEW i \in Items, NEW s \in Statuses, Append(l, s, i)
        PROVE  StoredIsMostSignificant'
    BY <2>1, AppendItemStored DEF Append
  <2>2. ASSUME NEW i \in Items, UpdateStep(i)
        PROVE  StoredIsMostSignificant'
    <3>1. loop.dst \in Lists /\ itemToStatus[loop.src][i] \in Statuses
      BY <2>2, SourceEntry DEF TypeOK, UpdateStep, NoLoop, IsLoop
    <3>2. QED
      BY <2>2, <3>1, AppendItemStored DEF UpdateStep
  <2>3. ASSUME NEW l \in Lists, Clear(l)
        PROVE  StoredIsMostSignificant'
    <3>1. CASE allocated[l]
      <4>1. itemToStatus'[l] = NilMap /\ reported'[l] = NoReports
        BY <2>3, <3>1 DEF Clear, TypeOK
      <4>2. \A m \in Lists \ {l} : itemToStatus'[m] = itemToStatus[m] /\ reported'[m] = reported[m]
        BY <2>3, <3>1 DEF Clear, TypeOK
      <4>3. QED
        BY <4>1, <4>2, NilMapType DEF StoredIsMostSignificant, NoReports
    <3>2. CASE ~allocated[l]
      BY <2>3, <3>2 DEF Clear, StoredIsMostSignificant
    <3>3. QED
      BY <3>1, <3>2
  <2>4. CASE UNCHANGED <<itemToStatus, reported>>
    BY <2>4 DEF StoredIsMostSignificant
  <2>5. QED
    BY <2>1, <2>2, <2>3, <2>4 DEF Next, BeginUpdate, Initialize, vars
<1>3. QED
  BY <1>1, <1>2, TypeCorrect, PTL DEF Spec

-----------------------------------------------------------------------------
(* An Update loop leaves no visited entry of its source behind, in whatever *)
(* order the map is visited and even when an object is updated from itself. *)
THEOREM UpdateCovers == Spec => []UpdateCoversSource
<1>1. Init => VisitedIsCovered
  BY DEF Init, VisitedIsCovered, NoLoop
<1>2. TypeOK /\ VisitedIsCovered /\ [Next]_vars => VisitedIsCovered'
  <2> SUFFICES ASSUME TypeOK, VisitedIsCovered, [Next]_vars
               PROVE  VisitedIsCovered'
    OBVIOUS
  <2>1. ASSUME NEW l \in Lists, NEW m \in Lists, BeginUpdate(l, m)
        PROVE  VisitedIsCovered'
    BY <2>1 DEF BeginUpdate, VisitedIsCovered, IsLoop
  <2>2. ASSUME NEW i \in Items, UpdateStep(i)
        PROVE  VisitedIsCovered'
    <3> DEFINE l == loop.dst
               m == loop.src
               s == itemToStatus[m][i]
    <3>1. l \in Lists /\ m \in Lists /\ i \in DOMAIN itemToStatus[m] /\ i \in loop.todo
      BY <2>2 DEF TypeOK, UpdateStep, NoLoop, IsLoop
    <3>2. s \in Statuses
      BY <3>1, SourceEntry
    <3>3. AppendItem(l, s, i)
      BY <2>2 DEF UpdateStep
    <3>4. \/ loop' = NoLoop
          \/ loop' = IsLoop(l, m, loop.todo \ {i})
      BY <2>2 DEF UpdateStep
    <3>5. CASE l = m
      BY <3>4, <3>5, RankType DEF VisitedIsCovered, IsLoop, NoLoop
    <3>6. CASE l # m
      <4>1. itemToStatus'[m] = itemToStatus[m]
        BY <3>1, <3>2, <3>3, <3>6, AppendItemOthers
      <4>2. ASSUME NEW j \in DOMAIN itemToStatus[m] \ (loop.todo \ {i})
            PROVE  /\ j \in DOMAIN itemToStatus'[l]
                   /\ Rank(itemToStatus[m][j]) <= Rank(itemToStatus'[l][j])
        <5>1. CASE j = i
          BY <3>1, <3>2, <3>3, <5>1, AppendItemEntry
        <5>2. CASE j # i
          <6>1. /\ j \in DOMAIN itemToStatus[l]
                /\ Rank(itemToStatus[m][j]) <= Rank(itemToStatus[l][j])
            BY <2>2, <4>2, <5>2 DEF VisitedIsCovered, UpdateStep
          <6>2. /\ DOMAIN itemToStatus'[l] = DOMAIN itemToStatus[l] \union {i}
                /\ itemToStatus'[l][j] = itemToStatus[l][j]
            BY <3>1, <3>2, <3>3, <5>2, <6>1, AppendItemEntry
          <6>3. QED
            BY <6>1, <6>2
        <5>3. QED
          BY <5>1, <5>2
      <4>3. CASE loop' = NoLoop
        BY <4>3 DEF VisitedIsCovered, NoLoop
      <4>4. CASE loop' = IsLoop(l, m, loop.todo \ {i})
        <5>1. loop'.src = m /\ loop'.dst = l /\ loop'.todo = loop.todo \ {i}
          BY <4>4 DEF IsLoop
        <5>2. QED
          BY <4>1, <4>2, <5>1 DEF VisitedIsCovered
      <4>5. QED
        BY <3>4, <4>3, <4>4
    <3>7. QED
      BY <3>5, <3>6
  <2>3. CASE loop' = loop /\ ~loop.running
    BY <2>3 DEF VisitedIsCovered
  <2>4. CASE UNCHANGED vars
    BY <2>4 DEF VisitedIsCovered, vars
  <2>5. QED
    BY <2>1, <2>2, <2>3, <2>4 DEF Next, Append, Clear, Initialize
<1>3. TypeOK /\ VisitedIsCovered => UpdateCoversSource
  BY DEF UpdateCoversSource
<1>4. QED
  BY <1>1, <1>2, <1>3, TypeCorrect, PTL DEF Spec

-----------------------------------------------------------------------------
(* Refinement: the incremental counters are the recount of the report table *)
(* after every step.                                                        *)

(* The most significant member of a set of reports gives the table's verdict. *)
LEMMA VerdictOfMost ==
    ASSUME NEW S, NEW s \in S, \A t \in S : Rank(t) <= Rank(s)
    PROVE  T!Verdict(S) = Class(s)
BY DEF T!Verdict, T!StatusFailed, T!StatusSkipped, T!StatusPassed, Class, Rank

LEMMA RecountIsCounters ==
    ASSUME NEW map, NEW reports, NEW count \in [Classes -> Int],
           DOMAIN map = {i \in Items : reports[i] # {}},
           \A i \in DOMAIN map : /\ map[i] \in reports[i]
                                 /\ \A t \in reports[i] : Rank(t) <= Rank(map[i]),
           \A c \in Classes : count[c] = Cardinality(Fibre(map, c))
    PROVE  count = T!Recount(reports)
<1>1. \A i \in DOMAIN map : T!Verdict(reports[i]) = Class(map[i])
  BY VerdictOfMost
<1>2. \A c : Fibre(map, c) = {i \in Items : reports[i] # {} /\ T!Verdict(reports[i]) = c}
  BY <1>1 DEF Fibre
<1>3. Classes = T!Classes
  BY DEF Classes, T!Classes, T!StatusPassed, T!StatusFailed, T!StatusSkipped
<1>4. \A S : T!Cardinality(S) = Cardinality(S)
  BY DEF T!Cardinality, Cardinality
<1>5. \A c \in Classes : count[c] = T!Recount(reports)[c]
  BY <1>2, <1>3, <1>4 DEF T!Recount
<1>6. T!Recount(reports) = [c \in Classes |-> T!Recount(reports)[c]]
  BY <1>3 DEF T!Recount
<1>7. QED
  BY <1>5, <1>6

(* In every reachable state the counters are the table's recount.           *)
LEMMA CountersAreRecount ==
    ASSUME TypeOK, CountersMatchItems, StoredIsMostSignificant
    PROVE  \A l \in Lists : counters[l] = T!Recount(reported[l])
<1> SUFFICES ASSUME NEW l \in Lists PROVE counters[l] = T!Recount(reported[l])
  OBVIOUS
<1>1. counters[l] \in [Classes -> Int]
  BY DEF TypeOK
<1>2. QED
  BY <1>1, RecountIsCounters DEF CountersMatchItems, StoredIsMostSignificant

LEMMA SameConstants == T!NoReports = NoReports /\ T!Classes = Classes
BY DEF T!NoReports, NoReports, Classes, T!Classes, T!StatusPassed, T!StatusFailed,
       T!StatusSkipped

(* One iteration of Append is one Report of the table. *)
LEMMA AppendItemReports ==
    ASSUME TypeOK, TypeOK', \A k \in Lists : counters'[k] = T!Recount(reported'[k]),
           NEW l \in Lists, NEW s \in Statuses, NEW i \in Items, AppendItem(l, s, i)
    PROVE  T!Report(l, i, s)
<1> DEFINE reports == [reported[l] EXCEPT ![i] = @ \union {s}]
<1>1. reported' = [reported EXCEPT ![l] = reports]
  BY DEF AppendItem, TypeOK
<1>2. counters'[l] = T!Recount(reports)
  BY <1>1 DEF TypeOK
<1>3. \A m \in Lists \ {l} : counters'[m] = counters[m]
  BY AppendItemOthers
<1>4. counters' = [counters EXCEPT ![l] = T!Recount(reports)]
  BY <1>2, <1>3 DEF TypeOK
<1>5. QED
  BY <1>1, <1>4 DEF T!Report, T!SetReports

(* AllLists implements the report table. *)
THEOREM Refinement == Spec => ImplementsTable
<1>1. Init => T!TableInit
  BY SameConstants DEF Init, T!TableInit, ZeroCounters
<1> DEFINE Inv == TypeOK /\ CountersMatchItems /\ StoredIsMostSignificant
           Recounted == \A k \in Lists : counters[k] = T!Recount(reported[k])
<1>2. Inv => Recounted
  BY CountersAreRecount
<1>3. TypeOK /\ TypeOK' /\ Recounted' /\ [Next]_vars => [T!TableNext]_(T!tableVars)
  <2> SUFFICES ASSUME TypeOK, TypeOK', Recounted', [Next]_vars
               PROVE  T!TableNext \/ UNCHANGED <<reported, counters>>
    BY DEF T!tableVars
  <2>1. ASSUME NEW l \in Lists, NEW i \in Items, NEW s \in Statuses, Append(l, s, i)
        PROVE  T!TableNext
    BY <2>1, AppendItemReports DEF Append, T!TableNext
  <2>2. ASSUME NEW i \in Items, UpdateStep(i)
        PROVE  T!TableNext
    <3>1. loop.dst \in Lists /\ itemToStatus[loop.src][i] \in Statuses
      BY <2>2, SourceEntry DEF TypeOK, UpdateStep, NoLoop, IsLoop
    <3>2. T!Report(loop.dst, i, itemToStatus[loop.src][i])
      BY <2>2, <3>1, AppendItemReports DEF UpdateStep
    <3>3. QED
      BY <3>1, <3>2 DEF T!TableNext
  <2>3. ASSUME NEW l \in Lists, Clear(l)
        PROVE  T!TableNext \/ UNCHANGED <<reported, counters>>
    <3>1. CASE allocated[l]
      <4>1. /\ reported' = [reported EXCEPT ![l] = NoReports]
            /\ counters' = [counters EXCEPT ![l] = ZeroCounters]
        BY <2>3, <3>1 DEF Clear
      <4>2. counters'[l] = T!Recount(NoReports)
        BY <4>1 DEF TypeOK
      <4>3. counters' = [counters EXCEPT ![l] = T!Recount(NoReports)]
        BY <4>1, <4>2 DEF TypeOK
      <4>4. T!Forget(l)
        BY <4>1, <4>3, SameConstants DEF T!Forget, T!SetReports
      <4>5. QED
        BY <4>4 DEF T!TableNext
    <3>2. QED
      BY <2>3, <3>1 DEF Clear
  <2>4. CASE UNCHANGED <<reported, counters>>
    BY <2>4
  <2>5. QED
    BY <2>1, <2>2, <2>3, <2>4 DEF Next, BeginUpdate, Initialize, vars
<1>4. QED
  BY <1>1, <1>2, <1>3, TypeCorrect, CountersCorrect, MostSignificantStored, PTL
     DEF Spec, ImplementsTable, T!TableSpec

-----------------------------------------------------------------------------
(* GetItems lists exactly the items stored with a status: its early return  *)
(* on a zero counter is never wrong, because the counters are exact.        *)
THEOREM GetItemsCorrect == Spec => []GetItemsIsComplete
<1>1. TypeOK /\ CountersMatchItems => GetItemsIsComplete
  <2> SUFFICES ASSUME TypeOK, CountersMatchItems, NEW l \in Lists, NEW s \in Statuses,
                      counters[l][Class(s)] = 0,
                      NEW i \in DOMAIN itemToStatus[l], itemToStatus[l][i] = s
               PROVE  FALSE
    BY DEF GetItemsIsComplete, GetItems
  <2>1. itemToStatus[l] \in ItemMaps
    BY DEF TypeOK
  <2>2. Cardinality(Fibre(itemToStatus[l], Class(s))) = 0
    BY ClassType DEF CountersMatchItems
  <2>3. Fibre(itemToStatus[l], Class(s)) = {}
    BY <2>1, <2>2, FibreFinite, FS_EmptySet
  <2>4. i \in Fibre(itemToStatus[l], Class(s))
    BY DEF Fibre
  <2>5. QED
    BY <2>3, <2>4
<1>2. QED
  BY <1>1, TypeCorrect, CountersCorrect, PTL
=============================================================================

------------------------------- MODULE AllLists -------------------------------
(***************************************************************************)
(* reporthandling/helpers/v1/listing.go: the AllLists objects in which     *)
(* every summary collects items (resource, control and framework ids) with *)
(* the most significant status reported for them.  The map and the four    *)
(* counters are two representations of the same fact, kept in step by hand *)
(* on every insertion and every upgrade.                                   *)
(*                                                                         *)
(* Update is a loop over a Go map, so its iterations are separate steps    *)
(* taken in an arbitrary order; no other call runs in between (one         *)
(* goroutine owns the objects).  A variadic Append is a run of the         *)
(* one-item Append modelled here.                                          *)
(***************************************************************************)
EXTENDS ScanStatus, FiniteSets, Integers

CONSTANTS
    Lists,      \* the AllLists objects
    Items,      \* the identifiers that can be appended
    Statuses    \* the statuses they are appended with

ASSUME ItemsAssumption == IsFiniteSet(Items)
ASSUME StatusesAssumption == Statuses \subseteq ScanningStatus

VARIABLES
    allocated,    \* allocated[l]: the map of l is not nil
    itemToStatus, \* itemToStatus[l]: the map of l
    counters,     \* counters[l]: its fields passed, failed, skipped and other
    loop,         \* the Update loop in progress, or NoLoop
    reported      \* history: the statuses appended for an item since Clear

vars == <<allocated, itemToStatus, counters, loop, reported>>

T == INSTANCE ReportTable WITH tally <- counters

NoLoop == [running |-> FALSE]
IsLoop(l, m, todo) == [running |-> TRUE, dst |-> l, src |-> m, todo |-> todo]

NoReports == [i \in Items |-> {}]
NilMap == [i \in {} |-> StatusUnknown]
ZeroCounters == [c \in Classes |-> 0]

Init ==
    /\ allocated = [l \in Lists |-> FALSE]
    /\ itemToStatus = [l \in Lists |-> NilMap]
    /\ counters = [l \in Lists |-> ZeroCounters]
    /\ loop = NoLoop
    /\ reported = [l \in Lists |-> NoReports]

-----------------------------------------------------------------------------
(* The _Bug operators are mutated forms of the definition that follows them, *)
(* used to confirm that a property can be broken by a fault in the code.     *)

(* Mutated: an upgrade forgets to take the old status out of its counter.    *)
updateCounters_Bug(count, status, delta) ==
    [count EXCEPT ![Class(status)] = @ + 1]

(* updateCounters(status, increment) on a counters record. *)
updateCounters(count, status, delta) ==
    [count EXCEPT ![Class(status)] = @ + delta]

(* The two ways one iteration of Append changes an object: the item is new,  *)
(* or the status appended is strictly more significant than the stored one.  *)
IsNew(map, i) == i \notin DOMAIN map

(* Mutated: the less significant status replaces the other.                  *)
IsUpgrade_Bug(map, i, status) ==
    /\ i \in DOMAIN map
    /\ map[i] # status
    /\ Compare(map[i], status) = map[i]

(* Mutated: the last status appended wins.                                   *)
IsUpgrade_LastBug(map, i, status) ==
    /\ i \in DOMAIN map
    /\ map[i] # status

IsUpgrade(map, i, status) ==
    /\ i \in DOMAIN map
    /\ map[i] # status
    /\ Compare(map[i], status) = status

Assign(map, i, status) ==
    [j \in DOMAIN map \union {i} |-> IF j = i THEN status ELSE map[j]]

AppendItem(l, status, i) ==
    /\ allocated' = [allocated EXCEPT ![l] = TRUE]
    /\ \/ /\ IsNew(itemToStatus[l], i)
          /\ itemToStatus' = [itemToStatus EXCEPT ![l] = Assign(@, i, status)]
          /\ counters' = [counters EXCEPT ![l] = updateCounters(@, status, 1)]
       \/ /\ IsUpgrade(itemToStatus[l], i, status)
          /\ itemToStatus' = [itemToStatus EXCEPT ![l] = Assign(@, i, status)]
          /\ counters' = [counters EXCEPT ![l] =
                updateCounters(updateCounters(@, status, 1), itemToStatus[l][i], 0 - 1)]
       \/ /\ ~IsNew(itemToStatus[l], i)
          /\ ~IsUpgrade(itemToStatus[l], i, status)
          /\ UNCHANGED <<itemToStatus, counters>>
    /\ reported' = [reported EXCEPT ![l][i] = @ \union {status}]

Append(l, status, i) ==
    /\ ~loop.running
    /\ AppendItem(l, status, i)
    /\ UNCHANGED loop

(* Update(all2): the loop over all2's map starts ... *)
BeginUpdate(l, m) ==
    /\ ~loop.running
    /\ DOMAIN itemToStatus[m] # {}
    /\ loop' = IsLoop(l, m, DOMAIN itemToStatus[m])
    /\ UNCHANGED <<allocated, itemToStatus, counters, reported>>

(* ... and appends one entry per step, in the map's arbitrary order. *)
UpdateStep(i) ==
    /\ loop.running
    /\ i \in loop.todo
    /\ AppendItem(loop.dst, itemToStatus[loop.src][i], i)
    /\ loop' = IF loop.todo = {i} THEN NoLoop
              ELSE IsLoop(loop.dst, loop.src, loop.todo \ {i})

(* Mutated: the map is cleared and the counters are kept.                    *)
Clear_CountersBug(l) ==
    /\ ~loop.running
    /\ itemToStatus' = [itemToStatus EXCEPT ![l] = NilMap]
    /\ reported' = [reported EXCEPT ![l] = NoReports]
    /\ UNCHANGED <<allocated, counters, loop>>

Clear(l) ==
    /\ ~loop.running
    /\ IF allocated[l]
       THEN /\ itemToStatus' = [itemToStatus EXCEPT ![l] = NilMap]
            /\ counters' = [counters EXCEPT ![l] = ZeroCounters]
            /\ reported' = [reported EXCEPT ![l] = NoReports]
       ELSE UNCHANGED <<itemToStatus, counters, reported>>
    /\ UNCHANGED <<allocated, loop>>

Initialize(l) ==
    /\ ~loop.running
    /\ allocated' = [allocated EXCEPT ![l] = TRUE]
    /\ UNCHANGED <<itemToStatus, counters, loop, reported>>

Next ==
    \/ \E l \in Lists :
          \/ Clear(l)
          \/ Initialize(l)
          \/ \E i \in Items, s \in Statuses : Append(l, s, i)
          \/ \E m \in Lists : BeginUpdate(l, m)
    \/ \E i \in Items : UpdateStep(i)

Spec == Init /\ [][Next]_vars

-----------------------------------------------------------------------------
(* GetItems(status): the counter decides whether the map is scanned at all. *)
GetItems(l, status) ==
    IF counters[l][Class(status)] = 0 THEN {}
    ELSE {i \in DOMAIN itemToStatus[l] : itemToStatus[l][i] = status}

Len(l) == counters[l]["failed"] + counters[l]["passed"]
          + counters[l]["skipped"] + counters[l]["other"]

-----------------------------------------------------------------------------
ItemMaps == UNION {[D -> Statuses] : D \in SUBSET Items}

(* Type invariant. *)
TypeOK ==
    /\ allocated \in [Lists -> BOOLEAN]
    /\ itemToStatus \in [Lists -> ItemMaps]
    /\ counters \in [Lists -> [Classes -> Int]]
    /\ reported \in [Lists -> [Items -> SUBSET Statuses]]
    /\ \/ loop = NoLoop
       \/ \E l, m \in Lists : \E todo \in SUBSET (DOMAIN itemToStatus[m]) :
             loop = IsLoop(l, m, todo)

Fibre(map, c) == {i \in DOMAIN map : Class(map[i]) = c}

(* The counters that Append adjusts by hand, one up and one down, are at     *)
(* every moment the number of items of each class in the map, so Len and the *)
(* summaries built from them (StatusCounters.Set) count real items.          *)
CountersMatchItems ==
    \A l \in Lists : \A c \in Classes : counters[l][c] = Cardinality(Fibre(itemToStatus[l], c))

(* GetItems' shortcut on a zero counter never hides an item: what it lists   *)
(* is exactly the set of items stored with that status.                      *)
GetItemsIsComplete ==
    \A l \in Lists : \A s \in Statuses :
        GetItems(l, s) = {i \in DOMAIN itemToStatus[l] : itemToStatus[l][i] = s}

(* Whatever the order of appends, an item's stored status was really         *)
(* reported for it (Compare can yield "passed" for two statuses neither of   *)
(* which is passed) and no more significant one was.                         *)
StoredIsMostSignificant ==
    \A l \in Lists :
        /\ DOMAIN itemToStatus[l] = {i \in Items : reported[l][i] # {}}
        /\ \A i \in DOMAIN itemToStatus[l] :
              /\ itemToStatus[l][i] \in reported[l][i]
              /\ \A s \in reported[l][i] : Rank(s) <= Rank(itemToStatus[l][i])

(* The entries Update has already visited are in the destination, with at    *)
(* least the significance they have in the source, whatever order the map    *)
(* is visited in.                                                            *)
VisitedIsCovered ==
    loop.running =>
        \A i \in DOMAIN itemToStatus[loop.src] \ loop.todo :
            /\ i \in DOMAIN itemToStatus[loop.dst]
            /\ Rank(itemToStatus[loop.src][i]) <= Rank(itemToStatus[loop.dst][i])

(* Whatever is called while an Update runs, the entries it has still to visit *)
(* are in its source (TypeOK), and those it has visited are merged.          *)
UpdateCoversSource == TypeOK /\ VisitedIsCovered

(* An AllLists object implements the report table: its incremental counters  *)
(* are the table's recount after every step.                                 *)
ImplementsTable == T!TableSpec
=============================================================================

----------------------------- MODULE ReportTable -----------------------------
(***************************************************************************)
(* What an AllLists object promises its callers, said without its map and  *)
(* its incremental counters: it collects the statuses reported for each    *)
(* item, and its tally says how many items have a given status class as    *)
(* their most significant report.                                          *)
(***************************************************************************)
EXTENDS ScanStatus, FiniteSets

CONSTANTS
    Lists,      \* the AllLists objects
    Items,      \* resource, control or framework identifiers
    Statuses    \* the statuses callers report

VARIABLES
    reported,   \* reported[l][i]: the statuses reported to l for item i
    tally       \* tally[l][c]: the number of items of class c in l

tableVars == <<reported, tally>>

Recount(reports) ==
    [c \in Classes |->
        Cardinality({i \in Items : reports[i] # {} /\ Verdict(reports[i]) = c})]

NoReports == [i \in Items |-> {}]

TableInit ==
    /\ reported = [l \in Lists |-> NoReports]
    /\ tally = [l \in Lists |-> [c \in Classes |-> 0]]

SetReports(l, reports) ==
    /\ reported' = [reported EXCEPT ![l] = reports]
    /\ tally' = [tally EXCEPT ![l] = Recount(reports)]

Report(l, i, s) ==
    SetReports(l, [reported[l] EXCEPT ![i] = @ \union {s}])

Forget(l) == SetReports(l, NoReports)

TableNext ==
    \E l \in Lists :
        \/ Forget(l)
        \/ \E i \in Items, s \in Statuses : Report(l, i, s)

TableSpec == TableInit /\ [][TableNext]_tableVars
=============================================================================

----------------------------- MODULE MCAttackPaths -----------------------------
(***************************************************************************)
(* Every tree of four steps in every order, and six tracks in which a name  *)
(* is used twice; two handlers.                                             *)
(***************************************************************************)
EXTENDS AttackPaths

AllControl ==
    [initial |-> [categories |-> {"A"}, tags |-> {"security"}, score |-> 2],
     shared  |-> [categories |-> {"A", "B", "C"}, tags |-> {"security-impact"}, score |-> 3],
     middle  |-> [categories |-> {"B"}, tags |-> {"security", "security-impact"}, score |-> 5],
     leaf    |-> [categories |-> {"C", "D"}, tags |-> {"security"}, score |-> 7],
     last    |-> [categories |-> {"D"}, tags |-> {}, score |-> 9]]

Substeps(parent) ==
    [s \in 1 .. 4 |-> SetToSortSeq({t \in 2 .. 4 : parent[t] = s}, LAMBDA x, y : x < y)]
Parents == {parent \in [2 .. 4 -> 1 .. 3] : \A s \in 2 .. 4 : parent[s] < s}
Named(name) == {[name |-> name, sub |-> Substeps(parent)] : parent \in Parents}

AllTracks ==
    Named(<<"A", "B", "C", "D">>)
    \union {t \in Named(<<"A", "B", "B", "D">>) \union Named(<<"A", "B", "C", "A">>) : Len(t.sub[1]) = 2}

AllFailedLists ==
    {<<"initial", "middle", "leaf">>, <<"shared", "initial", "unheard">>,
     <<"leaf", "last", "middle">>, <<"shared", "last", "middle", "leaf", "initial">>, <<"last">>}

AllKnownSets == {DOMAIN AllControl, DOMAIN AllControl \ {"leaf"}}

(* TLC evaluates a definition without parameters once, but one that a        *)
(* constant is replaced with wherever the constant occurs.                   *)
MCControl == AllControl
MCTracks == AllTracks
MCFailedLists == AllFailedLists
MCKnownSets == AllKnownSets
=============================================================================

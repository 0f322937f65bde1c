------------------------------ MODULE MCAllLists ------------------------------
(***************************************************************************)
(* Two objects and two items, with one status of each class: the loops of  *)
(* Update between the objects and into themselves, upgrades of one item    *)
(* while the other stays, and the unknown status that passed replaces.     *)
(***************************************************************************)
EXTENDS AllLists, TLC

MCStatuses == {"failed", "skipped", "passed", ""}

Symmetry == Permutations(Lists) \union Permutations(Items)
=============================================================================

------------------------------ MODULE AttackSteps ------------------------------
(***************************************************************************)
(* The steps of an attack track (reporthandling/attacktrack/v1alpha1): a    *)
(* tree of Go structs, so always a tree by position, but the algorithms key *)
(* their maps by the NAMES of the steps.  A track is                        *)
(*    [name |-> the name of each step, sub |-> the substeps of each step],  *)
(* its steps are 1 .. n and 1 is the root (Spec.Data).                      *)
(***************************************************************************)
EXTENDS Integers, Sequences, SequencesExt

CONSTANTS
    Control   \* allControls: control id -> [categories, tags, score]

Root == 1
Steps(track) == DOMAIN track.name

(* IAttackTrack.IsValid: depth first over the tree, noting names.            *)
RECURSIVE directedDfs(_, _, _)

directedDfs(track, step, visited) ==
    IF track.name[step] \in visited THEN [ok |-> FALSE, visited |-> visited]
    ELSE FoldLeft(LAMBDA acc, child :
                      IF acc.ok THEN directedDfs(track, child, acc.visited) ELSE acc,
                  [ok |-> TRUE, visited |-> visited \union {track.name[step]}],
                  track.sub[step])

IsValid(track) == directedDfs(track, Root, {}).ok

(* The order of the iterator: its stack pops the last substep first.         *)
RECURSIVE IteratorFrom(_, _)
IteratorFrom(track, step) ==
    <<step>> \o FlattenSeq([i \in DOMAIN track.sub[step] |->
                               IteratorFrom(track, Reverse(track.sub[step])[i])])

Iterator(track) == IteratorFrom(track, Root)

(* Mutated: a failed id that allControls does not know is kept.              *)
GetAssociatedControls_Bug(failed, category) ==
    SelectSeq(failed, LAMBDA id : id \in DOMAIN Control => category \in Control[id].categories)

(* The failed controls of a category, in the order they are listed; those    *)
(* that allControls does not know are skipped.                               *)
GetAssociatedControls(failed, category) ==
    SelectSeq(failed, LAMBDA id : id \in DOMAIN Control /\ category \in Control[id].categories)
=============================================================================

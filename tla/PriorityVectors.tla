---------------------------- MODULE PriorityVectors ----------------------------
(***************************************************************************)
(* reporthandling/results/v1/prioritization: the vectors of controls of an  *)
(* attack path, one control for each of its steps, and the score and        *)
(* severity of a resource with such vectors.                                *)
(*                                                                         *)
(* A path is a sequence of steps, a step here [category, controls]; a       *)
(* vector is a sequence of [category, control].                             *)
(***************************************************************************)
EXTENDS AttackSteps, ControlSeverity, FiniteSetsExt

(* The choices of one control per step from indices on: the rightmost index  *)
(* that can moves on, those to its right start again.                        *)
RECURSIVE ChoicesFrom(_, _)

(* Mutated: the indices to the right are left where they are.                *)
ChoicesFrom_Bug(path, indices) ==
    LET movable == {i \in DOMAIN path : indices[i] < Len(path[i].controls)}
    IN  <<indices>> \o
        (IF movable = {} THEN << >>
         ELSE ChoicesFrom(path, [indices EXCEPT ![Max(movable)] = @ + 1]))

ChoicesFrom(path, indices) ==
    LET movable == {i \in DOMAIN path : indices[i] < Len(path[i].controls)}
    IN  <<indices>> \o
        (IF movable = {} THEN << >>
         ELSE ChoicesFrom(path, [i \in DOMAIN path |->
                  IF i < Max(movable) THEN indices[i]
                  ELSE IF i = Max(movable) THEN indices[i] + 1
                  ELSE 1]))

(* At least one control is more than security-impact.                        *)
IsValidVector(vector) ==
    \E i \in DOMAIN vector : Control[vector[i].control].tags \ {"security-impact"} # {}

controlsVectorFromSinglePath(path) ==
    LET choices == ChoicesFrom(path, [i \in DOMAIN path |-> 1])
        VectorOf(indices) == [i \in DOMAIN path |->
            [category |-> path[i].category, control |-> path[i].controls[indices[i]]]]
    IN  SelectSeq([k \in DOMAIN choices |-> VectorOf(choices[k])], IsValidVector)

(* The first choice of a step without controls indexes an empty list.        *)
Panics(paths) == \E p \in DOMAIN paths : \E i \in DOMAIN paths[p] : paths[p][i].controls = << >>

ControlsVectorFromAttackTrackPaths(paths) ==
    FlattenSeq([p \in DOMAIN paths |-> controlsVectorFromSinglePath(paths[p])])

(* Scoring and rating a vector is an error if a control of it is not in the  *)
(* map of controls it is given.                                              *)
Unscorable(vector, known) == \E i \in DOMAIN vector : vector[i].control \notin known

(* The product of the scores of a vector, weighted by the replicas: in       *)
(* tenths.                                                                   *)
VectorScore(vector, replicas) ==
    IF vector = << >> THEN 0
    ELSE FoldLeft(LAMBDA acc, x : acc * Control[x.control].score, 10 + replicas, vector)

VectorSeverity(vector) ==
    FoldLeft(LAMBDA acc, x : Max({acc, ControlSeverityToInt(Control[x.control].score)}), 0, vector)

(* PrioritizedResource: the sum and the maximum over its vectors, and the     *)
(* controls it lists.                                                        *)
ResourceScore(vectors, replicas) ==
    FoldLeft(LAMBDA acc, v : acc + VectorScore(v, replicas), 0, vectors)
ResourceSeverity(vectors) == FoldLeft(LAMBDA acc, v : Max({acc, VectorSeverity(v)}), 0, vectors)
ListControlsIDs(vectors) ==
    FlattenSeq([k \in DOMAIN vectors |-> [i \in DOMAIN vectors[k] |-> vectors[k][i].control]])
=============================================================================

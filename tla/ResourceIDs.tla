------------------------------ MODULE ResourceIDs ------------------------------
(***************************************************************************)
(* The lists of resource identifiers behind the counters of the v1 reports  *)
(* (reporthandling/datastructuresmethodshelper.go, internal/slices).  The   *)
(* helpers on slices work in place: what they return shares its array with  *)
(* what they were given, and they leave the array's tail as it was.         *)
(* Pure definitions; an array is a sequence.                                *)
(***************************************************************************)
EXTENDS SequencesExt

(* What the helpers return. *)
UniqueStrings(s) ==
    FoldLeft(LAMBDA unique, x : IF Contains(unique, x) THEN unique ELSE Append(unique, x),
             << >>, s)

(* Mutated: what follows a removed element is not looked at.                 *)
TrimStable_Bug(origin, trimFrom) ==
    LET kept == {i \in DOMAIN origin :
                    ~Contains(trimFrom, origin[i]) \/ (i > 1 /\ Contains(trimFrom, origin[i - 1]))}
    IN  [n \in 1 .. Cardinality(kept) |->
            origin[CHOOSE i \in kept : Cardinality({j \in kept : j <= i}) = n]]

TrimStable(origin, trimFrom) ==
    FoldLeft(LAMBDA kept, x : IF Contains(trimFrom, x) THEN kept ELSE Append(kept, x),
             << >>, origin)

(* What they leave in the array: the result, shifted to its front.           *)
InPlace(array, result) == result \o SubSeq(array, Len(result) + 1, Len(array))

NoIDs == [failed |-> << >>, warning |-> << >>, passed |-> << >>]

(* setFailedResources, setWarningResources and setPassedResources, in that   *)
(* order: a resource is on the first list it belongs to.                     *)
IDs(failed, warning, passed) ==
    LET f == UniqueStrings(failed)
        w == TrimStable(UniqueStrings(warning), f)
    IN  [failed |-> f, warning |-> w, passed |-> TrimStable(UniqueStrings(passed), f \o w)]

(* Mutated: the lists of one report replace those before it.                 *)
append_Bug(r, a) ==
    IDs(IF a.failed = << >> THEN r.failed ELSE a.failed, r.warning \o a.warning,
        r.passed \o a.passed)

append(r, a) == IDs(r.failed \o a.failed, r.warning \o a.warning, r.passed \o a.passed)

GetAllResources(r) == r.failed \o r.warning \o r.passed
=============================================================================

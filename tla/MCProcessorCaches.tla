-------------------------- MODULE MCProcessorCaches --------------------------
(***************************************************************************)
(* Two patterns, one of which does not compile, a pattern that accepts a   *)
(* name only when case is ignored, and designators that differ in one part *)
(* of the cache key each.                                                  *)
(***************************************************************************)
EXTENDS ProcessorCaches, TLC

MCPattern == {"nginx", "ng["}
MCInvalid == {"ng["}
MCName == {"Nginx", "other"}
MCAccepts == {[fold |-> TRUE, pattern |-> "nginx", name |-> "Nginx"]}

Kind == <<"k", "i", "n", "d">>
App == <<"a", "p", "p">>
MCSchemaKeys == {Kind}

DesignatorOf(type, ref, attributes) == [type |-> type, ref |-> ref, attributes |-> attributes]
None == [k \in {} |-> <<>>]

MCDesignator ==
    { DesignatorOf("attributes", "", (Kind :> <<"a">>)),
      DesignatorOf("attributes", "", (App :> <<"a">>)),
      DesignatorOf("attributes", "x", None),
      DesignatorOf("WLID", "x", None) }
=============================================================================

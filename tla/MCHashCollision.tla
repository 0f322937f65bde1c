--------------------------- MODULE MCHashCollision ---------------------------
(***************************************************************************)
(* Two designators with one label each, a0b = c and b = c0a: the bytes      *)
(* hashed for them are the same, since nothing marks where the value ends   *)
(* and the key begins but a character that both may contain.                *)
(***************************************************************************)
EXTENDS ProcessorCaches, TLC

MCDesignator ==
    {[type |-> "attributes", ref |-> "", attributes |-> (key :> value)] :
        <<key, value>> \in { << <<"a", "0", "b">>, <<"c">> >>,
                             << <<"b">>, <<"c", "0", "a">> >> }}
=============================================================================

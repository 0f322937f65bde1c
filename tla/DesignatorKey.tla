---------------------------- MODULE DesignatorKey ----------------------------
(***************************************************************************)
(* exceptions/designators_cache.go and exceptions/internal/hashmap: the key *)
(* under which the attributes of a designator are cached.  A designator is  *)
(* [type, ref, attributes]: ref stands for its fields WLID, WildWLID and    *)
(* SID, attributes is its map[string]string.  Strings are sequences of      *)
(* characters here, because the key is a hash of their bytes.               *)
(*                                                                         *)
(* FNV-1a and the product in the finite field are taken as free of          *)
(* collisions: what remains of HashMap is the bag of byte strings it feeds  *)
(* to FNV.  Pure definitions.                                               *)
(***************************************************************************)
EXTENDS Naturals, Sequences, FiniteSets

CONSTANTS
    SchemaKeys  \* the attribute keys that are designator fields, not labels

(* The bytes hashed for one entry of the map: hackZeroAlloc hands back the  *)
(* value before the key, and a character 0 is written between them.         *)
EntryBytes(attributes, key) == attributes[key] \o <<"0">> \o key

HashMap(attributes) ==
    LET bytes == {EntryBytes(attributes, key) : key \in DOMAIN attributes}
    IN  [b \in bytes |->
            Cardinality({key \in DOMAIN attributes : EntryBytes(attributes, key) = b})]

(* Mutated: the type of the designator is left out of the key.              *)
toDesignatorKey_Bug(d) ==
    [ref |-> d.ref, lenAttributes |-> Cardinality(DOMAIN d.attributes),
     attributesHash |-> HashMap(d.attributes)]

toDesignatorKey(d) ==
    [type |-> d.type, ref |-> d.ref,
     lenAttributes |-> Cardinality(DOMAIN d.attributes),
     attributesHash |-> HashMap(d.attributes)]

(* DigestPortalDesignator (armoapi-go): for a designator of type attributes  *)
(* the schema fields, and every other entry as a label; for the other types  *)
(* what the referenced identifier says.                                      *)
Digest(d) ==
    [ref |-> IF d.type = "attributes" THEN "" ELSE d.ref,
     fields |-> [k \in (DOMAIN d.attributes) \intersect SchemaKeys |->
                    d.attributes[k]],
     labels |-> [k \in (DOMAIN d.attributes) \ SchemaKeys |-> d.attributes[k]]]
=============================================================================

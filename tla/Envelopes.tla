------------------------------ MODULE Envelopes ------------------------------
(***************************************************************************)
(* objectsenvelopes: the views that the envelopes (IMetadata) give of a     *)
(* decoded JSON object.  A Go map is a function of its keys, those of the   *)
(* nested metadata and roleRef written out; a missing key is not in its     *)
(* domain.  The envelopes of k8s-interface (workload, list, base object,    *)
(* cloud description) read the same keys and differ in their tests only.    *)
(***************************************************************************)
EXTENDS TLC, Sequences

CONSTANTS
    Group,           \* the API group of each apiVersion
    GroupHostSensor, \* the group of host sensor data
    CloudGroups      \* the groups of cloud descriptions

NotAString == "<not a string>"

(* A string of the map, empty if missing or not a string.                    *)
objectString(m, k) == IF k \in DOMAIN m /\ m[k] # NotAString THEN m[k] ELSE ""

Put(m, k, v) == [x \in DOMAIN m \union {k} |-> IF x = k THEN v ELSE m[x]]
Without(m, k) == [x \in DOMAIN m \ {k} |-> m[x]]

-----------------------------------------------------------------------------
(* The tests of GetObjectType, each on a map that has what it asks for.      *)
IsTypeRegoResponseVector(m) == {"kind", "name", "relatedObjects"} \subseteq DOMAIN m
HasGroup(m, groups) ==
    "apiVersion" \in DOMAIN m /\ m["apiVersion"] \in DOMAIN Group /\ Group[m["apiVersion"]] \in groups
IsTypeTypeHostSensor(m) == HasGroup(m, {GroupHostSensor})
IsTypeLocalWorkload(m) == "sourcePath" \in DOMAIN m
IsTypeScanObject(m) == {"apiVersion", "kind", "metadata.name"} \subseteq DOMAIN m
IsTypeWorkload(m) == {"apiVersion", "kind", "metadata.name"} \subseteq DOMAIN m
IsTypeListWorkloads(m) == {"apiVersion", "kind", "items"} \subseteq DOMAIN m
IsBaseObject(m) == "kind" \in DOMAIN m

(* The first test that holds decides.                                        *)
GetObjectType(m) ==
    IF IsTypeRegoResponseVector(m) THEN "regoResponse"
    ELSE IF IsTypeTypeHostSensor(m) THEN "HostSensor"
    ELSE IF HasGroup(m, CloudGroups) THEN "cloud"
    ELSE IF IsTypeLocalWorkload(m) THEN "LocalWorkload"
    ELSE IF IsTypeWorkload(m) THEN "workload"
    ELSE IF IsTypeListWorkloads(m) THEN "list"
    ELSE IF IsBaseObject(m) THEN "base"
    ELSE "unknown"

(* HostSensorDataEnvelope and ScanObject are structs filled from the map;    *)
(* the other envelopes keep the map itself.                                  *)
StructTypes == {"HostSensor", "scan"}

StructKeys(type) ==
    {"apiVersion", "kind", "metadata.name"}
    \union IF type = "HostSensor" THEN {"data"} ELSE {"metadata.namespace"}

AsStruct(type, m) == [k \in StructKeys(type) |-> objectString(m, k)]

(* GetObject of a struct: marshalled, so an empty namespace is left out.     *)
StructAsMap(s) ==
    [k \in {x \in DOMAIN s : x # "metadata.namespace" \/ s[x] # ""} |-> s[k]]

-----------------------------------------------------------------------------
(* Where the envelopes keep a name and a namespace.                          *)
NameKey(type) == IF type = "regoResponse" THEN "name" ELSE "metadata.name"
NamespaceKey(type) == IF type = "regoResponse" THEN "namespace" ELSE "metadata.namespace"

GetName(type, m) == objectString(m, NameKey(type))
GetKind(m) == objectString(m, "kind")

(* A host sensor has no namespace, whatever its map says.                    *)
GetNamespace(type, m) ==
    IF type = "HostSensor" THEN "" ELSE objectString(m, NamespaceKey(type))

(* A vector without an apiVersion has that of the API group it names.        *)
GetApiVersion(type, m) ==
    IF type = "regoResponse" /\ "apiVersion" \notin DOMAIN m
    THEN objectString(m, "apiGroup")
    ELSE objectString(m, "apiVersion")

(* The ID of one object: a local workload's starts with its path.            *)
OwnID(type, m) ==
    [path |-> IF type = "LocalWorkload" THEN <<objectString(m, "sourcePath")>> ELSE << >>,
     apiVersion |-> GetApiVersion(type, m), namespace |-> GetNamespace(type, m),
     kind |-> GetKind(m), name |-> GetName(type, m)]

(* What SetNamespace, SetName, SetKind and SetApiVersion write.              *)
Settable == {"namespace", "name", "kind", "apiVersion"}
Written(type, m, field, v) ==
    IF field = "namespace" THEN (IF type = "HostSensor" THEN m ELSE Put(m, NamespaceKey(type), v))
    ELSE Put(m, IF field = "name" THEN NameKey(type) ELSE field, v)
=============================================================================

--------------------------- MODULE ReportResources ---------------------------
(***************************************************************************)
(* The resources of a scan, from the objects read to the report written and *)
(* read back: RegoResourcesAggregator makes vectors of subjects out of      *)
(* bindings and roles, reporthandling.Resource wraps an object twice (the   *)
(* Object that is written and the IMetadata it is asked through), and       *)
(* setters reach whatever the wrappers share.                               *)
(*                                                                         *)
(* Go maps have addresses: relatedObjects and subjects hold addresses of    *)
(* maps, an envelope the address of its map or of its own struct.  Subjects *)
(* that cannot be copied are maps with a nested value (gob knows no type    *)
(* for it).  Left out: vectors related to vectors, a Resource whose Object  *)
(* is not a decoded map, and the deprecated Get and SetWorkload, which are  *)
(* the Object ones.                                                         *)
(***************************************************************************)
EXTENDS SubjectVectors, FiniteSets, SequencesExt

CONSTANTS
    Scenarios,    \* [heap, objects, aggregator, calls]: maps, the addresses of the k8s
                  \* objects among them, the rule's attribute, the calls that follow
    Values,       \* what the setters write
    Spare,        \* the objects given to SetObject
    MaxResources  \* bound: resources of the report

Anywhere == "<cluster>" \* no namespace
Before == -1            \* calls until the rule's objects are aggregated

-----------------------------------------------------------------------------
(* The maps a map refers to; a null among the subjects is 0.                 *)
Listed(m) == IF "relatedObjects" \in DOMAIN m THEN m["relatedObjects"].list ELSE << >>
SubjectList(m) == IF "subjects" \in DOMAIN m THEN m["subjects"] ELSE << >>
Children(m) == ToSet(Listed(m)) \union (ToSet(SubjectList(m)) \ {0})
Reach(h, a) == {a} \union Children(h[a]) \union UNION {Children(h[c]) : c \in Children(h[a])}

IsSequence(s) == s \in Seq(ToSet(s))

(* References of a map stay among the maps h, and end after two: a vector of  *)
(* subjects refers to bindings and roles, a binding to its subjects.         *)
RefersWithin(m, h) ==
    /\ Listed(m) \in Seq(DOMAIN h)
    /\ SubjectList(m) \in Seq({0} \union DOMAIN h)
IsHeap(h) ==
    /\ IsSequence(h)
    /\ \A a \in DOMAIN h : RefersWithin(h[a], h)
    /\ \A a \in DOMAIN h : \A b \in Children(h[a]) : \A c \in Children(h[b]) : Children(h[c]) = {}

ASSUME KindsAssumption == {"", NotAString} \intersect (BindingKinds \union RoleKinds) = {}
ASSUME ValuesAssumption == NotAString \notin Values
ASSUME SpareAssumption == \A m \in Spare : {"relatedObjects", "subjects"} \intersect DOMAIN m = {}

(* What a JSON decoder makes: maps that refer to others, each of them met     *)
(* once in a list.  Roles have names.                                        *)
ASSUME ScenariosAssumption ==
    \A o \in Scenarios :
        /\ IsHeap(o.heap)
        /\ o.objects \in Seq(DOMAIN o.heap)
        /\ \A i, j \in DOMAIN o.objects : o.objects[i] = o.objects[j] => i = j
        /\ o.calls \in Nat
        /\ \A a \in DOMAIN o.heap : LET data == SubjectList(o.heap[a])
                IN  \A i, j \in DOMAIN data : data[i] = data[j] /\ data[i] # 0 => i = j
        /\ \A a \in ToSet(o.objects) :
              /\ objectString(o.heap[a], "metadata.namespace") # Anywhere
              /\ objectString(o.heap[a], "kind") \in BindingKinds \union RoleKinds =>
                    \A b \in Children(o.heap[a]) : Children(o.heap[b]) = {}
              /\ objectString(o.heap[a], "kind") \in RoleKinds =>
                    "metadata.name" \in DOMAIN o.heap[a] /\ o.heap[a]["metadata.name"] # NotAString

-----------------------------------------------------------------------------
VARIABLES
    heap,      \* heap[a]: the map or struct at address a
    envelope,  \* envelope[e]: [type, at, replaced (history: SetObject gave it a map)]
    scenario,  \* what was given
    vectors,   \* the envelopes RegoResourcesAggregator returned
    failed,    \* history: it returned an error
    resources, \* sequence of [id, object, meta, type]: the address of Object, the envelope
               \* or 0; type is history: that of the envelope the ID was asked
    touched,   \* history: the maps that were changed, and copies of those
    calls      \* calls left, or Before

vars == <<heap, envelope, scenario, vectors, failed, resources, touched, calls>>

Env(type, at) == [type |-> type, at |-> at, replaced |-> FALSE]

(* NewObject on the map at a, after the maps h: the envelope, with a struct   *)
(* of its own at the end of the maps if it is of a struct type.               *)
Opened(h, type, a) ==
    IF type \in StructTypes
    THEN [heap |-> h \o <<AsStruct(type, h[a])>>, env |-> Env(type, Len(h) + 1)]
    ELSE [heap |-> h, env |-> Env(type, a)]

NewObject(h, a) == Opened(h, GetObjectType(h[a]), a)

(* The objects given, each in the envelope NewObject makes for it; the cell   *)
(* kept for its struct stays empty if it has none.                           *)
Given(o) ==
    LET type(i) == GetObjectType(o.heap[o.objects[i]])
        struct(i) == type(i) \in StructTypes
    IN  [heap |-> o.heap \o [i \in DOMAIN o.objects |->
                IF struct(i) THEN AsStruct(type(i), o.heap[o.objects[i]]) ELSE << >>],
         envs |-> [i \in DOMAIN o.objects |->
                Env(type(i), IF struct(i) THEN Len(o.heap) + i ELSE o.objects[i])]]

Init ==
    /\ scenario \in Scenarios
    /\ heap = Given(scenario).heap
    /\ envelope = Given(scenario).envs
    /\ vectors = << >>
    /\ failed = FALSE
    /\ resources = << >>
    /\ touched = {}
    /\ calls = Before

(* Mutated: the list a JSON decoder makes is not recognized.                 *)
Related_Bug(m) ==
    IF "relatedObjects" \in DOMAIN m /\ ~m["relatedObjects"].typed THEN << >> ELSE Listed(m)

(* GetRelatedObjects: both types a list of maps may have are recognized.     *)
Related(m) == Listed(m)

(* GetID: the IDs of a vector and of its related objects, sorted.            *)
IDs(h, env) ==
    LET related == IF env.type = "regoResponse" THEN Related(h[env.at]) ELSE << >>
    IN  <<OwnID(env.type, h[env.at])>>
            \o [i \in DOMAIN related |-> OwnID(GetObjectType(h[related[i]]), h[related[i]])]

Bag(ids) == [id \in ToSet(ids) |-> Cardinality({i \in DOMAIN ids : ids[i] = id})]
GetID(h, env) == Bag(IDs(h, env))

-----------------------------------------------------------------------------
(* The three loops of AggregateResourcesBySubjects, each with the objects it *)
(* passes over.                                                              *)
OfKind(a, kinds) == objectString(heap[a], "kind") \in kinds

SubjectTriples(b, r) ==
    LET data == SubjectList(heap[b])
    IN  FlattenSeq([k \in DOMAIN data |->
            IF data[k] = 0 THEN << >> ELSE <<[binding |-> b, role |-> r, subject |-> data[k]]>>])

RoleTriples(b) ==
    FlattenSeq([j \in DOMAIN scenario.objects |->
        LET r == scenario.objects[j]
        IN  IF OfKind(r, RoleKinds) /\ bindingReferencesRole(heap[b], heap[r])
            THEN SubjectTriples(b, r) ELSE << >>])

Triples ==
    FlattenSeq([i \in DOMAIN scenario.objects |->
        LET b == scenario.objects[i]
        IN  IF OfKind(b, BindingKinds) THEN RoleTriples(b) ELSE << >>])

CanCopy(m) == "nested" \notin DOMAIN m

(* What it returns, with the subject that cannot be copied the first ones.   *)
Copied ==
    LET bad == {i \in DOMAIN Triples : ~CanCopy(heap[Triples[i].subject])}
    IN  IF bad = {} THEN Triples ELSE SubSeq(Triples, 1, (CHOOSE i \in bad : \A j \in bad : i <= j) - 1)

Vector(t) ==
    Put(heap[t.subject], "relatedObjects", [typed |-> TRUE, list |-> <<t.binding, t.role>>])

(* Mutated: the subject itself is made the vector.                           *)
AggregateResourcesBySubjects_Bug ==
    /\ heap' = [a \in DOMAIN heap |->
            IF \E i \in DOMAIN Copied : Copied[i].subject = a
            THEN Vector(CHOOSE t \in ToSet(Copied) : t.subject = a) ELSE heap[a]]
    /\ envelope' = envelope
            \o [i \in DOMAIN Copied |-> Env("regoResponse", Copied[i].subject)]
    /\ vectors' = [i \in DOMAIN Copied |-> Len(envelope) + i]
    /\ failed' = (Copied # Triples)

AggregateResourcesBySubjects ==
    /\ heap' = heap \o [i \in DOMAIN Copied |-> Vector(Copied[i])]
    /\ envelope' = envelope
            \o [i \in DOMAIN Copied |-> Env("regoResponse", Len(heap) + i)]
    /\ vectors' = [i \in DOMAIN Copied |-> Len(envelope) + i]
    /\ failed' = (Copied # Triples)

AggregateResourcesByAPIServerPod ==
    LET pods == {i \in DOMAIN scenario.objects : IsAPIServerPod(heap[scenario.objects[i]])}
    IN  /\ IF pods = {} THEN envelope' = envelope /\ vectors' = << >>
           ELSE /\ envelope' = Append(envelope, Env("workload", scenario.objects[Min(pods)]))
                /\ vectors' = <<Len(envelope) + 1>>
        /\ UNCHANGED <<heap, failed>>

RegoResourcesAggregator ==
    /\ calls = Before
    /\ calls' = scenario.calls
    /\ IF scenario.aggregator = "subject-role-rolebinding" THEN AggregateResourcesBySubjects
       ELSE IF scenario.aggregator = "apiserver-pod" THEN AggregateResourcesByAPIServerPod
       ELSE /\ vectors' = [i \in DOMAIN scenario.objects |-> i]
            /\ UNCHANGED <<heap, envelope, failed>>
    /\ UNCHANGED <<scenario, resources, touched>>

Call ==
    /\ calls \in Nat \ {0}
    /\ calls' = calls - 1
    /\ UNCHANGED <<scenario, vectors, failed>>

-----------------------------------------------------------------------------
(* Resources.  The Object of a struct envelope is a map marshalled for it.   *)
NewResourceIMetadata(e) ==
    LET env == envelope[e]
        struct == env.type \in StructTypes
    IN  /\ Call
        /\ Len(resources) < MaxResources
        /\ heap' = IF struct THEN Append(heap, StructAsMap(heap[env.at])) ELSE heap
        /\ resources' = Append(resources,
                [id |-> GetID(heap, env), object |-> IF struct THEN Len(heap) + 1 ELSE env.at,
                 meta |-> e, type |-> env.type])
        /\ UNCHANGED <<envelope, touched>>

(* The caller leaves ResourceID to be set later.                             *)
NoID == [x \in {} |-> 0]
NewResource(a) ==
    /\ Call
    /\ Len(resources) < MaxResources
    /\ resources' = Append(resources, [id |-> NoID, object |-> a, meta |-> 0, type |-> ""])
    /\ UNCHANGED <<heap, envelope, touched>>

(* middleware: the envelope a resource is asked through, made and kept at    *)
(* the first getter or setter.                                               *)
middleware(r) ==
    IF resources[r].meta # 0 THEN [heap |-> heap, env |-> envelope[resources[r].meta]]
    ELSE NewObject(heap, resources[r].object)

Kept(r) == IF resources[r].meta # 0 THEN resources[r].meta ELSE Len(envelope) + 1
Keep(r, env) ==
    /\ envelope' = IF resources[r].meta # 0 THEN [envelope EXCEPT ![resources[r].meta] = env]
                   ELSE Append(envelope, env)
    /\ resources' = [resources EXCEPT ![r].meta = Kept(r)]

Get(r) ==
    /\ Call
    /\ resources[r].meta = 0
    /\ heap' = middleware(r).heap
    /\ Keep(r, middleware(r).env)
    /\ UNCHANGED touched

(* Mutated: the setter writes to a copy the envelope keeps for itself.       *)
Set_Bug(r, field, v) ==
    LET m == middleware(r)
    IN  /\ Call
        /\ heap' = Append(m.heap, Written(m.env.type, m.heap[m.env.at], field, v))
        /\ Keep(r, [m.env EXCEPT !.at = Len(m.heap) + 1])
        /\ touched' = touched \union {m.env.at}

Set(r, field, v) ==
    LET m == middleware(r)
    IN  /\ Call
        /\ heap' = [m.heap EXCEPT ![m.env.at] = Written(m.env.type, @, field, v)]
        /\ Keep(r, m.env)
        /\ touched' = touched \union {m.env.at}

(* SetObject: a struct is filled from an object of its type, other envelopes *)
(* take the map itself; neither reaches the Object of the resource.          *)
Fits(type, m) == IF type = "HostSensor" THEN IsTypeTypeHostSensor(m) ELSE IsTypeScanObject(m)

SetObject(r, m) ==
    LET o == middleware(r)
        struct == o.env.type \in StructTypes
    IN  /\ Call
        /\ heap' = IF ~struct THEN Append(o.heap, m)
                   ELSE IF Fits(o.env.type, m)
                   THEN [o.heap EXCEPT ![o.env.at] = AsStruct(o.env.type, m)]
                   ELSE o.heap
        /\ Keep(r, IF struct THEN o.env ELSE [o.env EXCEPT !.at = Len(o.heap) + 1, !.replaced = TRUE])
        /\ touched' = IF struct THEN touched \union {o.env.at} ELSE touched

(* Through an envelope itself: the paths of a local workload, the relations  *)
(* of a vector, and the setters of an object related to a vector.            *)
ChangeMap(a, m) ==
    /\ Call
    /\ heap' = [heap EXCEPT ![a] = m]
    /\ touched' = touched \union {a}
    /\ UNCHANGED <<envelope, resources>>

SetPath(e, p) ==
    /\ envelope[e].type = "LocalWorkload"
    /\ ChangeMap(envelope[e].at, Put(heap[envelope[e].at], "sourcePath", p))

DeletePathEntry(e) ==
    /\ envelope[e].type = "LocalWorkload"
    /\ ChangeMap(envelope[e].at, Without(heap[envelope[e].at], "sourcePath"))

SetRelatedObjects(e, list) ==
    /\ envelope[e].type = "regoResponse"
    /\ ChangeMap(envelope[e].at,
            Put(heap[envelope[e].at], "relatedObjects", [typed |-> TRUE, list |-> list]))

SetOfRelated(e, i, v) ==
    /\ envelope[e].type = "regoResponse"
    /\ LET a == Related(heap[envelope[e].at])[i]
       IN  ChangeMap(a, Written(GetObjectType(heap[a]), heap[a], "name", v))

NewScanObject(a) ==
    /\ IsTypeScanObject(heap[a])
    /\ Call
    /\ heap' = Opened(heap, "scan", a).heap
    /\ envelope' = Append(envelope, Opened(heap, "scan", a).env)
    /\ UNCHANGED <<resources, touched>>

-----------------------------------------------------------------------------
(* The report is written in JSON and read back: every map is copied, lists   *)
(* of related objects become lists of anything, the envelope is lost.        *)
CopyOf(a, order) == Len(heap) + (CHOOSE i \in DOMAIN order : order[i] = a)
JSONCopy(a, order) ==
    [k \in DOMAIN heap[a] |->
        IF k = "relatedObjects"
        THEN [typed |-> FALSE,
              list |-> [i \in DOMAIN heap[a][k].list |-> CopyOf(heap[a][k].list[i], order)]]
        ELSE IF k = "subjects"
        THEN [i \in DOMAIN heap[a][k] |->
                IF heap[a][k][i] = 0 THEN 0 ELSE CopyOf(heap[a][k][i], order)]
        ELSE heap[a][k]]

Reload(r) ==
    LET order == SetToSeq(Reach(heap, resources[r].object))
    IN  /\ Call
        /\ Len(resources) < MaxResources
        /\ heap' = heap \o [i \in DOMAIN order |-> JSONCopy(order[i], order)]
        /\ resources' = Append(resources,
                [resources[r] EXCEPT !.object = CopyOf(@, order), !.meta = 0])
        /\ touched' = touched \union {CopyOf(a, order) : a \in touched \intersect ToSet(order)}
        /\ UNCHANGED envelope

(* GetResource of a report: the first resource with the ID, in an envelope   *)
(* of its own over the Object.                                               *)
GetResource(id) ==
    LET found == SelectInSeq(resources, LAMBDA r : r.id = id)
    IN  /\ Call
        /\ found # 0
        /\ heap' = NewObject(heap, resources[found].object).heap
        /\ envelope' = Append(envelope, NewObject(heap, resources[found].object).env)
        /\ UNCHANGED <<resources, touched>>

Next ==
    \/ RegoResourcesAggregator
    \/ \E e \in DOMAIN envelope :
          \/ NewResourceIMetadata(e)
          \/ DeletePathEntry(e)
          \/ \E v \in Values : SetPath(e, v)
          \/ SetRelatedObjects(e, << >>)
          \/ \E v \in Values : \E i \in DOMAIN Related(heap[envelope[e].at]) : SetOfRelated(e, i, v)
    \/ \E i \in DOMAIN scenario.objects :
          NewResource(scenario.objects[i]) \/ NewScanObject(scenario.objects[i])
    \/ \E r \in DOMAIN resources :
          \/ Get(r)
          \/ Reload(r)
          \/ \E field \in Settable : \E v \in Values : Set(r, field, v)
          \/ \E m \in Spare : SetObject(r, m)
          \/ GetResource(resources[r].id)

Spec == Init /\ [][Next]_vars

-----------------------------------------------------------------------------
(* Every envelope is over a map or struct of the heap, every relation and     *)
(* subject is a map of it, every resource has one of the envelopes or none.   *)
TypeOK ==
    /\ \A e \in DOMAIN envelope : envelope[e].at \in DOMAIN heap
    /\ \A a \in DOMAIN heap : Children(heap[a]) \subseteq DOMAIN heap
    /\ ToSet(vectors) \subseteq DOMAIN envelope
    /\ failed \in BOOLEAN
    /\ \A r \in DOMAIN resources :
          resources[r].object \in DOMAIN heap /\ resources[r].meta \in {0} \union DOMAIN envelope
    /\ touched \subseteq DOMAIN heap
    /\ calls \in {Before} \union Nat

(* What Kubernetes does with a roleRef: a cluster scoped role may be bound    *)
(* from anywhere, a namespaced one by a namespaced binding of its namespace,  *)
(* a Role by a RoleBinding only.  An unset or corrupt qualifier may be any.   *)
Completions(v, all) == IF v = "" THEN all ELSE {v}

Strings(k) == {objectString(scenario.heap[a], k) : a \in ToSet(scenario.objects)}
Namespaces(m) ==
    Completions(objectString(m, "metadata.namespace"),
                {"default"} \union (Strings("metadata.namespace") \ {""}))
Scopes(role) ==
    IF role["kind"] = "ClusterRole" THEN {Anywhere}
    ELSE IF role["kind"] = "Role" THEN Namespaces(role)
    ELSE Completions(objectString(role, "metadata.namespace"), {Anywhere})
GroupsOf(v) ==
    Completions(v, {Group[x] : x \in DOMAIN Group} \union {GroupHostSensor} \union Strings("roleRef.apiGroup"))

Resolves(b, r) ==
    /\ {"roleRef.kind", "roleRef.name"} \subseteq DOMAIN b
    /\ b["roleRef.kind"] = r["kind"]
    /\ b["roleRef.name"] = r["metadata.name"]
    /\ GroupsOf(objectString(b, "roleRef.apiGroup")) \intersect GroupsOf(GroupOf(objectString(r, "apiVersion"))) # {}
    /\ \/ Anywhere \in Scopes(r)
       \/ /\ b["kind"] # "ClusterRoleBinding"
          /\ r["kind"] = "Role" => b["kind"] = "RoleBinding"
          /\ Scopes(r) \intersect Namespaces(b) # {}

(* Every subject of a binding is paired once with every role the binding      *)
(* resolves to, and with no other: a same named Role of another namespace     *)
(* grants nothing.  Only an error, of a subject that cannot be copied, leaves *)
(* some out.  (AggregateResourcesBySubjects and bindingReferencesRole.)       *)
Of(kinds) == {a \in ToSet(scenario.objects) : OfKind(a, kinds)}
Resolved ==
    {t \in [binding : Of(BindingKinds), role : Of(RoleKinds), subject : DOMAIN scenario.heap] :
        t.subject \in ToSet(SubjectList(heap[t.binding])) /\ Resolves(heap[t.binding], heap[t.role])}

PairOf(e) ==
    [binding |-> Related(heap[envelope[e].at])[1], role |-> Related(heap[envelope[e].at])[2],
     own |-> OwnID("regoResponse", heap[envelope[e].at])]
ResolvedPair(t) ==
    [binding |-> t.binding, role |-> t.role, own |-> OwnID("regoResponse", heap[t.subject])]

VectorsAreResolutions ==
    scenario.aggregator = "subject-role-rolebinding" /\ calls = scenario.calls =>
        LET found == [i \in DOMAIN vectors |-> PairOf(vectors[i])]
        IN  /\ ToSet(found) \subseteq {ResolvedPair(t) : t \in Resolved}
            /\ IF failed THEN \E t \in Resolved : ~CanCopy(heap[t.subject])
               ELSE /\ ToSet(found) = {ResolvedPair(t) : t \in Resolved}
                    /\ Len(found) = Cardinality(Resolved)

(* Making the vectors of a rule and changing one changes no other vector of   *)
(* the rule and none of the objects they were made from, although they come   *)
(* from the same subject and relate to the same maps.  (The deep copy of      *)
(* AggregateResourcesBySubjects.)                                            *)
Own(e) == heap[envelope[e].at]
VectorsAreIndependent ==
    [][scenario.aggregator = "subject-role-rolebinding" =>
        LET changed == {e \in ToSet(vectors) : Own(e)' # Own(e)}
        IN  /\ Cardinality(changed) <= 1
            /\ changed # {} \/ vectors' # vectors =>
                  \A a \in DOMAIN scenario.heap : heap'[a] = heap[a]]_vars

(* The ID a resource was given is the ID of the object in the report, however *)
(* often the report is written and read back, until a setter changes what the *)
(* ID names.  Not so for an object in an envelope of another type: the vector *)
(* of an API server pod of a manifest is a plain workload, whose ID lacks the *)
(* path of the local workload read back.  (NewResourceIMetadata, GetID,       *)
(* NewObject.)                                                               *)
Retyped(r) ==
    GetObjectType(heap[resources[r].object])
    # IF resources[r].type = "scan" THEN "workload" ELSE resources[r].type

IDNamesWritten ==
    \A r \in DOMAIN resources :
        resources[r].id = NoID \/ Retyped(r) \/ Reach(heap, resources[r].object) \intersect touched # {}
        \/ LET o == NewObject(heap, resources[r].object) IN GetID(o.heap, o.env) = resources[r].id

(* What is set through a resource, or through any envelope of its object, is  *)
(* what the report says of it: unless SetObject gave the envelope another     *)
(* map, or it is a struct, the Object written and the IMetadata asked give    *)
(* the same ID.  (The two faces of reporthandling.Resource.)                 *)
FacesAgree ==
    \A r \in {x \in DOMAIN resources : resources[x].meta # 0} :
        LET env == envelope[resources[r].meta]
        IN  env.replaced \/ env.type # GetObjectType(heap[resources[r].object]) \/ env.type \in StructTypes
            \/ GetID(heap, Env(env.type, resources[r].object)) = GetID(heap, env)

(* Every envelope and resource stays over a map that there is (TypeOK), and   *)
(* the two faces of a resource agree, whatever is set, copied or read back.  *)
ReportShowsSetters == TypeOK /\ FacesAgree
=============================================================================

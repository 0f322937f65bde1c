------------------------ MODULE ReportResources_proof ------------------------
(***************************************************************************)
(* Proofs about ReportResources: maps and structs that refer to each other  *)
(* by address, for any scenarios that a JSON decoder makes.                 *)
(***************************************************************************)
EXTENDS ReportResources, Lemmas

(* The strengthening, said of any scenario o, heap h, envelopes E, resources  *)
(* R, vectors V and touched maps T: an action is a few changes of them in a   *)
(* row.  Addresses are those of maps that exist.                             *)
Types == {"regoResponse", "HostSensor", "cloud", "LocalWorkload", "workload", "list", "base",
          "unknown", "scan", ""}

EnvelopesOK(h, E) ==
    /\ IsSequence(E)
    /\ \A e \in DOMAIN E : E[e] \in [type : Types, at : DOMAIN h, replaced : BOOLEAN]

ResourcesOK(h, E, R) ==
    /\ IsSequence(R)
    /\ \A r \in DOMAIN R :
          R[r] \in [id : {R[r].id}, object : DOMAIN h, meta : {0} \union DOMAIN E, type : Types]

(* A struct belongs to one envelope.  No map refers to it.                   *)
IsStruct(type, m) == DOMAIN m = StructKeys(type) /\ \A k \in DOMAIN m : m[k] # NotAString

Unshared(o, h, E, R, e) ==
    /\ E[e].at \notin DOMAIN o.heap
    /\ \A f \in DOMAIN E : E[f].at = E[e].at => f = e
    /\ \A a \in DOMAIN h : E[e].at \notin Children(h[a])
    /\ \A r \in DOMAIN R : R[r].object # E[e].at

StructsOK(o, h, E, R) ==
    \A e \in DOMAIN E : E[e].type \in StructTypes =>
        IsStruct(E[e].type, h[E[e].at]) /\ Unshared(o, h, E, R, e)

(* The map of an envelope is the Object of the resource, but for a struct or  *)
(* what SetObject replaced.                                                  *)
FacesOK(E, R) ==
    \A r \in DOMAIN R : R[r].meta # 0 =>
        E[R[r].meta].replaced \/ E[R[r].meta].type \in StructTypes \/ E[R[r].meta].at = R[r].object

(* Each vector has a map of its own.                                         *)
VectorsOK(o, E, V) ==
    /\ ToSet(V) \subseteq DOMAIN E
    /\ o.aggregator = "subject-role-rolebinding" =>
          /\ \A e \in ToSet(V) : E[e].at \notin DOMAIN o.heap
          /\ \A e, f \in ToSet(V) : E[e].at = E[f].at => e = f

(* IDNamesWritten, with the ID of the map itself for that of its envelope.   *)
IDOf(h, a) == GetID(h, Env(GetObjectType(h[a]), a))
Kind(x) == IF x.type = "scan" THEN "workload" ELSE x.type
IDKept(h, T, x) ==
    \/ x.id = NoID
    \/ GetObjectType(h[x.object]) # Kind(x)
    \/ Reach(h, x.object) \intersect T # {}
    \/ IDOf(h, x.object) = x.id
IDsOK(h, R, T) == \A r \in DOMAIN R : IDKept(h, T, R[r])

Good(o, h, E, R, V, T) ==
    /\ o \in Scenarios /\ DOMAIN o.heap \subseteq DOMAIN h
    /\ IsHeap(h) /\ EnvelopesOK(h, E) /\ ResourcesOK(h, E, R) /\ StructsOK(o, h, E, R)
    /\ FacesOK(E, R) /\ VectorsOK(o, E, V) /\ IDsOK(h, R, T)
    /\ T \subseteq DOMAIN h

(* The calls begin after the aggregation, which finds what was given.        *)
CallsOK ==
    /\ failed \in BOOLEAN
    /\ calls \in {Before} \union (0 .. scenario.calls)
    /\ calls = Before =>
          /\ \A a \in DOMAIN scenario.heap : heap[a] = scenario.heap[a]
          /\ DOMAIN envelope = DOMAIN scenario.objects
          /\ vectors = << >> /\ resources = << >> /\ touched = {}

IInv == Good(scenario, heap, envelope, resources, vectors, touched) /\ CallsOK

-----------------------------------------------------------------------------
(* Sequences.                                                                *)
LEMMA SequenceFacts ==
    ASSUME NEW s, IsSequence(s)
    PROVE  /\ Len(s) \in Nat /\ DOMAIN s = 1 .. Len(s)
           /\ \A i \in DOMAIN s : s[i] \in ToSet(s)
           /\ ToSet(s) = {s[i] : i \in DOMAIN s}
BY DEF IsSequence, ToSet

LEMMA MadeSequence ==
    ASSUME NEW s, NEW n \in Nat, s = [i \in 1 .. n |-> s[i]]
    PROVE  IsSequence(s) /\ Len(s) = n /\ DOMAIN s = 1 .. n
<1>1. DOMAIN s = 1 .. n
  OBVIOUS
<1>2. \A i \in 1 .. n : s[i] \in ToSet(s)
  BY <1>1 DEF ToSet
<1> DEFINE U == ToSet(s)
<1>3. s \in [1 .. n -> U]
  <2> HIDE DEF U
  <2>1. \A i \in 1 .. n : s[i] \in U
    BY <1>2 DEF U
  <2>2. QED
    BY <2>1
<1>4. s \in Seq(U) /\ Len(s) = n
  <2> HIDE DEF U
  <2>1. QED
    BY <1>3
<1>5. QED
  BY <1>1, <1>4 DEF IsSequence

LEMMA OfMembers ==
    ASSUME NEW E, NEW s \in Seq(E)
    PROVE  IsSequence(s) /\ ToSet(s) \subseteq E
<1>1. Len(s) \in Nat /\ s \in [1 .. Len(s) -> E]
  OBVIOUS
<1>2. s = [i \in 1 .. Len(s) |-> s[i]]
  BY <1>1
<1>3. IsSequence(s)
  BY <1>1, <1>2, MadeSequence
<1>4. QED
  BY <1>1, <1>3 DEF ToSet

(* g is s with t after it.                                                   *)
IsJoin(g, s, t) ==
    /\ IsSequence(g)
    /\ Len(s) \in Nat /\ Len(t) \in Nat
    /\ DOMAIN s = 1 .. Len(s) /\ DOMAIN t = 1 .. Len(t)
    /\ Len(g) = Len(s) + Len(t) /\ DOMAIN g = 1 .. Len(s) + Len(t)
    /\ DOMAIN s \subseteq DOMAIN g
    /\ \A i \in DOMAIN s : g[i] = s[i]
    /\ \A i \in DOMAIN t : Len(s) + i \in DOMAIN g \ DOMAIN s /\ g[Len(s) + i] = t[i]
    /\ \A i \in DOMAIN g : i \in DOMAIN s \/ \E j \in DOMAIN t : i = Len(s) + j
    /\ ToSet(g) = ToSet(s) \union ToSet(t)

LEMMA JoinedSequence ==
    ASSUME NEW s, NEW t, IsSequence(s), IsSequence(t)
    PROVE  IsJoin(s \o t, s, t)
<1> DEFINE U == ToSet(s) \union ToSet(t)
<1>1. s \in Seq(U) /\ t \in Seq(U)
  BY SequenceFacts DEF IsSequence
<1>2. s \o t \in Seq(U) /\ ToSet(s \o t) = U
  BY <1>1, MembersOfConcat
<1> HIDE DEF U
<1> DEFINE g == s \o t
<1>3. /\ Len(s) \in Nat /\ Len(t) \in Nat
      /\ DOMAIN s = 1 .. Len(s) /\ DOMAIN t = 1 .. Len(t)
      /\ Len(g) = Len(s) + Len(t) /\ DOMAIN g = 1 .. Len(s) + Len(t)
      /\ \A i \in DOMAIN s : g[i] = s[i]
      /\ \A i \in DOMAIN t : g[Len(s) + i] = t[i]
  BY <1>1
<1>4. IsSequence(g) /\ ToSet(g) = ToSet(s) \union ToSet(t)
  BY <1>2 DEF IsSequence, U
<1> HIDE DEF g
<1>5. \A i \in DOMAIN g : i \in DOMAIN s \/ \E j \in DOMAIN t : i = Len(s) + j
  <2>1. \A i \in DOMAIN g : i \in DOMAIN s \/ (i - Len(s) \in DOMAIN t /\ i = Len(s) + (i - Len(s)))
    BY <1>3
  <2>2. QED
    BY <2>1
<1>6. IsJoin(g, s, t)
  BY <1>3, <1>4, <1>5 DEF IsJoin
<1>7. QED
  BY <1>6 DEF g

LEMMA AppendedSequence ==
    ASSUME NEW s, NEW x, IsSequence(s)
    PROVE  /\ IsSequence(Append(s, x))
           /\ Len(Append(s, x)) = Len(s) + 1
           /\ DOMAIN Append(s, x) = DOMAIN s \union {Len(s) + 1}
           /\ Len(s) + 1 \notin DOMAIN s
           /\ \A i \in DOMAIN s : Append(s, x)[i] = s[i]
           /\ Append(s, x)[Len(s) + 1] = x
<1> DEFINE U == ToSet(s) \union {x}
<1>1. s \in Seq(U) /\ x \in U
  BY SequenceFacts DEF IsSequence
<1>2. Append(s, x) \in Seq(U) /\ ToSet(Append(s, x)) = ToSet(s) \union {x}
  BY <1>1, MembersOfAppend
<1> HIDE DEF U
<1>3. QED
  BY <1>1, <1>2 DEF IsSequence, U

LEMMA ChangedSequence ==
    ASSUME NEW s, IsSequence(s), NEW t, t = [i \in DOMAIN s |-> t[i]]
    PROVE  IsSequence(t) /\ Len(t) = Len(s) /\ DOMAIN t = DOMAIN s
<1>1. Len(s) \in Nat /\ DOMAIN s = 1 .. Len(s)
  BY SequenceFacts
<1>2. t = [i \in 1 .. Len(s) |-> t[i]]
  BY <1>1
<1>3. QED
  BY <1>1, <1>2, MadeSequence
-----------------------------------------------------------------------------
(* Maps and what they refer to.                                              *)
Relations == {"relatedObjects", "subjects"}

LEMMA NoRelations ==
    ASSUME NEW m, Relations \intersect DOMAIN m = {}
    PROVE  /\ Listed(m) = << >> /\ SubjectList(m) = << >> /\ Children(m) = {}
           /\ \A h : RefersWithin(m, h)
<1>1. Listed(m) = << >> /\ SubjectList(m) = << >>
  BY DEF Relations, Listed, SubjectList
<1>2. \A S : << >> \in Seq(S)
  OBVIOUS
<1>3. QED
  BY <1>1, <1>2, MembersOfNone DEF Children, RefersWithin

LEMMA PutRelations ==
    ASSUME NEW m, NEW k, NEW v, k \notin Relations
    PROVE  /\ Listed(Put(m, k, v)) = Listed(m)
           /\ SubjectList(Put(m, k, v)) = SubjectList(m)
           /\ Children(Put(m, k, v)) = Children(m)
<1>1. /\ Listed(Put(m, k, v)) = Listed(m)
      /\ SubjectList(Put(m, k, v)) = SubjectList(m)
  BY DEF Relations, Listed, SubjectList, Put
<1>2. QED
  BY <1>1 DEF Children

LEMMA HeapFacts ==
    ASSUME NEW h, IsHeap(h)
    PROVE  /\ IsSequence(h) /\ Len(h) \in Nat /\ DOMAIN h = 1 .. Len(h) /\ 0 \notin DOMAIN h
           /\ \A a \in DOMAIN h : /\ Children(h[a]) \in SUBSET DOMAIN h
                                  /\ IsSequence(Listed(h[a])) /\ IsSequence(SubjectList(h[a]))
                                  /\ ToSet(Listed(h[a])) \subseteq Children(h[a])
<1>1. IsSequence(h) /\ Len(h) \in Nat /\ DOMAIN h = 1 .. Len(h) /\ 0 \notin DOMAIN h
  BY SequenceFacts DEF IsHeap
<1>2. ASSUME NEW a \in DOMAIN h
      PROVE  /\ Children(h[a]) \in SUBSET DOMAIN h
             /\ IsSequence(Listed(h[a])) /\ IsSequence(SubjectList(h[a]))
             /\ ToSet(Listed(h[a])) \subseteq Children(h[a])
  <2>1. Listed(h[a]) \in Seq(DOMAIN h) /\ SubjectList(h[a]) \in Seq({0} \union DOMAIN h)
    BY DEF IsHeap, RefersWithin
  <2>2. /\ IsSequence(Listed(h[a])) /\ ToSet(Listed(h[a])) \subseteq DOMAIN h
        /\ IsSequence(SubjectList(h[a])) /\ ToSet(SubjectList(h[a])) \subseteq {0} \union DOMAIN h
    BY <2>1, OfMembers
  <2>3. QED
    BY <2>2 DEF Children
<1>3. QED
  BY <1>1, <1>2

LEMMA ReachFacts ==
    ASSUME NEW h, IsHeap(h), NEW a \in DOMAIN h
    PROVE  /\ Reach(h, a) \in SUBSET DOMAIN h
           /\ a \in Reach(h, a)
           /\ Children(h[a]) \subseteq Reach(h, a)
           /\ \A b \in Reach(h, a) : Children(h[b]) \subseteq Reach(h, a)
<1>1. \A b \in DOMAIN h : Children(h[b]) \in SUBSET DOMAIN h
  BY HeapFacts
<1>2. \A b \in Children(h[a]) : \A c \in Children(h[b]) : Children(h[c]) = {}
  BY DEF IsHeap
<1>3. QED
  BY <1>1, <1>2 DEF Reach

(* Maps that refer to maps of the heap, no deeper than two, can be added.    *)
LEMMA GrownHeap ==
    ASSUME NEW h, IsHeap(h), NEW cells, NEW g, IsJoin(g, h, cells),
           \A i \in DOMAIN cells : RefersWithin(cells[i], g),
           \A i \in DOMAIN cells : \A b \in Children(cells[i]) :
              \A c \in Children(g[b]) : Children(g[c]) = {}
    PROVE  IsHeap(g)
<1>1. /\ IsSequence(g) /\ DOMAIN h \subseteq DOMAIN g
      /\ \A a \in DOMAIN h : g[a] = h[a]
      /\ \A a \in DOMAIN g : a \in DOMAIN h \/ \E i \in DOMAIN cells : g[a] = cells[i]
  BY DEF IsJoin
<1>2. ASSUME NEW a \in DOMAIN g PROVE RefersWithin(g[a], g)
  <2>1. CASE a \in DOMAIN h
    <3>1. RefersWithin(h[a], h) /\ g[a] = h[a] /\ DOMAIN h \subseteq DOMAIN g
      BY <1>1, <2>1 DEF IsHeap
    <3>2. QED
      BY <3>1 DEF RefersWithin
  <2>2. CASE a \notin DOMAIN h
    BY <1>1, <2>2
  <2>3. QED
    BY <2>1, <2>2
<1>3. ASSUME NEW a \in DOMAIN g, NEW b \in Children(g[a]), NEW c \in Children(g[b])
      PROVE  Children(g[c]) = {}
  <2>1. CASE a \in DOMAIN h
    <3>1. g[a] = h[a] /\ b \in DOMAIN h
      BY <1>1, <2>1, HeapFacts
    <3>2. g[b] = h[b] /\ c \in DOMAIN h
      BY <1>1, <3>1, HeapFacts
    <3>3. b \in Children(h[a]) /\ c \in Children(h[b]) /\ g[c] = h[c]
      BY <1>1, <3>1, <3>2
    <3>4. Children(h[c]) = {}
      BY <2>1, <3>3 DEF IsHeap
    <3>5. QED
      BY <3>3, <3>4
  <2>2. CASE a \notin DOMAIN h
    BY <1>1, <2>2
  <2>3. QED
    BY <2>1, <2>2
<1>4. QED
  BY <1>1, <1>2, <1>3 DEF IsHeap

(* A map can be changed that refers to no more than before.                  *)
LEMMA ChangedHeap ==
    ASSUME NEW h, IsHeap(h), NEW a \in DOMAIN h, NEW m, RefersWithin(m, h),
           Children(m) \subseteq Children(h[a]), NEW g, g = [h EXCEPT ![a] = m]
    PROVE  /\ IsHeap(g) /\ DOMAIN g = DOMAIN h /\ Len(g) = Len(h) /\ g[a] = m
           /\ \A b \in DOMAIN h : b # a => g[b] = h[b]
           /\ \A b \in DOMAIN h : Children(g[b]) \subseteq Children(h[b])
<1>1. /\ IsSequence(g) /\ DOMAIN g = DOMAIN h /\ Len(g) = Len(h) /\ g[a] = m
      /\ \A b \in DOMAIN h : b # a => g[b] = h[b]
  <2>1. IsSequence(h)
    BY DEF IsHeap
  <2>2. /\ g = [i \in DOMAIN h |-> g[i]] /\ g[a] = m
        /\ \A b \in DOMAIN h : b # a => g[b] = h[b]
    OBVIOUS
  <2>3. QED
    BY <2>1, <2>2, ChangedSequence
<1>2. \A b \in DOMAIN h : Children(g[b]) \subseteq Children(h[b])
  BY <1>1
<1>3. \A b \in DOMAIN h : RefersWithin(g[b], g)
  BY <1>1 DEF IsHeap, RefersWithin
<1>4. ASSUME NEW x \in DOMAIN h, NEW b \in Children(g[x]), NEW c \in Children(g[b])
      PROVE  Children(g[c]) = {}
  <2>1. b \in Children(h[x]) /\ b \in DOMAIN h
    BY <1>2, HeapFacts
  <2>2. c \in Children(h[b]) /\ c \in DOMAIN h
    BY <1>2, <2>1, HeapFacts
  <2>3. Children(h[c]) = {}
    BY <2>1, <2>2 DEF IsHeap
  <2>4. QED
    BY <1>2, <2>2, <2>3
<1>5. QED
  BY <1>1, <1>2, <1>3, <1>4 DEF IsHeap

(* What is reached from a map depends on the maps reached only, and so does   *)
(* its ID.                                                                   *)
LEMMA SameReach ==
    ASSUME NEW h, NEW g, NEW a, \A c \in Reach(g, a) : h[c] = g[c]
    PROVE  Reach(h, a) = Reach(g, a) /\ h[a] = g[a]
<1>1. h[a] = g[a] /\ \A c \in Children(g[a]) : h[c] = g[c]
  BY DEF Reach
<1>2. QED
  BY <1>1 DEF Reach

LEMMA SameIDs ==
    ASSUME NEW h, NEW g, NEW env, h[env.at] = g[env.at], IsSequence(Listed(g[env.at])),
           \A c \in Children(g[env.at]) : h[c] = g[c]
    PROVE  GetID(h, env) = GetID(g, env)
<1> DEFINE related == Listed(g[env.at])
<1>1. \A i \in DOMAIN related : related[i] \in Children(g[env.at])
  BY SequenceFacts DEF Children
<1>2. \A i \in DOMAIN related : h[related[i]] = g[related[i]]
  BY <1>1
<1>3. [i \in DOMAIN related |-> OwnID(GetObjectType(h[related[i]]), h[related[i]])]
      = [i \in DOMAIN related |-> OwnID(GetObjectType(g[related[i]]), g[related[i]])]
  BY <1>2
<1>4. IDs(h, env) = IDs(g, env)
  <2> DEFINE own == <<OwnID(env.type, g[env.at])>>
             ids(x) == [i \in DOMAIN related |-> OwnID(GetObjectType(x[related[i]]), x[related[i]])]
  <2>1. h[env.at] = g[env.at]
    OBVIOUS
  <2>2. CASE env.type = "regoResponse"
    <3>1. IDs(h, env) = own \o ids(h)
      BY <2>1, <2>2 DEF IDs, Related
    <3>2. IDs(g, env) = own \o ids(g)
      BY <2>2 DEF IDs, Related
    <3>3. QED
      BY <1>3, <3>1, <3>2, Zenon
  <2>3. CASE env.type # "regoResponse"
    <3>1. DOMAIN << >> = {}
      OBVIOUS
    <3>2. [i \in DOMAIN << >> |-> OwnID(GetObjectType(h[<< >>[i]]), h[<< >>[i]])]
          = [i \in DOMAIN << >> |-> OwnID(GetObjectType(g[<< >>[i]]), g[<< >>[i]])]
      BY <3>1
    <3>3. QED
      BY <2>1, <2>3, <3>2 DEF IDs
  <2>4. QED
    BY <2>2, <2>3
<1>5. QED
  BY <1>4 DEF GetID

-----------------------------------------------------------------------------
(* The changes that actions are made of.  First, maps are added.             *)
LEMMA MapsAdded ==
    ASSUME NEW o, NEW h, NEW E, NEW R, NEW V, NEW T, Good(o, h, E, R, V, T),
           NEW cells, NEW g, IsJoin(g, h, cells), IsHeap(g),
           \A e \in DOMAIN E : E[e].type \in StructTypes =>
              \A i \in DOMAIN cells : E[e].at \notin Children(cells[i]),
           NEW N, N \subseteq DOMAIN g \ DOMAIN h
    PROVE  Good(o, g, E, R, V, T \union N)
<1>1. /\ DOMAIN h \subseteq DOMAIN g
      /\ \A a \in DOMAIN h : g[a] = h[a]
      /\ \A a \in DOMAIN g : a \in DOMAIN h \/ \E i \in DOMAIN cells : g[a] = cells[i]
  BY DEF IsJoin
<1>2. IsHeap(h)
  BY DEF Good
<1>3. EnvelopesOK(g, E)
  BY <1>1 DEF Good, EnvelopesOK
<1>4. ResourcesOK(g, E, R)
  BY <1>1 DEF Good, ResourcesOK
<1>5. StructsOK(o, g, E, R)
  <2>1. ASSUME NEW e \in DOMAIN E, E[e].type \in StructTypes
        PROVE  IsStruct(E[e].type, g[E[e].at]) /\ Unshared(o, g, E, R, e)
    <3>1. IsStruct(E[e].type, h[E[e].at]) /\ Unshared(o, h, E, R, e) /\ E[e].at \in DOMAIN h
      BY <2>1 DEF Good, StructsOK, EnvelopesOK
    <3>2. \A a \in DOMAIN g : E[e].at \notin Children(g[a])
      BY <1>1, <2>1, <3>1 DEF Unshared
    <3>3. QED
      BY <1>1, <3>1, <3>2 DEF Unshared
  <2>2. QED
    BY <2>1 DEF StructsOK
<1>6. IDsOK(g, R, T \union N)
  <2>1. ASSUME NEW r \in DOMAIN R PROVE IDKept(g, T \union N, R[r])
    <3> DEFINE a == R[r].object
    <3>1. a \in DOMAIN h /\ IDKept(h, T, R[r])
      BY DEF Good, ResourcesOK, IDsOK
    <3> HIDE DEF a
    <3>2. /\ Reach(h, a) \in SUBSET DOMAIN h /\ Children(h[a]) \subseteq Reach(h, a)
          /\ IsSequence(Listed(h[a])) /\ a \in Reach(h, a)
      BY <1>2, <3>1, ReachFacts, HeapFacts
    <3>3. \A c \in Reach(h, a) : g[c] = h[c]
      BY <1>1, <3>2
    <3>4. Reach(g, a) = Reach(h, a) /\ g[a] = h[a]
      BY <3>3, SameReach
    <3>5. IDOf(g, a) = IDOf(h, a)
      <4> DEFINE env == Env(GetObjectType(h[a]), a)
      <4>1. env.at = a
        BY DEF Env
      <4> HIDE DEF env
      <4>2. GetID(g, env) = GetID(h, env)
        BY <3>2, <3>3, <4>1, SameIDs
      <4>3. QED
        BY <3>4, <4>2 DEF IDOf, env
    <3>6. QED
      BY <3>1, <3>4, <3>5 DEF IDKept, a
  <2>2. QED
    BY <2>1 DEF IDsOK
<1>7. QED
  BY <1>1, <1>3, <1>4, <1>5, <1>6 DEF Good

(* An envelope is added, over a map that no struct has or with a struct that  *)
(* nothing else has.                                                         *)
LEMMA EnvelopeAdded ==
    ASSUME NEW o, NEW h, NEW E, NEW R, NEW V, NEW T, Good(o, h, E, R, V, T),
           NEW env \in [type : Types, at : DOMAIN h, replaced : BOOLEAN],
           \A e \in DOMAIN E : E[e].type \in StructTypes => E[e].at # env.at,
           env.type \in StructTypes =>
              /\ IsStruct(env.type, h[env.at])
              /\ env.at \notin DOMAIN o.heap
              /\ \A f \in DOMAIN E : E[f].at # env.at
              /\ \A a \in DOMAIN h : env.at \notin Children(h[a])
              /\ \A r \in DOMAIN R : R[r].object # env.at
    PROVE  Good(o, h, Append(E, env), R, V, T)
<1> DEFINE F == Append(E, env)
           n == Len(E) + 1
<1>1. /\ IsSequence(F) /\ DOMAIN F = DOMAIN E \union {n} /\ n \notin DOMAIN E
      /\ \A e \in DOMAIN E : F[e] = E[e]
      /\ F[n] = env
  BY AppendedSequence DEF Good, EnvelopesOK
<1> HIDE DEF F, n
<1>2. EnvelopesOK(h, F)
  BY <1>1 DEF Good, EnvelopesOK
<1>3. ResourcesOK(h, F, R)
  BY <1>1 DEF Good, ResourcesOK
<1>4. StructsOK(o, h, F, R)
  <2>1. ASSUME NEW e \in DOMAIN E, F[e].type \in StructTypes
        PROVE  IsStruct(F[e].type, h[F[e].at]) /\ Unshared(o, h, F, R, e)
    BY <1>1, <2>1 DEF Good, StructsOK, Unshared
  <2>2. ASSUME env.type \in StructTypes
        PROVE  IsStruct(F[n].type, h[F[n].at]) /\ Unshared(o, h, F, R, n)
    BY <1>1, <2>2 DEF Unshared
  <2>3. QED
    BY <1>1, <2>1, <2>2 DEF StructsOK
<1>5. FacesOK(F, R)
  BY <1>1 DEF Good, FacesOK, ResourcesOK
<1>6. VectorsOK(o, F, V)
  BY <1>1 DEF Good, VectorsOK
<1>7. QED
  BY <1>2, <1>3, <1>4, <1>5, <1>6 DEF Good, F

(* An envelope is kept by a resource.                                        *)
LEMMA EnvelopeKept ==
    ASSUME NEW o, NEW h, NEW E, NEW R, NEW V, NEW T, Good(o, h, E, R, V, T),
           NEW r \in DOMAIN R, NEW e \in DOMAIN E,
           E[e].replaced \/ E[e].type \in StructTypes \/ E[e].at = R[r].object
    PROVE  Good(o, h, E, [R EXCEPT ![r].meta = e], V, T)
<1> DEFINE Q == [R EXCEPT ![r].meta = e]
           x == [R[r] EXCEPT !.meta = e]
<1>1. /\ IsSequence(Q) /\ DOMAIN Q = DOMAIN R /\ Q[r] = x
      /\ \A i \in DOMAIN R : i # r => Q[i] = R[i]
  <2>1. IsSequence(R)
    BY DEF Good, ResourcesOK
  <2>2. Q = [i \in DOMAIN R |-> Q[i]] /\ Q[r] = x /\ \A i \in DOMAIN R : i # r => Q[i] = R[i]
    OBVIOUS
  <2> HIDE DEF Q, x
  <2>3. QED
    BY <2>1, <2>2, ChangedSequence
<1>2. /\ x \in [id : {R[r].id}, object : DOMAIN h, meta : {0} \union DOMAIN E, type : Types]
      /\ x.id = R[r].id /\ x.object = R[r].object /\ x.meta = e /\ x.type = R[r].type
  BY DEF Good, ResourcesOK
<1> HIDE DEF Q, x
<1>3. ResourcesOK(h, E, Q)
  BY <1>1, <1>2 DEF Good, ResourcesOK
<1>4. \A i \in DOMAIN R : Q[i].object = R[i].object /\ Q[i].id = R[i].id /\ Q[i].type = R[i].type
  BY <1>1, <1>2
<1>5. StructsOK(o, h, E, Q)
  BY <1>1, <1>4 DEF Good, StructsOK, Unshared
<1>6. FacesOK(E, Q)
  BY <1>1, <1>2, <1>4 DEF Good, FacesOK
<1>7. IDsOK(h, Q, T)
  BY <1>1, <1>4 DEF Good, IDsOK, IDKept, Kind
<1>8. QED
  BY <1>3, <1>5, <1>6, <1>7 DEF Good, Q

LEMMA ResourceAdded ==
    ASSUME NEW o, NEW h, NEW E, NEW R, NEW V, NEW T, Good(o, h, E, R, V, T), NEW x,
           x \in [id : {x.id}, object : DOMAIN h, meta : {0} \union DOMAIN E, type : Types],
           x.meta # 0 => E[x.meta].replaced \/ E[x.meta].type \in StructTypes
                            \/ E[x.meta].at = x.object,
           \A e \in DOMAIN E : E[e].type \in StructTypes => x.object # E[e].at,
           IDKept(h, T, x)
    PROVE  Good(o, h, E, Append(R, x), V, T)
<1> DEFINE Q == Append(R, x)
           n == Len(R) + 1
<1>1. /\ IsSequence(Q) /\ DOMAIN Q = DOMAIN R \union {n} /\ n \notin DOMAIN R
      /\ \A r \in DOMAIN R : Q[r] = R[r]
      /\ Q[n] = x
  BY AppendedSequence DEF Good, ResourcesOK
<1> HIDE DEF Q, n
<1>2. ResourcesOK(h, E, Q)
  BY <1>1 DEF Good, ResourcesOK
<1>3. StructsOK(o, h, E, Q)
  <2>1. ASSUME NEW e \in DOMAIN E, E[e].type \in StructTypes
        PROVE  IsStruct(E[e].type, h[E[e].at]) /\ Unshared(o, h, E, Q, e)
    BY <1>1, <2>1 DEF Good, StructsOK, Unshared
  <2>2. QED
    BY <2>1 DEF StructsOK
<1>4. FacesOK(E, Q)
  BY <1>1 DEF Good, FacesOK
<1>5. IDsOK(h, Q, T)
  BY <1>1 DEF Good, IDsOK
<1>6. QED
  BY <1>2, <1>3, <1>4, <1>5 DEF Good, Q

(* A map is changed, and counts as touched.                                  *)
LEMMA MapChanged ==
    ASSUME NEW o, NEW h, NEW E, NEW R, NEW V, NEW T, Good(o, h, E, R, V, T),
           NEW a \in DOMAIN h, NEW m, RefersWithin(m, h), Children(m) \subseteq Children(h[a]),
           \A e \in DOMAIN E : E[e].type \in StructTypes /\ E[e].at = a => IsStruct(E[e].type, m)
    PROVE  Good(o, [h EXCEPT ![a] = m], E, R, V, T \union {a})
<1> DEFINE g == [h EXCEPT ![a] = m]
<1>1. IsHeap(h)
  BY DEF Good
<1>2. /\ IsHeap(g) /\ DOMAIN g = DOMAIN h /\ Len(g) = Len(h) /\ g[a] = m
      /\ \A b \in DOMAIN h : b # a => g[b] = h[b]
      /\ \A b \in DOMAIN h : Children(g[b]) \subseteq Children(h[b])
  BY <1>1, ChangedHeap
<1> HIDE DEF g
<1>3. EnvelopesOK(g, E) /\ ResourcesOK(g, E, R)
  BY <1>2 DEF Good, EnvelopesOK, ResourcesOK
<1>4. StructsOK(o, g, E, R)
  <2>1. ASSUME NEW e \in DOMAIN E, E[e].type \in StructTypes
        PROVE  IsStruct(E[e].type, g[E[e].at]) /\ Unshared(o, g, E, R, e)
    <3>1. IsStruct(E[e].type, h[E[e].at]) /\ Unshared(o, h, E, R, e) /\ E[e].at \in DOMAIN h
      BY <2>1 DEF Good, StructsOK, EnvelopesOK
    <3>2. IsStruct(E[e].type, g[E[e].at])
      BY <1>2, <2>1, <3>1
    <3>3. QED
      BY <1>2, <3>1, <3>2 DEF Unshared
  <2>2. QED
    BY <2>1 DEF StructsOK
<1>5. IDsOK(g, R, T \union {a})
  <2>1. ASSUME NEW r \in DOMAIN R PROVE IDKept(g, T \union {a}, R[r])
    <3> DEFINE b == R[r].object
    <3>1. b \in DOMAIN h /\ IDKept(h, T, R[r])
      BY DEF Good, ResourcesOK, IDsOK
    <3> HIDE DEF b
    <3>2. CASE a \in Reach(g, b)
      BY <3>2 DEF IDKept, b
    <3>3. CASE a \notin Reach(g, b)
      <4>1. /\ Reach(g, b) \in SUBSET DOMAIN g /\ Children(g[b]) \subseteq Reach(g, b)
            /\ IsSequence(Listed(g[b])) /\ b \in Reach(g, b)
        BY <1>2, <3>1, ReachFacts, HeapFacts
      <4>2. \A c \in Reach(g, b) : h[c] = g[c]
        BY <1>2, <3>3, <4>1
      <4>3. Reach(h, b) = Reach(g, b) /\ h[b] = g[b]
        BY <4>2, SameReach
      <4>4. IDOf(g, b) = IDOf(h, b)
        <5> DEFINE env == Env(GetObjectType(g[b]), b)
        <5>1. env.at = b
          BY DEF Env
        <5> HIDE DEF env
        <5>2. GetID(h, env) = GetID(g, env)
          BY <4>1, <4>2, <5>1, SameIDs
        <5>3. QED
          BY <4>3, <5>2 DEF IDOf, env
      <4>5. QED
        BY <3>1, <4>3, <4>4 DEF IDKept, b
    <3>4. QED
      BY <3>2, <3>3
  <2>2. QED
    BY <2>1 DEF IDsOK
<1>6. QED
  BY <1>2, <1>3, <1>4, <1>5 DEF Good, g

(* An envelope is given another map, which no other envelope has.            *)
LEMMA MapReplaced ==
    ASSUME NEW o, NEW h, NEW E, NEW R, NEW V, NEW T, Good(o, h, E, R, V, T),
           NEW e \in DOMAIN E, E[e].type \notin StructTypes, NEW a \in DOMAIN h,
           a \notin DOMAIN o.heap, \A f \in DOMAIN E : E[f].at # a
    PROVE  Good(o, h, [E EXCEPT ![e] = [E[e] EXCEPT !.at = a, !.replaced = TRUE]], R, V, T)
<1> DEFINE env == [E[e] EXCEPT !.at = a, !.replaced = TRUE]
           F == [E EXCEPT ![e] = env]
<1>1. /\ env \in [type : Types, at : DOMAIN h, replaced : BOOLEAN]
      /\ env.type = E[e].type /\ env.at = a /\ env.replaced
  BY DEF Good, EnvelopesOK
<1> HIDE DEF env
<1>2. /\ IsSequence(F) /\ DOMAIN F = DOMAIN E /\ F[e] = env
      /\ \A f \in DOMAIN E : f # e => F[f] = E[f]
  <2>1. IsSequence(E)
    BY DEF Good, EnvelopesOK
  <2>2. F = [f \in DOMAIN E |-> F[f]] /\ F[e] = env /\ \A f \in DOMAIN E : f # e => F[f] = E[f]
    OBVIOUS
  <2> HIDE DEF F
  <2>3. QED
    BY <2>1, <2>2, ChangedSequence
<1> HIDE DEF F
<1>3. EnvelopesOK(h, F)
  BY <1>1, <1>2 DEF Good, EnvelopesOK
<1>4. ResourcesOK(h, F, R)
  BY <1>2 DEF Good, ResourcesOK
<1>5. StructsOK(o, h, F, R)
  <2>1. ASSUME NEW f \in DOMAIN F, F[f].type \in StructTypes
        PROVE  IsStruct(F[f].type, h[F[f].at]) /\ Unshared(o, h, F, R, f)
    <3>1. f \in DOMAIN E /\ f # e /\ F[f] = E[f]
      BY <1>1, <1>2, <2>1
    <3>2. IsStruct(E[f].type, h[E[f].at]) /\ Unshared(o, h, E, R, f)
      BY <2>1, <3>1 DEF Good, StructsOK
    <3>3. QED
      BY <1>1, <1>2, <3>1, <3>2 DEF Unshared
  <2>2. QED
    BY <2>1 DEF StructsOK
<1>6. FacesOK(F, R)
  BY <1>1, <1>2 DEF Good, FacesOK, ResourcesOK
<1>7. VectorsOK(o, F, V)
  <2>1. ToSet(V) \subseteq DOMAIN F
    BY <1>2 DEF Good, VectorsOK
  <2>2. ASSUME o.aggregator = "subject-role-rolebinding"
        PROVE  /\ \A f \in ToSet(V) : F[f].at \notin DOMAIN o.heap
               /\ \A f, k \in ToSet(V) : F[f].at = F[k].at => f = k
    <3>1. /\ \A f \in ToSet(V) : E[f].at \notin DOMAIN o.heap
          /\ \A f, k \in ToSet(V) : E[f].at = E[k].at => f = k
      BY <2>2 DEF Good, VectorsOK
    <3>2. QED
      BY <1>1, <1>2, <2>1, <3>1
  <2>3. QED
    BY <2>1, <2>2 DEF VectorsOK
<1>8. QED
  BY <1>3, <1>4, <1>5, <1>6, <1>7 DEF Good, F, env

-----------------------------------------------------------------------------
(* Envelopes.                                                                *)
LEMMA ObjectTypes ==
    ASSUME NEW m
    PROVE  /\ GetObjectType(m) \in Types /\ GetObjectType(m) # "scan"
           /\ GetObjectType(m) \in StructTypes => GetObjectType(m) = "HostSensor"
<1>1. GetObjectType(m) \in Types /\ GetObjectType(m) # "scan"
  BY DEF GetObjectType, Types
<1>2. QED
  BY <1>1 DEF StructTypes

LEMMA StructFacts ==
    ASSUME NEW type, NEW m
    PROVE  /\ IsStruct(type, AsStruct(type, m))
           /\ Relations \intersect DOMAIN AsStruct(type, m) = {}
           /\ \A k \in StructKeys(type) : objectString(AsStruct(type, m), k) = objectString(m, k)
<1>1. DOMAIN AsStruct(type, m) = StructKeys(type)
  BY DEF AsStruct
<1>2. \A k \in StructKeys(type) : AsStruct(type, m)[k] = objectString(m, k)
  BY DEF AsStruct
<1>3. \A k : objectString(m, k) # NotAString
  BY DEF objectString, NotAString
<1>4. QED
  BY <1>1, <1>2, <1>3 DEF IsStruct, StructKeys, Relations, objectString

(* The ID of an envelope that is no vector is its own.                       *)
LEMMA OwnIDsDecide ==
    ASSUME NEW h, NEW x, NEW g, NEW y, x.type # "regoResponse", y.type # "regoResponse",
           OwnID(x.type, h[x.at]) = OwnID(y.type, g[y.at])
    PROVE  GetID(h, x) = GetID(g, y)
<1> DEFINE none == << >>
<1>1. [i \in DOMAIN none |-> OwnID(GetObjectType(h[none[i]]), h[none[i]])]
      = [i \in DOMAIN none |-> OwnID(GetObjectType(g[none[i]]), g[none[i]])]
  <2>1. DOMAIN none = {}
    OBVIOUS
  <2> HIDE DEF none
  <2>2. QED
    BY <2>1
<1>2. IDs(h, x) = <<OwnID(x.type, h[x.at])>>
                  \o [i \in DOMAIN none |-> OwnID(GetObjectType(h[none[i]]), h[none[i]])]
  BY DEF IDs
<1>3. IDs(g, y) = <<OwnID(y.type, g[y.at])>>
                  \o [i \in DOMAIN none |-> OwnID(GetObjectType(g[none[i]]), g[none[i]])]
  BY DEF IDs
<1>4. IDs(h, x) = IDs(g, y)
  BY <1>1, <1>2, <1>3
<1>5. QED
  BY <1>4 DEF GetID

LEMMA OneMapAdded ==
    ASSUME NEW h, IsHeap(h), NEW m, RefersWithin(m, h), Children(m) = {}
    PROVE  /\ IsJoin(Append(h, m), h, <<m>>)
           /\ h \o <<m>> = Append(h, m)
           /\ IsHeap(Append(h, m))
           /\ DOMAIN Append(h, m) = DOMAIN h \union {Len(h) + 1}
           /\ Append(h, m)[Len(h) + 1] = m
           /\ \A a \in DOMAIN h : Append(h, m)[a] = h[a]
           /\ Len(h) + 1 \notin DOMAIN h
<1> DEFINE cells == <<m>>
           g == Append(h, m)
<1>1. IsSequence(h) /\ IsSequence(cells) /\ DOMAIN cells = {1} /\ cells[1] = m
  <2>1. IsSequence(h)
    BY HeapFacts
  <2>2. cells \in Seq({m}) /\ DOMAIN cells = {1} /\ cells[1] = m
    OBVIOUS
  <2>3. QED
    BY <2>1, <2>2, OfMembers
<1>2. h \o cells = g
  <2>1. h \in Seq(ToSet(h))
    BY <1>1 DEF IsSequence
  <2>2. QED
    BY <2>1
<1> HIDE DEF cells
<1>3. IsJoin(g, h, cells)
  <2>1. IsJoin(h \o cells, h, cells)
    BY <1>1, JoinedSequence
  <2>2. QED
    BY <1>2, <2>1
<1>4. /\ DOMAIN g = DOMAIN h \union {Len(h) + 1}
      /\ g[Len(h) + 1] = m
      /\ \A a \in DOMAIN h : g[a] = h[a]
      /\ Len(h) + 1 \notin DOMAIN h
  BY <1>1, AppendedSequence
<1> HIDE DEF g
<1>5. RefersWithin(m, g)
  BY <1>4 DEF RefersWithin
<1>6. IsHeap(g)
  <2>1. \A i \in DOMAIN cells : RefersWithin(cells[i], g) /\ Children(cells[i]) = {}
    BY <1>1, <1>5
  <2>2. QED
    BY <1>3, <2>1, GrownHeap
<1>7. QED
  BY <1>2, <1>3, <1>4, <1>6 DEF g, cells

(* An object is opened in a new envelope.                                    *)
LEMMA ObjectOpened ==
    ASSUME NEW o, NEW h, NEW E, NEW R, NEW V, NEW T, Good(o, h, E, R, V, T),
           NEW type \in Types, NEW a \in DOMAIN h,
           \A e \in DOMAIN E : E[e].type \in StructTypes => E[e].at # a
    PROVE  LET x == Opened(h, type, a)
           IN  /\ Good(o, x.heap, Append(E, x.env), R, V, T)
               /\ x.env.type = type /\ x.env.at \in DOMAIN x.heap /\ ~x.env.replaced
               /\ type \notin StructTypes => x.heap = h /\ x.env.at = a
<1> DEFINE x == Opened(h, type, a)
<1>1. IsHeap(h) /\ 0 \notin DOMAIN h /\ DOMAIN o.heap \subseteq DOMAIN h
  BY HeapFacts DEF Good
<1>2. CASE type \notin StructTypes
  <2>1. x.heap = h /\ x.env = Env(type, a)
    BY <1>2 DEF Opened
  <2>2. /\ Env(type, a) \in [type : Types, at : DOMAIN h, replaced : BOOLEAN]
        /\ Env(type, a).type = type /\ Env(type, a).at = a /\ ~Env(type, a).replaced
    BY DEF Env
  <2>3. Good(o, h, Append(E, Env(type, a)), R, V, T)
    BY <1>2, <2>2, EnvelopeAdded
  <2>4. QED
    BY <1>2, <2>1, <2>2, <2>3
<1>3. CASE type \in StructTypes
  <2> DEFINE m == AsStruct(type, h[a])
             g == Append(h, m)
             n == Len(h) + 1
  <2>1. IsStruct(type, m) /\ Relations \intersect DOMAIN m = {}
    BY StructFacts
  <2> HIDE DEF m
  <2>2. Children(m) = {} /\ RefersWithin(m, h)
    BY <2>1, NoRelations
  <2>3. /\ IsJoin(g, h, <<m>>) /\ h \o <<m>> = g /\ IsHeap(g)
        /\ DOMAIN g = DOMAIN h \union {n} /\ g[n] = m /\ n \notin DOMAIN h
        /\ \A b \in DOMAIN h : g[b] = h[b]
    BY <1>1, <2>2, OneMapAdded
  <2>4. x.heap = g /\ x.env = Env(type, n)
    BY <1>3, <2>3 DEF Opened, m
  <2> HIDE DEF g, n, x
  <2>5. \A i \in DOMAIN <<m>> : Children(<<m>>[i]) = {}
    BY <2>2
  <2>6. Good(o, g, E, R, V, T)
    <3> DEFINE cells == <<m>>
    <3>1. /\ IsJoin(g, h, cells)
          /\ \A e \in DOMAIN E : E[e].type \in StructTypes =>
                \A i \in DOMAIN cells : E[e].at \notin Children(cells[i])
      BY <2>3, <2>5
    <3> HIDE DEF cells
    <3>2. Good(o, g, E, R, V, T \union {})
      BY <2>3, <3>1, MapsAdded
    <3>3. QED
      BY <3>2
  <2>7. /\ Env(type, n) \in [type : Types, at : DOMAIN g, replaced : BOOLEAN]
        /\ Env(type, n).type = type /\ Env(type, n).at = n /\ ~Env(type, n).replaced
    BY <2>3 DEF Env
  <2>8. /\ n \notin DOMAIN o.heap
        /\ \A f \in DOMAIN E : E[f].at # n
        /\ \A r \in DOMAIN R : R[r].object # n
    BY <1>1, <2>3 DEF Good, EnvelopesOK, ResourcesOK
  <2>9. \A b \in DOMAIN g : n \notin Children(g[b])
    BY <1>1, <2>2, <2>3, HeapFacts
  <2>10. Good(o, g, Append(E, Env(type, n)), R, V, T)
    <3> DEFINE env == Env(type, n)
    <3>1. /\ env \in [type : Types, at : DOMAIN g, replaced : BOOLEAN]
          /\ env.at = n /\ env.type = type
      BY <2>7
    <3> HIDE DEF env
    <3>2. /\ \A e \in DOMAIN E : E[e].type \in StructTypes => E[e].at # env.at
          /\ IsStruct(env.type, g[env.at])
          /\ env.at \notin DOMAIN o.heap
          /\ \A f \in DOMAIN E : E[f].at # env.at
          /\ \A b \in DOMAIN g : env.at \notin Children(g[b])
          /\ \A r \in DOMAIN R : R[r].object # env.at
      BY <2>1, <2>3, <2>8, <2>9, <3>1
    <3>3. Good(o, g, Append(E, env), R, V, T)
      BY <2>6, <3>1, <3>2, EnvelopeAdded
    <3>4. QED
      BY <3>3 DEF env
  <2>11. QED
    BY <1>3, <2>3, <2>4, <2>7, <2>10 DEF x
<1>4. QED
  BY <1>2, <1>3

(* The ID of the envelope that NewObject makes is that of the map.           *)
LEMMA OpenedID ==
    ASSUME NEW h, IsSequence(h), NEW a \in DOMAIN h
    PROVE  GetID(NewObject(h, a).heap, NewObject(h, a).env) = IDOf(h, a)
<1> DEFINE type == GetObjectType(h[a])
           m == AsStruct(type, h[a])
           g == h \o <<m>>
           n == Len(h) + 1
<1>1. type \in Types /\ (type \in StructTypes => type = "HostSensor")
  BY ObjectTypes
<1>2. CASE type \notin StructTypes
  <2>1. NewObject(h, a) = [heap |-> h, env |-> Env(type, a)]
    BY <1>2 DEF NewObject, Opened
  <2>2. QED
    BY <2>1 DEF IDOf
<1>3. CASE type = "HostSensor"
  <2>1. NewObject(h, a) = [heap |-> g, env |-> Env(type, n)]
    BY <1>3 DEF NewObject, Opened, StructTypes
  <2>2. g[n] = m
    <3>1. h \in Seq(ToSet(h))
      BY DEF IsSequence
    <3> HIDE DEF m
    <3>2. QED
      BY <3>1
  <2>3. \A k \in StructKeys(type) : objectString(m, k) = objectString(h[a], k)
    BY StructFacts
  <2>4. {"apiVersion", "kind", "metadata.name"} \subseteq StructKeys(type)
    BY DEF StructKeys
  <2> HIDE DEF m, g, n
  <2>5. OwnID(type, g[n]) = OwnID(type, h[a])
    BY <1>3, <2>2, <2>3, <2>4
       DEF OwnID, GetApiVersion, GetNamespace, GetKind, GetName, NameKey
  <2>6. /\ Env(type, n).type = type /\ Env(type, n).at = n
        /\ Env(type, a).type = type /\ Env(type, a).at = a
    BY DEF Env
  <2>7. GetID(g, Env(type, n)) = GetID(h, Env(type, a))
    <3>1. type # "regoResponse"
      BY <1>3
    <3> HIDE DEF type
    <3>2. QED
      BY <2>5, <2>6, <3>1, OwnIDsDecide
  <2>8. QED
    BY <2>1, <2>7 DEF IDOf
<1>4. QED
  BY <1>1, <1>2, <1>3

-----------------------------------------------------------------------------
(* What each action does to a good state.                                    *)
Now == Good(scenario, heap, envelope, resources, vectors, touched)

LEMMA OneMapGood ==
    ASSUME NEW o, NEW h, NEW E, NEW R, NEW V, NEW T, Good(o, h, E, R, V, T),
           NEW m, RefersWithin(m, h), Children(m) = {}, NEW N, N \subseteq {Len(h) + 1}
    PROVE  Good(o, Append(h, m), E, R, V, T \union N)
<1> DEFINE cells == <<m>>
           g == Append(h, m)
<1>1. IsHeap(h)
  BY DEF Good
<1>2. /\ IsJoin(g, h, cells) /\ IsHeap(g)
      /\ DOMAIN g = DOMAIN h \union {Len(h) + 1} /\ Len(h) + 1 \notin DOMAIN h
  BY <1>1, OneMapAdded
<1>3. \A i \in DOMAIN cells : Children(cells[i]) = {}
  OBVIOUS
<1>4. N \subseteq DOMAIN g \ DOMAIN h
  BY <1>2
<1> HIDE DEF cells, g
<1>5. Good(o, g, E, R, V, T \union N)
  BY <1>2, <1>3, <1>4, MapsAdded
<1>6. QED
  BY <1>5 DEF g

(* The middleware of a resource opens its object, if it was not asked yet,    *)
(* and keeps the envelope.                                                   *)
AskedEnvelopes(r) == IF resources[r].meta # 0 THEN envelope ELSE Append(envelope, middleware(r).env)
AskedResources(r) == [resources EXCEPT ![r].meta = Kept(r)]

LEMMA Asked ==
    ASSUME Now, NEW r \in DOMAIN resources
    PROVE  /\ Good(scenario, middleware(r).heap, AskedEnvelopes(r), AskedResources(r), vectors, touched)
           /\ Kept(r) \in DOMAIN AskedEnvelopes(r)
           /\ AskedEnvelopes(r)[Kept(r)] = middleware(r).env
           /\ middleware(r).env.at \in DOMAIN middleware(r).heap
           /\ middleware(r).env.type \notin StructTypes => middleware(r).heap = heap
<1> DEFINE a == resources[r].object
           meta == resources[r].meta
<1>1. /\ IsSequence(envelope) /\ IsSequence(resources)
      /\ a \in DOMAIN heap /\ meta \in {0} \union DOMAIN envelope
      /\ \A e \in DOMAIN envelope : envelope[e].at \in DOMAIN heap
  BY DEF Now, Good, EnvelopesOK, ResourcesOK
<1>2. CASE meta # 0
  <2>1. /\ middleware(r).heap = heap /\ middleware(r).env = envelope[meta]
        /\ AskedEnvelopes(r) = envelope /\ Kept(r) = meta
    BY <1>2 DEF middleware, AskedEnvelopes, Kept
  <2>2. /\ meta \in DOMAIN envelope
        /\ \/ envelope[meta].replaced \/ envelope[meta].type \in StructTypes
           \/ envelope[meta].at = resources[r].object
    BY <1>1, <1>2 DEF Now, Good, FacesOK
  <2> HIDE DEF meta
  <2>3. Good(scenario, heap, envelope, [resources EXCEPT ![r].meta = meta], vectors, touched)
    BY <2>2, EnvelopeKept DEF Now
  <2>4. QED
    BY <1>1, <2>1, <2>2, <2>3 DEF AskedResources
<1>3. CASE meta = 0
  <2> DEFINE type == GetObjectType(heap[a])
             x == Opened(heap, type, a)
             E == Append(envelope, x.env)
             n == Len(envelope) + 1
  <2>1. /\ middleware(r) = x /\ AskedEnvelopes(r) = E /\ Kept(r) = n
    BY <1>3 DEF middleware, AskedEnvelopes, Kept, NewObject
  <2>2. type \in Types
    BY ObjectTypes
  <2>3. \A e \in DOMAIN envelope : envelope[e].type \in StructTypes => envelope[e].at # a
    BY DEF Now, Good, StructsOK, Unshared
  <2> HIDE DEF type, a
  <2>4. /\ Good(scenario, x.heap, E, resources, vectors, touched)
        /\ x.env.type = type /\ x.env.at \in DOMAIN x.heap
        /\ type \notin StructTypes => x.heap = heap /\ x.env.at = a
    BY <1>1, <2>2, <2>3, ObjectOpened DEF Now
  <2> HIDE DEF x
  <2>5. n \in DOMAIN E /\ E[n] = x.env
    BY <1>1, AppendedSequence
  <2> HIDE DEF E, n
  <2>6. E[n].replaced \/ E[n].type \in StructTypes \/ E[n].at = resources[r].object
    BY <2>4, <2>5 DEF a
  <2>7. Good(scenario, x.heap, E, [resources EXCEPT ![r].meta = n], vectors, touched)
    BY <2>4, <2>5, <2>6, EnvelopeKept
  <2>8. QED
    BY <2>1, <2>4, <2>5, <2>7 DEF AskedResources
<1>4. QED
  BY <1>2, <1>3

LEMMA Keeping ==
    ASSUME Now, NEW r \in DOMAIN resources, NEW env, Keep(r, env)
    PROVE  /\ envelope' = [AskedEnvelopes(r) EXCEPT ![Kept(r)] = env]
           /\ resources' = AskedResources(r)
           /\ env = middleware(r).env => envelope' = AskedEnvelopes(r)
<1>1. resources' = AskedResources(r)
  BY DEF Keep, AskedResources
<1>2. /\ IsSequence(envelope)
      /\ resources[r].meta \in {0} \union DOMAIN envelope
  BY DEF Now, Good, EnvelopesOK, ResourcesOK
<1>3. CASE resources[r].meta # 0
  <2>1. envelope' = [AskedEnvelopes(r) EXCEPT ![Kept(r)] = env]
    BY <1>3 DEF Keep, AskedEnvelopes, Kept
  <2>2. ASSUME env = middleware(r).env PROVE envelope' = envelope
    <3>1. env = envelope[resources[r].meta]
      BY <1>3, <2>2 DEF middleware
    <3>2. envelope' = [envelope EXCEPT ![resources[r].meta] = env]
      BY <1>3 DEF Keep
    <3>3. envelope = [e \in DOMAIN envelope |-> envelope[e]]
      BY <1>2 DEF IsSequence
    <3>4. QED
      BY <3>1, <3>2, <3>3
  <2>3. QED
    BY <1>1, <1>3, <2>1, <2>2 DEF AskedEnvelopes
<1>4. CASE resources[r].meta = 0
  <2> DEFINE n == Len(envelope) + 1
             x == middleware(r).env
             E == Append(envelope, x)
             F == Append(envelope, env)
  <2>1. envelope' = F /\ AskedEnvelopes(r) = E /\ Kept(r) = n
    BY <1>4 DEF Keep, AskedEnvelopes, Kept
  <2>2. F = [E EXCEPT ![n] = env]
    <3> HIDE DEF x
    <3>1. /\ IsSequence(F) /\ DOMAIN F = DOMAIN envelope \union {n} /\ n \notin DOMAIN envelope
          /\ \A e \in DOMAIN envelope : F[e] = envelope[e]
          /\ F[n] = env
      BY <1>2, AppendedSequence
    <3>2. /\ IsSequence(E) /\ DOMAIN E = DOMAIN envelope \union {n}
          /\ \A e \in DOMAIN envelope : E[e] = envelope[e]
      BY <1>2, AppendedSequence
    <3> HIDE DEF E, F, n
    <3>3. F = [e \in DOMAIN F |-> F[e]]
      BY <3>1 DEF IsSequence
    <3>4. [E EXCEPT ![n] = env] = [e \in DOMAIN E |-> IF e = n THEN env ELSE E[e]]
      OBVIOUS
    <3>5. QED
      BY <3>1, <3>2, <3>3, <3>4
  <2>3. QED
    BY <1>1, <2>1, <2>2
<1>5. QED
  BY <1>2, <1>3, <1>4

LEMMA GetGood ==
    ASSUME Now, NEW r \in DOMAIN resources, Get(r)
    PROVE  Now'
<1>1. /\ envelope' = AskedEnvelopes(r) /\ resources' = AskedResources(r)
      /\ heap' = middleware(r).heap /\ touched' = touched
      /\ scenario' = scenario /\ vectors' = vectors
  BY Keeping DEF Get, Call
<1>2. QED
  BY <1>1, Asked DEF Now

(* A setter writes neither relations nor, in a struct, anything but a string. *)
LEMMA WrittenFacts ==
    ASSUME NEW type, NEW m, NEW field \in Settable, NEW v \in Values
    PROVE  /\ Listed(Written(type, m, field, v)) = Listed(m)
           /\ SubjectList(Written(type, m, field, v)) = SubjectList(m)
           /\ Children(Written(type, m, field, v)) = Children(m)
           /\ type \in StructTypes /\ IsStruct(type, m) => IsStruct(type, Written(type, m, field, v))
<1> DEFINE w == Written(type, m, field, v)
           k == IF field = "namespace" THEN NamespaceKey(type)
                ELSE IF field = "name" THEN NameKey(type) ELSE field
<1>1. w = m \/ w = Put(m, k, v)
  BY DEF Written
<1>2. k \notin Relations
  BY DEF Settable, Relations, NamespaceKey, NameKey
<1>3. Listed(w) = Listed(m) /\ SubjectList(w) = SubjectList(m) /\ Children(w) = Children(m)
  <2> HIDE DEF w, k
  <2>1. QED
    BY <1>1, <1>2, PutRelations
<1>4. ASSUME type \in StructTypes, IsStruct(type, m) PROVE IsStruct(type, w)
  <2>1. CASE type = "HostSensor" /\ field = "namespace"
    <3>1. w = m
      BY <2>1 DEF Written
    <3>2. QED
      BY <1>4, <3>1
  <2>2. CASE ~(type = "HostSensor" /\ field = "namespace")
    <3>1. w = Put(m, k, v)
      BY <2>2 DEF Written
    <3>2. k \in StructKeys(type)
      BY <1>4, <2>2 DEF StructTypes, StructKeys, Settable, NamespaceKey, NameKey
    <3>3. v # NotAString
      BY ValuesAssumption
    <3> HIDE DEF w, k
    <3>4. DOMAIN Put(m, k, v) = DOMAIN m \union {k}
          /\ \A x \in DOMAIN m \union {k} : Put(m, k, v)[x] = IF x = k THEN v ELSE m[x]
      BY DEF Put
    <3>5. QED
      BY <1>4, <3>1, <3>2, <3>3, <3>4 DEF IsStruct
  <2>3. QED
    BY <2>1, <2>2
<1>5. QED
  BY <1>3, <1>4

LEMMA SetGood ==
    ASSUME Now, NEW r \in DOMAIN resources, NEW field \in Settable, NEW v \in Values,
           Set(r, field, v)
    PROVE  Now'
<1> DEFINE m == middleware(r)
           E == AskedEnvelopes(r)
           R == AskedResources(r)
           a == m.env.at
           w == Written(m.env.type, m.heap[a], field, v)
<1>1. /\ envelope' = E /\ resources' = R
      /\ heap' = [m.heap EXCEPT ![a] = w] /\ touched' = touched \union {a}
      /\ scenario' = scenario /\ vectors' = vectors
  <2>1. Keep(r, m.env)
    BY DEF Set
  <2> HIDE DEF m
  <2>2. envelope' = E /\ resources' = R
    BY <2>1, Keeping DEF m
  <2>3. QED
    BY <2>2 DEF Set, Call, m
<1>2. /\ Good(scenario, m.heap, E, R, vectors, touched)
      /\ Kept(r) \in DOMAIN E /\ E[Kept(r)] = m.env /\ a \in DOMAIN m.heap
  BY Asked
<1> HIDE DEF m, E, R
<1>3. /\ Listed(w) = Listed(m.heap[a]) /\ SubjectList(w) = SubjectList(m.heap[a])
      /\ Children(w) = Children(m.heap[a])
      /\ m.env.type \in StructTypes /\ IsStruct(m.env.type, m.heap[a]) => IsStruct(m.env.type, w)
  BY WrittenFacts
<1> HIDE DEF w
<1>4. RefersWithin(w, m.heap)
  BY <1>2, <1>3 DEF Good, IsHeap, RefersWithin
<1>5. ASSUME NEW e \in DOMAIN E, E[e].type \in StructTypes, E[e].at = a
      PROVE  IsStruct(E[e].type, w)
  <2>1. IsStruct(E[e].type, m.heap[a]) /\ Unshared(scenario, m.heap, E, R, e)
    BY <1>2, <1>5 DEF Good, StructsOK
  <2>2. Kept(r) = e
    BY <1>2, <1>5, <2>1 DEF Unshared
  <2>3. QED
    BY <1>2, <1>3, <1>5, <2>1, <2>2
<1> HIDE DEF a
<1>6. Good(scenario, [m.heap EXCEPT ![a] = w], E, R, vectors, touched \union {a})
  BY <1>2, <1>3, <1>4, <1>5, MapChanged
<1>7. QED
  BY <1>1, <1>6 DEF Now

LEMMA SetObjectGood ==
    ASSUME Now, NEW r \in DOMAIN resources, NEW s \in Spare, SetObject(r, s)
    PROVE  Now'
<1> DEFINE m == middleware(r)
           E == AskedEnvelopes(r)
           R == AskedResources(r)
           k == Kept(r)
           a == m.env.at
<1>1. /\ Good(scenario, m.heap, E, R, vectors, touched)
      /\ k \in DOMAIN E /\ E[k] = m.env /\ a \in DOMAIN m.heap
      /\ m.env.type \notin StructTypes => m.heap = heap
  BY Asked
<1>2. scenario' = scenario /\ vectors' = vectors
  BY DEF SetObject, Call
<1>3. CASE m.env.type \notin StructTypes
  <2> DEFINE n == Len(m.heap) + 1
             env == [m.env EXCEPT !.at = n, !.replaced = TRUE]
  <2>1. Relations \intersect DOMAIN s = {}
    BY SpareAssumption DEF Relations
  <2>2. Children(s) = {} /\ RefersWithin(s, m.heap)
    BY <2>1, NoRelations
  <2>3. /\ heap' = Append(m.heap, s) /\ touched' = touched /\ Keep(r, env)
    BY <1>3 DEF SetObject
  <2>4. envelope' = [E EXCEPT ![k] = env] /\ resources' = R
    <3> HIDE DEF env
    <3>1. QED
      BY <2>3, Keeping
  <2>5. IsHeap(m.heap) /\ DOMAIN scenario.heap \subseteq DOMAIN m.heap /\ EnvelopesOK(m.heap, E)
    BY <1>1 DEF Good
  <2> HIDE DEF m, E, R, k
  <2>6. Good(scenario, Append(m.heap, s), E, R, vectors, touched)
    <3>1. Good(scenario, Append(m.heap, s), E, R, vectors, touched \union {})
      BY <1>1, <2>2, OneMapGood
    <3>2. QED
      BY <3>1
  <2>7. /\ DOMAIN Append(m.heap, s) = DOMAIN m.heap \union {n} /\ n \notin DOMAIN m.heap
    BY <2>2, <2>5, OneMapAdded
  <2>8. n \notin DOMAIN scenario.heap /\ \A f \in DOMAIN E : E[f].at # n
    BY <2>5, <2>7 DEF EnvelopesOK
  <2>9. Good(scenario, Append(m.heap, s), [E EXCEPT ![k] = [E[k] EXCEPT !.at = n, !.replaced = TRUE]],
             R, vectors, touched)
    <3> DEFINE g == Append(m.heap, s)
    <3>1. n \in DOMAIN g
      BY <2>7
    <3> HIDE DEF g, n
    <3>2. Good(scenario, g, E, R, vectors, touched)
      BY <2>6 DEF g
    <3>3. E[k].type \notin StructTypes
      BY <1>1, <1>3
    <3>4. Good(scenario, g, [E EXCEPT ![k] = [E[k] EXCEPT !.at = n, !.replaced = TRUE]], R, vectors, touched)
      BY <1>1, <2>8, <3>1, <3>2, <3>3, MapReplaced
    <3>5. QED
      BY <3>4 DEF g
  <2>10. QED
    BY <1>1, <1>2, <2>3, <2>4, <2>9 DEF Now
<1>4. CASE m.env.type \in StructTypes
  <2> DEFINE w == AsStruct(m.env.type, s)
  <2>1. Keep(r, m.env) /\ touched' = touched \union {a}
    BY <1>4 DEF SetObject
  <2>2. envelope' = E /\ resources' = R
    <3>1. \A env : Keep(r, env) /\ env = middleware(r).env
                     => envelope' = AskedEnvelopes(r) /\ resources' = AskedResources(r)
      BY Keeping
    <3>2. QED
      BY <2>1, <3>1
  <2>3. \/ heap' = [m.heap EXCEPT ![a] = w]
        \/ heap' = m.heap
    BY <1>4 DEF SetObject
  <2>4. IsStruct(m.env.type, w) /\ Relations \intersect DOMAIN w = {}
    BY StructFacts
  <2> HIDE DEF m, E, R, k, w
  <2>5. Children(w) = {} /\ RefersWithin(w, m.heap)
    BY <2>4, NoRelations
  <2>6. ASSUME NEW e \in DOMAIN E, E[e].type \in StructTypes, E[e].at = a
        PROVE  E[e].type = m.env.type
    <3>1. Unshared(scenario, m.heap, E, R, e)
      BY <1>1, <2>6 DEF Good, StructsOK
    <3>2. QED
      BY <1>1, <2>6, <3>1 DEF Unshared
  <2> HIDE DEF a
  <2>7. Good(scenario, [m.heap EXCEPT ![a] = w], E, R, vectors, touched \union {a})
    BY <1>1, <2>4, <2>5, <2>6, MapChanged
  <2>8. Good(scenario, m.heap, E, R, vectors, touched \union {a})
    <3> DEFINE x == m.heap[a]
    <3>1. IsHeap(m.heap)
      BY <1>1 DEF Good
    <3>2. RefersWithin(x, m.heap) /\ IsSequence(m.heap)
      BY <1>1, <3>1 DEF IsHeap
    <3>3. m.heap = [i \in DOMAIN m.heap |-> m.heap[i]]
      BY <3>2 DEF IsSequence
    <3>4. [m.heap EXCEPT ![a] = x] = m.heap
      BY <3>3
    <3>5. \A e \in DOMAIN E : E[e].type \in StructTypes /\ E[e].at = a => IsStruct(E[e].type, x)
      BY <1>1 DEF Good, StructsOK
    <3> HIDE DEF x
    <3>6. Children(x) \subseteq Children(m.heap[a])
      BY DEF x
    <3>7. Good(scenario, [m.heap EXCEPT ![a] = x], E, R, vectors, touched \union {a})
      BY <1>1, <3>2, <3>5, <3>6, MapChanged
    <3>8. QED
      BY <3>4, <3>7
  <2>9. QED
    BY <1>2, <2>1, <2>2, <2>3, <2>7, <2>8 DEF Now
<1>5. QED
  BY <1>3, <1>4

(* A map that no struct envelope has is changed through an envelope.         *)
LEMMA ChangeMapGood ==
    ASSUME Now, NEW a \in DOMAIN heap, NEW m, ChangeMap(a, m),
           \A e \in DOMAIN envelope : envelope[e].type \in StructTypes => envelope[e].at # a,
           RefersWithin(m, heap), Children(m) \subseteq Children(heap[a])
    PROVE  Now'
<1>1. Good(scenario, [heap EXCEPT ![a] = m], envelope, resources, vectors, touched \union {a})
  BY MapChanged DEF Now
<1>2. /\ heap' = [heap EXCEPT ![a] = m] /\ touched' = touched \union {a}
      /\ envelope' = envelope /\ resources' = resources
      /\ scenario' = scenario /\ vectors' = vectors
  BY DEF ChangeMap, Call
<1>3. QED
  BY <1>1, <1>2 DEF Now

LEMMA SameRelations ==
    ASSUME Now, NEW a \in DOMAIN heap, NEW m,
           Listed(m) \in {Listed(heap[a]), << >>}, SubjectList(m) = SubjectList(heap[a])
    PROVE  RefersWithin(m, heap) /\ Children(m) \subseteq Children(heap[a])
<1>1. RefersWithin(heap[a], heap)
  BY DEF Now, Good, IsHeap
<1>2. << >> \in Seq(DOMAIN heap)
  OBVIOUS
<1>3. QED
  BY <1>1, <1>2, MembersOfNone DEF RefersWithin, Children

LEMMA EnvelopeMap ==
    ASSUME Now, NEW e \in DOMAIN envelope
    PROVE  /\ envelope[e].at \in DOMAIN heap
           /\ envelope[e].type \notin StructTypes =>
                 \A f \in DOMAIN envelope :
                    envelope[f].type \in StructTypes => envelope[f].at # envelope[e].at
<1>1. envelope[e].at \in DOMAIN heap
  BY DEF Now, Good, EnvelopesOK
<1>2. \A f \in DOMAIN envelope : envelope[f].type \in StructTypes /\ envelope[f].at = envelope[e].at
          => f = e
  BY DEF Now, Good, StructsOK, Unshared
<1>3. QED
  BY <1>1, <1>2

LEMMA PathGood ==
    ASSUME Now, NEW e \in DOMAIN envelope, DeletePathEntry(e) \/ \E v \in Values : SetPath(e, v)
    PROVE  Now'
<1> DEFINE a == envelope[e].at
<1>1. envelope[e].type \notin StructTypes
  BY DEF DeletePathEntry, SetPath, StructTypes
<1>2. PICK m : /\ ChangeMap(a, m)
               /\ Listed(m) = Listed(heap[a]) /\ SubjectList(m) = SubjectList(heap[a])
  <2>1. CASE DeletePathEntry(e)
    <3> DEFINE m == Without(heap[a], "sourcePath")
    <3>1. Listed(m) = Listed(heap[a]) /\ SubjectList(m) = SubjectList(heap[a])
      BY DEF Without, Listed, SubjectList
    <3>2. QED
      BY <2>1, <3>1 DEF DeletePathEntry
  <2>2. ASSUME NEW v \in Values, SetPath(e, v)
        PROVE  \E m : /\ ChangeMap(a, m)
                      /\ Listed(m) = Listed(heap[a]) /\ SubjectList(m) = SubjectList(heap[a])
    <3> DEFINE m == Put(heap[a], "sourcePath", v)
    <3>1. Listed(m) = Listed(heap[a]) /\ SubjectList(m) = SubjectList(heap[a])
      BY PutRelations DEF Relations
    <3>2. ChangeMap(a, m)
      BY <2>2 DEF SetPath
    <3> HIDE DEF m
    <3>3. QED
      BY <3>1, <3>2
  <2>3. QED
    BY <2>1, <2>2
<1>3. /\ a \in DOMAIN heap
      /\ \A f \in DOMAIN envelope : envelope[f].type \in StructTypes => envelope[f].at # a
  BY <1>1, EnvelopeMap
<1> HIDE DEF a
<1>4. RefersWithin(m, heap) /\ Children(m) \subseteq Children(heap[a])
  BY <1>2, <1>3, SameRelations
<1>5. QED
  BY <1>2, <1>3, <1>4, ChangeMapGood

LEMMA SetRelatedObjectsGood ==
    ASSUME Now, NEW e \in DOMAIN envelope, SetRelatedObjects(e, << >>)
    PROVE  Now'
<1> DEFINE a == envelope[e].at
           m == Put(heap[a], "relatedObjects", [typed |-> TRUE, list |-> << >>])
<1>1. envelope[e].type \notin StructTypes /\ ChangeMap(a, m)
  BY DEF SetRelatedObjects, StructTypes
<1>2. Listed(m) = << >> /\ SubjectList(m) = SubjectList(heap[a])
  BY DEF Put, Listed, SubjectList
<1>3. /\ a \in DOMAIN heap
      /\ \A f \in DOMAIN envelope : envelope[f].type \in StructTypes => envelope[f].at # a
  BY <1>1, EnvelopeMap
<1> HIDE DEF a, m
<1>4. RefersWithin(m, heap) /\ Children(m) \subseteq Children(heap[a])
  BY <1>2, <1>3, SameRelations
<1>5. QED
  BY <1>1, <1>3, <1>4, ChangeMapGood

LEMMA SetOfRelatedGood ==
    ASSUME Now, NEW e \in DOMAIN envelope, NEW i \in DOMAIN Related(heap[envelope[e].at]),
           NEW v \in Values, SetOfRelated(e, i, v)
    PROVE  Now'
<1> DEFINE b == envelope[e].at
           a == Related(heap[b])[i]
           m == Written(GetObjectType(heap[a]), heap[a], "name", v)
<1>1. ChangeMap(a, m)
  BY DEF SetOfRelated
<1>2. IsHeap(heap) /\ b \in DOMAIN heap
  BY EnvelopeMap DEF Now, Good
<1>3. a \in Children(heap[b]) /\ a \in DOMAIN heap
  <2>1. /\ Children(heap[b]) \in SUBSET DOMAIN heap /\ IsSequence(Listed(heap[b]))
        /\ ToSet(Listed(heap[b])) \subseteq Children(heap[b])
    BY <1>2, HeapFacts
  <2>2. a \in ToSet(Listed(heap[b]))
    BY <2>1, SequenceFacts DEF Related
  <2>3. QED
    BY <2>1, <2>2
<1>4. \A f \in DOMAIN envelope : envelope[f].type \in StructTypes => envelope[f].at # a
  BY <1>2, <1>3 DEF Now, Good, StructsOK, Unshared
<1>5. Listed(m) = Listed(heap[a]) /\ SubjectList(m) = SubjectList(heap[a])
  <2> DEFINE type == GetObjectType(heap[a])
             x == heap[a]
  <2>1. "name" \in Settable
    BY DEF Settable
  <2> HIDE DEF type, x
  <2>2. /\ Listed(Written(type, x, "name", v)) = Listed(x)
        /\ SubjectList(Written(type, x, "name", v)) = SubjectList(x)
    BY <2>1, WrittenFacts
  <2>3. QED
    BY <2>2 DEF type, x
<1> HIDE DEF a, m
<1>6. RefersWithin(m, heap) /\ Children(m) \subseteq Children(heap[a])
  BY <1>3, <1>5, SameRelations
<1>7. QED
  BY <1>1, <1>3, <1>4, <1>6, ChangeMapGood

(* The objects given are no structs.                                         *)
LEMMA GivenObjects ==
    ASSUME Now, NEW i \in DOMAIN scenario.objects
    PROVE  /\ scenario.objects[i] \in DOMAIN scenario.heap
           /\ scenario.objects[i] \in DOMAIN heap
           /\ \A e \in DOMAIN envelope :
                 envelope[e].type \in StructTypes => envelope[e].at # scenario.objects[i]
<1>1. scenario.objects \in Seq(DOMAIN scenario.heap) /\ DOMAIN scenario.heap \subseteq DOMAIN heap
  BY ScenariosAssumption DEF Now, Good
<1>2. scenario.objects[i] \in DOMAIN scenario.heap
  BY <1>1
<1>3. QED
  BY <1>1, <1>2 DEF Now, Good, StructsOK, Unshared

LEMMA NewScanObjectGood ==
    ASSUME Now, NEW i \in DOMAIN scenario.objects, NewScanObject(scenario.objects[i])
    PROVE  Now'
<1> DEFINE a == scenario.objects[i]
<1>1. /\ a \in DOMAIN heap
      /\ \A e \in DOMAIN envelope : envelope[e].type \in StructTypes => envelope[e].at # a
  BY GivenObjects
<1>2. /\ heap' = Opened(heap, "scan", a).heap
      /\ envelope' = Append(envelope, Opened(heap, "scan", a).env)
      /\ resources' = resources /\ touched' = touched /\ scenario' = scenario /\ vectors' = vectors
  BY DEF NewScanObject, Call
<1>3. "scan" \in Types
  BY DEF Types
<1> HIDE DEF a
<1>4. Good(scenario, Opened(heap, "scan", a).heap, Append(envelope, Opened(heap, "scan", a).env),
           resources, vectors, touched)
  BY <1>1, <1>3, ObjectOpened DEF Now
<1>5. QED
  BY <1>2, <1>4 DEF Now

LEMMA GetResourceGood ==
    ASSUME Now, NEW id, GetResource(id)
    PROVE  Now'
<1> DEFINE found == SelectInSeq(resources, LAMBDA r : r.id = id)
           a == resources[found].object
           type == GetObjectType(heap[a])
<1>1. found \in DOMAIN resources
  <2> DEFINE I == {i \in 1 .. Len(resources) : resources[i].id = id}
  <2>1. found # 0 /\ Len(resources) \in Nat /\ DOMAIN resources = 1 .. Len(resources)
    BY SequenceFacts DEF GetResource, Now, Good, ResourcesOK
  <2>2. I # {} /\ found = Min(I)
    BY <2>1 DEF SelectInSeq
  <2>3. I \subseteq DOMAIN resources /\ I \in SUBSET Nat
    BY <2>1
  <2> HIDE DEF I, found
  <2>4. Min(I) \in I
    BY <2>2, <2>3, LeastMember DEF Min
  <2>5. QED
    BY <2>2, <2>3, <2>4
<1>2. /\ heap' = Opened(heap, type, a).heap
      /\ envelope' = Append(envelope, Opened(heap, type, a).env)
      /\ resources' = resources /\ touched' = touched /\ scenario' = scenario /\ vectors' = vectors
  BY DEF GetResource, Call, NewObject
<1> HIDE DEF found
<1>3. /\ a \in DOMAIN heap
      /\ \A e \in DOMAIN envelope : envelope[e].type \in StructTypes => envelope[e].at # a
  BY <1>1 DEF Now, Good, ResourcesOK, StructsOK, Unshared
<1>4. type \in Types
  BY ObjectTypes
<1> HIDE DEF a, type
<1>5. Good(scenario, Opened(heap, type, a).heap, Append(envelope, Opened(heap, type, a).env),
           resources, vectors, touched)
  BY <1>3, <1>4, ObjectOpened DEF Now
<1>6. QED
  BY <1>2, <1>5 DEF Now

LEMMA NewResourceGood ==
    ASSUME Now, NEW i \in DOMAIN scenario.objects, NewResource(scenario.objects[i])
    PROVE  Now'
<1> DEFINE a == scenario.objects[i]
           x == [id |-> NoID, object |-> a, meta |-> 0, type |-> ""]
<1>1. /\ a \in DOMAIN heap
      /\ \A e \in DOMAIN envelope : envelope[e].type \in StructTypes => envelope[e].at # a
  BY GivenObjects
<1>2. /\ resources' = Append(resources, x)
      /\ heap' = heap /\ envelope' = envelope /\ touched' = touched
      /\ scenario' = scenario /\ vectors' = vectors
  BY DEF NewResource, Call
<1>3. /\ x \in [id : {x.id}, object : DOMAIN heap, meta : {0} \union DOMAIN envelope, type : Types]
      /\ x.meta = 0 /\ x.object = a /\ x.id = NoID
  BY <1>1 DEF Types
<1> HIDE DEF a, x
<1>4. IDKept(heap, touched, x)
  BY <1>3 DEF IDKept
<1>5. Good(scenario, heap, envelope, Append(resources, x), vectors, touched)
  BY <1>1, <1>3, <1>4, ResourceAdded DEF Now
<1>6. QED
  BY <1>2, <1>5 DEF Now

(* A struct and the map marshalled for it have the same ID.                  *)
LEMMA StructAsMapFacts ==
    ASSUME NEW s, Relations \intersect DOMAIN s = {}
    PROVE  /\ Relations \intersect DOMAIN StructAsMap(s) = {}
           /\ \A k : objectString(StructAsMap(s), k) = objectString(s, k)
<1>1. Relations \intersect DOMAIN StructAsMap(s) = {}
  BY DEF StructAsMap
<1>2. ASSUME NEW k PROVE objectString(StructAsMap(s), k) = objectString(s, k)
  BY DEF StructAsMap, objectString
<1>3. QED
  BY <1>1, <1>2

LEMMA NewResourceIMetadataGood ==
    ASSUME Now, NEW e \in DOMAIN envelope, NewResourceIMetadata(e)
    PROVE  Now'
<1> DEFINE env == envelope[e]
           a == env.at
<1>1. /\ env \in [type : Types, at : DOMAIN heap, replaced : BOOLEAN] /\ IsHeap(heap)
      /\ scenario' = scenario /\ vectors' = vectors /\ envelope' = envelope /\ touched' = touched
  BY DEF Now, Good, EnvelopesOK, NewResourceIMetadata, Call
<1>2. CASE env.type \notin StructTypes
  <2> DEFINE x == [id |-> GetID(heap, env), object |-> a, meta |-> e, type |-> env.type]
  <2>1. heap' = heap /\ resources' = Append(resources, x)
    BY <1>2 DEF NewResourceIMetadata
  <2>2. /\ x \in [id : {x.id}, object : DOMAIN heap, meta : {0} \union DOMAIN envelope, type : Types]
        /\ x.meta = e /\ x.object = a /\ x.id = GetID(heap, env) /\ x.type = env.type
    BY <1>1
  <2>3. \A f \in DOMAIN envelope : envelope[f].type \in StructTypes => a # envelope[f].at
    BY <1>2, EnvelopeMap
  <2> HIDE DEF x
  <2>4. IDKept(heap, touched, x)
    <3>1. CASE GetObjectType(heap[a]) = env.type
      <4>1. IDOf(heap, a) = GetID(heap, env)
        BY <3>1 DEF IDOf, GetID, IDs, Env
      <4>2. QED
        BY <2>2, <4>1 DEF IDKept
    <3>2. CASE GetObjectType(heap[a]) # env.type
      BY <1>2, <2>2, <3>2 DEF IDKept, Kind, StructTypes
    <3>3. QED
      BY <3>1, <3>2
  <2>5. Good(scenario, heap, envelope, Append(resources, x), vectors, touched)
    BY <2>2, <2>3, <2>4, ResourceAdded DEF Now
  <2>6. QED
    BY <1>1, <2>1, <2>5 DEF Now
<1>3. CASE env.type \in StructTypes
  <2> DEFINE n == Len(heap) + 1
             s == heap[a]
             m == StructAsMap(s)
             g == Append(heap, m)
             x == [id |-> GetID(heap, env), object |-> n, meta |-> e, type |-> env.type]
  <2>1. heap' = g /\ resources' = Append(resources, x)
    BY <1>3 DEF NewResourceIMetadata
  <2>2. Relations \intersect DOMAIN s = {}
    <3>1. DOMAIN s = StructKeys(env.type)
      BY <1>3 DEF Now, Good, StructsOK, IsStruct
    <3>2. QED
      BY <3>1 DEF Relations, StructKeys
  <2>3. Relations \intersect DOMAIN m = {} /\ \A k : objectString(m, k) = objectString(s, k)
    BY <2>2, StructAsMapFacts
  <2> HIDE DEF m
  <2>4. Children(m) = {} /\ RefersWithin(m, heap)
    BY <2>3, NoRelations
  <2>5. /\ DOMAIN g = DOMAIN heap \union {n} /\ g[n] = m /\ n \notin DOMAIN heap
    BY <1>1, <2>4, OneMapAdded
  <2>6. Good(scenario, g, envelope, resources, vectors, touched)
    <3>1. Good(scenario, g, envelope, resources, vectors, touched \union {})
      BY <2>4, OneMapGood DEF Now
    <3>2. QED
      BY <3>1
  <2> HIDE DEF g, n
  <2>7. /\ x \in [id : {x.id}, object : DOMAIN g, meta : {0} \union DOMAIN envelope, type : Types]
        /\ x.meta = e /\ x.object = n /\ x.id = GetID(heap, env) /\ x.type = env.type
    BY <1>1, <2>5
  <2> HIDE DEF x
  <2>8. \A f \in DOMAIN envelope : envelope[f].type \in StructTypes => x.object # envelope[f].at
    BY <2>5, <2>7 DEF Now, Good, EnvelopesOK
  <2>9. IDKept(g, touched, x)
    <3> DEFINE type == GetObjectType(g[n])
    <3>1. CASE type # Kind(x)
      BY <2>7, <3>1 DEF IDKept
    <3>2. CASE type = Kind(x)
      <4>1. /\ env.type # "regoResponse" /\ type # "regoResponse"
            /\ \/ env.type = "HostSensor" /\ type = "HostSensor"
               \/ env.type = "scan" /\ type = "workload"
        BY <1>3, <2>7, <3>2 DEF Kind, StructTypes
      <4>2. OwnID(type, m) = OwnID(env.type, s)
        BY <2>3, <4>1 DEF OwnID, GetApiVersion, GetNamespace, GetKind, GetName, NameKey, NamespaceKey
      <4>3. Env(type, n).type = type /\ Env(type, n).at = n
        BY DEF Env
      <4>4. GetID(g, Env(type, n)) = GetID(heap, env)
        <5> HIDE DEF type, env
        <5>1. QED
          BY <2>5, <4>1, <4>2, <4>3, OwnIDsDecide
      <4>5. IDOf(g, n) = x.id
        BY <2>7, <4>4 DEF IDOf
      <4>6. QED
        BY <2>7, <4>5 DEF IDKept
    <3>3. QED
      BY <3>1, <3>2
  <2>10. Good(scenario, g, envelope, Append(resources, x), vectors, touched)
    BY <1>3, <2>6, <2>7, <2>8, <2>9, ResourceAdded
  <2>11. QED
    BY <1>1, <2>1, <2>10 DEF Now
<1>4. QED
  BY <1>2, <1>3

-----------------------------------------------------------------------------
(* A report is written and read back: the maps an object reaches are copied.  *)
LEMMA OrderOf ==
    ASSUME NEW S, IsFiniteSet(S)
    PROVE  /\ Cardinality(S) \in Nat
           /\ SetToSeq(S) \in [1 .. Cardinality(S) -> S]
           /\ \A i, j \in DOMAIN SetToSeq(S) : SetToSeq(S)[i] = SetToSeq(S)[j] => i = j
           /\ ToSet(SetToSeq(S)) = S
<1> DEFINE n == Cardinality(S)
           order == SetToSeq(S)
<1>1. n \in Nat /\ ExistsBijection(1 .. n, S)
  BY FS_CardinalityType
<1>2. \E f \in [1 .. n -> S] : IsInjective(f)
  BY <1>1 DEF ExistsBijection, Bijection, Injection
<1>3. order \in [1 .. n -> S] /\ IsInjective(order)
  BY <1>2 DEF SetToSeq
<1> HIDE DEF order
<1>4. order \in Surjection(1 .. n, S)
  <2>1. order \in Injection(1 .. n, S)
    BY <1>3 DEF Injection
  <2>2. IsFiniteSet(1 .. n) /\ Cardinality(1 .. n) = n
    BY <1>1, FS_Interval
  <2>3. QED
    BY <1>1, <2>1, <2>2, FS_Injection
<1>5. ToSet(order) = S
  BY <1>3, <1>4 DEF Surjection, ToSet
<1>6. QED
  BY <1>1, <1>3, <1>5 DEF IsInjective, order

(* w is the map m with everything it refers to renamed by c.                 *)
IsCopy(w, m, c) ==
    /\ DOMAIN w = DOMAIN m
    /\ \A k \in DOMAIN m \ Relations : w[k] = m[k]
    /\ Listed(w) = [i \in DOMAIN Listed(m) |-> c[Listed(m)[i]]]
    /\ SubjectList(w) = [i \in DOMAIN SubjectList(m) |->
            IF SubjectList(m)[i] = 0 THEN 0 ELSE c[SubjectList(m)[i]]]

LEMMA CopiedIDs ==
    ASSUME NEW w, NEW m, NEW c, IsCopy(w, m, c)
    PROVE  /\ GetObjectType(w) = GetObjectType(m)
           /\ \A type : OwnID(type, w) = OwnID(type, m)
<1>1. DOMAIN w = DOMAIN m /\ \A k \in DOMAIN m \ Relations : w[k] = m[k]
  BY DEF IsCopy
<1>2. "apiVersion" \notin Relations
  BY DEF Relations
<1>3. \A groups : HasGroup(w, groups) = HasGroup(m, groups)
  BY <1>1, <1>2 DEF HasGroup
<1>4. GetObjectType(w) = GetObjectType(m)
  <2>1. /\ IsTypeRegoResponseVector(w) = IsTypeRegoResponseVector(m)
        /\ IsTypeTypeHostSensor(w) = IsTypeTypeHostSensor(m)
        /\ HasGroup(w, CloudGroups) = HasGroup(m, CloudGroups)
        /\ IsTypeLocalWorkload(w) = IsTypeLocalWorkload(m)
        /\ IsTypeWorkload(w) = IsTypeWorkload(m)
        /\ IsTypeListWorkloads(w) = IsTypeListWorkloads(m)
        /\ IsBaseObject(w) = IsBaseObject(m)
    BY <1>1, <1>3 DEF IsTypeRegoResponseVector, IsTypeTypeHostSensor, IsTypeLocalWorkload,
       IsTypeWorkload, IsTypeListWorkloads, IsBaseObject
  <2>2. QED
    BY <2>1 DEF GetObjectType
<1>5. \A k : k \notin Relations => objectString(w, k) = objectString(m, k)
  BY <1>1 DEF objectString
<1>6. ASSUME NEW type PROVE OwnID(type, w) = OwnID(type, m)
  <2>1. /\ NameKey(type) \notin Relations /\ NamespaceKey(type) \notin Relations
        /\ {"sourcePath", "apiGroup", "apiVersion", "kind"} \intersect Relations = {}
    BY DEF Relations, NameKey, NamespaceKey
  <2>2. GetApiVersion(type, w) = GetApiVersion(type, m)
    BY <1>1, <1>5, <2>1 DEF GetApiVersion
  <2>3. GetNamespace(type, w) = GetNamespace(type, m)
    BY <1>5, <2>1 DEF GetNamespace
  <2>4. GetKind(w) = GetKind(m) /\ GetName(type, w) = GetName(type, m)
    BY <1>5, <2>1 DEF GetKind, GetName
  <2>5. objectString(w, "sourcePath") = objectString(m, "sourcePath")
    BY <1>5, <2>1
  <2>6. QED
    BY <2>2, <2>3, <2>4, <2>5 DEF OwnID
<1>7. QED
  BY <1>4, <1>6

RelatesCopies(w, m, X, c) ==
    /\ Listed(w) \in Seq(X) /\ SubjectList(w) \in Seq({0} \union X)
    /\ Children(w) = {c[b] : b \in Children(m)}

LEMMA CopiedRelations ==
    ASSUME NEW h, IsHeap(h), NEW a \in DOMAIN h, NEW w, NEW X, 0 \notin X, NEW c,
           \A b \in Children(h[a]) : c[b] \in X, IsCopy(w, h[a], c)
    PROVE  RelatesCopies(w, h[a], X, c)
<1> DEFINE l == Listed(h[a])
           s == SubjectList(h[a])
<1>1. /\ IsSequence(l) /\ IsSequence(s) /\ ToSet(l) \subseteq Children(h[a])
      /\ Children(h[a]) = ToSet(l) \union (ToSet(s) \ {0})
  BY HeapFacts DEF Children
<1>2. /\ Listed(w) = [i \in DOMAIN l |-> c[l[i]]]
      /\ SubjectList(w) = [i \in DOMAIN s |-> IF s[i] = 0 THEN 0 ELSE c[s[i]]]
  BY DEF IsCopy
<1> HIDE DEF l, s
<1>3. /\ Len(l) \in Nat /\ DOMAIN l = 1 .. Len(l) /\ \A i \in DOMAIN l : l[i] \in ToSet(l)
      /\ Len(s) \in Nat /\ DOMAIN s = 1 .. Len(s) /\ \A i \in DOMAIN s : s[i] \in ToSet(s)
      /\ ToSet(l) = {l[i] : i \in DOMAIN l} /\ ToSet(s) = {s[i] : i \in DOMAIN s}
  BY <1>1, SequenceFacts
<1>4. \A i \in DOMAIN l : c[l[i]] \in X
  BY <1>1, <1>3
<1>5. \A i \in DOMAIN s : s[i] = 0 \/ c[s[i]] \in X
  BY <1>1, <1>3
<1>6. Listed(w) \in Seq(X)
  BY <1>2, <1>3, <1>4
<1>7. SubjectList(w) \in Seq({0} \union X)
  <2>1. SubjectList(w) \in [1 .. Len(s) -> {0} \union X]
    BY <1>2, <1>3, <1>5
  <2>2. QED
    BY <1>3, <2>1
<1>8. ToSet(Listed(w)) = {c[b] : b \in ToSet(l)}
  <2> DEFINE t == Listed(w)
  <2>1. DOMAIN t = DOMAIN l /\ \A i \in DOMAIN l : t[i] = c[l[i]]
    BY <1>2
  <2>2. ToSet(t) = {t[i] : i \in DOMAIN t}
    BY DEF ToSet
  <2> HIDE DEF t
  <2>3. \A y : y \in ToSet(t) <=> \E b \in ToSet(l) : y = c[b]
    BY <1>3, <2>1, <2>2
  <2>4. ToSet(t) = {c[b] : b \in ToSet(l)}
    BY <2>3
  <2>5. QED
    BY <2>4 DEF t
<1>9. ToSet(SubjectList(w)) \ {0} = {c[b] : b \in ToSet(s) \ {0}}
  <2>1. ToSet(SubjectList(w)) = {IF s[i] = 0 THEN 0 ELSE c[s[i]] : i \in DOMAIN s}
    BY <1>2 DEF ToSet
  <2>2. \A i \in DOMAIN s : s[i] # 0 => c[s[i]] # 0
    BY <1>5
  <2>3. \A y : y \in ToSet(SubjectList(w)) \ {0} <=> \E b \in ToSet(s) \ {0} : y = c[b]
    BY <1>3, <2>1, <2>2
  <2>4. QED
    BY <2>3
<1>10. QED
  BY <1>1, <1>6, <1>7, <1>8, <1>9 DEF Children, RelatesCopies

(* S is closed under what its maps refer to, g has a copy of each of them.    *)
HasCopies(g, h, cells, S, c) ==
    /\ IsHeap(h) /\ IsJoin(g, h, cells)
    /\ S \subseteq DOMAIN h /\ \A a \in S : Children(h[a]) \subseteq S
    /\ \A a \in S : c[a] \in DOMAIN g \ DOMAIN h /\ IsCopy(g[c[a]], h[a], c)
    /\ \A i \in DOMAIN cells : \E a \in S : cells[i] = g[c[a]]

LEMMA CopiesAreHeap ==
    ASSUME NEW g, NEW h, NEW cells, NEW S, NEW c, HasCopies(g, h, cells, S, c)
    PROVE  /\ IsHeap(g)
           /\ \A a \in S : Children(g[c[a]]) = {c[b] : b \in Children(h[a])}
           /\ \A i \in DOMAIN cells : Children(cells[i]) \subseteq DOMAIN g \ DOMAIN h
<1> DEFINE X == DOMAIN g \ DOMAIN h
<1>1. /\ IsHeap(h) /\ IsJoin(g, h, cells)
      /\ S \subseteq DOMAIN h /\ \A a \in S : Children(h[a]) \subseteq S
      /\ \A a \in S : IsCopy(g[c[a]], h[a], c)
      /\ \A i \in DOMAIN cells : \E a \in S : cells[i] = g[c[a]]
  BY DEF HasCopies
<1>2. \A a \in S : c[a] \in X
  BY DEF HasCopies
<1>3. 0 \notin X /\ X \subseteq DOMAIN g
  BY <1>1 DEF IsJoin
<1> HIDE DEF X
<1>4. ASSUME NEW a \in S
      PROVE  /\ Listed(g[c[a]]) \in Seq(X) /\ SubjectList(g[c[a]]) \in Seq({0} \union X)
             /\ Children(g[c[a]]) = {c[b] : b \in Children(h[a])}
             /\ Children(g[c[a]]) \subseteq X
  <2> DEFINE w == g[c[a]]
  <2>1. a \in DOMAIN h /\ IsCopy(w, h[a], c)
    BY <1>1
  <2>2. \A b \in Children(h[a]) : c[b] \in X
    <3>1. Children(h[a]) \subseteq S
      BY <1>1
    <3>2. QED
      BY <1>2, <3>1
  <2>3. IsHeap(h) /\ 0 \notin X
    BY <1>1, <1>3
  <2> HIDE DEF w
  <2>4. RelatesCopies(w, h[a], X, c)
    BY <2>1, <2>2, <2>3, CopiedRelations
  <2>5. QED
    BY <2>2, <2>4 DEF w, RelatesCopies
<1>5. \A i \in DOMAIN cells : RefersWithin(cells[i], g)
  <2>1. ASSUME NEW a \in S PROVE RefersWithin(g[c[a]], g)
    <3>1. Listed(g[c[a]]) \in Seq(X) /\ SubjectList(g[c[a]]) \in Seq({0} \union X)
      BY <1>4
    <3>2. QED
      BY <1>3, <3>1 DEF RefersWithin
  <2>2. QED
    BY <1>1, <2>1
<1>6. ASSUME NEW i \in DOMAIN cells, NEW y \in Children(cells[i]), NEW z \in Children(g[y])
      PROVE  Children(g[z]) = {}
  <2>1. PICK a \in S : cells[i] = g[c[a]]
    BY <1>1
  <2>2. PICK b \in Children(h[a]) : y = c[b]
    BY <1>4, <1>6, <2>1
  <2>3. b \in S
    BY <1>1, <2>2
  <2>4. PICK d \in Children(h[b]) : z = c[d]
    BY <1>4, <1>6, <2>2, <2>3
  <2>5. d \in S
    BY <1>1, <2>3, <2>4
  <2>6. Children(h[d]) = {}
    BY <1>1, <2>2, <2>4 DEF IsHeap
  <2>7. QED
    BY <1>4, <2>4, <2>5, <2>6
<1>7. IsHeap(g)
  BY <1>1, <1>5, <1>6, GrownHeap
<1>8. QED
  BY <1>1, <1>4, <1>7 DEF X

LEMMA CopiedObject ==
    ASSUME NEW g, NEW h, NEW cells, NEW S, NEW c, HasCopies(g, h, cells, S, c), NEW a \in S
    PROVE  /\ GetObjectType(g[c[a]]) = GetObjectType(h[a])
           /\ Reach(g, c[a]) = {c[b] : b \in Reach(h, a)}
           /\ IDOf(g, c[a]) = IDOf(h, a)
<1> DEFINE x == c[a]
<1>1. /\ IsHeap(h) /\ S \subseteq DOMAIN h /\ \A b \in S : Children(h[b]) \subseteq S
      /\ \A b \in S : IsCopy(g[c[b]], h[b], c)
  BY DEF HasCopies
<1>2. \A b \in S : Children(g[c[b]]) = {c[d] : d \in Children(h[b])}
  BY CopiesAreHeap
<1>3. \A b \in S : /\ GetObjectType(g[c[b]]) = GetObjectType(h[b])
                   /\ \A type : OwnID(type, g[c[b]]) = OwnID(type, h[b])
  BY <1>1, CopiedIDs
<1>4. Reach(g, x) = {c[b] : b \in Reach(h, a)}
  <2>1. Children(g[x]) = {c[b] : b \in Children(h[a])}
    BY <1>2
  <2>2. \A b \in Children(h[a]) : Children(g[c[b]]) = {c[d] : d \in Children(h[b])}
    BY <1>1, <1>2
  <2>3. UNION {Children(g[y]) : y \in Children(g[x])}
        = {c[d] : d \in UNION {Children(h[b]) : b \in Children(h[a])}}
    <3> DEFINE there == UNION {Children(g[z]) : z \in Children(g[x])}
               here == {c[d] : d \in UNION {Children(h[b]) : b \in Children(h[a])}}
    <3>1. \A y : y \in there <=> \E b \in Children(h[a]) : y \in Children(g[c[b]])
      BY <2>1
    <3>2. \A y : y \in here <=> \E b \in Children(h[a]) : \E d \in Children(h[b]) : y = c[d]
      OBVIOUS
    <3> HIDE DEF there, here
    <3>3. \A b \in Children(h[a]) : \A y :
             y \in Children(g[c[b]]) <=> \E d \in Children(h[b]) : y = c[d]
      BY <2>2
    <3>4. \A y : y \in there <=> y \in here
      BY <3>3, <3>1, <3>2
    <3>5. there = here
      BY <3>4
    <3>6. QED
      BY <3>5 DEF there, here
  <2>4. QED
    BY <2>1, <2>3 DEF Reach
<1>5. IDOf(g, x) = IDOf(h, a)
  <2> DEFINE type == GetObjectType(h[a])
             l == Listed(h[a])
             k == Listed(g[x])
  <2>1. GetObjectType(g[x]) = type /\ OwnID(type, g[x]) = OwnID(type, h[a])
    BY <1>3
  <2>2. IsSequence(l) /\ ToSet(l) \subseteq Children(h[a])
    BY <1>1, HeapFacts
  <2>3. DOMAIN k = DOMAIN l /\ \A i \in DOMAIN l : k[i] = c[l[i]]
    <3>1. IsCopy(g[x], h[a], c)
      BY <1>1
    <3>2. k = [i \in DOMAIN l |-> c[l[i]]]
      BY <3>1 DEF IsCopy
    <3>3. QED
      BY <3>2
  <2>4. \A i \in DOMAIN l : l[i] \in S
    BY <1>1, <2>2, SequenceFacts
  <2> HIDE DEF k, l
  <2>5. \A i \in DOMAIN l : OwnID(GetObjectType(g[k[i]]), g[k[i]]) = OwnID(GetObjectType(h[l[i]]), h[l[i]])
    BY <1>3, <2>3, <2>4
  <2>6. [i \in DOMAIN k |-> OwnID(GetObjectType(g[k[i]]), g[k[i]])]
        = [i \in DOMAIN l |-> OwnID(GetObjectType(h[l[i]]), h[l[i]])]
    BY <2>3, <2>5
  <2> HIDE DEF type
  <2>7. /\ Env(type, x).type = type /\ Env(type, x).at = x
        /\ Env(type, a).type = type /\ Env(type, a).at = a
    BY DEF Env
  <2>8. CASE type = "regoResponse"
    <3>1. IDs(g, Env(type, x)) = IDs(h, Env(type, a))
      <4> HIDE DEF x
      <4>1. /\ IDs(g, Env(type, x)) = <<OwnID(type, g[x])>>
                 \o [i \in DOMAIN k |-> OwnID(GetObjectType(g[k[i]]), g[k[i]])]
            /\ IDs(h, Env(type, a)) = <<OwnID(type, h[a])>>
                 \o [i \in DOMAIN l |-> OwnID(GetObjectType(h[l[i]]), h[l[i]])]
        BY <2>7, <2>8, Zenon DEF IDs, Related, k, l
      <4>2. QED
        BY <2>1, <2>6, <4>1
    <3>2. QED
      BY <2>1, <3>1 DEF IDOf, GetID, type
  <2>9. CASE type # "regoResponse"
    <3>1. GetID(g, Env(type, x)) = GetID(h, Env(type, a))
      <4> HIDE DEF x
      <4>1. QED
        BY <2>1, <2>7, <2>9, OwnIDsDecide
    <3>2. QED
      BY <2>1, <3>1 DEF IDOf, type
  <2>10. QED
    BY <2>8, <2>9
<1>6. QED
  BY <1>3, <1>4, <1>5

LEMMA JSONCopyIsCopy ==
    ASSUME IsHeap(heap), NEW a \in DOMAIN heap, NEW order, NEW S, Children(heap[a]) \subseteq S,
           NEW c, c = [b \in S |-> CopyOf(b, order)]
    PROVE  IsCopy(JSONCopy(a, order), heap[a], c)
<1> DEFINE m == heap[a]
           w == JSONCopy(a, order)
           l == Listed(m)
           s == SubjectList(m)
           none == << >>
<1>1. /\ IsSequence(l) /\ IsSequence(s)
      /\ ToSet(l) \subseteq S /\ ToSet(s) \ {0} \subseteq S
  BY HeapFacts DEF Children
<1>2. /\ \A i \in DOMAIN l : c[l[i]] = CopyOf(l[i], order)
      /\ \A i \in DOMAIN s : s[i] # 0 => c[s[i]] = CopyOf(s[i], order)
  <2> HIDE DEF l, s
  <2>1. /\ \A i \in DOMAIN l : l[i] \in S
        /\ \A i \in DOMAIN s : s[i] # 0 => s[i] \in S
    BY <1>1, SequenceFacts
  <2>2. QED
    BY <2>1
<1>3. /\ DOMAIN w = DOMAIN m
      /\ \A k \in DOMAIN m \ Relations : w[k] = m[k]
  BY DEF JSONCopy, Relations
<1>4. DOMAIN none = {}
  OBVIOUS
<1>5. Listed(w) = [i \in DOMAIN l |-> c[l[i]]]
  <2>1. CASE "relatedObjects" \in DOMAIN m
    <3>1. w["relatedObjects"].list = [i \in DOMAIN l |-> CopyOf(l[i], order)]
      BY <2>1 DEF JSONCopy, Listed
    <3>2. Listed(w) = w["relatedObjects"].list
      BY <1>3, <2>1 DEF Listed
    <3> HIDE DEF w, l
    <3>3. QED
      BY <1>2, <3>1, <3>2
  <2>2. CASE "relatedObjects" \notin DOMAIN m
    <3>1. Listed(w) = none /\ l = none
      BY <1>3, <2>2 DEF Listed
    <3> HIDE DEF w, l, none
    <3>2. none = [i \in DOMAIN none |-> c[none[i]]]
      <4>1. IsSequence(none)
        BY <1>1, <3>1
      <4>2. none = [i \in DOMAIN none |-> none[i]]
        BY <4>1 DEF IsSequence
      <4>3. QED
        BY <1>4, <4>2
    <3>3. QED
      BY <3>1, <3>2
  <2>3. QED
    BY <2>1, <2>2
<1>6. SubjectList(w) = [i \in DOMAIN s |-> IF s[i] = 0 THEN 0 ELSE c[s[i]]]
  <2>1. CASE "subjects" \in DOMAIN m
    <3>1. w["subjects"] = [i \in DOMAIN s |-> IF s[i] = 0 THEN 0 ELSE CopyOf(s[i], order)]
      BY <2>1 DEF JSONCopy, SubjectList
    <3>2. SubjectList(w) = w["subjects"]
      BY <1>3, <2>1 DEF SubjectList
    <3> HIDE DEF w, s
    <3>3. QED
      BY <1>2, <3>1, <3>2
  <2>2. CASE "subjects" \notin DOMAIN m
    <3>1. SubjectList(w) = none /\ s = none
      BY <1>3, <2>2 DEF SubjectList
    <3> HIDE DEF w, s, none
    <3>2. none = [i \in DOMAIN none |-> IF none[i] = 0 THEN 0 ELSE c[none[i]]]
      <4>1. IsSequence(none)
        BY <1>1, <3>1
      <4>2. none = [i \in DOMAIN none |-> none[i]]
        BY <4>1 DEF IsSequence
      <4>3. QED
        BY <1>4, <4>2
    <3>3. QED
      BY <3>1, <3>2
  <2>3. QED
    BY <2>1, <2>2
<1>7. QED
  BY <1>3, <1>5, <1>6 DEF IsCopy

LEMMA ReloadGood ==
    ASSUME Now, NEW r \in DOMAIN resources, Reload(r)
    PROVE  Now'
<1> DEFINE a == resources[r].object
           S == Reach(heap, a)
           order == SetToSeq(S)
           n == Cardinality(S)
           cells == [i \in DOMAIN order |-> JSONCopy(order[i], order)]
           g == heap \o cells
           c == [b \in S |-> CopyOf(b, order)]
           N == {CopyOf(b, order) : b \in touched \intersect ToSet(order)}
           x == [resources[r] EXCEPT !.object = CopyOf(@, order), !.meta = 0]
<1>1. /\ heap' = g /\ resources' = Append(resources, x) /\ touched' = touched \union N
      /\ envelope' = envelope /\ scenario' = scenario /\ vectors' = vectors
  BY DEF Reload, Call
<1>2. /\ IsHeap(heap) /\ a \in DOMAIN heap /\ touched \subseteq DOMAIN heap
      /\ IDKept(heap, touched, resources[r])
      /\ resources[r] \in [id : {resources[r].id}, object : DOMAIN heap,
                           meta : {0} \union DOMAIN envelope, type : Types]
  BY DEF Now, Good, ResourcesOK, IDsOK
<1>3. /\ S \in SUBSET DOMAIN heap /\ a \in S
      /\ \A b \in S : Children(heap[b]) \subseteq S
  BY <1>2, ReachFacts
<1>4. IsFiniteSet(S)
  <2>1. IsSequence(heap) /\ Len(heap) \in Nat /\ DOMAIN heap = 1 .. Len(heap)
    BY <1>2, HeapFacts
  <2>2. IsFiniteSet(DOMAIN heap)
    BY <2>1, FS_Interval
  <2>3. QED
    BY <1>3, <2>2, FS_Subset
<1> HIDE DEF S
<1>5. /\ n \in Nat /\ order \in [1 .. n -> S] /\ ToSet(order) = S
      /\ \A i, j \in DOMAIN order : order[i] = order[j] => i = j
  BY <1>4, OrderOf
<1> HIDE DEF order, n
<1>6. \A b \in S : \E i \in DOMAIN order : order[i] = b /\ CopyOf(b, order) = Len(heap) + i
  <2>1. ASSUME NEW b \in S
        PROVE  \E i \in DOMAIN order : order[i] = b /\ CopyOf(b, order) = Len(heap) + i
    <3>1. \E i \in DOMAIN order : order[i] = b
      BY <1>5 DEF ToSet
    <3>2. QED
      BY <3>1 DEF CopyOf
  <2>2. QED
    BY <2>1
<1>7. ASSUME NEW i \in DOMAIN order
      PROVE  order[i] \in S /\ CopyOf(order[i], order) = Len(heap) + i
  <2>1. order[i] \in S
    BY <1>5
  <2>2. PICK j \in DOMAIN order : order[j] = order[i] /\ CopyOf(order[i], order) = Len(heap) + j
    BY <1>6, <2>1
  <2>3. j = i
    BY <1>5, <2>2
  <2>4. QED
    BY <2>1, <2>2, <2>3
<1>8. IsSequence(cells) /\ DOMAIN cells = DOMAIN order
  <2>1. cells = [i \in 1 .. n |-> cells[i]] /\ DOMAIN order = 1 .. n
    BY <1>5
  <2> HIDE DEF cells
  <2>2. QED
    BY <1>5, <2>1, MadeSequence
<1>9. IsJoin(g, heap, cells)
  <2>1. IsSequence(heap)
    BY <1>2, HeapFacts
  <2> HIDE DEF cells
  <2>2. QED
    BY <1>8, <2>1, JoinedSequence
<1>10. /\ \A i \in DOMAIN cells : /\ Len(heap) + i \in DOMAIN g \ DOMAIN heap
                                  /\ g[Len(heap) + i] = cells[i]
  BY <1>9 DEF IsJoin
<1>11. \A i \in DOMAIN order : cells[i] = JSONCopy(order[i], order)
  OBVIOUS
<1>12. \A b \in S : c[b] = CopyOf(b, order)
  OBVIOUS
<1>13. \A b \in S : IsCopy(JSONCopy(b, order), heap[b], c)
  BY <1>2, <1>3, JSONCopyIsCopy
<1> HIDE DEF cells, g, c
<1>14. \A b \in S : c[b] \in DOMAIN g \ DOMAIN heap /\ g[c[b]] = JSONCopy(b, order)
  BY <1>6, <1>8, <1>10, <1>11, <1>12
<1>15. \A i \in DOMAIN cells : \E b \in S : cells[i] = g[c[b]]
  BY <1>7, <1>8, <1>11, <1>14
<1>16. HasCopies(g, heap, cells, S, c)
  BY <1>2, <1>3, <1>9, <1>13, <1>14, <1>15 DEF HasCopies
<1>17. IsHeap(g) /\ \A i \in DOMAIN cells : Children(cells[i]) \subseteq DOMAIN g \ DOMAIN heap
  BY <1>16, CopiesAreHeap
<1>18. N \subseteq DOMAIN g \ DOMAIN heap /\ N = {c[b] : b \in touched \intersect S}
  BY <1>5, <1>12, <1>14
<1> HIDE DEF N
<1>19. Good(scenario, g, envelope, resources, vectors, touched \union N)
  <2>1. \A e \in DOMAIN envelope : envelope[e].type \in StructTypes =>
           \A i \in DOMAIN cells : envelope[e].at \notin Children(cells[i])
    BY <1>17 DEF Now, Good, EnvelopesOK
  <2>2. QED
    BY <1>9, <1>17, <1>18, <2>1, MapsAdded DEF Now
<1>20. /\ x \in [id : {x.id}, object : DOMAIN g, meta : {0} \union DOMAIN envelope, type : Types]
       /\ x.id = resources[r].id /\ x.type = resources[r].type /\ x.meta = 0 /\ x.object = c[a]
  BY <1>2, <1>3, <1>12, <1>14
<1>21. /\ GetObjectType(g[c[a]]) = GetObjectType(heap[a])
       /\ Reach(g, c[a]) = {c[b] : b \in S}
       /\ IDOf(g, c[a]) = IDOf(heap, a)
  BY <1>3, <1>16, CopiedObject DEF S
<1> HIDE DEF x
<1>22. IDKept(g, touched \union N, x)
  <2>1. CASE resources[r].id = NoID
    BY <1>20, <2>1 DEF IDKept
  <2>2. CASE GetObjectType(heap[a]) # Kind(resources[r])
    BY <1>20, <1>21, <2>2 DEF IDKept, Kind
  <2>3. CASE S \intersect touched # {}
    <3>1. PICK b \in S : b \in touched
      BY <2>3
    <3>2. c[b] \in Reach(g, c[a]) /\ c[b] \in N
      BY <1>18, <1>21, <3>1
    <3>3. QED
      BY <1>20, <3>2 DEF IDKept
  <2>4. CASE IDOf(heap, a) = resources[r].id
    BY <1>20, <1>21, <2>4 DEF IDKept
  <2>5. QED
    BY <1>2, <2>1, <2>2, <2>3, <2>4 DEF IDKept, S
<1>23. \A e \in DOMAIN envelope : envelope[e].type \in StructTypes => x.object # envelope[e].at
  BY <1>3, <1>14, <1>20 DEF Now, Good, EnvelopesOK
<1>24. Good(scenario, g, envelope, Append(resources, x), vectors, touched \union N)
  BY <1>19, <1>20, <1>22, <1>23, ResourceAdded
<1>25. QED
  BY <1>1, <1>24 DEF Now

-----------------------------------------------------------------------------
(* The objects of a scenario, before and after they are aggregated.          *)
Original == IsHeap(heap) /\ scenario \in Scenarios
            /\ \A a \in DOMAIN scenario.heap : a \in DOMAIN heap /\ heap[a] = scenario.heap[a]

LEMMA ObjectFacts ==
    ASSUME Original
    PROVE  /\ scenario.objects \in Seq(DOMAIN scenario.heap) /\ IsInjective(scenario.objects)
           /\ Len(scenario.objects) \in Nat
           /\ DOMAIN scenario.objects = 1 .. Len(scenario.objects)
           /\ ToSet(scenario.objects) = {scenario.objects[i] : i \in DOMAIN scenario.objects}
           /\ ToSet(scenario.objects) \subseteq DOMAIN scenario.heap
           /\ ToSet(scenario.objects) \subseteq DOMAIN heap
           /\ IsHeap(scenario.heap)
<1>1. /\ scenario.objects \in Seq(DOMAIN scenario.heap) /\ IsHeap(scenario.heap)
      /\ \A i, j \in DOMAIN scenario.objects : scenario.objects[i] = scenario.objects[j] => i = j
  BY ScenariosAssumption DEF Original
<1>2. IsSequence(scenario.objects) /\ ToSet(scenario.objects) \subseteq DOMAIN scenario.heap
  BY <1>1, OfMembers
<1>3. DOMAIN scenario.heap \subseteq DOMAIN heap
  BY DEF Original
<1>4. QED
  BY <1>1, <1>2, <1>3, SequenceFacts DEF IsInjective

(* The loop over the subjects of a binding.                                  *)
Pairing == [binding : DOMAIN heap, role : DOMAIN heap, subject : DOMAIN heap]
Paired(b, r) ==
    {[binding |-> b, role |-> r, subject |-> s] : s \in ToSet(SubjectList(heap[b])) \ {0}}

LEMMA SubjectTriplesFacts ==
    ASSUME Original, NEW b \in ToSet(scenario.objects), NEW r \in ToSet(scenario.objects)
    PROVE  /\ SubjectTriples(b, r) \in Seq(Pairing)
           /\ ToSet(SubjectTriples(b, r)) = Paired(b, r)
           /\ IsInjective(SubjectTriples(b, r))
<1> DEFINE data == SubjectList(heap[b])
           n == Len(data)
           t(s) == [binding |-> b, role |-> r, subject |-> s]
           seqs == [k \in DOMAIN data |-> IF data[k] = 0 THEN << >> ELSE <<t(data[k])>>]
<1>1. /\ b \in DOMAIN heap /\ r \in DOMAIN heap /\ heap[b] = scenario.heap[b]
      /\ b \in DOMAIN scenario.heap
  BY ObjectFacts DEF Original
<1>2. data \in Seq({0} \union DOMAIN heap) /\ IsSequence(data)
  <2>1. data \in Seq({0} \union DOMAIN heap)
    BY <1>1 DEF Original, IsHeap, RefersWithin
  <2>2. QED
    BY <2>1, OfMembers
<1>3. \A i, j \in DOMAIN data : data[i] = data[j] /\ data[i] # 0 => i = j
  <2> DEFINE given == SubjectList(scenario.heap[b])
  <2>1. \A i, j \in DOMAIN given : given[i] = given[j] /\ given[i] # 0 => i = j
    <3>1. scenario \in Scenarios
      BY DEF Original
    <3>2. QED
      BY <1>1, <3>1, ScenariosAssumption
  <2>2. given = data
    BY <1>1
  <2>3. QED
    BY <2>1, <2>2
<1>4. /\ n \in Nat /\ DOMAIN data = 1 .. n
      /\ \A k \in 1 .. n : data[k] \in {0} \union DOMAIN heap
      /\ ToSet(data) = {data[k] : k \in 1 .. n}
  BY <1>2, SequenceFacts
<1> HIDE DEF data, n
<1>5. \A s \in DOMAIN heap : t(s) \in Pairing
  BY <1>1 DEF Pairing
<1>6. \A k \in 1 .. n : /\ seqs[k] \in Seq(Pairing)
                        /\ ToSet(seqs[k]) = IF data[k] = 0 THEN {} ELSE {t(data[k])}
                        /\ IsInjective(seqs[k])
  <2> SUFFICES ASSUME NEW k \in 1 .. n
               PROVE  /\ seqs[k] \in Seq(Pairing)
                      /\ ToSet(seqs[k]) = IF data[k] = 0 THEN {} ELSE {t(data[k])}
                      /\ IsInjective(seqs[k])
    OBVIOUS
  <2>1. CASE data[k] = 0
    <3>1. seqs[k] = << >>
      BY <1>4, <2>1
    <3>2. << >> \in Seq(Pairing) /\ IsInjective(<< >>)
      BY DEF IsInjective
    <3>3. QED
      BY <2>1, <3>1, <3>2, MembersOfNone
  <2>2. CASE data[k] # 0
    <3> DEFINE x == t(data[k])
               one == <<x>>
    <3>1. seqs[k] = one /\ x \in Pairing
      BY <1>4, <1>5, <2>2
    <3> HIDE DEF x
    <3>2. one \in Seq(Pairing) /\ DOMAIN one = {1} /\ one[1] = x
      BY <3>1
    <3> HIDE DEF one
    <3>3. IsInjective(one) /\ ToSet(one) = {x}
      BY <3>2 DEF IsInjective, ToSet
    <3> HIDE DEF seqs
    <3>4. QED
      BY <2>2, <3>1, <3>2, <3>3 DEF x
  <2>3. QED
    BY <2>1, <2>2
<1>7. seqs \in [1 .. n -> Seq(Pairing)]
  <2>1. seqs = [k \in 1 .. n |-> seqs[k]]
    BY <1>4
  <2> HIDE DEF seqs
  <2>2. QED
    BY <1>6, <2>1
<1>8. SubjectTriples(b, r) = FlattenSeq(seqs)
  BY DEF SubjectTriples, data
<1>9. \A j, k \in 1 .. n : j # k => ToSet(seqs[j]) \intersect ToSet(seqs[k]) = {}
  <2> HIDE DEF seqs
  <2>1. \A j, k \in 1 .. n : j # k /\ data[j] # 0 /\ data[k] # 0 => t(data[j]) # t(data[k])
    BY <1>3, <1>4
  <2> HIDE DEF t
  <2>2. QED
    BY <1>6, <2>1
<1> HIDE DEF seqs
<1>10. /\ FlattenSeq(seqs) \in Seq(Pairing) /\ ToSet(FlattenSeq(seqs)) = MembersOf(seqs, n)
       /\ IsInjective(FlattenSeq(seqs))
  BY <1>4, <1>6, <1>7, <1>9, FlattenMembers, FlattenDistinct
<1>11. MembersOf(seqs, n) = Paired(b, r)
  <2> DEFINE here == MembersOf(seqs, n)
             there == Paired(b, r)
  <2>1. \A y : y \in here <=> \E k \in 1 .. n : data[k] # 0 /\ y = t(data[k])
    BY <1>6 DEF MembersOf
  <2>2. \A y : y \in there <=> \E k \in 1 .. n : data[k] # 0 /\ y = t(data[k])
    BY <1>4 DEF Paired, data
  <2> HIDE DEF here, there
  <2>3. here = there
    BY <2>1, <2>2
  <2>4. QED
    BY <2>3 DEF here, there
<1>12. QED
  BY <1>8, <1>10, <1>11

LEMMA PairedMembers ==
    ASSUME Original, NEW b \in ToSet(scenario.objects), NEW r \in ToSet(scenario.objects), NEW t
    PROVE  t \in Paired(b, r) <=> /\ t \in Pairing /\ t.binding = b /\ t.role = r
                                  /\ t.subject \in ToSet(SubjectList(heap[t.binding]))
<1> DEFINE S == ToSet(SubjectList(heap[b]))
<1>1. b \in DOMAIN heap /\ r \in DOMAIN heap /\ IsHeap(heap)
  BY ObjectFacts DEF Original
<1>2. 0 \notin DOMAIN heap /\ S \ {0} \subseteq DOMAIN heap
  BY <1>1, HeapFacts DEF Children
<1> HIDE DEF S
<1>3. \A s \in S \ {0} : [binding |-> b, role |-> r, subject |-> s] \in Pairing
  BY <1>1, <1>2 DEF Pairing
<1>4. ASSUME t \in Pairing, t.binding = b, t.role = r, t.subject \in S
      PROVE  t.subject \in S \ {0} /\ t = [binding |-> b, role |-> r, subject |-> t.subject]
  BY <1>2, <1>4 DEF Pairing
<1>5. QED
  BY <1>3, <1>4 DEF Paired, S

(* The loops over the objects.                                               *)
Grants(t) ==
    /\ t.role \in Of(RoleKinds) /\ bindingReferencesRole(heap[t.binding], heap[t.role])
    /\ t.subject \in ToSet(SubjectList(heap[t.binding]))

LEMMA RoleTriplesFacts ==
    ASSUME Original, NEW b \in ToSet(scenario.objects)
    PROVE  /\ RoleTriples(b) \in Seq(Pairing) /\ IsInjective(RoleTriples(b))
           /\ ToSet(RoleTriples(b)) = {t \in Pairing : t.binding = b /\ Grants(t)}
<1> DEFINE objects == scenario.objects
           n == Len(objects)
           chosen(r) == OfKind(r, RoleKinds) /\ bindingReferencesRole(heap[b], heap[r])
           seqs == [j \in DOMAIN objects |->
                        IF chosen(objects[j]) THEN SubjectTriples(b, objects[j]) ELSE << >>]
<1>1. /\ n \in Nat /\ DOMAIN objects = 1 .. n /\ IsInjective(objects)
      /\ ToSet(objects) = {objects[i] : i \in 1 .. n}
  BY ObjectFacts
<1>2. RoleTriples(b) = FlattenSeq(seqs)
  BY DEF RoleTriples
<1>3. \A j \in 1 .. n : /\ chosen(objects[j]) => seqs[j] = SubjectTriples(b, objects[j])
                        /\ ~chosen(objects[j]) => seqs[j] = << >>
                        /\ objects[j] \in ToSet(objects)
  BY <1>1
<1>4. \A r : chosen(r) /\ r \in ToSet(objects) <=>
                r \in Of(RoleKinds) /\ bindingReferencesRole(heap[b], heap[r])
  BY DEF Of
<1>5. seqs = [j \in 1 .. n |-> seqs[j]]
  BY <1>1
<1> HIDE DEF objects, n, chosen, seqs
<1>6. << >> \in Seq(Pairing) /\ IsInjective(<< >>) /\ ToSet(<< >>) = {}
  BY MembersOfNone DEF IsInjective
<1>7. \A r \in ToSet(objects) : /\ SubjectTriples(b, r) \in Seq(Pairing)
                                /\ ToSet(SubjectTriples(b, r)) = Paired(b, r)
                                /\ IsInjective(SubjectTriples(b, r))
  BY SubjectTriplesFacts DEF objects
<1>8. \A r \in ToSet(objects) : \A t :
         t \in Paired(b, r) <=> /\ t \in Pairing /\ t.binding = b /\ t.role = r
                                /\ t.subject \in ToSet(SubjectList(heap[t.binding]))
  BY PairedMembers DEF objects
<1>9. \A j \in 1 .. n : /\ seqs[j] \in Seq(Pairing) /\ IsInjective(seqs[j])
                        /\ ToSet(seqs[j]) = IF chosen(objects[j]) THEN Paired(b, objects[j]) ELSE {}
  BY <1>3, <1>6, <1>7
<1>10. seqs \in [1 .. n -> Seq(Pairing)]
  BY <1>5, <1>9
<1>11. \A j, k \in 1 .. n : j # k => ToSet(seqs[j]) \intersect ToSet(seqs[k]) = {}
  <2>1. ASSUME NEW j \in 1 .. n, NEW k \in 1 .. n, NEW t \in ToSet(seqs[j]), t \in ToSet(seqs[k])
        PROVE  j = k
    <3>1. t.role = objects[j] /\ t.role = objects[k]
      BY <1>3, <1>8, <1>9, <2>1
    <3>2. QED
      BY <1>1, <3>1 DEF IsInjective
  <2>2. QED
    BY <2>1
<1>12. /\ FlattenSeq(seqs) \in Seq(Pairing) /\ ToSet(FlattenSeq(seqs)) = MembersOf(seqs, n)
       /\ IsInjective(FlattenSeq(seqs))
  BY <1>1, <1>9, <1>10, <1>11, FlattenMembers, FlattenDistinct
<1>13. MembersOf(seqs, n) = {t \in Pairing : t.binding = b /\ Grants(t)}
  <2> DEFINE here == MembersOf(seqs, n)
             there == {t \in Pairing : t.binding = b /\ Grants(t)}
  <2>1. \A y : y \in here <=> \E j \in 1 .. n : chosen(objects[j]) /\ y \in Paired(b, objects[j])
    BY <1>9 DEF MembersOf
  <2>2. \A y : y \in here <=> \E r \in ToSet(objects) : chosen(r) /\ y \in Paired(b, r)
    BY <1>1, <2>1
  <2>3. \A y : y \in there <=> \E r \in ToSet(objects) : chosen(r) /\ y \in Paired(b, r)
    BY <1>4, <1>8 DEF Grants
  <2> HIDE DEF here, there
  <2>4. here = there
    BY <2>2, <2>3
  <2>5. QED
    BY <2>4 DEF here, there
<1>14. QED
  BY <1>2, <1>12, <1>13

LEMMA TriplesFacts ==
    ASSUME Original
    PROVE  /\ Triples \in Seq(Pairing) /\ IsInjective(Triples)
           /\ ToSet(Triples) = {t \in Pairing : t.binding \in Of(BindingKinds) /\ Grants(t)}
<1> DEFINE objects == scenario.objects
           n == Len(objects)
           chosen(b) == OfKind(b, BindingKinds)
           seqs == [i \in DOMAIN objects |->
                        IF chosen(objects[i]) THEN RoleTriples(objects[i]) ELSE << >>]
<1>1. /\ n \in Nat /\ DOMAIN objects = 1 .. n /\ IsInjective(objects)
      /\ ToSet(objects) = {objects[i] : i \in 1 .. n}
  BY ObjectFacts
<1>2. Triples = FlattenSeq(seqs)
  BY DEF Triples
<1>3. \A j \in 1 .. n : /\ chosen(objects[j]) => seqs[j] = RoleTriples(objects[j])
                        /\ ~chosen(objects[j]) => seqs[j] = << >>
                        /\ objects[j] \in ToSet(objects)
  BY <1>1
<1>4. \A b : chosen(b) /\ b \in ToSet(objects) <=> b \in Of(BindingKinds)
  BY DEF Of
<1>5. seqs = [j \in 1 .. n |-> seqs[j]]
  BY <1>1
<1> HIDE DEF objects, n, chosen, seqs
<1>6. << >> \in Seq(Pairing) /\ IsInjective(<< >>) /\ ToSet(<< >>) = {}
  BY MembersOfNone DEF IsInjective
<1> DEFINE granted(b) == {t \in Pairing : t.binding = b /\ Grants(t)}
<1>7. \A b \in ToSet(objects) : /\ RoleTriples(b) \in Seq(Pairing)
                                /\ ToSet(RoleTriples(b)) = granted(b)
                                /\ IsInjective(RoleTriples(b))
  BY RoleTriplesFacts DEF objects
<1>8. \A b, t : t \in granted(b) <=> t \in Pairing /\ t.binding = b /\ Grants(t)
  OBVIOUS
<1> HIDE DEF granted
<1>9. \A j \in 1 .. n : /\ seqs[j] \in Seq(Pairing) /\ IsInjective(seqs[j])
                        /\ ToSet(seqs[j]) = IF chosen(objects[j]) THEN granted(objects[j]) ELSE {}
  BY <1>3, <1>6, <1>7
<1>10. seqs \in [1 .. n -> Seq(Pairing)]
  BY <1>5, <1>9
<1>11. \A j, k \in 1 .. n : j # k => ToSet(seqs[j]) \intersect ToSet(seqs[k]) = {}
  <2>1. ASSUME NEW j \in 1 .. n, NEW k \in 1 .. n, NEW t \in ToSet(seqs[j]), t \in ToSet(seqs[k])
        PROVE  j = k
    <3>1. t.binding = objects[j] /\ t.binding = objects[k]
      BY <1>8, <1>9, <2>1
    <3>2. QED
      BY <1>1, <3>1 DEF IsInjective
  <2>2. QED
    BY <2>1
<1>12. /\ FlattenSeq(seqs) \in Seq(Pairing) /\ ToSet(FlattenSeq(seqs)) = MembersOf(seqs, n)
       /\ IsInjective(FlattenSeq(seqs))
  BY <1>1, <1>9, <1>10, <1>11, FlattenMembers, FlattenDistinct
<1>13. MembersOf(seqs, n) = {t \in Pairing : t.binding \in Of(BindingKinds) /\ Grants(t)}
  <2> DEFINE here == MembersOf(seqs, n)
             there == {t \in Pairing : t.binding \in Of(BindingKinds) /\ Grants(t)}
  <2>1. \A y : y \in here <=> \E j \in 1 .. n : chosen(objects[j]) /\ y \in granted(objects[j])
    BY <1>9 DEF MembersOf
  <2>2. \A y : y \in here <=> \E b \in ToSet(objects) : chosen(b) /\ y \in granted(b)
    BY <1>1, <2>1
  <2>3. \A y : y \in there <=> \E b \in ToSet(objects) : chosen(b) /\ y \in granted(b)
    BY <1>4, <1>8
  <2> HIDE DEF here, there
  <2>4. here = there
    BY <2>2, <2>3
  <2>5. QED
    BY <2>4 DEF here, there
<1>14. QED
  BY <1>2, <1>12, <1>13

(* What the code decides of a roleRef is what Kubernetes does with it.       *)
LEMMA SameNames ==
    ASSUME NEW b, NEW r, objectString(r, "kind") \in RoleKinds,
           "metadata.name" \in DOMAIN r, r["metadata.name"] # NotAString
    PROVE  SameReference(b, r) <=> /\ {"roleRef.kind", "roleRef.name"} \subseteq DOMAIN b
                                   /\ b["roleRef.kind"] = r["kind"]
                                   /\ b["roleRef.name"] = r["metadata.name"]
<1>1. "kind" \in DOMAIN r /\ r["kind"] # NotAString
  BY KindsAssumption DEF objectString
<1>2. QED
  BY <1>1 DEF SameReference, objectString

LEMMA SameGroups ==
    ASSUME NEW b, NEW r, objectString(b, "roleRef.apiGroup") \in Strings("roleRef.apiGroup")
    PROVE  GroupsCompatible(b, r)
           <=> GroupsOf(objectString(b, "roleRef.apiGroup"))
                  \intersect GroupsOf(GroupOf(objectString(r, "apiVersion"))) # {}
<1> DEFINE v == objectString(b, "roleRef.apiGroup")
           w == GroupOf(objectString(r, "apiVersion"))
           all == {Group[x] : x \in DOMAIN Group} \union {GroupHostSensor} \union Strings("roleRef.apiGroup")
<1>1. v \in all /\ all # {}
  OBVIOUS
<1>2. w = "" \/ w \in all
  BY DEF GroupOf
<1>3. /\ GroupsOf(v) = IF v = "" THEN all ELSE {v}
      /\ GroupsOf(w) = IF w = "" THEN all ELSE {w}
  BY DEF GroupsOf, Completions
<1>4. GroupsCompatible(b, r) <=> v = "" \/ w = "" \/ v = w
  BY DEF GroupsCompatible
<1> HIDE DEF v, w, all
<1>5. GroupsCompatible(b, r) <=> GroupsOf(v) \intersect GroupsOf(w) # {}
  BY <1>1, <1>2, <1>3, <1>4
<1>6. QED
  BY <1>5 DEF v, w

(* The namespace a roleRef is looked up in.                                  *)
InScope(b, r) ==
    \/ ~roleIsNamespaced(objectString(r, "kind"), objectString(r, "metadata.namespace"))
    \/ /\ bindingResolvesNamespacedRole(objectString(r, "kind"), objectString(b, "kind"))
       /\ namespacesCompatible(objectString(r, "metadata.namespace"), objectString(b, "metadata.namespace"))

LEMMA SameScope ==
    ASSUME NEW b, NEW r,
           objectString(b, "kind") \in BindingKinds, objectString(r, "kind") \in RoleKinds,
           objectString(b, "metadata.namespace") \in Strings("metadata.namespace"),
           objectString(r, "metadata.namespace") \in Strings("metadata.namespace"),
           Anywhere \notin Strings("metadata.namespace")
    PROVE  InScope(b, r)
           <=> \/ Anywhere \in Scopes(r)
               \/ /\ b["kind"] # "ClusterRoleBinding"
                  /\ r["kind"] = "Role" => b["kind"] = "RoleBinding"
                  /\ Scopes(r) \intersect Namespaces(b) # {}
<1> DEFINE v == objectString(b, "metadata.namespace")
           w == objectString(r, "metadata.namespace")
           k == b["kind"]
           l == r["kind"]
           all == {"default"} \union (Strings("metadata.namespace") \ {""})
<1>1. objectString(b, "kind") = k /\ objectString(r, "kind") = l
  BY KindsAssumption DEF objectString
<1>2. /\ v = "" \/ v \in all
      /\ w = "" \/ w \in all
      /\ Anywhere \notin all /\ v # Anywhere /\ w # Anywhere /\ "default" \in all
  BY DEF Anywhere
<1>3. /\ Namespaces(b) = IF v = "" THEN all ELSE {v}
      /\ Namespaces(r) = IF w = "" THEN all ELSE {w}
  BY DEF Namespaces, Completions
<1>4. Scopes(r) = IF l = "ClusterRole" THEN {Anywhere}
                  ELSE IF l = "Role" THEN Namespaces(r)
                  ELSE IF w = "" THEN {Anywhere} ELSE {w}
  BY DEF Scopes, Completions
<1>5. InScope(b, r)
      <=> \/ ~(l = "Role" \/ (l # "ClusterRole" /\ w # ""))
          \/ /\ IF l = "Role" THEN k = "RoleBinding" ELSE k # "ClusterRoleBinding"
             /\ w = "" \/ v = "" \/ w = v
  BY <1>1 DEF InScope, roleIsNamespaced, bindingResolvesNamespacedRole, namespacesCompatible
<1> HIDE DEF v, w, k, l, all
<1> DEFINE meets == Scopes(r) \intersect Namespaces(b) # {}
<1>6. CASE l = "ClusterRole"
  BY <1>4, <1>5, <1>6 DEF l
<1>7. CASE l = "Role"
  <2>1. Anywhere \notin Scopes(r)
    BY <1>2, <1>3, <1>4, <1>7
  <2>2. meets <=> w = "" \/ v = "" \/ w = v
    BY <1>2, <1>3, <1>4, <1>7
  <2>3. k = "RoleBinding" => k # "ClusterRoleBinding"
    OBVIOUS
  <2>4. QED
    BY <1>5, <1>7, <2>1, <2>2, <2>3 DEF k, l
<1>8. CASE l # "ClusterRole" /\ l # "Role"
  <2>1. CASE w = ""
    BY <1>4, <1>5, <1>8, <2>1
  <2>2. CASE w # ""
    <3>1. Anywhere \notin Scopes(r)
      BY <1>2, <1>4, <1>8, <2>2
    <3>2. meets <=> w = "" \/ v = "" \/ w = v
      BY <1>2, <1>3, <1>4, <1>8, <2>2
    <3>3. QED
      BY <1>5, <1>8, <2>2, <3>1, <3>2 DEF k, l
  <2>3. QED
    BY <2>1, <2>2
<1>9. QED
  BY <1>6, <1>7, <1>8

LEMMA ReferencesResolve ==
    ASSUME Original, NEW b \in Of(BindingKinds), NEW r \in Of(RoleKinds)
    PROVE  bindingReferencesRole(heap[b], heap[r]) <=> Resolves(heap[b], heap[r])
<1>1. /\ b \in ToSet(scenario.objects) /\ r \in ToSet(scenario.objects)
      /\ objectString(heap[b], "kind") \in BindingKinds
      /\ objectString(heap[r], "kind") \in RoleKinds
  BY DEF Of, OfKind
<1>2. heap[b] = scenario.heap[b] /\ heap[r] = scenario.heap[r]
  BY <1>1, ObjectFacts DEF Original
<1>3. \A k : objectString(heap[b], k) \in Strings(k) /\ objectString(heap[r], k) \in Strings(k)
  BY <1>1, <1>2 DEF Strings
<1>4. /\ "metadata.name" \in DOMAIN heap[r] /\ heap[r]["metadata.name"] # NotAString
      /\ Anywhere \notin Strings("metadata.namespace")
  <2>1. \A a \in ToSet(scenario.objects) :
           /\ objectString(scenario.heap[a], "metadata.namespace") # Anywhere
           /\ objectString(scenario.heap[a], "kind") \in RoleKinds =>
                 "metadata.name" \in DOMAIN scenario.heap[a] /\ scenario.heap[a]["metadata.name"] # NotAString
    BY ScenariosAssumption DEF Original
  <2>2. QED
    BY <1>1, <1>2, <2>1 DEF Strings
<1> DEFINE x == heap[b]
           y == heap[r]
<1>5. bindingReferencesRole(x, y) <=> SameReference(x, y) /\ GroupsCompatible(x, y) /\ InScope(x, y)
  BY DEF bindingReferencesRole, InScope
<1> HIDE DEF x, y
<1>6. SameReference(x, y) <=> /\ {"roleRef.kind", "roleRef.name"} \subseteq DOMAIN x
                              /\ x["roleRef.kind"] = y["kind"]
                              /\ x["roleRef.name"] = y["metadata.name"]
  BY <1>1, <1>4, SameNames DEF y
<1>7. GroupsCompatible(x, y)
      <=> GroupsOf(objectString(x, "roleRef.apiGroup"))
             \intersect GroupsOf(GroupOf(objectString(y, "apiVersion"))) # {}
  BY <1>3, SameGroups DEF x
<1>8. InScope(x, y)
      <=> \/ Anywhere \in Scopes(y)
          \/ /\ x["kind"] # "ClusterRoleBinding"
             /\ y["kind"] = "Role" => x["kind"] = "RoleBinding"
             /\ Scopes(y) \intersect Namespaces(x) # {}
  BY <1>1, <1>3, <1>4, SameScope DEF x, y
<1>9. bindingReferencesRole(x, y) <=> Resolves(x, y)
  BY <1>5, <1>6, <1>7, <1>8 DEF Resolves
<1>10. QED
  BY <1>9 DEF x, y

LEMMA TriplesResolve ==
    ASSUME Original
    PROVE  ToSet(Triples) = Resolved
<1>1. /\ ToSet(Triples) = {t \in Pairing : t.binding \in Of(BindingKinds) /\ Grants(t)}
  BY TriplesFacts
<1>2. /\ Of(BindingKinds) \subseteq DOMAIN heap /\ Of(RoleKinds) \subseteq DOMAIN heap
      /\ DOMAIN scenario.heap \subseteq DOMAIN heap
  BY ObjectFacts DEF Of, Original
<1>3. \A b \in Of(BindingKinds) : ToSet(SubjectList(heap[b])) \ {0} \subseteq DOMAIN scenario.heap
  <2>1. ASSUME NEW b \in Of(BindingKinds)
        PROVE  ToSet(SubjectList(heap[b])) \ {0} \subseteq DOMAIN scenario.heap
    <3>1. b \in DOMAIN scenario.heap /\ IsHeap(scenario.heap) /\ heap[b] = scenario.heap[b]
      BY ObjectFacts DEF Of, Original
    <3>2. Children(scenario.heap[b]) \in SUBSET DOMAIN scenario.heap
      BY <3>1, HeapFacts
    <3>3. QED
      BY <3>1, <3>2 DEF Children
  <2>2. QED
    BY <2>1
<1>4. 0 \notin DOMAIN heap
  BY HeapFacts DEF Original
<1>5. \A b \in Of(BindingKinds), r \in Of(RoleKinds) :
         bindingReferencesRole(heap[b], heap[r]) <=> Resolves(heap[b], heap[r])
  BY ReferencesResolve
<1> DEFINE inner == [binding : Of(BindingKinds), role : Of(RoleKinds), subject : DOMAIN scenario.heap]
<1>6. ASSUME NEW t, t.binding \in Of(BindingKinds), t.role \in Of(RoleKinds),
             t.subject \in ToSet(SubjectList(heap[t.binding]))
      PROVE  t \in Pairing <=> t \in inner
  <2>1. t \in inner => t \in Pairing
    BY <1>2 DEF Pairing
  <2>2. t \in Pairing => t.subject \in DOMAIN scenario.heap
    BY <1>3, <1>4, <1>6 DEF Pairing
  <2>3. t \in Pairing => t \in inner
    BY <1>6, <2>2 DEF Pairing
  <2>4. QED
    BY <2>1, <2>3
<1>7. \A t : t \in ToSet(Triples)
        <=> /\ t \in Pairing /\ t.binding \in Of(BindingKinds) /\ t.role \in Of(RoleKinds)
            /\ t.subject \in ToSet(SubjectList(heap[t.binding]))
            /\ bindingReferencesRole(heap[t.binding], heap[t.role])
  BY <1>1 DEF Grants
<1>8. \A t : t \in Resolved
        <=> /\ t \in inner /\ t.subject \in ToSet(SubjectList(heap[t.binding]))
            /\ Resolves(heap[t.binding], heap[t.role])
  BY DEF Resolved
<1>9. \A t : t \in inner => t.binding \in Of(BindingKinds) /\ t.role \in Of(RoleKinds)
  OBVIOUS
<1> HIDE DEF inner
<1>10. \A t : t \in ToSet(Triples) <=> t \in Resolved
  BY <1>5, <1>6, <1>7, <1>8, <1>9
<1>11. QED
  BY <1>10

-----------------------------------------------------------------------------
(* The rule's objects are aggregated.                                        *)
LEMMA CopiedFacts ==
    ASSUME Original
    PROVE  /\ Copied \in Seq(Pairing) /\ ToSet(Copied) \subseteq Resolved
           /\ Copied # Triples => \E t \in Resolved : ~CanCopy(heap[t.subject])
<1> DEFINE all == Triples
           bad == {i \in DOMAIN all : ~CanCopy(heap[all[i].subject])}
           first == CHOOSE i \in bad : \A j \in bad : i <= j
<1>1. all \in Seq(Pairing) /\ ToSet(all) = Resolved
  BY TriplesFacts, TriplesResolve
<1>2. Copied = IF bad = {} THEN all ELSE SubSeq(all, 1, first - 1)
  BY DEF Copied
<1> HIDE DEF all
<1>3. Len(all) \in Nat /\ DOMAIN all = 1 .. Len(all) /\ \A i \in DOMAIN all : all[i] \in Resolved
  BY <1>1 DEF ToSet
<1>4. CASE bad = {}
  BY <1>1, <1>2, <1>4 DEF all
<1>5. CASE bad # {}
  <2>1. bad \in SUBSET Nat /\ bad \subseteq DOMAIN all
    BY <1>3
  <2>2. first \in bad
    <3> HIDE DEF bad
    <3>1. QED
      BY <1>5, <2>1, LeastMember
  <2>3. first \in 1 .. Len(all)
    BY <1>3, <2>1, <2>2
  <2>4. ~CanCopy(heap[all[first].subject])
    BY <2>2
  <2> HIDE DEF bad, first
  <2> DEFINE s == SubSeq(all, 1, first - 1)
  <2>5. s \in Seq(Pairing) /\ DOMAIN s = 1 .. first - 1 /\ \A i \in 1 .. first - 1 : s[i] = all[i]
    BY <1>1, <1>3, <2>3
  <2> HIDE DEF s
  <2>6. ToSet(s) \subseteq Resolved
    BY <1>3, <2>3, <2>5 DEF ToSet
  <2>7. QED
    BY <1>2, <1>3, <1>5, <2>3, <2>4, <2>5, <2>6 DEF s
<1>6. QED
  BY <1>4, <1>5

(* A vector is about its subject, and refers to its binding and its role.    *)
LEMMA VectorFacts ==
    ASSUME Original, NEW t \in Resolved
    PROVE  /\ t.binding \in DOMAIN scenario.heap /\ t.role \in DOMAIN scenario.heap
           /\ Listed(Vector(t)) = <<t.binding, t.role>>
           /\ Children(Vector(t)) = {t.binding, t.role}
           /\ OwnID("regoResponse", Vector(t)) = OwnID("regoResponse", heap[t.subject])
           /\ RefersWithin(Vector(t), heap)
           /\ \A b \in {t.binding, t.role} : \A c \in Children(heap[b]) : Children(heap[c]) = {}
<1> DEFINE m == heap[t.subject]
           list == <<t.binding, t.role>>
           related == [typed |-> TRUE, list |-> list]
           w == Put(m, "relatedObjects", related)
<1>1. /\ t.binding \in ToSet(scenario.objects) /\ t.role \in ToSet(scenario.objects)
      /\ objectString(heap[t.binding], "kind") \in BindingKinds
      /\ objectString(heap[t.role], "kind") \in RoleKinds
      /\ t.subject \in DOMAIN scenario.heap /\ t.subject \in ToSet(SubjectList(heap[t.binding]))
  BY DEF Resolved, Of, OfKind
<1>2. /\ t.binding \in DOMAIN scenario.heap /\ t.role \in DOMAIN scenario.heap
      /\ t.binding \in DOMAIN heap /\ t.role \in DOMAIN heap /\ t.subject \in DOMAIN heap
      /\ IsHeap(heap) /\ IsHeap(scenario.heap) /\ 0 \notin DOMAIN scenario.heap
  BY <1>1, ObjectFacts, HeapFacts DEF Original
<1>3. \A a \in DOMAIN scenario.heap : heap[a] = scenario.heap[a]
  BY DEF Original
<1>4. \A a \in ToSet(scenario.objects) :
         objectString(heap[a], "kind") \in BindingKinds \union RoleKinds =>
            \A b \in Children(heap[a]) : Children(heap[b]) = {}
  <2>1. ASSUME NEW a \in ToSet(scenario.objects), NEW b \in Children(heap[a]),
               objectString(heap[a], "kind") \in BindingKinds \union RoleKinds
        PROVE  Children(heap[b]) = {}
    <3>1. a \in DOMAIN scenario.heap /\ heap[a] = scenario.heap[a]
      BY <1>3, ObjectFacts
    <3>2. b \in DOMAIN scenario.heap /\ heap[b] = scenario.heap[b]
      BY <1>2, <1>3, <2>1, <3>1, HeapFacts
    <3>3. \A c \in Children(scenario.heap[a]) : Children(scenario.heap[c]) = {}
      BY <2>1, <3>1, ScenariosAssumption DEF Original
    <3>4. QED
      BY <2>1, <3>1, <3>2, <3>3
  <2>2. QED
    BY <2>1
<1>5. t.subject \in Children(heap[t.binding])
  BY <1>1, <1>2 DEF Children
<1>6. Children(m) = {}
  BY <1>1, <1>4, <1>5
<1>7. Vector(t) = w
  BY DEF Vector
<1>8. /\ DOMAIN w = DOMAIN m \union {"relatedObjects"} /\ w["relatedObjects"] = related
      /\ \A k \in DOMAIN m : k # "relatedObjects" => w[k] = m[k]
  BY DEF Put
<1> HIDE DEF w, m, list
<1>9. Listed(w) = list /\ SubjectList(w) = SubjectList(m)
  BY <1>8 DEF Listed, SubjectList
<1>10. ToSet(list) = {t.binding, t.role} /\ list \in Seq(DOMAIN heap)
  BY <1>2 DEF list, ToSet
<1>11. Children(w) = {t.binding, t.role}
  BY <1>6, <1>9, <1>10 DEF Children
<1>12. RefersWithin(w, heap)
  BY <1>2, <1>9, <1>10 DEF RefersWithin, IsHeap, m
<1>13. OwnID("regoResponse", w) = OwnID("regoResponse", m)
  <2>1. \A k : k # "relatedObjects" => /\ k \in DOMAIN w <=> k \in DOMAIN m
                                       /\ objectString(w, k) = objectString(m, k)
    BY <1>8 DEF objectString
  <2>2. QED
    BY <2>1 DEF OwnID, GetApiVersion, GetNamespace, GetKind, GetName, NameKey, NamespaceKey
<1>14. QED
  BY <1>1, <1>2, <1>4, <1>7, <1>9, <1>11, <1>12, <1>13 DEF list, m

(* Envelopes are added, over maps that no struct has, and vectors chosen.    *)
LEMMA EnvelopesJoined ==
    ASSUME NEW o, NEW h, NEW E, NEW R, NEW V, NEW T, Good(o, h, E, R, V, T),
           NEW new, NEW F, IsJoin(F, E, new),
           \A i \in DOMAIN new :
              /\ new[i] \in [type : Types, at : DOMAIN h, replaced : BOOLEAN]
              /\ new[i].type \notin StructTypes
              /\ \A e \in DOMAIN E : E[e].type \in StructTypes => E[e].at # new[i].at,
           NEW W, VectorsOK(o, F, W)
    PROVE  Good(o, h, F, R, W, T)
<1>1. /\ IsSequence(F) /\ DOMAIN E \subseteq DOMAIN F
      /\ \A e \in DOMAIN E : F[e] = E[e]
      /\ \A e \in DOMAIN F : e \in DOMAIN E \/ \E i \in DOMAIN new : F[e] = new[i]
  BY DEF IsJoin
<1>2. EnvelopesOK(h, F)
  BY <1>1 DEF Good, EnvelopesOK
<1>3. ResourcesOK(h, F, R)
  BY <1>1 DEF Good, ResourcesOK
<1>4. StructsOK(o, h, F, R)
  <2>1. ASSUME NEW e \in DOMAIN F, F[e].type \in StructTypes
        PROVE  IsStruct(F[e].type, h[F[e].at]) /\ Unshared(o, h, F, R, e)
    <3>1. e \in DOMAIN E /\ F[e] = E[e]
      BY <1>1, <2>1
    <3>2. IsStruct(E[e].type, h[E[e].at]) /\ Unshared(o, h, E, R, e)
      BY <2>1, <3>1 DEF Good, StructsOK
    <3>3. \A f \in DOMAIN F : F[f].at = E[e].at => f = e
      BY <1>1, <2>1, <3>1, <3>2 DEF Unshared
    <3>4. QED
      BY <3>1, <3>2, <3>3 DEF Unshared
  <2>2. QED
    BY <2>1 DEF StructsOK
<1>5. FacesOK(F, R)
  BY <1>1 DEF Good, FacesOK, ResourcesOK
<1>6. QED
  BY <1>2, <1>3, <1>4, <1>5 DEF Good

NewMaps == [i \in DOMAIN Copied |-> Vector(Copied[i])]
NewEnvelopes == [i \in DOMAIN Copied |-> Env("regoResponse", Len(heap) + i)]

LEMMA VectorsMade ==
    ASSUME Now, Original, AggregateResourcesBySubjects
    PROVE  /\ IsJoin(heap', heap, NewMaps) /\ IsJoin(envelope', envelope, NewEnvelopes)
           /\ Len(Copied) \in Nat /\ DOMAIN Copied = 1 .. Len(Copied)
           /\ DOMAIN NewMaps = DOMAIN Copied /\ DOMAIN NewEnvelopes = DOMAIN Copied
           /\ DOMAIN vectors' = DOMAIN Copied
           /\ \A i \in DOMAIN Copied :
                 /\ vectors'[i] = Len(envelope) + i
                 /\ heap'[Len(heap) + i] = Vector(Copied[i])
                 /\ Len(heap) + i \in DOMAIN heap' \ DOMAIN heap
                 /\ envelope'[Len(envelope) + i] = Env("regoResponse", Len(heap) + i)
                 /\ Len(envelope) + i \in DOMAIN envelope' \ DOMAIN envelope
<1> DEFINE n == Len(Copied)
<1>1. n \in Nat /\ DOMAIN Copied = 1 .. n
  BY CopiedFacts
<1>2. /\ heap' = heap \o NewMaps /\ envelope' = envelope \o NewEnvelopes
      /\ vectors' = [i \in DOMAIN Copied |-> Len(envelope) + i]
  BY DEF AggregateResourcesBySubjects, NewMaps, NewEnvelopes
<1>3. IsSequence(heap) /\ IsSequence(envelope)
  BY DEF Now, Good, IsHeap, EnvelopesOK
<1>4. IsSequence(NewMaps) /\ IsSequence(NewEnvelopes)
  <2>1. /\ NewMaps = [i \in 1 .. n |-> NewMaps[i]]
        /\ NewEnvelopes = [i \in 1 .. n |-> NewEnvelopes[i]]
    BY <1>1 DEF NewMaps, NewEnvelopes
  <2> HIDE DEF n
  <2>2. QED
    BY <1>1, <2>1, MadeSequence
<1>5. IsJoin(heap', heap, NewMaps) /\ IsJoin(envelope', envelope, NewEnvelopes)
  BY <1>2, <1>3, <1>4, JoinedSequence
<1>6. /\ DOMAIN NewMaps = DOMAIN Copied /\ DOMAIN NewEnvelopes = DOMAIN Copied
      /\ \A i \in DOMAIN Copied : /\ NewMaps[i] = Vector(Copied[i])
                                  /\ NewEnvelopes[i] = Env("regoResponse", Len(heap) + i)
  BY DEF NewMaps, NewEnvelopes
<1>7. /\ \A i \in DOMAIN NewMaps : /\ Len(heap) + i \in DOMAIN heap' \ DOMAIN heap
                                   /\ heap'[Len(heap) + i] = NewMaps[i]
      /\ \A i \in DOMAIN NewEnvelopes : /\ Len(envelope) + i \in DOMAIN envelope' \ DOMAIN envelope
                                        /\ envelope'[Len(envelope) + i] = NewEnvelopes[i]
  BY <1>5 DEF IsJoin
<1>8. DOMAIN vectors' = DOMAIN Copied /\ \A i \in DOMAIN Copied : vectors'[i] = Len(envelope) + i
  BY <1>2
<1>9. QED
  BY <1>1, <1>5, <1>6, <1>7, <1>8

LEMMA SubjectsGood ==
    ASSUME Now, Original, AggregateResourcesBySubjects, UNCHANGED <<scenario, resources, touched>>
    PROVE  Now'
<1> DEFINE g == heap'
           F == envelope'
           W == vectors'
<1>1. /\ IsJoin(g, heap, NewMaps) /\ IsJoin(F, envelope, NewEnvelopes)
      /\ DOMAIN NewMaps = DOMAIN Copied /\ DOMAIN NewEnvelopes = DOMAIN Copied
      /\ DOMAIN W = DOMAIN Copied
  BY VectorsMade
<1>2. \A i \in DOMAIN Copied :
         /\ W[i] = Len(envelope) + i
         /\ g[Len(heap) + i] = Vector(Copied[i])
         /\ Len(heap) + i \in DOMAIN g \ DOMAIN heap
         /\ F[Len(envelope) + i] = Env("regoResponse", Len(heap) + i)
         /\ Len(envelope) + i \in DOMAIN F \ DOMAIN envelope
  BY VectorsMade
<1>3. \A i \in DOMAIN Copied : NewMaps[i] = Vector(Copied[i])
                              /\ NewEnvelopes[i] = Env("regoResponse", Len(heap) + i)
  BY DEF NewMaps, NewEnvelopes
<1>4. DOMAIN Copied \subseteq Nat /\ Len(heap) \in Nat /\ Len(envelope) \in Nat
  <2>1. Len(Copied) \in Nat /\ DOMAIN Copied = 1 .. Len(Copied)
    BY VectorsMade
  <2>2. Len(heap) \in Nat /\ Len(envelope) \in Nat
    BY <1>1 DEF IsJoin
  <2>3. QED
    BY <2>1, <2>2
<1>5. /\ IsHeap(heap) /\ DOMAIN scenario.heap \subseteq DOMAIN heap
      /\ DOMAIN heap \subseteq DOMAIN g /\ \A a \in DOMAIN heap : g[a] = heap[a]
      /\ Good(scenario, heap, envelope, resources, vectors, touched)
      /\ scenario' = scenario /\ resources' = resources /\ touched' = touched
  BY <1>1 DEF Now, Good, IsJoin
<1> HIDE DEF g, F, W
<1>6. \A i \in DOMAIN Copied :
         /\ RefersWithin(NewMaps[i], heap)
         /\ Children(NewMaps[i]) \subseteq DOMAIN scenario.heap
         /\ \A b \in Children(NewMaps[i]) : \A c \in Children(heap[b]) : Children(heap[c]) = {}
  <2>1. ASSUME NEW i \in DOMAIN Copied
        PROVE  /\ RefersWithin(NewMaps[i], heap)
               /\ Children(NewMaps[i]) \subseteq DOMAIN scenario.heap
               /\ \A b \in Children(NewMaps[i]) : \A c \in Children(heap[b]) : Children(heap[c]) = {}
    <3> DEFINE t == Copied[i]
    <3>1. t \in Resolved /\ NewMaps[i] = Vector(t)
      BY <1>3, CopiedFacts DEF ToSet
    <3> HIDE DEF t
    <3>2. /\ t.binding \in DOMAIN scenario.heap /\ t.role \in DOMAIN scenario.heap
          /\ Children(Vector(t)) = {t.binding, t.role} /\ RefersWithin(Vector(t), heap)
          /\ \A b \in {t.binding, t.role} : \A c \in Children(heap[b]) : Children(heap[c]) = {}
      BY <3>1, VectorFacts
    <3>3. QED
      BY <3>1, <3>2
  <2>2. QED
    BY <2>1
<1>7. IsHeap(g)
  <2>1. \A i \in DOMAIN NewMaps : RefersWithin(NewMaps[i], g)
    <3>1. ASSUME NEW i \in DOMAIN NewMaps PROVE RefersWithin(NewMaps[i], g)
      <4> DEFINE m == NewMaps[i]
      <4>1. RefersWithin(m, heap)
        BY <1>1, <1>6
      <4> HIDE DEF m
      <4>2. RefersWithin(m, g)
        BY <1>5, <4>1 DEF RefersWithin
      <4>3. QED
        BY <4>2 DEF m
    <3>2. QED
      BY <3>1
  <2>2. \A i \in DOMAIN NewMaps : \A b \in Children(NewMaps[i]) :
           \A c \in Children(g[b]) : Children(g[c]) = {}
    <3>1. ASSUME NEW i \in DOMAIN NewMaps, NEW b \in Children(NewMaps[i]), NEW c \in Children(g[b])
          PROVE  Children(g[c]) = {}
      <4>1. b \in DOMAIN heap /\ g[b] = heap[b]
        BY <1>1, <1>5, <1>6, <3>1
      <4>2. c \in DOMAIN heap /\ g[c] = heap[c]
        BY <1>5, <3>1, <4>1, HeapFacts
      <4>3. Children(heap[c]) = {}
        BY <1>1, <1>6, <3>1, <4>1
      <4>4. QED
        BY <4>2, <4>3
    <3>2. QED
      BY <3>1
  <2>3. QED
    BY <1>1, <1>5, <2>1, <2>2, GrownHeap
<1>8. Good(scenario, g, envelope, resources, vectors, touched)
  <2>1. \A e \in DOMAIN envelope : envelope[e].type \in StructTypes =>
           \A i \in DOMAIN NewMaps : envelope[e].at \notin Children(NewMaps[i])
    BY <1>1, <1>6 DEF Now, Good, StructsOK, Unshared
  <2>2. Good(scenario, g, envelope, resources, vectors, touched \union {})
    BY <1>1, <1>5, <1>7, <2>1, MapsAdded
  <2>3. QED
    BY <2>2
<1>9. VectorsOK(scenario, F, W)
  <2>1. ToSet(W) = {Len(envelope) + i : i \in DOMAIN Copied}
    BY <1>1, <1>2 DEF ToSet
  <2>2. \A i \in DOMAIN Copied : F[Len(envelope) + i].at = Len(heap) + i
    <3>1. \A a : Env("regoResponse", a).at = a
      BY DEF Env
    <3>2. QED
      BY <1>2, <3>1
  <2>3. \A i \in DOMAIN Copied : Len(heap) + i \notin DOMAIN scenario.heap /\ Len(envelope) + i \in DOMAIN F
    BY <1>2, <1>5
  <2>4. \A i, j \in DOMAIN Copied : Len(heap) + i = Len(heap) + j => i = j
    BY <1>4
  <2>5. QED
    BY <2>1, <2>2, <2>3, <2>4 DEF VectorsOK
<1>10. \A i \in DOMAIN NewEnvelopes :
          /\ NewEnvelopes[i] \in [type : Types, at : DOMAIN g, replaced : BOOLEAN]
          /\ NewEnvelopes[i].type \notin StructTypes
          /\ \A e \in DOMAIN envelope : envelope[e].type \in StructTypes =>
                envelope[e].at # NewEnvelopes[i].at
  <2>1. ASSUME NEW i \in DOMAIN Copied
        PROVE  /\ NewEnvelopes[i] \in [type : Types, at : DOMAIN g, replaced : BOOLEAN]
               /\ NewEnvelopes[i].type \notin StructTypes
               /\ \A e \in DOMAIN envelope : envelope[e].at # NewEnvelopes[i].at
    <3>1. NewEnvelopes[i] = [type |-> "regoResponse", at |-> Len(heap) + i, replaced |-> FALSE]
      BY <1>3 DEF Env
    <3>2. \A e \in DOMAIN envelope : envelope[e].at \in DOMAIN heap
      BY DEF Now, Good, EnvelopesOK
    <3>3. QED
      BY <1>2, <3>1, <3>2 DEF Types, StructTypes
  <2>2. QED
    BY <1>1, <2>1
<1>11. Good(scenario, g, F, resources, W, touched)
  BY <1>1, <1>8, <1>9, <1>10, EnvelopesJoined
<1>12. QED
  BY <1>5, <1>11 DEF Now, g, F, W

(* What was given, until it is aggregated.                                   *)
LEMMA BeforeFacts ==
    ASSUME IInv
    PROVE  /\ Now /\ scenario \in Scenarios /\ scenario.calls \in Nat
           /\ IsHeap(heap) /\ IsSequence(envelope)
           /\ calls = Before => /\ Original /\ DOMAIN envelope = DOMAIN scenario.objects
                                /\ vectors = << >> /\ resources = << >> /\ touched = {}
<1>1. Now /\ scenario \in Scenarios /\ DOMAIN scenario.heap \subseteq DOMAIN heap /\ IsHeap(heap)
  BY DEF IInv, Now, Good
<1>2. scenario.calls \in Nat
  BY <1>1, ScenariosAssumption
<1>3. IsSequence(envelope)
  BY DEF IInv, Good, EnvelopesOK
<1>4. QED
  BY <1>1, <1>2, <1>3 DEF IInv, CallsOK, Original

LEMMA PodGood ==
    ASSUME IInv, calls = Before, AggregateResourcesByAPIServerPod,
           scenario.aggregator # "subject-role-rolebinding",
           UNCHANGED <<scenario, resources, touched>>
    PROVE  Now' /\ failed' = failed
<1> DEFINE pods == {i \in DOMAIN scenario.objects : IsAPIServerPod(heap[scenario.objects[i]])}
           a == scenario.objects[Min(pods)]
           env == Env("workload", a)
<1>1. /\ heap' = heap /\ failed' = failed /\ scenario' = scenario
      /\ resources' = resources /\ touched' = touched
      /\ Good(scenario, heap, envelope, resources, vectors, touched)
  BY DEF AggregateResourcesByAPIServerPod, IInv
<1>2. CASE pods = {}
  <2>1. envelope' = envelope /\ vectors' = << >>
    BY <1>2 DEF AggregateResourcesByAPIServerPod
  <2>2. VectorsOK(scenario, envelope, << >>)
    BY MembersOfNone DEF VectorsOK
  <2>3. Good(scenario, heap, envelope, resources, << >>, touched)
    BY <1>1, <2>2 DEF Good
  <2>4. QED
    BY <1>1, <2>1, <2>3 DEF Now
<1>3. CASE pods # {}
  <2> DEFINE F == Append(envelope, env)
             n == Len(envelope) + 1
             W == <<n>>
  <2>1. envelope' = F /\ vectors' = W
    BY <1>3 DEF AggregateResourcesByAPIServerPod
  <2>2. Min(pods) \in DOMAIN scenario.objects
    <3>1. pods \in SUBSET Nat /\ pods \subseteq DOMAIN scenario.objects
      <4>1. Len(scenario.objects) \in Nat /\ DOMAIN scenario.objects = 1 .. Len(scenario.objects)
        BY BeforeFacts, ObjectFacts
      <4>2. QED
        BY <4>1
    <3> HIDE DEF pods
    <3>2. Min(pods) \in pods
      BY <1>3, <3>1, LeastMember DEF Min
    <3>3. QED
      BY <3>1, <3>2
  <2>3. /\ a \in DOMAIN heap
        /\ \A e \in DOMAIN envelope : envelope[e].type \in StructTypes => envelope[e].at # a
    <3> HIDE DEF pods
    <3>1. QED
      BY <2>2, GivenObjects, BeforeFacts
  <2> HIDE DEF a
  <2>4. /\ env \in [type : Types, at : DOMAIN heap, replaced : BOOLEAN]
        /\ env.type \notin StructTypes /\ env.at = a
    BY <2>3 DEF Env, Types, StructTypes
  <2> HIDE DEF env
  <2>5. Good(scenario, heap, F, resources, vectors, touched)
    BY <1>1, <2>3, <2>4, EnvelopeAdded
  <2>6. n \in DOMAIN F
    BY AppendedSequence, BeforeFacts
  <2>7. ToSet(W) = {n}
    <3> HIDE DEF n
    <3>1. DOMAIN W = {1} /\ W[1] = n
      OBVIOUS
    <3>2. QED
      BY <3>1 DEF ToSet
  <2> HIDE DEF F, n, W
  <2>8. VectorsOK(scenario, F, W)
    BY <2>6, <2>7 DEF VectorsOK
  <2>9. Good(scenario, heap, F, resources, W, touched)
    BY <2>5, <2>8 DEF Good
  <2>10. QED
    BY <1>1, <2>1, <2>9 DEF Now
<1>4. QED
  BY <1>2, <1>3

LEMMA AggregatorGood ==
    ASSUME IInv, RegoResourcesAggregator
    PROVE  IInv'
<1>1. /\ calls = Before /\ calls' = scenario.calls
      /\ scenario' = scenario /\ resources' = resources /\ touched' = touched
  BY DEF RegoResourcesAggregator
<1>2. /\ Now /\ Original /\ DOMAIN envelope = DOMAIN scenario.objects
      /\ scenario.calls \in Nat
      /\ failed \in BOOLEAN
      /\ Good(scenario, heap, envelope, resources, vectors, touched)
  BY <1>1, BeforeFacts DEF IInv, CallsOK
<1>3. Now' /\ failed' \in BOOLEAN
  <2>1. CASE scenario.aggregator = "subject-role-rolebinding"
    <3>1. AggregateResourcesBySubjects
      BY <2>1 DEF RegoResourcesAggregator
    <3>2. failed' \in BOOLEAN
      BY <3>1 DEF AggregateResourcesBySubjects
    <3>3. Now'
      BY <1>1, <1>2, <3>1, SubjectsGood
    <3>4. QED
      BY <3>2, <3>3
  <2>2. CASE scenario.aggregator = "apiserver-pod"
    <3>1. scenario.aggregator # "subject-role-rolebinding"
      BY <2>2
    <3>2. AggregateResourcesByAPIServerPod
      BY <2>2, <3>1 DEF RegoResourcesAggregator
    <3>3. QED
      BY <1>1, <1>2, <3>1, <3>2, PodGood
  <2>3. CASE /\ scenario.aggregator # "subject-role-rolebinding"
             /\ scenario.aggregator # "apiserver-pod"
    <3> DEFINE W == [i \in DOMAIN scenario.objects |-> i]
    <3>1. /\ vectors' = W /\ heap' = heap /\ envelope' = envelope /\ failed' = failed
      BY <2>3 DEF RegoResourcesAggregator
    <3>2. ToSet(W) \subseteq DOMAIN envelope
      BY <1>2 DEF ToSet
    <3> HIDE DEF W
    <3>3. VectorsOK(scenario, envelope, W)
      BY <2>3, <3>2 DEF VectorsOK
    <3>4. Good(scenario, heap, envelope, resources, W, touched)
      BY <1>2, <3>3 DEF Good
    <3>5. QED
      BY <1>1, <1>2, <3>1, <3>4 DEF Now
  <2>4. QED
    BY <2>1, <2>2, <2>3
<1>4. calls' \in 0 .. scenario.calls /\ calls' # Before
  BY <1>1, <1>2 DEF Before
<1>5. CallsOK'
  BY <1>1, <1>3, <1>4 DEF CallsOK
<1>6. QED
  BY <1>3, <1>5 DEF IInv, Now

(* The calls that follow.                                                    *)
LEMMA CallGood ==
    ASSUME IInv, Call, Now'
    PROVE  IInv'
<1>1. /\ calls \in Nat \ {0} /\ calls' = calls - 1
      /\ scenario' = scenario /\ failed' = failed
  BY DEF Call
<1>2. scenario.calls \in Nat /\ failed \in BOOLEAN
      /\ calls \in {Before} \union (0 .. scenario.calls)
  BY BeforeFacts DEF IInv, CallsOK
<1>3. calls' \in 0 .. scenario.calls /\ calls' # Before
  BY <1>1, <1>2 DEF Before
<1>4. CallsOK'
  BY <1>1, <1>2, <1>3 DEF CallsOK
<1>5. QED
  BY <1>4 DEF IInv, Now

LEMMA StepGood ==
    ASSUME IInv, Next
    PROVE  IInv'
<1>1. Now
  BY DEF IInv, Now
<1>2. CASE RegoResourcesAggregator
  BY <1>2, AggregatorGood
<1>3. ASSUME NEW e \in DOMAIN envelope,
             \/ NewResourceIMetadata(e)
             \/ DeletePathEntry(e)
             \/ \E v \in Values : SetPath(e, v)
             \/ SetRelatedObjects(e, << >>)
             \/ \E v \in Values : \E i \in DOMAIN Related(heap[envelope[e].at]) : SetOfRelated(e, i, v)
      PROVE  IInv'
  <2>1. Call
    BY <1>3 DEF NewResourceIMetadata, DeletePathEntry, SetPath, SetRelatedObjects, SetOfRelated, ChangeMap
  <2>2. Now'
    BY <1>1, <1>3, NewResourceIMetadataGood, PathGood, SetRelatedObjectsGood, SetOfRelatedGood
  <2>3. QED
    BY <2>1, <2>2, CallGood
<1>4. ASSUME NEW i \in DOMAIN scenario.objects,
             NewResource(scenario.objects[i]) \/ NewScanObject(scenario.objects[i])
      PROVE  IInv'
  <2>1. Call
    BY <1>4 DEF NewResource, NewScanObject
  <2>2. Now'
    BY <1>1, <1>4, NewResourceGood, NewScanObjectGood
  <2>3. QED
    BY <2>1, <2>2, CallGood
<1>5. ASSUME NEW r \in DOMAIN resources,
             \/ Get(r)
             \/ Reload(r)
             \/ \E field \in Settable : \E v \in Values : Set(r, field, v)
             \/ \E m \in Spare : SetObject(r, m)
             \/ GetResource(resources[r].id)
      PROVE  IInv'
  <2>1. Call
    BY <1>5 DEF Get, Reload, Set, SetObject, GetResource
  <2>2. Now'
    BY <1>1, <1>5, GetGood, ReloadGood, SetGood, SetObjectGood, GetResourceGood
  <2>3. QED
    BY <2>1, <2>2, CallGood
<1>6. QED
  BY <1>2, <1>3, <1>4, <1>5 DEF Next

(* The objects given, in their envelopes.                                    *)
LEMMA EmptySequence == IsSequence(<< >>) /\ DOMAIN << >> = {} /\ ToSet(<< >>) = {}
<1>1. << >> \in Seq({}) /\ DOMAIN << >> = {}
  OBVIOUS
<1>2. QED
  BY <1>1, OfMembers, MembersOfNone

LEMMA GivenGood ==
    ASSUME NEW o \in Scenarios
    PROVE  /\ Good(o, Given(o).heap, Given(o).envs, << >>, << >>, {})
           /\ DOMAIN Given(o).envs = DOMAIN o.objects
           /\ \A a \in DOMAIN o.heap : Given(o).heap[a] = o.heap[a]
<1> DEFINE h == o.heap
           n == Len(o.objects)
           type(i) == GetObjectType(h[o.objects[i]])
           struct(i) == type(i) \in StructTypes
           cell(i) == IF struct(i) THEN AsStruct(type(i), h[o.objects[i]]) ELSE << >>
           env(i) == Env(type(i), IF struct(i) THEN Len(h) + i ELSE o.objects[i])
           cells == [i \in DOMAIN o.objects |-> cell(i)]
           E == [i \in DOMAIN o.objects |-> env(i)]
           g == h \o cells
           none == << >>
<1>1. Given(o).heap = g /\ Given(o).envs = E
  BY DEF Given
<1>2. /\ IsHeap(h) /\ IsSequence(h) /\ DOMAIN h = 1 .. Len(h) /\ Len(h) \in Nat
      /\ o.objects \in Seq(DOMAIN h)
  BY ScenariosAssumption, HeapFacts
<1>3. n \in Nat /\ DOMAIN o.objects = 1 .. n /\ \A i \in DOMAIN o.objects : o.objects[i] \in DOMAIN h
  <2>1. \A i \in DOMAIN o.objects : o.objects[i] \in DOMAIN h
    BY <1>2
  <2>2. n \in Nat /\ DOMAIN o.objects = 1 .. n
    BY <1>2, OfMembers, SequenceFacts
  <2>3. QED
    BY <2>1, <2>2
<1>4. \A i \in DOMAIN o.objects : /\ cells[i] = cell(i) /\ E[i] = env(i)
                                  /\ type(i) \in Types
  BY ObjectTypes
<1>5. /\ IsSequence(cells) /\ DOMAIN cells = DOMAIN o.objects
      /\ IsSequence(E) /\ DOMAIN E = DOMAIN o.objects
  <2>1. cells = [i \in 1 .. n |-> cells[i]] /\ E = [i \in 1 .. n |-> E[i]]
    BY <1>3
  <2> HIDE DEF cells, E, n
  <2>2. QED
    BY <1>3, <2>1, MadeSequence
<1>6. \A i \in DOMAIN o.objects :
         /\ Relations \intersect DOMAIN cell(i) = {}
         /\ struct(i) => IsStruct(type(i), cell(i))
  <2>1. ASSUME NEW i \in DOMAIN o.objects
        PROVE  /\ Relations \intersect DOMAIN cell(i) = {}
               /\ struct(i) => IsStruct(type(i), cell(i))
    <3> DEFINE t == type(i)
               m == h[o.objects[i]]
    <3>1. cell(i) = IF t \in StructTypes THEN AsStruct(t, m) ELSE << >>
      OBVIOUS
    <3> HIDE DEF m, t, cell
    <3>2. QED
      BY <3>1, StructFacts, EmptySequence DEF t
  <2>2. QED
    BY <2>1
<1>7. \A i \in DOMAIN o.objects :
         /\ env(i).type = type(i) /\ ~env(i).replaced
         /\ env(i).at = (IF struct(i) THEN Len(h) + i ELSE o.objects[i])
         /\ env(i) = [type |-> type(i), at |-> env(i).at, replaced |-> FALSE]
  BY DEF Env
<1> HIDE DEF cells, E, type, cell, env, n
<1>8. IsJoin(g, h, cells)
  BY <1>2, <1>5, JoinedSequence
<1> HIDE DEF g
<1>9. /\ DOMAIN h \subseteq DOMAIN g /\ \A a \in DOMAIN h : g[a] = h[a]
      /\ \A a \in DOMAIN g : a \in DOMAIN h \/ \E i \in DOMAIN o.objects : g[a] = cell(i)
      /\ \A i \in DOMAIN o.objects : Len(h) + i \in DOMAIN g \ DOMAIN h /\ g[Len(h) + i] = cell(i)
  <2>1. DOMAIN cells = DOMAIN o.objects /\ \A i \in DOMAIN o.objects : cells[i] = cell(i)
    BY <1>4, <1>5
  <2>2. /\ DOMAIN h \subseteq DOMAIN g /\ \A a \in DOMAIN h : g[a] = h[a]
        /\ \A a \in DOMAIN g : a \in DOMAIN h \/ \E i \in DOMAIN cells : g[a] = cells[i]
        /\ \A i \in DOMAIN cells : Len(h) + i \in DOMAIN g \ DOMAIN h /\ g[Len(h) + i] = cells[i]
    BY <1>8 DEF IsJoin
  <2>3. QED
    BY <2>1, <2>2
<1>10. \A i \in DOMAIN o.objects : Children(cell(i)) = {} /\ \A k : RefersWithin(cell(i), k)
  BY <1>6, NoRelations
<1>11. IsHeap(g)
  <2>1. \A i \in DOMAIN cells : RefersWithin(cells[i], g) /\ Children(cells[i]) = {}
    BY <1>4, <1>5, <1>10
  <2>2. QED
    BY <1>2, <1>8, <2>1, GrownHeap
<1>12. EnvelopesOK(g, E)
  <2>1. ASSUME NEW i \in DOMAIN o.objects
        PROVE  env(i) \in [type : Types, at : DOMAIN g, replaced : BOOLEAN]
    <3>1. env(i).at \in DOMAIN g
      <4>1. env(i).at = Len(h) + i \/ env(i).at = o.objects[i]
        BY <1>7
      <4>2. Len(h) + i \in DOMAIN g /\ o.objects[i] \in DOMAIN g
        BY <1>3, <1>9
      <4>3. QED
        BY <4>1, <4>2
    <3>2. type(i) \in Types
      BY <1>4
    <3> DEFINE t == type(i)
               a == env(i).at
    <3>3. env(i) = [type |-> t, at |-> a, replaced |-> FALSE]
      BY <1>7
    <3> HIDE DEF t, a
    <3>4. t \in Types /\ a \in DOMAIN g
      BY <3>1, <3>2 DEF t, a
    <3>5. QED
      BY <3>3, <3>4
  <2>2. QED
    BY <1>4, <1>5, <2>1 DEF EnvelopesOK
<1>13. StructsOK(o, g, E, none)
  <2>1. ASSUME NEW e \in DOMAIN o.objects, struct(e)
        PROVE  IsStruct(E[e].type, g[E[e].at]) /\ Unshared(o, g, E, none, e)
    <3>1. E[e].type = type(e) /\ E[e].at = Len(h) + e /\ g[Len(h) + e] = cell(e)
      BY <1>4, <1>7, <1>9, <2>1
    <3>2. IsStruct(type(e), cell(e))
      BY <1>6, <2>1
    <3>3. Len(h) + e \notin DOMAIN h
      BY <1>9
    <3>4. \A f \in DOMAIN o.objects : E[f].at = Len(h) + e => f = e
      <4>1. ASSUME NEW f \in DOMAIN o.objects, E[f].at = Len(h) + e PROVE f = e
        <5>1. E[f].at = (IF struct(f) THEN Len(h) + f ELSE o.objects[f])
          BY <1>4, <1>7
        <5>2. Len(h) + f = Len(h) + e
          BY <1>3, <3>3, <4>1, <5>1
        <5>3. Len(h) \in Nat /\ f \in Nat /\ e \in Nat
          BY <1>2, <1>3
        <5>4. QED
          BY <5>2, <5>3
      <4>2. QED
        BY <4>1
    <3>5. \A a \in DOMAIN g : Len(h) + e \notin Children(g[a])
      <4>1. \A a \in DOMAIN h : Children(h[a]) \in SUBSET DOMAIN h
        BY <1>2, HeapFacts
      <4>2. QED
        BY <1>9, <1>10, <3>3, <4>1
    <3>6. DOMAIN none = {}
      BY EmptySequence
    <3>7. QED
      BY <1>5, <3>1, <3>2, <3>3, <3>4, <3>5, <3>6 DEF Unshared
  <2>2. \A e \in DOMAIN o.objects : E[e].type \in StructTypes => struct(e)
    BY <1>4, <1>7
  <2>3. QED
    BY <1>5, <2>1, <2>2 DEF StructsOK
<1>14. /\ DOMAIN none = {} /\ IsSequence(none) /\ ToSet(none) = {}
  BY EmptySequence
<1> HIDE DEF none
<1>15. ResourcesOK(g, E, none) /\ FacesOK(E, none) /\ IDsOK(g, none, {}) /\ VectorsOK(o, E, none)
  BY <1>14 DEF ResourcesOK, FacesOK, IDsOK, VectorsOK
<1>16. Good(o, g, E, none, none, {})
  BY <1>9, <1>11, <1>12, <1>13, <1>15 DEF Good
<1>17. QED
  BY <1>1, <1>5, <1>9, <1>16 DEF none

LEMMA InitGood ==
    ASSUME Init
    PROVE  IInv
<1>1. /\ scenario \in Scenarios /\ heap = Given(scenario).heap /\ envelope = Given(scenario).envs
      /\ vectors = << >> /\ failed = FALSE /\ resources = << >> /\ touched = {} /\ calls = Before
  BY DEF Init
<1>2. /\ Good(scenario, heap, envelope, resources, vectors, touched)
      /\ DOMAIN envelope = DOMAIN scenario.objects
      /\ \A a \in DOMAIN scenario.heap : heap[a] = scenario.heap[a]
  BY <1>1, GivenGood
<1>3. QED
  BY <1>1, <1>2 DEF IInv, CallsOK

LEMMA IInvStutters ==
    ASSUME IInv, UNCHANGED vars
    PROVE  IInv'
BY DEF IInv, vars, CallsOK

LEMMA Invariance == Spec => []IInv
<1>1. Init => IInv
  BY InitGood
<1>2. IInv /\ [Next]_vars => IInv'
  BY StepGood, IInvStutters
<1>3. QED
  BY <1>1, <1>2, PTL DEF Spec

-----------------------------------------------------------------------------
(* The vectors are the bindings resolved.                                    *)
LEMMA ResolvedKept ==
    ASSUME Original, scenario' = scenario,
           \A a \in DOMAIN scenario.heap : heap'[a] = heap[a]
    PROVE  Resolved' = Resolved
<1>1. ToSet(scenario.objects) \subseteq DOMAIN scenario.heap
  BY ObjectFacts
<1>2. Of(BindingKinds)' = Of(BindingKinds) /\ Of(RoleKinds)' = Of(RoleKinds)
  BY <1>1 DEF Of, OfKind
<1>3. Of(BindingKinds) \subseteq DOMAIN scenario.heap /\ Of(RoleKinds) \subseteq DOMAIN scenario.heap
  BY <1>1 DEF Of
<1> DEFINE inner == [binding : Of(BindingKinds), role : Of(RoleKinds), subject : DOMAIN scenario.heap]
<1>4. ASSUME NEW t \in inner
      PROVE  /\ heap'[t.binding] = heap[t.binding] /\ heap'[t.role] = heap[t.role]
  BY <1>3
<1>5. ASSUME NEW t \in inner
      PROVE  Resolves(heap[t.binding], heap[t.role])' <=> Resolves(heap[t.binding], heap[t.role])
  <2> DEFINE x == heap[t.binding]
             y == heap[t.role]
  <2>1. heap'[t.binding] = x /\ heap'[t.role] = y
    BY <1>4
  <2>2. QED
    BY <2>1 DEF Resolves, Scopes, Namespaces, GroupsOf, Strings, Completions
<1>6. Resolved' = {t \in inner :
         t.subject \in ToSet(SubjectList(heap'[t.binding]))
         /\ Resolves(heap[t.binding], heap[t.role])'}
  BY <1>2 DEF Resolved
<1>7. Resolved = {t \in inner :
         t.subject \in ToSet(SubjectList(heap[t.binding])) /\ Resolves(heap[t.binding], heap[t.role])}
  BY DEF Resolved
<1> HIDE DEF inner
<1>8. QED
  BY <1>4, <1>5, <1>6, <1>7

LEMMA ResolutionsMade ==
    ASSUME IInv, RegoResourcesAggregator
    PROVE  VectorsAreResolutions'
<1> SUFFICES ASSUME scenario.aggregator = "subject-role-rolebinding"
             PROVE  VectorsAreResolutions'
  BY DEF RegoResourcesAggregator, VectorsAreResolutions
<1> DEFINE found == [i \in DOMAIN vectors |-> PairOf(vectors[i])]
           pair(t) == [binding |-> t.binding, role |-> t.role,
                       own |-> OwnID("regoResponse", heap[t.subject])]
           made == [i \in DOMAIN Copied |-> pair(Copied[i])]
<1>1. /\ AggregateResourcesBySubjects /\ calls = Before /\ scenario' = scenario
      /\ Now /\ Original
  BY BeforeFacts DEF RegoResourcesAggregator
<1>2. /\ DOMAIN vectors' = DOMAIN Copied /\ DOMAIN Copied = 1 .. Len(Copied) /\ Len(Copied) \in Nat
      /\ \A a \in DOMAIN heap : heap'[a] = heap[a]
      /\ \A i \in DOMAIN Copied :
            /\ vectors'[i] = Len(envelope) + i
            /\ heap'[Len(heap) + i] = Vector(Copied[i])
            /\ envelope'[Len(envelope) + i] = Env("regoResponse", Len(heap) + i)
  BY <1>1, VectorsMade DEF IsJoin
<1>3. /\ ToSet(Copied) \subseteq Resolved /\ Copied \in Seq(Pairing)
      /\ Triples \in Seq(Pairing) /\ ToSet(Triples) = Resolved /\ IsInjective(Triples)
      /\ Copied # Triples => \E t \in Resolved : ~CanCopy(heap[t.subject])
      /\ failed' = (Copied # Triples)
  BY <1>1, CopiedFacts, TriplesFacts, TriplesResolve DEF AggregateResourcesBySubjects
<1>4. Resolved' = Resolved
  BY <1>1, <1>2, ResolvedKept DEF Original
<1>5. \A t \in Resolved : t.subject \in DOMAIN heap /\ heap'[t.subject] = heap[t.subject]
  BY <1>1, <1>2 DEF Resolved, Original
<1>6. found' = made
  <2>1. ASSUME NEW i \in DOMAIN Copied PROVE PairOf(vectors[i])' = pair(Copied[i])
    <3> DEFINE t == Copied[i]
               w == Vector(t)
    <3>1. t \in Resolved
      BY <1>3 DEF ToSet
    <3>2. heap'[envelope'[vectors'[i]].at] = w
      <4>1. Env("regoResponse", Len(heap) + i).at = Len(heap) + i
        BY DEF Env
      <4>2. envelope'[vectors'[i]].at = Len(heap) + i
        BY <1>2, <4>1
      <4>3. QED
        BY <1>2, <4>2
    <3> HIDE DEF t
    <3>3. Listed(w) = <<t.binding, t.role>>
          /\ OwnID("regoResponse", w) = OwnID("regoResponse", heap[t.subject])
      BY <1>1, <3>1, VectorFacts
    <3> HIDE DEF w
    <3>4. PairOf(vectors[i])' = [binding |-> Listed(w)[1], role |-> Listed(w)[2], own |-> OwnID("regoResponse", w)]
      BY <3>2 DEF PairOf, Related
    <3>5. QED
      BY <3>3, <3>4 DEF t
  <2>2. found' = [i \in DOMAIN Copied |-> PairOf(vectors[i])']
    BY <1>2
  <2> HIDE DEF pair
  <2>3. QED
    BY <2>1, <2>2
<1>7. {ResolvedPair(t) : t \in Resolved}' = {pair(t) : t \in Resolved}
  <2>1. {ResolvedPair(t) : t \in Resolved}'
        = {[binding |-> t.binding, role |-> t.role,
            own |-> OwnID("regoResponse", heap'[t.subject])] : t \in Resolved}
    BY <1>4 DEF ResolvedPair
  <2>2. QED
    BY <1>5, <2>1
<1>8. ToSet(made) = {pair(t) : t \in ToSet(Copied)} /\ Len(made) = Len(Copied)
  <2> HIDE DEF pair
  <2>1. DOMAIN made = DOMAIN Copied /\ \A i \in DOMAIN Copied : made[i] = pair(Copied[i])
    OBVIOUS
  <2>2. Len(made) = Len(Copied)
    BY <1>2, <2>1
  <2> HIDE DEF made
  <2>3. ToSet(made) = {pair(t) : t \in ToSet(Copied)}
    BY <2>1 DEF ToSet
  <2>4. QED
    BY <2>2, <2>3
<1>9. ~failed' => Len(made) = Cardinality(Resolved)
  BY <1>3, <1>8, LengthOfDistinct
<1>10. failed' => \E t \in Resolved : ~CanCopy(heap[t.subject])'
  <2>1. ASSUME failed' PROVE \E t \in Resolved : ~CanCopy(heap[t.subject])'
    <3>1. PICK t \in Resolved : ~CanCopy(heap[t.subject])
      BY <1>3, <2>1
    <3>2. ~CanCopy(heap[t.subject])'
      BY <1>5, <3>1
    <3>3. QED
      BY <3>2
  <2>2. QED
    BY <2>1
<1> HIDE DEF found, made, pair
<1>11. /\ ToSet(found)' \subseteq {ResolvedPair(t) : t \in Resolved}'
       /\ failed' => \E t \in Resolved' : ~CanCopy(heap[t.subject])'
       /\ ~failed' => /\ ToSet(found)' = {ResolvedPair(t) : t \in Resolved}'
                      /\ Len(found)' = Cardinality(Resolved)'
  <2>1. ToSet(found)' = ToSet(made) /\ Len(found)' = Len(made) /\ Cardinality(Resolved)' = Cardinality(Resolved)
    BY <1>4, <1>6
  <2>2. ~failed' => ToSet(Copied) = Resolved
    BY <1>3
  <2>3. QED
    BY <1>3, <1>4, <1>7, <1>8, <1>9, <1>10, <2>1, <2>2
<1>12. QED
  BY <1>11 DEF VectorsAreResolutions, found

-----------------------------------------------------------------------------
(* A call changes one map or one envelope, and none that is not there.       *)
OneChange(a, e) ==
    /\ \A b \in DOMAIN heap : b # a => heap'[b] = heap[b]
    /\ \A f \in DOMAIN envelope : f # e => envelope'[f] = envelope[f]
SmallStep == (\E a : OneChange(a, 0)) \/ (\E e : OneChange(0, e))

Extends(g, h) == \A b \in DOMAIN h : b \in DOMAIN g /\ g[b] = h[b]

LEMMA AppendExtends ==
    ASSUME NEW s, NEW x, IsSequence(s)
    PROVE  Extends(Append(s, x), s)
BY AppendedSequence DEF Extends

LEMMA JoinExtends ==
    ASSUME NEW s, NEW t, IsSequence(s), IsSequence(t)
    PROVE  Extends(s \o t, s)
BY JoinedSequence DEF Extends, IsJoin

LEMMA OpenedExtends ==
    ASSUME NEW h, IsHeap(h), NEW type, NEW a
    PROVE  Extends(Opened(h, type, a).heap, h)
<1> DEFINE m == AsStruct(type, h[a])
           cells == <<m>>
<1>1. IsSequence(h)
  BY HeapFacts
<1>2. Opened(h, type, a).heap \in {h, h \o cells}
  BY DEF Opened
<1>3. IsSequence(cells)
  <2> HIDE DEF m
  <2>1. cells \in Seq({m})
    OBVIOUS
  <2>2. QED
    BY <2>1, OfMembers
<1> HIDE DEF cells
<1>4. Extends(h \o cells, h) /\ Extends(h, h)
  BY <1>1, <1>3, JoinExtends DEF Extends
<1>5. QED
  BY <1>2, <1>4

LEMMA AskedExtends ==
    ASSUME Now, NEW r \in DOMAIN resources
    PROVE  /\ Extends(middleware(r).heap, heap)
           /\ Extends(AskedEnvelopes(r), envelope)
<1>1. IsHeap(heap) /\ IsSequence(envelope)
  BY DEF Now, Good, EnvelopesOK
<1>2. Extends(heap, heap) /\ Extends(envelope, envelope)
  BY DEF Extends
<1>3. Extends(middleware(r).heap, heap)
  <2> DEFINE a == resources[r].object
             type == GetObjectType(heap[a])
  <2>1. middleware(r).heap \in {heap, Opened(heap, type, a).heap}
    BY DEF middleware, NewObject
  <2> HIDE DEF a, type
  <2>2. Extends(Opened(heap, type, a).heap, heap)
    BY <1>1, OpenedExtends
  <2>3. QED
    BY <1>2, <2>1, <2>2
<1>4. Extends(AskedEnvelopes(r), envelope)
  BY <1>1, <1>2, AppendExtends DEF AskedEnvelopes
<1>5. QED
  BY <1>3, <1>4

LEMMA GrowthIsSmall ==
    ASSUME Extends(heap', heap), Extends(envelope', envelope)
    PROVE  SmallStep
BY DEF Extends, SmallStep, OneChange

LEMMA ChangeMapIsSmall ==
    ASSUME Now, NEW a, NEW m, ChangeMap(a, m)
    PROVE  SmallStep
<1>1. heap' = [heap EXCEPT ![a] = m] /\ envelope' = envelope
  BY DEF ChangeMap
<1>2. \A b \in DOMAIN heap : b # a => heap'[b] = heap[b]
  BY <1>1
<1>3. OneChange(a, 0)
  BY <1>1, <1>2 DEF OneChange
<1>4. QED
  BY <1>3 DEF SmallStep

LEMMA SetIsSmall ==
    ASSUME Now, NEW r \in DOMAIN resources, NEW field, NEW v, Set(r, field, v)
    PROVE  SmallStep
<1> DEFINE m == middleware(r)
           w == Written(m.env.type, m.heap[m.env.at], field, v)
<1>1. heap' = [m.heap EXCEPT ![m.env.at] = w] /\ Keep(r, m.env)
  BY DEF Set
<1>2. envelope' = AskedEnvelopes(r)
  <2>1. \A env : Keep(r, env) /\ env = middleware(r).env => envelope' = AskedEnvelopes(r)
    BY Keeping
  <2>2. QED
    BY <1>1, <2>1
<1>3. Extends(m.heap, heap) /\ Extends(envelope', envelope)
  BY <1>2, AskedExtends
<1> HIDE DEF m, w
<1>4. OneChange(m.env.at, 0)
  BY <1>1, <1>3 DEF OneChange, Extends
<1>5. QED
  BY <1>4 DEF SmallStep

LEMMA SetObjectIsSmall ==
    ASSUME Now, NEW r \in DOMAIN resources, NEW s, SetObject(r, s)
    PROVE  SmallStep
<1> DEFINE o == middleware(r)
           k == Kept(r)
           E == AskedEnvelopes(r)
<1>1. Extends(o.heap, heap) /\ Extends(E, envelope) /\ 0 \notin DOMAIN heap /\ 0 \notin DOMAIN envelope
  BY AskedExtends, HeapFacts, SequenceFacts DEF Now, Good, EnvelopesOK
<1>2. IsSequence(o.heap)
  BY Asked DEF Good, IsHeap
<1>3. CASE o.env.type \notin StructTypes
  <2> DEFINE env == [o.env EXCEPT !.at = Len(o.heap) + 1, !.replaced = TRUE]
  <2>1. heap' = Append(o.heap, s) /\ Keep(r, env)
    BY <1>3 DEF SetObject
  <2> HIDE DEF env
  <2>2. envelope' = [E EXCEPT ![k] = env]
    BY <2>1, Keeping
  <2> HIDE DEF o, E, k
  <2>3. Extends(heap', o.heap)
    BY <1>2, <2>1, AppendExtends
  <2>4. OneChange(0, k)
    BY <1>1, <2>2, <2>3 DEF OneChange, Extends
  <2>5. QED
    BY <2>4 DEF SmallStep
<1>4. CASE o.env.type \in StructTypes
  <2>1. Keep(r, o.env)
    BY <1>4 DEF SetObject
  <2>2. envelope' = E
    <3>1. \A env : Keep(r, env) /\ env = middleware(r).env => envelope' = AskedEnvelopes(r)
      BY Keeping
    <3>2. QED
      BY <2>1, <3>1
  <2> DEFINE w == AsStruct(o.env.type, s)
  <2>3. heap' \in {o.heap, [o.heap EXCEPT ![o.env.at] = w]}
    BY <1>4 DEF SetObject
  <2> HIDE DEF o, E, w
  <2>4. OneChange(o.env.at, 0)
    BY <1>1, <2>2, <2>3 DEF OneChange, Extends
  <2>5. QED
    BY <2>4 DEF SmallStep
<1>5. QED
  BY <1>3, <1>4

(* The other calls add to the heap and the envelopes only.                   *)
LEMMA ReloadIsSmall ==
    ASSUME Now, NEW r \in DOMAIN resources, Reload(r)
    PROVE  SmallStep
<1> DEFINE S == Reach(heap, resources[r].object)
           order == SetToSeq(S)
           cells == [i \in DOMAIN order |-> JSONCopy(order[i], order)]
<1>1. heap' = heap \o cells /\ envelope' = envelope
  BY DEF Reload
<1>2. IsHeap(heap) /\ resources[r].object \in DOMAIN heap
  BY DEF Now, Good, ResourcesOK
<1>3. /\ Cardinality(S) \in Nat /\ DOMAIN order = 1 .. Cardinality(S)
  <2>1. IsFiniteSet(S)
    <3>1. Len(heap) \in Nat /\ DOMAIN heap = 1 .. Len(heap) /\ S \in SUBSET DOMAIN heap
      BY <1>2, HeapFacts, ReachFacts
    <3>2. IsFiniteSet(DOMAIN heap)
      BY <3>1, FS_Interval
    <3> HIDE DEF S
    <3>3. QED
      BY <3>1, <3>2, FS_Subset
  <2> HIDE DEF S
  <2>2. QED
    BY <2>1, OrderOf
<1>4. IsSequence(cells)
  <2>1. cells = [i \in 1 .. Cardinality(S) |-> cells[i]]
    BY <1>3
  <2> HIDE DEF cells, S
  <2>2. QED
    BY <1>3, <2>1, MadeSequence
<1>5. IsSequence(heap)
  BY <1>2, HeapFacts
<1> HIDE DEF cells
<1>6. Extends(heap', heap) /\ Extends(envelope', envelope)
  BY <1>1, <1>4, <1>5, JoinExtends DEF Extends
<1>7. QED
  BY <1>6, GrowthIsSmall

LEMMA OpeningIsSmall ==
    ASSUME Now, NEW type, NEW a, heap' = Opened(heap, type, a).heap,
           envelope' = Append(envelope, Opened(heap, type, a).env)
    PROVE  SmallStep
<1>1. IsHeap(heap) /\ IsSequence(envelope)
  BY DEF Now, Good, EnvelopesOK
<1>2. Extends(heap', heap) /\ Extends(envelope', envelope)
  BY <1>1, OpenedExtends, AppendExtends
<1>3. QED
  BY <1>2, GrowthIsSmall

LEMMA CallIsSmall ==
    ASSUME IInv, Next, ~RegoResourcesAggregator
    PROVE  SmallStep /\ Call /\ scenario' = scenario /\ vectors' = vectors
<1>1. Now /\ IsHeap(heap) /\ IsSequence(heap)
  BY DEF IInv, Now, Good, IsHeap
<1>2. Extends(heap, heap) /\ Extends(envelope, envelope)
  BY DEF Extends
<1>3. ASSUME NEW e \in DOMAIN envelope, NewResourceIMetadata(e) PROVE SmallStep /\ Call
  <2>1. Call /\ envelope' = envelope /\ heap' \in {heap, Append(heap, StructAsMap(heap[envelope[e].at]))}
    BY <1>3 DEF NewResourceIMetadata
  <2>2. Extends(heap', heap) /\ Extends(envelope', envelope)
    BY <1>1, <1>2, <2>1, AppendExtends
  <2>3. QED
    BY <2>1, <2>2, GrowthIsSmall
<1>4. ASSUME NEW e \in DOMAIN envelope,
             \/ DeletePathEntry(e)
             \/ \E v \in Values : SetPath(e, v)
             \/ SetRelatedObjects(e, << >>)
             \/ \E v \in Values : \E i \in DOMAIN Related(heap[envelope[e].at]) : SetOfRelated(e, i, v)
      PROVE  SmallStep /\ Call
  <2>1. \E a, m : ChangeMap(a, m)
    BY <1>4 DEF DeletePathEntry, SetPath, SetRelatedObjects, SetOfRelated
  <2>2. QED
    BY <1>1, <2>1, ChangeMapIsSmall DEF ChangeMap
<1>5. ASSUME NEW a, NewResource(a) PROVE SmallStep /\ Call
  <2>1. Call /\ heap' = heap /\ envelope' = envelope
    BY <1>5 DEF NewResource
  <2>2. QED
    BY <1>2, <2>1, GrowthIsSmall
<1>6. ASSUME NEW a, NewScanObject(a) PROVE SmallStep /\ Call
  BY <1>1, <1>6, OpeningIsSmall DEF NewScanObject
<1>7. ASSUME NEW r \in DOMAIN resources, Get(r) PROVE SmallStep /\ Call
  <2>1. Call /\ heap' = middleware(r).heap /\ Keep(r, middleware(r).env)
    BY <1>7 DEF Get
  <2>2. envelope' = AskedEnvelopes(r)
    BY <1>1, <2>1, Keeping
  <2>3. Extends(heap', heap) /\ Extends(envelope', envelope)
    BY <1>1, <2>1, <2>2, AskedExtends
  <2>4. QED
    BY <2>1, <2>3, GrowthIsSmall
<1>8. ASSUME NEW r \in DOMAIN resources, Reload(r) PROVE SmallStep /\ Call
  BY <1>1, <1>8, ReloadIsSmall DEF Reload
<1>9. ASSUME NEW r \in DOMAIN resources, \E field \in Settable : \E v \in Values : Set(r, field, v)
      PROVE  SmallStep /\ Call
  BY <1>1, <1>9, SetIsSmall DEF Set
<1>10. ASSUME NEW r \in DOMAIN resources, \E m \in Spare : SetObject(r, m) PROVE SmallStep /\ Call
  BY <1>1, <1>10, SetObjectIsSmall DEF SetObject
<1>11. ASSUME NEW id, GetResource(id) PROVE SmallStep /\ Call
  <2> DEFINE a == resources[SelectInSeq(resources, LAMBDA r : r.id = id)].object
             type == GetObjectType(heap[a])
  <2>1. /\ Call /\ heap' = Opened(heap, type, a).heap
        /\ envelope' = Append(envelope, Opened(heap, type, a).env)
    BY <1>11 DEF GetResource, NewObject
  <2> HIDE DEF a, type
  <2>2. QED
    BY <1>1, <2>1, OpeningIsSmall
<1>12. SmallStep /\ Call
  BY <1>3, <1>4, <1>5, <1>6, <1>7, <1>8, <1>9, <1>10, <1>11 DEF Next
<1>13. QED
  BY <1>12 DEF Call

(* A call changes at most one vector, and then no map the rule was given.    *)
LEMMA OneVectorChanges ==
    ASSUME IInv, SmallStep, vectors' = vectors, scenario.aggregator = "subject-role-rolebinding"
    PROVE  LET changed == {e \in ToSet(vectors) : Own(e)' # Own(e)}
           IN  /\ Cardinality(changed) <= 1
               /\ changed # {} => \A a \in DOMAIN scenario.heap : heap'[a] = heap[a]
<1> DEFINE changed == {e \in ToSet(vectors) : Own(e)' # Own(e)}
<1>1. /\ ToSet(vectors) \subseteq DOMAIN envelope
      /\ \A e \in ToSet(vectors) : envelope[e].at \notin DOMAIN scenario.heap
                                   /\ envelope[e].at \in DOMAIN heap
      /\ \A e, f \in ToSet(vectors) : envelope[e].at = envelope[f].at => e = f
      /\ DOMAIN scenario.heap \subseteq DOMAIN heap
      /\ IsHeap(heap) /\ IsSequence(envelope)
  BY DEF IInv, Good, VectorsOK, EnvelopesOK
<1>2. 0 \notin DOMAIN heap /\ 0 \notin DOMAIN envelope
  BY <1>1, HeapFacts, SequenceFacts
<1>3. \A e : e \in changed <=>
         e \in ToSet(vectors) /\ heap'[envelope'[e].at] # heap[envelope[e].at]
  BY DEF Own
<1> HIDE DEF changed
<1>4. (\E x : changed \subseteq {x}) /\ (changed # {} => \A a \in DOMAIN scenario.heap : heap'[a] = heap[a])
  <2>1. ASSUME NEW a, OneChange(a, 0)
        PROVE  /\ \E x : changed \subseteq {x}
               /\ changed # {} => \A b \in DOMAIN scenario.heap : heap'[b] = heap[b]
    <3>1. \A e \in changed : e \in ToSet(vectors) /\ envelope[e].at = a
      BY <1>1, <1>2, <1>3, <2>1 DEF OneChange
    <3>2. \E x : changed \subseteq {x}
      BY <1>1, <3>1
    <3>3. changed # {} => a \notin DOMAIN scenario.heap
      BY <1>1, <3>1
    <3>4. QED
      BY <1>1, <2>1, <3>2, <3>3 DEF OneChange
  <2>2. ASSUME NEW k, OneChange(0, k)
        PROVE  /\ \E x : changed \subseteq {x}
               /\ \A b \in DOMAIN scenario.heap : heap'[b] = heap[b]
    <3>1. \A e \in changed : e = k
      BY <1>1, <1>2, <1>3, <2>2 DEF OneChange
    <3>2. QED
      BY <1>1, <1>2, <2>2, <3>1 DEF OneChange
  <2>3. QED
    BY <2>1, <2>2 DEF SmallStep
<1>5. Cardinality(changed) <= 1
  <2>1. PICK x : changed \subseteq {x}
    BY <1>4
  <2>2. changed = {} \/ changed = {x}
    BY <2>1
  <2>3. Cardinality(changed) \in {0, 1}
    BY <2>2, FS_EmptySet, FS_Singleton
  <2>4. QED
    BY <2>3
<1>6. QED
  BY <1>4, <1>5 DEF changed

Independent ==
    scenario.aggregator = "subject-role-rolebinding" =>
        LET changed == {e \in ToSet(vectors) : Own(e)' # Own(e)}
        IN  /\ Cardinality(changed) <= 1
            /\ changed # {} \/ vectors' # vectors =>
                  \A a \in DOMAIN scenario.heap : heap'[a] = heap[a]

LEMMA StepIndependent ==
    ASSUME IInv, Next
    PROVE  Independent
<1> SUFFICES ASSUME scenario.aggregator = "subject-role-rolebinding" PROVE Independent
  BY DEF Independent
<1> DEFINE changed == {e \in ToSet(vectors) : Own(e)' # Own(e)}
<1>1. CASE RegoResourcesAggregator
  <2>1. AggregateResourcesBySubjects /\ calls = Before
    BY <1>1 DEF RegoResourcesAggregator
  <2>2. Now /\ Original /\ vectors = << >> /\ DOMAIN scenario.heap \subseteq DOMAIN heap
    BY <2>1, BeforeFacts DEF Original
  <2>3. changed = {}
    BY <2>2, EmptySequence
  <2>4. \A a \in DOMAIN heap : heap'[a] = heap[a]
    BY <2>1, <2>2, VectorsMade DEF IsJoin
  <2>5. Cardinality(changed) <= 1
    BY <2>3, FS_EmptySet
  <2> HIDE DEF changed
  <2>6. QED
    BY <2>2, <2>4, <2>5 DEF Independent, changed
<1>2. CASE ~RegoResourcesAggregator
  <2>1. SmallStep /\ vectors' = vectors
    BY <1>2, CallIsSmall
  <2>2. QED
    BY <2>1, OneVectorChanges DEF Independent
<1>3. QED
  BY <1>1, <1>2

-----------------------------------------------------------------------------
(* Addresses and envelopes stay what they are: every envelope and resource is *)
(* over a map of the heap, however maps are added, copied and replaced.       *)
THEOREM TypeCorrect == Spec => []TypeOK
<1>1. IInv => TypeOK
  <2> SUFFICES ASSUME IInv PROVE TypeOK
    OBVIOUS
  <2>1. /\ IsHeap(heap) /\ EnvelopesOK(heap, envelope) /\ ResourcesOK(heap, envelope, resources)
        /\ VectorsOK(scenario, envelope, vectors) /\ touched \subseteq DOMAIN heap
    BY DEF IInv, Good
  <2>2. \A e \in DOMAIN envelope : envelope[e].at \in DOMAIN heap
    BY <2>1 DEF EnvelopesOK
  <2>3. \A a \in DOMAIN heap : Children(heap[a]) \subseteq DOMAIN heap
    BY <2>1, HeapFacts
  <2>4. \A r \in DOMAIN resources :
           resources[r].object \in DOMAIN heap /\ resources[r].meta \in {0} \union DOMAIN envelope
    BY <2>1 DEF ResourcesOK
  <2>5. calls \in {Before} \union Nat /\ failed \in BOOLEAN
    <3>1. /\ scenario.calls \in Nat /\ calls \in {Before} \union (0 .. scenario.calls)
          /\ failed \in BOOLEAN
      BY BeforeFacts DEF IInv, CallsOK
    <3>2. calls \in {Before} \union Nat
      BY <3>1 DEF Before
    <3>3. QED
      BY <3>1, <3>2
  <2>6. QED
    BY <2>1, <2>2, <2>3, <2>4, <2>5 DEF TypeOK, VectorsOK
<1>2. QED
  BY Invariance, <1>1, PTL

(* What AggregateResourcesBySubjects returns are the bindings that Kubernetes *)
(* resolves: one vector for each subject of a binding and each role that the  *)
(* binding refers to, and no other.                                          *)
THEOREM ResolutionsCorrect == Spec => []VectorsAreResolutions
<1>1. Init => VectorsAreResolutions
  <2> SUFFICES ASSUME Init PROVE VectorsAreResolutions
    OBVIOUS
  <2>1. calls = Before /\ scenario.calls \in Nat
    BY InitGood, BeforeFacts DEF Init
  <2>2. calls # scenario.calls
    BY <2>1 DEF Before
  <2>3. QED
    BY <2>2 DEF VectorsAreResolutions
<1>2. IInv /\ VectorsAreResolutions /\ [Next]_vars => VectorsAreResolutions'
  <2> SUFFICES ASSUME IInv, VectorsAreResolutions, [Next]_vars PROVE VectorsAreResolutions'
    OBVIOUS
  <2>1. CASE RegoResourcesAggregator
    BY <2>1, ResolutionsMade
  <2>2. CASE Next /\ ~RegoResourcesAggregator
    <3>1. scenario' = scenario /\ calls' = calls - 1 /\ calls \in Nat \ {0}
      BY <2>2, CallIsSmall DEF Call
    <3>2. calls \in {Before} \union (0 .. scenario.calls) /\ scenario.calls \in Nat
      BY BeforeFacts DEF IInv, CallsOK
    <3>3. calls' # scenario'.calls
      BY <3>1, <3>2 DEF Before
    <3>4. QED
      BY <3>3 DEF VectorsAreResolutions
  <2>3. CASE UNCHANGED vars
    <3>1. /\ heap' = heap /\ envelope' = envelope /\ scenario' = scenario /\ vectors' = vectors
          /\ failed' = failed /\ calls' = calls
      BY <2>3 DEF vars
    <3>2. Resolved' = Resolved
      BY <3>1 DEF Resolved, Of, OfKind, Resolves, Scopes, Namespaces, GroupsOf, Strings
    <3> DEFINE found == [i \in DOMAIN vectors |-> PairOf(vectors[i])]
               all == {ResolvedPair(t) : t \in Resolved}
    <3>3. found' = found
      BY <3>1 DEF PairOf, Own
    <3>4. all' = all
      BY <3>1, <3>2 DEF ResolvedPair
    <3>5. (\E t \in Resolved : ~CanCopy(heap[t.subject]))'
          <=> \E t \in Resolved : ~CanCopy(heap[t.subject])
      BY <3>1, <3>2
    <3> HIDE DEF found, all
    <3>6. /\ ToSet(found)' = ToSet(found) /\ Len(found)' = Len(found)
          /\ Cardinality(Resolved)' = Cardinality(Resolved)
      BY <3>2, <3>3
    <3>7. VectorsAreResolutions
          <=> (scenario.aggregator = "subject-role-rolebinding" /\ calls = scenario.calls =>
                 /\ ToSet(found) \subseteq all
                 /\ IF failed THEN \E t \in Resolved : ~CanCopy(heap[t.subject])
                    ELSE ToSet(found) = all /\ Len(found) = Cardinality(Resolved))
      BY DEF VectorsAreResolutions, found, all
    <3>8. VectorsAreResolutions'
          <=> (scenario'.aggregator = "subject-role-rolebinding" /\ calls' = scenario'.calls =>
                 /\ ToSet(found)' \subseteq all'
                 /\ IF failed' THEN (\E t \in Resolved : ~CanCopy(heap[t.subject]))'
                    ELSE ToSet(found)' = all' /\ Len(found)' = Cardinality(Resolved)')
      BY DEF VectorsAreResolutions, found, all
    <3>9. QED
      BY <3>1, <3>4, <3>5, <3>6, <3>7, <3>8
  <2>4. QED
    BY <2>1, <2>2, <2>3
<1>3. QED
  BY Invariance, <1>1, <1>2, PTL DEF Spec

(* Vectors of one subject, related to the same binding and role, have maps of *)
(* their own: a call changes one of them and none of the objects given.      *)
THEOREM IndependenceCorrect == Spec => VectorsAreIndependent
<1>1. IInv /\ [Next]_vars => [Independent]_vars
  BY StepIndependent
<1>2. QED
  BY Invariance, <1>1, PTL DEF Spec, VectorsAreIndependent, Independent

(* The ID of a resource names the object of the report, written and read back *)
(* any number of times.                                                      *)
THEOREM IDsCorrect == Spec => []IDNamesWritten
<1>1. IInv => IDNamesWritten
  <2> SUFFICES ASSUME IInv, NEW r \in DOMAIN resources
               PROVE  \/ resources[r].id = NoID \/ Retyped(r)
                      \/ Reach(heap, resources[r].object) \intersect touched # {}
                      \/ LET o == NewObject(heap, resources[r].object)
                         IN  GetID(o.heap, o.env) = resources[r].id
    BY DEF IDNamesWritten
  <2>1. /\ IsSequence(heap) /\ resources[r].object \in DOMAIN heap
        /\ IDKept(heap, touched, resources[r])
    BY DEF IInv, Good, IsHeap, ResourcesOK, IDsOK
  <2>2. GetID(NewObject(heap, resources[r].object).heap, NewObject(heap, resources[r].object).env)
        = IDOf(heap, resources[r].object)
    BY <2>1, OpenedID
  <2>3. QED
    BY <2>1, <2>2 DEF IDKept, Retyped, Kind
<1>2. QED
  BY Invariance, <1>1, PTL

(* The Object written and the IMetadata asked are two faces of one map.      *)
THEOREM FacesCorrect == Spec => []ReportShowsSetters
<1>1. IInv => FacesAgree
  <2> SUFFICES ASSUME IInv, NEW r \in DOMAIN resources, resources[r].meta # 0,
                      ~envelope[resources[r].meta].replaced,
                      envelope[resources[r].meta].type \notin StructTypes
               PROVE  GetID(heap, Env(envelope[resources[r].meta].type, resources[r].object))
                      = GetID(heap, envelope[resources[r].meta])
    BY DEF FacesAgree
  <2> DEFINE env == envelope[resources[r].meta]
             x == Env(env.type, resources[r].object)
  <2>1. env.at = resources[r].object
    BY DEF IInv, Good, FacesOK
  <2>2. x.at = env.at /\ x.type = env.type
    BY <2>1 DEF Env
  <2> HIDE DEF env, x
  <2>3. GetID(heap, x) = GetID(heap, env)
    BY <2>2 DEF GetID, IDs
  <2>4. QED
    BY <2>3 DEF env, x
<1>2. TypeOK /\ FacesAgree => ReportShowsSetters
  BY DEF ReportShowsSetters
<1>3. QED
  BY Invariance, TypeCorrect, <1>1, <1>2, PTL
=============================================================================

------------------------ MODULE ProcessorCaches_proof ------------------------
(***************************************************************************)
(* Proofs about ProcessorCaches, for every set of goroutines, patterns,    *)
(* names and designators.  That the caches are sound and do not show needs *)
(* SignaturesUnique of the designators; type correctness does not.         *)
(***************************************************************************)
EXTENDS ProcessorCaches, TLAPS

(* What a call holds between computing and storing is the value of its own   *)
(* key.                                                                      *)
HeldSound ==
    \A g \in Goroutine :
        /\ at[g] = "store" =>
              held[g] = Regexp(asked[g].fold, asked[g].pattern)
        /\ at[g] = "set" => held[g] = Digest(asked[g].designator)

-----------------------------------------------------------------------------
LEMMA PutNew ==
    ASSUME NEW cache, NEW key, NEW value, NEW next, next = Put(cache, key, value)
    PROVE  next[key] = value
BY DEF Put

LEMMA PutOld ==
    ASSUME NEW cache, NEW key, NEW value, NEW next, next = Put(cache, key, value),
           NEW k \in DOMAIN next, k # key
    PROVE  k \in DOMAIN cache /\ next[k] = cache[k]
BY DEF Put

LEMMA PutTypes ==
    ASSUME NEW cache, NEW key, NEW value, NEW K, NEW V,
           DOMAIN cache \subseteq K, \A k \in DOMAIN cache : cache[k] \in V,
           key \in K, value \in V
    PROVE  /\ DOMAIN Put(cache, key, value) \subseteq K
           /\ \A k \in DOMAIN Put(cache, key, value) : Put(cache, key, value)[k] \in V
BY DEF Put

LEMMA OnlyValidCompile ==
    ASSUME NEW fold, NEW pattern, Regexp(fold, pattern) \in RegexpOf(fold)
    PROVE  pattern \notin Invalid
<1>1. PICK p \in Pattern \ Invalid : Regexp(fold, pattern) = Regexp(fold, p)
  BY DEF RegexpOf
<1>2. Regexp(fold, pattern).pattern = pattern /\ Regexp(fold, p).pattern = p
  BY DEF Regexp
<1>3. QED
  BY <1>1, <1>2

LEMMA MatchIsEvaluate ==
    ASSUME NEW q, q.op = "compare", q.pattern \notin Invalid
    PROVE  Matched(MatchString(Regexp(q.fold, q.pattern), q.name)) = Evaluate(q)
<1>. DEFINE entry == [fold |-> q.fold, pattern |-> q.pattern, name |-> q.name]
<1>1. MatchString(Regexp(q.fold, q.pattern), q.name) = (entry \in Accepts)
  BY DEF MatchString, Regexp
<1>2. (q.pattern \notin Invalid /\ entry \in Accepts) = (entry \in Accepts)
  OBVIOUS
<1>3. QED
  BY <1>1, <1>2, Zenon DEF Evaluate

LEMMA RequestKinds ==
    /\ \A q \in Request : q.op = "compare" => q \in Compare
    /\ \A q \in Request : q.op = "getAttributes" => q \in GetAttributes
    /\ \A q \in Compare : q.op = "compare" /\ q \in Request
    /\ \A q \in Compare : q.fold \in BOOLEAN /\ q.pattern \in Pattern
    /\ \A q \in GetAttributes :
          q.op = "getAttributes" /\ q \in Request /\ q.designator \in Designator
BY DEF Request, Compare, GetAttributes

LEMMA DigestsAndKeys ==
    ASSUME NEW d \in Designator
    PROVE  Digest(d) \in Digests /\ toDesignatorKey(d) \in Keys
BY DEF Digests, Keys

LEMMA ValidRegexp ==
    ASSUME NEW fold, NEW p \in Pattern \ Invalid
    PROVE  Regexp(fold, p) \in RegexpOf(fold)
BY DEF RegexpOf

-----------------------------------------------------------------------------
(* Type correctness: what each kind of step does to the calls ... *)
LEMMA TypeInit == Init => TypeOK
BY DEF Init, TypeOK, CallsOK, StoresOK, Empty, Idle, Steps

LEMMA CallTypes ==
    ASSUME CallsOK, NEW g \in Goroutine, NEW q \in Request, Call(g, q)
    PROVE  CallsOK'
BY DEF CallsOK, Call, Goto, Idle, Steps

LEMMA ReturnTypes ==
    ASSUME CallsOK, NEW g \in Goroutine, NEW a \in Answers, Return(g, a)
    PROVE  CallsOK'
BY DEF CallsOK, Return, Goto, Idle, Steps

LEMMA HoldTypes ==
    ASSUME CallsOK, NEW g \in Goroutine, NEW value, NEW step \in Steps, Hold(g, value, step),
           step \in {"compile", "store"} => asked[g] \in Compare,
           step \in {"digest", "set"} => asked[g] \in GetAttributes,
           step = "lookup" => asked[g] \in Request,
           step = "store" => value \in RegexpOf(asked[g].fold),
           step = "set" => value \in Digests
    PROVE  CallsOK'
BY DEF CallsOK, Hold, Goto, Steps

LEMMA MatchedIsAnswer == ASSUME NEW b \in BOOLEAN PROVE Matched(b) \in Answers
BY DEF Answers

LEMMA MatchStringIsBoolean ==
    ASSUME NEW rex, NEW name PROVE MatchString(rex, name) \in BOOLEAN
BY DEF MatchString

(* ... and to the caches.                                                    *)
LEMMA TypeStep ==
    ASSUME TypeOK, NEW g \in Goroutine, Step(g)
    PROVE  TypeOK'
<1>. USE DEF TypeOK
<1>1. CASE Load(g)
  <2>1. asked[g] \in Compare
    BY <1>1, RequestKinds DEF Load, CallsOK
  <2>2. CallsOK'
    <3>1. CASE Return(g, Matched(MatchString(rexCache[asked[g].fold][asked[g].pattern], asked[g].name)))
      BY <3>1, MatchedIsAnswer, MatchStringIsBoolean, ReturnTypes
    <3>2. CASE Hold(g, Nothing, "compile")
      BY <2>1, <3>2, HoldTypes DEF Steps
    <3>3. QED
      BY <1>1, <3>1, <3>2 DEF Load
  <2>3. QED
    BY <1>1, <2>2 DEF Load, StoresOK
<1>2. CASE Compile(g)
  <2>1. asked[g] \in Compare
    BY <1>2 DEF Compile, CallsOK
  <2>2. CallsOK'
    <3>1. CASE asked[g].pattern \in Invalid
      BY <1>2, <3>1, MatchedIsAnswer, ReturnTypes DEF Compile
    <3>2. CASE asked[g].pattern \notin Invalid
      <4>1. Regexp(asked[g].fold, asked[g].pattern) \in RegexpOf(asked[g].fold)
        BY <2>1, <3>2, RequestKinds, ValidRegexp
      <4>2. Hold(g, Regexp(asked[g].fold, asked[g].pattern), "store")
        BY <1>2, <3>2 DEF Compile
      <4>3. QED
        BY <2>1, <4>1, <4>2, HoldTypes DEF Steps
    <3>3. QED
      BY <3>1, <3>2
  <2>3. QED
    BY <1>2, <2>2 DEF Compile, StoresOK
<1>3. CASE Store(g)
  <2>1. asked[g] \in Compare /\ held[g] \in RegexpOf(asked[g].fold)
    BY <1>3 DEF Store, CallsOK
  <2>2. CallsOK'
    BY <1>3, MatchedIsAnswer, MatchStringIsBoolean, ReturnTypes DEF Store
  <2>3. StoresOK'
    <3>1. asked[g].fold \in BOOLEAN /\ asked[g].pattern \in Pattern
      BY <2>1, RequestKinds
    <3>2. /\ rexCache' = [rexCache EXCEPT ![asked[g].fold] = Put(@, asked[g].pattern, held[g])]
          /\ designatorCache' = designatorCache
      BY <1>3 DEF Store
    <3>3. ASSUME NEW fold \in BOOLEAN
          PROVE  /\ DOMAIN rexCache'[fold] \subseteq Pattern
                 /\ \A p \in DOMAIN rexCache'[fold] : rexCache'[fold][p] \in RegexpOf(fold)
      <4>1. CASE fold = asked[g].fold
        <5>1. rexCache'[fold] = Put(rexCache[fold], asked[g].pattern, held[g])
          BY <3>2, <4>1 DEF StoresOK
        <5>2. /\ DOMAIN rexCache[fold] \subseteq Pattern
              /\ \A p \in DOMAIN rexCache[fold] : rexCache[fold][p] \in RegexpOf(fold)
          BY DEF StoresOK
        <5>3. QED
          BY <2>1, <3>1, <4>1, <5>1, <5>2, PutTypes
      <4>2. CASE fold # asked[g].fold
        BY <3>2, <4>2 DEF StoresOK
      <4>3. QED
        BY <4>1, <4>2
    <3>4. QED
      BY <3>2, <3>3 DEF StoresOK
  <2>4. QED
    BY <2>2, <2>3
<1>4. CASE Get(g)
  <2>1. asked[g] \in GetAttributes
    BY <1>4, RequestKinds DEF Get, CallsOK
  <2>2. CallsOK'
    <3>1. CASE toDesignatorKey(asked[g].designator) \in DOMAIN designatorCache
      <4>1. designatorCache[toDesignatorKey(asked[g].designator)] \in Answers
        BY <3>1 DEF StoresOK, Answers
      <4>2. QED
        BY <1>4, <3>1, <4>1, ReturnTypes DEF Get
    <3>2. CASE toDesignatorKey(asked[g].designator) \notin DOMAIN designatorCache
      <4>1. Hold(g, Nothing, "digest")
        BY <1>4, <3>2 DEF Get
      <4>2. QED
        BY <2>1, <4>1, HoldTypes DEF Steps
    <3>3. QED
      BY <3>1, <3>2
  <2>3. QED
    BY <1>4, <2>2 DEF Get, StoresOK
<1>5. CASE DigestDesignator(g)
  <2>1. asked[g] \in GetAttributes
    BY <1>5 DEF DigestDesignator, CallsOK
  <2>2. Digest(asked[g].designator) \in Digests
    BY <2>1, RequestKinds, DigestsAndKeys
  <2>3. CallsOK'
    BY <1>5, <2>1, <2>2, HoldTypes DEF DigestDesignator, Steps
  <2>4. QED
    BY <1>5, <2>3 DEF DigestDesignator, StoresOK
<1>6. CASE Set(g)
  <2>1. asked[g] \in GetAttributes /\ held[g] \in Digests
    BY <1>6 DEF Set, CallsOK
  <2>2. toDesignatorKey(asked[g].designator) \in Keys
    BY <2>1, RequestKinds, DigestsAndKeys
  <2>3. CallsOK'
    BY <1>6, <2>1, ReturnTypes DEF Set, Answers
  <2>4. StoresOK'
    <3>1. /\ designatorCache' = Put(designatorCache, toDesignatorKey(asked[g].designator), held[g])
          /\ rexCache' = rexCache
      BY <1>6 DEF Set
    <3>2. /\ DOMAIN designatorCache' \subseteq Keys
          /\ \A k \in DOMAIN designatorCache' : designatorCache'[k] \in Digests
      BY <2>1, <2>2, <3>1, PutTypes DEF StoresOK
    <3>3. QED
      BY <3>1, <3>2 DEF StoresOK
  <2>5. QED
    BY <2>3, <2>4
<1>7. QED
  BY <1>1, <1>2, <1>3, <1>4, <1>5, <1>6 DEF Step

LEMMA TypeNext == TypeOK /\ [Next]_vars => TypeOK'
<1>. SUFFICES ASSUME TypeOK, [Next]_vars PROVE TypeOK'
  OBVIOUS
<1>1. CASE UNCHANGED vars
  BY <1>1 DEF vars, TypeOK, CallsOK, StoresOK
<1>2. ASSUME NEW g \in Goroutine, NEW q \in Request, Call(g, q) PROVE TypeOK'
  BY <1>2, CallTypes DEF TypeOK, StoresOK, Call
<1>3. QED
  BY <1>1, <1>2, TypeStep DEF Next

(* Every reachable state is well typed, however the calls interleave: a call *)
(* stores only what it computed for its own request, and a pattern that does *)
(* not compile is never stored.                                              *)
THEOREM TypeCorrect == Spec => []TypeOK
BY TypeInit, TypeNext, PTL DEF Spec

-----------------------------------------------------------------------------
(* Soundness of the caches. *)
Sound == CachesSound /\ HeldSound

LEMMA SoundInit == Init => Sound
BY DEF Init, Sound, CachesSound, HeldSound, Empty, Idle

(* A call that returns or goes on to compute disturbs no other call.         *)
LEMMA HeldAfterReturn ==
    ASSUME CallsOK, HeldSound, NEW g \in Goroutine, NEW a, Return(g, a)
    PROVE  HeldSound'
BY DEF CallsOK, HeldSound, Return, Goto, Idle

LEMMA HeldAfterHold ==
    ASSUME CallsOK, HeldSound, NEW g \in Goroutine, NEW value, NEW step, Hold(g, value, step),
           step = "store" => value = Regexp(asked[g].fold, asked[g].pattern),
           step = "set" => value = Digest(asked[g].designator)
    PROVE  HeldSound'
BY DEF CallsOK, HeldSound, Hold, Goto

LEMMA SoundStep ==
    ASSUME SignaturesUnique, TypeOK, Sound, NEW g \in Goroutine, Step(g)
    PROVE  Sound'
<1>. USE DEF TypeOK, Sound
<1>1. CASE Load(g)
  <2>1. HeldSound'
    <3>1. CASE Return(g, Matched(MatchString(rexCache[asked[g].fold][asked[g].pattern], asked[g].name)))
      BY <3>1, HeldAfterReturn
    <3>2. CASE Hold(g, Nothing, "compile")
      BY <3>2, HeldAfterHold
    <3>3. QED
      BY <1>1, <3>1, <3>2 DEF Load
  <2>2. QED
    BY <1>1, <2>1 DEF Load, CachesSound
<1>2. CASE Compile(g)
  <2>1. HeldSound'
    BY <1>2, HeldAfterReturn, HeldAfterHold DEF Compile
  <2>2. QED
    BY <1>2, <2>1 DEF Compile, CachesSound
<1>3. CASE Store(g)
  <2>1. HeldSound'
    BY <1>3, HeldAfterReturn DEF Store
  <2>2. held[g] = Regexp(asked[g].fold, asked[g].pattern)
    BY <1>3 DEF Store, HeldSound
  <2>3. /\ rexCache' = [rexCache EXCEPT ![asked[g].fold] = Put(@, asked[g].pattern, held[g])]
        /\ designatorCache' = designatorCache
    BY <1>3 DEF Store
  <2>4. ASSUME NEW fold \in BOOLEAN, NEW p \in DOMAIN rexCache'[fold]
        PROVE  rexCache'[fold][p] = Regexp(fold, p)
    <3>1. CASE fold = asked[g].fold
      <4>1. rexCache'[fold] = Put(rexCache[fold], asked[g].pattern, held[g])
        BY <2>3, <3>1 DEF StoresOK
      <4>2. CASE p = asked[g].pattern
        BY <2>2, <3>1, <4>1, <4>2, PutNew
      <4>3. CASE p # asked[g].pattern
        <5>1. p \in DOMAIN rexCache[fold] /\ rexCache'[fold][p] = rexCache[fold][p]
          BY <2>4, <4>1, <4>3, PutOld
        <5>2. QED
          BY <5>1 DEF CachesSound
      <4>4. QED
        BY <4>2, <4>3
    <3>2. CASE fold # asked[g].fold
      BY <2>3, <3>2 DEF CachesSound, StoresOK
    <3>3. QED
      BY <3>1, <3>2
  <2>5. QED
    BY <2>1, <2>3, <2>4 DEF CachesSound
<1>4. CASE Get(g)
  <2>1. HeldSound'
    <3>1. CASE Return(g, designatorCache[toDesignatorKey(asked[g].designator)])
      BY <3>1, HeldAfterReturn
    <3>2. CASE Hold(g, Nothing, "digest")
      BY <3>2, HeldAfterHold
    <3>3. QED
      BY <1>4, <3>1, <3>2 DEF Get
  <2>2. QED
    BY <1>4, <2>1 DEF Get, CachesSound
<1>5. CASE DigestDesignator(g)
  <2>1. HeldSound'
    BY <1>5, HeldAfterHold DEF DigestDesignator
  <2>2. QED
    BY <1>5, <2>1 DEF DigestDesignator, CachesSound
<1>6. CASE Set(g)
  <2>. DEFINE own == asked[g].designator
              key == toDesignatorKey(own)
  <2>1. HeldSound'
    BY <1>6, HeldAfterReturn DEF Set
  <2>2. held[g] = Digest(own) /\ own \in Designator
    BY <1>6, RequestKinds DEF Set, HeldSound, CallsOK
  <2>3. designatorCache' = Put(designatorCache, key, held[g]) /\ rexCache' = rexCache
    BY <1>6 DEF Set
  <2>4. ASSUME NEW d \in Designator, toDesignatorKey(d) \in DOMAIN designatorCache'
        PROVE  designatorCache'[toDesignatorKey(d)] = Digest(d)
    <3>1. CASE toDesignatorKey(d) = key
      <4>1. Digest(d) = Digest(own)
        BY <2>2, <3>1 DEF SignaturesUnique
      <4>2. QED
        BY <2>2, <2>3, <3>1, <4>1, PutNew
    <3>2. CASE toDesignatorKey(d) # key
      <4>1. /\ toDesignatorKey(d) \in DOMAIN designatorCache
            /\ designatorCache'[toDesignatorKey(d)] = designatorCache[toDesignatorKey(d)]
        BY <2>3, <2>4, <3>2, PutOld
      <4>2. QED
        BY <4>1 DEF CachesSound
    <3>3. QED
      BY <3>1, <3>2
  <2>5. QED
    BY <2>1, <2>3, <2>4 DEF CachesSound
<1>7. QED
  BY <1>1, <1>2, <1>3, <1>4, <1>5, <1>6 DEF Step

LEMMA SoundNext == SignaturesUnique /\ TypeOK /\ Sound /\ [Next]_vars => Sound'
<1>. SUFFICES ASSUME SignaturesUnique, TypeOK, Sound, [Next]_vars PROVE Sound'
  OBVIOUS
<1>1. CASE UNCHANGED vars
  BY <1>1 DEF vars, Sound, CachesSound, HeldSound
<1>2. ASSUME NEW g \in Goroutine, NEW q \in Request, Call(g, q) PROVE Sound'
  BY <1>2 DEF Sound, CachesSound, HeldSound, TypeOK, CallsOK, Call, Goto
<1>3. QED
  BY <1>1, <1>2, SoundStep DEF Next

LEMMA SoundAlways == ASSUME SignaturesUnique PROVE Spec => []Sound
<1>1. TypeOK /\ Sound /\ [Next]_vars => Sound'
  BY SoundNext
<1>2. QED
  BY <1>1, SoundInit, TypeCorrect, PTL DEF Spec

(* When designators with one key have one digest, the entries of both caches *)
(* are those of their keys, whichever goroutines raced to store them.        *)
THEOREM CachesAreSound == ASSUME SignaturesUnique PROVE Spec => []CachesSound
<1>1. Sound => CachesSound
  BY DEF Sound
<1>2. QED
  BY <1>1, SoundAlways, PTL

-----------------------------------------------------------------------------
(* Refinement. *)
LEMMA InitRefines == Init => M!MatcherInit
BY DEF Init, M!MatcherInit, Idle

LEMMA ReturnIsReply ==
    ASSUME TypeOK, NEW g \in Goroutine, at[g] # Idle, asked[g] \in Request,
           Return(g, Evaluate(asked[g]))
    PROVE  M!Reply(g)
<1>1. [h \in Goroutine |-> at'[h] # Idle] = [[h \in Goroutine |-> at[h] # Idle] EXCEPT ![g] = FALSE]
  BY DEF Return, Goto, TypeOK, CallsOK
<1>2. answered' = [answered EXCEPT ![g] = [q \in Request |-> Evaluate(q)][asked[g]]]
  BY DEF Return
<1>3. QED
  BY <1>1, <1>2 DEF M!Reply, Return

LEMMA HoldIsStutter ==
    ASSUME TypeOK, NEW g \in Goroutine, at[g] # Idle, NEW value, NEW step, step # Idle,
           Hold(g, value, step)
    PROVE  UNCHANGED M!matcherVars
<1>1. [h \in Goroutine |-> at'[h] # Idle] = [h \in Goroutine |-> at[h] # Idle]
  BY DEF Hold, Goto, TypeOK, CallsOK
<1>2. QED
  BY <1>1 DEF M!matcherVars, Hold

LEMMA StepRefines ==
    ASSUME SignaturesUnique, TypeOK, Sound, NEW g \in Goroutine, Step(g)
    PROVE  M!Reply(g) \/ UNCHANGED M!matcherVars
<1>. USE DEF TypeOK, Sound
<1>1. CASE Load(g)
  <2>. DEFINE q == asked[g]
  <2>1. q \in Compare /\ at[g] # Idle
    BY <1>1, RequestKinds DEF Load, CallsOK, Idle
  <2>2. q \in Request /\ q.op = "compare" /\ q.fold \in BOOLEAN /\ q.pattern \in Pattern
    BY <2>1, RequestKinds
  <2>3. CASE q.pattern \in DOMAIN rexCache[q.fold]
    <3>1. rexCache[q.fold][q.pattern] = Regexp(q.fold, q.pattern)
      BY <2>2, <2>3 DEF CachesSound
    <3>2. q.pattern \notin Invalid
      <4>1. Regexp(q.fold, q.pattern) \in RegexpOf(q.fold)
        BY <2>2, <2>3, <3>1 DEF StoresOK
      <4>2. QED
        BY <4>1, OnlyValidCompile
    <3>3. Return(g, Evaluate(q))
      <4>1. Return(g, Matched(MatchString(Regexp(q.fold, q.pattern), q.name)))
        BY <1>1, <2>3, <3>1 DEF Load
      <4>2. QED
        BY <2>2, <3>2, <4>1, MatchIsEvaluate
    <3>4. QED
      BY <2>1, <2>2, <3>3, ReturnIsReply
  <2>4. CASE q.pattern \notin DOMAIN rexCache[q.fold]
    BY <1>1, <2>1, <2>4, HoldIsStutter DEF Load, Idle
  <2>5. QED
    BY <2>3, <2>4
<1>2. CASE Compile(g)
  <2>1. asked[g] \in Request /\ asked[g].op = "compare" /\ at[g] # Idle
    BY <1>2, RequestKinds DEF Compile, CallsOK, Idle
  <2>2. CASE asked[g].pattern \in Invalid
    <3>1. Return(g, Evaluate(asked[g]))
      BY <1>2, <2>1, <2>2 DEF Compile, Evaluate
    <3>2. QED
      BY <2>1, <3>1, ReturnIsReply
  <2>3. CASE asked[g].pattern \notin Invalid
    BY <1>2, <2>1, <2>3, HoldIsStutter DEF Compile, Idle
  <2>4. QED
    BY <2>2, <2>3
<1>3. CASE Store(g)
  <2>. DEFINE q == asked[g]
  <2>1. q \in Request /\ q.op = "compare" /\ at[g] # Idle
    BY <1>3, RequestKinds DEF Store, CallsOK, Idle
  <2>2. held[g] = Regexp(q.fold, q.pattern) /\ held[g] \in RegexpOf(q.fold)
    BY <1>3 DEF Store, HeldSound, CallsOK
  <2>3. q.pattern \notin Invalid
    BY <2>2, OnlyValidCompile
  <2>4. Return(g, Matched(MatchString(held[g], q.name)))
    BY <1>3 DEF Store
  <2>5. Return(g, Evaluate(q))
    BY <2>1, <2>2, <2>3, <2>4, MatchIsEvaluate
  <2>6. QED
    BY <2>1, <2>5, ReturnIsReply
<1>4. CASE Get(g)
  <2>. DEFINE d == asked[g].designator
  <2>1. /\ asked[g] \in Request /\ asked[g].op = "getAttributes" /\ at[g] # Idle
        /\ d \in Designator
    BY <1>4, RequestKinds DEF Get, CallsOK, Idle
  <2>2. CASE toDesignatorKey(d) \in DOMAIN designatorCache
    <3>1. designatorCache[toDesignatorKey(d)] = Digest(d)
      BY <2>1, <2>2 DEF CachesSound
    <3>2. Return(g, Evaluate(asked[g]))
      BY <1>4, <2>1, <2>2, <3>1 DEF Get, Evaluate
    <3>3. QED
      BY <2>1, <3>2, ReturnIsReply
  <2>3. CASE toDesignatorKey(d) \notin DOMAIN designatorCache
    BY <1>4, <2>1, <2>3, HoldIsStutter DEF Get, Idle
  <2>4. QED
    BY <2>2, <2>3
<1>5. CASE DigestDesignator(g)
  BY <1>5, HoldIsStutter DEF DigestDesignator, Idle
<1>6. CASE Set(g)
  <2>1. asked[g] \in Request /\ asked[g].op = "getAttributes" /\ at[g] # Idle
    BY <1>6, RequestKinds DEF Set, CallsOK, Idle
  <2>2. Return(g, Evaluate(asked[g]))
    BY <1>6, <2>1 DEF Set, HeldSound, Evaluate
  <2>3. QED
    BY <2>1, <2>2, ReturnIsReply
<1>7. QED
  BY <1>1, <1>2, <1>3, <1>4, <1>5, <1>6 DEF Step

LEMMA NextRefines ==
    SignaturesUnique /\ TypeOK /\ Sound /\ [Next]_vars => [M!MatcherNext]_(M!matcherVars)
<1>. SUFFICES ASSUME SignaturesUnique, TypeOK, Sound, [Next]_vars
              PROVE  [M!MatcherNext]_(M!matcherVars)
  OBVIOUS
<1>1. CASE UNCHANGED vars
  BY <1>1 DEF vars, M!matcherVars
<1>2. ASSUME NEW g \in Goroutine, NEW q \in Request, Call(g, q)
      PROVE  M!Ask(g, q)
  <2>1. [h \in Goroutine |-> at'[h] # Idle] = [[h \in Goroutine |-> at[h] # Idle] EXCEPT ![g] = TRUE]
    BY <1>2 DEF Call, Goto, TypeOK, CallsOK, Idle
  <2>2. QED
    BY <1>2, <2>1 DEF M!Ask, Call
<1>3. QED
  BY <1>1, <1>2, StepRefines DEF Next, M!MatcherNext

(* The caches do not show.  When designators with one key have one digest,   *)
(* any number of goroutines get from the shared caches exactly the answers   *)
(* that computing every comparison and every digest afresh would give.       *)
THEOREM CachesAreTransparent == ASSUME SignaturesUnique PROVE Spec => ImplementsMatcher
<1>1. TypeOK /\ Sound /\ [Next]_vars => [M!MatcherNext]_(M!matcherVars)
  BY NextRefines
<1>2. QED
  BY <1>1, InitRefines, TypeCorrect, SoundAlways, PTL DEF Spec, ImplementsMatcher, M!MatcherSpec
=============================================================================

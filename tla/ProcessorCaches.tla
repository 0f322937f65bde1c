--------------------------- MODULE ProcessorCaches ---------------------------
(***************************************************************************)
(* The caches of an exceptions.Processor (comparator.go,                   *)
(* designators_cache.go): compiled regular expressions, one cache for the  *)
(* case sensitive and one for the case insensitive ones, and digested      *)
(* designators.  The goroutines that match exceptions share them: the      *)
(* processor behind FilterExceptionsByFrameworks is a package variable.    *)
(*                                                                         *)
(* Each call looks its key up, computes on a miss and stores, with no lock *)
(* held in between, so several goroutines miss and store together.  One    *)
(* access to a sync.Map, or to the map under its mutex, is one step.       *)
(***************************************************************************)
EXTENDS DesignatorKey

CONSTANTS
    Goroutine,   \* the goroutines that share the processor
    Pattern,     \* the patterns of the exceptions
    Name,        \* the names they are compared with
    Invalid,     \* the patterns regexp.Compile rejects
    Accepts,     \* [fold, pattern, name]: "^pattern$" matches the name
    Designator   \* the designators of the exceptions

Compare == [op : {"compare"}, fold : BOOLEAN, pattern : Pattern, name : Name]
GetAttributes == [op : {"getAttributes"}, designator : Designator]
Request == Compare \union GetAttributes

(* The steps of a call. *)
Idle == "idle"
Steps == {Idle, "lookup", "compile", "store", "digest", "set"}

Nothing == [op |-> "none"]

VARIABLES
    rexCache,         \* rexCache[fold]: irexCache if fold, rexCache if not
    designatorCache,  \* innerMap, from keys to digested attributes
    at,               \* at[g]: the next step of g's call
    asked,            \* asked[g]: the arguments of g's last call
    held,             \* held[g]: what the call computed and has to store
    answered          \* answered[g]: what the call returned

vars == <<rexCache, designatorCache, at, asked, held, answered>>

Empty == [k \in {} |-> Nothing]

Init ==
    /\ rexCache = [fold \in BOOLEAN |-> Empty]
    /\ designatorCache = Empty
    /\ at = [g \in Goroutine |-> Idle]
    /\ asked = [g \in Goroutine |-> Nothing]
    /\ held = [g \in Goroutine |-> Nothing]
    /\ answered = [g \in Goroutine |-> Nothing]

-----------------------------------------------------------------------------
Put(cache, key, value) ==
    [k \in DOMAIN cache \union {key} |-> IF k = key THEN value ELSE cache[k]]

(* regexp.Compile of "^pattern$", with "(?i)" in front of it when fold; and  *)
(* MatchString of what it returns.                                           *)
Regexp(fold, pattern) == [fold |-> fold, pattern |-> pattern]
MatchString(rex, name) == [fold |-> rex.fold, pattern |-> rex.pattern, name |-> name] \in Accepts

(* What a comparison returns. *)
Matched(b) == [match |-> b]

Goto(g, step) == at' = [at EXCEPT ![g] = step]

Return(g, answer) ==
    /\ Goto(g, Idle)
    /\ held' = [held EXCEPT ![g] = Nothing]
    /\ answered' = [answered EXCEPT ![g] = answer]
    /\ UNCHANGED asked

Hold(g, value, step) ==
    /\ Goto(g, step)
    /\ held' = [held EXCEPT ![g] = value]
    /\ UNCHANGED <<asked, answered>>

Call(g, request) ==
    /\ at[g] = Idle
    /\ asked' = [asked EXCEPT ![g] = request]
    /\ answered' = [answered EXCEPT ![g] = Nothing]
    /\ Goto(g, "lookup")
    /\ UNCHANGED <<rexCache, designatorCache, held>>

(* regexCompare and regexCompareI: Load, Compile, Store.                     *)
Load(g) ==
    LET q == asked[g] IN
    /\ at[g] = "lookup" /\ q.op = "compare"
    /\ IF q.pattern \in DOMAIN rexCache[q.fold]
       THEN Return(g, Matched(MatchString(rexCache[q.fold][q.pattern], q.name)))
       ELSE Hold(g, Nothing, "compile")
    /\ UNCHANGED <<rexCache, designatorCache>>

(* Mutated: a pattern that does not compile is looked up again.              *)
Compile_RetryBug(g) ==
    LET q == asked[g] IN
    /\ at[g] = "compile"
    /\ IF q.pattern \in Invalid
       THEN Hold(g, Nothing, "lookup")
       ELSE Hold(g, Regexp(q.fold, q.pattern), "store")
    /\ UNCHANGED <<rexCache, designatorCache>>

(* Mutated: the error of Compile is not looked at.                           *)
Compile_NoErrorBug(g) ==
    LET q == asked[g] IN
    /\ at[g] = "compile"
    /\ Hold(g, IF q.pattern \in Invalid THEN Nothing ELSE Regexp(q.fold, q.pattern), "store")
    /\ UNCHANGED <<rexCache, designatorCache>>

Compile(g) ==
    LET q == asked[g] IN
    /\ at[g] = "compile"
    /\ IF q.pattern \in Invalid
       THEN Return(g, Matched(FALSE))
       ELSE Hold(g, Regexp(q.fold, q.pattern), "store")
    /\ UNCHANGED <<rexCache, designatorCache>>

(* Mutated: both methods keep their regular expressions in one cache.        *)
Store_Bug(g) ==
    LET q == asked[g] IN
    /\ at[g] = "store"
    /\ rexCache' = [fold \in BOOLEAN |-> Put(rexCache[fold], q.pattern, held[g])]
    /\ Return(g, Matched(MatchString(held[g], q.name)))
    /\ UNCHANGED designatorCache

Store(g) ==
    LET q == asked[g] IN
    /\ at[g] = "store"
    /\ rexCache' = [rexCache EXCEPT ![q.fold] = Put(@, q.pattern, held[g])]
    /\ Return(g, Matched(MatchString(held[g], q.name)))
    /\ UNCHANGED designatorCache

(* getAttributes: Get, DigestPortalDesignator, Set.                          *)
Get(g) ==
    LET q == asked[g] IN
    /\ at[g] = "lookup" /\ q.op = "getAttributes"
    /\ IF toDesignatorKey(q.designator) \in DOMAIN designatorCache
       THEN Return(g, designatorCache[toDesignatorKey(q.designator)])
       ELSE Hold(g, Nothing, "digest")
    /\ UNCHANGED <<rexCache, designatorCache>>

DigestDesignator(g) ==
    /\ at[g] = "digest"
    /\ Hold(g, Digest(asked[g].designator), "set")
    /\ UNCHANGED <<rexCache, designatorCache>>

Set(g) ==
    LET q == asked[g] IN
    /\ at[g] = "set"
    /\ designatorCache' = Put(designatorCache, toDesignatorKey(q.designator), held[g])
    /\ Return(g, held[g])
    /\ UNCHANGED rexCache

Step(g) ==
    \/ Load(g) \/ Compile(g) \/ Store(g)
    \/ Get(g) \/ DigestDesignator(g) \/ Set(g)

Next == \E g \in Goroutine : Step(g) \/ \E request \in Request : Call(g, request)

(* The runtime schedules every goroutine that can run; no step of a call     *)
(* waits for another goroutine beyond a critical section.                    *)
Fairness == \A g \in Goroutine : WF_vars(Step(g))

Spec == Init /\ [][Next]_vars /\ Fairness

-----------------------------------------------------------------------------
(* What a fresh computation answers. *)
Evaluate(q) ==
    IF q.op = "compare"
    THEN Matched(/\ q.pattern \notin Invalid
                 /\ [fold |-> q.fold, pattern |-> q.pattern, name |-> q.name] \in Accepts)
    ELSE Digest(q.designator)

RegexpOf(fold) == {Regexp(fold, p) : p \in Pattern \ Invalid}
Digests == {Digest(d) : d \in Designator}
Keys == {toDesignatorKey(d) : d \in Designator}

Answers == {Matched(b) : b \in BOOLEAN} \union Digests

CallsOK ==
    /\ at \in [Goroutine -> Steps]
    /\ asked \in [Goroutine -> Request \union {Nothing}]
    /\ answered \in [Goroutine -> Answers \union {Nothing}]
    /\ DOMAIN held = Goroutine
    /\ \A g \in Goroutine :
          /\ at[g] \in {"compile", "store"} => asked[g] \in Compare
          /\ at[g] \in {"digest", "set"} => asked[g] \in GetAttributes
          /\ at[g] = "lookup" => asked[g] \in Request
          /\ at[g] = "store" => held[g] \in RegexpOf(asked[g].fold)
          /\ at[g] = "set" => held[g] \in Digests

StoresOK ==
    /\ DOMAIN rexCache = BOOLEAN
    /\ \A fold \in BOOLEAN :
          /\ DOMAIN rexCache[fold] \subseteq Pattern
          /\ \A p \in DOMAIN rexCache[fold] : rexCache[fold][p] \in RegexpOf(fold)
    /\ DOMAIN designatorCache \subseteq Keys
    /\ \A k \in DOMAIN designatorCache : designatorCache[k] \in Digests

(* Type invariant. *)
TypeOK == CallsOK /\ StoresOK

(* Whichever goroutines raced to fill them, the entries of the caches are    *)
(* those of their own keys: the regular expression compiled from that        *)
(* pattern, the digest of every designator that has that key.                *)
CachesSound ==
    /\ \A fold \in BOOLEAN : \A p \in DOMAIN rexCache[fold] :
          rexCache[fold][p] = Regexp(fold, p)
    /\ \A d \in Designator :
          toDesignatorKey(d) \in DOMAIN designatorCache =>
              designatorCache[toDesignatorKey(d)] = Digest(d)

(* The caches do not show: every call returns what a fresh computation would *)
(* return, whatever other goroutines load, compute and store meanwhile.      *)
M == INSTANCE ExceptionMatcher WITH
        Answer <- [q \in Request |-> Evaluate(q)],
        busy <- [g \in Goroutine |-> at[g] # Idle]

ImplementsMatcher == M!MatcherSpec

(* Every comparison and every digest returns, also those of patterns that do *)
(* not compile: no call depends on another one filling a cache.              *)
EveryCallReturns ==
    \A g \in Goroutine : at[g] # Idle ~> at[g] = Idle

-----------------------------------------------------------------------------
(* What the keys must provide for the cache of designators: designators with *)
(* one key have one digest.  (hashmap.go: HashMap computes a set-hash as a   *)
(* unique signature for the content of the input map.)                       *)
SignaturesUnique ==
    \A d, e \in Designator :
        toDesignatorKey(d) = toDesignatorKey(e) => Digest(d) = Digest(e)

(* A claim of the source's comments: the attributes a designator gets from   *)
(* the cache are its own.                                                    *)
AttributesAreOwn ==
    \A g \in Goroutine :
        asked[g].op = "getAttributes" /\ at[g] = Idle
            => answered[g] = Digest(asked[g].designator)
=============================================================================
